----------------------------- MODULE AutoForward -----------------------------
(* The automatic-forward Watcher over the relay session: every interval it    *)
(* scans the listening sockets of WSL, closes the mappings that no longer     *)
(* match, and opens the missing ones, each in a goroutine of its own, through *)
(* the sessionDialer.  When the session is cleared its hook calls Reset from  *)
(* the session's goroutine, while a scan, an open or a close is under way.    *)
(* DatagramWatcher runs the same Watcher.  The status file, the port offset   *)
(* and the length of the back-off are left out; at most maxConcurrentOpens    *)
(* ports are scanned, so no open waits for a slot.                            *)
EXTENDS RelaySession

CONSTANTS
    Hosts,       \* the addresses a WSL listener of one port may have
    MaxChanges   \* bound on the changes of the WSL listeners

ASSUME ChangesAssumption == MaxChanges \in Nat

VARIABLES
    host,      \* each port: the address it listens on in WSL, or NoHost
    changes,   \* changes so far
    active,    \* w.active: each port's mapping, or NoId
    of,        \* its activeMapping.listener: the address it was made for
    rejected,  \* w.rejectedAt while its retryAfter is in the future, or NoHost
    generation,
    cancel,    \* w.attemptCancel # nil
    taken,     \* Reset holds the attemptCancel of the running attempt
    cancelled, \* the context of the attempt is cancelled
    loop,      \* where sync is
    desired,   \* what the scan found
    todo,      \* ports that the attempt has yet to look at
    removed,   \* mappings that sync still has to close
    doomed,    \* mappings that Reset still has to close
    worker,    \* each port: where openOne is
    wid,       \* its listener
    gen        \* the generation it was started with

mapVars == <<active, of, rejected, generation>>
attemptVars == <<cancel, taken, cancelled, loop, desired, todo, removed>>
workerVars == <<worker, wid, gen>>
watchVars == <<host, changes, mapVars, attemptVars, doomed, workerVars>>
relayVars == <<sessionVars, watchVars>>

NoHost == "nohost"

(* Type correctness of the watcher and of the session below it.               *)
WatchTypeOK ==
    /\ SessionTypeOK
    /\ host \in [Keys -> Hosts \cup {NoHost}] /\ changes \in 0 .. MaxChanges
    /\ active \in [Keys -> Ids \cup {NoId}] /\ of \in [Keys -> Hosts \cup {NoHost}]
    /\ rejected \in [Keys -> Hosts \cup {NoHost}]
    /\ generation \in 0 .. MaxRestarts
    /\ cancel \in BOOLEAN /\ taken \in BOOLEAN /\ cancelled \in BOOLEAN
    /\ loop \in {"tick", "close", "begin", "plan", "wait"}
    /\ desired \in [Keys -> Hosts \cup {NoHost}] /\ todo \in SUBSET Keys
    /\ removed \in SUBSET Ids /\ doomed \in SUBSET Ids
    /\ worker \in [Keys -> {"idle", "dial", "write", "wait", "commit", "opened", "failed",
                            "reject", "restore", "publish", "close"}]
    /\ wid \in [Keys -> Ids \cup {NoId}] /\ gen \in [Keys -> 0 .. MaxRestarts]

WatchInit ==
    /\ SessionInit
    /\ host \in [Keys -> Hosts \cup {NoHost}] /\ changes = 0
    /\ active = [k \in Keys |-> NoId] /\ of = [k \in Keys |-> NoHost]
    /\ rejected = [k \in Keys |-> NoHost] /\ generation = 0
    /\ cancel = FALSE /\ taken = FALSE /\ cancelled = FALSE
    /\ loop = "tick" /\ desired = [k \in Keys |-> NoHost] /\ todo = {} /\ removed = {}
    /\ doomed = {}
    /\ worker = [k \in Keys |-> "idle"] /\ wid = [k \in Keys |-> NoId] /\ gen = [k \in Keys |-> 0]

Held == {active[k] : k \in Keys} \cup removed \cup doomed \cup {wid[k] : k \in Keys} \cup {static}

(* A program in WSL starts, stops or moves a listener. *)
LocalChange(k) ==
    /\ Running /\ changes < MaxChanges
    /\ changes' = changes + 1
    /\ \E h \in (Hosts \cup {NoHost}) \ {host[k]} : host' = [host EXCEPT ![k] = h]
    /\ UNCHANGED <<sessionVars, mapVars, attemptVars, doomed, workerVars>>

-----------------------------------------------------------------------------
(* sync. *)

Outdated == {k \in Keys : active[k] # NoId /\ of[k] # host[k]}

(* Scan, then under the mutex: mappings and rejections of other listeners     *)
(* are dropped.                                                               *)
Scan ==
    /\ Running /\ loop = "tick"
    /\ desired' = host
    /\ removed' = {active[k] : k \in Outdated}
    /\ active' = [k \in Keys |-> IF k \in Outdated THEN NoId ELSE active[k]]
    /\ of' = [k \in Keys |-> IF k \in Outdated THEN NoHost ELSE of[k]]
    /\ rejected' = [k \in Keys |-> IF k \notin Outdated /\ rejected[k] = host[k]
                                  THEN rejected[k] ELSE NoHost]
    /\ loop' = IF removed' = {} THEN "begin" ELSE "close"
    /\ UNCHANGED <<sessionVars, host, changes, generation, cancel, taken, cancelled, todo, doomed, workerVars>>

CloseRemoved ==
    /\ Running /\ loop = "close"
    /\ \E i \in removed :
          /\ CloseListener(i)
          /\ removed' = removed \ {i}
    /\ loop' = IF removed' = {} THEN "begin" ELSE "close"
    /\ UNCHANGED <<broker, bound, pending, link, s2c, loopVars, faults, overtaken, severed, failed,
                   host, changes, mapVars, cancel, taken, cancelled, desired, todo, doomed, workerVars>>

(* The attempt gets its context before any generation is read. *)
BeginAttempt ==
    /\ Running /\ loop = "begin"
    /\ cancel' = TRUE /\ cancelled' = FALSE
    /\ todo' = {k \in Keys : desired[k] # NoHost}
    /\ loop' = IF todo' = {} THEN "wait" ELSE "plan"
    /\ UNCHANGED <<sessionVars, host, changes, mapVars, taken, desired, removed, doomed, workerVars>>

Mapped(k) == active[k] # NoId /\ of[k] = desired[k]

(* For each port under the mutex: is it active or held back, and which        *)
(* generation is it.                                                          *)
Plan ==
    /\ Running /\ loop = "plan"
    /\ \E k \in todo :
          /\ todo' = todo \ {k}
          /\ \/ /\ ~Mapped(k) /\ rejected[k] = NoHost
                /\ worker' = [worker EXCEPT ![k] = "dial"]
                /\ gen' = [gen EXCEPT ![k] = generation]
             \/ /\ Mapped(k) \/ rejected[k] # NoHost
                /\ UNCHANGED <<worker, gen>>
    /\ loop' = IF todo' = {} THEN "wait" ELSE "plan"
    /\ UNCHANGED <<sessionVars, host, changes, mapVars, cancel, taken, cancelled, desired, removed, doomed, wid>>

(* The attempt and its context are over. *)
SyncDone ==
    /\ Running /\ loop = "wait" /\ \A k \in Keys : worker[k] = "idle"
    /\ loop' = "tick" /\ desired' = [k \in Keys |-> NoHost]
    /\ cancel' = FALSE /\ taken' = FALSE /\ cancelled' = FALSE
    /\ gen' = [k \in Keys |-> 0]
    /\ UNCHANGED <<sessionVars, host, changes, mapVars, todo, removed, doomed, worker, wid>>

Sync == Scan \/ CloseRemoved \/ BeginAttempt \/ Plan \/ SyncDone

BackoffEnds(k) ==
    /\ Running /\ rejected[k] # NoHost
    /\ rejected' = [rejected EXCEPT ![k] = NoHost]
    /\ UNCHANGED <<sessionVars, host, changes, active, of, generation, attemptVars, doomed, workerVars>>

-----------------------------------------------------------------------------
(* openOne, in its goroutine. *)

Goto(k, pc) == worker' = [worker EXCEPT ![k] = pc]

(* The select before openOne may see the cancelled context and return. *)
Skip(k) ==
    /\ Running /\ worker[k] = "dial" /\ cancelled
    /\ Goto(k, "idle")
    /\ UNCHANGED <<sessionVars, host, changes, mapVars, attemptVars, doomed, wid, gen>>

(* reserveReverseForward: with a client the listener is registered.           *)
OpenReserve(k) ==
    /\ Running /\ worker[k] = "dial" /\ dialer /\ FreeIds(k, Held) # {}
    /\ LET i == NewId(k, Held) IN
       /\ Reserve(i)
       /\ wid' = [wid EXCEPT ![k] = i]
    /\ Goto(k, "write")
    /\ UNCHANGED <<wireVars, loopVars, host, changes, mapVars, attemptVars, doomed, gen>>

(* Without one it waits until it is cancelled or OpenTimeout passes.          *)
OpenGivesUp(k) ==
    /\ Running /\ worker[k] = "dial" /\ ~dialer
    /\ Goto(k, "failed")
    /\ UNCHANGED <<sessionVars, host, changes, mapVars, attemptVars, doomed, wid, gen>>

OpenWrite(k) ==
    /\ Running /\ worker[k] = "write" /\ WriteFrame("listen", wid[k])
    /\ Goto(k, "wait")
    /\ UNCHANGED <<clientVars, broker, bound, pending, link, s2c, loopVars, ghostVars,
                   host, changes, mapVars, attemptVars, doomed, wid, gen>>

OpenAnswer(k) ==
    /\ Running /\ worker[k] = "wait" /\ ready[wid[k]] # "none"
    /\ ready' = [ready EXCEPT ![wid[k]] = "none"]
    /\ \/ /\ ready[wid[k]] = "ok"
          /\ Goto(k, "commit")
          /\ UNCHANGED <<registered, wid>>
       \/ /\ ready[wid[k]] = "err"
          /\ registered' = registered \ {wid[k]}
          /\ wid' = [wid EXCEPT ![k] = NoId]
          /\ Goto(k, "failed")
    /\ UNCHANGED <<wireVars, loopVars, ghostVars, host, changes, mapVars, attemptVars, doomed, gen>>

NoAnswer(i) ==
    ready[i] = "none" /\ pending[i] = "none" /\ i \notin InFlight(c2s) \cup InFlight(s2c)

(* The select of ReserveReverseForward takes its context's end: cancelled by  *)
(* Reset, or timed out because no answer will come.                           *)
OpenCancelled(k) ==
    /\ Running /\ worker[k] = "wait"
    /\ cancelled \/ NoAnswer(wid[k])
    /\ CloseListener(wid[k])
    /\ wid' = [wid EXCEPT ![k] = NoId]
    /\ Goto(k, "failed")
    /\ UNCHANGED <<broker, bound, pending, link, s2c, loopVars, faults, overtaken, severed, failed,
                   host, changes, mapVars, attemptVars, doomed, gen>>

(* OpenTimeout races the answer. *)
OpenTimesOut(k) ==
    /\ Running /\ worker[k] = "wait" /\ Fault
    /\ CloseListener(wid[k])
    /\ wid' = [wid EXCEPT ![k] = NoId]
    /\ Goto(k, "failed")
    /\ UNCHANGED <<broker, bound, pending, link, s2c, loopVars, overtaken, severed, failed,
                   host, changes, mapVars, attemptVars, doomed, gen>>

(* Mutant: the reservation is kept and never committed. *)
OpenCommitForgotten(k) ==
    /\ Running /\ worker[k] = "commit"
    /\ Goto(k, "opened")
    /\ UNCHANGED <<sessionVars, host, changes, mapVars, attemptVars, doomed, wid, gen>>

(* sessionDialer.ReverseForward commits what it reserved. *)
OpenCommit(k) ==
    /\ Running /\ worker[k] = "commit" /\ WriteFrame("commit", wid[k])
    /\ Goto(k, "opened")
    /\ UNCHANGED <<clientVars, broker, bound, pending, link, s2c, loopVars, ghostVars,
                   host, changes, mapVars, attemptVars, doomed, wid, gen>>

(* The first look at the generation, then at the attempt's context. *)
Check(k) ==
    /\ Running /\ worker[k] \in {"opened", "failed"}
    /\ Goto(k, IF gen[k] # generation \/ cancelled
               THEN IF wid[k] = NoId THEN "idle" ELSE "close"
               ELSE IF worker[k] = "failed" THEN "reject" ELSE "restore")
    /\ UNCHANGED <<sessionVars, host, changes, mapVars, attemptVars, doomed, wid, gen>>

(* Neither of these two critical sections looks at the generation again.      *)
Reject(k) ==
    /\ Running /\ worker[k] = "reject"
    /\ rejected' = [rejected EXCEPT ![k] = desired[k]]
    /\ Goto(k, "idle")
    /\ UNCHANGED <<sessionVars, host, changes, active, of, generation, attemptVars, doomed, wid, gen>>

Restore(k) ==
    /\ Running /\ worker[k] = "restore"
    /\ rejected' = [rejected EXCEPT ![k] = NoHost]
    /\ Goto(k, "publish")
    /\ UNCHANGED <<sessionVars, host, changes, active, of, generation, attemptVars, doomed, wid, gen>>

(* Mutant: the generation is not looked at a second time. *)
PublishBlind(k) ==
    /\ Running /\ worker[k] = "publish"
    /\ active' = [active EXCEPT ![k] = wid[k]]
    /\ of' = [of EXCEPT ![k] = desired[k]]
    /\ wid' = [wid EXCEPT ![k] = NoId]
    /\ Goto(k, "idle")
    /\ UNCHANGED <<sessionVars, host, changes, rejected, generation, attemptVars, doomed, gen>>

(* The second look, in the critical section that publishes the mapping.       *)
Publish(k) ==
    /\ Running /\ worker[k] = "publish"
    /\ \/ /\ gen[k] = generation
          /\ active' = [active EXCEPT ![k] = wid[k]]
          /\ of' = [of EXCEPT ![k] = desired[k]]
          /\ wid' = [wid EXCEPT ![k] = NoId]
          /\ Goto(k, "idle")
       \/ /\ gen[k] # generation
          /\ Goto(k, "close")
          /\ UNCHANGED <<active, of, wid>>
    /\ UNCHANGED <<sessionVars, host, changes, rejected, generation, attemptVars, doomed, gen>>

CloseOpened(k) ==
    /\ Running /\ worker[k] = "close"
    /\ CloseListener(wid[k])
    /\ wid' = [wid EXCEPT ![k] = NoId]
    /\ Goto(k, "idle")
    /\ UNCHANGED <<broker, bound, pending, link, s2c, loopVars, faults, overtaken, severed, failed,
                   host, changes, mapVars, attemptVars, doomed, gen>>

OpenOne(k) ==
    Skip(k) \/ OpenReserve(k) \/ OpenGivesUp(k) \/ OpenWrite(k) \/ OpenAnswer(k) \/ OpenCancelled(k)
    \/ OpenCommit(k) \/ Check(k) \/ Reject(k) \/ Restore(k) \/ Publish(k) \/ CloseOpened(k)

-----------------------------------------------------------------------------
(* Reset, which sessionDialer.clear calls in the session's goroutine. *)

(* Mutant: a port without a mapping counts as one. *)
EveryMapping == {active[k] : k \in Keys}

(* The mappings there are. *)
Mappings == {active[k] : k \in Keys} \ {NoId}

(* Its critical section. *)
ResetLocked ==
    /\ sess = "hook"
    /\ doomed' = Mappings
    /\ active' = [k \in Keys |-> NoId] /\ of' = [k \in Keys |-> NoHost]
    /\ rejected' = [k \in Keys |-> NoHost]
    /\ generation' = generation + 1
    /\ taken' = cancel /\ cancel' = FALSE
    /\ sess' = "cancel"
    /\ UNCHANGED <<clientVars, wireVars, peer, inited, dialer, static, ghostVars, host, changes,
                   cancelled, loop, desired, todo, removed, workerVars>>

(* The attempt is cancelled if it is still the one whose cancel was taken.    *)
ResetCancels ==
    /\ sess = "cancel"
    /\ cancelled' = (cancelled \/ taken) /\ taken' = FALSE
    /\ IF doomed = {} THEN Cleared
       ELSE sess' = "close" /\ UNCHANGED <<peer, inited, dialer, static>>
    /\ UNCHANGED <<clientVars, wireVars, ghostVars, host, changes,
                   mapVars, cancel, loop, desired, todo, removed, doomed, workerVars>>

ResetCloses ==
    /\ sess = "close"
    /\ \E i \in doomed :
          /\ CloseListener(i)
          /\ doomed' = doomed \ {i}
    /\ IF doomed' = {} THEN Cleared ELSE UNCHANGED loopVars
    /\ UNCHANGED <<broker, bound, pending, link, s2c, faults, overtaken, severed, failed,
                   host, changes, mapVars, attemptVars, workerVars>>

Reset == ResetLocked \/ ResetCancels \/ ResetCloses
Session == (SessionStep(Held) /\ UNCHANGED watchVars) \/ Reset
DispatchFrame == Dispatch /\ UNCHANGED watchVars
HandleFrame == BrokerHandles /\ UNCHANGED watchVars
RunListener(i) == ListenerRuns(i) /\ UNCHANGED watchVars
Outage == (ConnectorExit \/ BrokerRestart \/ \E i \in Ids : AcceptFails(i)) /\ UNCHANGED watchVars

WatchNext ==
    \/ Session \/ DispatchFrame \/ HandleFrame \/ Outage \/ Sync
    \/ \E i \in Ids : RunListener(i)
    \/ \E k \in Keys : LocalChange(k) \/ BackoffEnds(k) \/ OpenOne(k) \/ OpenTimesOut(k)

(* Goroutines run, frames travel and timers expire. *)
WatchFairness ==
    /\ WF_relayVars(Session) /\ WF_relayVars(DispatchFrame) /\ WF_relayVars(HandleFrame) /\ WF_relayVars(Sync)
    /\ \A i \in Ids : WF_relayVars(RunListener(i))
    /\ \A k \in Keys : WF_relayVars(OpenOne(k)) /\ WF_relayVars(BackoffEnds(k))

WatchSpec == WatchInit /\ [][WatchNext]_relayVars /\ WatchFairness

-----------------------------------------------------------------------------
(* Properties. *)

(* The broker the watcher's mappings belong to is gone, and Reset is to come. *)
ResetPending == broker # peer \/ sess \in {"invalidate", "clear", "hook"}

(* Whatever the watcher calls active is a listener that the client knows and  *)
(* the broker that is running has bound, unless a Reset is still to come:     *)
(* openOne must not publish a mapping that Reset could not see.  The one      *)
(* exception is a Windows listener that failed by itself (server.go:604): the *)
(* client passes over the LISTEN_CLOSE that says so, and the mapping stays.   *)
ActiveIsLive ==
    \A k \in Keys : active[k] # NoId =>
        \/ ResetPending
        \/ active[k] \in registered /\ (bound[active[k]] # "none" \/ active[k] \in failed)

Orphan(i) ==
    bound[i] # "none" /\ i \notin registered
    /\ \A n \in 1 .. Len(c2s) : c2s[n] # Frame("unlisten", i)

(* A listener registered at the client is in someone's hands, and a Windows   *)
(* listener whose registration is gone is about to be closed.  The exceptions *)
(* are listeners that lost a frame with a connector (closeFrameTimeout        *)
(* included), those whose LISTEN_CLOSE overtook the goroutine that LISTEN_OPEN *)
(* starts, and those that ResetPeerState invalidated and whose LISTEN_OPEN a  *)
(* broker handled all the same, before that or after it.                      *)
ListenersOwned ==
    /\ registered \subseteq Held
    /\ \A i \in Ids : Orphan(i) => i \in lost \cup overtaken \cup severed

Hung == link = "down" /\ sess \in {"write", "wait", "commit"}
ServesListener(k) ==
    LET i == active[k] IN
    i # NoId /\ of[k] = host[k] /\ (bound[i] = "serving" \/ i \in lost \cup failed)
Squatted(k) == \E i \in Ids : Orphan(i) /\ PortOf(i) = k
Released(k) == active[k] = NoId /\ \A i \in BoundIds : PortOf(i) = k => Orphan(i)
PortsSettled ==
    \A k \in Keys :
        IF host[k] = NoHost THEN Released(k) ELSE ServesListener(k) \/ Squatted(k)

(* Once nothing changes any more, every listening WSL port ends up mapped to  *)
(* where it listens and the Windows ports of the others are given back:       *)
(* whatever Reset, the back-off and the failures did in between.  The         *)
(* exceptions: the proxy ended; registerMappings hangs; an orphan holds the   *)
(* Windows port; the mapping lost its COMMIT with a connector, or its Windows *)
(* listener failed, of which the watcher learns nothing.                      *)
MappingsSettle == <>[]PortsSettled \/ <>(sess = "ended") \/ <>[]Hung

(* What README.md promises of broker mode: a connector that is gone is        *)
(* replaced, or the proxy gives up and is restarted.                          *)
ConnectorReplaced == (link = "down") ~> (link = "up" \/ sess = "ended")

=============================================================================
