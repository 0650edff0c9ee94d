---------------------------- MODULE StrictLeases ----------------------------
(* listencontrol.Server: the leases behind intercepted listen() calls.  A    *)
(* handler reserves a Windows port, registers the lease and answers; COMMIT  *)
(* makes it accept.  When wsl-proxy has a new relay session it rebinds every *)
(* lease there, and a background loop retries the leases without a           *)
(* reservation.  Owners come and go, so a lease can be removed at any time.  *)
EXTENDS Naturals, FiniteSets

CONSTANTS
    Leases,       \* the RESERVE requests made, one lease id each
    Datagram,     \* those of udp4 and udp6
    MaxLeases,    \* Server.MaxLeases
    MaxSessions   \* bounds the relay sessions wsl-proxy starts

ASSUME DatagramAssumption == Datagram \subseteq Leases
ASSUME MaxLeasesAssumption == MaxLeases \in Nat \ {0}
ASSUME MaxSessionsAssumption == MaxSessions \in Nat

None == "none"
ASSUME NoneAssumption == None \notin Leases

(* Reservation objects of one lease; more than it can have at a time.        *)
Objects == 1..2

VARIABLES
    alive,          \* the relay session: up or down
    sessions,       \* sessions started so far
    due,            \* yes while runSession has not come to rebindControl
    req,            \* each RESERVE handler: none, waiting, holding, reply, done
    hand,           \* the reservation it holds, 0 without
    pendingLeases,  \* Server.pendingLeases
    leases,         \* the keys of Server.leases
    hold,           \* lease.reservation, 0 for nil
    committed,      \* leases with lease.committed
    commit,         \* each COMMIT handler: idle, or found its lease
    removing,       \* deleted from the map, reservation not yet closed
    sock,           \* the Windows socket of each reservation
    pass,           \* rebind: idle, or all (Rebind) or missing (RetryMissing)
    at,             \* where it is: next, release, reserve, install, set
    todo,           \* the entries it has not come to
    entry,          \* the one it is at
    old,            \* the reservation it took out of the entry, 0 without
    rep,            \* its replacement, 0 without
    service         \* running, stopping (context done) or closed

session == <<alive, sessions, due>>
handlers == <<req, hand, pendingLeases, commit>>
rebinder == <<pass, at, todo, entry, old, rep>>
vars == <<session, handlers, leases, hold, committed, removing, sock, rebinder, service>>

SockStates == {"none", "bound", "accepting", "dead"}

TypeOK ==
    /\ alive \in {"up", "down"} /\ sessions \in 0..MaxSessions /\ due \in {"yes", "no"}
    /\ req \in [Leases -> {"none", "waiting", "holding", "reply", "done"}]
    /\ hand \in [Leases -> {0} \cup Objects]
    /\ pendingLeases \in Nat
    /\ leases \in SUBSET Leases
    /\ hold \in [Leases -> {0} \cup Objects]
    /\ committed \in SUBSET Leases
    /\ commit \in [Leases -> {"idle", "found"}]
    /\ removing \in SUBSET Leases
    /\ sock \in [Leases -> [Objects -> SockStates]]
    /\ pass \in {"idle", "all", "missing"}
    /\ at \in {"next", "release", "reserve", "install", "set"}
    /\ todo \in SUBSET Leases
    /\ entry \in Leases \cup {None}
    /\ old \in {0} \cup Objects /\ rep \in {0} \cup Objects
    /\ service \in {"running", "stopping", "closed"}

Init ==
    /\ alive = "down" /\ sessions = 0 /\ due = "no"
    /\ req = [l \in Leases |-> "none"] /\ hand = [l \in Leases |-> 0] /\ pendingLeases = 0
    /\ leases = {} /\ hold = [l \in Leases |-> 0] /\ committed = {}
    /\ commit = [l \in Leases |-> "idle"] /\ removing = {}
    /\ sock = [l \in Leases |-> [k \in Objects |-> "none"]]
    /\ pass = "idle" /\ at = "next" /\ todo = {} /\ entry = None /\ old = 0 /\ rep = 0
    /\ service = "running"

-----------------------------------------------------------------------------
(* Reservations. *)

Open(l, k) == sock[l][k] \in {"bound", "accepting"}

Referenced(l) == {hold[l], hand[l]} \cup (IF entry = l THEN {old, rep} ELSE {})

(* A new reservation object: any that nobody has. *)
Fresh(l) == CHOOSE k \in Objects \ Referenced(l) : TRUE

(* LISTEN_OPEN on the session: the port must be free.  A datagram socket     *)
(* serves from the start.                                                    *)
Bind(l) ==
    /\ alive = "up" /\ \A k \in Objects : ~Open(l, k)
    /\ Objects \ Referenced(l) # {}
    /\ sock' = [sock EXCEPT ![l][Fresh(l)] = IF l \in Datagram THEN "accepting" ELSE "bound"]

(* Close ends it, once; on a dead session there is nothing left to end.      *)
Closed(l, k) == IF k = 0 THEN sock ELSE [sock EXCEPT ![l][k] = "none"]

(* Commit writes LISTEN_COMMIT; noCommitReservation does nothing.            *)
Accepting(l, k) ==
    IF sock[l][k] = "bound" THEN [sock EXCEPT ![l][k] = "accepting"] ELSE sock

(* On a dead session the write may fail or vanish into the pipe.             *)
CommitMayFail(l, k) == l \notin Datagram /\ sock[l][k] = "dead"

(* The rebinder holds lease.mu from its commit until it has set the          *)
(* reservation; everyone else holds it for a single step.                    *)
Locked(l) == entry = l /\ at = "set"

(* The map part of remove, removeOwner and closeAll. *)
Unregister(ls) ==
    /\ leases' = leases \ ls
    /\ removing' = removing \cup (leases \cap ls)

-----------------------------------------------------------------------------
(* The relay session, as runSession runs it. *)

(* Handshake done and dialer.set; one session at a time, and the previous    *)
(* one has returned from rebindControl.                                      *)
SessionUp ==
    /\ service = "running" /\ sessions < MaxSessions
    /\ alive = "down" /\ due = "no" /\ pass # "all"
    /\ alive' = "up" /\ due' = "yes" /\ sessions' = sessions + 1
    /\ UNCHANGED <<handlers, leases, hold, committed, removing, sock, rebinder, service>>

(* The transport ends, and with it every Windows socket; or the mappings of  *)
(* the configuration could not be registered and runSession gives up.        *)
SessionDies ==
    /\ alive = "up"
    /\ alive' = "down"
    /\ sock' = [l \in Leases |-> [k \in Objects |-> IF Open(l, k) THEN "dead" ELSE sock[l][k]]]
    /\ \/ UNCHANGED due
       \/ due = "yes" /\ due' = "no"
    /\ UNCHANGED <<sessions, handlers, leases, hold, committed, removing, rebinder, service>>

-----------------------------------------------------------------------------
(* handleReserve. *)

(* acquireLeaseSlot, or the answer that the limit is reached. *)
Reserve(l) ==
    /\ service = "running" /\ req[l] = "none"
    /\ \/ /\ Cardinality(leases) + pendingLeases < MaxLeases
          /\ pendingLeases' = pendingLeases + 1
          /\ req' = [req EXCEPT ![l] = "waiting"]
       \/ /\ ~(Cardinality(leases) + pendingLeases < MaxLeases)
          /\ req' = [req EXCEPT ![l] = "done"]
          /\ UNCHANGED pendingLeases
    /\ UNCHANGED <<session, hand, commit, leases, hold, committed, removing, sock, rebinder, service>>

(* The dialer waits for a session and reserves on it. *)
ReserveOK(l) ==
    /\ req[l] = "waiting"
    /\ Bind(l)
    /\ hand' = [hand EXCEPT ![l] = Fresh(l)]
    /\ req' = [req EXCEPT ![l] = "holding"]
    /\ UNCHANGED <<session, pendingLeases, commit, leases, hold, committed, removing, rebinder, service>>

(* Refused by Windows, or the requester went away: releaseLeaseSlot. *)
ReserveFails(l) ==
    /\ req[l] = "waiting"
    /\ req' = [req EXCEPT ![l] = "done"]
    /\ pendingLeases' = IF pendingLeases > 0 THEN pendingLeases - 1 ELSE 0
    /\ UNCHANGED <<session, hand, commit, leases, hold, committed, removing, sock, rebinder, service>>

(* Under Server.mu the slot becomes a lease. *)
Insert(l) ==
    /\ req[l] = "holding"
    /\ pendingLeases' = pendingLeases - 1
    /\ leases' = leases \cup {l}
    /\ hold' = [hold EXCEPT ![l] = hand[l]]
    /\ hand' = [hand EXCEPT ![l] = 0]
    /\ req' = [req EXCEPT ![l] = "reply"]
    /\ UNCHANGED <<session, commit, committed, removing, sock, rebinder, service>>

(* The answer is written; if the requester is gone its lease is removed. *)
Reply(l) ==
    /\ req[l] = "reply"
    /\ req' = [req EXCEPT ![l] = "done"]
    /\ \/ UNCHANGED <<leases, removing>>
       \/ Unregister({l})
    /\ UNCHANGED <<session, hand, pendingLeases, commit, hold, committed, sock, rebinder, service>>

-----------------------------------------------------------------------------
(* handleCommit, and the removal of a lease. *)

CommitLookup(l) ==
    /\ service = "running" /\ commit[l] = "idle" /\ l \in leases
    /\ commit' = [commit EXCEPT ![l] = "found"]
    /\ UNCHANGED <<session, req, hand, pendingLeases, leases, hold, committed, removing, sock, rebinder, service>>

(* Under lease.mu: commit what the lease holds.  A lease that is just being  *)
(* rebound holds nothing, which is an error; a failed commit removes it.     *)
Commit(l) ==
    /\ commit[l] = "found" /\ ~Locked(l)
    /\ commit' = [commit EXCEPT ![l] = "idle"]
    /\ \/ /\ hold[l] = 0
          /\ UNCHANGED <<committed, sock, leases, removing>>
       \/ /\ hold[l] # 0
          /\ sock' = Accepting(l, hold[l])
          /\ committed' = committed \cup {l}
          /\ UNCHANGED <<leases, removing>>
       \/ /\ hold[l] # 0 /\ CommitMayFail(l, hold[l])
          /\ Unregister({l})
          /\ UNCHANGED <<committed, sock>>
    /\ UNCHANGED <<session, req, hand, pendingLeases, hold, rebinder, service>>

(* CLOSE, ABORT, RELEASE by the last owner, or the reaper that found the     *)
(* last owner gone.                                                          *)
Remove(l) ==
    /\ l \in leases
    /\ Unregister({l})
    /\ UNCHANGED <<session, handlers, hold, committed, sock, rebinder, service>>

(* Mutant: the reservation is read without lease.mu. *)
CloseRemovedUnlocked(l) ==
    /\ l \in removing
    /\ removing' = removing \ {l}
    /\ sock' = Closed(l, hold[l])
    /\ UNCHANGED <<session, handlers, leases, hold, committed, rebinder, service>>

(* Read the reservation under lease.mu and close it. *)
CloseRemoved(l) ==
    /\ l \in removing /\ ~Locked(l)
    /\ removing' = removing \ {l}
    /\ sock' = Closed(l, hold[l])
    /\ UNCHANGED <<session, handlers, leases, hold, committed, rebinder, service>>

-----------------------------------------------------------------------------
(* rebind, serialised by rebindMu. *)

(* Rebind for the new session, over a snapshot of the leases.                *)
RebindStart ==
    /\ due = "yes" /\ pass = "idle"
    /\ due' = "no" /\ pass' = "all" /\ todo' = leases
    /\ UNCHANGED <<alive, sessions, handlers, leases, hold, committed, removing, sock,
                   at, entry, old, rep, service>>

(* retryMissingLeases ticks. *)
RetryStart ==
    /\ service = "running" /\ pass = "idle"
    /\ pass' = "missing" /\ todo' = leases
    /\ UNCHANGED <<session, handlers, leases, hold, committed, removing, sock,
                   at, entry, old, rep, service>>

(* onlyMissing passes over a lease with a reservation. *)
Skip(l) ==
    /\ pass = "missing" /\ at = "next" /\ l \in todo /\ hold[l] # 0
    /\ todo' = todo \ {l}
    /\ UNCHANGED <<session, handlers, leases, hold, committed, removing, sock,
                   pass, at, entry, old, rep, service>>

(* Mutant: onlyMissing the wrong way round. *)
TakeOldHeld(l) ==
    /\ pass # "idle" /\ at = "next" /\ l \in todo
    /\ pass = "missing" => hold[l] # 0
    /\ todo' = todo \ {l} /\ entry' = l
    /\ old' = hold[l] /\ hold' = [hold EXCEPT ![l] = 0]
    /\ at' = "release"
    /\ UNCHANGED <<session, handlers, leases, committed, removing, sock, pass, rep, service>>

(* Otherwise its reservation is taken out, to be closed first. *)
TakeOld(l) ==
    /\ pass # "idle" /\ at = "next" /\ l \in todo
    /\ pass = "missing" => hold[l] = 0
    /\ todo' = todo \ {l} /\ entry' = l
    /\ old' = hold[l] /\ hold' = [hold EXCEPT ![l] = 0]
    /\ at' = "release"
    /\ UNCHANGED <<session, handlers, leases, committed, removing, sock, pass, rep, service>>

(* The context is done: the entries that are left are only reported.         *)
Expire ==
    /\ pass # "idle" /\ at = "next" /\ todo # {}
    /\ todo' = {}
    /\ UNCHANGED <<session, handlers, leases, hold, committed, removing, sock,
                   pass, at, entry, old, rep, service>>

PassEnds ==
    /\ pass # "idle" /\ at = "next" /\ todo = {}
    /\ pass' = "idle"
    /\ UNCHANGED <<session, handlers, leases, hold, committed, removing, sock,
                   at, todo, entry, old, rep, service>>

ReleaseOld ==
    /\ at = "release"
    /\ sock' = Closed(entry, old)
    /\ old' = 0 /\ at' = "reserve"
    /\ UNCHANGED <<session, handlers, leases, hold, committed, removing, pass, todo, entry, rep, service>>

(* reserve on the new session, or through the dialer in RetryMissing.        *)
Rereserve(l) ==
    /\ at = "reserve" /\ entry = l
    /\ Bind(l)
    /\ rep' = Fresh(l)
    /\ at' = "install"
    /\ UNCHANGED <<session, handlers, leases, hold, committed, removing, pass, todo, entry, old, service>>

(* The entry is left without a reservation. *)
RereserveFails ==
    /\ at = "reserve"
    /\ at' = "next" /\ entry' = None
    /\ UNCHANGED <<session, handlers, leases, hold, committed, removing, sock, pass, todo, old, rep, service>>

(* Lock lease.mu, commit the replacement of a committed lease and look       *)
(* whether the lease is still registered; if not, or if the commit failed,   *)
(* close the replacement.                                                    *)
Install ==
    /\ at = "install"
    /\ \/ /\ entry \in leases
          /\ sock' = IF entry \in committed THEN Accepting(entry, rep) ELSE sock
          /\ at' = "set"
          /\ UNCHANGED <<entry, rep>>
       \/ /\ entry \notin leases \/ (entry \in committed /\ CommitMayFail(entry, rep))
          /\ sock' = Closed(entry, rep)
          /\ at' = "next" /\ entry' = None /\ rep' = 0
    /\ UNCHANGED <<session, handlers, leases, hold, committed, removing, pass, todo, old, service>>

SetReservation ==
    /\ at = "set"
    /\ hold' = [hold EXCEPT ![entry] = rep]
    /\ at' = "next" /\ entry' = None /\ rep' = 0
    /\ UNCHANGED <<session, handlers, leases, committed, removing, sock, pass, todo, old, service>>

-----------------------------------------------------------------------------
(* The end of Serve. *)

Stop ==
    /\ service = "running"
    /\ service' = "stopping"
    /\ UNCHANGED <<session, handlers, leases, hold, committed, removing, sock, rebinder>>

(* handlers.Wait, then closeAll; the rebinder is not waited for. *)
CloseAll ==
    /\ service = "stopping"
    /\ \A l \in Leases : req[l] \in {"none", "done"} /\ commit[l] = "idle"
    /\ Unregister(leases)
    /\ service' = "closed"
    /\ UNCHANGED <<session, handlers, hold, committed, sock, rebinder>>

-----------------------------------------------------------------------------
RebinderNext ==
    \/ RebindStart \/ Expire \/ PassEnds \/ ReleaseOld \/ RereserveFails
    \/ Install \/ SetReservation
    \/ \E l \in Leases : Skip(l) \/ TakeOld(l) \/ Rereserve(l)

Next ==
    \/ SessionUp \/ SessionDies
    \/ \E l \in Leases : \/ Reserve(l) \/ ReserveOK(l) \/ ReserveFails(l) \/ Insert(l) \/ Reply(l)
                         \/ CommitLookup(l) \/ Commit(l) \/ Remove(l) \/ CloseRemoved(l)
    \/ RebinderNext \/ RetryStart
    \/ Stop \/ CloseAll

Spec == Init /\ [][Next]_vars

(* The rebinder runs and its ticker ticks.  Every pass has a fresh timeout   *)
(* and Go iterates over the map in random order, so a lease cannot be the    *)
(* one that is cut off every time; and a port that is free again and again   *)
(* is bound in the end.                                                      *)
Fairness ==
    /\ WF_vars(RebinderNext) /\ WF_vars(RetryStart)
    /\ \A l \in Leases : SF_vars(TakeOld(l)) /\ SF_vars(Rereserve(l))

FairSpec == Spec /\ Fairness

-----------------------------------------------------------------------------
(* Properties. *)

(* No Windows socket outlives everyone who could close it: it belongs to a   *)
(* registered lease, to one whose removal is about to close it, to a handler *)
(* that will register it, or to the rebinder, in every interleaving of       *)
(* removal, rebinding and shutdown.                                          *)
NoLeakedListener ==
    \A l \in Leases, k \in Objects :
        Open(l, k) => \/ k = hand[l]
                      \/ l \in leases \cup removing /\ k = hold[l]
                      \/ entry = l /\ k \in {old, rep}

(* A registered lease never holds a reservation that was closed, which the   *)
(* retry loop would not look at again, and a committed one never holds one   *)
(* that was rebound without being committed.                                 *)
HeldReservationsServe ==
    \A l \in leases : hold[l] # 0 =>
        /\ sock[l][hold[l]] # "none"
        /\ l \in committed => sock[l][hold[l]] # "bound"

(* The handlers that have a slot. *)
Pending == {l \in Leases : req[l] \in {"waiting", "holding"}}

(* The limit counts leases and handlers on their way to one, and every path  *)
(* out of handleReserve gives its slot back exactly once.                    *)
SlotsExact ==
    /\ Cardinality(leases) + pendingLeases <= MaxLeases
    /\ pendingLeases = Cardinality(Pending)

(* In every interleaving of reserving, committing, removing, rebinding and   *)
(* shutting down, no Windows socket is lost, no registered lease holds a     *)
(* reservation that was closed or, if committed, one that is not, and the    *)
(* lease limit is counted exactly.  The reservation of a session that died   *)
(* may stay with its lease until the next session.                           *)
LeasesSound == NoLeakedListener /\ HeldReservationsServe /\ SlotsExact

(* A lease that lost its reservation is given one again while a session is   *)
(* up, as long as it is registered and the service runs.                     *)
LeaseRestored ==
    \A l \in Leases :
        (l \in leases /\ hold[l] = 0 /\ alive = "up" /\ service = "running")
            ~> (hold[l] # 0 \/ l \notin leases \/ alive = "down" \/ service # "running")

=============================================================================
