----------------------------- MODULE BrokerRoles -----------------------------
(* The processes of win-broker and how they start, watch and stop each      *)
(* other: supervisors elect one of them, it keeps a frontend running; the   *)
(* frontend starts or reuses a bridge worker, the worker starts or reuses a *)
(* socket owner and a socket host.  A role finds another through its        *)
(* endpoint, so a STOP goes to whoever serves the endpoint, while a Kill    *)
(* goes to the process that was started.  Every role has one token: the     *)
(* mismatch paths are not modelled.                                         *)
(*                                                                          *)
(* A process is a slot that is "off" when nothing runs in it; a handle to   *)
(* the process (exec.Cmd and its done channel) is the slot, and a slot is   *)
(* not used again while a live process holds a handle to it, so that the    *)
(* handle's done channel is closed exactly when the slot is off.            *)
EXTENDS Naturals, FiniteSets

CONSTANTS
    Frontends, Workers, Hosts, Owners,   \* slots of each role
    NoHandle,    \* no process
    MaxFaults,   \* bound: crashes and upsets together
    MaxUpsets    \* bound: hosts and owners that crash, probes and start-up
                 \* deadlines that expire on a healthy process, and stops

ASSUME SlotsAssumption ==
    /\ \A S \in {Frontends, Workers, Hosts, Owners} :
           IsFiniteSet(S) /\ S # {} /\ NoHandle \notin S
    /\ MaxFaults \in Nat /\ MaxUpsets \in Nat

VARIABLES
    sup,      \* the elected supervisor: where it is, its frontend, ctx cancelled
    front,    \* each frontend: where it is, workerSupervisor.cmd, whether it
              \* is in runFrontend's own ensure, ctx cancelled
    work,     \* each worker: where it is, hostCmd and ownerCmd
    host,     \* each socket host: where it is
    owner,    \* each socket owner: where it is
    crashes,  \* crashes of outer roles so far
    upsets,   \* other disturbances so far
    kept      \* history: the owner that served when the roles were first all
              \* up, if nothing had gone wrong before

outer == <<sup, front, work>>
inner == <<host, owner>>
faults == <<crashes, upsets>>
roleVars == <<outer, inner, faults, kept>>

SupAt == {"lock", "probe", "wait", "child", "standby", "backoff", "halt"}
FrontAt == {"off", "start", "ensure", "again", "poll", "serve", "stopping"}
WorkAt == {"off", "owner", "ownerPoll", "host", "hostPoll", "listen", "serve",
           "cleanHost", "cleanOwner"}
RoleAt == {"off", "start", "serve"}

(* Handles are of processes of the right role: a worker keeps hosts and       *)
(* owners apart, a frontend knows only workers, the supervisor only           *)
(* frontends.                                                                 *)
RolesTypeOK ==
    /\ sup \in [at : SupAt, child : Frontends \cup {NoHandle}, stop : BOOLEAN]
    /\ front \in [Frontends -> [at : FrontAt, child : Workers \cup {NoHandle},
                                first : BOOLEAN, stop : BOOLEAN]]
    /\ work \in [Workers -> [at : WorkAt, host : Hosts \cup {NoHandle}, owner : Owners \cup {NoHandle}]]
    /\ host \in [Hosts -> RoleAt]
    /\ owner \in [Owners -> RoleAt]
    /\ crashes \in Nat /\ upsets \in 0..MaxUpsets /\ crashes + upsets <= MaxFaults
    /\ kept \in Owners \cup {NoHandle}

NoFrontend == [at |-> "off", child |-> NoHandle, first |-> TRUE, stop |-> FALSE]
NoWorker == [at |-> "off", host |-> NoHandle, owner |-> NoHandle]

RolesInit ==
    /\ sup = [at |-> "lock", child |-> NoHandle, stop |-> FALSE]
    /\ front = [f \in Frontends |-> NoFrontend]
    /\ work = [w \in Workers |-> NoWorker]
    /\ host = [h \in Hosts |-> "off"]
    /\ owner = [o \in Owners |-> "off"]
    /\ crashes = 0 /\ upsets = 0 /\ kept = NoHandle

-----------------------------------------------------------------------------
(* Endpoints, probes and processes. *)

workAt == [w \in Workers |-> work[w].at]

Serving(at) == \E x \in DOMAIN at : at[x] = "serve"

(* probeRole and localipc.Dial on the endpoint of a worker, host or owner.   *)
(* A role whose context is cancelled closes its listeners at once            *)
(* (ServeWithLimit) and no longer answers.  A served endpoint is found dead  *)
(* only when the probe's timeout expires all the same.                       *)
Passes(at) == Serving(at) /\ UNCHANGED faults

Upset ==
    /\ upsets < MaxUpsets /\ crashes + upsets < MaxFaults
    /\ upsets' = upsets + 1
    /\ UNCHANGED crashes

Fails(at) ==
    \/ ~Serving(at) /\ UNCHANGED faults
    \/ Serving(at) /\ Upset

(* frontendReachable.  Until its initial ensure has returned a frontend      *)
(* accepts nothing, and a Dial of its endpoint may or may not succeed.       *)
FrontBound == {f \in Frontends : front[f].at \in {"ensure", "again", "poll", "serve"}}
FrontServes == {f \in FrontBound : ~front[f].first /\ ~front[f].stop}

Reachable == FrontBound # {} /\ UNCHANGED faults

Unreachable ==
    \/ FrontServes = {} /\ UNCHANGED faults
    \/ FrontServes # {} /\ Upset

(* The free slots of each role, and one of them: slots are interchangeable.  *)
FreeFrontends == {f \in Frontends : front[f].at = "off" /\ sup.child # f}
FreeWorkers == {w \in Workers : work[w].at = "off" /\ ~\E f \in Frontends : front[f].child = w}
FreeHosts == {h \in Hosts : host[h] = "off" /\ ~\E w \in Workers : work[w].host = h}
FreeOwners == {o \in Owners : owner[o] = "off" /\ ~\E w \in Workers : work[w].owner = o}
Pick(S) == CHOOSE x \in S : TRUE

(* requestWorkerStop(endpoint), then Kill of the process that was started:   *)
(* the role serving the endpoint gets STOP and ends, whoever started it.     *)
StopAndKill(at, own) ==
    [x \in DOMAIN at |-> IF x = own \/ at[x] = "serve" THEN "off" ELSE at[x]]

Killed(at, own) == [x \in DOMAIN at |-> IF x = own THEN "off" ELSE at[x]]

KillWorker(w) == work' = [x \in Workers |-> IF x = w THEN NoWorker ELSE work[x]]

-----------------------------------------------------------------------------
(* runSupervisor.  Supervisors hold an exclusive election endpoint while     *)
(* they live, so at most one is past acquireSupervisorLock and it alone has  *)
(* a state worth keeping; the others wait in acquireSupervisorLock.          *)

NoSupervisor == [at |-> "lock", child |-> NoHandle, stop |-> FALSE]

SupGoto(at) == sup' = [sup EXCEPT !.at = at]
SupExit == sup' = NoSupervisor

(* The election endpoint is free: one of those that wait gets it.            *)
AcquireLock ==
    /\ sup.at = "lock"
    /\ SupGoto("probe")
    /\ UNCHANGED <<front, work, inner, faults>>

(* cmd.Start of a frontend.                                                  *)
SpawnFrontend ==
    /\ FreeFrontends # {}
    /\ LET f == Pick(FreeFrontends) IN
       /\ front' = [front EXCEPT ![f].at = "start"]
       /\ sup' = [sup EXCEPT !.at = "child", !.child = f]

(* waitForExistingFrontend.  With ctx done the wait ends, and runSupervisor  *)
(* still starts a frontend before it looks at ctx again.                     *)
ProbeFrontend ==
    /\ sup.at = "probe"
    /\ \/ ~sup.stop /\ Reachable /\ SupGoto("wait") /\ UNCHANGED front
       \/ ~sup.stop /\ Unreachable /\ SpawnFrontend
       \/ sup.stop /\ UNCHANGED faults /\ SpawnFrontend
    /\ UNCHANGED <<work, inner>>

AwaitExit ==
    /\ sup.at = "wait"
    /\ \/ sup.stop /\ UNCHANGED faults
       \/ ~sup.stop /\ Unreachable
    /\ SpawnFrontend
    /\ UNCHANGED <<work, inner>>

(* cmd.Wait returned a failure: stand by if another frontend is reachable,   *)
(* else restart after a delay.                                               *)
ChildExited ==
    /\ sup.at = "child" /\ front[sup.child].at = "off"
    /\ \/ ~sup.stop /\ Reachable
          /\ sup' = [sup EXCEPT !.at = "standby", !.child = NoHandle]
       \/ ~sup.stop /\ Unreachable
          /\ sup' = [sup EXCEPT !.at = "backoff", !.child = NoHandle]
       \/ sup.stop /\ SupExit /\ UNCHANGED faults
    /\ UNCHANGED <<front, work, inner>>

StandbyEnds ==
    /\ sup.at = "standby"
    /\ \/ sup.stop /\ SupExit /\ UNCHANGED faults
       \/ ~sup.stop /\ Unreachable /\ SupGoto("probe")
    /\ UNCHANGED <<front, work, inner>>

BackoffEnds ==
    /\ sup.at = "backoff"
    /\ IF sup.stop THEN SupExit ELSE SupGoto("probe")
    /\ UNCHANGED <<front, work, inner, faults>>

(* stopChild: an interrupt, where the platform can send one to a process     *)
(* that handles it, else a Kill.                                             *)
HaltChild ==
    /\ sup.at = "child" /\ sup.stop /\ front[sup.child].at # "off"
    /\ \/ front[sup.child].at # "start" /\ front' = [front EXCEPT ![sup.child].stop = TRUE]
       \/ front' = [front EXCEPT ![sup.child] = NoFrontend]
    /\ SupGoto("halt")
    /\ UNCHANGED <<work, inner, faults>>

(* The child exited, or supervisorStopTimeout passed and it is killed.       *)
Halted ==
    /\ sup.at = "halt"
    /\ front' = [front EXCEPT ![sup.child] = NoFrontend]
    /\ SupExit
    /\ UNCHANGED <<work, inner, faults>>

-----------------------------------------------------------------------------
(* runFrontend and workerSupervisor. *)

FrontExit(f) == front' = [front EXCEPT ![f] = NoFrontend]
FrontServe(f) == front' = [front EXCEPT ![f].at = "serve", ![f].first = FALSE]

(* The endpoint is exclusive: the frontend that finds it taken exits.        *)
FrontListen(f) ==
    /\ front[f].at = "start"
    /\ IF FrontBound = {} THEN front' = [front EXCEPT ![f].at = "ensure"] ELSE FrontExit(f)
    /\ UNCHANGED <<sup, work, inner, faults>>

(* ensure, holding ensureMu: when the probe fails, stopOwnedWorker kills the *)
(* worker this frontend started.  A cancelled ctx fails every probe.         *)
FrontEnsure(f) ==
    /\ front[f].at = "ensure"
    /\ \/ ~front[f].stop /\ Passes(workAt) /\ FrontServe(f) /\ UNCHANGED work
       \/ /\ IF front[f].stop THEN UNCHANGED faults ELSE Fails(workAt)
          /\ KillWorker(front[f].child)
          /\ front' = [front EXCEPT ![f].at = "again", ![f].child = NoHandle]
    /\ UNCHANGED <<sup, inner>>

(* ensureWorker: probe once more, then start a worker.                       *)
FrontSpawn(f) ==
    /\ front[f].at = "again"
    /\ \/ ~front[f].stop /\ Passes(workAt) /\ FrontServe(f) /\ UNCHANGED work
       \/ /\ IF front[f].stop THEN UNCHANGED faults ELSE Fails(workAt)
          /\ FreeWorkers # {}
          /\ LET w == Pick(FreeWorkers) IN
             /\ work' = [work EXCEPT ![w].at = "owner"]
             /\ front' = [front EXCEPT ![f].at = "poll", ![f].child = w]
    /\ UNCHANGED <<sup, inner>>

(* The loop of ensureWorker does not watch the worker it started: it ends    *)
(* when any worker answers, when ctx is done, or at the start-up deadline.   *)
FrontPoll(f) ==
    /\ front[f].at = "poll"
    /\ \/ ~front[f].stop /\ Passes(workAt) /\ FrontServe(f) /\ UNCHANGED work
       \/ /\ \/ front[f].stop /\ UNCHANGED faults
             \/ ~front[f].stop /\ work[front[f].child].at = "off" /\ ~Serving(workAt)
                /\ UNCHANGED faults
             \/ ~front[f].stop /\ work[front[f].child].at # "off" /\ Upset
          /\ KillWorker(front[f].child)
          /\ front' = [front EXCEPT ![f] =
                  IF @.first THEN NoFrontend ELSE [@ EXCEPT !.at = "serve", !.child = NoHandle]]
    /\ UNCHANGED <<sup, inner>>

(* Mutant: a connection whose Dial fails is closed, nothing more. *)
BridgeCloses(f) ==
    /\ front[f].at = "serve" /\ ~front[f].stop
    /\ Fails(workAt)
    /\ UNCHANGED <<outer, inner>>

(* bridge: a connector's connection for which the Dial of the worker fails.  *)
Bridge(f) ==
    /\ front[f].at = "serve" /\ ~front[f].stop
    /\ Fails(workAt)
    /\ front' = [front EXCEPT ![f].at = "ensure"]
    /\ UNCHANGED <<sup, work, inner>>

(* workerSupervisor.stop, once ServeWithLimit has closed the listener and    *)
(* drained the bridges: STOP to whoever serves the worker endpoint, ...      *)
FrontStopWorker(f) ==
    /\ front[f].at = "serve" /\ front[f].stop
    /\ work' = [w \in Workers |->
            IF work[w].at = "serve" THEN [work[w] EXCEPT !.at = "cleanHost"] ELSE work[w]]
    /\ front' = [front EXCEPT ![f].at = "stopping"]
    /\ UNCHANGED <<sup, inner, faults>>

(* ... and at once stopOwnedWorker.                                          *)
FrontKillWorker(f) ==
    /\ front[f].at = "stopping"
    /\ KillWorker(front[f].child)
    /\ FrontExit(f)
    /\ UNCHANGED <<sup, inner, faults>>

-----------------------------------------------------------------------------
(* runWorker. *)

WorkGoto(w, at) == work' = [work EXCEPT ![w].at = at]
WorkExit(w) == work' = [work EXCEPT ![w] = NoWorker]

(* ensureSocketOwner: reuse the owner that answers, or start one.            *)
EnsureOwner(w) ==
    /\ work[w].at = "owner"
    /\ \/ Passes(owner) /\ WorkGoto(w, "host") /\ UNCHANGED owner
       \/ /\ Fails(owner) /\ FreeOwners # {}
          /\ LET o == Pick(FreeOwners) IN
             /\ owner' = [owner EXCEPT ![o] = "start"]
             /\ work' = [work EXCEPT ![w].at = "ownerPoll", ![w].owner = o]
    /\ UNCHANGED <<sup, front, host>>

(* Its loop: whoever answers, the worker keeps the handle of its own child;  *)
(* the child's exit or the deadline ends the worker.                         *)
AwaitOwner(w) ==
    /\ work[w].at = "ownerPoll"
    /\ \/ Passes(owner) /\ WorkGoto(w, "host") /\ UNCHANGED owner
       \/ owner[work[w].owner] = "off" /\ WorkExit(w) /\ UNCHANGED <<owner, faults>>
       \/ /\ owner[work[w].owner] # "off" /\ Upset
          /\ owner' = Killed(owner, work[w].owner) /\ WorkExit(w)
    /\ UNCHANGED <<sup, front, host>>

(* Mutant: the handle is stored as the owner's, as in the code it was copied *)
(* from.                                                                     *)
EnsureHostAsOwner(w) ==
    /\ work[w].at = "host"
    /\ Fails(host) /\ FreeHosts # {}
    /\ LET h == Pick(FreeHosts) IN
       /\ host' = [host EXCEPT ![h] = "start"]
       /\ work' = [work EXCEPT ![w].at = "hostPoll", ![w].owner = h]
    /\ UNCHANGED <<sup, front, owner>>

(* ensureSocketHost, likewise.                                               *)
EnsureHost(w) ==
    /\ work[w].at = "host"
    /\ \/ Passes(host) /\ WorkGoto(w, "listen") /\ UNCHANGED host
       \/ /\ Fails(host) /\ FreeHosts # {}
          /\ LET h == Pick(FreeHosts) IN
             /\ host' = [host EXCEPT ![h] = "start"]
             /\ work' = [work EXCEPT ![w].at = "hostPoll", ![w].host = h]
    /\ UNCHANGED <<sup, front, owner>>

(* A worker without a host stops the owner it started.                       *)
AwaitHost(w) ==
    /\ work[w].at = "hostPoll"
    /\ \/ Passes(host) /\ WorkGoto(w, "listen") /\ UNCHANGED inner
       \/ /\ \/ host[work[w].host] = "off" /\ UNCHANGED faults
             \/ host[work[w].host] # "off" /\ Upset
          /\ host' = Killed(host, work[w].host)
          /\ owner' = IF work[w].owner = NoHandle THEN owner ELSE StopAndKill(owner, work[w].owner)
          /\ WorkExit(w)
    /\ UNCHANGED <<sup, front>>

(* The worker that finds its endpoint taken returns through the deferred     *)
(* clean-up.                                                                 *)
WorkListen(w) ==
    /\ work[w].at = "listen"
    /\ WorkGoto(w, IF Serving(workAt) THEN "cleanHost" ELSE "serve")
    /\ UNCHANGED <<sup, front, inner, faults>>

(* stop(): a child exited, monitorSocketHost's probe failed, or so did the   *)
(* Dial of bridgeWorkerConnection.                                           *)
WorkStops(w) ==
    /\ work[w].at = "serve"
    /\ \/ work[w].host # NoHandle /\ host[work[w].host] = "off" /\ UNCHANGED faults
       \/ work[w].owner # NoHandle /\ owner[work[w].owner] = "off" /\ UNCHANGED faults
       \/ Fails(host)
    /\ WorkGoto(w, "cleanHost")
    /\ UNCHANGED <<sup, front, inner>>

(* The deferred clean-up: first the host, then the owner, each only if this  *)
(* worker started one.                                                       *)
WorkCleansHost(w) ==
    /\ work[w].at = "cleanHost"
    /\ host' = IF work[w].host = NoHandle THEN host ELSE StopAndKill(host, work[w].host)
    /\ work' = [work EXCEPT ![w].at = "cleanOwner", ![w].host = NoHandle]
    /\ UNCHANGED <<sup, front, owner, faults>>

(* Mutant: an owner that was reused is stopped too. *)
WorkCleansAnyOwner(w) ==
    /\ work[w].at = "cleanOwner"
    /\ owner' = StopAndKill(owner, work[w].owner)
    /\ WorkExit(w)
    /\ UNCHANGED <<sup, front, host, faults>>

WorkCleansOwner(w) ==
    /\ work[w].at = "cleanOwner"
    /\ owner' = IF work[w].owner = NoHandle THEN owner ELSE StopAndKill(owner, work[w].owner)
    /\ WorkExit(w)
    /\ UNCHANGED <<sup, front, host, faults>>

-----------------------------------------------------------------------------
(* runSocketBridge as the socket host, and runSocketOwner. *)

HostListen(h) ==
    /\ host[h] = "start"
    /\ host' = [host EXCEPT ![h] = IF Serving(host) THEN "off" ELSE "serve"]
    /\ UNCHANGED <<outer, owner, faults>>

(* monitorSocketHost on the owner, or the Dial of bridgeSocketConnection.    *)
HostStops(h) ==
    /\ host[h] = "serve" /\ Fails(owner)
    /\ host' = Killed(host, h)
    /\ UNCHANGED <<outer, owner>>

OwnerListen(o) ==
    /\ owner[o] = "start"
    /\ owner' = [owner EXCEPT ![o] = IF Serving(owner) THEN "off" ELSE "serve"]
    /\ UNCHANGED <<outer, host, faults>>

-----------------------------------------------------------------------------
(* What goes wrong.  There is always another supervisor to be elected.       *)

(* A signal to the elected supervisor. *)
StopSupervisor ==
    /\ sup.at # "lock" /\ ~sup.stop /\ Upset
    /\ sup' = [sup EXCEPT !.stop = TRUE]
    /\ UNCHANGED <<front, work, inner>>

Crash == crashes + upsets < MaxFaults /\ crashes' = crashes + 1 /\ UNCHANGED upsets

CrashOuter ==
    /\ Crash
    /\ \/ sup.at # "lock" /\ SupExit /\ UNCHANGED <<front, work>>
       \/ \E f \in Frontends : front[f].at # "off" /\ FrontExit(f) /\ UNCHANGED <<sup, work>>
       \/ \E w \in Workers : work[w].at # "off" /\ WorkExit(w) /\ UNCHANGED <<sup, front>>
    /\ UNCHANGED inner

CrashInner ==
    /\ Upset
    /\ \/ \E h \in Hosts : host[h] # "off" /\ host' = Killed(host, h) /\ UNCHANGED owner
       \/ \E o \in Owners : owner[o] # "off" /\ owner' = Killed(owner, o) /\ UNCHANGED host
    /\ UNCHANGED outer

-----------------------------------------------------------------------------
SupStep ==
    \/ AcquireLock \/ ProbeFrontend \/ AwaitExit \/ ChildExited \/ StandbyEnds
    \/ BackoffEnds \/ HaltChild \/ Halted

FrontStep(f) ==
    \/ FrontListen(f) \/ FrontEnsure(f) \/ FrontSpawn(f) \/ FrontPoll(f) \/ Bridge(f)
    \/ FrontStopWorker(f) \/ FrontKillWorker(f)

WorkStep(w) ==
    \/ EnsureOwner(w) \/ AwaitOwner(w) \/ EnsureHost(w) \/ AwaitHost(w) \/ WorkListen(w)
    \/ WorkStops(w) \/ WorkCleansHost(w) \/ WorkCleansOwner(w)

HostStep(h) == HostListen(h) \/ HostStops(h)

(* One live process of each role, and each serves.                           *)
AllUp ==
    /\ FrontServes # {} /\ \A f \in Frontends : front[f].at \in {"off", "serve"}
    /\ Serving(workAt) /\ \A w \in Workers : work[w].at \in {"off", "serve"}
    /\ Serving(host) /\ \A h \in Hosts : host[h] \in {"off", "serve"}
    /\ Serving(owner) /\ \A o \in Owners : owner[o] \in {"off", "serve"}

(* kept is filled in at the first state in which all is up, if nothing has   *)
(* gone wrong by then.                                                       *)
Remember ==
    kept' = IF kept = NoHandle /\ crashes' = 0 /\ upsets' = 0 /\ AllUp'
            THEN CHOOSE o \in Owners : owner'[o] = "serve"
            ELSE kept

RolesNext ==
    /\ \/ SupStep
       \/ StopSupervisor
       \/ \E f \in Frontends : FrontStep(f)
       \/ \E w \in Workers : WorkStep(w)
       \/ \E h \in Hosts : HostStep(h)
       \/ \E o \in Owners : OwnerListen(o)
       \/ CrashOuter
       \/ CrashInner
    /\ Remember

(* Every process that runs goes on running; nothing is obliged to go wrong.  *)
(* For Bridge this says that connectors keep coming, as wsl-proxy's          *)
(* reconnection does.                                                        *)
Quietly(step) == step /\ UNCHANGED faults /\ Remember

RolesFairness ==
    /\ WF_roleVars(Quietly(SupStep))
    /\ \A f \in Frontends : WF_roleVars(Quietly(FrontStep(f)))
    /\ \A w \in Workers : WF_roleVars(Quietly(WorkStep(w)))
    /\ \A h \in Hosts : WF_roleVars(Quietly(HostStep(h)))
    /\ \A o \in Owners : WF_roleVars(Quietly(OwnerListen(o)))

RolesSpec == RolesInit /\ [][RolesNext]_roleVars /\ RolesFairness

-----------------------------------------------------------------------------
(* As long as there is a supervisor to elect, then whatever crashes, times   *)
(* out or is stopped, and whichever of the processes left behind are reused  *)
(* or stopped by endpoint, in the end there is one process of every role,    *)
(* they all serve, and they stay: restarts do not chase each other, no role  *)
(* is waited for by all, and no process is left over.                        *)
Recovers == <>[]AllUp

(* ADR-0016's reason for a socket owner of its own: once all roles were up,  *)
(* crashes of supervisors, frontends and workers, in any number and order    *)
(* and however the replacements race, never end the owner that holds the     *)
(* established sockets.                                                      *)
OwnerKept == kept # NoHandle /\ upsets = 0 => owner[kept] = "serve"
=============================================================================
