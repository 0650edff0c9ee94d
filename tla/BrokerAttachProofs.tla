------------------------- MODULE BrokerAttachProofs -------------------------
(* Proofs about the two halves of the Windows broker: how connectors attach  *)
(* to it (BrokerAttach), and how its processes start, watch and stop each    *)
(* other (BrokerRoles), for every number of connections and processes.       *)
EXTENDS BrokerAttach, BrokerRoles, TLAPS

-----------------------------------------------------------------------------
(* Attaching.  Everything rests on what installMu protects: its holder is    *)
(* the current generation, has the newest epoch, and that epoch has not      *)
(* reached the link yet.                                                     *)

Installing(c) == worker[c] \in {"attached", "install"}

(* The holder of installMu and its generation. *)
Holder ==
    /\ \A c \in Conns : Installing(c) => installMu = c
    /\ installMu # None => /\ current = installMu
                           /\ Installing(installMu)
                           /\ epochOf[installMu] = epoch

(* Epochs the link has seen: none above the counter, and the one being       *)
(* installed not yet.                                                        *)
Installed ==
    /\ \A i \in 1..Len(linkOrder) : linkOrder[i] <= epoch
    /\ installMu # None => \A i \in 1..Len(linkOrder) : linkOrder[i] < epoch

(* A current generation belongs to a live handshake or an installed one; a   *)
(* connection the accept loop has in hand has no worker yet.                 *)
CurrentHeld ==
    /\ current # None => worker[current] \in {"attached", "install", "kept"}
    /\ inHand # None => worker[inHand] = "none"
    /\ loop = "track" => inHand # None

AttachInv ==
    /\ TypeOK /\ Holder /\ Installed /\ CurrentHeld
    /\ LinkInOrder /\ RegistryMatchesLink

(* The service starts in a state of the invariant. *)
LEMMA AttachInit == Init => AttachInv
BY NoneAssumption DEF Init, AttachInv, TypeOK, Holder, Installed, CurrentHeld, Installing, WorkerStates,
          LinkInOrder, RegistryMatchesLink

(* Appending an epoch above all the others keeps the order.                  *)
LEMMA AppendInOrder ==
  ASSUME NEW s \in Seq(Nat), NEW n \in Nat,
         \A i, j \in 1..Len(s) : i < j => s[i] < s[j],
         \A i \in 1..Len(s) : s[i] < n
  PROVE  /\ Append(s, n) \in Seq(Nat)
         /\ \A i, j \in 1..Len(Append(s, n)) : i < j => Append(s, n)[i] < Append(s, n)[j]
         /\ \A i \in 1..Len(Append(s, n)) : Append(s, n)[i] <= n
<1> DEFINE t == Append(s, n)
<1>1. t \in Seq(Nat) /\ Len(t) = Len(s) + 1 /\ t[Len(s) + 1] = n
      /\ \A i \in 1..Len(s) : t[i] = s[i]
  OBVIOUS
<1>2. \A i \in 1..Len(s) : s[i] \in Nat
  OBVIOUS
<1> HIDE DEF t
<1>3. ASSUME NEW i \in 1..Len(t) PROVE t[i] <= n
  <2>1. CASE i \in 1..Len(s)
    <3>1. t[i] = s[i] /\ s[i] \in Nat /\ s[i] < n
      BY <1>1, <1>2, <2>1
    <3>2. \A k \in Nat : k < n => k <= n
      OBVIOUS
    <3> QED
      BY <3>1, <3>2
  <2>2. CASE i = Len(s) + 1
    BY <1>1, <2>2
  <2> QED
    BY <1>1, <2>1, <2>2
<1>4. ASSUME NEW i \in 1..Len(t), NEW j \in 1..Len(t), i < j PROVE t[i] < t[j]
  <2>1. i \in 1..Len(s)
    BY <1>1, <1>4
  <2>2. CASE j \in 1..Len(s)
    BY <1>1, <1>4, <2>1, <2>2
  <2>3. CASE j = Len(s) + 1
    BY <1>1, <2>1, <2>3
  <2> QED
    BY <1>1, <2>2, <2>3
<1> QED
  BY <1>1, <1>3, <1>4 DEF t

(* Every step of the accept loop, a worker, a connector or the cancellation keeps the invariant. *)
LEMMA AttachStep == AttachInv /\ [Next]_vars => AttachInv'
<1> SUFFICES ASSUME AttachInv, [Next]_vars PROVE AttachInv'
  OBVIOUS
<1> USE NoneAssumption
<1>0. TypeOK /\ Holder /\ Installed /\ CurrentHeld /\ LinkInOrder /\ RegistryMatchesLink
  BY DEF AttachInv
<1>1. ASSUME NEW c \in Conns, Accept(c) PROVE AttachInv'
  BY <1>0, <1>1 DEF Accept, AttachInv, TypeOK, Holder, Installed, CurrentHeld, Installing,
                    WorkerStates, LinkInOrder, RegistryMatchesLink
<1>2. CASE Track
  BY <1>0, <1>2 DEF Track, AttachInv, TypeOK, Holder, Installed, CurrentHeld, Installing,
                    WorkerStates, LinkInOrder, RegistryMatchesLink
<1>3. CASE AcceptError \/ ExitSweep \/ HandlersDone
  BY <1>0, <1>3 DEF AcceptError, ExitSweep, HandlersDone, Tracked, AttachInv, TypeOK, Holder,
                    Installed, CurrentHeld, Installing, WorkerStates, LinkInOrder, RegistryMatchesLink
<1>4. ASSUME NEW c \in Conns, ReadRequest(c) \/ RequestFails(c) \/ Acknowledge(c) PROVE AttachInv'
  <2>1. /\ UNCHANGED <<loop, inHand, installMu, epoch, epochOf, current, link, linkOrder, service, linkShut>>
        /\ broken' \in SUBSET Conns
        /\ \/ worker[c] = "pending" /\ worker' = [worker EXCEPT ![c] = "request"]
           \/ worker[c] = "pending" /\ worker' = [worker EXCEPT ![c] = "ended"]
           \/ worker[c] = "attached" /\ worker' = [worker EXCEPT ![c] = "install"]
    BY <1>0, <1>4 DEF ReadRequest, RequestFails, Acknowledge, TypeOK
  <2>2. TypeOK'
    BY <1>0, <2>1 DEF TypeOK, WorkerStates
  <2>3. Installed' /\ LinkInOrder' /\ RegistryMatchesLink'
    <3>1. /\ linkOrder' = linkOrder /\ epoch' = epoch /\ installMu' = installMu
          /\ current' = current /\ link' = link
      BY <2>1
    <3> QED
      BY <1>0, <3>1 DEF Installed, LinkInOrder, RegistryMatchesLink
  <2>4. Holder' /\ CurrentHeld'
    BY <1>0, <2>1 DEF TypeOK, Holder, CurrentHeld, Installing, WorkerStates
  <2> QED
    BY <2>2, <2>3, <2>4 DEF AttachInv
<1>5. ASSUME NEW c \in Conns, Authenticate(c) PROVE AttachInv'
  <2>1. TypeOK' /\ Holder' /\ CurrentHeld' /\ RegistryMatchesLink'
    BY <1>0, <1>5 DEF Authenticate, TypeOK, Holder, CurrentHeld, Installing, WorkerStates, RegistryMatchesLink
  <2>2. Installed' /\ LinkInOrder'
    <3>1. linkOrder \in Seq(Nat) /\ epoch \in Nat /\ \A i \in 1..Len(linkOrder) : linkOrder[i] \in Nat
      BY <1>0 DEF TypeOK
    <3>2. linkOrder' = linkOrder /\ (epoch' = epoch + 1 \/ (epoch' = epoch /\ installMu' = installMu))
      BY <1>5 DEF Authenticate
    <3> QED
      BY <1>0, <3>1, <3>2 DEF Installed, LinkInOrder
  <2> QED
    BY <2>1, <2>2 DEF AttachInv
<1>6. ASSUME NEW c \in Conns, ResumeFails(c) PROVE AttachInv'
  BY <1>0, <1>6 DEF ResumeFails, Detach, AttachInv, TypeOK, Holder, Installed, CurrentHeld, Installing,
                    WorkerStates, LinkInOrder, RegistryMatchesLink
<1>7. ASSUME NEW c \in Conns, Install(c) PROVE AttachInv'
  <2>1. installMu = c /\ current = c /\ epochOf[c] = epoch /\ epoch \in Nat /\ linkOrder \in Seq(Nat)
    BY <1>0, <1>7 DEF Install, Holder, Installing, TypeOK
  <2>2. (linkOrder \in Seq(Nat))' /\ Installed' /\ LinkInOrder'
    <3>1. linkOrder' = linkOrder \/ linkOrder' = Append(linkOrder, epoch)
      BY <1>7, <2>1 DEF Install
    <3>2. epoch' = epoch /\ installMu' = None
      BY <1>7 DEF Install
    <3>3. /\ \A i, j \in 1..Len(linkOrder) : i < j => linkOrder[i] < linkOrder[j]
          /\ \A i \in 1..Len(linkOrder) : linkOrder[i] < epoch
          /\ \A i \in 1..Len(linkOrder) : linkOrder[i] <= epoch
      BY <1>0, <2>1 DEF LinkInOrder, Installed
    <3>4. CASE linkOrder' = linkOrder
      BY <1>0, <2>1, <3>2, <3>4 DEF LinkInOrder, Installed
    <3>5. CASE linkOrder' = Append(linkOrder, epoch)
      BY <2>1, <3>2, <3>3, <3>5, AppendInOrder DEF LinkInOrder, Installed
    <3> QED
      BY <3>1, <3>4, <3>5
  <2>3. TypeOK' /\ Holder' /\ CurrentHeld' /\ RegistryMatchesLink'
    BY <1>0, <1>7, <2>1, <2>2 DEF Install, Detach, TypeOK, Holder, CurrentHeld, Installing, WorkerStates,
                             RegistryMatchesLink
  <2> QED
    BY <2>2, <2>3 DEF AttachInv
<1>8. ASSUME NEW c \in Conns, PeerCloses(c) \/ FrameError(c) PROVE AttachInv'
  BY <1>0, <1>8 DEF PeerCloses, FrameError, AttachInv, TypeOK, Holder, Installed, CurrentHeld, Installing,
                    WorkerStates, LinkInOrder, RegistryMatchesLink
<1>9. CASE Cancel \/ CloseLink \/ Sweep
  BY <1>0, <1>9 DEF Cancel, CloseLink, Sweep, Tracked, AttachInv, TypeOK, Holder, Installed, CurrentHeld,
                    Installing, WorkerStates, LinkInOrder, RegistryMatchesLink
<1>10. CASE UNCHANGED vars
  BY <1>0, <1>10 DEF vars, AttachInv, TypeOK, Holder, Installed, CurrentHeld, Installing, WorkerStates,
                     LinkInOrder, RegistryMatchesLink
<1> QED
  BY <1>1, <1>2, <1>3, <1>4, <1>5, <1>6, <1>7, <1>8, <1>9, <1>10 DEF Next, LoopNext

(* The inductive invariant of attaching holds throughout. *)
THEOREM AttachInvHolds == Spec => []AttachInv
BY AttachInit, AttachStep, PTL DEF Spec

(* Type correctness of the attach state. *)
THEOREM TypeCorrect == Spec => []TypeOK
<1>1. AttachInv => TypeOK
  BY DEF AttachInv
<1> QED
  BY AttachInvHolds, <1>1, PTL

(* Generations reach the frame link in the order of their epochs, whatever   *)
(* the number of concurrent handshakes (ADR-0037).                           *)
THEOREM GenerationsInOrder == Spec => []LinkInOrder
<1>1. AttachInv => LinkInOrder
  BY DEF AttachInv
<1> QED
  BY AttachInvHolds, <1>1, PTL

(* Between installations registry and link agree. *)
THEOREM RegistryAgrees == Spec => []RegistryMatchesLink
<1>1. AttachInv => RegistryMatchesLink
  BY DEF AttachInv
<1> QED
  BY AttachInvHolds, <1>1, PTL

(* No failed handshake leaves a phantom generation. *)
THEOREM NoPhantomGeneration == Spec => []NoPhantom
<1>1. AttachInv => NoPhantom
  BY NoneAssumption DEF AttachInv, CurrentHeld, NoPhantom
<1> QED
  BY AttachInvHolds, <1>1, PTL

(* What the three parts say together, for every set of connectors.           *)
THEOREM AttachSafe == Spec => []AttachConsistent
<1>1. LinkInOrder /\ RegistryMatchesLink /\ NoPhantom => AttachConsistent
  BY DEF AttachConsistent
<1> QED
  BY <1>1, GenerationsInOrder, RegistryAgrees, NoPhantomGeneration, PTL

-----------------------------------------------------------------------------
(* The roles of win-broker.  Before anything has gone wrong the processes    *)
(* form one chain: the supervisor has started one frontend, it one worker,   *)
(* and that one owner and one host.                                          *)

FrontChain ==
    /\ ~sup.stop
    /\ \/ sup.at \in {"lock", "probe"} /\ \A f \in Frontends : front[f].at = "off"
       \/ sup.at = "child" /\ sup.child \in Frontends /\ front[sup.child].at # "off"
    /\ \A f \in Frontends :
          /\ front[f].at \in {"off", "start", "ensure", "again", "poll", "serve"}
          /\ front[f].at # "off" => sup.child = f
          /\ ~front[f].stop
          /\ front[f].at \in {"off", "start", "ensure", "again"} => front[f].child = NoHandle
          /\ front[f].at \in {"poll", "serve"} =>
                front[f].child \in Workers /\ work[front[f].child].at # "off"
          /\ front[f].at = "serve" => work[front[f].child].at = "serve"

WorkChain ==
    \A w \in Workers :
        /\ work[w].at # "off" => \E f \in Frontends : front[f].at # "off" /\ front[f].child = w
        /\ work[w].at \in {"off", "owner", "ownerPoll", "host", "hostPoll", "listen", "serve"}
        /\ work[w].at \in {"off", "owner"} => work[w].owner = NoHandle
        /\ work[w].at \in {"off", "owner", "ownerPoll", "host"} => work[w].host = NoHandle
        /\ work[w].at = "ownerPoll" => work[w].owner \in Owners /\ owner[work[w].owner] # "off"
        /\ work[w].at \in {"host", "hostPoll", "listen", "serve"} =>
              work[w].owner \in Owners /\ owner[work[w].owner] = "serve"
        /\ work[w].at = "hostPoll" => work[w].host \in Hosts /\ host[work[w].host] # "off"
        /\ work[w].at \in {"listen", "serve"} =>
              work[w].host \in Hosts /\ host[work[w].host] = "serve"

RoleChain ==
    /\ \A o \in Owners : owner[o] # "off" => \E w \in Workers : work[w].at # "off" /\ work[w].owner = o
    /\ \A h \in Hosts : host[h] # "off" => \E w \in Workers : work[w].at # "off" /\ work[w].host = h

Chain == FrontChain /\ WorkChain /\ RoleChain

StartUp == crashes = 0 /\ upsets = 0 => Chain

(* Once all roles were up and only outer ones have crashed since: nobody is  *)
(* told to stop, owner and host are found by every probe, and a worker that  *)
(* started one of them serves.                                               *)
KeptUp ==
    /\ ~sup.stop /\ \A f \in Frontends : ~front[f].stop
    /\ owner[kept] = "serve" /\ Serving(host)
    /\ \A w \in Workers :
          /\ work[w].at \notin {"ownerPoll", "hostPoll"}
          /\ work[w].owner # NoHandle =>
                work[w].at = "serve" /\ owner[work[w].owner] = "serve"
          /\ work[w].host # NoHandle =>
                work[w].at = "serve" /\ host[work[w].host] = "serve"

AfterUp == kept # NoHandle /\ upsets = 0 => KeptUp

RolesInv == RolesTypeOK /\ StartUp /\ AfterUp

SupRec == [at : SupAt, child : Frontends \cup {NoHandle}, stop : BOOLEAN]
FrontRec == [at : FrontAt, child : Workers \cup {NoHandle}, first : BOOLEAN, stop : BOOLEAN]
WorkRec == [at : WorkAt, host : Hosts \cup {NoHandle}, owner : Owners \cup {NoHandle}]

(* RolesTypeOK without the history variable. *)
Slots ==
    /\ sup \in SupRec
    /\ front \in [Frontends -> FrontRec]
    /\ work \in [Workers -> WorkRec]
    /\ host \in [Hosts -> RoleAt]
    /\ owner \in [Owners -> RoleAt]

Counts == crashes \in Nat /\ upsets \in 0..MaxUpsets /\ crashes + upsets <= MaxFaults

(* What the counters of faults can do in a step. *)
LEMMA CountsStep ==
  ASSUME Counts, UNCHANGED faults \/ Upset \/ Crash
  PROVE  /\ Counts'
         /\ crashes' = 0 => crashes = 0
         /\ upsets' = 0 => upsets = 0 /\ ~Upset
         /\ crashes' = 0 /\ upsets' = 0 => UNCHANGED faults
BY SlotsAssumption DEF Counts, faults, Upset, Crash


(* The values the actions write. *)
LEMMA NoProcess ==
  /\ NoSupervisor \in SupRec /\ NoFrontend \in FrontRec /\ NoWorker \in WorkRec
  /\ NoHandle \notin Frontends /\ NoHandle \notin Workers
  /\ NoHandle \notin Hosts /\ NoHandle \notin Owners
BY SlotsAssumption DEF NoSupervisor, NoFrontend, NoWorker, SupRec, FrontRec, WorkRec, SupAt, FrontAt, WorkAt

(* A slot that is picked is free. *)
LEMMA PickIn == ASSUME NEW S, S # {} PROVE Pick(S) \in S
BY DEF Pick

(* Stopping by endpoint and killing by handle only turn processes off. *)
LEMMA StopsOff ==
  ASSUME NEW S, NEW at \in [S -> RoleAt], NEW own
  PROVE  /\ StopAndKill(at, own) \in [S -> RoleAt]
         /\ Killed(at, own) \in [S -> RoleAt]
         /\ \A x \in S : Killed(at, own)[x] = IF x = own THEN "off" ELSE at[x]
BY DEF StopAndKill, Killed, RoleAt

(* The supervisor's steps keep types. *)
LEMMA SupTypes == ASSUME Slots, SupStep \/ StopSupervisor PROVE Slots'
<1>0. /\ sup \in SupRec /\ front \in [Frontends -> FrontRec] /\ work \in [Workers -> WorkRec]
      /\ host \in [Hosts -> RoleAt] /\ owner \in [Owners -> RoleAt]
  BY DEF Slots
<1>a. SupExit \/ SupGoto("probe") \/ SupGoto("wait") \/ SupGoto("halt") => sup' \in SupRec
  <2>1. NoHandle \in Frontends \cup {NoHandle} /\ {"probe", "wait", "halt"} \subseteq SupAt
    BY DEF SupAt
  <2> QED
    BY <1>0, <2>1, NoProcess DEF SupExit, SupGoto, SupRec
<1>b. SpawnFrontend => sup' \in SupRec /\ front' \in [Frontends -> FrontRec]
  <2>1. SpawnFrontend => Pick(FreeFrontends) \in Frontends
    BY PickIn DEF SpawnFrontend, FreeFrontends
  <2>2. "child" \in SupAt /\ "start" \in FrontAt /\ NoHandle \in Workers \cup {NoHandle}
    BY DEF SupAt, FrontAt
  <2>3. SpawnFrontend => sup' \in SupRec
    BY <1>0, <2>1, <2>2 DEF SpawnFrontend, SupRec
  <2>4. SpawnFrontend => front' \in [Frontends -> FrontRec]
    BY <1>0, <2>1, <2>2 DEF SpawnFrontend, FrontRec
  <2> QED
    BY <2>3, <2>4
<1>1. UNCHANGED <<work, host, owner>>
  BY DEF SupStep, AcquireLock, ProbeFrontend, AwaitExit, ChildExited, StandbyEnds, BackoffEnds,
         HaltChild, Halted, StopSupervisor, inner
<1>2. CASE AcquireLock \/ ProbeFrontend \/ AwaitExit \/ StandbyEnds \/ BackoffEnds
  <2>1. sup' \in SupRec /\ front' \in [Frontends -> FrontRec]
    BY <1>0, <1>2, <1>a, <1>b DEF AcquireLock, ProbeFrontend, AwaitExit, StandbyEnds, BackoffEnds
  <2> QED
    BY <1>0, <1>1, <2>1 DEF Slots
<1>3. CASE ChildExited
  <2>1. NoHandle \in Frontends \cup {NoHandle} /\ "standby" \in SupAt /\ "backoff" \in SupAt
    BY DEF SupAt
  <2>2. sup' \in SupRec
    BY <1>0, <1>3, <1>a, <2>1 DEF ChildExited, SupRec
  <2> QED
    BY <1>0, <1>1, <1>3, <2>2 DEF Slots, ChildExited
<1>4. CASE HaltChild \/ Halted
  <2>1. "start" \in FrontAt /\ NoHandle \in Workers \cup {NoHandle}
    BY DEF FrontAt
  <2>2. front' \in [Frontends -> FrontRec]
    <3>1. CASE front' = [front EXCEPT ![sup.child] = NoFrontend]
      BY <1>0, <3>1, NoProcess
    <3>2. CASE front' = [front EXCEPT ![sup.child].stop = TRUE]
      BY <1>0, <3>2 DEF FrontRec
    <3> QED
      BY <1>4, <3>1, <3>2 DEF HaltChild, Halted
  <2>3. sup' \in SupRec
    BY <1>4, <1>a DEF HaltChild, Halted
  <2> QED
    BY <1>0, <1>1, <2>2, <2>3 DEF Slots
<1>5. CASE StopSupervisor
  <2>1. "lock" \in SupAt /\ NoHandle \in Frontends \cup {NoHandle}
    BY DEF SupAt
  <2>2. sup' \in SupRec /\ front' = front
    BY <1>0, <1>5, <2>1 DEF StopSupervisor, SupRec
  <2> QED
    BY <1>0, <1>1, <2>2 DEF Slots
<1> QED
  BY <1>2, <1>3, <1>4, <1>5 DEF SupStep

(* A frontend's steps keep types. *)
LEMMA FrontTypes == ASSUME Slots, NEW f \in Frontends, FrontStep(f) PROVE Slots'
<1>0. /\ sup \in SupRec /\ front \in [Frontends -> FrontRec] /\ work \in [Workers -> WorkRec]
      /\ host \in [Hosts -> RoleAt] /\ owner \in [Owners -> RoleAt]
  BY DEF Slots
<1>1. UNCHANGED <<sup, host, owner>>
  BY DEF FrontStep, FrontListen, FrontEnsure, FrontSpawn, FrontPoll, Bridge, FrontStopWorker,
         FrontKillWorker, inner
<1>2. /\ NoHandle \in Workers \cup {NoHandle} /\ NoHandle \in Hosts \cup {NoHandle}
      /\ NoHandle \in Owners \cup {NoHandle}
      /\ {"start", "ensure", "again", "poll", "serve", "stopping"} \subseteq FrontAt
      /\ {"owner", "cleanHost"} \subseteq WorkAt
  BY DEF FrontAt, WorkAt
<1>3. \A w : KillWorker(w) => work' \in [Workers -> WorkRec]
  BY <1>0, NoProcess DEF KillWorker
<1>4. FrontServe(f) \/ FrontExit(f) => front' \in [Frontends -> FrontRec]
  BY <1>0, <1>2, NoProcess DEF FrontServe, FrontExit, FrontRec
<1>5. FreeWorkers # {} => Pick(FreeWorkers) \in Workers
  BY PickIn DEF FreeWorkers
<1>6. front' \in [Frontends -> FrontRec]
  <2>1. CASE FrontListen(f)
    BY <1>0, <1>2, <1>4, <2>1, NoProcess DEF FrontListen, FrontRec
  <2>2. CASE FrontEnsure(f)
    BY <1>0, <1>2, <1>4, <2>2, NoProcess DEF FrontEnsure, FrontRec
  <2>3. CASE FrontSpawn(f)
    BY <1>0, <1>2, <1>4, <1>5, <2>3, NoProcess DEF FrontSpawn, FrontRec
  <2>4. CASE FrontPoll(f)
    <3>1. CASE FrontServe(f)
      BY <1>4, <3>1
    <3>2. CASE front' = [front EXCEPT ![f] = IF @.first THEN NoFrontend
                                   ELSE [@ EXCEPT !.at = "serve", !.child = NoHandle]]
      <4>1. [front[f] EXCEPT !.at = "serve", !.child = NoHandle] \in FrontRec
        BY <1>0, <1>2 DEF FrontRec
      <4> QED
        BY <1>0, <3>2, <4>1, NoProcess
    <3> QED
      BY <2>4, <3>1, <3>2 DEF FrontPoll
  <2>5. CASE Bridge(f) \/ FrontStopWorker(f) \/ FrontKillWorker(f)
    BY <1>0, <1>2, <1>4, <2>5, NoProcess DEF Bridge, FrontStopWorker, FrontKillWorker, FrontRec
  <2> QED
    BY <2>1, <2>2, <2>3, <2>4, <2>5 DEF FrontStep
<1>7. work' \in [Workers -> WorkRec]
  <2>1. CASE FrontListen(f) \/ FrontEnsure(f) \/ FrontPoll(f) \/ Bridge(f) \/ FrontKillWorker(f)
    BY <1>0, <1>3, <2>1 DEF FrontListen, FrontEnsure, FrontPoll, Bridge, FrontKillWorker
  <2>2. CASE FrontSpawn(f)
    BY <1>0, <1>2, <1>5, <2>2, NoProcess DEF FrontSpawn, WorkRec
  <2>3. CASE FrontStopWorker(f)
    <3>1. \A r \in WorkRec : [r EXCEPT !.at = "cleanHost"] \in WorkRec
      BY <1>2 DEF WorkRec
    <3> QED
      BY <1>0, <2>3, <3>1 DEF FrontStopWorker
  <2> QED
    BY <2>1, <2>2, <2>3 DEF FrontStep
<1> QED
  BY <1>0, <1>1, <1>6, <1>7 DEF Slots

(* The steps of workers, hosts and owners keep types. *)
LEMMA InnerTypes ==
  ASSUME Slots,
         \/ \E w \in Workers : WorkStep(w)
         \/ \E h \in Hosts : HostStep(h)
         \/ \E o \in Owners : OwnerListen(o)
  PROVE  Slots'
<1>0. /\ sup \in SupRec /\ front \in [Frontends -> FrontRec] /\ work \in [Workers -> WorkRec]
      /\ host \in [Hosts -> RoleAt] /\ owner \in [Owners -> RoleAt]
  BY DEF Slots
<1>1. /\ NoHandle \in Hosts \cup {NoHandle} /\ NoHandle \in Owners \cup {NoHandle}
      /\ {"off", "owner", "ownerPoll", "host", "hostPoll", "listen", "serve", "cleanHost",
          "cleanOwner"} \subseteq WorkAt
      /\ {"off", "start", "serve"} \subseteq RoleAt
  BY DEF WorkAt, RoleAt
<1>2. \A x : Killed(host, x) \in [Hosts -> RoleAt] /\ StopAndKill(host, x) \in [Hosts -> RoleAt]
  BY <1>0, StopsOff
<1>3. \A x : Killed(owner, x) \in [Owners -> RoleAt] /\ StopAndKill(owner, x) \in [Owners -> RoleAt]
  BY <1>0, StopsOff
<1>4. ASSUME NEW w \in Workers, WorkStep(w) PROVE Slots'
  <2>1. sup' = sup /\ front' = front
    BY <1>4 DEF WorkStep, EnsureOwner, AwaitOwner, EnsureHost, AwaitHost, WorkListen, WorkStops,
                WorkCleansHost, WorkCleansOwner, inner
  <2>2. \A a \in WorkAt : WorkGoto(w, a) => work' \in [Workers -> WorkRec]
    BY <1>0, <1>1, NoProcess DEF WorkGoto, WorkRec
  <2>3. WorkExit(w) => work' \in [Workers -> WorkRec]
    BY <1>0, <1>1, NoProcess DEF WorkExit, WorkRec
  <2>4. FreeOwners # {} => Pick(FreeOwners) \in Owners
    BY PickIn DEF FreeOwners
  <2>5. FreeHosts # {} => Pick(FreeHosts) \in Hosts
    BY PickIn DEF FreeHosts
  <2>6. CASE EnsureOwner(w)
    <3>1. work' \in [Workers -> WorkRec]
      BY <1>0, <1>1, <2>2, <2>4, <2>6, NoProcess DEF EnsureOwner, WorkRec
    <3>2. owner' \in [Owners -> RoleAt] /\ host' = host
      BY <1>0, <1>1, <2>6 DEF EnsureOwner
    <3> QED
      BY <1>0, <2>1, <3>1, <3>2 DEF Slots
  <2>7. CASE AwaitOwner(w)
    <3>1. work' \in [Workers -> WorkRec]
      BY <1>0, <1>1, <2>2, <2>3, <2>7 DEF AwaitOwner
    <3>2. owner' \in [Owners -> RoleAt] /\ host' = host
      BY <1>0, <1>3, <2>7 DEF AwaitOwner
    <3> QED
      BY <1>0, <2>1, <3>1, <3>2 DEF Slots
  <2>8. CASE EnsureHost(w)
    <3>1. work' \in [Workers -> WorkRec]
      BY <1>0, <1>1, <2>2, <2>5, <2>8, NoProcess DEF EnsureHost, WorkRec
    <3>2. host' \in [Hosts -> RoleAt] /\ owner' = owner
      BY <1>0, <1>1, <2>8 DEF EnsureHost
    <3> QED
      BY <1>0, <2>1, <3>1, <3>2 DEF Slots
  <2>9. CASE AwaitHost(w)
    <3>1. work' \in [Workers -> WorkRec]
      BY <1>0, <1>1, <2>2, <2>3, <2>9 DEF AwaitHost
    <3>2. owner' \in [Owners -> RoleAt] /\ host' \in [Hosts -> RoleAt]
      BY <1>0, <1>2, <1>3, <2>9 DEF AwaitHost, inner
    <3> QED
      BY <1>0, <2>1, <3>1, <3>2 DEF Slots
  <2>10. CASE WorkListen(w) \/ WorkStops(w)
    <3>1. work' \in [Workers -> WorkRec]
      BY <1>0, <1>1, <2>2, <2>10 DEF WorkListen, WorkStops
    <3>2. host' = host /\ owner' = owner
      BY <2>10 DEF WorkListen, WorkStops, inner
    <3> QED
      BY <1>0, <2>1, <3>1, <3>2 DEF Slots
  <2>11. CASE WorkCleansHost(w) \/ WorkCleansOwner(w)
    <3>1. work' \in [Workers -> WorkRec]
      BY <1>0, <1>1, <2>3, <2>11, NoProcess DEF WorkCleansHost, WorkCleansOwner, WorkRec
    <3>2. owner' \in [Owners -> RoleAt] /\ host' \in [Hosts -> RoleAt]
      BY <1>0, <1>2, <1>3, <2>11 DEF WorkCleansHost, WorkCleansOwner
    <3> QED
      BY <1>0, <2>1, <3>1, <3>2 DEF Slots
  <2> QED
    BY <1>4, <2>6, <2>7, <2>8, <2>9, <2>10, <2>11 DEF WorkStep
<1>5. ASSUME NEW h \in Hosts, HostStep(h) PROVE Slots'
  BY <1>0, <1>1, <1>2, <1>5 DEF Slots, HostStep, HostListen, HostStops, outer
<1>6. ASSUME NEW o \in Owners, OwnerListen(o) PROVE Slots'
  BY <1>0, <1>1, <1>6 DEF Slots, OwnerListen, outer
<1> QED
  BY <1>4, <1>5, <1>6

(* So do crashes. *)
LEMMA CrashTypes == ASSUME Slots, CrashOuter \/ CrashInner PROVE Slots'
<1>0. /\ sup \in SupRec /\ front \in [Frontends -> FrontRec] /\ work \in [Workers -> WorkRec]
      /\ host \in [Hosts -> RoleAt] /\ owner \in [Owners -> RoleAt]
  BY DEF Slots
<1>1. CASE CrashOuter
  <2>1. SupExit => sup' \in SupRec
    BY NoProcess DEF SupExit
  <2>2. \A f : FrontExit(f) => front' \in [Frontends -> FrontRec]
    BY <1>0, NoProcess DEF FrontExit
  <2>3. \A w : WorkExit(w) => work' \in [Workers -> WorkRec]
    BY <1>0, NoProcess DEF WorkExit
  <2> QED
    BY <1>0, <1>1, <2>1, <2>2, <2>3 DEF Slots, CrashOuter, inner
<1>2. CASE CrashInner
  <2>1. \A x : Killed(host, x) \in [Hosts -> RoleAt] /\ Killed(owner, x) \in [Owners -> RoleAt]
    BY <1>0, StopsOff
  <2> QED
    BY <1>0, <1>2, <2>1 DEF Slots, CrashInner, outer
<1> QED
  BY <1>1, <1>2

(* In the chain there is one process of a role at most. *)
LEMMA ChainUnique ==
  ASSUME Slots, Chain
  PROVE  /\ \A f, g \in Frontends : front[f].at # "off" /\ front[g].at # "off" => f = g
         /\ \A v, w \in Workers : work[v].at # "off" /\ work[w].at # "off" => v = w
         /\ \A o, p \in Owners : owner[o] # "off" /\ owner[p] # "off" => o = p
         /\ \A h, i \in Hosts : host[h] # "off" /\ host[i] # "off" => h = i
<1>1. \A f, g \in Frontends : front[f].at # "off" /\ front[g].at # "off" => f = g
  BY DEF Chain, FrontChain
<1>2. \A v, w \in Workers : work[v].at # "off" /\ work[w].at # "off" => v = w
  BY <1>1 DEF Chain, WorkChain
<1>3. \A o, p \in Owners : owner[o] # "off" /\ owner[p] # "off" => o = p
  BY <1>2 DEF Chain, RoleChain
<1>4. \A h, i \in Hosts : host[h] # "off" /\ host[i] # "off" => h = i
  BY <1>2 DEF Chain, RoleChain
<1> QED
  BY <1>1, <1>2, <1>3, <1>4

(* While nothing goes wrong, the supervisor goes from the election to its    *)
(* frontend, which does not exit.                                            *)
LEMMA SupChain ==
  ASSUME Slots, Chain, ~Upset, SupStep
  PROVE  Chain'
<1>0. /\ sup \in SupRec /\ front \in [Frontends -> FrontRec]
      /\ FrontChain /\ WorkChain /\ RoleChain
  BY DEF Slots, Chain
<1>1. ~sup.stop /\ sup.at \notin {"wait", "standby", "backoff", "halt"}
  BY <1>0 DEF FrontChain
<1>2. ~AwaitExit /\ ~ChildExited /\ ~StandbyEnds /\ ~BackoffEnds /\ ~HaltChild /\ ~Halted
  BY <1>0, <1>1 DEF AwaitExit, ChildExited, StandbyEnds, BackoffEnds, HaltChild, Halted, FrontChain
<1>3. CASE AcquireLock
  <2>1. sup'.at = "probe" /\ sup'.child = sup.child /\ sup'.stop = sup.stop /\ sup.at = "lock"
    BY <1>0, <1>3 DEF AcquireLock, SupGoto, SupRec
  <2>2. UNCHANGED <<front, work, host, owner>>
    BY <1>3 DEF AcquireLock, inner
  <2> QED
    BY <1>0, <2>1, <2>2 DEF Chain, FrontChain, WorkChain, RoleChain
<1>4. CASE ProbeFrontend
  <2>1. \A f \in Frontends : front[f].at = "off"
    BY <1>0, <1>4 DEF ProbeFrontend, FrontChain
  <2>2. FrontBound = {}
    BY <2>1 DEF FrontBound
  <2>3. SpawnFrontend /\ UNCHANGED <<work, host, owner>>
    BY <1>1, <1>4, <2>2 DEF ProbeFrontend, Reachable, inner
  <2>4. PICK f \in Frontends : /\ front' = [front EXCEPT ![f].at = "start"]
                               /\ sup' = [sup EXCEPT !.at = "child", !.child = f]
    BY <2>3, PickIn DEF SpawnFrontend, FreeFrontends
  <2>5. sup'.at = "child" /\ sup'.child = f /\ sup'.stop = sup.stop
    BY <1>0, <2>4 DEF SupRec
  <2>6. /\ front'[f].at = "start" /\ front'[f].child = front[f].child /\ front'[f].stop = front[f].stop
        /\ \A g \in Frontends : g # f => front'[g] = front[g]
    BY <1>0, <2>4 DEF FrontRec
  <2>7. FrontChain'
    BY <1>0, <2>1, <2>3, <2>5, <2>6 DEF FrontChain
  <2>8. \A w \in Workers : work[w].at = "off"
    BY <1>0, <2>1 DEF WorkChain
  <2> QED
    BY <1>0, <2>3, <2>7, <2>8 DEF Chain, WorkChain, RoleChain
<1> QED
  BY <1>2, <1>3, <1>4 DEF SupStep

(* The frontend goes on to serve, with a worker of its own. *)
LEMMA FrontChainStep ==
  ASSUME Slots, Chain, ~Upset, NEW f \in Frontends, FrontStep(f)
  PROVE  Chain'
<1>0. /\ sup \in SupRec /\ front \in [Frontends -> FrontRec] /\ work \in [Workers -> WorkRec]
      /\ FrontChain /\ WorkChain /\ RoleChain
  BY DEF Slots, Chain
<1>a. ~front[f].stop /\ front[f].at \notin {"stopping"}
  BY <1>0 DEF FrontChain
<1>b. front[f].at = "serve" => Serving(workAt)
  BY <1>0 DEF FrontChain, Serving, workAt
<1>c. ~Bridge(f) /\ ~FrontStopWorker(f) /\ ~FrontKillWorker(f)
  BY <1>a, <1>b DEF Bridge, FrontStopWorker, FrontKillWorker, Fails
<1>d. UNCHANGED <<sup, host, owner>>
  BY DEF FrontStep, FrontListen, FrontEnsure, FrontSpawn, FrontPoll, Bridge, FrontStopWorker,
         FrontKillWorker, inner
<1>e. front[f].at \in {"start", "ensure", "again"} => \A w \in Workers : work[w].at = "off"
  <2>1. ASSUME NEW w \in Workers, work[w].at # "off", front[f].at \in {"start", "ensure", "again"}
        PROVE  FALSE
    <3>1. PICK g \in Frontends : front[g].at # "off" /\ front[g].child = w
      BY <1>0, <2>1 DEF WorkChain
    <3>2. g = f
      BY <2>1, <3>1, ChainUnique
    <3> QED
      BY <1>0, <2>1, <3>1, <3>2, NoProcess DEF FrontChain
  <2> QED
    BY <2>1
<1>f. front[f].at \in {"start", "ensure", "again"} => ~Serving(workAt)
  BY <1>e DEF Serving, workAt
<1>1. CASE FrontListen(f)
  <2>1. \A g \in Frontends : g # f => front[g].at = "off"
    BY <1>1, ChainUnique DEF FrontListen
  <2>2. FrontBound = {}
    BY <1>1, <2>1 DEF FrontBound, FrontListen
  <2>3. front' = [front EXCEPT ![f].at = "ensure"] /\ work' = work /\ front[f].at = "start"
    BY <1>1, <2>2 DEF FrontListen
  <2>4. /\ front'[f].at = "ensure" /\ front'[f].child = front[f].child /\ front'[f].stop = front[f].stop
        /\ \A g \in Frontends : g # f => front'[g] = front[g]
    BY <1>0, <2>3 DEF FrontRec
  <2>5. FrontChain'
    BY <1>0, <1>d, <2>3, <2>4 DEF FrontChain
  <2>6. WorkChain'
    BY <1>0, <1>d, <1>e, <2>3 DEF WorkChain
  <2> QED
    BY <1>0, <1>d, <2>3, <2>5, <2>6 DEF Chain, RoleChain
<1>2. CASE FrontEnsure(f)
  <2>1. /\ front' = [front EXCEPT ![f].at = "again", ![f].child = NoHandle]
        /\ KillWorker(front[f].child) /\ front[f].at = "ensure"
    BY <1>2, <1>f DEF FrontEnsure, Passes
  <2>2. front[f].child = NoHandle
    BY <1>0, <2>1 DEF FrontChain
  <2>3. work' = work
    BY <1>0, <2>1, <2>2, NoProcess DEF KillWorker
  <2>4. /\ front'[f].at = "again" /\ front'[f].child = NoHandle /\ front'[f].stop = front[f].stop
        /\ \A g \in Frontends : g # f => front'[g] = front[g]
    BY <1>0, <2>1 DEF FrontRec
  <2>5. FrontChain'
    BY <1>0, <1>d, <2>1, <2>3, <2>4 DEF FrontChain
  <2>6. WorkChain'
    BY <1>0, <1>d, <1>e, <2>1, <2>3 DEF WorkChain
  <2> QED
    BY <1>0, <1>d, <2>3, <2>5, <2>6 DEF Chain, RoleChain
<1>3. CASE FrontSpawn(f)
  <2>1. PICK w \in Workers : /\ work' = [work EXCEPT ![w].at = "owner"]
                             /\ front' = [front EXCEPT ![f].at = "poll", ![f].child = w]
    BY <1>3, <1>a, <1>f, PickIn DEF FrontSpawn, Passes, FreeWorkers
  <2>2. front[f].at = "again"
    BY <1>3 DEF FrontSpawn
  <2>3. /\ front'[f].at = "poll" /\ front'[f].child = w /\ front'[f].stop = front[f].stop
        /\ \A g \in Frontends : g # f => front'[g] = front[g]
    BY <1>0, <2>1 DEF FrontRec
  <2>4. /\ work'[w].at = "owner" /\ work'[w].host = work[w].host /\ work'[w].owner = work[w].owner
        /\ \A v \in Workers : v # w => work'[v] = work[v]
    BY <1>0, <2>1 DEF WorkRec
  <2>5. \A g \in Frontends : g # f => front[g].at = "off"
    BY <2>2, ChainUnique
  <2>6. FrontChain'
    BY <1>0, <1>d, <2>2, <2>3, <2>4, <2>5 DEF FrontChain
  <2>7. WorkChain'
    BY <1>0, <1>d, <1>e, <2>2, <2>3, <2>4 DEF WorkChain
  <2>8. \A o \in Owners : owner[o] = "off"
    BY <1>0, <1>e, <2>2 DEF RoleChain
  <2>9. \A h \in Hosts : host[h] = "off"
    BY <1>0, <1>e, <2>2 DEF RoleChain
  <2> QED
    BY <1>d, <2>6, <2>7, <2>8, <2>9 DEF Chain, RoleChain
<1>4. CASE FrontPoll(f)
  <2>1. front[f].at = "poll" /\ front[f].child \in Workers /\ work[front[f].child].at # "off"
    BY <1>0, <1>4 DEF FrontPoll, FrontChain
  <2>2. FrontServe(f) /\ work' = work /\ Serving(workAt)
    BY <1>4, <1>a, <2>1 DEF FrontPoll, Passes
  <2>3. /\ front'[f].at = "serve" /\ front'[f].child = front[f].child /\ front'[f].stop = front[f].stop
        /\ \A g \in Frontends : g # f => front'[g] = front[g]
    BY <1>0, <2>2 DEF FrontServe, FrontRec
  <2>4. PICK w \in Workers : work[w].at = "serve"
    BY <2>2 DEF Serving, workAt
  <2>5. work[front[f].child].at = "serve"
    BY <2>1, <2>4, ChainUnique
  <2>6. FrontChain'
    BY <1>0, <1>d, <2>1, <2>2, <2>3, <2>5 DEF FrontChain
  <2>7. WorkChain'
    BY <1>0, <1>d, <2>1, <2>2, <2>3 DEF WorkChain
  <2> QED
    BY <1>0, <1>d, <2>2, <2>6, <2>7 DEF Chain, RoleChain
<1> QED
  BY <1>1, <1>2, <1>3, <1>4, <1>c DEF FrontStep

(* The worker goes on to serve, with an owner and a host of its own. *)
LEMMA WorkChainStep ==
  ASSUME Slots, Chain, ~Upset, NEW w \in Workers, WorkStep(w)
  PROVE  Chain'
<1>0. /\ front \in [Frontends -> FrontRec] /\ work \in [Workers -> WorkRec]
      /\ host \in [Hosts -> RoleAt] /\ owner \in [Owners -> RoleAt]
      /\ FrontChain /\ WorkChain /\ RoleChain
  BY DEF Slots, Chain
<1>a. sup' = sup /\ front' = front
  BY DEF WorkStep, EnsureOwner, AwaitOwner, EnsureHost, AwaitHost, WorkListen, WorkStops,
         WorkCleansHost, WorkCleansOwner, inner
<1>b. work[w].at # "off"
  BY DEF WorkStep, EnsureOwner, AwaitOwner, EnsureHost, AwaitHost, WorkListen, WorkStops,
         WorkCleansHost, WorkCleansOwner
<1>c. \A v \in Workers : v # w => work[v].at = "off"
  BY <1>b, ChainUnique
<1>e. \A o \in Owners : owner[o] # "off" => work[w].owner = o
  BY <1>0, <1>c DEF RoleChain
<1>f. \A h \in Hosts : host[h] # "off" => work[w].host = h
  BY <1>0, <1>c DEF RoleChain
<1>h. work[w].host \in Hosts /\ host[work[w].host] = "serve" => Serving(host)
  BY <1>0 DEF Serving
<1>i. ASSUME NEW a \in WorkAt, work[w].at # "serve", a # "off", work'[w].at = a,
             \A v \in Workers : v # w => work'[v] = work[v]
      PROVE  FrontChain'
  <2>1. \A v \in Workers : work'[v].at = "off" <=> work[v].at = "off"
    BY <1>b, <1>c, <1>i
  <2>2. \A v \in Workers : work[v].at # "serve"
    BY <1>c, <1>i
  <2> QED
    BY <1>0, <1>a, <2>1, <2>2 DEF FrontChain
<1>1. CASE EnsureOwner(w)
  <2>1. work[w].at = "owner" /\ work[w].owner = NoHandle /\ work[w].host = NoHandle
    BY <1>0, <1>1 DEF EnsureOwner, WorkChain
  <2>2. \A o \in Owners : owner[o] = "off"
    BY <1>e, <2>1, NoProcess
  <2>3. ~Serving(owner)
    BY <1>0, <2>2 DEF Serving
  <2>4. PICK o \in Owners : /\ owner' = [owner EXCEPT ![o] = "start"]
                            /\ work' = [work EXCEPT ![w].at = "ownerPoll", ![w].owner = o]
    BY <1>1, <2>3, PickIn DEF EnsureOwner, Passes, FreeOwners
  <2>5. host' = host
    BY <1>1 DEF EnsureOwner
  <2>6. /\ work'[w].at = "ownerPoll" /\ work'[w].host = work[w].host /\ work'[w].owner = o
        /\ \A v \in Workers : v # w => work'[v] = work[v]
    BY <1>0, <2>4 DEF WorkRec
  <2>7. owner'[o] = "start" /\ \A p \in Owners : p # o => owner'[p] = "off"
    BY <1>0, <2>2, <2>4
  <2>8. FrontChain'
    BY <1>i, <2>1, <2>6 DEF WorkAt
  <2>9. WorkChain'
    BY <1>0, <1>a, <1>c, <2>1, <2>5, <2>6, <2>7 DEF WorkChain
  <2>10. RoleChain'
    BY <1>0, <1>f, <2>1, <2>5, <2>6, <2>7, NoProcess DEF RoleChain
  <2> QED
    BY <2>8, <2>9, <2>10 DEF Chain
<1>2. CASE AwaitOwner(w)
  <2>1. /\ work[w].at = "ownerPoll" /\ work[w].host = NoHandle
        /\ work[w].owner \in Owners /\ owner[work[w].owner] # "off"
    BY <1>0, <1>2 DEF AwaitOwner, WorkChain
  <2>2. Serving(owner) /\ WorkGoto(w, "host") /\ owner' = owner /\ host' = host
    BY <1>2, <2>1 DEF AwaitOwner, Passes
  <2>3. owner[work[w].owner] = "serve"
    BY <1>0, <1>e, <2>2 DEF Serving
  <2>4. /\ work'[w].at = "host" /\ work'[w].host = work[w].host /\ work'[w].owner = work[w].owner
        /\ \A v \in Workers : v # w => work'[v] = work[v]
    BY <1>0, <2>2 DEF WorkGoto, WorkRec
  <2>5. FrontChain'
    BY <1>i, <2>1, <2>4 DEF WorkAt
  <2>6. WorkChain'
    BY <1>0, <1>a, <1>b, <1>c, <2>1, <2>2, <2>3, <2>4 DEF WorkChain
  <2>7. RoleChain'
    BY <1>0, <1>e, <1>f, <2>2, <2>4 DEF RoleChain
  <2> QED
    BY <2>5, <2>6, <2>7 DEF Chain
<1>3. CASE EnsureHost(w)
  <2>1. /\ work[w].at = "host" /\ work[w].host = NoHandle
        /\ work[w].owner \in Owners /\ owner[work[w].owner] = "serve"
    BY <1>0, <1>3 DEF EnsureHost, WorkChain
  <2>2. \A h \in Hosts : host[h] = "off"
    BY <1>f, <2>1, NoProcess
  <2>3. ~Serving(host)
    BY <1>0, <2>2 DEF Serving
  <2>4. PICK h \in Hosts : /\ host' = [host EXCEPT ![h] = "start"]
                           /\ work' = [work EXCEPT ![w].at = "hostPoll", ![w].host = h]
    BY <1>3, <2>3, PickIn DEF EnsureHost, Passes, FreeHosts
  <2>5. owner' = owner
    BY <1>3 DEF EnsureHost
  <2>6. /\ work'[w].at = "hostPoll" /\ work'[w].host = h /\ work'[w].owner = work[w].owner
        /\ \A v \in Workers : v # w => work'[v] = work[v]
    BY <1>0, <2>4 DEF WorkRec
  <2>7. host'[h] = "start" /\ \A i \in Hosts : i # h => host'[i] = "off"
    BY <1>0, <2>2, <2>4
  <2>8. FrontChain'
    BY <1>i, <2>1, <2>6 DEF WorkAt
  <2>9. WorkChain'
    BY <1>0, <1>a, <1>b, <1>c, <2>1, <2>5, <2>6, <2>7 DEF WorkChain
  <2>10. RoleChain'
    BY <1>0, <1>e, <2>1, <2>5, <2>6, <2>7, NoProcess DEF RoleChain
  <2> QED
    BY <2>8, <2>9, <2>10 DEF Chain
<1>4. CASE AwaitHost(w)
  <2>1. /\ work[w].at = "hostPoll"
        /\ work[w].owner \in Owners /\ owner[work[w].owner] = "serve"
        /\ work[w].host \in Hosts /\ host[work[w].host] # "off"
    BY <1>0, <1>4 DEF AwaitHost, WorkChain
  <2>2. Serving(host) /\ WorkGoto(w, "listen") /\ owner' = owner /\ host' = host
    BY <1>4, <2>1 DEF AwaitHost, Passes, inner
  <2>3. host[work[w].host] = "serve"
    BY <1>0, <1>f, <2>2 DEF Serving
  <2>4. /\ work'[w].at = "listen" /\ work'[w].host = work[w].host /\ work'[w].owner = work[w].owner
        /\ \A v \in Workers : v # w => work'[v] = work[v]
    BY <1>0, <2>2 DEF WorkGoto, WorkRec
  <2>5. FrontChain'
    BY <1>i, <2>1, <2>4 DEF WorkAt
  <2>6. WorkChain'
    BY <1>0, <1>a, <1>b, <1>c, <2>1, <2>2, <2>3, <2>4 DEF WorkChain
  <2>7. RoleChain'
    BY <1>0, <1>e, <1>f, <2>2, <2>4 DEF RoleChain
  <2> QED
    BY <2>5, <2>6, <2>7 DEF Chain
<1>5. CASE WorkListen(w)
  <2>1. /\ work[w].at = "listen"
        /\ work[w].owner \in Owners /\ owner[work[w].owner] = "serve"
        /\ work[w].host \in Hosts /\ host[work[w].host] = "serve"
    BY <1>0, <1>5 DEF WorkListen, WorkChain
  <2>2. ~Serving(workAt)
    BY <1>c, <2>1 DEF Serving, workAt
  <2>3. WorkGoto(w, "serve") /\ owner' = owner /\ host' = host
    BY <1>5, <2>2 DEF WorkListen, inner
  <2>4. /\ work'[w].at = "serve" /\ work'[w].host = work[w].host /\ work'[w].owner = work[w].owner
        /\ \A v \in Workers : v # w => work'[v] = work[v]
    BY <1>0, <2>3 DEF WorkGoto, WorkRec
  <2>5. FrontChain'
    BY <1>i, <2>1, <2>4 DEF WorkAt
  <2>6. WorkChain'
    BY <1>0, <1>a, <1>b, <1>c, <2>1, <2>3, <2>4 DEF WorkChain
  <2>7. RoleChain'
    BY <1>0, <1>e, <1>f, <2>3, <2>4 DEF RoleChain
  <2> QED
    BY <2>5, <2>6, <2>7 DEF Chain
<1>6. ~WorkStops(w) /\ ~WorkCleansHost(w) /\ ~WorkCleansOwner(w)
  BY <1>0, <1>h DEF WorkStops, WorkCleansHost, WorkCleansOwner, Fails, WorkChain
<1> QED
  BY <1>1, <1>2, <1>3, <1>4, <1>5, <1>6 DEF WorkStep

(* Host and owner find their endpoints free. *)
LEMMA RoleChainStep ==
  ASSUME Slots, Chain, ~Upset,
         (\E h \in Hosts : HostStep(h)) \/ (\E o \in Owners : OwnerListen(o))
  PROVE  Chain'
<1>0. /\ work \in [Workers -> WorkRec]
      /\ host \in [Hosts -> RoleAt] /\ owner \in [Owners -> RoleAt]
      /\ FrontChain /\ WorkChain /\ RoleChain
  BY DEF Slots, Chain
<1>1. ASSUME NEW h \in Hosts, HostListen(h) PROVE Chain'
  <2>1. host[h] = "start" /\ UNCHANGED <<sup, front, work, owner>>
    BY <1>1 DEF HostListen, outer
  <2>2. ~Serving(host)
    BY <1>0, <2>1, ChainUnique DEF Serving
  <2>3. host' = [host EXCEPT ![h] = "serve"]
    BY <1>1, <2>2 DEF HostListen
  <2>4. host'[h] = "serve" /\ \A i \in Hosts : i # h => host'[i] = host[i]
    BY <1>0, <2>3
  <2> QED
    BY <1>0, <2>1, <2>4 DEF Chain, FrontChain, WorkChain, RoleChain
<1>2. ASSUME NEW h \in Hosts, HostStops(h) PROVE FALSE
  <2>1. PICK w \in Workers : work[w].at # "off" /\ work[w].host = h
    BY <1>0, <1>2 DEF HostStops, RoleChain
  <2>2. work[w].owner \in Owners /\ owner[work[w].owner] = "serve"
    BY <1>0, <2>1, NoProcess DEF WorkChain
  <2>3. Serving(owner)
    BY <1>0, <2>2 DEF Serving
  <2> QED
    BY <1>2, <2>3 DEF HostStops, Fails
<1>3. ASSUME NEW o \in Owners, OwnerListen(o) PROVE Chain'
  <2>1. owner[o] = "start" /\ UNCHANGED <<sup, front, work, host>>
    BY <1>3 DEF OwnerListen, outer
  <2>2. ~Serving(owner)
    BY <1>0, <2>1, ChainUnique DEF Serving
  <2>3. owner' = [owner EXCEPT ![o] = "serve"]
    BY <1>3, <2>2 DEF OwnerListen
  <2>4. owner'[o] = "serve" /\ \A p \in Owners : p # o => owner'[p] = owner[p]
    BY <1>0, <2>3
  <2> QED
    BY <1>0, <2>1, <2>4 DEF Chain, FrontChain, WorkChain, RoleChain
<1> QED
  BY <1>1, <1>2, <1>3 DEF HostStep

(* A step that stops nobody, ends no owner or host that serves, and gives no *)
(* worker a handle.                                                          *)
Calm ==
    /\ ~sup'.stop /\ \A f \in Frontends : ~front'[f].stop
    /\ \A w \in Workers :
          \/ work'[w] = work[w]
          \/ /\ work'[w].at \notin {"ownerPoll", "hostPoll"}
             /\ work'[w].owner = NoHandle /\ work'[w].host = NoHandle
    /\ \A o \in Owners : owner[o] = "serve" => owner'[o] = "serve"
    /\ \A h \in Hosts : host[h] = "serve" => host'[h] = "serve"

LEMMA CalmKeeps ==
  ASSUME Slots, Slots', KeptUp, Calm, kept \in Owners, kept' = kept
  PROVE  KeptUp'
<1>1. DOMAIN host = Hosts /\ DOMAIN host' = Hosts
  BY DEF Slots
<1>2. \A w \in Workers : /\ work[w].owner \in Owners \cup {NoHandle}
                         /\ work[w].host \in Hosts \cup {NoHandle}
  BY DEF Slots, WorkRec
<1>3. Serving(host)'
  BY <1>1 DEF KeptUp, Calm, Serving
<1> QED
  BY <1>2, <1>3 DEF KeptUp, Calm

(* Once all were up, and with no more than crashes of outer roles since,     *)
(* every step is such a step.                                                *)
LEMMA OuterCalm ==
  ASSUME Slots, KeptUp, ~Upset,
         SupStep \/ (\E f \in Frontends : FrontStep(f)) \/ CrashOuter
  PROVE  Calm
<1>0. /\ sup \in SupRec /\ front \in [Frontends -> FrontRec] /\ work \in [Workers -> WorkRec]
      /\ ~sup.stop /\ \A f \in Frontends : ~front[f].stop
  BY DEF Slots, KeptUp
<1>1. host' = host /\ owner' = owner
  BY DEF SupStep, AcquireLock, ProbeFrontend, AwaitExit, ChildExited, StandbyEnds, BackoffEnds,
         HaltChild, Halted, FrontStep, FrontListen, FrontEnsure, FrontSpawn, FrontPoll, Bridge,
         FrontStopWorker, FrontKillWorker, CrashOuter, inner
<1>2. \A w \in Workers : work[w].at # "serve" => work[w].owner = NoHandle /\ work[w].host = NoHandle
  BY DEF KeptUp
<1>3. ~NoSupervisor.stop /\ ~NoFrontend.stop /\ NoWorker.at = "off"
      /\ NoWorker.owner = NoHandle /\ NoWorker.host = NoHandle
  BY DEF NoSupervisor, NoFrontend, NoWorker
<1>4. \A f \in Frontends : FrontExit(f) => \A g \in Frontends : ~front'[g].stop
  BY <1>0, <1>3 DEF FrontExit
<1>5. CASE SupStep
  <2>1. work' = work
    BY <1>5 DEF SupStep, AcquireLock, ProbeFrontend, AwaitExit, ChildExited, StandbyEnds, BackoffEnds,
                HaltChild, Halted
  <2>2. \A a : SupGoto(a) => ~sup'.stop
    BY <1>0 DEF SupGoto, SupRec
  <2>3. SupExit => ~sup'.stop
    BY <1>3 DEF SupExit
  <2>4. SpawnFrontend => ~sup'.stop
    BY <1>0 DEF SpawnFrontend, SupRec
  <2>5. SpawnFrontend => \A g \in Frontends : ~front'[g].stop
    <3>1. \A f \in Frontends : \A g \in Frontends : ~[front EXCEPT ![f].at = "start"][g].stop
      BY <1>0 DEF FrontRec
    <3>2. SpawnFrontend => Pick(FreeFrontends) \in Frontends
      BY PickIn DEF SpawnFrontend, FreeFrontends
    <3> QED
      BY <3>1, <3>2 DEF SpawnFrontend
  <2>6. CASE AcquireLock \/ ProbeFrontend \/ AwaitExit \/ StandbyEnds \/ BackoffEnds
    <3>1. ~sup'.stop
      BY <2>2, <2>3, <2>4, <2>6 DEF AcquireLock, ProbeFrontend, AwaitExit, StandbyEnds, BackoffEnds
    <3>2. \A g \in Frontends : ~front'[g].stop
      BY <1>0, <2>5, <2>6 DEF AcquireLock, ProbeFrontend, AwaitExit, StandbyEnds, BackoffEnds
    <3> QED
      BY <1>1, <2>1, <3>1, <3>2 DEF Calm
  <2>7. CASE ChildExited
    <3>1. ~sup'.stop
      BY <1>0, <2>7 DEF ChildExited, SupRec
    <3>2. front' = front
      BY <2>7 DEF ChildExited
    <3> QED
      BY <1>0, <1>1, <2>1, <3>1, <3>2 DEF Calm
  <2>8. CASE Halted
    <3>1. \A g \in Frontends : ~front'[g].stop
      BY <1>0, <1>3, <2>8 DEF Halted
    <3>2. ~sup'.stop
      BY <2>3, <2>8 DEF Halted
    <3> QED
      BY <1>1, <2>1, <3>1, <3>2 DEF Calm
  <2>9. ~HaltChild
    BY <1>0 DEF HaltChild
  <2> QED
    BY <1>5, <2>6, <2>7, <2>8, <2>9 DEF SupStep
<1>6. ASSUME NEW f \in Frontends, FrontStep(f) PROVE Calm
  <2>1. sup' = sup /\ ~FrontStopWorker(f)
    BY <1>0, <1>6 DEF FrontStep, FrontListen, FrontEnsure, FrontSpawn, FrontPoll, Bridge, FrontStopWorker,
                FrontKillWorker
  <2>2. FrontServe(f) => \A g \in Frontends : ~front'[g].stop
    BY <1>0 DEF FrontServe, FrontRec
  <2>3. \A a : front' = [front EXCEPT ![f].at = a] => \A g \in Frontends : ~front'[g].stop
    BY <1>0 DEF FrontRec
  <2>4. \A a, c : front' = [front EXCEPT ![f].at = a, ![f].child = c] => \A g \in Frontends : ~front'[g].stop
    BY <1>0 DEF FrontRec
  <2>5. \A g \in Frontends : ~front'[g].stop
    <3>1. CASE FrontPoll(f)
      <4>1. CASE front' = [front EXCEPT ![f] =
                      IF @.first THEN NoFrontend ELSE [@ EXCEPT !.at = "serve", !.child = NoHandle]]
        <5>1. ~[front[f] EXCEPT !.at = "serve", !.child = NoHandle].stop
          BY <1>0 DEF FrontRec
        <5>2. \A g \in Frontends : g # f => front'[g] = front[g]
          BY <1>0, <4>1
        <5>3. front'[f] = NoFrontend \/ front'[f] = [front[f] EXCEPT !.at = "serve", !.child = NoHandle]
          BY <1>0, <4>1
        <5> QED
          BY <1>0, <1>3, <5>1, <5>2, <5>3
      <4> QED
        BY <2>2, <3>1, <4>1 DEF FrontPoll
    <3>2. CASE FrontListen(f) \/ FrontEnsure(f) \/ FrontSpawn(f) \/ Bridge(f) \/ FrontKillWorker(f)
      BY <1>4, <2>2, <2>3, <2>4, <3>2 DEF FrontListen, FrontEnsure, FrontSpawn, Bridge, FrontKillWorker
    <3> QED
      BY <1>6, <2>1, <3>1, <3>2 DEF FrontStep
  <2>6. \A x : KillWorker(x) =>
          \A w \in Workers : work'[w] = work[w] \/ work'[w] = NoWorker
    BY DEF KillWorker
  <2>7. \A w \in Workers :
          \/ work'[w] = work[w] \/ work'[w] = NoWorker
          \/ work'[w].at = "owner" /\ work'[w].owner = NoHandle /\ work'[w].host = NoHandle
    <3>1. CASE FrontSpawn(f)
      <4>1. work' = work \/ \E w \in Workers : work[w].at = "off" /\ work' = [work EXCEPT ![w].at = "owner"]
        BY <3>1, PickIn DEF FrontSpawn, FreeWorkers
      <4>2. ASSUME NEW w \in Workers, work[w].at = "off", work' = [work EXCEPT ![w].at = "owner"]
            PROVE  /\ work'[w].at = "owner" /\ work'[w].owner = NoHandle /\ work'[w].host = NoHandle
                   /\ \A v \in Workers : v # w => work'[v] = work[v]
        <5>1. work[w].owner = NoHandle /\ work[w].host = NoHandle
          BY <1>2, <4>2
        <5> QED
          BY <1>0, <4>2, <5>1 DEF WorkRec
      <4> QED
        BY <4>1, <4>2
    <3>2. CASE FrontListen(f) \/ FrontEnsure(f) \/ FrontPoll(f) \/ Bridge(f) \/ FrontKillWorker(f)
      BY <2>6, <3>2 DEF FrontListen, FrontEnsure, FrontPoll, Bridge, FrontKillWorker
    <3> QED
      BY <1>6, <2>1, <3>1, <3>2 DEF FrontStep
  <2> QED
    BY <1>0, <1>1, <1>3, <2>1, <2>5, <2>7 DEF Calm
<1>7. CASE CrashOuter
  <2>1. CASE SupExit /\ UNCHANGED <<front, work>>
    BY <1>0, <1>1, <1>3, <2>1 DEF Calm, SupExit
  <2>2. ASSUME NEW f \in Frontends, FrontExit(f), UNCHANGED <<sup, work>> PROVE Calm
    BY <1>0, <1>1, <1>4, <2>2 DEF Calm
  <2>3. ASSUME NEW w \in Workers, WorkExit(w), UNCHANGED <<sup, front>> PROVE Calm
    <3>1. \A v \in Workers : work'[v] = work[v] \/ work'[v] = NoWorker
      BY <1>0, <2>3 DEF WorkExit
    <3> QED
      BY <1>0, <1>1, <1>3, <2>3, <3>1 DEF Calm
  <2> QED
    BY <1>7, <2>1, <2>2, <2>3 DEF CrashOuter
<1> QED
  BY <1>5, <1>6, <1>7

(* A worker without handles stops nobody, and one with handles goes on.      *)
LEMMA InnerCalm ==
  ASSUME Slots, KeptUp, ~Upset, kept \in Owners,
         \/ \E w \in Workers : WorkStep(w)
         \/ \E h \in Hosts : HostStep(h)
         \/ \E o \in Owners : OwnerListen(o)
  PROVE  Calm
<1>0. /\ work \in [Workers -> WorkRec]
      /\ host \in [Hosts -> RoleAt] /\ owner \in [Owners -> RoleAt]
      /\ ~sup.stop /\ \A f \in Frontends : ~front[f].stop
  BY DEF Slots, KeptUp
<1>1. Serving(owner) /\ Serving(host)
  BY <1>0 DEF KeptUp, Serving
<1>2. ~Fails(owner) /\ ~Fails(host)
  BY <1>1 DEF Fails
<1>3. ASSUME NEW w \in Workers, WorkStep(w) PROVE Calm
  <2>1. sup' = sup /\ front' = front
    BY <1>3 DEF WorkStep, EnsureOwner, AwaitOwner, EnsureHost, AwaitHost, WorkListen, WorkStops,
                WorkCleansHost, WorkCleansOwner, inner
  <2>2. ~AwaitOwner(w) /\ ~AwaitHost(w)
    BY DEF AwaitOwner, AwaitHost, KeptUp
  <2>3. ~WorkStops(w)
    BY <1>2 DEF WorkStops, KeptUp
  <2>4. work[w].at # "serve" /\ work[w].owner = NoHandle /\ work[w].host = NoHandle
    BY <1>3, <2>2, <2>3 DEF WorkStep, EnsureOwner, EnsureHost, WorkListen, WorkCleansHost,
                            WorkCleansOwner, KeptUp
  <2>5. host' = host /\ owner' = owner
    BY <1>2, <1>3, <2>2, <2>3, <2>4 DEF WorkStep, EnsureOwner, EnsureHost, WorkListen, WorkCleansHost,
                            WorkCleansOwner, inner
  <2>6. \A a : WorkGoto(w, a) =>
          /\ work'[w].at = a /\ work'[w].owner = NoHandle /\ work'[w].host = NoHandle
          /\ \A v \in Workers : v # w => work'[v] = work[v]
    BY <1>0, <2>4 DEF WorkGoto, WorkRec
  <2>7. WorkExit(w) =>
          /\ work'[w].at = "off" /\ work'[w].owner = NoHandle /\ work'[w].host = NoHandle
          /\ \A v \in Workers : v # w => work'[v] = work[v]
    BY <1>0 DEF WorkExit, NoWorker
  <2>8. WorkCleansHost(w) =>
          /\ work'[w].at = "cleanOwner" /\ work'[w].owner = NoHandle /\ work'[w].host = NoHandle
          /\ \A v \in Workers : v # w => work'[v] = work[v]
    BY <1>0, <2>4 DEF WorkCleansHost, WorkRec
  <2>9. \/ \E a \in {"host", "listen", "cleanHost", "serve"} : WorkGoto(w, a)
        \/ WorkExit(w) \/ WorkCleansHost(w)
    BY <1>2, <1>3, <2>2, <2>3 DEF WorkStep, EnsureOwner, EnsureHost, WorkListen, WorkCleansOwner
  <2>10. \A v \in Workers :
          \/ work'[v] = work[v]
          \/ /\ work'[v].at \notin {"ownerPoll", "hostPoll"}
             /\ work'[v].owner = NoHandle /\ work'[v].host = NoHandle
    BY <2>6, <2>7, <2>8, <2>9
  <2> QED
    BY <1>0, <2>1, <2>5, <2>10 DEF Calm
<1>4. ASSUME NEW h \in Hosts, HostStep(h) PROVE Calm
  <2>1. HostListen(h)
    BY <1>2, <1>4 DEF HostStep, HostStops
  <2>2. \A i \in Hosts : host[i] = "serve" => host'[i] = "serve"
    BY <1>0, <2>1 DEF HostListen
  <2> QED
    BY <1>0, <2>1, <2>2 DEF HostListen, Calm, outer
<1>5. ASSUME NEW o \in Owners, OwnerListen(o) PROVE Calm
  <2>1. \A p \in Owners : owner[p] = "serve" => owner'[p] = "serve"
    BY <1>0, <1>5 DEF OwnerListen
  <2> QED
    BY <1>0, <1>5, <2>1 DEF OwnerListen, Calm, outer
<1> QED
  BY <1>3, <1>4, <1>5

(* When all roles come up and nothing has gone wrong, each serves.           *)
LEMMA UpFromChain ==
  ASSUME Slots', Chain', AllUp', kept' = CHOOSE o \in Owners : owner'[o] = "serve"
  PROVE  KeptUp' /\ kept' \in Owners
<1>0. /\ DOMAIN owner' = Owners
      /\ \A w \in Workers : work'[w].at \in {"off", "serve"}
  BY DEF Slots, AllUp
<1>1. \E o \in Owners : owner'[o] = "serve"
  BY <1>0 DEF AllUp, Serving
<1>2. kept' \in Owners /\ owner'[kept'] = "serve"
  BY <1>1
<1>3. ~sup'.stop /\ \A f \in Frontends : ~front'[f].stop
  BY DEF Chain, FrontChain
<1>4. Serving(host)'
  BY DEF AllUp
<1>5. \A w \in Workers :
        /\ work'[w].at \notin {"ownerPoll", "hostPoll"}
        /\ work'[w].owner # NoHandle => work'[w].at = "serve" /\ owner'[work'[w].owner] = "serve"
        /\ work'[w].host # NoHandle => work'[w].at = "serve" /\ host'[work'[w].host] = "serve"
  BY <1>0 DEF Chain, WorkChain
<1> QED
  BY <1>2, <1>3, <1>4, <1>5 DEF KeptUp

(* RolesTypeOK in parts. *)
LEMMA RolesTypes == RolesTypeOK <=> Slots /\ Counts /\ kept \in Owners \cup {NoHandle}
BY DEF RolesTypeOK, Slots, Counts, SupRec, FrontRec, WorkRec

(* The processes start in a state of the invariant. *)
LEMMA RolesInvInit == RolesInit => RolesInv
<1> SUFFICES ASSUME RolesInit PROVE RolesInv
  OBVIOUS
<1>1. Slots
  BY NoProcess DEF RolesInit, Slots, NoSupervisor, RoleAt
<1>2. Counts
  BY SlotsAssumption DEF RolesInit, Counts
<1>3. Chain
  BY NoProcess DEF RolesInit, Chain, FrontChain, WorkChain, RoleChain, NoFrontend, NoWorker
<1> QED
  BY <1>1, <1>2, <1>3, RolesTypes DEF RolesInit, RolesInv, StartUp, AfterUp

(* Every step counts its faults. *)
LEMMA FaultsCounted ==
  ASSUME RolesNext
  PROVE  /\ UNCHANGED faults \/ Upset \/ Crash
         /\ StopSupervisor \/ CrashInner => Upset
         /\ CrashOuter => Crash
<1>1. SupStep => UNCHANGED faults \/ Upset
  BY DEF SupStep, AcquireLock, ProbeFrontend, AwaitExit, ChildExited, StandbyEnds, BackoffEnds,
         HaltChild, Halted, Reachable, Unreachable
<1>2. \A f \in Frontends : FrontStep(f) => UNCHANGED faults \/ Upset
  BY DEF FrontStep, FrontListen, FrontEnsure, FrontSpawn, FrontPoll, Bridge, FrontStopWorker,
         FrontKillWorker, Passes, Fails
<1>3. \A w \in Workers : WorkStep(w) => UNCHANGED faults \/ Upset
  BY DEF WorkStep, EnsureOwner, AwaitOwner, EnsureHost, AwaitHost, WorkListen, WorkStops,
         WorkCleansHost, WorkCleansOwner, Passes, Fails
<1>4. (\A h \in Hosts : HostStep(h) => UNCHANGED faults \/ Upset)
      /\ (\A o \in Owners : OwnerListen(o) => UNCHANGED faults)
  BY DEF HostStep, HostListen, HostStops, OwnerListen, Fails
<1>5. (StopSupervisor \/ CrashInner => Upset) /\ (CrashOuter => Crash)
  BY DEF StopSupervisor, CrashInner, CrashOuter
<1> QED
  BY <1>1, <1>2, <1>3, <1>4, <1>5 DEF RolesNext

(* Every step of a role and every fault keeps the invariant. *)
LEMMA RolesInvStep == RolesInv /\ [RolesNext]_roleVars => RolesInv'
<1> SUFFICES ASSUME RolesInv, [RolesNext]_roleVars PROVE RolesInv'
  OBVIOUS
<1>0. Slots /\ Counts /\ kept \in Owners \cup {NoHandle} /\ StartUp /\ AfterUp
  BY RolesTypes DEF RolesInv
<1>1. CASE UNCHANGED roleVars
  <2>1. UNCHANGED <<sup, front, work, host, owner, crashes, upsets, kept>>
    BY <1>1 DEF roleVars, outer, inner, faults
  <2>2. RolesTypeOK' /\ StartUp'
    BY <2>1 DEF RolesInv, RolesTypeOK, StartUp, Chain, FrontChain, WorkChain, RoleChain
  <2>3. AfterUp'
    BY <1>0, <2>1 DEF AfterUp, KeptUp, Serving
  <2> QED
    BY <2>2, <2>3 DEF RolesInv
<1>2. CASE RolesNext
  <2>1. \/ SupStep \/ StopSupervisor \/ (\E f \in Frontends : FrontStep(f))
        \/ (\E w \in Workers : WorkStep(w)) \/ (\E h \in Hosts : HostStep(h))
        \/ (\E o \in Owners : OwnerListen(o)) \/ CrashOuter \/ CrashInner
    BY <1>2 DEF RolesNext
  <2>2. Remember
    BY <1>2 DEF RolesNext
  <2>3. Slots'
    BY <1>0, <2>1, SupTypes, FrontTypes, InnerTypes, CrashTypes
  <2>4. /\ UNCHANGED faults \/ Upset \/ Crash
        /\ StopSupervisor \/ CrashInner => Upset
        /\ CrashOuter => Crash
    BY <1>2, FaultsCounted
  <2>5. /\ Counts'
        /\ crashes' = 0 => crashes = 0
        /\ upsets' = 0 => upsets = 0 /\ ~Upset
        /\ crashes' = 0 /\ upsets' = 0 => UNCHANGED faults
    BY <1>0, <2>4, CountsStep
  <2>6. ASSUME crashes' = 0, upsets' = 0 PROVE Chain'
    <3>1. Chain /\ ~Upset /\ UNCHANGED faults
      BY <1>0, <2>5, <2>6 DEF StartUp
    <3>2. ~Crash
      BY <1>0, <3>1 DEF Crash, faults, Counts
    <3> QED
      BY <1>0, <2>1, <2>4, <3>1, <3>2, SupChain, FrontChainStep, WorkChainStep, RoleChainStep
  <2>7. CASE kept' = kept
    <3>1. ASSUME kept' # NoHandle, upsets' = 0 PROVE KeptUp'
      <4>1. kept \in Owners /\ KeptUp /\ ~Upset
        BY <1>0, <2>5, <2>7, <3>1 DEF AfterUp
      <4>2. Calm
        BY <1>0, <2>1, <2>4, <4>1, OuterCalm, InnerCalm
      <4> QED
        BY <1>0, <2>3, <2>7, <4>1, <4>2, CalmKeeps
    <3> QED
      BY <1>0, <2>3, <2>5, <2>6, <2>7, <3>1
         DEF RolesInv, StartUp, AfterUp, RolesTypeOK, Slots, Counts, SupRec, FrontRec, WorkRec
  <2>8. CASE kept' # kept
    <3>1. /\ crashes' = 0 /\ upsets' = 0 /\ AllUp'
          /\ kept' = CHOOSE o \in Owners : owner'[o] = "serve"
      BY <2>2, <2>8 DEF Remember
    <3>2. Chain'
      BY <2>6, <3>1
    <3>3. KeptUp' /\ kept' \in Owners
      BY <2>3, <3>1, <3>2, UpFromChain
    <3> QED
      BY <2>3, <2>5, <3>2, <3>3
         DEF RolesInv, StartUp, AfterUp, RolesTypeOK, Slots, Counts, SupRec, FrontRec, WorkRec
  <2> QED
    BY <2>7, <2>8
<1> QED
  BY <1>1, <1>2

(* The inductive invariant of the roles holds throughout. *)
THEOREM RolesInvHolds == RolesSpec => []RolesInv
BY RolesInvInit, RolesInvStep, PTL DEF RolesSpec

(* Handles are of processes of the right role, for any number of slots.      *)
THEOREM RolesTypeCorrect == RolesSpec => []RolesTypeOK
<1>1. RolesInv => RolesTypeOK
  BY DEF RolesInv
<1> QED
  BY RolesInvHolds, <1>1, PTL

(* Once all roles were up, no sequence of crashes of supervisors, frontends  *)
(* and workers, however long and however their replacements race, ends the   *)
(* socket owner (ADR-0016).                                                  *)
THEOREM OwnerSurvives == RolesSpec => []OwnerKept
<1>1. RolesInv => OwnerKept
  BY DEF RolesInv, AfterUp, KeptUp, OwnerKept
<1> QED
  BY RolesInvHolds, <1>1, PTL
=============================================================================
