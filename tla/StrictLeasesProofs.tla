------------------------- MODULE StrictLeasesProofs -------------------------
(* Proofs about StrictLeases for every set of leases and every limit.        *)
EXTENDS StrictLeases, FiniteSetTheorems, TLAPS

(* A request that has not made its lease yet: nobody else knows it.          *)
Early(l) == req[l] \in {"none", "waiting", "holding"}
EarlyInv ==
    \A l \in Leases : Early(l) =>
        /\ l \notin leases /\ l \notin removing /\ l \notin todo
        /\ entry # l /\ hold[l] = 0 /\ l \notin committed

(* A handler holds a reservation between its reserve and the registration.   *)
HandInv ==
    \A l \in Leases :
        /\ req[l] = "holding" => hand[l] \in Objects /\ sock[l][hand[l]] # "none"
        /\ req[l] # "holding" => hand[l] = 0

(* What the rebinder has at each of its steps.  While it is at a lease the   *)
(* lease holds nothing, and the lease it is about to set is registered or    *)
(* has a removal waiting for its lock.                                       *)
RebInv ==
    /\ at = "next" => entry = None /\ old = 0 /\ rep = 0
    /\ at # "next" => entry \in Leases /\ hold[entry] = 0
    /\ at # "release" => old = 0
    /\ at \in {"release", "reserve"} => rep = 0
    /\ at \in {"install", "set"} => rep \in Objects /\ sock[entry][rep] # "none"
    /\ at = "set" => entry \in leases \cup removing
    /\ at = "set" => (entry \in committed => sock[entry][rep] # "bound")

Disjoint == leases \cap removing = {}

(* The slots in use are counted over finite sets. *)
SlotInv == IsFiniteSet(leases) /\ IsFiniteSet(Pending) /\ SlotsExact

LeaseInv ==
    /\ TypeOK /\ EarlyInv /\ HandInv /\ RebInv /\ Disjoint
    /\ NoLeakedListener /\ HeldReservationsServe /\ SlotInv

(* The reservation objects, as far as the proofs look at them. *)
LEMMA ObjectFacts == 0 \notin Objects
BY DEF Objects

(* Initially there is nothing. *)
LEMMA LeaseInit == Init => LeaseInv
<1> SUFFICES ASSUME Init PROVE LeaseInv
  OBVIOUS
<1>1. TypeOK /\ EarlyInv /\ HandInv /\ RebInv /\ Disjoint /\ HeldReservationsServe
  BY ObjectFacts, MaxSessionsAssumption, NoneAssumption
     DEF Init, TypeOK, SockStates, EarlyInv, Early, HandInv, RebInv, Disjoint, HeldReservationsServe
<1>2. NoLeakedListener
  BY DEF Init, NoLeakedListener, Open
<1>3. leases = {} /\ Pending = {} /\ pendingLeases = 0
  BY DEF Init, Pending
<1>4. SlotInv
  BY <1>3, FS_EmptySet, MaxLeasesAssumption DEF SlotInv, SlotsExact
<1> QED
  BY <1>1, <1>2, <1>4 DEF LeaseInv

(* Slots are given back by removing leases, and unaffected by the rest. *)
LEMMA SlotsKept ==
  ASSUME TypeOK, SlotInv, pendingLeases' = pendingLeases, Pending' = Pending, leases' \subseteq leases
  PROVE  SlotInv'
<1>1. IsFiniteSet(leases') /\ Cardinality(leases') <= Cardinality(leases)
  BY FS_Subset DEF SlotInv
<1>2. Cardinality(leases) \in Nat /\ Cardinality(leases') \in Nat
  BY <1>1, FS_CardinalityType DEF SlotInv
<1>3. Cardinality(leases') + pendingLeases <= MaxLeases
  BY <1>1, <1>2, MaxLeasesAssumption DEF SlotInv, SlotsExact, TypeOK
<1> QED
  BY <1>1, <1>3 DEF SlotInv, SlotsExact

(* Changing one socket changes one socket. *)
LEMMA Update ==
  ASSUME NEW s \in [Leases -> [Objects -> SockStates]],
         NEW l \in Leases, NEW k \in Objects, NEW v \in SockStates
  PROVE  /\ [s EXCEPT ![l][k] = v] \in [Leases -> [Objects -> SockStates]]
         /\ \A m \in Leases, j \in Objects :
               [s EXCEPT ![l][k] = v][m][j] = IF m = l /\ j = k THEN v ELSE s[m][j]
OBVIOUS

(* Close ends the socket it is for, and none when there is none. *)
LEMMA ClosedFacts ==
  ASSUME TypeOK, NEW l \in Leases, NEW k \in {0} \cup Objects
  PROVE  /\ Closed(l, k) \in [Leases -> [Objects -> SockStates]]
         /\ \A m \in Leases, j \in Objects :
               Closed(l, k)[m][j] = IF m = l /\ j = k THEN "none" ELSE sock[m][j]
<1>1. sock \in [Leases -> [Objects -> SockStates]] /\ "none" \in SockStates
  BY DEF TypeOK, SockStates
<1>2. CASE k = 0
  BY <1>1, <1>2, ObjectFacts DEF Closed
<1>3. CASE k \in Objects
  BY <1>1, <1>3, Update, ObjectFacts DEF Closed
<1> QED
  BY <1>2, <1>3

(* Commit lets a bound socket accept and leaves any other as it is. *)
LEMMA AcceptingFacts ==
  ASSUME TypeOK, NEW l \in Leases, NEW k \in Objects
  PROVE  /\ Accepting(l, k) \in [Leases -> [Objects -> SockStates]]
         /\ \A m \in Leases, j \in Objects :
               Accepting(l, k)[m][j] = IF m = l /\ j = k /\ sock[m][j] = "bound"
                                       THEN "accepting" ELSE sock[m][j]
<1>1. sock \in [Leases -> [Objects -> SockStates]] /\ "accepting" \in SockStates
  BY DEF TypeOK, SockStates
<1>2. CASE sock[l][k] = "bound"
  BY <1>1, <1>2, Update DEF Accepting
<1>3. CASE sock[l][k] # "bound"
  BY <1>1, <1>3 DEF Accepting
<1> QED
  BY <1>2, <1>3

(* A bind opens a socket nobody had, of a lease that had none open. *)
LEMMA BindFacts ==
  ASSUME TypeOK, NEW l \in Leases, Bind(l)
  PROVE  /\ Fresh(l) \in Objects /\ Fresh(l) \notin Referenced(l)
         /\ sock' \in [Leases -> [Objects -> SockStates]]
         /\ \A j \in Objects : ~Open(l, j)
         /\ sock'[l][Fresh(l)] # "none"
         /\ \A m \in Leases, j \in Objects :
               m # l \/ j # Fresh(l) => sock'[m][j] = sock[m][j]
<1>1. Fresh(l) \in Objects \ Referenced(l)
  BY DEF Bind, Fresh
<1> DEFINE v == IF l \in Datagram THEN "accepting" ELSE "bound"
<1>2. v \in SockStates /\ v # "none"
  BY DEF SockStates
<1>3. sock' = [sock EXCEPT ![l][Fresh(l)] = v] /\ \A j \in Objects : ~Open(l, j)
  BY DEF Bind
<1>4. sock \in [Leases -> [Objects -> SockStates]]
  BY DEF TypeOK
<1> HIDE DEF v
<1> QED
  BY <1>1, <1>2, <1>3, <1>4, Update

(* What only moves the sessions, looks up a lease or starts, shortens or     *)
(* ends a pass of the rebinder disturbs the type invariant at most.          *)
LEMMA QuietStep ==
  ASSUME LeaseInv, TypeOK', todo' \subseteq todo \cup leases,
         UNCHANGED <<req, hand, pendingLeases, leases, hold, committed, removing, sock, at, entry, old, rep>>
  PROVE  LeaseInv'
<1>0. /\ EarlyInv /\ HandInv /\ RebInv /\ Disjoint
      /\ NoLeakedListener /\ HeldReservationsServe /\ SlotInv
  BY DEF LeaseInv
<1>1. EarlyInv' /\ HandInv' /\ RebInv' /\ Disjoint'
  BY <1>0 DEF EarlyInv, Early, HandInv, RebInv, Disjoint
<1>2. NoLeakedListener' /\ HeldReservationsServe'
  BY <1>0 DEF NoLeakedListener, Open, HeldReservationsServe
<1>3. SlotInv'
  BY <1>0 DEF SlotInv, SlotsExact, Pending
<1> QED
  BY <1>1, <1>2, <1>3 DEF LeaseInv

(* A new session changes nothing about the leases. *)
LEMMA SessionUpStep ==
  ASSUME LeaseInv, SessionUp
  PROVE  LeaseInv'
<1>1. TypeOK'
  BY MaxSessionsAssumption DEF LeaseInv, TypeOK, SessionUp, session, handlers, rebinder
<1> QED
  BY <1>1, QuietStep DEF SessionUp, handlers, rebinder

(* The end of a session closes sockets and opens none. *)
LEMMA SessionDiesStep ==
  ASSUME LeaseInv, SessionDies
  PROVE  LeaseInv'
<1>0. /\ TypeOK /\ EarlyInv /\ HandInv /\ RebInv /\ Disjoint
      /\ NoLeakedListener /\ HeldReservationsServe /\ SlotInv
  BY DEF LeaseInv
<1>1. /\ sock' \in [Leases -> [Objects -> SockStates]]
      /\ \A m \in Leases, j \in Objects :
            sock'[m][j] = IF sock[m][j] \in {"bound", "accepting"} THEN "dead" ELSE sock[m][j]
  BY <1>0 DEF SessionDies, TypeOK, SockStates, Open
<1>2. TypeOK'
  BY <1>0, <1>1 DEF SessionDies, handlers, rebinder, TypeOK
<1>3. EarlyInv' /\ HandInv' /\ RebInv' /\ Disjoint'
  BY <1>0 DEF SessionDies, handlers, rebinder, EarlyInv, Early, HandInv, RebInv, Disjoint
<1>4. NoLeakedListener'
  BY <1>0, <1>1 DEF NoLeakedListener, Open
<1>5. HeldReservationsServe'
  BY <1>0 DEF SessionDies, TypeOK, HeldReservationsServe
<1>6. SlotInv'
  BY <1>0, SlotsKept DEF SessionDies, handlers, Pending
<1> QED
  BY <1>2, <1>3, <1>4, <1>5, <1>6 DEF LeaseInv

(* A request takes a slot or is refused. *)
LEMMA ReserveStep ==
  ASSUME LeaseInv, NEW l \in Leases, Reserve(l)
  PROVE  LeaseInv'
<1>0. /\ TypeOK /\ EarlyInv /\ HandInv /\ RebInv /\ Disjoint
      /\ NoLeakedListener /\ HeldReservationsServe /\ SlotInv
  BY DEF LeaseInv
<1>2. TypeOK'
  BY <1>0 DEF Reserve, session, rebinder, TypeOK
<1>3. EarlyInv' /\ HandInv' /\ RebInv' /\ Disjoint'
  BY <1>0 DEF Reserve, rebinder, TypeOK, EarlyInv, Early, HandInv, RebInv, Disjoint
<1>4. NoLeakedListener'
  BY <1>0 DEF Reserve, rebinder, NoLeakedListener, Open
<1>5. HeldReservationsServe'
  BY <1>0 DEF Reserve, HeldReservationsServe
<1>6. SlotInv'
  <2>1. CASE pendingLeases' = pendingLeases + 1
    <3>1. Cardinality(leases) + pendingLeases < MaxLeases /\ leases' = leases
      BY <1>0, <2>1 DEF Reserve, TypeOK
    <3>2. Pending' = Pending \cup {l} /\ l \notin Pending
      BY <1>0, <2>1 DEF Reserve, Pending, TypeOK
    <3>3. IsFiniteSet(Pending') /\ Cardinality(Pending') = Cardinality(Pending) + 1
      BY <1>0, <3>2, FS_AddElement DEF SlotInv
    <3>4. Cardinality(leases) \in Nat /\ Cardinality(Pending) = pendingLeases
      BY <1>0, FS_CardinalityType DEF SlotInv, SlotsExact
    <3> QED
      BY <1>0, <2>1, <3>1, <3>3, <3>4, MaxLeasesAssumption DEF SlotInv, SlotsExact, TypeOK
  <2>2. CASE pendingLeases' = pendingLeases
    <3>1. Pending' = Pending /\ leases' = leases
      BY <1>0, <2>2 DEF Reserve, Pending, TypeOK
    <3> QED
      BY <1>0, <2>2, <3>1, SlotsKept
  <2> QED
    BY <2>1, <2>2 DEF Reserve
<1> QED
  BY <1>2, <1>3, <1>4, <1>5, <1>6 DEF LeaseInv

(* A reservation goes to its handler. *)
LEMMA ReserveOKStep ==
  ASSUME LeaseInv, NEW l \in Leases, ReserveOK(l)
  PROVE  LeaseInv'
<1>0. /\ TypeOK /\ EarlyInv /\ HandInv /\ RebInv /\ Disjoint
      /\ NoLeakedListener /\ HeldReservationsServe /\ SlotInv
  BY DEF LeaseInv
<1>1. /\ Fresh(l) \in Objects /\ Fresh(l) \notin Referenced(l)
      /\ sock' \in [Leases -> [Objects -> SockStates]]
      /\ sock'[l][Fresh(l)] # "none"
      /\ \A m \in Leases, j \in Objects : m # l \/ j # Fresh(l) => sock'[m][j] = sock[m][j]
      /\ \A j \in Objects : sock[l][j] \notin {"bound", "accepting"}
  BY <1>0, BindFacts DEF ReserveOK, Open
<1>2. TypeOK'
  BY <1>0, <1>1 DEF ReserveOK, session, rebinder, TypeOK
<1>3. EarlyInv' /\ HandInv' /\ RebInv' /\ Disjoint'
  BY <1>0, <1>1 DEF ReserveOK, rebinder, TypeOK, EarlyInv, Early, HandInv, RebInv, Disjoint
<1>4. NoLeakedListener'
  BY <1>0, <1>1 DEF ReserveOK, rebinder, TypeOK, NoLeakedListener, Open
<1>5. HeldReservationsServe'
  BY <1>0, <1>1 DEF ReserveOK, TypeOK, Disjoint, Referenced, HeldReservationsServe
<1>6. SlotInv'
  BY <1>0, SlotsKept DEF ReserveOK, Pending, TypeOK
<1> QED
  BY <1>2, <1>3, <1>4, <1>5, <1>6 DEF LeaseInv

(* A failed reservation gives its slot back. *)
LEMMA ReserveFailsStep ==
  ASSUME LeaseInv, NEW l \in Leases, ReserveFails(l)
  PROVE  LeaseInv'
<1>0. /\ TypeOK /\ EarlyInv /\ HandInv /\ RebInv /\ Disjoint
      /\ NoLeakedListener /\ HeldReservationsServe /\ SlotInv
  BY DEF LeaseInv
<1>2. TypeOK'
  BY <1>0 DEF ReserveFails, session, rebinder, TypeOK
<1>3. EarlyInv' /\ HandInv' /\ RebInv' /\ Disjoint'
  BY <1>0 DEF ReserveFails, rebinder, EarlyInv, Early, HandInv, RebInv, Disjoint
<1>4. NoLeakedListener'
  BY <1>0 DEF ReserveFails, rebinder, NoLeakedListener, Open
<1>5. HeldReservationsServe'
  BY <1>0 DEF ReserveFails, HeldReservationsServe
<1>6. SlotInv'
  <2>1. Pending' = Pending \ {l} /\ l \in Pending /\ leases' = leases
    BY <1>0 DEF ReserveFails, Pending, TypeOK
  <2>2. IsFiniteSet(Pending') /\ Cardinality(Pending') = Cardinality(Pending) - 1
    BY <1>0, <2>1, FS_RemoveElement DEF SlotInv
  <2>3. Cardinality(leases) \in Nat /\ Cardinality(Pending') \in Nat /\ Cardinality(Pending) = pendingLeases
    BY <1>0, <2>2, FS_CardinalityType DEF SlotInv, SlotsExact
  <2>4. pendingLeases' = pendingLeases - 1
    BY <1>0, <2>2, <2>3 DEF ReserveFails, TypeOK
  <2> QED
    BY <1>0, <2>1, <2>2, <2>3, <2>4, MaxLeasesAssumption DEF SlotInv, SlotsExact, TypeOK
<1> QED
  BY <1>2, <1>3, <1>4, <1>5, <1>6 DEF LeaseInv

(* The handler's reservation becomes the lease's, and its slot a lease. *)
LEMMA InsertStep ==
  ASSUME LeaseInv, NEW l \in Leases, Insert(l)
  PROVE  LeaseInv'
<1>0. /\ TypeOK /\ EarlyInv /\ HandInv /\ RebInv /\ Disjoint
      /\ NoLeakedListener /\ HeldReservationsServe /\ SlotInv
  BY DEF LeaseInv
<1>a. pendingLeases > 0 /\ SlotInv'
  <2>1. /\ Pending' = Pending \ {l} /\ l \in Pending
        /\ leases' = leases \cup {l} /\ l \notin leases
        /\ pendingLeases' = pendingLeases - 1
    BY <1>0 DEF Insert, Pending, TypeOK, EarlyInv, Early
  <2>2. /\ IsFiniteSet(Pending') /\ Cardinality(Pending') = Cardinality(Pending) - 1
        /\ IsFiniteSet(leases') /\ Cardinality(leases') = Cardinality(leases) + 1
    BY <1>0, <2>1, FS_RemoveElement, FS_AddElement DEF SlotInv
  <2>3. Cardinality(leases) \in Nat /\ Cardinality(Pending') \in Nat /\ Cardinality(Pending) = pendingLeases
    BY <1>0, <2>2, FS_CardinalityType DEF SlotInv, SlotsExact
  <2> QED
    BY <1>0, <2>1, <2>2, <2>3, MaxLeasesAssumption DEF SlotInv, SlotsExact, TypeOK
<1>2. TypeOK'
  BY <1>0, <1>a DEF Insert, session, rebinder, TypeOK
<1>3. EarlyInv' /\ HandInv' /\ RebInv' /\ Disjoint'
  BY <1>0 DEF Insert, rebinder, TypeOK, EarlyInv, Early, HandInv, RebInv, Disjoint
<1>4. NoLeakedListener'
  BY <1>0 DEF Insert, rebinder, TypeOK, EarlyInv, Early, NoLeakedListener, Open
<1>5. HeldReservationsServe'
  BY <1>0 DEF Insert, EarlyInv, Early, HandInv, HeldReservationsServe
<1> QED
  BY <1>2, <1>3, <1>4, <1>5, <1>a DEF LeaseInv

(* An answer that fails removes the lease. *)
LEMMA ReplyStep ==
  ASSUME LeaseInv, NEW l \in Leases, Reply(l)
  PROVE  LeaseInv'
<1>0. /\ TypeOK /\ EarlyInv /\ HandInv /\ RebInv /\ Disjoint
      /\ NoLeakedListener /\ HeldReservationsServe /\ SlotInv
  BY DEF LeaseInv
<1>2. TypeOK'
  BY <1>0 DEF Reply, session, rebinder, Unregister, TypeOK
<1>3. EarlyInv' /\ HandInv' /\ RebInv' /\ Disjoint'
  BY <1>0 DEF Reply, rebinder, Unregister, EarlyInv, Early, HandInv, RebInv, Disjoint
<1>4. NoLeakedListener'
  BY <1>0 DEF Reply, rebinder, Unregister, NoLeakedListener, Open
<1>5. HeldReservationsServe'
  BY <1>0 DEF Reply, Unregister, HeldReservationsServe
<1>6. SlotInv'
  BY <1>0, SlotsKept DEF Reply, Pending, TypeOK, Unregister
<1> QED
  BY <1>2, <1>3, <1>4, <1>5, <1>6 DEF LeaseInv

(* Looking up a lease changes nothing. *)
LEMMA CommitLookupStep ==
  ASSUME LeaseInv, NEW l \in Leases, CommitLookup(l)
  PROVE  LeaseInv'
<1>1. TypeOK'
  BY DEF LeaseInv, TypeOK, CommitLookup, session, rebinder
<1> QED
  BY <1>1, QuietStep DEF CommitLookup, rebinder

(* A commit lets the socket of its lease accept, and of no other. *)
LEMMA CommitStep ==
  ASSUME LeaseInv, NEW l \in Leases, Commit(l)
  PROVE  LeaseInv'
<1>0. /\ TypeOK /\ EarlyInv /\ HandInv /\ RebInv /\ Disjoint
      /\ NoLeakedListener /\ HeldReservationsServe /\ SlotInv
  BY DEF LeaseInv
<1>1. /\ sock' \in [Leases -> [Objects -> SockStates]]
      /\ \A m \in Leases, j \in Objects :
            /\ sock'[m][j] # sock[m][j] => sock[m][j] = "bound" /\ sock'[m][j] = "accepting"
            /\ m # l => sock'[m][j] = sock[m][j]
      /\ \/ committed' = committed
         \/ committed' = committed \cup {l} /\ hold[l] # 0 /\ sock'[l][hold[l]] # "bound"
  <2>1. CASE sock' = sock /\ committed' = committed
    BY <1>0, <2>1 DEF TypeOK
  <2>2. CASE hold[l] # 0 /\ sock' = Accepting(l, hold[l]) /\ committed' = committed \cup {l}
    <3>1. hold[l] \in Objects
      BY <1>0, <2>2 DEF TypeOK
    <3> QED
      BY <1>0, <2>2, <3>1, AcceptingFacts
  <2> QED
    BY <2>1, <2>2 DEF Commit
<1>2. TypeOK'
  BY <1>0, <1>1 DEF Commit, session, rebinder, Unregister, TypeOK
<1>3. EarlyInv' /\ Disjoint'
  BY <1>0 DEF Commit, rebinder, Unregister, EarlyInv, Early, Disjoint
<1>4. HandInv'
  BY <1>0, <1>1 DEF Commit, HandInv
<1>5. RebInv'
  BY <1>0, <1>1 DEF Commit, rebinder, Unregister, RebInv
<1>6. NoLeakedListener'
  BY <1>0, <1>1 DEF Commit, rebinder, Unregister, NoLeakedListener, Open
<1>7. HeldReservationsServe'
  BY <1>0, <1>1 DEF Commit, Unregister, TypeOK, HeldReservationsServe
<1>8. SlotInv'
  BY <1>0, SlotsKept DEF Commit, Pending, Unregister
<1> QED
  BY <1>2, <1>3, <1>4, <1>5, <1>6, <1>7, <1>8 DEF LeaseInv

(* A removed lease keeps its reservation until that is closed. *)
LEMMA RemoveStep ==
  ASSUME LeaseInv, NEW l \in Leases, Remove(l)
  PROVE  LeaseInv'
<1>0. /\ TypeOK /\ EarlyInv /\ HandInv /\ RebInv /\ Disjoint
      /\ NoLeakedListener /\ HeldReservationsServe /\ SlotInv
  BY DEF LeaseInv
<1>2. TypeOK'
  BY <1>0 DEF Remove, session, handlers, rebinder, Unregister, TypeOK
<1>3. EarlyInv' /\ HandInv' /\ RebInv' /\ Disjoint'
  BY <1>0 DEF Remove, handlers, rebinder, Unregister, EarlyInv, Early, HandInv, RebInv, Disjoint
<1>4. NoLeakedListener'
  BY <1>0 DEF Remove, handlers, rebinder, Unregister, NoLeakedListener, Open
<1>5. HeldReservationsServe'
  BY <1>0 DEF Remove, Unregister, HeldReservationsServe
<1>6. SlotInv'
  BY <1>0, SlotsKept DEF Remove, handlers, Pending, Unregister
<1> QED
  BY <1>2, <1>3, <1>4, <1>5, <1>6 DEF LeaseInv

(* The reservation of a removed lease is closed and nobody sets another. *)
LEMMA CloseRemovedStep ==
  ASSUME LeaseInv, NEW l \in Leases, CloseRemoved(l)
  PROVE  LeaseInv'
<1>0. /\ TypeOK /\ EarlyInv /\ HandInv /\ RebInv /\ Disjoint
      /\ NoLeakedListener /\ HeldReservationsServe /\ SlotInv
  BY DEF LeaseInv
<1>1. /\ sock' \in [Leases -> [Objects -> SockStates]]
      /\ \A m \in Leases, j \in Objects :
            sock'[m][j] = IF m = l /\ j = hold[l] THEN "none" ELSE sock[m][j]
  <2>1. hold[l] \in {0} \cup Objects /\ sock' = Closed(l, hold[l])
    BY <1>0 DEF CloseRemoved, TypeOK
  <2>2. /\ Closed(l, hold[l]) \in [Leases -> [Objects -> SockStates]]
        /\ \A m \in Leases, j \in Objects :
              Closed(l, hold[l])[m][j] = IF m = l /\ j = hold[l] THEN "none" ELSE sock[m][j]
    BY <1>0, <2>1, ClosedFacts
  <2> QED
    BY <2>1, <2>2
<1>b. at \in {"install", "set"} => sock'[entry][rep] = sock[entry][rep]
  BY <1>0, <1>1, ObjectFacts DEF RebInv
<1>2. TypeOK'
  BY <1>0, <1>1 DEF CloseRemoved, session, handlers, rebinder, TypeOK
<1>3. EarlyInv' /\ HandInv' /\ RebInv' /\ Disjoint'
  BY <1>0, <1>1, ObjectFacts
     DEF CloseRemoved, handlers, rebinder, Locked, EarlyInv, Early, HandInv, RebInv, Disjoint
<1>4. NoLeakedListener'
  BY <1>0, <1>1 DEF CloseRemoved, handlers, rebinder, NoLeakedListener, Open
<1>5. HeldReservationsServe'
  BY <1>0, <1>1 DEF CloseRemoved, TypeOK, Disjoint, HeldReservationsServe
<1>6. SlotInv'
  BY <1>0, SlotsKept DEF CloseRemoved, handlers, Pending
<1> QED
  BY <1>2, <1>3, <1>4, <1>5, <1>6 DEF LeaseInv

(* The snapshot holds registered leases. *)
LEMMA RebindStartStep ==
  ASSUME LeaseInv, RebindStart
  PROVE  LeaseInv'
<1>1. TypeOK'
  BY DEF LeaseInv, TypeOK, RebindStart, handlers
<1> QED
  BY <1>1, QuietStep DEF RebindStart, handlers

(* So does the one of RetryMissing. *)
LEMMA RetryStartStep ==
  ASSUME LeaseInv, RetryStart
  PROVE  LeaseInv'
<1>1. TypeOK'
  BY DEF LeaseInv, TypeOK, RetryStart, session, handlers
<1> QED
  BY <1>1, QuietStep DEF RetryStart, handlers

(* A lease passed over stays as it is. *)
LEMMA SkipStep ==
  ASSUME LeaseInv, NEW l \in Leases, Skip(l)
  PROVE  LeaseInv'
<1>1. TypeOK'
  BY DEF LeaseInv, TypeOK, Skip, session, handlers
<1> QED
  BY <1>1, QuietStep DEF Skip, handlers

(* The rebinder takes the reservation over from its lease. *)
LEMMA TakeOldStep ==
  ASSUME LeaseInv, NEW l \in Leases, TakeOld(l)
  PROVE  LeaseInv'
<1>0. /\ TypeOK /\ EarlyInv /\ HandInv /\ RebInv /\ Disjoint
      /\ NoLeakedListener /\ HeldReservationsServe /\ SlotInv
  BY DEF LeaseInv
<1>2. TypeOK'
  BY <1>0 DEF TakeOld, session, handlers, TypeOK
<1>3. EarlyInv' /\ HandInv' /\ RebInv' /\ Disjoint'
  BY <1>0 DEF TakeOld, handlers, TypeOK, EarlyInv, Early, HandInv, RebInv, Disjoint
<1>4. NoLeakedListener'
  BY <1>0, ObjectFacts DEF TakeOld, handlers, RebInv, NoLeakedListener, Open
<1>5. HeldReservationsServe'
  BY <1>0 DEF TakeOld, HeldReservationsServe
<1>6. SlotInv'
  BY <1>0, SlotsKept DEF TakeOld, handlers, Pending
<1> QED
  BY <1>2, <1>3, <1>4, <1>5, <1>6 DEF LeaseInv

(* Leases that are cut off stay as they are. *)
LEMMA ExpireStep ==
  ASSUME LeaseInv, Expire
  PROVE  LeaseInv'
<1>1. TypeOK'
  BY DEF LeaseInv, TypeOK, Expire, session, handlers
<1> QED
  BY <1>1, QuietStep DEF Expire, handlers

(* Ending a pass changes nothing. *)
LEMMA PassEndsStep ==
  ASSUME LeaseInv, PassEnds
  PROVE  LeaseInv'
<1>1. TypeOK'
  BY DEF LeaseInv, TypeOK, PassEnds, session, handlers
<1> QED
  BY <1>1, QuietStep DEF PassEnds, handlers

(* The old reservation is closed before it is forgotten. *)
LEMMA ReleaseOldStep ==
  ASSUME LeaseInv, ReleaseOld
  PROVE  LeaseInv'
<1>0. /\ TypeOK /\ EarlyInv /\ HandInv /\ RebInv /\ Disjoint
      /\ NoLeakedListener /\ HeldReservationsServe /\ SlotInv
  BY DEF LeaseInv
<1>1. /\ sock' \in [Leases -> [Objects -> SockStates]]
      /\ \A m \in Leases, j \in Objects :
            sock'[m][j] = IF m = entry /\ j = old THEN "none" ELSE sock[m][j]
  BY <1>0, ClosedFacts DEF ReleaseOld, TypeOK, RebInv
<1>2. TypeOK'
  BY <1>0, <1>1 DEF ReleaseOld, session, handlers, TypeOK
<1>3. EarlyInv' /\ HandInv' /\ RebInv' /\ Disjoint'
  BY <1>0, <1>1 DEF ReleaseOld, handlers, EarlyInv, Early, HandInv, RebInv, Disjoint
<1>4. NoLeakedListener'
  BY <1>0, <1>1 DEF ReleaseOld, handlers, NoLeakedListener, Open
<1>5. HeldReservationsServe'
  BY <1>0, <1>1 DEF ReleaseOld, TypeOK, RebInv, HeldReservationsServe
<1>6. SlotInv'
  BY <1>0, SlotsKept DEF ReleaseOld, handlers, Pending
<1> QED
  BY <1>2, <1>3, <1>4, <1>5, <1>6 DEF LeaseInv

(* The replacement belongs to the rebinder. *)
LEMMA RereserveStep ==
  ASSUME LeaseInv, NEW l \in Leases, Rereserve(l)
  PROVE  LeaseInv'
<1>0. /\ TypeOK /\ EarlyInv /\ HandInv /\ RebInv /\ Disjoint
      /\ NoLeakedListener /\ HeldReservationsServe /\ SlotInv
  BY DEF LeaseInv
<1>1. /\ Fresh(l) \in Objects /\ Fresh(l) \notin Referenced(l)
      /\ sock' \in [Leases -> [Objects -> SockStates]]
      /\ sock'[l][Fresh(l)] # "none"
      /\ \A m \in Leases, j \in Objects : m # l \/ j # Fresh(l) => sock'[m][j] = sock[m][j]
      /\ \A j \in Objects : sock[l][j] \notin {"bound", "accepting"}
  BY <1>0, BindFacts DEF Rereserve, Open
<1>2. TypeOK'
  BY <1>0, <1>1 DEF Rereserve, session, handlers, TypeOK
<1>3. EarlyInv' /\ HandInv' /\ RebInv' /\ Disjoint'
  BY <1>0, <1>1 DEF Rereserve, handlers, EarlyInv, Early, HandInv, RebInv, Disjoint
<1>4. NoLeakedListener'
  BY <1>0, <1>1 DEF Rereserve, handlers, NoLeakedListener, Open
<1>5. HeldReservationsServe'
  BY <1>0, <1>1 DEF Rereserve, TypeOK, Referenced, HeldReservationsServe
<1>6. SlotInv'
  BY <1>0, SlotsKept DEF Rereserve, handlers, Pending
<1> QED
  BY <1>2, <1>3, <1>4, <1>5, <1>6 DEF LeaseInv

(* Without a replacement the rebinder has nothing. *)
LEMMA RereserveFailsStep ==
  ASSUME LeaseInv, RereserveFails
  PROVE  LeaseInv'
<1>0. /\ TypeOK /\ EarlyInv /\ HandInv /\ RebInv /\ Disjoint
      /\ NoLeakedListener /\ HeldReservationsServe /\ SlotInv
  BY DEF LeaseInv
<1>2. TypeOK'
  BY <1>0 DEF RereserveFails, session, handlers, TypeOK
<1>3. EarlyInv' /\ HandInv' /\ RebInv' /\ Disjoint'
  BY <1>0, NoneAssumption DEF RereserveFails, handlers, EarlyInv, Early, HandInv, RebInv, Disjoint
<1>4. NoLeakedListener'
  BY <1>0, ObjectFacts DEF RereserveFails, handlers, RebInv, NoLeakedListener, Open
<1>5. HeldReservationsServe'
  BY <1>0 DEF RereserveFails, HeldReservationsServe
<1>6. SlotInv'
  BY <1>0, SlotsKept DEF RereserveFails, handlers, Pending
<1> QED
  BY <1>2, <1>3, <1>4, <1>5, <1>6 DEF LeaseInv

(* A replacement is on its way into a registered lease, committed if that is, or it is closed. *)
LEMMA InstallStep ==
  ASSUME LeaseInv, Install
  PROVE  LeaseInv'
<1>0. /\ TypeOK /\ EarlyInv /\ HandInv /\ RebInv /\ Disjoint
      /\ NoLeakedListener /\ HeldReservationsServe /\ SlotInv
  BY DEF LeaseInv
<1>1. entry \in Leases /\ rep \in Objects
  BY <1>0 DEF Install, RebInv
<1>i. CASE /\ entry \in leases /\ at' = "set" /\ entry' = entry /\ rep' = rep
           /\ sock' = IF entry \in committed THEN Accepting(entry, rep) ELSE sock
  <2>1. /\ sock' \in [Leases -> [Objects -> SockStates]]
        /\ \A m \in Leases, j \in Objects :
              sock'[m][j] = IF m = entry /\ j = rep /\ entry \in committed /\ sock[m][j] = "bound"
                            THEN "accepting" ELSE sock[m][j]
    BY <1>0, <1>1, <1>i, AcceptingFacts DEF TypeOK
  <2>2. TypeOK'
    BY <1>0, <1>1, <1>i, <2>1 DEF Install, session, handlers, TypeOK
  <2>3. \A m \in Leases : req[m] = "holding" =>
          hand[m] \in Objects /\ sock'[m][hand[m]] = sock[m][hand[m]]
    BY <1>0, <1>1, <2>1 DEF EarlyInv, Early, HandInv
  <2>4. \A m \in Leases : hold[m] # 0 =>
          hold[m] \in Objects /\ sock'[m][hold[m]] = sock[m][hold[m]]
    BY <1>0, <1>1, <2>1 DEF Install, RebInv, TypeOK
  <2>5. HandInv' /\ HeldReservationsServe'
    BY <1>0, <2>3, <2>4 DEF Install, handlers, TypeOK, HandInv, HeldReservationsServe
  <2>6. EarlyInv' /\ RebInv' /\ Disjoint'
    BY <1>0, <2>1, NoneAssumption DEF Install, handlers, EarlyInv, Early, RebInv, Disjoint
  <2>7. NoLeakedListener'
    BY <1>0, <1>1, <1>i, <2>1, ObjectFacts DEF Install, handlers, TypeOK, RebInv, NoLeakedListener, Open
  <2>8. SlotInv'
    BY <1>0, SlotsKept DEF Install, handlers, Pending
  <2> QED
    BY <2>2, <2>5, <2>6, <2>7, <2>8 DEF LeaseInv
<1>c. CASE /\ sock' = Closed(entry, rep)
           /\ at' = "next" /\ entry' = None /\ rep' = 0
  <2>1. /\ sock' \in [Leases -> [Objects -> SockStates]]
        /\ \A m \in Leases, j \in Objects :
              sock'[m][j] = IF m = entry /\ j = rep THEN "none" ELSE sock[m][j]
    BY <1>0, <1>1, <1>c, ClosedFacts DEF TypeOK
  <2>2. TypeOK'
    BY <1>0, <1>1, <1>c, <2>1 DEF Install, session, handlers, TypeOK
  <2>3. \A m \in Leases : req[m] = "holding" =>
          hand[m] \in Objects /\ sock'[m][hand[m]] = sock[m][hand[m]]
    BY <1>0, <1>1, <2>1 DEF EarlyInv, Early, HandInv
  <2>4. \A m \in Leases : hold[m] # 0 =>
          hold[m] \in Objects /\ sock'[m][hold[m]] = sock[m][hold[m]]
    BY <1>0, <1>1, <2>1 DEF Install, RebInv, TypeOK
  <2>5. HandInv' /\ HeldReservationsServe'
    BY <1>0, <2>3, <2>4 DEF Install, handlers, TypeOK, HandInv, HeldReservationsServe
  <2>6. EarlyInv' /\ RebInv' /\ Disjoint'
    BY <1>0, <1>c, NoneAssumption DEF Install, handlers, EarlyInv, Early, RebInv, Disjoint
  <2>7. NoLeakedListener'
    BY <1>0, <1>1, <1>c, <2>1, ObjectFacts DEF Install, handlers, TypeOK, RebInv, NoLeakedListener, Open
  <2>8. SlotInv'
    BY <1>0, SlotsKept DEF Install, handlers, Pending
  <2> QED
    BY <2>2, <2>5, <2>6, <2>7, <2>8 DEF LeaseInv
<1> QED
  BY <1>i, <1>c DEF Install

(* The replacement goes to a lease that is registered or about to be closed. *)
LEMMA SetReservationStep ==
  ASSUME LeaseInv, SetReservation
  PROVE  LeaseInv'
<1>0. /\ TypeOK /\ EarlyInv /\ HandInv /\ RebInv /\ Disjoint
      /\ NoLeakedListener /\ HeldReservationsServe /\ SlotInv
  BY DEF LeaseInv
<1>2. TypeOK'
  BY <1>0 DEF SetReservation, session, handlers, TypeOK
<1>3. EarlyInv' /\ HandInv' /\ RebInv' /\ Disjoint'
  BY <1>0, NoneAssumption DEF SetReservation, handlers, EarlyInv, Early, HandInv, RebInv, Disjoint
<1>4. NoLeakedListener'
  BY <1>0, ObjectFacts DEF SetReservation, handlers, TypeOK, RebInv, NoLeakedListener, Open
<1>5. HeldReservationsServe'
  BY <1>0 DEF SetReservation, RebInv, HeldReservationsServe
<1>6. SlotInv'
  BY <1>0, SlotsKept DEF SetReservation, handlers, Pending
<1> QED
  BY <1>2, <1>3, <1>4, <1>5, <1>6 DEF LeaseInv

(* Stopping changes nothing by itself. *)
LEMMA StopStep ==
  ASSUME LeaseInv, Stop
  PROVE  LeaseInv'
<1>1. TypeOK'
  BY DEF LeaseInv, TypeOK, Stop, session, handlers, rebinder
<1> QED
  BY <1>1, QuietStep DEF Stop, handlers, rebinder

(* closeAll removes every lease like remove. *)
LEMMA CloseAllStep ==
  ASSUME LeaseInv, CloseAll
  PROVE  LeaseInv'
<1>0. /\ TypeOK /\ EarlyInv /\ HandInv /\ RebInv /\ Disjoint
      /\ NoLeakedListener /\ HeldReservationsServe /\ SlotInv
  BY DEF LeaseInv
<1>2. TypeOK'
  BY <1>0 DEF CloseAll, session, handlers, rebinder, Unregister, TypeOK
<1>3. EarlyInv' /\ HandInv' /\ RebInv' /\ Disjoint'
  BY <1>0 DEF CloseAll, handlers, rebinder, Unregister, EarlyInv, Early, HandInv, RebInv, Disjoint
<1>4. NoLeakedListener'
  BY <1>0, ObjectFacts DEF CloseAll, rebinder, Unregister, HandInv, NoLeakedListener, Open
<1>5. HeldReservationsServe'
  BY <1>0 DEF CloseAll, Unregister, HeldReservationsServe
<1>6. SlotInv'
  BY <1>0, SlotsKept DEF CloseAll, handlers, Pending, Unregister
<1> QED
  BY <1>2, <1>3, <1>4, <1>5, <1>6 DEF LeaseInv

(* Every step keeps the invariant. *)
LEMMA LeaseStep == LeaseInv /\ [Next]_vars => LeaseInv'
<1> SUFFICES ASSUME LeaseInv, [Next]_vars PROVE LeaseInv'
  OBVIOUS
<1>1. CASE SessionUp
  BY <1>1, SessionUpStep
<1>2. CASE SessionDies
  BY <1>2, SessionDiesStep
<1>3. CASE \E l \in Leases : Reserve(l)
  BY <1>3, ReserveStep
<1>4. CASE \E l \in Leases : ReserveOK(l)
  BY <1>4, ReserveOKStep
<1>5. CASE \E l \in Leases : ReserveFails(l)
  BY <1>5, ReserveFailsStep
<1>6. CASE \E l \in Leases : Insert(l)
  BY <1>6, InsertStep
<1>7. CASE \E l \in Leases : Reply(l)
  BY <1>7, ReplyStep
<1>8. CASE \E l \in Leases : CommitLookup(l)
  BY <1>8, CommitLookupStep
<1>9. CASE \E l \in Leases : Commit(l)
  BY <1>9, CommitStep
<1>10. CASE \E l \in Leases : Remove(l)
  BY <1>10, RemoveStep
<1>11. CASE \E l \in Leases : CloseRemoved(l)
  BY <1>11, CloseRemovedStep
<1>12. CASE RebindStart
  BY <1>12, RebindStartStep
<1>13. CASE RetryStart
  BY <1>13, RetryStartStep
<1>14. CASE \E l \in Leases : Skip(l)
  BY <1>14, SkipStep
<1>15. CASE \E l \in Leases : TakeOld(l)
  BY <1>15, TakeOldStep
<1>16. CASE Expire
  BY <1>16, ExpireStep
<1>17. CASE PassEnds
  BY <1>17, PassEndsStep
<1>18. CASE ReleaseOld
  BY <1>18, ReleaseOldStep
<1>19. CASE \E l \in Leases : Rereserve(l)
  BY <1>19, RereserveStep
<1>20. CASE RereserveFails
  BY <1>20, RereserveFailsStep
<1>21. CASE Install
  BY <1>21, InstallStep
<1>22. CASE SetReservation
  BY <1>22, SetReservationStep
<1>23. CASE Stop
  BY <1>23, StopStep
<1>24. CASE CloseAll
  BY <1>24, CloseAllStep
<1>25. CASE UNCHANGED vars
  BY <1>25 DEF vars, session, handlers, rebinder, LeaseInv, TypeOK, EarlyInv, Early, HandInv, RebInv,
         Disjoint, NoLeakedListener, Open, HeldReservationsServe, SlotInv, SlotsExact, Pending
<1> QED
  BY <1>1, <1>2, <1>3, <1>4, <1>5, <1>6, <1>7, <1>8, <1>9, <1>10, <1>11, <1>12, <1>13, <1>14, <1>15, <1>16, <1>17, <1>18, <1>19, <1>20, <1>21, <1>22, <1>23, <1>24, <1>25 DEF Next, RebinderNext

(* The whole invariant, along every behaviour. *)
THEOREM LeaseInvHolds == Spec => []LeaseInv
BY LeaseInit, LeaseStep, PTL DEF Spec

(* The lease server is type correct for every set of leases, every limit and *)
(* any number of sessions.                                                   *)
THEOREM TypeCorrect == Spec => []TypeOK
<1>1. LeaseInv => TypeOK
  BY DEF LeaseInv
<1> QED
  BY LeaseInvHolds, <1>1, PTL

(* For any number of leases and sessions, no Windows socket is lost between  *)
(* handleReserve, remove, rebind and closeAll.                               *)
THEOREM ListenersOwned == Spec => []NoLeakedListener
<1>1. LeaseInv => NoLeakedListener
  BY DEF LeaseInv
<1> QED
  BY LeaseInvHolds, <1>1, PTL

(* A registered lease holds no closed reservation, and a committed one none  *)
(* that rebind did not commit.                                               *)
THEOREM CommittedRebound == Spec => []HeldReservationsServe
<1>1. LeaseInv => HeldReservationsServe
  BY DEF LeaseInv
<1> QED
  BY LeaseInvHolds, <1>1, PTL

(* acquireLeaseSlot's accounting is exact: the limit is never exceeded and   *)
(* no slot is lost or returned twice.                                        *)
THEOREM SlotAccounting == Spec => []SlotsExact
<1>1. LeaseInv => SlotsExact
  BY DEF LeaseInv, SlotInv
<1> QED
  BY LeaseInvHolds, <1>1, PTL

(* What the three parts say together, for any number of leases and sessions. *)
THEOREM LeasesSafe == Spec => []LeasesSound
<1>1. NoLeakedListener /\ HeldReservationsServe /\ SlotsExact => LeasesSound
  BY DEF LeasesSound
<1> QED
  BY <1>1, ListenersOwned, CommittedRebound, SlotAccounting, PTL
=============================================================================
