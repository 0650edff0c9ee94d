------------------------- MODULE LinkSessionProofs -------------------------
(* Proofs about the link between a client and its broker: first FramedLink,  *)
(* for every set of writers, any number of transports and frames and every   *)
(* buffer size; then AutoForward over RelaySession, for every set of ports,  *)
(* any number of broker restarts, faults and changes of the WSL listeners.   *)
EXTENDS FramedLink, AutoForward, WellFoundedInduction, TLAPS

-----------------------------------------------------------------------------
(* FramedLink: the inductive invariant, in layers. *)

(* The two ends: a Link's current transport is the last one or none, and     *)
(* only transports that were attached are open, replaced or read.            *)
EndInv ==
    /\ \A e \in Ends : /\ cur[e] \in {0, last[e]}
                       /\ \A g \in up[e] \cup dropped[e] : g <= last[e]
    /\ rgen <= last["reading"]
    /\ rpc \in Parts => rgen \in Transports

(* writeMu excludes writers from each other, and a writer that has it has an *)
(* attachment.                                                               *)
LockInv ==
    \A w \in Writers :
        /\ wpc[w] \in Parts => lock = w
        /\ wpc[w] \in Parts \cup {"lock"} => wgen[w] \in Transports /\ wgen[w] <= last["writing"]

(* Nothing has been written ahead: not to a transport that is not attached   *)
(* yet, nor to a successor of the one that is being written to.              *)
Ahead ==
    /\ \A h \in Transports : h > last["writing"] => pipe[h] = <<>>
    /\ \A w \in Writers, h \in Transports : wpc[w] \in Parts /\ h > wgen[w] => pipe[h] = <<>>

(* Frames are numbered in the order they are written, also across            *)
(* transports; only a header that was given up shares its number.            *)
Whole(g, k) == pipe[g][k].part = "payload"
Numbered ==
    /\ \A g \in Transports : \A k \in 1..Len(pipe[g]) : Whole(g, k) => pipe[g][k].frame <= written
    /\ \A g \in Transports : \A j, k \in 1..Len(pipe[g]) :
          j < k /\ Whole(g, j) => pipe[g][j].frame < pipe[g][k].frame
    /\ \A g, h \in Transports : \A j \in 1..Len(pipe[g]), k \in 1..Len(pipe[h]) :
          g < h /\ Whole(g, j) => pipe[g][j].frame < pipe[h][k].frame

(* The frame loop may still read from g. *)
Live(g) == g > rgen \/ (g = rgen /\ (rpc \in Parts \/ cur["reading"] = rgen))

(* Nothing more will be written to g. *)
DeadEnd(g) == g \in dead \/ Left("writing", g)

(* Half of a frame is in g: the frame loop has its header, or the header is  *)
(* the last part in the buffer.                                              *)
Half(g) == g = rgen /\ rpc = "payload"
Dangling(g, f) ==
    IF pipe[g] = <<>> THEN Half(g) /\ rframe = f
    ELSE pipe[g][Len(pipe[g])] = [frame |-> f, part |-> "header"]

(* A writer has still to send the payload of a frame in g. *)
Owing(g) == \E w \in Writers : wpc[w] = "payload" /\ wgen[w] = g

(* What the frame loop finds in a transport: whole frames, begun by the      *)
(* header it has, and at most one half at the end, which is finished by the  *)
(* writer that has writeMu or never.                                         *)
Starts(g) ==
    pipe[g] # <<>> => /\ ~Half(g) => pipe[g][1].part = "header"
                      /\ Half(g) => pipe[g][1] = [frame |-> rframe, part |-> "payload"]
Pairs(g) ==
    \A k \in 1..Len(pipe[g]) : k + 1 \in 1..Len(pipe[g]) =>
        /\ ~Whole(g, k) => pipe[g][k + 1] = [frame |-> pipe[g][k].frame, part |-> "payload"]
        /\ Whole(g, k) => pipe[g][k + 1].part = "header"
Settled(g) == \A f \in Nat : Dangling(g, f) => DeadEnd(g) \/ (f = written + 1 /\ Owing(g))
Owed(g) == ~DeadEnd(g) /\ Owing(g) => Dangling(g, written + 1)
Framed(g) == Starts(g) /\ Pairs(g) /\ Settled(g) /\ Owed(g)

(* What has been received is older than what may still be read. *)
Older ==
    \A i \in 1..Len(received) :
        /\ received[i] <= written
        /\ rpc = "payload" => received[i] < rframe
        /\ \A g \in Transports : Live(g) => \A k \in 1..Len(pipe[g]) : received[i] < pipe[g][k].frame
        /\ i + 1 \in 1..Len(received) => received[i] < received[i + 1]

ReadInv == Older /\ \A g \in Transports : Live(g) => Framed(g)

-----------------------------------------------------------------------------
(* Types. *)

Entries == [frame : Nat, part : Parts]

EndsType ==
    /\ cur \in [Ends -> 0..Gens] /\ last \in [Ends -> 0..Gens]
    /\ up \in [Ends -> SUBSET Transports] /\ dropped \in [Ends -> SUBSET Transports]
    /\ shut \in SUBSET Ends /\ dead \in SUBSET Transports
PipesType == pipe \in [Transports -> Seq(Entries)]
WritersType ==
    /\ wpc \in [Writers -> {"idle", "snapshot", "lock", "header", "payload"}]
    /\ wgen \in [Writers -> 0..Gens] /\ lock \in Writers \cup {NoWriter}
    /\ begun \in Nat /\ written \in Nat
ReaderType ==
    /\ rpc \in {"snapshot", "header", "payload", "closed"}
    /\ rgen \in 0..Gens /\ rframe \in Nat /\ received \in Seq(Nat)

(* The type invariant in parts: the ends, the buffers, the writers and the   *)
(* frame loop.                                                               *)
LEMMA TypeParts == TypeOK <=> EndsType /\ PipesType /\ WritersType /\ ReaderType
BY DEF TypeOK, EndsType, PipesType, WritersType, ReaderType, Entries

(* The same one step later. *)
LEMMA TypePartsNext == TypeOK' <=> EndsType' /\ PipesType' /\ WritersType' /\ ReaderType'
BY DEF TypeOK, EndsType, PipesType, WritersType, ReaderType, Entries

(* A transport number is a number. *)
LEMMA TransportNat == Gens \in Nat /\ \A g \in Transports : g \in Nat /\ g > 0 /\ g <= Gens
BY BoundsAssumption DEF Transports

(* Nothing is attached at first. *)
LEMMA TypeInit == Init => TypeOK
BY TransportNat DEF Init, TypeOK, Ends, Parts

(* One transport's buffer changes. *)
LEMMA PipeSet ==
  ASSUME PipesType, NEW g \in Transports, NEW new \in Seq(Entries), pipe' = [pipe EXCEPT ![g] = new]
  PROVE  /\ PipesType' /\ pipe'[g] = new
         /\ \A h \in Transports : h # g => pipe'[h] = pipe[h]
BY DEF PipesType

(* What a writer puts in a buffer. *)
LEMMA EntryType ==
  ASSUME NEW f \in Nat, NEW p \in Parts
  PROVE  [frame |-> f, part |-> p] \in Entries
BY DEF Entries

(* Two parts are the same when they agree in both fields. *)
LEMMA SameEntry ==
  ASSUME NEW f, NEW g, NEW p, NEW q
  PROVE  [frame |-> f, part |-> p] = [frame |-> g, part |-> q] <=> f = g /\ p = q
<1>1. ASSUME [frame |-> f, part |-> p] = [frame |-> g, part |-> q] PROVE f = g /\ p = q
  <2>1. [frame |-> f, part |-> p].frame = [frame |-> g, part |-> q].frame
        /\ [frame |-> f, part |-> p].part = [frame |-> g, part |-> q].part
    BY <1>1
  <2> QED
    BY <2>1
<1> QED
  BY <1>1

(* What the other direction does to an end: it detaches a failed transport.  *)
LEMMA ReverseEffect ==
  ASSUME NEW e \in Ends, ReverseError(e)
  PROVE  /\ cur' = [cur EXCEPT ![e] = 0]
         /\ cur[e] \in dead \/ \E d \in Ends : Left(d, cur[e])
         /\ UNCHANGED <<last, up, dropped, shut, dead, pipe, writerVars, readerVars>>
BY DEF ReverseError, DetachIfCurrent

(* Every step keeps the types. *)
LEMMA TypeStep == TypeOK /\ EndInv /\ LockInv /\ [Next]_vars => TypeOK'
<1> SUFFICES ASSUME TypeOK, EndInv, LockInv, [Next]_vars PROVE TypeOK'
  OBVIOUS
<1>0. EndsType /\ PipesType /\ WritersType /\ ReaderType
  BY TypeParts
<1>e. ASSUME UNCHANGED <<endVars, dead>> PROVE EndsType'
  BY <1>0, <1>e DEF EndsType, endVars
<1>p. ASSUME pipe' = pipe PROVE PipesType'
  BY <1>0, <1>p DEF PipesType
<1>w. ASSUME UNCHANGED writerVars PROVE WritersType'
  BY <1>0, <1>w DEF WritersType, writerVars
<1>r. ASSUME UNCHANGED readerVars PROVE ReaderType'
  BY <1>0, <1>r DEF ReaderType, readerVars
<1>1. ASSUME NEW e \in Ends, Attach(e) PROVE TypeOK'
  <2>1. last[e] + 1 \in 0..Gens /\ last[e] + 1 \in Transports
    BY <1>0, <1>1, TransportNat DEF Attach, EndsType, Transports
  <2>2. {cur[e]} \ {0} \subseteq Transports
    BY <1>0, TransportNat DEF EndsType, Transports
  <2>3. /\ cur' = [cur EXCEPT ![e] = last[e] + 1] /\ last' = [last EXCEPT ![e] = last[e] + 1]
        /\ up' = [up EXCEPT ![e] = @ \cup {last[e] + 1}]
        /\ dropped' = [dropped EXCEPT ![e] = @ \cup ({cur[e]} \ {0})]
        /\ UNCHANGED <<shut, dead, pipe, writerVars, readerVars>>
    BY <1>1 DEF Attach
  <2>4. EndsType'
    BY <1>0, <2>1, <2>2, <2>3 DEF EndsType
  <2> QED
    BY <1>p, <1>w, <1>r, <2>3, <2>4, TypePartsNext
<1>2. ASSUME NEW e \in Ends, LinkClose(e) PROVE TypeOK'
  <2>1. /\ shut' = shut \cup {e} /\ cur' = [cur EXCEPT ![e] = 0] /\ up' = [up EXCEPT ![e] = @ \ {cur[e]}]
        /\ UNCHANGED <<last, dropped, dead, pipe, writerVars, readerVars>>
    BY <1>2 DEF LinkClose
  <2>2. EndsType'
    BY <1>0, <2>1, TransportNat DEF EndsType
  <2> QED
    BY <1>p, <1>w, <1>r, <2>1, <2>2, TypePartsNext
<1>3. ASSUME NEW e \in Ends, NEW g \in Transports, CloseOld(e, g) \/ CloseEndpoint(e, g) PROVE TypeOK'
  <2>1. EndsType'
    BY <1>0, <1>3 DEF CloseOld, CloseEndpoint, EndsType
  <2>2. UNCHANGED <<pipe, writerVars, readerVars>>
    BY <1>3 DEF CloseOld, CloseEndpoint
  <2> QED
    BY <1>p, <1>w, <1>r, <2>1, <2>2, TypePartsNext
<1>4. ASSUME NEW g \in Transports, Die(g) PROVE TypeOK'
  <2>1. PICK n \in 0..Len(pipe[g]) : pipe' = [pipe EXCEPT ![g] = SubSeq(pipe[g], 1, n)]
    BY <1>4 DEF Die
  <2>2. pipe[g] \in Seq(Entries)
    BY <1>0 DEF PipesType
  <2>3. SubSeq(pipe[g], 1, n) \in Seq(Entries)
    BY <2>2
  <2>4. PipesType'
    BY <1>0, <2>1, <2>3, PipeSet
  <2>5. dead' = dead \cup {g} /\ UNCHANGED <<endVars, writerVars, readerVars>>
    BY <1>4 DEF Die
  <2>6. EndsType'
    BY <1>0, <2>5 DEF EndsType, endVars
  <2> QED
    BY <1>w, <1>r, <2>4, <2>5, <2>6, TypePartsNext
<1>5. ASSUME NEW w \in Writers, Begin(w) \/ GiveUp(w) \/ Snapshot(w) \/ Recheck(w) PROVE TypeOK'
  <2>1. UNCHANGED <<endVars, dead, pipe, readerVars>>
    BY <1>5 DEF Begin, GiveUp, Snapshot, Recheck
  <2>2. cur["writing"] \in 0..Gens
    BY <1>0 DEF EndsType, Ends
  <2>3. WritersType'
    <3>1. CASE Begin(w)
      BY <1>0, <3>1 DEF Begin, WritersType
    <3>2. CASE GiveUp(w)
      BY <1>0, <3>2 DEF GiveUp, WritersType
    <3>3. CASE Snapshot(w)
      BY <1>0, <2>2, <3>3 DEF Snapshot, WritersType
    <3>4. CASE Recheck(w)
      BY <1>0, <3>4 DEF Recheck, WritersType
    <3> QED
      BY <1>5, <3>1, <3>2, <3>3, <3>4
  <2> QED
    BY <1>e, <1>p, <1>r, <2>1, <2>3, TypePartsNext
<1>6. ASSUME NEW w \in Writers, WritePart(w) PROVE TypeOK'
  <2>1. wgen[w] \in Transports /\ wpc[w] \in Parts
    BY <1>6 DEF WritePart, LockInv
  <2>2. pipe[wgen[w]] \in Seq(Entries) /\ [frame |-> written + 1, part |-> wpc[w]] \in Entries
    BY <1>0, <2>1, EntryType DEF PipesType, WritersType
  <2>3. Append(pipe[wgen[w]], [frame |-> written + 1, part |-> wpc[w]]) \in Seq(Entries)
    BY <2>2
  <2>4. PipesType'
    BY <1>0, <1>6, <2>1, <2>3, PipeSet DEF WritePart
  <2>5. /\ UNCHANGED <<wgen, begun, endVars, dead, readerVars>> /\ (lock' = lock \/ lock' = NoWriter)
        /\ (written' = written \/ written' = written + 1)
        /\ \E st \in {"payload", "idle"} : wpc' = [wpc EXCEPT ![w] = st]
    BY <1>6 DEF WritePart
  <2>6. WritersType'
    BY <1>0, <2>5 DEF WritersType
  <2> QED
    BY <1>e, <1>r, <2>4, <2>5, <2>6, TypePartsNext
<1>7. ASSUME NEW w \in Writers, WriteError(w) PROVE TypeOK'
  <2>1. /\ (cur' = cur \/ cur' = [cur EXCEPT !["writing"] = 0]) /\ lock' = NoWriter
        /\ wpc' = [wpc EXCEPT ![w] = "snapshot"]
        /\ UNCHANGED <<wgen, begun, written, last, up, dropped, shut, dead, pipe, readerVars>>
    BY <1>7 DEF WriteError, DetachIfCurrent
  <2>2. EndsType'
    BY <1>0, <2>1, TransportNat DEF EndsType
  <2>3. WritersType'
    BY <1>0, <2>1 DEF WritersType
  <2> QED
    BY <1>p, <1>r, <2>1, <2>2, <2>3, TypePartsNext
<1>8. CASE ReadSnapshot \/ ReadClosed
  <2>1. UNCHANGED <<rframe, received, endVars, dead, pipe, writerVars>>
        /\ (rgen' = rgen \/ rgen' = cur["reading"]) /\ rpc' \in {"header", "closed"}
    BY <1>8 DEF ReadSnapshot, ReadClosed
  <2>2. cur["reading"] \in 0..Gens
    BY <1>0 DEF EndsType, Ends
  <2>3. ReaderType'
    BY <1>0, <2>1, <2>2 DEF ReaderType
  <2> QED
    BY <1>e, <1>p, <1>w, <2>1, <2>3, TypePartsNext
<1>9. CASE ReadPart
  <2>1. rgen \in Transports /\ pipe[rgen] # <<>>
    BY <1>9 DEF ReadPart, EndInv
  <2>2. pipe[rgen] \in Seq(Entries)
    BY <1>0, <2>1 DEF PipesType
  <2>3. Tail(pipe[rgen]) \in Seq(Entries) /\ Head(pipe[rgen]) \in Entries
    BY <2>1, <2>2
  <2>4. Head(pipe[rgen]).frame \in Nat
    BY <2>3 DEF Entries
  <2>5. PipesType'
    BY <1>0, <1>9, <2>1, <2>3, PipeSet DEF ReadPart
  <2>6. /\ UNCHANGED <<rgen, endVars, dead, writerVars>> /\ rpc' \in {"payload", "snapshot"}
        /\ (rframe' = rframe \/ rframe' = Head(pipe[rgen]).frame)
        /\ (received' = received \/ received' = Append(received, rframe))
    BY <1>9 DEF ReadPart
  <2>7. Append(received, rframe) \in Seq(Nat)
    BY <1>0 DEF ReaderType
  <2>8. ReaderType'
    BY <1>0, <2>4, <2>6, <2>7 DEF ReaderType
  <2> QED
    BY <1>e, <1>w, <2>5, <2>6, <2>8, TypePartsNext
<1>10. CASE ReadError
  <2>1. /\ (cur' = cur \/ cur' = [cur EXCEPT !["reading"] = 0]) /\ rpc' = "snapshot"
        /\ UNCHANGED <<rgen, rframe, received, last, up, dropped, shut, dead, pipe, writerVars>>
    BY <1>10 DEF ReadError, DetachIfCurrent
  <2>2. EndsType'
    BY <1>0, <2>1, TransportNat DEF EndsType
  <2>3. ReaderType'
    BY <1>0, <2>1 DEF ReaderType
  <2> QED
    BY <1>p, <1>w, <2>1, <2>2, <2>3, TypePartsNext
<1>11. CASE UNCHANGED vars
  BY <1>e, <1>p, <1>w, <1>r, <1>11, TypePartsNext DEF vars
<1>12. ASSUME NEW e \in Ends, ReverseError(e) PROVE TypeOK'
  <2>1. /\ cur' = [cur EXCEPT ![e] = 0]
        /\ UNCHANGED <<last, up, dropped, shut, dead, pipe, writerVars, readerVars>>
    BY <1>12, ReverseEffect
  <2>2. EndsType'
    BY <1>0, <2>1, TransportNat DEF EndsType
  <2> QED
    BY <1>p, <1>w, <1>r, <2>1, <2>2, TypePartsNext
<1> QED
  BY <1>1, <1>2, <1>3, <1>4, <1>5, <1>6, <1>7, <1>8, <1>9, <1>10, <1>11, <1>12
     DEF Next, WriterNext, ReaderNext

-----------------------------------------------------------------------------
(* Attachments and writeMu. *)

LinkInv == TypeOK /\ EndInv /\ LockInv /\ ReplacementUnblocks

(* Nothing is attached and nobody writes at first. *)
LEMMA LinkInit == Init => LinkInv
<1> SUFFICES ASSUME Init PROVE LinkInv
  OBVIOUS
<1>1. EndInv
  BY DEF Init, EndInv, Ends, Parts
<1>2. LockInv /\ ReplacementUnblocks
  BY DEF Init, LockInv, ReplacementUnblocks, Parts
<1> QED
  BY <1>1, <1>2, TypeInit DEF LinkInv

(* Every step keeps the ends in order. *)
LEMMA EndStep ==
  ASSUME TypeOK, EndInv, LockInv, Next
  PROVE  EndInv'
<1>0. EndsType /\ WritersType /\ ReaderType
  BY TypeParts
<1>1. ASSUME NEW e \in Ends, Attach(e) PROVE EndInv'
  <2>1. /\ cur' = [cur EXCEPT ![e] = last[e] + 1] /\ last' = [last EXCEPT ![e] = last[e] + 1]
        /\ up' = [up EXCEPT ![e] = @ \cup {last[e] + 1}]
        /\ dropped' = [dropped EXCEPT ![e] = @ \cup ({cur[e]} \ {0})]
        /\ UNCHANGED <<rpc, rgen>>
    BY <1>1 DEF Attach, readerVars
  <2>2. \A d \in Ends : /\ last[d] \in Nat /\ last'[d] \in Nat /\ last[d] <= last'[d]
                        /\ up[d] \subseteq Nat /\ dropped[d] \subseteq Nat /\ cur[d] \in Nat
    BY <1>0, <2>1, TransportNat DEF EndsType
  <2>3. ASSUME NEW d \in Ends
        PROVE  cur'[d] \in {0, last'[d]} /\ \A g \in up'[d] \cup dropped'[d] : g <= last'[d]
    <3>1. CASE d = e
      BY <1>0, <2>1, <2>2, <3>1 DEF EndInv, EndsType
    <3>2. CASE d # e
      BY <1>0, <2>1, <2>2, <3>2 DEF EndInv, EndsType
    <3> QED
      BY <3>1, <3>2
  <2>4. rgen <= last'["reading"]
    BY <1>0, <2>2, TransportNat DEF EndInv, Ends, ReaderType
  <2> QED
    BY <2>1, <2>3, <2>4 DEF EndInv
<1>2. ASSUME NEW e \in Ends, LinkClose(e) PROVE EndInv'
  <2>1. /\ cur' = [cur EXCEPT ![e] = 0] /\ up' = [up EXCEPT ![e] = @ \ {cur[e]}]
        /\ UNCHANGED <<last, dropped, rpc, rgen>>
    BY <1>2 DEF LinkClose, readerVars
  <2> QED
    BY <1>0, <2>1 DEF EndInv, EndsType
<1>3. ASSUME NEW e \in Ends, NEW g \in Transports, CloseOld(e, g) \/ CloseEndpoint(e, g) PROVE EndInv'
  <2>1. /\ up' = [up EXCEPT ![e] = @ \ {g}] /\ UNCHANGED <<cur, last, rpc, rgen>>
        /\ dropped' = dropped \/ dropped' = [dropped EXCEPT ![e] = @ \ {g}]
    BY <1>3 DEF CloseOld, CloseEndpoint, readerVars
  <2> QED
    BY <1>0, <2>1 DEF EndInv, EndsType
<1>4. ASSUME NEW w \in Writers, WriteError(w) PROVE EndInv'
  <2>1. /\ (cur' = cur \/ cur' = [cur EXCEPT !["writing"] = 0])
        /\ UNCHANGED <<last, up, dropped, rpc, rgen>>
    BY <1>4 DEF WriteError, DetachIfCurrent, readerVars
  <2> QED
    BY <1>0, <2>1 DEF EndInv, EndsType, Ends
<1>5. CASE ReadSnapshot
  <2>1. cur["reading"] # 0 /\ rgen' = cur["reading"] /\ UNCHANGED <<cur, last, up, dropped>>
    BY <1>5 DEF ReadSnapshot, endVars
  <2>2. cur["reading"] \in Transports /\ cur["reading"] <= last["reading"]
    BY <1>0, <2>1, TransportNat DEF EndsType, EndInv, Ends, Transports
  <2> QED
    BY <2>1, <2>2 DEF EndInv
<1>6. CASE ReadPart
  BY <1>6 DEF ReadPart, EndInv, endVars, Parts
<1>7. CASE ReadError
  <2>1. /\ (cur' = cur \/ cur' = [cur EXCEPT !["reading"] = 0])
        /\ UNCHANGED <<last, up, dropped, rgen>> /\ rpc' = "snapshot"
    BY <1>7 DEF ReadError, DetachIfCurrent
  <2> QED
    BY <1>0, <2>1 DEF EndInv, EndsType, Ends, Parts
<1>8. CASE ReadClosed
  BY <1>8 DEF ReadClosed, EndInv, endVars, Parts
<1>9. CASE (\E g \in Transports : Die(g)) \/
           \E w \in Writers : Begin(w) \/ GiveUp(w) \/ Snapshot(w) \/ Recheck(w) \/ WritePart(w)
  <2>1. UNCHANGED <<cur, last, up, dropped, rpc, rgen>>
    BY <1>9 DEF Die, Begin, GiveUp, Snapshot, Recheck, WritePart, endVars, readerVars
  <2> QED
    BY <2>1 DEF EndInv
<1>10. ASSUME NEW e \in Ends, ReverseError(e) PROVE EndInv'
  <2>1. cur' = [cur EXCEPT ![e] = 0] /\ UNCHANGED <<last, up, dropped, rpc, rgen>>
    BY <1>10, ReverseEffect DEF readerVars
  <2> QED
    BY <1>0, <2>1 DEF EndInv, EndsType
<1> QED
  BY <1>1, <1>2, <1>3, <1>4, <1>5, <1>6, <1>7, <1>8, <1>9, <1>10 DEF Next, WriterNext, ReaderNext

(* The last transport of an end only grows. *)
LEMMA LastGrows ==
  ASSUME TypeOK, Next
  PROVE  \A e \in Ends : last[e] \in Nat /\ last'[e] \in Nat /\ last[e] <= last'[e]
<1>0. EndsType
  BY TypeParts
<1>1. ASSUME NEW e \in Ends, Attach(e)
      PROVE  \A d \in Ends : last[d] \in Nat /\ last'[d] \in Nat /\ last[d] <= last'[d]
  BY <1>0, <1>1, TransportNat DEF Attach, EndsType
<1>2. (\E e \in Ends : Attach(e)) \/ last' = last
  BY ReverseEffect
     DEF Next, LinkClose, CloseOld, CloseEndpoint, Die, Begin, GiveUp, WriterNext, Snapshot, Recheck, WritePart,
         WriteError, ReaderNext, ReadSnapshot, ReadPart, ReadError, ReadClosed, endVars
<1> QED
  BY <1>0, <1>1, <1>2, TransportNat DEF EndsType

(* Every step keeps writeMu exclusive. *)
LEMMA LockStep ==
  ASSUME TypeOK, EndInv, LockInv, Next
  PROVE  LockInv'
<1>0. EndsType /\ WritersType
  BY TypeParts
<1>g. /\ last["writing"] \in Nat /\ last'["writing"] \in Nat /\ last["writing"] <= last'["writing"]
      /\ \A w \in Writers : wgen[w] \in Nat
  BY <1>0, LastGrows, TransportNat DEF Ends, WritersType
<1>1. CASE UNCHANGED <<wpc, wgen, lock>>
  BY <1>g, <1>1 DEF LockInv
<1>2. ASSUME NEW w \in Writers, Begin(w) \/ GiveUp(w) PROVE LockInv'
  <2>1. UNCHANGED <<wgen, lock>> /\ \E st \in {"idle", "snapshot"} : wpc' = [wpc EXCEPT ![w] = st]
    BY <1>2 DEF Begin, GiveUp
  <2> QED
    BY <1>0, <1>g, <2>1 DEF LockInv, WritersType, Parts
<1>3. ASSUME NEW w \in Writers, Snapshot(w) PROVE LockInv'
  <2>1. cur["writing"] \in Transports /\ cur["writing"] <= last["writing"]
    BY <1>0, <1>3, TransportNat DEF Snapshot, EndsType, EndInv, Ends, Transports
  <2>2. lock' = lock /\ wpc' = [wpc EXCEPT ![w] = "lock"] /\ wgen' = [wgen EXCEPT ![w] = cur["writing"]]
        /\ last' = last
    BY <1>3 DEF Snapshot, endVars
  <2> QED
    BY <1>0, <2>1, <2>2 DEF LockInv, WritersType, Parts
<1>4. ASSUME NEW w \in Writers, Recheck(w) PROVE LockInv'
  <2>1. wgen' = wgen /\ lock = NoWriter /\ last' = last /\ wpc[w] = "lock"
        /\ \/ lock' = w /\ wpc' = [wpc EXCEPT ![w] = "header"]
           \/ lock' = lock /\ wpc' = [wpc EXCEPT ![w] = "snapshot"]
    BY <1>4 DEF Recheck, endVars
  <2>2. \A v \in Writers : wpc[v] \notin Parts
    BY <2>1, WritersAssumption DEF LockInv
  <2> QED
    BY <1>0, <2>1, <2>2 DEF LockInv, WritersType, Parts
<1>5. ASSUME NEW w \in Writers, WritePart(w) \/ WriteError(w) PROVE LockInv'
  <2>1. wgen' = wgen /\ last' = last /\ wpc[w] \in Parts
        /\ \/ lock' = lock /\ wpc' = [wpc EXCEPT ![w] = "payload"]
           \/ \E st \in {"idle", "snapshot"} : wpc' = [wpc EXCEPT ![w] = st]
    BY <1>5 DEF WritePart, WriteError, endVars
  <2>2. \A v \in Writers : v # w => wpc[v] \notin Parts
    BY <2>1 DEF LockInv
  <2> QED
    BY <1>0, <2>1, <2>2 DEF LockInv, WritersType, Parts
<1> QED
  BY <1>1, <1>2, <1>3, <1>4, <1>5, ReverseEffect
     DEF Next, Attach, LinkClose, CloseOld, CloseEndpoint, Die, WriterNext, ReaderNext, ReadSnapshot,
         ReadPart, ReadError, ReadClosed, writerVars

(* Every step leaves a blocked writer a way out. *)
LEMMA UnblockStep ==
  ASSUME TypeOK, EndInv, LockInv, ReplacementUnblocks, Next
  PROVE  ReplacementUnblocks'
<1>0. EndsType /\ WritersType
  BY TypeParts
<1>w. \A w \in Writers : wpc[w] \in Parts => wgen[w] # 0 /\ wgen[w] <= last["writing"] /\ wgen[w] \in Nat
  BY TransportNat DEF LockInv
<1>1. ASSUME NEW e \in Ends, Attach(e) PROVE ReplacementUnblocks'
  <2>1. /\ last' = [last EXCEPT ![e] = last[e] + 1]
        /\ up' = [up EXCEPT ![e] = @ \cup {last[e] + 1}]
        /\ cur' = [cur EXCEPT ![e] = last[e] + 1]
        /\ dropped' = [dropped EXCEPT ![e] = @ \cup ({cur[e]} \ {0})]
        /\ UNCHANGED <<dead, wpc, wgen>>
    BY <1>1 DEF Attach, writerVars
  <2>2. last["writing"] \in Nat /\ last["reading"] \in Nat
    BY <1>0, TransportNat DEF EndsType, Ends
  <2>3. ASSUME NEW w \in Writers, wpc[w] \in Parts, cur'["writing"] # wgen[w]
        PROVE  Broken(wgen[w])' \/ wgen[w] \in dropped'["writing"] \/ Left("reading", wgen[w])'
    <3>r. Left("reading", wgen[w]) => Left("reading", wgen[w])'
      BY <1>0, <1>w, <2>1, <2>2, <2>3 DEF EndsType, Ends, Left
    <3>1. wgen[w] \notin up["writing"] => wgen[w] \notin up'["writing"]
      BY <1>0, <1>w, <2>1, <2>2, <2>3 DEF EndsType, Ends
    <3>2. CASE cur["writing"] # wgen[w]
      BY <1>0, <2>1, <2>3, <3>r, <3>1, <3>2 DEF ReplacementUnblocks, Broken, EndsType, Ends
    <3>3. CASE cur["writing"] = wgen[w] /\ e = "writing"
      BY <1>0, <1>w, <2>1, <2>3, <3>3 DEF EndsType, Ends
    <3>4. CASE cur["writing"] = wgen[w] /\ e # "writing"
      BY <1>0, <2>1, <2>3, <3>4 DEF EndsType, Ends
    <3> QED
      BY <3>2, <3>3, <3>4
  <2> QED
    BY <2>1, <2>3 DEF ReplacementUnblocks
<1>2. ASSUME NEW e \in Ends, LinkClose(e) PROVE ReplacementUnblocks'
  <2>1. /\ cur' = [cur EXCEPT ![e] = 0] /\ up' = [up EXCEPT ![e] = @ \ {cur[e]}]
        /\ UNCHANGED <<last, dropped, dead, wpc, wgen>>
    BY <1>2 DEF LinkClose, writerVars
  <2>2. ASSUME NEW w \in Writers, wpc[w] \in Parts, cur'["writing"] # wgen[w]
        PROVE  Broken(wgen[w])' \/ wgen[w] \in dropped["writing"] \/ Left("reading", wgen[w])'
    <3>1. CASE cur["writing"] # wgen[w]
      BY <1>0, <2>1, <2>2, <3>1 DEF ReplacementUnblocks, Broken, EndsType, Ends, Left
    <3>2. CASE cur["writing"] = wgen[w]
      BY <1>0, <2>1, <2>2, <3>2 DEF Broken, EndsType, Ends
    <3> QED
      BY <3>1, <3>2
  <2> QED
    BY <2>1, <2>2 DEF ReplacementUnblocks
<1>3. ASSUME NEW e \in Ends, NEW g \in Transports, CloseOld(e, g) \/ CloseEndpoint(e, g)
      PROVE  ReplacementUnblocks'
  <2>1. /\ up' = [up EXCEPT ![e] = @ \ {g}] /\ UNCHANGED <<cur, last, dead, wpc, wgen>>
        /\ dropped' = dropped \/ dropped' = [dropped EXCEPT ![e] = @ \ {g}]
    BY <1>3 DEF CloseOld, CloseEndpoint, writerVars
  <2> QED
    BY <1>0, <2>1 DEF ReplacementUnblocks, Broken, EndsType, Ends, Left
<1>4. ASSUME NEW g \in Transports, Die(g) PROVE ReplacementUnblocks'
  <2>1. dead' = dead \cup {g} /\ UNCHANGED <<cur, last, up, dropped, wpc, wgen>>
    BY <1>4 DEF Die, endVars, writerVars
  <2> QED
    BY <2>1 DEF ReplacementUnblocks, Broken, Left
<1>5. ASSUME NEW w \in Writers, Begin(w) \/ GiveUp(w) \/ Snapshot(w) PROVE ReplacementUnblocks'
  <2>1. /\ UNCHANGED <<cur, last, up, dropped, dead>>
        /\ \E st \in {"idle", "snapshot", "lock"} : wpc' = [wpc EXCEPT ![w] = st]
        /\ wgen' = wgen \/ wgen' = [wgen EXCEPT ![w] = cur["writing"]]
    BY <1>5 DEF Begin, GiveUp, Snapshot, endVars
  <2> QED
    BY <1>0, <2>1 DEF ReplacementUnblocks, Broken, Left, WritersType, Parts
<1>6. ASSUME NEW w \in Writers, Recheck(w) PROVE ReplacementUnblocks'
  <2>1. /\ UNCHANGED <<cur, last, up, dropped, dead, wgen>>
        /\ \/ cur["writing"] = wgen[w] /\ wpc' = [wpc EXCEPT ![w] = "header"]
           \/ wpc' = [wpc EXCEPT ![w] = "snapshot"]
    BY <1>6 DEF Recheck, endVars
  <2> QED
    BY <1>0, <2>1 DEF ReplacementUnblocks, Broken, Left, WritersType, Parts
<1>7. ASSUME NEW w \in Writers, WritePart(w) PROVE ReplacementUnblocks'
  <2>1. /\ UNCHANGED <<cur, last, up, dropped, dead, wgen>> /\ wpc[w] \in Parts
        /\ \E st \in {"payload", "idle"} : wpc' = [wpc EXCEPT ![w] = st]
    BY <1>7 DEF WritePart, endVars
  <2> QED
    BY <1>0, <2>1 DEF ReplacementUnblocks, Broken, Left, WritersType, Parts
<1>8. ASSUME NEW w \in Writers, WriteError(w) PROVE ReplacementUnblocks'
  <2>1. wpc' = [wpc EXCEPT ![w] = "snapshot"] /\ wgen' = wgen /\ wpc[w] \in Parts
    BY <1>8 DEF WriteError
  <2>2. \A v \in Writers : wpc'[v] \notin Parts
    BY <1>0, <2>1 DEF LockInv, WritersType, Parts
  <2> QED
    BY <2>2 DEF ReplacementUnblocks
<1>9. CASE ReaderNext
  <2>1. cur'["writing"] = cur["writing"] /\ UNCHANGED <<last, up, dropped, dead, wpc, wgen>>
    BY <1>0, <1>9 DEF ReaderNext, ReadSnapshot, ReadPart, ReadError, ReadClosed, DetachIfCurrent,
                      endVars, writerVars, EndsType, Ends
  <2> QED
    BY <2>1 DEF ReplacementUnblocks, Broken, Left
<1>10. ASSUME NEW e \in Ends, ReverseError(e) PROVE ReplacementUnblocks'
  <2>1. /\ cur' = [cur EXCEPT ![e] = 0] /\ UNCHANGED <<last, up, dropped, dead, wpc, wgen>>
        /\ cur[e] \in dead \/ \E d \in Ends : Left(d, cur[e])
    BY <1>10, ReverseEffect DEF writerVars
  <2>2. ASSUME NEW w \in Writers, wpc[w] \in Parts, cur'["writing"] # wgen[w]
        PROVE  Broken(wgen[w]) \/ wgen[w] \in dropped["writing"] \/ Left("reading", wgen[w])
    <3>1. CASE cur["writing"] # wgen[w]
      BY <2>2, <3>1 DEF ReplacementUnblocks
    <3>2. CASE cur["writing"] = wgen[w]
      BY <1>0, <2>1, <2>2, <3>2 DEF Broken, Left, EndsType, Ends
    <3> QED
      BY <3>1, <3>2
  <2> QED
    BY <2>1, <2>2 DEF ReplacementUnblocks, Broken, Left
<1> QED
  BY <1>1, <1>2, <1>3, <1>4, <1>5, <1>6, <1>7, <1>8, <1>9, <1>10 DEF Next, WriterNext

(* Every step keeps the attachments in order. *)
LEMMA LinkStep == LinkInv /\ [Next]_vars => LinkInv'
<1> SUFFICES ASSUME LinkInv, [Next]_vars PROVE LinkInv'
  OBVIOUS
<1>0. TypeOK /\ EndInv /\ LockInv /\ ReplacementUnblocks
  BY DEF LinkInv
<1>1. TypeOK'
  BY <1>0, TypeStep
<1>2. CASE Next
  BY <1>0, <1>1, <1>2, EndStep, LockStep, UnblockStep DEF LinkInv
<1>3. CASE UNCHANGED vars
  <2>1. EndInv' /\ LockInv'
    BY <1>0, <1>3 DEF EndInv, LockInv, vars, endVars, writerVars, readerVars
  <2>2. ReplacementUnblocks'
    BY <1>0, <1>3 DEF ReplacementUnblocks, Broken, Left, vars, endVars, writerVars
  <2> QED
    BY <1>1, <2>1, <2>2 DEF LinkInv
<1> QED
  BY <1>2, <1>3

(* A Link's attachments stay in order and writeMu stays exclusive. *)
THEOREM LinkInvHolds == Spec => []LinkInv
BY LinkInit, LinkStep, PTL DEF Spec

(* The variables of a Link, of the connectors and of both loops keep their   *)
(* types, whatever is attached, closed or lost.                              *)
THEOREM TypeCorrect == Spec => []TypeOK
<1>1. LinkInv => TypeOK
  BY DEF LinkInv
<1> QED
  BY <1>1, LinkInvHolds, PTL

(* WriteFrameContext does not sit with writeMu in a transport that lost its  *)
(* place in a healthy state: that transport is broken already, or Attach is  *)
(* about to close it, or its other end was closed first.                     *)
THEOREM WritersUnblocked == Spec => []ReplacementUnblocks
<1>1. LinkInv => ReplacementUnblocks
  BY DEF LinkInv
<1> QED
  BY <1>1, LinkInvHolds, PTL

(* detachIfCurrent takes a transport from a Link only when that very         *)
(* transport has failed.                                                     *)
LEMMA DetachStep ==
  ASSUME LinkInv, [Next]_vars, NEW e \in Ends, cur[e] # 0, cur'[e] # cur[e]
  PROVE  \/ e \in shut' \/ last'[e] # last[e]
         \/ cur[e] \in dead \/ (\E d \in Ends : Left(d, cur[e]))
<1>0. EndsType /\ WritersType /\ ReaderType /\ EndInv /\ LockInv
  BY TypeParts DEF LinkInv
<1>1. ASSUME NEW d \in Ends, Attach(d) PROVE last'[e] # last[e]
  <2>1. d = e
    BY <1>0, <1>1 DEF Attach, EndsType
  <2>2. last[e] \in Nat /\ last'[e] = last[e] + 1
    BY <1>0, <1>1, <2>1, TransportNat DEF Attach, EndsType
  <2> QED
    BY <2>2
<1>2. ASSUME NEW d \in Ends, LinkClose(d) PROVE e \in shut'
  BY <1>0, <1>2 DEF LinkClose, EndsType
<1>3. ASSUME NEW w \in Writers, WriteError(w)
      PROVE  cur[e] \in dead \/ (\E d \in Ends : Left(d, cur[e]))
  <2>1. e = "writing" /\ cur[e] = wgen[w]
    BY <1>0, <1>3 DEF WriteError, DetachIfCurrent, EndsType
  <2>2. wgen[w] <= last["writing"] /\ Broken(wgen[w])
    BY <1>0, <1>3 DEF WriteError, LockInv
  <2> QED
    BY <2>1, <2>2 DEF Broken, Left
<1>4. ASSUME ReadError
      PROVE  cur[e] \in dead \/ (\E d \in Ends : Left(d, cur[e]))
  <2>1. e = "reading" /\ cur[e] = rgen
    BY <1>0, <1>4 DEF ReadError, DetachIfCurrent, EndsType
  <2>2. rgen \notin up["reading"] \/ rgen \in dead \/ Left("writing", rgen)
    BY <1>4 DEF ReadError
  <2> QED
    BY <1>0, <2>1, <2>2 DEF EndInv, Left, Ends
<1>5. \/ \E d \in Ends : Attach(d) \/ LinkClose(d) \/ ReverseError(d)
      \/ \E w \in Writers : WriteError(w)
      \/ ReadError
  BY DEF Next, CloseOld, CloseEndpoint, Die, Begin, GiveUp, WriterNext, Snapshot, Recheck, WritePart,
         ReaderNext, ReadSnapshot, ReadPart, ReadClosed, endVars, vars
<1>6. ASSUME NEW c \in Ends, ReverseError(c)
      PROVE  cur[e] \in dead \/ (\E d \in Ends : Left(d, cur[e]))
  <2>1. c = e
    BY <1>0, <1>6, ReverseEffect DEF EndsType
  <2> QED
    BY <1>6, <2>1, ReverseEffect
<1> QED
  BY <1>1, <1>2, <1>3, <1>4, <1>5, <1>6

(* A read or write that fails on an attachment that was replaced meanwhile   *)
(* never detaches its replacement.                                           *)
THEOREM StaleNeverDetaches == Spec => StaleCannotDetach
<1>1. LinkInv /\ [Next]_vars =>
        [\A e \in Ends : (cur[e] # 0 /\ cur'[e] # cur[e]) =>
            \/ e \in shut' \/ last'[e] # last[e]
            \/ cur[e] \in dead \/ (\E d \in Ends : Left(d, cur[e]))]_vars
  BY DetachStep
<1> QED
  BY <1>1, LinkInvHolds, PTL DEF Spec, StaleCannotDetach

-----------------------------------------------------------------------------
(* The buffers. *)

(* What a writer appends. *)
LEMMA WriteEffect ==
  ASSUME LinkInv, NEW w \in Writers, WritePart(w)
  PROVE  /\ wgen[w] \in Transports /\ wpc[w] \in Parts /\ wgen[w] <= last["writing"] /\ ~DeadEnd(wgen[w])
         /\ pipe'[wgen[w]] = Append(pipe[wgen[w]], [frame |-> written + 1, part |-> wpc[w]])
         /\ \A h \in Transports : h # wgen[w] => pipe'[h] = pipe[h]
         /\ \A v \in Writers : v # w => wpc[v] \notin Parts /\ wpc'[v] = wpc[v]
         /\ \/ wpc[w] = "header" /\ wpc'[w] = "payload" /\ written' = written
            \/ wpc[w] = "payload" /\ wpc'[w] = "idle" /\ written' = written + 1
         /\ UNCHANGED <<wgen, endVars, dead, readerVars>>
<1>0. PipesType /\ WritersType /\ LockInv
  BY TypeParts DEF LinkInv
<1>1. /\ wpc[w] \in Parts /\ ~Broken(wgen[w])
      /\ pipe' = [pipe EXCEPT ![wgen[w]] = Append(pipe[wgen[w]], [frame |-> written + 1, part |-> wpc[w]])]
      /\ UNCHANGED <<wgen, endVars, dead, readerVars>>
  BY DEF WritePart
<1>2. \/ wpc[w] = "header" /\ wpc' = [wpc EXCEPT ![w] = "payload"] /\ written' = written
      \/ wpc[w] = "payload" /\ wpc' = [wpc EXCEPT ![w] = "idle"] /\ written' = written + 1
  BY DEF WritePart
<1>3. wgen[w] \in Transports /\ wgen[w] <= last["writing"]
  BY <1>0, <1>1 DEF LockInv
<1>4. ~DeadEnd(wgen[w])
  BY <1>1 DEF Broken, DeadEnd, Left
<1>5. \A v \in Writers : v # w => wpc[v] \notin Parts
  BY <1>0, <1>1 DEF LockInv
<1>6. /\ pipe'[wgen[w]] = Append(pipe[wgen[w]], [frame |-> written + 1, part |-> wpc[w]])
      /\ \A h \in Transports : h # wgen[w] => pipe'[h] = pipe[h]
  BY <1>0, <1>1, <1>3 DEF PipesType
<1>7. /\ \A v \in Writers : v # w => wpc'[v] = wpc[v]
      /\ \/ wpc[w] = "header" /\ wpc'[w] = "payload" /\ written' = written
         \/ wpc[w] = "payload" /\ wpc'[w] = "idle" /\ written' = written + 1
  BY <1>0, <1>2 DEF WritersType
<1> QED
  BY <1>1, <1>3, <1>4, <1>5, <1>6, <1>7

(* What is left of a buffer when its connector dies. *)
LEMMA DieEffect ==
  ASSUME LinkInv, NEW g \in Transports, Die(g)
  PROVE  /\ \A h \in Transports : h # g => pipe'[h] = pipe[h]
         /\ pipe'[g] \in Seq(Entries) /\ Len(pipe'[g]) <= Len(pipe[g])
         /\ \A k \in 1..Len(pipe'[g]) : pipe'[g][k] = pipe[g][k]
         /\ dead' = dead \cup {g} /\ UNCHANGED <<endVars, writerVars, readerVars>>
<1>0. PipesType
  BY TypeParts DEF LinkInv
<1>1. PICK n \in 0..Len(pipe[g]) : pipe' = [pipe EXCEPT ![g] = SubSeq(pipe[g], 1, n)]
  BY DEF Die
<1>2. dead' = dead \cup {g} /\ UNCHANGED <<endVars, writerVars, readerVars>>
  BY DEF Die
<1>3. pipe[g] \in Seq(Entries)
  BY <1>0 DEF PipesType
<1>4. pipe'[g] = SubSeq(pipe[g], 1, n) /\ \A h \in Transports : h # g => pipe'[h] = pipe[h]
  BY <1>0, <1>1 DEF PipesType
<1>5. /\ SubSeq(pipe[g], 1, n) \in Seq(Entries) /\ Len(SubSeq(pipe[g], 1, n)) = n
      /\ \A k \in 1..n : SubSeq(pipe[g], 1, n)[k] = pipe[g][k]
  BY <1>3
<1>6. n <= Len(pipe[g])
  BY <1>3
<1> QED
  BY <1>2, <1>4, <1>5, <1>6

(* What the frame loop takes. *)
LEMMA ReadEffect ==
  ASSUME LinkInv, ReadPart
  PROVE  /\ rgen \in Transports /\ rpc \in Parts
         /\ pipe[rgen] # <<>> /\ Len(pipe[rgen]) > 0 /\ Head(pipe[rgen]) = pipe[rgen][1]
         /\ \A h \in Transports : h # rgen => pipe'[h] = pipe[h]
         /\ pipe'[rgen] \in Seq(Entries) /\ Len(pipe'[rgen]) = Len(pipe[rgen]) - 1
         /\ \A k \in 1..Len(pipe'[rgen]) : k + 1 \in 1..Len(pipe[rgen]) /\ pipe'[rgen][k] = pipe[rgen][k + 1]
         /\ \/ rpc = "header" /\ rpc' = "payload" /\ rframe' = Head(pipe[rgen]).frame /\ received' = received
            \/ rpc = "payload" /\ rpc' = "snapshot" /\ rframe' = rframe /\ received' = Append(received, rframe)
         /\ UNCHANGED <<rgen, endVars, dead, writerVars>>
<1>0. PipesType /\ EndInv
  BY TypeParts DEF LinkInv
<1>1. /\ rpc \in Parts /\ pipe[rgen] # <<>> /\ pipe' = [pipe EXCEPT ![rgen] = Tail(pipe[rgen])]
      /\ UNCHANGED <<rgen, endVars, dead, writerVars>>
      /\ \/ rpc = "header" /\ rpc' = "payload" /\ rframe' = Head(pipe[rgen]).frame /\ received' = received
         \/ rpc = "payload" /\ rpc' = "snapshot" /\ rframe' = rframe /\ received' = Append(received, rframe)
  BY DEF ReadPart
<1>2. rgen \in Transports
  BY <1>0, <1>1 DEF EndInv
<1>3. pipe[rgen] \in Seq(Entries)
  BY <1>0, <1>2 DEF PipesType
<1>4. pipe'[rgen] = Tail(pipe[rgen]) /\ \A h \in Transports : h # rgen => pipe'[h] = pipe[h]
  BY <1>0, <1>1, <1>2 DEF PipesType
<1>5. Tail(pipe[rgen]) \in Seq(Entries) /\ Len(Tail(pipe[rgen])) = Len(pipe[rgen]) - 1
      /\ Len(pipe[rgen]) > 0 /\ Head(pipe[rgen]) = pipe[rgen][1]
  BY <1>1, <1>3
<1>6. \A k \in 1..(Len(pipe[rgen]) - 1) :
        k + 1 \in 1..Len(pipe[rgen]) /\ Tail(pipe[rgen])[k] = pipe[rgen][k + 1]
  BY <1>1, <1>3
<1> QED
  BY <1>1, <1>2, <1>4, <1>5, <1>6

(* Only these three touch a buffer. *)
LEMMA PipeSteps ==
  ASSUME Next
  PROVE  \/ pipe' = pipe
         \/ \E w \in Writers : WritePart(w)
         \/ \E g \in Transports : Die(g)
         \/ ReadPart
BY DEF Next, Attach, LinkClose, ReverseError, CloseOld, CloseEndpoint, Begin, GiveUp, WriterNext, Snapshot, Recheck,
       WriteError, ReaderNext, ReadSnapshot, ReadError, ReadClosed

(* A buffer fills only by being written to. *)
LEMMA PipeEmpty ==
  ASSUME LinkInv, Next, NEW h \in Transports, pipe[h] = <<>>
  PROVE  pipe'[h] = <<>> \/ \E w \in Writers : WritePart(w) /\ h = wgen[w]
<1>1. ASSUME NEW g \in Transports, Die(g) PROVE pipe'[h] = <<>>
  <2>1. CASE h = g
    BY <1>1, <2>1, DieEffect
  <2>2. CASE h # g
    BY <1>1, <2>2, DieEffect
  <2> QED
    BY <2>1, <2>2
<1>2. CASE ReadPart
  BY <1>2, ReadEffect
<1>3. ASSUME NEW w \in Writers, WritePart(w) PROVE pipe'[h] = <<>> \/ h = wgen[w]
  BY <1>3, WriteEffect
<1> QED
  BY <1>1, <1>2, <1>3, PipeSteps

(* A writer that comes to have writeMu has it for the current transport.     *)
LEMMA Writing ==
  ASSUME LinkInv, Next, NEW w \in Writers, wpc'[w] \in Parts
  PROVE  /\ wgen'[w] = wgen[w]
         /\ wpc[w] \in Parts \/ wgen[w] = last["writing"]
<1>0. WritersType /\ LockInv /\ EndInv
  BY TypeParts DEF LinkInv
<1>1. ASSUME NEW v \in Writers, Begin(v) \/ GiveUp(v) \/ Snapshot(v)
      PROVE  v # w /\ wpc'[w] = wpc[w] /\ wgen'[w] = wgen[w]
  <2>1. \E st \in {"idle", "snapshot", "lock"} : wpc' = [wpc EXCEPT ![v] = st]
    BY <1>1 DEF Begin, GiveUp, Snapshot
  <2>2. v # w /\ wpc'[w] = wpc[w]
    BY <1>0, <2>1 DEF WritersType, Parts
  <2> QED
    BY <1>0, <1>1, <2>2 DEF Begin, GiveUp, Snapshot, WritersType
<1>2. ASSUME NEW v \in Writers, Recheck(v)
      PROVE  wgen'[w] = wgen[w] /\ (wpc[w] \in Parts \/ wgen[w] = last["writing"])
  <2>1. wgen' = wgen /\ wpc[v] = "lock"
        /\ \/ cur["writing"] = wgen[v] /\ wpc' = [wpc EXCEPT ![v] = "header"]
           \/ wpc' = [wpc EXCEPT ![v] = "snapshot"]
    BY <1>2 DEF Recheck
  <2>2. wgen[v] # 0
    BY <1>0, <2>1, TransportNat DEF LockInv
  <2>3. cur["writing"] = wgen[v] => wgen[v] = last["writing"]
    BY <1>0, <2>2 DEF EndInv, Ends
  <2>4. wpc'[w] = wpc[w] \/ (w = v /\ cur["writing"] = wgen[v])
    BY <1>0, <2>1 DEF WritersType, Parts
  <2> QED
    BY <2>1, <2>3, <2>4
<1>3. ASSUME NEW v \in Writers, WritePart(v) \/ WriteError(v)
      PROVE  wgen' = wgen /\ wpc[w] \in Parts
  <2>1. wgen' = wgen /\ wpc[v] \in Parts /\ \E st \in {"payload", "idle", "snapshot"} : wpc' = [wpc EXCEPT ![v] = st]
    BY <1>3 DEF WritePart, WriteError
  <2> QED
    BY <1>0, <2>1 DEF WritersType
<1> QED
  BY <1>1, <1>2, <1>3
     DEF Next, Attach, LinkClose, ReverseError, CloseOld, CloseEndpoint, Die, WriterNext, ReaderNext, ReadSnapshot,
         ReadPart, ReadError, ReadClosed, writerVars

(* Every step keeps the transports ahead empty. *)
LEMMA AheadStep ==
  ASSUME LinkInv, Ahead, Next
  PROVE  Ahead'
<1>0. WritersType
  BY TypeParts DEF LinkInv
<1>g. last["writing"] \in Nat /\ last'["writing"] \in Nat /\ last["writing"] <= last'["writing"]
  BY LastGrows DEF LinkInv, Ends
<1>w. \A w \in Writers : wgen[w] \in Nat
  BY <1>0, TransportNat DEF WritersType
<1>1. ASSUME NEW h \in Transports, h > last'["writing"] PROVE pipe'[h] = <<>>
  <2>1. h \in Nat /\ h > last["writing"]
    BY <1>g, <1>1, TransportNat
  <2>2. pipe[h] = <<>>
    BY <2>1 DEF Ahead
  <2>3. ASSUME NEW w \in Writers, WritePart(w) PROVE h # wgen[w]
    <3>1. wgen[w] <= last["writing"]
      BY <2>3, WriteEffect
    <3> QED
      BY <1>g, <1>w, <2>1, <3>1
  <2> QED
    BY <2>2, <2>3, PipeEmpty
<1>2. ASSUME NEW w \in Writers, NEW h \in Transports, wpc'[w] \in Parts, h > wgen'[w] PROVE pipe'[h] = <<>>
  <2>1. wgen'[w] = wgen[w] /\ (wpc[w] \in Parts \/ wgen[w] = last["writing"])
    BY <1>2, Writing
  <2>2. pipe[h] = <<>>
    BY <1>2, <2>1 DEF Ahead
  <2>3. ASSUME NEW v \in Writers, WritePart(v) PROVE h # wgen[v]
    <3>1. CASE v = w
      BY <1>2, <1>w, <2>1, <3>1, TransportNat
    <3>2. CASE v # w
      <4>1. wgen[w] = last["writing"] /\ wgen[v] <= last["writing"]
        BY <2>1, <2>3, <3>2, WriteEffect
      <4> QED
        BY <1>2, <1>w, <1>g, <2>1, <4>1, TransportNat
    <3> QED
      BY <3>1, <3>2
  <2> QED
    BY <2>2, <2>3, PipeEmpty
<1> QED
  BY <1>1, <1>2 DEF Ahead

(* The parts in a buffer. *)
LEMMA PipeEntry ==
  ASSUME PipesType, NEW g \in Transports
  PROVE  /\ pipe[g] \in Seq(Entries) /\ Len(pipe[g]) \in Nat
         /\ pipe[g] = <<>> <=> Len(pipe[g]) = 0
         /\ \A k \in 1..Len(pipe[g]) : /\ pipe[g][k] \in Entries /\ pipe[g][k].frame \in Nat
                                       /\ pipe[g][k].part \in Parts
<1>1. pipe[g] \in Seq(Entries)
  BY DEF PipesType
<1>2. \A k \in 1..Len(pipe[g]) : pipe[g][k] \in Entries
  BY <1>1
<1> QED
  BY <1>1, <1>2 DEF Entries

(* The parts in a buffer that was written to. *)
LEMMA WriteEntries ==
  ASSUME LinkInv, NEW w \in Writers, WritePart(w)
  PROVE  /\ Len(pipe'[wgen[w]]) = Len(pipe[wgen[w]]) + 1
         /\ \A k \in 1..Len(pipe[wgen[w]]) : pipe'[wgen[w]][k] = pipe[wgen[w]][k]
         /\ pipe'[wgen[w]][Len(pipe[wgen[w]]) + 1] = [frame |-> written + 1, part |-> wpc[w]]
<1>0. PipesType /\ WritersType
  BY TypeParts DEF LinkInv
<1>1. /\ wgen[w] \in Transports /\ wpc[w] \in Parts
      /\ pipe'[wgen[w]] = Append(pipe[wgen[w]], [frame |-> written + 1, part |-> wpc[w]])
  BY WriteEffect
<1>2. pipe[wgen[w]] \in Seq(Entries) /\ [frame |-> written + 1, part |-> wpc[w]] \in Entries
  BY <1>0, <1>1, EntryType DEF PipesType, WritersType
<1> QED
  BY <1>1, <1>2

(* The numbering survives the loss of parts at either end of the buffers.    *)
LEMMA NumberedSlice ==
  ASSUME TypeOK, TypeOK', Numbered, written' = written,
         \A g \in Transports : \E d \in Nat : \A k \in 1..Len(pipe'[g]) :
             k + d \in 1..Len(pipe[g]) /\ pipe'[g][k] = pipe[g][k + d]
  PROVE  Numbered'
<1>0. PipesType /\ PipesType'
  BY TypeParts, TypePartsNext
<1>n. \A g \in Transports : Len(pipe'[g]) \in Nat
  BY <1>0 DEF PipesType
<1>1. ASSUME NEW g \in Transports, NEW k \in 1..Len(pipe'[g]), Whole(g, k)'
      PROVE  pipe'[g][k].frame <= written'
  BY <1>1 DEF Numbered, Whole
<1>2. ASSUME NEW g \in Transports, NEW j \in 1..Len(pipe'[g]), NEW k \in 1..Len(pipe'[g]), j < k, Whole(g, j)'
      PROVE  pipe'[g][j].frame < pipe'[g][k].frame
  <2>1. PICK d \in Nat : \A m \in 1..Len(pipe'[g]) : m + d \in 1..Len(pipe[g]) /\ pipe'[g][m] = pipe[g][m + d]
    OBVIOUS
  <2>2. j + d < k + d
    BY <1>2, <1>n
  <2>3. /\ j + d \in 1..Len(pipe[g]) /\ pipe'[g][j] = pipe[g][j + d]
        /\ k + d \in 1..Len(pipe[g]) /\ pipe'[g][k] = pipe[g][k + d]
    BY <2>1
  <2>4. Whole(g, j + d)
    BY <1>2, <2>3 DEF Whole
  <2> QED
    BY <2>2, <2>3, <2>4 DEF Numbered
<1>3. ASSUME NEW g \in Transports, NEW h \in Transports, NEW j \in 1..Len(pipe'[g]), NEW k \in 1..Len(pipe'[h]),
             g < h, Whole(g, j)'
      PROVE  pipe'[g][j].frame < pipe'[h][k].frame
  <2>1. PICK d \in Nat : \A m \in 1..Len(pipe'[g]) : m + d \in 1..Len(pipe[g]) /\ pipe'[g][m] = pipe[g][m + d]
    OBVIOUS
  <2>2. PICK b \in Nat : \A m \in 1..Len(pipe'[h]) : m + b \in 1..Len(pipe[h]) /\ pipe'[h][m] = pipe[h][m + b]
    OBVIOUS
  <2>3. /\ j + d \in 1..Len(pipe[g]) /\ pipe'[g][j] = pipe[g][j + d]
        /\ k + b \in 1..Len(pipe[h]) /\ pipe'[h][k] = pipe[h][k + b]
    BY <2>1, <2>2
  <2>4. Whole(g, j + d)
    BY <1>3, <2>3 DEF Whole
  <2> QED
    BY <1>3, <2>3, <2>4 DEF Numbered
<1> QED
  BY <1>1, <1>2, <1>3 DEF Numbered

(* A new part carries the next number. *)
LEMMA NumberedWrite ==
  ASSUME LinkInv, LinkInv', Ahead, Numbered, NEW w \in Writers, WritePart(w)
  PROVE  Numbered'
<1> DEFINE c == wgen[w]
           n == Len(pipe[c])
<1>0. PipesType /\ PipesType' /\ written \in Nat /\ written' \in Nat
  BY TypeParts, TypePartsNext DEF LinkInv, WritersType
<1>1. /\ c \in Transports /\ wpc[w] \in Parts
      /\ \A h \in Transports : h # c => pipe'[h] = pipe[h]
      /\ \/ wpc[w] = "header" /\ written' = written
         \/ wpc[w] = "payload" /\ written' = written + 1
  BY WriteEffect
<1>2. /\ Len(pipe'[c]) = n + 1 /\ n \in Nat
      /\ \A k \in 1..n : pipe'[c][k] = pipe[c][k]
      /\ pipe'[c][n + 1] = [frame |-> written + 1, part |-> wpc[w]]
  BY <1>0, <1>1, WriteEntries, PipeEntry
<1> HIDE DEF c, n
<1>3. ASSUME NEW g \in Transports, NEW k \in 1..Len(pipe'[g])
      PROVE  \/ k \in 1..Len(pipe[g]) /\ pipe'[g][k] = pipe[g][k] /\ pipe[g][k].frame \in Nat
             \/ g = c /\ k = n + 1 /\ pipe'[g][k].frame = written + 1 /\ pipe'[g][k].part = wpc[w]
  <2>1. CASE g = c
    BY <1>0, <1>1, <1>2, <2>1, PipeEntry DEF n
  <2>2. CASE g # c
    BY <1>0, <1>1, <2>2, PipeEntry
  <2> QED
    BY <2>1, <2>2
<1>4. ASSUME NEW g \in Transports, NEW k \in 1..Len(pipe'[g]), Whole(g, k)'
      PROVE  pipe'[g][k].frame <= written'
  BY <1>0, <1>1, <1>3, <1>4 DEF Numbered, Whole
<1>5. ASSUME NEW g \in Transports, NEW j \in 1..Len(pipe'[g]), NEW k \in 1..Len(pipe'[g]), j < k, Whole(g, j)'
      PROVE  pipe'[g][j].frame < pipe'[g][k].frame
  <2>0. Len(pipe'[g]) \in Nat
    BY <1>0, PipeEntry DEF PipesType
  <2>1. j \in 1..Len(pipe[g]) /\ pipe'[g][j] = pipe[g][j] /\ pipe[g][j].frame \in Nat
    <3>1. CASE g = c /\ j = n + 1
      BY <1>2, <1>5, <2>0, <3>1
    <3> QED
      BY <1>3, <3>1
  <2>2. pipe[g][j].frame <= written
    BY <1>5, <2>1 DEF Numbered, Whole
  <2>3. CASE k \in 1..Len(pipe[g]) /\ pipe'[g][k] = pipe[g][k]
    BY <1>5, <2>1, <2>3 DEF Numbered, Whole
  <2>4. CASE pipe'[g][k].frame = written + 1
    BY <1>0, <2>1, <2>2, <2>4
  <2> QED
    BY <1>3, <2>3, <2>4
<1>6. ASSUME NEW g \in Transports, NEW h \in Transports, NEW j \in 1..Len(pipe'[g]), NEW k \in 1..Len(pipe'[h]),
             g < h, Whole(g, j)'
      PROVE  pipe'[g][j].frame < pipe'[h][k].frame
  <2>1. g # c
    <3>1. CASE g = c
      <4>1. h # c /\ pipe[h] = <<>>
        BY <1>1, <1>6, <3>1, TransportNat DEF Ahead, c
      <4>2. pipe'[h] = <<>>
        BY <1>1, <4>1
      <4> QED
        BY <4>2
    <3> QED
      BY <3>1
  <2>2. j \in 1..Len(pipe[g]) /\ pipe'[g][j] = pipe[g][j] /\ pipe[g][j].frame \in Nat
    BY <1>3, <2>1
  <2>3. pipe[g][j].frame <= written
    BY <1>6, <2>2 DEF Numbered, Whole
  <2>4. CASE k \in 1..Len(pipe[h]) /\ pipe'[h][k] = pipe[h][k]
    BY <1>6, <2>2, <2>4 DEF Numbered, Whole
  <2>5. CASE pipe'[h][k].frame = written + 1
    BY <1>0, <2>2, <2>3, <2>5
  <2> QED
    BY <1>3, <2>4, <2>5
<1> QED
  BY <1>4, <1>5, <1>6 DEF Numbered

(* Every step keeps the frames numbered. *)
LEMMA NumberedStep ==
  ASSUME LinkInv, LinkInv', Ahead, Numbered, Next
  PROVE  Numbered'
<1>0. TypeOK /\ TypeOK' /\ PipesType /\ PipesType'
  BY TypeParts, TypePartsNext DEF LinkInv
<1>1. CASE \E w \in Writers : WritePart(w)
  BY <1>1, NumberedWrite
<1>2. CASE ~\E w \in Writers : WritePart(w)
  <2>1. written' = written
    BY <1>2 DEF Next, Attach, LinkClose, ReverseError, CloseOld, CloseEndpoint, Die, Begin, GiveUp, WriterNext, Snapshot, Recheck,
                WriteError, ReaderNext, ReadSnapshot, ReadPart, ReadError, ReadClosed, writerVars
  <2>2. ASSUME NEW g \in Transports
        PROVE  \E d \in Nat : \A k \in 1..Len(pipe'[g]) : k + d \in 1..Len(pipe[g]) /\ pipe'[g][k] = pipe[g][k + d]
    <3>1. ASSUME \/ pipe'[g] = pipe[g]
                 \/ /\ Len(pipe'[g]) <= Len(pipe[g])
                    /\ \A k \in 1..Len(pipe'[g]) : pipe'[g][k] = pipe[g][k]
          PROVE  \A k \in 1..Len(pipe'[g]) : k + 0 \in 1..Len(pipe[g]) /\ pipe'[g][k] = pipe[g][k + 0]
      <4>1. Len(pipe[g]) \in Nat /\ Len(pipe'[g]) \in Nat
        BY <1>0 DEF PipesType
      <4> QED
        BY <3>1, <4>1
    <3>2. ASSUME NEW h \in Transports, Die(h)
          PROVE  \/ pipe'[g] = pipe[g]
                 \/ /\ Len(pipe'[g]) <= Len(pipe[g])
                    /\ \A k \in 1..Len(pipe'[g]) : pipe'[g][k] = pipe[g][k]
      BY <3>2, DieEffect
    <3>3. CASE ReadPart /\ g = rgen
      <4>1. \A k \in 1..Len(pipe'[g]) : k + 1 \in 1..Len(pipe[g]) /\ pipe'[g][k] = pipe[g][k + 1]
        BY <3>3, ReadEffect
      <4> QED
        BY <4>1
    <3>4. CASE ReadPart /\ g # rgen
      BY <3>1, <3>4, ReadEffect
    <3> QED
      BY <1>2, <3>1, <3>2, <3>3, <3>4, PipeSteps
  <2> QED
    BY <1>0, <2>1, <2>2, NumberedSlice
<1> QED
  BY <1>1, <1>2

-----------------------------------------------------------------------------
(* What the frame loop reads. *)

(* What a frame loop that goes on as before, or reads less, makes of buffers *)
(* that nobody writes to.                                                    *)
LEMMA FramedKept ==
  ASSUME LinkInv, LinkInv', NEW g \in Transports, Framed(g), Half(g)' <=> Half(g),
         written' = written, rframe' = rframe,
         DeadEnd(g) => DeadEnd(g)', Owing(g)' => Owing(g), Owing(g) => Owing(g)' \/ DeadEnd(g)',
         pipe'[g] = pipe[g] \/ DeadEnd(g)',
         Len(pipe'[g]) <= Len(pipe[g]), \A k \in 1..Len(pipe'[g]) : pipe'[g][k] = pipe[g][k]
  PROVE  Framed(g)'
<1>0. PipesType /\ PipesType'
  BY TypeParts, TypePartsNext DEF LinkInv
<1>1. Len(pipe[g]) \in Nat /\ Len(pipe'[g]) \in Nat /\ (pipe[g] = <<>> <=> Len(pipe[g]) = 0)
      /\ (pipe'[g] = <<>> <=> Len(pipe'[g]) = 0)
  BY <1>0 DEF PipesType
<1>2. Starts(g)'
  <2>1. pipe'[g] # <<>> => pipe[g] # <<>> /\ pipe'[g][1] = pipe[g][1]
    BY <1>1
  <2> QED
    BY <2>1 DEF Framed, Starts
<1>3. Pairs(g)'
  <2> SUFFICES ASSUME NEW k \in 1..Len(pipe'[g]), k + 1 \in 1..Len(pipe'[g])
      PROVE /\ ~Whole(g, k)' => pipe'[g][k + 1] = [frame |-> pipe'[g][k].frame, part |-> "payload"]
            /\ Whole(g, k)' => pipe'[g][k + 1].part = "header"
    BY DEF Pairs
  <2>1. k \in 1..Len(pipe[g]) /\ k + 1 \in 1..Len(pipe[g])
    BY <1>1
  <2>2. pipe'[g][k] = pipe[g][k] /\ pipe'[g][k + 1] = pipe[g][k + 1]
    OBVIOUS
  <2> QED
    BY <2>1, <2>2 DEF Framed, Pairs, Whole
<1>4. Settled(g)' /\ Owed(g)'
  <2>1. CASE DeadEnd(g)'
    BY <2>1 DEF Settled, Owed
  <2>2. CASE ~DeadEnd(g)' /\ pipe'[g] = pipe[g]
    <3>1. \A f \in Nat : Dangling(g, f)' <=> Dangling(g, f)
      BY <2>2 DEF Dangling
    <3>2. written \in Nat
      BY TypeParts DEF LinkInv, WritersType
    <3> QED
      BY <2>2, <3>1, <3>2 DEF Framed, Settled, Owed
  <2> QED
    BY <2>1, <2>2
<1> QED
  BY <1>2, <1>3, <1>4 DEF Framed

(* The same for all the transports. *)
LEMMA ReadKept ==
  ASSUME LinkInv, LinkInv', ReadInv,
         written' = written, rframe' = rframe, received' = received, rpc' = "payload" => rpc = "payload",
         \A g \in Transports :
             /\ Live(g)' => Live(g) /\ (Half(g)' <=> Half(g))
             /\ DeadEnd(g) => DeadEnd(g)'
             /\ Owing(g)' => Owing(g)
             /\ Owing(g) => Owing(g)' \/ DeadEnd(g)'
             /\ pipe'[g] = pipe[g] \/ DeadEnd(g)'
             /\ Len(pipe'[g]) <= Len(pipe[g]) /\ \A k \in 1..Len(pipe'[g]) : pipe'[g][k] = pipe[g][k]
  PROVE  ReadInv'
<1>0. PipesType /\ PipesType'
  BY TypeParts, TypePartsNext DEF LinkInv
<1>1. ASSUME NEW g \in Transports, Live(g)' PROVE Framed(g)'
  BY <1>1, FramedKept DEF ReadInv
<1>2. ASSUME NEW i \in 1..Len(received), NEW g \in Transports, Live(g)', NEW k \in 1..Len(pipe'[g])
      PROVE  received[i] < pipe'[g][k].frame
  <2>1. k \in 1..Len(pipe[g]) /\ pipe'[g][k] = pipe[g][k] /\ Live(g)
    BY <1>0, <1>2 DEF PipesType
  <2> QED
    BY <2>1 DEF ReadInv, Older
<1>3. Older'
  BY <1>2 DEF ReadInv, Older
<1> QED
  BY <1>1, <1>3 DEF ReadInv

(* The part a writer sends continues what is in its transport. *)
LEMMA WriteFramed ==
  ASSUME LinkInv, LinkInv', NEW w \in Writers, WritePart(w), Framed(wgen[w])
  PROVE  Framed(wgen[w])'
<1>0. PipesType /\ PipesType' /\ written \in Nat /\ rframe \in Nat
  BY TypeParts, TypePartsNext DEF LinkInv, WritersType, ReaderType
<1>c. PICK c \in Transports : c = wgen[w]
  BY WriteEffect
<1>n. PICK n \in Nat : n = Len(pipe[c])
  BY <1>0, PipeEntry
<1>1. /\ wpc[w] \in Parts /\ ~DeadEnd(c)
      /\ \A v \in Writers : v # w => wpc[v] \notin Parts /\ wpc'[v] = wpc[v]
      /\ \/ wpc[w] = "header" /\ wpc'[w] = "payload" /\ written' = written
         \/ wpc[w] = "payload" /\ wpc'[w] = "idle" /\ written' = written + 1
      /\ UNCHANGED <<wgen, endVars, dead, readerVars>>
  BY <1>c, WriteEffect
<1>2. /\ Len(pipe'[c]) = n + 1 /\ n \in Nat /\ (pipe[c] = <<>> <=> n = 0) /\ pipe'[c] # <<>>
      /\ \A k \in 1..n : pipe'[c][k] = pipe[c][k] /\ pipe[c][k] \in Entries
      /\ pipe'[c][n + 1] = [frame |-> written + 1, part |-> wpc[w]]
  <2>1. /\ Len(pipe'[c]) = n + 1 /\ n \in Nat /\ (pipe[c] = <<>> <=> n = 0)
        /\ \A k \in 1..n : pipe'[c][k] = pipe[c][k] /\ pipe[c][k] \in Entries
        /\ pipe'[c][n + 1] = [frame |-> written + 1, part |-> wpc[w]]
    BY <1>0, <1>c, <1>n, WriteEntries, PipeEntry
  <2>2. pipe'[c] # <<>>
    BY <2>1
  <2> QED
    BY <2>1, <2>2
<1>3. (Half(c)' <=> Half(c)) /\ (DeadEnd(c)' <=> DeadEnd(c)) /\ rframe' = rframe /\ wgen' = wgen
  BY <1>1 DEF Half, DeadEnd, Left, readerVars, endVars
<1>f. Starts(c) /\ Pairs(c) /\ Settled(c) /\ Owed(c)
  BY <1>c DEF Framed
<1>d. ASSUME NEW f \in Nat PROVE Dangling(c, f)' <=> f = written + 1 /\ wpc[w] = "header"
  <2>1. Dangling(c, f)' <=> [frame |-> written + 1, part |-> wpc[w]] = [frame |-> f, part |-> "header"]
    BY <1>2 DEF Dangling
  <2> QED
    BY <2>1, SameEntry
<1>4. ASSUME wpc[w] = "header" PROVE Framed(c)'
  <2>1. ~Owing(c)
    BY <1>1, <1>4 DEF Owing, Parts
  <2>2. \A f \in Nat : ~Dangling(c, f)
    BY <1>1, <1>f, <2>1 DEF Settled
  <2>3. n = 0 => ~Half(c)
    BY <1>0, <1>2, <2>2 DEF Dangling
  <2>4. n # 0 => pipe[c][n].part = "payload"
    <3>1. ASSUME n # 0, pipe[c][n].part # "payload" PROVE FALSE
      <4>1. n \in 1..n /\ pipe[c][n] \in Entries
        BY <1>2, <3>1
      <4>2. pipe[c][n].frame \in Nat /\ pipe[c][n] = [frame |-> pipe[c][n].frame, part |-> "header"]
        BY <3>1, <4>1 DEF Entries, Parts
      <4>3. Dangling(c, pipe[c][n].frame)
        BY <1>n, <1>2, <3>1, <4>2 DEF Dangling
      <4> QED
        BY <2>2, <4>2, <4>3
    <3> QED
      BY <3>1
  <2>5. Starts(c)'
    <3>1. CASE n = 0
      BY <1>2, <1>3, <1>4, <2>3, <3>1 DEF Starts
    <3>2. CASE n # 0
      <4>1. 1 \in 1..n /\ pipe'[c][1] = pipe[c][1]
        BY <1>2, <3>2
      <4> QED
        BY <1>2, <1>3, <1>f, <3>2, <4>1 DEF Starts
    <3> QED
      BY <3>1, <3>2
  <2>6. Pairs(c)'
    <3> SUFFICES ASSUME NEW k \in 1..Len(pipe'[c]), k + 1 \in 1..Len(pipe'[c])
        PROVE /\ ~Whole(c, k)' => pipe'[c][k + 1] = [frame |-> pipe'[c][k].frame, part |-> "payload"]
              /\ Whole(c, k)' => pipe'[c][k + 1].part = "header"
      BY DEF Pairs
    <3>1. k \in 1..n /\ pipe'[c][k] = pipe[c][k]
      BY <1>2
    <3>2. CASE k + 1 \in 1..n
      BY <1>n, <1>2, <1>f, <3>1, <3>2 DEF Pairs, Whole
    <3>3. CASE k = n
      BY <1>2, <1>4, <2>4, <3>1, <3>3 DEF Whole
    <3> QED
      BY <1>2, <3>1, <3>2, <3>3
  <2>7. Owing(c)'
    BY <1>c, <1>1, <1>4 DEF Owing
  <2>8. Settled(c)' /\ Owed(c)'
    <3>1. \A f \in Nat : Dangling(c, f)' <=> f = written + 1
      BY <1>4, <1>d
    <3> QED
      BY <1>0, <1>1, <1>4, <2>7, <3>1 DEF Settled, Owed
  <2> QED
    BY <2>5, <2>6, <2>8 DEF Framed
<1>5. ASSUME wpc[w] = "payload" PROVE Framed(c)'
  <2>1. Dangling(c, written + 1)
    BY <1>c, <1>1, <1>5, <1>f DEF Owed, Owing
  <2>2. n = 0 => Half(c) /\ rframe = written + 1
    BY <1>2, <2>1 DEF Dangling
  <2>3. n # 0 => pipe[c][n] = [frame |-> written + 1, part |-> "header"]
    BY <1>n, <1>2, <2>1 DEF Dangling
  <2>5. Starts(c)'
    <3>1. CASE n = 0
      BY <1>2, <1>3, <1>5, <2>2, <3>1 DEF Starts
    <3>2. CASE n # 0
      <4>1. 1 \in 1..n /\ pipe'[c][1] = pipe[c][1]
        BY <1>2, <3>2
      <4> QED
        BY <1>2, <1>3, <1>f, <3>2, <4>1 DEF Starts
    <3> QED
      BY <3>1, <3>2
  <2>6. Pairs(c)'
    <3> SUFFICES ASSUME NEW k \in 1..Len(pipe'[c]), k + 1 \in 1..Len(pipe'[c])
        PROVE /\ ~Whole(c, k)' => pipe'[c][k + 1] = [frame |-> pipe'[c][k].frame, part |-> "payload"]
              /\ Whole(c, k)' => pipe'[c][k + 1].part = "header"
      BY DEF Pairs
    <3>1. k \in 1..n /\ pipe'[c][k] = pipe[c][k]
      BY <1>2
    <3>2. CASE k + 1 \in 1..n
      BY <1>n, <1>2, <1>f, <3>1, <3>2 DEF Pairs, Whole
    <3>3. CASE k = n
      BY <1>2, <1>5, <2>3, <3>1, <3>3 DEF Whole
    <3> QED
      BY <1>2, <3>1, <3>2, <3>3
  <2>7. ~Owing(c)'
    BY <1>1, <1>5 DEF Owing, Parts
  <2>8. \A f \in Nat : ~Dangling(c, f)'
    BY <1>5, <1>d
  <2> QED
    BY <2>5, <2>6, <2>7, <2>8 DEF Framed, Settled, Owed
<1> QED
  BY <1>c, <1>1, <1>4, <1>5

(* A write keeps what the frame loop finds in order. *)
LEMMA ReadInvWrite ==
  ASSUME LinkInv, LinkInv', ReadInv, NEW w \in Writers, WritePart(w)
  PROVE  ReadInv'
<1>0. PipesType /\ PipesType' /\ written \in Nat /\ received \in Seq(Nat)
  BY TypeParts, TypePartsNext DEF LinkInv, WritersType, ReaderType
<1>c. PICK c \in Transports : c = wgen[w]
  BY WriteEffect
<1>n. PICK n \in Nat : n = Len(pipe[c])
  BY <1>0, PipeEntry
<1>1. /\ wpc[w] \in Parts
      /\ \A h \in Transports : h # c => pipe'[h] = pipe[h]
      /\ \A v \in Writers : v # w => wpc[v] \notin Parts /\ wpc'[v] = wpc[v]
      /\ (written' = written \/ written' = written + 1)
      /\ UNCHANGED <<wgen, endVars, dead, readerVars>>
  BY <1>c, WriteEffect
<1>2. \A g \in Transports : /\ Live(g)' <=> Live(g)
                            /\ Half(g)' <=> Half(g)
                            /\ DeadEnd(g)' <=> DeadEnd(g)
  BY <1>1 DEF Live, Half, DeadEnd, Left, readerVars, endVars
<1>3. ASSUME NEW g \in Transports, Live(g), g # c PROVE Framed(g)'
  <2>1. ~Owing(g) /\ ~Owing(g)' /\ pipe'[g] = pipe[g]
    BY <1>c, <1>1, <1>3 DEF Owing, Parts
  <2>2. Framed(g)
    BY <1>3 DEF ReadInv
  <2>3. \A f \in Nat : Dangling(g, f)' <=> Dangling(g, f)
    BY <1>1, <1>2, <2>1 DEF Dangling, readerVars
  <2>4. Starts(g)' /\ Pairs(g)'
    BY <1>1, <1>2, <2>1, <2>2 DEF Framed, Starts, Pairs, Whole, readerVars
  <2>5. Settled(g)' /\ Owed(g)'
    BY <1>2, <2>1, <2>2, <2>3 DEF Framed, Settled, Owed
  <2> QED
    BY <2>4, <2>5 DEF Framed
<1>4. ASSUME NEW g \in Transports, Live(g)' PROVE Framed(g)'
  BY <1>c, <1>1, <1>2, <1>3, <1>4, WriteFramed DEF ReadInv
<1>5. received' = received /\ rpc' = rpc /\ rframe' = rframe
  BY <1>1 DEF readerVars
<1>6. \A i \in 1..Len(received) : received[i] \in Nat /\ received[i] <= written
  BY <1>0 DEF ReadInv, Older
<1>7. ASSUME NEW i \in 1..Len(received), NEW g \in Transports, Live(g)', NEW k \in 1..Len(pipe'[g])
      PROVE  received[i] < pipe'[g][k].frame
  <2>1. CASE g # c
    BY <1>1, <1>2, <1>7, <2>1 DEF ReadInv, Older
  <2>2. CASE g = c
    <3>1. /\ Len(pipe'[c]) = n + 1 /\ n \in Nat
          /\ \A m \in 1..n : pipe'[c][m] = pipe[c][m]
          /\ pipe'[c][n + 1] = [frame |-> written + 1, part |-> wpc[w]]
      BY <1>c, <1>n, WriteEntries
    <3>2. CASE k \in 1..n
      BY <1>n, <1>2, <1>7, <2>2, <3>1, <3>2 DEF ReadInv, Older
    <3>3. CASE k = n + 1
      <4>1. pipe'[g][k].frame = written + 1
        BY <2>2, <3>1, <3>3
      <4>2. received[i] \in Nat /\ received[i] <= written /\ written \in Nat
        BY <1>0, <1>6
      <4> QED
        BY <4>1, <4>2
    <3> QED
      BY <2>2, <3>1, <3>2, <3>3
  <2> QED
    BY <2>1, <2>2
<1>8. Older'
  <2>1. \A i \in 1..Len(received) : received[i] <= written'
    BY <1>0, <1>1, <1>6
  <2> QED
    BY <1>5, <1>7, <2>1 DEF ReadInv, Older
<1> QED
  BY <1>4, <1>8 DEF ReadInv

(* The part the frame loop takes is the one it expects, and what is left     *)
(* continues it.                                                             *)
LEMMA ReadFramed ==
  ASSUME LinkInv, LinkInv', ReadPart, Framed(rgen)
  PROVE  /\ pipe[rgen][1].part = rpc
         /\ rpc = "payload" => pipe[rgen][1].frame = rframe
         /\ Framed(rgen)'
<1>0. PipesType /\ PipesType' /\ written \in Nat
  BY TypeParts, TypePartsNext DEF LinkInv, WritersType
<1>c. PICK c \in Transports : c = rgen
  BY ReadEffect
<1>n. PICK n \in Nat : n = Len(pipe[c])
  BY <1>0, PipeEntry
<1>1. /\ rpc \in Parts /\ pipe[c] # <<>> /\ n > 0 /\ Head(pipe[c]) = pipe[c][1]
      /\ Len(pipe'[c]) = n - 1 /\ (pipe'[c] = <<>> <=> n = 1)
      /\ \A k \in 1..(n - 1) : k + 1 \in 1..n /\ pipe'[c][k] = pipe[c][k + 1]
      /\ \/ rpc = "header" /\ rpc' = "payload" /\ rframe' = Head(pipe[c]).frame
         \/ rpc = "payload" /\ rpc' = "snapshot" /\ rframe' = rframe
      /\ UNCHANGED <<rgen, endVars, dead, writerVars>>
  <2>1. /\ rpc \in Parts /\ pipe[c] # <<>> /\ n > 0 /\ Head(pipe[c]) = pipe[c][1]
        /\ pipe'[c] \in Seq(Entries) /\ Len(pipe'[c]) = n - 1
        /\ \A k \in 1..(n - 1) : k + 1 \in 1..n /\ pipe'[c][k] = pipe[c][k + 1]
        /\ \/ rpc = "header" /\ rpc' = "payload" /\ rframe' = Head(pipe[c]).frame
           \/ rpc = "payload" /\ rpc' = "snapshot" /\ rframe' = rframe
        /\ UNCHANGED <<rgen, endVars, dead, writerVars>>
    BY <1>c, <1>n, ReadEffect
  <2>2. pipe'[c] = <<>> <=> n = 1
    BY <2>1
  <2> QED
    BY <2>1, <2>2
<1>2. (DeadEnd(c)' <=> DeadEnd(c)) /\ (Owing(c)' <=> Owing(c)) /\ written' = written
  BY <1>1 DEF DeadEnd, Left, Owing, endVars, writerVars
<1>f. Starts(c) /\ Pairs(c) /\ Settled(c) /\ Owed(c)
  BY <1>c DEF Framed
<1>h. (Half(c) <=> rpc = "payload") /\ (Half(c)' <=> rpc' = "payload")
  BY <1>c, <1>1 DEF Half
<1>3. pipe[c][1].part = rpc /\ (rpc = "payload" => pipe[c][1].frame = rframe)
  BY <1>1, <1>f, <1>h DEF Starts, Parts
<1>e. pipe[c][1] = [frame |-> pipe[c][1].frame, part |-> rpc]
  <2>1. 1 \in 1..n /\ pipe[c][1] \in Entries
    BY <1>0, <1>n, <1>1, PipeEntry
  <2> QED
    BY <1>3, <2>1 DEF Entries
<1>4. Starts(c)'
  <2>1. ASSUME pipe'[c] # <<>>
        PROVE  /\ rpc' = "payload" => pipe'[c][1] = [frame |-> rframe', part |-> "payload"]
               /\ rpc' # "payload" => pipe'[c][1].part = "header"
    <3>1. 1 \in 1..n /\ 1 + 1 \in 1..n /\ 1 \in 1..(n - 1) /\ pipe'[c][1] = pipe[c][1 + 1]
      BY <1>1, <2>1
    <3>2. /\ ~Whole(c, 1) => pipe[c][1 + 1] = [frame |-> pipe[c][1].frame, part |-> "payload"]
          /\ Whole(c, 1) => pipe[c][1 + 1].part = "header"
      BY <1>n, <1>f, <3>1 DEF Pairs
    <3> QED
      BY <1>1, <1>3, <3>1, <3>2 DEF Whole
  <2> QED
    BY <1>h, <2>1 DEF Starts
<1>5. Pairs(c)'
  <2> SUFFICES ASSUME NEW k \in 1..Len(pipe'[c]), k + 1 \in 1..Len(pipe'[c])
      PROVE /\ ~Whole(c, k)' => pipe'[c][k + 1] = [frame |-> pipe'[c][k].frame, part |-> "payload"]
            /\ Whole(c, k)' => pipe'[c][k + 1].part = "header"
    BY DEF Pairs
  <2>1. /\ k + 1 \in 1..n /\ pipe'[c][k] = pipe[c][k + 1]
        /\ (k + 1) + 1 \in 1..n /\ pipe'[c][k + 1] = pipe[c][(k + 1) + 1]
    BY <1>1
  <2>2. /\ ~Whole(c, k + 1) => pipe[c][(k + 1) + 1] = [frame |-> pipe[c][k + 1].frame, part |-> "payload"]
        /\ Whole(c, k + 1) => pipe[c][(k + 1) + 1].part = "header"
    BY <1>n, <1>f, <2>1 DEF Pairs
  <2> QED
    BY <2>1, <2>2 DEF Whole
<1>6. ASSUME NEW f \in Nat PROVE Dangling(c, f)' <=> Dangling(c, f)
  <2>1. CASE n = 1
    <3>1. Dangling(c, f) <=> [frame |-> pipe[c][1].frame, part |-> rpc] = [frame |-> f, part |-> "header"]
      BY <1>n, <1>1, <1>e, <2>1 DEF Dangling
    <3>2. Dangling(c, f) <=> pipe[c][1].frame = f /\ rpc = "header"
      BY <3>1, SameEntry
    <3>3. Dangling(c, f)' <=> rpc' = "payload" /\ rframe' = f
      BY <1>1, <1>h, <2>1 DEF Dangling
    <3> QED
      BY <1>1, <3>2, <3>3
  <2>2. CASE n # 1
    <3>1. n - 1 \in 1..(n - 1) /\ (n - 1) + 1 = n
      BY <1>1, <2>2
    <3>2. pipe'[c][n - 1] = pipe[c][n] /\ pipe'[c] # <<>>
      BY <1>1, <2>2, <3>1
    <3> QED
      BY <1>n, <1>1, <3>2 DEF Dangling
  <2> QED
    BY <2>1, <2>2
<1>7. Settled(c)' /\ Owed(c)'
  BY <1>0, <1>2, <1>f, <1>6 DEF Settled, Owed
<1>8. Framed(c)'
  BY <1>4, <1>5, <1>7 DEF Framed
<1> QED
  BY <1>c, <1>1, <1>3, <1>8

(* A read keeps what the frame loop finds in order. *)
LEMMA ReadInvRead ==
  ASSUME LinkInv, LinkInv', Numbered, ReadInv, ReadPart
  PROVE  ReadInv'
<1>0. PipesType /\ PipesType' /\ written \in Nat /\ received \in Seq(Nat) /\ rframe \in Nat
  BY TypeParts, TypePartsNext DEF LinkInv, WritersType, ReaderType
<1>c. PICK c \in Transports : c = rgen
  BY ReadEffect
<1>1. /\ rpc \in Parts /\ pipe[c] # <<>> /\ Len(pipe[c]) > 0 /\ Head(pipe[c]) = pipe[c][1]
      /\ \A h \in Transports : h # c => pipe'[h] = pipe[h]
      /\ \A k \in 1..Len(pipe'[c]) : k + 1 \in 1..Len(pipe[c]) /\ pipe'[c][k] = pipe[c][k + 1]
      /\ \/ rpc = "header" /\ rpc' = "payload" /\ rframe' = Head(pipe[c]).frame /\ received' = received
         \/ rpc = "payload" /\ rpc' = "snapshot" /\ rframe' = rframe /\ received' = Append(received, rframe)
      /\ UNCHANGED <<rgen, endVars, dead, writerVars>>
  BY <1>c, ReadEffect
<1>l. Live(c) /\ \A g \in Transports : g # c => (Live(g)' <=> Live(g)) /\ ~Half(g) /\ ~Half(g)'
  BY <1>c, <1>1 DEF Live, Half
<1>g. \A g \in Transports : Live(g) => g = c \/ g > c
  BY <1>c DEF Live
<1>2. /\ pipe[c][1].part = rpc
      /\ rpc = "payload" => pipe[c][1].frame = rframe
      /\ Framed(c)'
  BY <1>c, <1>1, <1>l, ReadFramed DEF ReadInv
<1>3. ASSUME NEW g \in Transports, Live(g)', g # c PROVE Framed(g)'
  <2>1. Framed(g) /\ pipe'[g] = pipe[g]
    BY <1>1, <1>3, <1>l DEF ReadInv
  <2>2. \A f \in Nat : Dangling(g, f)' <=> Dangling(g, f)
    BY <1>3, <1>l, <2>1 DEF Dangling
  <2>3. (DeadEnd(g)' <=> DeadEnd(g)) /\ (Owing(g)' <=> Owing(g)) /\ written' = written
    BY <1>1 DEF DeadEnd, Left, Owing, endVars, writerVars
  <2>4. Starts(g)' /\ Pairs(g)'
    BY <1>3, <1>l, <2>1 DEF Framed, Starts, Pairs, Whole
  <2>5. Settled(g)' /\ Owed(g)'
    BY <1>0, <2>1, <2>2, <2>3 DEF Framed, Settled, Owed
  <2> QED
    BY <2>4, <2>5 DEF Framed
<1>4. ASSUME NEW g \in Transports, Live(g)', NEW k \in 1..Len(pipe'[g])
      PROVE  Live(g) /\ \E m \in 1..Len(pipe[g]) : pipe'[g][k] = pipe[g][m] /\ (g = c => m > 1)
  <2>1. CASE g = c
    <3>1. k + 1 \in 1..Len(pipe[c]) /\ pipe'[c][k] = pipe[c][k + 1] /\ k + 1 > 1
      BY <1>0, <1>1, <1>4, <2>1, PipeEntry DEF PipesType
    <3> QED
      BY <1>l, <2>1, <3>1
  <2>2. CASE g # c
    BY <1>1, <1>4, <1>l, <2>2
  <2> QED
    BY <2>1, <2>2
<1>5. \A i \in 1..Len(received) : received[i] \in Nat
  BY <1>0
<1>6. ASSUME NEW i \in 1..Len(received), NEW g \in Transports, Live(g)', NEW k \in 1..Len(pipe'[g])
      PROVE  received[i] < pipe'[g][k].frame
  BY <1>4, <1>6 DEF ReadInv, Older
<1>w. written' = written
  BY <1>1 DEF writerVars
<1>7. CASE rpc = "header"
  <2>1. rframe' = pipe[c][1].frame /\ received' = received /\ 1 \in 1..Len(pipe[c])
    BY <1>0, <1>1, <1>7, PipeEntry
  <2>2. \A i \in 1..Len(received) : received[i] < rframe'
    BY <1>l, <2>1 DEF ReadInv, Older
  <2>3. Older'
    BY <1>6, <1>w, <2>1, <2>2 DEF ReadInv, Older
  <2> QED
    BY <1>2, <1>3, <2>3 DEF ReadInv
<1>8. CASE rpc = "payload"
  <2>1. /\ received' = Append(received, rframe) /\ rpc' = "snapshot" /\ 1 \in 1..Len(pipe[c])
        /\ Whole(c, 1) /\ pipe[c][1].frame = rframe
    BY <1>0, <1>1, <1>2, <1>8, PipeEntry DEF Whole
  <2>2. PICK n \in Nat : n = Len(received)
    BY <1>0
  <2>3. /\ Len(received') = n + 1 /\ received'[n + 1] = rframe
        /\ \A i \in 1..n : received'[i] = received[i]
    BY <1>0, <2>1, <2>2
  <2>4. rframe <= written
    BY <2>1 DEF Numbered
  <2>5. ASSUME NEW g \in Transports, Live(g)', NEW k \in 1..Len(pipe'[g])
        PROVE  rframe < pipe'[g][k].frame
    <3>1. PICK m \in 1..Len(pipe[g]) : pipe'[g][k] = pipe[g][m] /\ (g = c => m > 1)
      BY <1>4, <2>5
    <3>2. CASE g = c
      <4>1. 1 < m /\ m \in 1..Len(pipe[c])
        BY <3>1, <3>2
      <4> QED
        BY <2>1, <3>1, <3>2, <4>1 DEF Numbered
    <3>3. CASE g > c
      <4>1. c < g
        BY <3>3, TransportNat
      <4> QED
        BY <2>1, <3>1, <4>1 DEF Numbered
    <3> QED
      BY <1>4, <1>g, <2>5, <3>2, <3>3
  <2>6. ASSUME NEW i \in 1..Len(received')
        PROVE  /\ received'[i] <= written'
               /\ \A g \in Transports : Live(g)' => \A k \in 1..Len(pipe'[g]) : received'[i] < pipe'[g][k].frame
               /\ i + 1 \in 1..Len(received') => received'[i] < received'[i + 1]
    <3>1. CASE i = n + 1
      BY <1>w, <2>3, <2>4, <2>5, <3>1
    <3>2. CASE i \in 1..n
      <4>1. /\ received'[i] = received[i] /\ received[i] <= written /\ received[i] < rframe
            /\ i + 1 \in 1..n => received[i] < received[i + 1]
        BY <1>8, <2>2, <2>3, <3>2 DEF ReadInv, Older
      <4>2. i + 1 \in 1..Len(received') => i + 1 \in 1..n \/ i + 1 = n + 1
        BY <2>3
      <4>3. i + 1 \in 1..Len(received') => received'[i] < received'[i + 1]
        BY <2>3, <4>1, <4>2
      <4> QED
        BY <1>6, <1>w, <2>2, <3>2, <4>1, <4>3
    <3> QED
      BY <2>3, <3>1, <3>2
  <2>7. Older'
    BY <2>1, <2>6 DEF Older
  <2> QED
    BY <1>2, <1>3, <2>7 DEF ReadInv
<1> QED
  BY <1>1, <1>7, <1>8

(* A transport that ended stays so: it is not attached again. *)
LEMMA DeadEndStays ==
  ASSUME LinkInv, Next, NEW g \in Transports, DeadEnd(g)
  PROVE  DeadEnd(g)'
<1>0. EndsType /\ g \in Nat
  BY TypeParts, TransportNat DEF LinkInv
<1>g. last["writing"] \in Nat /\ last'["writing"] \in Nat /\ last["writing"] <= last'["writing"]
  BY LastGrows DEF LinkInv, Ends
<1>1. ASSUME NEW e \in Ends, Attach(e), Left("writing", g) PROVE Left("writing", g)'
  <2>1. up' = [up EXCEPT ![e] = @ \cup {last[e] + 1}]
    BY <1>1 DEF Attach
  <2>2. g <= last["writing"] /\ g \notin up["writing"]
    BY <1>1 DEF Left
  <2>3. g \notin up'["writing"]
    BY <1>0, <1>g, <2>1, <2>2 DEF EndsType, Ends
  <2> QED
    BY <1>0, <1>g, <2>2, <2>3 DEF Left
<1>2. ASSUME NEW e \in Ends, LinkClose(e) PROVE up'["writing"] \subseteq up["writing"]
  BY <1>0, <1>2 DEF LinkClose, EndsType, Ends
<1>3. ASSUME NEW e \in Ends, NEW h \in Transports, CloseOld(e, h) \/ CloseEndpoint(e, h)
      PROVE  up'["writing"] \subseteq up["writing"]
  BY <1>0, <1>3 DEF CloseOld, CloseEndpoint, EndsType, Ends
<1>4. (\E e \in Ends : Attach(e)) \/ up'["writing"] \subseteq up["writing"]
  BY <1>2, <1>3 DEF Next, ReverseError, Die, Begin, GiveUp, WriterNext, Snapshot, Recheck, WritePart, WriteError,
                    ReaderNext, ReadSnapshot, ReadPart, ReadError, ReadClosed, endVars
<1>5. dead \subseteq dead'
  BY DEF Next, Attach, LinkClose, ReverseError, CloseOld, CloseEndpoint, Die, Begin, GiveUp, WriterNext, Snapshot, Recheck,
         WritePart, WriteError, ReaderNext, ReadSnapshot, ReadPart, ReadError, ReadClosed
<1>6. ASSUME up'["writing"] \subseteq up["writing"], Left("writing", g) PROVE Left("writing", g)'
  BY <1>0, <1>g, <1>6 DEF Left
<1> QED
  BY <1>1, <1>4, <1>5, <1>6 DEF DeadEnd

(* Nobody owes a payload but by sending the header, and it is owed until it  *)
(* is sent or the transport has ended.                                       *)
LEMMA OwingKept ==
  ASSUME LinkInv, Next, \A w \in Writers : ~WritePart(w), NEW g \in Transports
  PROVE  /\ Owing(g)' => Owing(g)
         /\ Owing(g) => Owing(g)' \/ DeadEnd(g)'
<1>0. WritersType /\ LockInv
  BY TypeParts DEF LinkInv
<1>1. CASE UNCHANGED <<wpc, wgen>>
  BY <1>1 DEF Owing
<1>2. ASSUME NEW w \in Writers, Begin(w) \/ GiveUp(w) \/ Snapshot(w) \/ Recheck(w)
      PROVE  Owing(g)' <=> Owing(g)
  <2>1. /\ wpc[w] # "payload" /\ \E st \in {"idle", "snapshot", "lock", "header"} : wpc' = [wpc EXCEPT ![w] = st]
        /\ wgen' = wgen \/ wgen' = [wgen EXCEPT ![w] = cur["writing"]]
    BY <1>2 DEF Begin, GiveUp, Snapshot, Recheck
  <2>2. \A v \in Writers : (wpc'[v] = "payload" <=> wpc[v] = "payload") /\ (v # w => wgen'[v] = wgen[v])
    BY <1>0, <2>1 DEF WritersType
  <2> QED
    BY <2>1, <2>2 DEF Owing
<1>3. ASSUME NEW w \in Writers, WriteError(w)
      PROVE  ~Owing(g)' /\ (Owing(g) => DeadEnd(g)')
  <2>1. /\ wpc[w] \in Parts /\ Broken(wgen[w]) /\ wpc' = [wpc EXCEPT ![w] = "snapshot"]
        /\ UNCHANGED <<last, up, dead, wgen>>
    BY <1>3 DEF WriteError
  <2>2. \A v \in Writers : v # w => wpc[v] \notin Parts
    BY <1>0, <2>1 DEF LockInv
  <2>3. ~Owing(g)'
    BY <1>0, <2>1, <2>2 DEF Owing, WritersType, Parts
  <2>4. Owing(g) => g = wgen[w]
    BY <2>2 DEF Owing, Parts
  <2>5. wgen[w] <= last["writing"]
    BY <1>0, <2>1 DEF LockInv
  <2>6. Owing(g) => DeadEnd(g)'
    BY <2>1, <2>4, <2>5 DEF DeadEnd, Left, Broken
  <2> QED
    BY <2>3, <2>6
<1> QED
  BY <1>1, <1>2, <1>3
     DEF Next, Attach, LinkClose, ReverseError, CloseOld, CloseEndpoint, Die, WriterNext, ReaderNext, ReadSnapshot, ReadPart,
         ReadError, ReadClosed, writerVars

(* The frame loop goes on with what it reads, or to a successor.             *)
LEMMA LiveKept ==
  ASSUME LinkInv, Next, ~ReadPart
  PROVE  /\ rframe' = rframe /\ received' = received /\ (rpc' = "payload" => rpc = "payload")
         /\ \A g \in Transports : Live(g)' => Live(g) /\ (Half(g)' <=> Half(g))
<1>0. EndsType /\ ReaderType /\ EndInv
  BY TypeParts DEF LinkInv
<1>n. cur["reading"] \in Nat /\ last["reading"] \in Nat /\ rgen \in Nat /\ rgen <= last["reading"]
      /\ cur["reading"] \in {0, last["reading"]}
  BY <1>0, TransportNat DEF EndsType, ReaderType, EndInv, Ends
<1>t. \A g \in Transports : g \in Nat /\ g # 0
  BY TransportNat
<1>1. rframe' = rframe /\ received' = received
  BY DEF Next, Attach, LinkClose, ReverseError, CloseOld, CloseEndpoint, Die, Begin, GiveUp, WriterNext, Snapshot, Recheck,
         WritePart, WriteError, ReaderNext, ReadSnapshot, ReadError, ReadClosed, readerVars
<1>2. CASE UNCHANGED <<rpc, rgen>> /\ cur'["reading"] = cur["reading"]
  BY <1>1, <1>2 DEF Live, Half
<1>3. ASSUME NEW e \in Ends, Attach(e) \/ LinkClose(e) \/ ReverseError(e), cur'["reading"] # cur["reading"]
      PROVE  /\ UNCHANGED <<rpc, rgen>>
             /\ \A g \in Transports : Live(g)' => Live(g) /\ (Half(g)' <=> Half(g))
  <2>1. UNCHANGED <<rpc, rgen>>
    BY <1>3, ReverseEffect DEF Attach, LinkClose, readerVars
  <2>2. cur'["reading"] = 0 \/ cur'["reading"] = last["reading"] + 1
    BY <1>0, <1>3, ReverseEffect DEF Attach, LinkClose, EndsType, Ends
  <2>3. \A g \in Transports : g = rgen => cur'["reading"] # g
    BY <1>n, <1>t, <2>2
  <2> QED
    BY <2>1, <2>3 DEF Live, Half
<1>4. CASE ReadSnapshot
  <2>1. rpc = "snapshot" /\ rpc' = "header" /\ rgen' = cur["reading"] /\ cur["reading"] # 0
        /\ cur' = cur
    BY <1>4 DEF ReadSnapshot, endVars
  <2>2. rgen <= rgen'
    BY <1>n, <2>1
  <2>3. ASSUME NEW g \in Transports, Live(g)' PROVE Live(g)
    <3>1. CASE g > rgen'
      BY <1>n, <1>t, <2>1, <2>2, <3>1 DEF Live
    <3>2. CASE g = rgen'
      BY <1>n, <1>t, <2>1, <2>2, <3>2 DEF Live
    <3> QED
      BY <2>3, <3>1, <3>2 DEF Live
  <2> QED
    BY <1>1, <2>1, <2>3 DEF Half
<1>5. CASE ReadError
  <2>1. /\ rpc \in Parts /\ rpc' = "snapshot" /\ rgen' = rgen
        /\ cur' = IF cur["reading"] = rgen THEN [cur EXCEPT !["reading"] = 0] ELSE cur
    BY <1>5 DEF ReadError, DetachIfCurrent
  <2>2. rgen \in Transports /\ cur'["reading"] # rgen
    BY <1>0, <1>t, <2>1 DEF EndInv, EndsType, Ends
  <2>3. \A g \in Transports : Live(g)' => g > rgen /\ g # rgen
    BY <1>n, <1>t, <2>1, <2>2 DEF Live, Parts
  <2> QED
    BY <1>1, <2>1, <2>3 DEF Live, Half
<1>6. CASE ReadClosed
  <2>1. rpc = "snapshot" /\ rpc' = "closed" /\ UNCHANGED <<rgen, cur>>
    BY <1>6 DEF ReadClosed, endVars
  <2> QED
    BY <1>1, <2>1 DEF Live, Half, Parts
<1>7. \/ UNCHANGED <<rpc, rgen>> /\ cur'["reading"] = cur["reading"]
      \/ \E e \in Ends : (Attach(e) \/ LinkClose(e) \/ ReverseError(e)) /\ cur'["reading"] # cur["reading"]
      \/ ReadSnapshot \/ ReadError \/ ReadClosed
  <2>1. ASSUME NEW w \in Writers, WriteError(w) PROVE UNCHANGED <<rpc, rgen>> /\ cur'["reading"] = cur["reading"]
    BY <1>0, <2>1 DEF WriteError, DetachIfCurrent, readerVars, EndsType, Ends
  <2>2. ASSUME NEW e \in Ends, Attach(e) \/ LinkClose(e) \/ ReverseError(e) PROVE UNCHANGED <<rpc, rgen>>
    BY <2>2, ReverseEffect DEF Attach, LinkClose, readerVars
  <2> QED
    BY <2>1, <2>2 DEF Next, CloseOld, CloseEndpoint, Die, Begin, GiveUp, WriterNext, Snapshot, Recheck, WritePart,
                      ReaderNext, readerVars, endVars
<1> QED
  BY <1>1, <1>2, <1>3, <1>4, <1>5, <1>6, <1>7

(* Every step keeps what the frame loop finds in order. *)
LEMMA ReadStep ==
  ASSUME LinkInv, LinkInv', Numbered, ReadInv, Next
  PROVE  ReadInv'
<1>0. PipesType
  BY TypeParts DEF LinkInv
<1>1. CASE \E w \in Writers : WritePart(w)
  BY <1>1, ReadInvWrite
<1>2. CASE ReadPart
  BY <1>2, ReadInvRead
<1>3. CASE ~ReadPart /\ \A w \in Writers : ~WritePart(w)
  <2>1. written' = written
    BY <1>3 DEF Next, Attach, LinkClose, ReverseError, CloseOld, CloseEndpoint, Die, Begin, GiveUp, WriterNext, Snapshot, Recheck,
                WriteError, ReaderNext, ReadSnapshot, ReadPart, ReadError, ReadClosed, writerVars
  <2>2. ASSUME NEW g \in Transports
        PROVE  /\ pipe'[g] = pipe[g] \/ DeadEnd(g)'
               /\ Len(pipe'[g]) <= Len(pipe[g]) /\ \A k \in 1..Len(pipe'[g]) : pipe'[g][k] = pipe[g][k]
    <3>1. CASE pipe'[g] = pipe[g]
      BY <1>0, <3>1 DEF PipesType
    <3>2. ASSUME NEW h \in Transports, Die(h), pipe'[g] # pipe[g]
          PROVE  /\ DeadEnd(g)'
                 /\ Len(pipe'[g]) <= Len(pipe[g]) /\ \A k \in 1..Len(pipe'[g]) : pipe'[g][k] = pipe[g][k]
      <4>1. g = h
        BY <3>2, DieEffect
      <4> QED
        BY <3>2, <4>1, DieEffect DEF DeadEnd
    <3> QED
      BY <1>3, <3>1, <3>2, PipeSteps
  <2>3. \A g \in Transports : /\ DeadEnd(g) => DeadEnd(g)'
                              /\ Owing(g)' => Owing(g)
                              /\ Owing(g) => Owing(g)' \/ DeadEnd(g)'
    BY <1>3, DeadEndStays, OwingKept
  <2>4. /\ rframe' = rframe /\ received' = received /\ (rpc' = "payload" => rpc = "payload")
        /\ \A g \in Transports : Live(g)' => Live(g) /\ (Half(g)' <=> Half(g))
    BY <1>3, LiveKept
  <2> QED
    BY <2>1, <2>2, <2>3, <2>4, ReadKept
<1> QED
  BY <1>1, <1>2, <1>3

(* The whole inductive invariant. *)
FrameInv == LinkInv /\ Ahead /\ Numbered /\ ReadInv

(* Nothing is written or read at first. *)
LEMMA FrameInit == Init => FrameInv
<1> SUFFICES ASSUME Init PROVE FrameInv
  OBVIOUS
<1>1. /\ pipe = [g \in Transports |-> <<>>] /\ received = <<>> /\ rpc = "snapshot" /\ rgen = 0
      /\ wpc = [w \in Writers |-> "idle"] /\ cur = [e \in Ends |-> 0]
  BY DEF Init
<1>2. \A g \in Transports : pipe[g] = <<>> /\ ~Half(g) /\ ~Owing(g)
  BY <1>1 DEF Half, Owing
<1>3. Ahead /\ Numbered
  BY <1>2 DEF Ahead, Numbered
<1>4. Older
  BY <1>1 DEF Older
<1>5. \A g \in Transports : Framed(g)
  BY <1>2 DEF Framed, Starts, Pairs, Settled, Owed, Dangling
<1> QED
  BY <1>3, <1>4, <1>5, LinkInit DEF FrameInv, ReadInv

(* Every step keeps the buffers and the frame loop in order. *)
LEMMA FrameStep == FrameInv /\ [Next]_vars => FrameInv'
<1> SUFFICES ASSUME FrameInv, [Next]_vars PROVE FrameInv'
  OBVIOUS
<1>1. LinkInv'
  BY LinkStep DEF FrameInv
<1>2. CASE Next
  BY <1>1, <1>2, AheadStep, NumberedStep, ReadStep DEF FrameInv
<1>3. CASE UNCHANGED vars
  <2>1. Ahead' /\ Numbered'
    BY <1>3 DEF FrameInv, Ahead, Numbered, Whole, vars, endVars, writerVars
  <2>2. \A g \in Transports : (Live(g)' <=> Live(g)) /\ (Half(g)' <=> Half(g)) /\ (DeadEnd(g)' <=> DeadEnd(g))
                              /\ (Owing(g)' <=> Owing(g)) /\ pipe'[g] = pipe[g]
    BY <1>3 DEF Live, Half, DeadEnd, Left, Owing, vars, endVars, writerVars, readerVars
  <2>3. Older'
    BY <1>3, <2>2 DEF FrameInv, ReadInv, Older, vars, writerVars, readerVars
  <2>4. ASSUME NEW g \in Transports, Live(g)' PROVE Framed(g)'
    <3>1. Framed(g)
      BY <2>2, <2>4 DEF FrameInv, ReadInv
    <3>2. Starts(g)' /\ Pairs(g)'
      BY <1>3, <2>2, <3>1 DEF Framed, Starts, Pairs, Whole, vars, readerVars
    <3>3. \A f : Dangling(g, f)' <=> Dangling(g, f)
      BY <1>3, <2>2 DEF Dangling, vars, readerVars
    <3>4. Settled(g)' /\ Owed(g)'
      BY <1>3, <2>2, <3>1, <3>3 DEF Framed, Settled, Owed, vars, writerVars
    <3> QED
      BY <3>2, <3>4 DEF Framed
  <2> QED
    BY <1>1, <2>1, <2>3, <2>4 DEF FrameInv, ReadInv
<1> QED
  BY <1>2, <1>3

(* The invariant of a frame direction holds. *)
THEOREM FrameInvHolds == Spec => []FrameInv
BY FrameInit, FrameStep, PTL DEF Spec

(* ReadFrame never combines bytes of two frames or of two transports, and    *)
(* returns the frames in the order they were written and once each, for      *)
(* every number of competing writers, replacements and retries.              *)
THEOREM ReadsIntact == Spec => []FramesIntact
<1>1. FrameInv => FramesIntact
  <2> SUFFICES ASSUME FrameInv PROVE FramesIntact
    OBVIOUS
  <2>0. PipesType /\ EndInv /\ received \in Seq(Nat)
    BY TypeParts DEF FrameInv, LinkInv, ReaderType
  <2>1. ASSUME rpc \in Parts, pipe[rgen] # <<>>
        PROVE  Head(pipe[rgen]).part = rpc /\ (rpc = "payload" => Head(pipe[rgen]).frame = rframe)
    <3>1. rgen \in Transports
      BY <2>0, <2>1 DEF EndInv
    <3>2. Starts(rgen)
      BY <2>1, <3>1 DEF FrameInv, ReadInv, Live, Framed
    <3>3. Head(pipe[rgen]) = pipe[rgen][1]
      BY <2>0, <2>1, <3>1, PipeEntry
    <3> QED
      BY <2>1, <3>2, <3>3 DEF Starts, Half, Parts
  <2>2. ASSUME NEW i \in 1..Len(received) - 1 PROVE received[i] < received[i + 1]
    <3>1. i \in 1..Len(received) /\ i + 1 \in 1..Len(received)
      BY <2>0
    <3> QED
      BY <3>1 DEF FrameInv, ReadInv, Older
  <2> QED
    BY <2>1, <2>2 DEF FramesIntact
<1> QED
  BY <1>1, FrameInvHolds, PTL

-----------------------------------------------------------------------------
(* AutoForward over RelaySession: the inductive invariant, in layers. *)

(* The watcher: a mapping is of its own port and nobody opens a port that is *)
(* mapped; openOne holds a listener exactly from its reservation on; only    *)
(* sync's close phase and Reset hold mappings to close.                      *)
NoListener == {"idle", "dial", "failed", "reject"}
MapInv(k) ==
    /\ active[k] # NoId => PortOf(active[k]) = k /\ worker[k] = "idle"
    /\ active[k] # NoId /\ loop # "tick" => of[k] = desired[k]
OpenInv(k) ==
    /\ wid[k] = NoId <=> worker[k] \in NoListener
    /\ wid[k] # NoId => PortOf(wid[k]) = k
    /\ loop \in {"tick", "close", "begin"} \/ k \in todo => worker[k] = "idle"
    /\ gen[k] <= generation
CloseInv ==
    /\ loop # "close" => removed = {}
    /\ sess \notin {"cancel", "close"} => doomed = {}
    /\ \A i \in removed \cup doomed :
          PortOf(i) \in Keys /\ \A k \in Keys : i # active[k] /\ i # wid[k]
WatchInv == (\A k \in Keys : MapInv(k) /\ OpenInv(k)) /\ CloseInv

(* The frames of a channel. *)
Sent(ch) == {ch[n] : n \in 1 .. Len(ch)}

(* The session: every Reset answers a broker of its own; before the first    *)
(* registration there is nothing to lose; nothing is under way on a Link     *)
(* that is down.                                                             *)
Fresh == ~inited /\ sess \in {"idle", "hello"}
SessionInv ==
    /\ peer <= broker
    /\ inited \/ sess \notin {"idle", "hello", "ended"} => peer >= 1
    /\ generation = 0 \/ generation + 1 <= peer
    /\ sess \in {"invalidate", "clear", "hook"} => generation + 2 <= peer
    /\ sess \in {"ready", "invalidate", "clear", "hook", "cancel", "close"} => inited
    /\ sess \in {"clear", "hook", "cancel", "close", "set", "register"} => static = NoId
    /\ static # NoId => PortOf(static) = Static
    /\ sess \in {"write", "wait", "commit"} => static \in registered
    /\ Fresh => /\ ~dialer /\ static = NoId /\ registered = {}
                /\ \A k \in Keys : active[k] = NoId /\ wid[k] = NoId
    /\ link = "down" => c2s = <<>> /\ s2c = <<>>
    /\ \A f \in Sent(s2c) : f.type \in {"ok", "err", "unlisten"}

(* What the client knows of is in somebody's hands. *)
Watched(i) == PortOf(i) \in Keys
HandsInv ==
    /\ registered \subseteq Held
    /\ \A i \in Ids : ready[i] # "none" /\ Watched(i) => i \in Held

(* A frame that is in a channel at most once; a LISTEN_OPEN with a           *)
(* LISTEN_CLOSE behind it.                                                   *)
Once(ch, f) == \A m, n \in 1 .. Len(ch) : ch[m] = f /\ ch[n] = f => m = n
Followed(ch, i) ==
    \A m \in 1 .. Len(ch) : ch[m] = Frame("listen", i) =>
        \E n \in 1 .. Len(ch) : m < n /\ ch[n] = Frame("unlisten", i)

(* A registered listener: what is on the wire, or in the hands of its        *)
(* goroutine, agrees with what is bound.                                     *)
BoundTo(i) == bound[i] # "none"
Stale == broker # peer \/ sess = "invalidate"
Opening(i) == pending[i] = "open"
Asked(i) == Frame("listen", i) \in Sent(c2s)
Answers(t, i) == Frame(t, i) \in Sent(s2c) \/ pending[i] = t
Kept(i) == BoundTo(i) \/ i \in failed
Agreed(i) ==
    /\ Frame("unlisten", i) \notin Sent(c2s)
    /\ Asked(i) \/ Opening(i) => ~BoundTo(i)
    /\ Opening(i) => ~Asked(i)
    /\ Answers("ok", i) => Kept(i)
    /\ ready[i] = "ok" => Kept(i) \/ Stale
    /\ ready[i] = "err" \/ Answers("err", i) => ~BoundTo(i) /\ ~Asked(i) /\ ~Opening(i)
(* A listener whose LISTEN_OPEN is still to be written. *)
Unasked(i) ==
    /\ ~Asked(i)
    /\ i \in registered \cup severed
    /\ i \in registered => /\ ~BoundTo(i) /\ ready[i] = "none" /\ pending[i] = "none"
                           /\ Frame("ok", i) \notin Sent(s2c) /\ Frame("err", i) \notin Sent(s2c)
(* A listener the client has given up: its LISTEN_OPEN, or the goroutine     *)
(* that has begun with it, has a LISTEN_CLOSE behind it or is known to have  *)
(* missed it.                                                                *)
Abandoned(i) ==
    /\ Followed(c2s, i)
    /\ Opening(i) => i \in lost \cup overtaken \/ Frame("unlisten", i) \in Sent(c2s)
WireInv ==
    /\ \A i \in Ids : Watched(i) => Once(c2s, Frame("listen", i))
    /\ \A i \in registered : Watched(i) => Agreed(i)
    /\ \A k \in Keys : worker[k] = "write" => Unasked(wid[k])
    /\ \A i \in Ids : i \in registered \cup severed \/ Abandoned(i)

(* openOne of the current generation: its listener is what it believes it is,*)
(* or a Reset will tell it.                                                  *)
Believes(k) ==
    gen[k] = generation =>
        /\ worker[k] \in {"write", "wait"} => wid[k] \in registered \/ ResetPending
        /\ worker[k] \in {"commit", "opened", "restore", "publish"} =>
              (wid[k] \in registered /\ Kept(wid[k])) \/ ResetPending
OpenersInv == \A k \in Keys : Believes(k)

RelayInv ==
    WatchTypeOK /\ WatchInv /\ SessionInv /\ HandsInv /\ WireInv /\ OpenersInv
    /\ ActiveIsLive /\ ListenersOwned

-----------------------------------------------------------------------------
(* Channels. *)

(* What writing a frame does to a channel. *)
LEMMA SentAppend ==
    ASSUME NEW ch \in Seq(Frames), NEW f \in Frames
    PROVE  /\ Append(ch, f) \in Seq(Frames)
           /\ Sent(Append(ch, f)) = Sent(ch) \cup {f}
           /\ \A g : g # f /\ Once(ch, g) => Once(Append(ch, f), g)
           /\ f \notin Sent(ch) => Once(Append(ch, f), f)
<1> DEFINE cx == Append(ch, f)
<1>1. cx \in Seq(Frames) /\ Len(cx) = Len(ch) + 1 /\ Len(ch) \in Nat /\ cx[Len(ch) + 1] = f
      /\ \A n \in 1 .. Len(ch) : cx[n] = ch[n]
  OBVIOUS
<1>2. \A n \in 1 .. Len(cx) : n \in 1 .. Len(ch) \/ n = Len(ch) + 1
  BY <1>1
<1>3. 1 .. Len(ch) \subseteq 1 .. Len(cx) /\ Len(ch) + 1 \in 1 .. Len(cx)
  BY <1>1
<1> HIDE DEF cx
<1>4. Sent(cx) = Sent(ch) \cup {f}
  BY <1>1, <1>2, <1>3 DEF Sent
<1>5. \A g : g # f /\ Once(ch, g) => Once(cx, g)
  BY <1>1, <1>2, <1>3 DEF Once
<1>6. f \notin Sent(ch) => Once(cx, f)
  BY <1>1, <1>2, <1>3 DEF Once, Sent
<1>7. QED
  BY <1>1, <1>4, <1>5, <1>6 DEF cx

(* What it does to the pairs of LISTEN_OPEN and LISTEN_CLOSE. *)
LEMMA FollowedAppend ==
    ASSUME NEW ch \in Seq(Frames), NEW f \in Frames, NEW i \in Ids
    PROVE  /\ f # Frame("listen", i) /\ Followed(ch, i) => Followed(Append(ch, f), i)
           /\ f = Frame("unlisten", i) => Followed(Append(ch, f), i)
<1> DEFINE cx == Append(ch, f)
<1>1. Len(cx) = Len(ch) + 1 /\ Len(ch) \in Nat /\ cx[Len(ch) + 1] = f
      /\ \A n \in 1 .. Len(ch) : cx[n] = ch[n]
  OBVIOUS
<1>2. \A n \in 1 .. Len(cx) : n \in 1 .. Len(ch) \/ n = Len(ch) + 1
  BY <1>1
<1>3. 1 .. Len(ch) \subseteq 1 .. Len(cx) /\ Len(ch) + 1 \in 1 .. Len(cx)
      /\ \A n \in 1 .. Len(ch) : n < Len(ch) + 1
  BY <1>1
<1> HIDE DEF cx
<1>4. f # Frame("listen", i) /\ Followed(ch, i) => Followed(cx, i)
  <2> SUFFICES ASSUME f # Frame("listen", i), Followed(ch, i),
                      NEW m \in 1 .. Len(cx), cx[m] = Frame("listen", i)
               PROVE  \E n \in 1 .. Len(cx) : m < n /\ cx[n] = Frame("unlisten", i)
    BY DEF Followed
  <2>1. m \in 1 .. Len(ch) /\ ch[m] = Frame("listen", i)
    BY <1>1, <1>2
  <2>2. PICK n \in 1 .. Len(ch) : m < n /\ ch[n] = Frame("unlisten", i)
    BY <2>1 DEF Followed
  <2>3. QED
    BY <2>2, <1>1, <1>3
<1>5. f = Frame("unlisten", i) => Followed(cx, i)
  <2> SUFFICES ASSUME f = Frame("unlisten", i),
                      NEW m \in 1 .. Len(cx), cx[m] = Frame("listen", i)
               PROVE  \E n \in 1 .. Len(cx) : m < n /\ cx[n] = Frame("unlisten", i)
    BY DEF Followed
  <2>1. m # Len(ch) + 1
    BY <1>1 DEF Frame
  <2>2. QED
    BY <2>1, <1>1, <1>2, <1>3
<1>6. QED
  BY <1>4, <1>5 DEF cx

(* What taking the first frame from a channel does to it. *)
LEMMA SentTail ==
    ASSUME NEW ch \in Seq(Frames), ch # <<>>
    PROVE  /\ Tail(ch) \in Seq(Frames) /\ Head(ch) \in Frames /\ Head(ch) \in Sent(ch)
           /\ Sent(Tail(ch)) \subseteq Sent(ch)
           /\ Sent(ch) \subseteq Sent(Tail(ch)) \cup {Head(ch)}
           /\ \A g : Once(ch, g) => Once(Tail(ch), g)
           /\ Once(ch, Head(ch)) => Head(ch) \notin Sent(Tail(ch))
<1> DEFINE cx == Tail(ch)
<1>1. cx \in Seq(Frames) /\ Len(cx) = Len(ch) - 1 /\ Len(ch) \in Nat /\ Len(ch) >= 1
      /\ Head(ch) = ch[1]
      /\ \A n \in 1 .. Len(cx) : cx[n] = ch[n + 1]
  OBVIOUS
<1>2. /\ 1 \in 1 .. Len(ch)
      /\ \A n \in 1 .. Len(cx) : n + 1 \in 1 .. Len(ch) /\ n + 1 # 1
      /\ \A m, n \in 1 .. Len(cx) : m + 1 = n + 1 => m = n
      /\ \A n \in 1 .. Len(ch) : n = 1 \/ (n - 1 \in 1 .. Len(cx) /\ (n - 1) + 1 = n)
  BY <1>1
<1> HIDE DEF cx
<1>3. ch[1] \in Frames
  BY <1>1
<1>4. ch[1] \in Sent(ch) /\ Sent(cx) \subseteq Sent(ch)
  BY <1>1, <1>2 DEF Sent
<1>8. Sent(ch) \subseteq Sent(cx) \cup {ch[1]}
  <2> SUFFICES ASSUME NEW n \in 1 .. Len(ch), n # 1
               PROVE  ch[n] \in Sent(cx)
    BY DEF Sent
  <2>1. n - 1 \in 1 .. Len(cx) /\ cx[n - 1] = ch[n]
    BY <1>1, <1>2
  <2>2. QED
    BY <2>1 DEF Sent
<1>5. \A g : Once(ch, g) => Once(cx, g)
  BY <1>1, <1>2 DEF Once
<1>6. Once(ch, ch[1]) => ch[1] \notin Sent(cx)
  BY <1>1, <1>2 DEF Once, Sent
<1>7. QED
  BY <1>1, <1>3, <1>4, <1>5, <1>6, <1>8 DEF cx

(* And to the pairs of LISTEN_OPEN and LISTEN_CLOSE. *)
LEMMA FollowedTail ==
    ASSUME NEW ch \in Seq(Frames), ch # <<>>, NEW i \in Ids, Followed(ch, i)
    PROVE  /\ Followed(Tail(ch), i)
           /\ Head(ch) = Frame("listen", i) => Frame("unlisten", i) \in Sent(Tail(ch))
<1> DEFINE cx == Tail(ch)
<1>1. Len(cx) = Len(ch) - 1 /\ Len(ch) \in Nat /\ Len(ch) >= 1 /\ Head(ch) = ch[1]
      /\ \A n \in 1 .. Len(cx) : cx[n] = ch[n + 1]
  OBVIOUS
<1>2. \A m \in Nat, n \in 1 .. Len(ch) : m < n /\ m >= 1 =>
          /\ n - 1 \in 1 .. Len(cx) /\ (n - 1) + 1 = n
          /\ m - 1 < n - 1
  BY <1>1
<1> HIDE DEF cx
<1>3. \A n \in 1 .. Len(ch) : n > 1 => n - 1 \in 1 .. Len(cx) /\ cx[n - 1] = ch[n]
  BY <1>1, <1>2
<1>4. Followed(cx, i)
  <2> SUFFICES ASSUME NEW m \in 1 .. Len(cx), cx[m] = Frame("listen", i)
               PROVE  \E n \in 1 .. Len(cx) : m < n /\ cx[n] = Frame("unlisten", i)
    BY DEF Followed
  <2>1. m + 1 \in 1 .. Len(ch) /\ ch[m + 1] = Frame("listen", i)
    BY <1>1
  <2>2. PICK n \in 1 .. Len(ch) : m + 1 < n /\ ch[n] = Frame("unlisten", i)
    BY <2>1 DEF Followed
  <2>3. n - 1 \in 1 .. Len(cx) /\ m < n - 1 /\ cx[n - 1] = Frame("unlisten", i)
    BY <2>2, <1>1, <1>3
  <2>4. QED
    BY <2>3
<1>5. ASSUME ch[1] = Frame("listen", i)
      PROVE  Frame("unlisten", i) \in Sent(cx)
  <2>1. PICK n \in 1 .. Len(ch) : 1 < n /\ ch[n] = Frame("unlisten", i)
    BY <1>1, <1>5 DEF Followed
  <2>2. n - 1 \in 1 .. Len(cx) /\ cx[n - 1] = Frame("unlisten", i)
    BY <2>1, <1>3
  <2>3. QED
    BY <2>2 DEF Sent
<1>6. QED
  BY <1>1, <1>4, <1>5 DEF cx

(* Empty channels, channels without a LISTEN_OPEN, and ids in flight. *)
LEMMA SentOther ==
    /\ Sent(<<>>) = {}
    /\ \A f : Once(<<>>, f)
    /\ \A i : Followed(<<>>, i)
    /\ \A ch, i : Frame("listen", i) \notin Sent(ch) => Followed(ch, i)
    /\ \A ch, f : f \in Sent(ch) => f.id \in InFlight(ch)
<1>1. Len(<<>>) = 0 /\ 1 .. 0 = {}
  OBVIOUS
<1>2. Sent(<<>>) = {} /\ (\A f : Once(<<>>, f)) /\ \A i : Followed(<<>>, i)
  BY <1>1 DEF Sent, Once, Followed
<1>3. \A ch, i : Frame("listen", i) \notin Sent(ch) => Followed(ch, i)
  BY DEF Sent, Followed
<1>4. \A ch, f : f \in Sent(ch) => f.id \in InFlight(ch)
  BY DEF Sent, InFlight
<1>5. QED
  BY <1>2, <1>3, <1>4

(* A frame is its type and its listener. *)
LEMMA FrameFacts ==
    /\ \A i \in Ids : \A t \in {"listen", "commit", "unlisten", "ok", "err"} :
          Frame(t, i) \in Frames /\ Frame(t, i).id = i /\ Frame(t, i).type = t
    /\ \A f \in Frames : f = Frame(f.type, f.id) /\ f.id \in Ids
    /\ \A s, t, i, j : Frame(s, i) = Frame(t, j) <=> s = t /\ i = j
  BY DEF Frame, Frames

-----------------------------------------------------------------------------
(* Names of listeners. *)

(* A name is a port's, and NoId is none. *)
LEMMA IdFacts == NoId \notin Ids /\ \A i \in Ids : PortOf(i) \in Keys \cup {Static}
<1>1. \A i \in Ids : i \in (Keys \cup {Static}) \X (1 .. PerPort)
  BY DEF Ids
<1>2. \A i \in (Keys \cup {Static}) \X (1 .. PerPort) :
          i[1] \in Keys \cup {Static} /\ i = <<i[1], i[2]>>
  OBVIOUS
<1>3. \A i \in Ids : Len(i) = 2
  BY <1>1, <1>2
<1>4. Len(<<>>) = 0
  OBVIOUS
<1>5. QED
  BY <1>1, <1>2, <1>3, <1>4 DEF NoId, PortOf

(* The name NewId chooses is a free one. *)
LEMMA NewIdFree ==
    ASSUME NEW p, NEW held, FreeIds(p, held) # {}
    PROVE  /\ NewId(p, held) \in Ids /\ PortOf(NewId(p, held)) = p
           /\ bound[NewId(p, held)] = "none" /\ pending[NewId(p, held)] = "none"
           /\ NewId(p, held) \notin held \cup registered \cup InFlight(c2s) \cup InFlight(s2c)
<1> DEFINE F == FreeIds(p, held)
           N == {i[2] : i \in F}
<1>1. F \subseteq Ids
  BY DEF FreeIds
<1>2. \A i \in Ids : i[2] \in 1 .. PerPort
  BY DEF Ids
<1>3. N \subseteq Nat /\ N # {}
  BY <1>1, <1>2, SessionAssumption
<1>4. PICK n \in N : \A m \in N : ~(m < n)
  <2>1. PICK n \in N : \A m \in N : <<m, n>> \notin OpToRel(<, Nat)
    BY <1>3, NatLessThanWellFounded, WFMin
  <2>2. QED
    BY <2>1, <1>3 DEF OpToRel
<1>5. PICK i \in F : i[2] = n
  BY <1>4
<1>6. \A j \in F : i[2] <= j[2]
  <2> SUFFICES ASSUME NEW j \in F
               PROVE  i[2] <= j[2]
    OBVIOUS
  <2>1. j[2] \in N
    OBVIOUS
  <2>2. j[2] \in Nat /\ n \in Nat /\ ~(j[2] < n)
    BY <2>1, <1>3, <1>4
  <2>3. QED
    BY <2>2, <1>5
<1>7. NewId(p, held) \in F
  BY <1>5, <1>6 DEF NewId
<1>8. QED
  BY <1>7 DEF FreeIds

-----------------------------------------------------------------------------
(* Types. *)

(* An opener that holds a listener, the configured mapping while it is being *)
(* registered, and what is to be closed, are names of listeners.             *)
LEMMA NamesHeld ==
    ASSUME WatchTypeOK, WatchInv, SessionInv
    PROVE  /\ \A k \in Keys : worker[k] \notin NoListener => wid[k] \in Ids
           /\ sess \in {"write", "wait", "commit"} => static \in Ids
           /\ removed \cup doomed \subseteq Ids
<1>1. \A k \in Keys : worker[k] \notin NoListener => wid[k] \in Ids
  BY DEF WatchTypeOK, WatchInv, OpenInv
<1>2. sess \in {"write", "wait", "commit"} => static \in Ids
  BY DEF WatchTypeOK, SessionTypeOK, SessionInv
<1>3. removed \cup doomed \subseteq Ids
  BY DEF WatchTypeOK
<1>4. QED
  BY <1>1, <1>2, <1>3

(* clientListener.Close. *)
LEMMA CloseTypes ==
    ASSUME WatchTypeOK, NEW j \in Ids, CloseListener(j)
    PROVE  /\ registered' = registered \ {j} /\ ready' \in [Ids -> {"none", "ok", "err"}]
           /\ c2s' \in Seq(Frames) /\ lost' \in SUBSET Ids
<1>1. c2s' = c2s \/ c2s' = Append(c2s, Frame("unlisten", j))
  BY DEF CloseListener
<1>2. c2s' \in Seq(Frames)
  <2>1. Frame("unlisten", j) \in Frames
    BY FrameFacts
  <2>2. c2s \in Seq(Frames)
    BY DEF WatchTypeOK, SessionTypeOK
  <2>3. QED
    BY <1>1, <2>1, <2>2, SentAppend
<1>3. lost' \in SUBSET Ids
  BY DEF CloseListener, WatchTypeOK, SessionTypeOK
<1>4. registered' = registered \ {j} /\ ready' \in [Ids -> {"none", "ok", "err"}]
  BY DEF CloseListener, WatchTypeOK, SessionTypeOK
<1>5. QED
  BY <1>2, <1>3, <1>4

(* ReserveReverseForward under a new name. *)
LEMMA ReserveTypes ==
    ASSUME WatchTypeOK, NEW j \in Ids, Reserve(j)
    PROVE  registered' \in SUBSET Ids /\ severed' \in SUBSET Ids /\ failed' \in SUBSET Ids
           /\ lost' \in SUBSET Ids /\ overtaken' \in SUBSET Ids
  BY DEF Reserve, WatchTypeOK, SessionTypeOK

(* Client.write of a frame of a listener. *)
LEMMA WriteTypes ==
    ASSUME WatchTypeOK, NEW j \in Ids, NEW t \in {"listen", "commit", "unlisten"}, WriteFrame(t, j)
    PROVE  c2s' \in Seq(Frames)
<1>1. Frame(t, j) \in Frames
  BY FrameFacts
<1>2. QED
  BY <1>1, SentAppend DEF WriteFrame, WatchTypeOK, SessionTypeOK

(* Server.send in the goroutine of a listener: the frame is sent or kept.    *)
LEMMA SendEffect ==
    ASSUME WatchTypeOK, NEW j \in Ids, NEW t \in {"ok", "err", "unlisten"}, Send(t, j)
    PROVE  /\ s2c' \in Seq(Frames)
           /\ pending' \in [Ids -> {"none", "open", "ok", "err", "unlisten"}]
           /\ link = "down" => s2c' = s2c
           /\ pending'[j] \in {"none", t}
           /\ \A i \in Ids : i # j => pending'[i] = pending[i]
           /\ \A f \in Sent(s2c') : f \in Sent(s2c) \/ f = Frame(t, j)
<1>1. pending \in [Ids -> {"none", "open", "ok", "err", "unlisten"}] /\ s2c \in Seq(Frames)
      /\ link \in {"up", "down"}
  BY DEF WatchTypeOK, SessionTypeOK
<1>2. Frame(t, j) \in Frames
  BY FrameFacts
<1>3. CASE link = "up"
  <2>1. s2c' = Append(s2c, Frame(t, j)) /\ pending' = [pending EXCEPT ![j] = "none"]
    BY <1>3 DEF Send
  <2>2. s2c' \in Seq(Frames) /\ Sent(s2c') = Sent(s2c) \cup {Frame(t, j)}
    BY <1>1, <1>2, <2>1, SentAppend
  <2>3. QED
    BY <1>1, <1>3, <2>1, <2>2
<1>4. CASE link = "down"
  <2>1. s2c' = s2c /\ pending' = [pending EXCEPT ![j] = t]
    BY <1>4 DEF Send
  <2>2. QED
    BY <1>1, <2>1
<1>5. QED
  BY <1>1, <1>3, <1>4

(* runPersistentConnector and registerMappings keep the types. *)
LEMMA SessionTypes ==
    ASSUME WatchTypeOK, WatchInv, SessionInv, SessionStep(Held), UNCHANGED watchVars
    PROVE  WatchTypeOK'
<1> USE DEF sessionVars, clientVars, wireVars, loopVars, ghostVars,
            watchVars, mapVars, attemptVars, workerVars
<1> SUFFICES SessionTypeOK'
  BY DEF WatchTypeOK
<1>1. CASE AttachConnector \/ HelloFails \/ ClearClient \/ SetClient \/ Noticed
  BY <1>1 DEF AttachConnector, HelloFails, ClearClient, SetClient, Noticed, WatchTypeOK, SessionTypeOK
<1>2. CASE HelloOK
  <2>1. broker \in 0 .. MaxRestarts + 1
    BY SessionAssumption DEF WatchTypeOK, SessionTypeOK
  <2>2. QED
    BY <1>2, <2>1 DEF HelloOK, WatchTypeOK, SessionTypeOK
<1>3. CASE Invalidate
  BY <1>3 DEF Invalidate, WatchTypeOK, SessionTypeOK
<1>4. CASE Register(Held)
  <2>1. static' \in Ids
    BY <1>4, NewIdFree DEF Register
  <2>2. registered' \in SUBSET Ids /\ severed' \in SUBSET Ids /\ failed' \in SUBSET Ids
        /\ lost' \in SUBSET Ids /\ overtaken' \in SUBSET Ids
    BY <1>4, <2>1 DEF Register, Reserve, WatchTypeOK, SessionTypeOK
  <2>3. QED
    BY <1>4, <2>1, <2>2 DEF Register, Reserve, WatchTypeOK, SessionTypeOK
<1>5. CASE RegisterWrite \/ RegisterCommit
  <2>1. static \in Ids
    BY <1>5, NamesHeld DEF RegisterWrite, RegisterCommit
  <2>2. c2s' \in Seq(Frames)
    BY <1>5, <2>1, WriteTypes DEF RegisterWrite, RegisterCommit
  <2>3. QED
    BY <1>5, <2>2 DEF RegisterWrite, RegisterCommit, WatchTypeOK, SessionTypeOK
<1>6. CASE RegisterAnswer
  BY <1>6 DEF RegisterAnswer, WatchTypeOK, SessionTypeOK
<1>7. QED
  BY <1>1, <1>2, <1>3, <1>4, <1>5, <1>6 DEF SessionStep

(* A step of the goroutine of a listener: it opens it, is refused the port,  *)
(* sends what it had to send, or ends because Accept failed.                 *)
ListenerStep(j) == RunListener(j) \/ (AcceptFails(j) /\ UNCHANGED watchVars)
Sends(t, j) ==
    /\ pending'[j] \in {"none", t}
    /\ \A f \in Sent(s2c') : f \in Sent(s2c) \/ f = Frame(t, j)
Opens(j) ==
    /\ pending[j] = "open" /\ bound'[j] = "bound" /\ Sends("ok", j)
    /\ lost' = lost /\ overtaken' = overtaken /\ failed' = failed
Refused(j) ==
    /\ pending[j] = "open" /\ bound'[j] = bound[j] /\ Sends("err", j)
    /\ lost' = lost /\ overtaken' = overtaken /\ failed' = failed
Resends(j) ==
    /\ pending[j] \in {"ok", "err", "unlisten"} /\ bound'[j] = bound[j] /\ Sends(pending[j], j)
    /\ lost' = lost /\ overtaken' = overtaken /\ failed' = failed
Fails(j) ==
    /\ pending[j] = "none" /\ bound[j] # "none" /\ bound'[j] = "none" /\ Sends("unlisten", j)
    /\ failed' = failed \cup {j}
LEMMA ListenerEffect ==
    ASSUME WatchTypeOK, NEW j \in Ids, ListenerStep(j)
    PROVE  /\ UNCHANGED <<broker, link, c2s, registered, ready, severed, loopVars, watchVars>>
           /\ s2c' \in Seq(Frames)
           /\ pending' \in [Ids -> {"none", "open", "ok", "err", "unlisten"}]
           /\ link = "down" => s2c' = s2c
           /\ \A i \in Ids : i # j => pending'[i] = pending[i] /\ bound'[i] = bound[i]
           /\ lost \ {j} \subseteq lost' /\ lost' \subseteq lost
           /\ overtaken \ {j} \subseteq overtaken' /\ overtaken' \subseteq overtaken
           /\ Opens(j) \/ Refused(j) \/ Resends(j) \/ Fails(j)
<1> USE DEF sessionVars, clientVars, wireVars, loopVars, ghostVars
<1>1. bound \in [Ids -> {"none", "bound", "serving"}]
  BY DEF WatchTypeOK, SessionTypeOK
<1>2. ASSUME NEW t \in {"ok", "err", "unlisten"}, Send(t, j)
      PROVE  /\ s2c' \in Seq(Frames)
             /\ pending' \in [Ids -> {"none", "open", "ok", "err", "unlisten"}]
             /\ link = "down" => s2c' = s2c
             /\ \A i \in Ids : i # j => pending'[i] = pending[i]
             /\ Sends(t, j)
  BY <1>2, SendEffect DEF Sends
<1>3. CASE OpenListener(j) /\ UNCHANGED watchVars
  <2>1. UNCHANGED <<broker, link, c2s, registered, ready, lost, overtaken, severed, failed, loopVars, watchVars>>
        /\ pending[j] = "open"
    BY <1>3 DEF OpenListener
  <2>2. CASE Send("ok", j) /\ bound' = [bound EXCEPT ![j] = "bound"]
    <3>1. bound'[j] = "bound" /\ \A i \in Ids : i # j => bound'[i] = bound[i]
      BY <1>1, <2>2
    <3>2. QED
      BY <1>2, <2>1, <2>2, <3>1 DEF Opens
  <2>3. CASE Send("err", j) /\ UNCHANGED bound
    <3>1. Refused(j)
      BY <1>2, <2>1, <2>3 DEF Refused
    <3>2. QED
      BY <1>2, <2>1, <2>3, <3>1
  <2>4. QED
    BY <1>3, <2>2, <2>3 DEF OpenListener
<1>4. CASE SendPending(j) /\ UNCHANGED watchVars
  <2>1. UNCHANGED <<broker, link, c2s, registered, ready, severed, failed, loopVars, watchVars,
                    bound, lost, overtaken>>
        /\ pending[j] \in {"ok", "err", "unlisten"} /\ Send(pending[j], j)
    BY <1>4 DEF SendPending
  <2>2. Sends(pending[j], j) /\ s2c' \in Seq(Frames) /\ (link = "down" => s2c' = s2c)
        /\ pending' \in [Ids -> {"none", "open", "ok", "err", "unlisten"}]
        /\ \A i \in Ids : i # j => pending'[i] = pending[i]
    BY <1>2, <2>1
  <2>3. Resends(j)
    BY <2>1, <2>2 DEF Resends
  <2>4. QED
    BY <2>1, <2>2, <2>3
<1>5. CASE AcceptFails(j) /\ UNCHANGED watchVars
  <2>1. UNCHANGED <<broker, link, c2s, registered, ready, severed, loopVars, watchVars, overtaken>>
        /\ pending[j] = "none" /\ bound[j] = "serving" /\ bound' = [bound EXCEPT ![j] = "none"]
        /\ Send("unlisten", j) /\ failed' = failed \cup {j} /\ lost' = lost \ {j}
    BY <1>5 DEF AcceptFails
  <2>2. bound'[j] = "none" /\ \A i \in Ids : i # j => bound'[i] = bound[i]
    BY <1>1, <2>1
  <2>3. Fails(j)
    BY <1>2, <2>1, <2>2 DEF Fails
  <2>4. lost \ {j} \subseteq lost' /\ lost' \subseteq lost
    BY <2>1
  <2>5. QED
    BY <1>2, <2>1, <2>2, <2>3, <2>4
<1>6. QED
  BY <1>3, <1>4, <1>5 DEF ListenerStep, RunListener, ListenerRuns

(* So do dispatch, the broker, and the end of a connector or a broker. *)
LEMMA WireTypes ==
    ASSUME WatchTypeOK, SessionInv, DispatchFrame \/ HandleFrame \/ Outage \/ \E j \in Ids : RunListener(j)
    PROVE  WatchTypeOK'
<1> USE DEF sessionVars, clientVars, wireVars, loopVars, ghostVars,
            watchVars, mapVars, attemptVars, workerVars
<1> SUFFICES SessionTypeOK'
  BY DEF WatchTypeOK, DispatchFrame, HandleFrame, Outage, RunListener
<1>1. CASE Dispatch
  <2>1. s2c' \in Seq(Frames)
    BY <1>1, SentTail DEF Dispatch, WatchTypeOK, SessionTypeOK
  <2>2. ready' \in [Ids -> {"none", "ok", "err"}]
    BY <1>1 DEF Dispatch, WatchTypeOK, SessionTypeOK
  <2>3. QED
    BY <1>1, <2>1, <2>2 DEF Dispatch, WatchTypeOK, SessionTypeOK
<1>2. ASSUME c2s # <<>>
      PROVE  Tail(c2s) \in Seq(Frames) /\ Head(c2s).id \in Ids
  BY <1>2, SentTail, FrameFacts DEF WatchTypeOK, SessionTypeOK
<1>3. CASE HandleListen
  BY <1>2, <1>3 DEF HandleListen, WatchTypeOK, SessionTypeOK
<1>4. CASE HandleCommit
  BY <1>2, <1>4 DEF HandleCommit, WatchTypeOK, SessionTypeOK
<1>5. CASE HandleUnlisten
  BY <1>2, <1>5 DEF HandleUnlisten, WatchTypeOK, SessionTypeOK
<1>6. CASE ConnectorExit
  <2>1. faults' \in 0 .. MaxFaults
    BY <1>6, SessionAssumption DEF ConnectorExit, Fault, WatchTypeOK, SessionTypeOK
  <2>2. lost' \in SUBSET Ids
    BY <1>6 DEF ConnectorExit, Hosted, WatchTypeOK, SessionTypeOK
  <2>3. QED
    BY <1>6, <2>1, <2>2 DEF ConnectorExit, WatchTypeOK, SessionTypeOK
<1>7. CASE BrokerRestart
  <2>1. broker' \in 1 .. MaxRestarts + 1
    BY <1>7, SessionAssumption DEF BrokerRestart, WatchTypeOK, SessionTypeOK
  <2>2. QED
    BY <1>7, <2>1 DEF BrokerRestart, WatchTypeOK, SessionTypeOK
<1>8. ASSUME NEW j \in Ids, ListenerStep(j)
      PROVE  SessionTypeOK'
  <2>1. /\ UNCHANGED <<broker, link, c2s, registered, ready, severed, loopVars>>
        /\ s2c' \in Seq(Frames)
        /\ pending' \in [Ids -> {"none", "open", "ok", "err", "unlisten"}]
        /\ lost' \subseteq lost /\ overtaken' \subseteq overtaken
    BY <1>8, ListenerEffect
  <2>2. bound' \in [Ids -> {"none", "bound", "serving"}]
    BY <1>8 DEF ListenerStep, RunListener, ListenerRuns, OpenListener, SendPending, AcceptFails,
                WatchTypeOK, SessionTypeOK
  <2>3. failed' \in SUBSET Ids
    BY <1>8 DEF ListenerStep, RunListener, ListenerRuns, OpenListener, SendPending, AcceptFails,
                WatchTypeOK, SessionTypeOK
  <2>4. faults' \in 0 .. MaxFaults
    BY <1>8, SessionAssumption
    DEF ListenerStep, RunListener, ListenerRuns, OpenListener, SendPending, AcceptFails, Fault,
        WatchTypeOK, SessionTypeOK
  <2>5. QED
    BY <2>1, <2>2, <2>3, <2>4 DEF WatchTypeOK, SessionTypeOK
<1>9. QED
  BY <1>1, <1>3, <1>4, <1>5, <1>6, <1>7, <1>8
  DEF DispatchFrame, HandleFrame, BrokerHandles, Outage, ListenerStep

(* So does sync. *)
LEMMA SyncTypes ==
    ASSUME WatchTypeOK, WatchInv, SessionInv, Sync
    PROVE  WatchTypeOK'
<1> USE DEF sessionVars, clientVars, wireVars, loopVars, ghostVars,
            watchVars, mapVars, attemptVars, workerVars
<1>1. CASE Scan
  <2>1. removed' \in SUBSET Ids
    BY <1>1 DEF Scan, Outdated, WatchTypeOK
  <2>2. active' \in [Keys -> Ids \cup {NoId}] /\ of' \in [Keys -> Hosts \cup {NoHost}]
        /\ rejected' \in [Keys -> Hosts \cup {NoHost}]
    BY <1>1 DEF Scan, WatchTypeOK
  <2>3. loop' \in {"tick", "close", "begin", "plan", "wait"}
    BY <1>1 DEF Scan
  <2>4. SessionTypeOK'
    BY <1>1 DEF Scan, WatchTypeOK, SessionTypeOK
  <2>5. QED
    BY <1>1, <2>1, <2>2, <2>3, <2>4 DEF Scan, WatchTypeOK
<1>2. CASE CloseRemoved
  <2>1. PICK j \in removed : CloseListener(j) /\ removed' = removed \ {j}
    BY <1>2 DEF CloseRemoved
  <2>2. j \in Ids
    BY <2>1 DEF WatchTypeOK
  <2>3. SessionTypeOK'
    BY <1>2, <2>1, <2>2, CloseTypes DEF CloseRemoved, WatchTypeOK, SessionTypeOK
  <2>4. QED
    BY <1>2, <2>1, <2>3 DEF CloseRemoved, WatchTypeOK
<1>3. CASE BeginAttempt \/ SyncDone
  <2>1. SessionTypeOK'
    BY <1>3 DEF BeginAttempt, SyncDone, WatchTypeOK, SessionTypeOK
  <2>2. loop' \in {"tick", "close", "begin", "plan", "wait"} /\ todo' \in SUBSET Keys
    BY <1>3 DEF BeginAttempt, SyncDone, WatchTypeOK
  <2>3. gen' \in [Keys -> 0 .. MaxRestarts]
    BY <1>3, SessionAssumption DEF BeginAttempt, SyncDone, WatchTypeOK
  <2>4. desired' \in [Keys -> Hosts \cup {NoHost}]
    BY <1>3 DEF BeginAttempt, SyncDone, WatchTypeOK
  <2>5. cancel' \in BOOLEAN /\ taken' \in BOOLEAN /\ cancelled' \in BOOLEAN
    BY <1>3 DEF BeginAttempt, SyncDone, WatchTypeOK
  <2>6. QED
    BY <1>3, <2>1, <2>2, <2>3, <2>4, <2>5 DEF BeginAttempt, SyncDone, WatchTypeOK
<1>4. CASE Plan
  <2>1. SessionTypeOK'
    BY <1>4 DEF Plan, WatchTypeOK, SessionTypeOK
  <2>2. QED
    BY <1>4, <2>1 DEF Plan, WatchTypeOK
<1>5. QED
  BY <1>1, <1>2, <1>3, <1>4 DEF Sync

(* So do openOne, the back-off and the WSL listeners. *)
LEMMA PortTypes ==
    ASSUME WatchTypeOK, WatchInv, SessionInv, NEW k \in Keys,
           LocalChange(k) \/ BackoffEnds(k) \/ OpenOne(k) \/ OpenTimesOut(k)
    PROVE  WatchTypeOK'
<1> USE DEF sessionVars, clientVars, wireVars, loopVars, ghostVars,
            watchVars, mapVars, attemptVars, workerVars
<1>1. CASE LocalChange(k)
  <2>1. SessionTypeOK' /\ changes' \in 0 .. MaxChanges
    BY <1>1, ChangesAssumption DEF LocalChange, WatchTypeOK, SessionTypeOK
  <2>2. QED
    BY <1>1, <2>1 DEF LocalChange, WatchTypeOK
<1>2. CASE BackoffEnds(k) \/ Skip(k) \/ OpenGivesUp(k) \/ Check(k) \/ Reject(k) \/ Restore(k) \/ Publish(k)
  <2>1. SessionTypeOK'
    BY <1>2 DEF BackoffEnds, Skip, OpenGivesUp, Check, Reject, Restore, Publish, WatchTypeOK, SessionTypeOK
  <2>2. worker' \in [Keys -> {"idle", "dial", "write", "wait", "commit", "opened", "failed",
                            "reject", "restore", "publish", "close"}]
    BY <1>2 DEF BackoffEnds, Skip, OpenGivesUp, Check, Reject, Restore, Publish, Goto, WatchTypeOK
  <2>3. rejected' \in [Keys -> Hosts \cup {NoHost}]
    BY <1>2 DEF BackoffEnds, Skip, OpenGivesUp, Check, Reject, Restore, Publish, WatchTypeOK
  <2>4. active' \in [Keys -> Ids \cup {NoId}] /\ of' \in [Keys -> Hosts \cup {NoHost}]
        /\ wid' \in [Keys -> Ids \cup {NoId}]
    BY <1>2 DEF BackoffEnds, Skip, OpenGivesUp, Check, Reject, Restore, Publish, WatchTypeOK
  <2>5. QED
    BY <1>2, <2>1, <2>2, <2>3, <2>4
    DEF BackoffEnds, Skip, OpenGivesUp, Check, Reject, Restore, Publish, WatchTypeOK
<1>3. CASE OpenReserve(k)
  <2>1. PICK j \in Ids : Reserve(j) /\ wid' = [wid EXCEPT ![k] = j]
    BY <1>3, NewIdFree DEF OpenReserve
  <2>2. SessionTypeOK'
    BY <1>3, <2>1, ReserveTypes DEF OpenReserve, Reserve, WatchTypeOK, SessionTypeOK
  <2>3. QED
    BY <1>3, <2>1, <2>2 DEF OpenReserve, Goto, WatchTypeOK
<1>4. CASE OpenWrite(k) \/ OpenCommit(k)
  <2>1. wid[k] \in Ids
    BY <1>4, NamesHeld DEF OpenWrite, OpenCommit, NoListener
  <2>2. c2s' \in Seq(Frames)
    BY <1>4, <2>1, WriteTypes DEF OpenWrite, OpenCommit
  <2>3. SessionTypeOK'
    BY <1>4, <2>2 DEF OpenWrite, OpenCommit, WatchTypeOK, SessionTypeOK
  <2>4. QED
    BY <1>4, <2>3 DEF OpenWrite, OpenCommit, Goto, WatchTypeOK
<1>5. CASE OpenAnswer(k)
  <2>1. SessionTypeOK'
    BY <1>5 DEF OpenAnswer, WatchTypeOK, SessionTypeOK
  <2>2. QED
    BY <1>5, <2>1 DEF OpenAnswer, Goto, WatchTypeOK
<1>6. CASE OpenCancelled(k) \/ OpenTimesOut(k) \/ CloseOpened(k)
  <2>1. wid[k] \in Ids
    BY <1>6, NamesHeld DEF OpenCancelled, OpenTimesOut, CloseOpened, NoListener
  <2>2. registered' \in SUBSET Ids /\ ready' \in [Ids -> {"none", "ok", "err"}]
        /\ c2s' \in Seq(Frames) /\ lost' \in SUBSET Ids
    BY <1>6, <2>1, CloseTypes DEF OpenCancelled, OpenTimesOut, CloseOpened, WatchTypeOK, SessionTypeOK
  <2>3. faults' \in 0 .. MaxFaults
    BY <1>6, SessionAssumption DEF OpenCancelled, OpenTimesOut, CloseOpened, Fault, WatchTypeOK, SessionTypeOK
  <2>4. SessionTypeOK'
    BY <1>6, <2>2, <2>3 DEF OpenCancelled, OpenTimesOut, CloseOpened, WatchTypeOK, SessionTypeOK
  <2>5. QED
    BY <1>6, <2>4 DEF OpenCancelled, OpenTimesOut, CloseOpened, Goto, WatchTypeOK
<1>7. QED
  BY <1>1, <1>2, <1>3, <1>4, <1>5, <1>6 DEF OpenOne

(* So does Reset: each one had a new broker for it. *)
LEMMA ResetTypes ==
    ASSUME WatchTypeOK, WatchInv, SessionInv, Reset
    PROVE  WatchTypeOK'
<1> USE DEF sessionVars, clientVars, wireVars, loopVars, ghostVars,
            watchVars, mapVars, attemptVars, workerVars
<1>1. CASE ResetLocked
  <2>1. generation' \in 0 .. MaxRestarts
    <3>1. generation + 2 <= peer /\ peer <= MaxRestarts + 1
      BY <1>1, SessionAssumption DEF ResetLocked, SessionInv, WatchTypeOK, SessionTypeOK
    <3>2. QED
      BY <1>1, <3>1, SessionAssumption DEF ResetLocked, WatchTypeOK, SessionTypeOK
  <2>2. doomed' \in SUBSET Ids
    BY <1>1 DEF ResetLocked, Mappings, WatchTypeOK
  <2>3. SessionTypeOK'
    BY <1>1 DEF ResetLocked, WatchTypeOK, SessionTypeOK
  <2>4. QED
    BY <1>1, <2>1, <2>2, <2>3 DEF ResetLocked, WatchTypeOK
<1>2. CASE ResetCancels
  <2>1. SessionTypeOK'
    BY <1>2 DEF ResetCancels, Cleared, WatchTypeOK, SessionTypeOK
  <2>2. QED
    BY <1>2, <2>1 DEF ResetCancels, WatchTypeOK
<1>3. CASE ResetCloses
  <2>1. PICK j \in doomed : CloseListener(j) /\ doomed' = doomed \ {j}
    BY <1>3 DEF ResetCloses
  <2>2. j \in Ids
    BY <2>1 DEF WatchTypeOK
  <2>3. SessionTypeOK'
    BY <1>3, <2>1, <2>2, CloseTypes DEF ResetCloses, Cleared, WatchTypeOK, SessionTypeOK
  <2>4. QED
    BY <1>3, <2>1, <2>3 DEF ResetCloses, WatchTypeOK
<1>4. QED
  BY <1>1, <1>2, <1>3 DEF Reset

(* So does every step. *)
LEMMA RelayTypes ==
    ASSUME WatchTypeOK, WatchInv, SessionInv, [WatchNext]_relayVars
    PROVE  WatchTypeOK'
<1>1. CASE UNCHANGED relayVars
  BY <1>1 DEF relayVars, sessionVars, clientVars, wireVars, loopVars, ghostVars,
              watchVars, mapVars, attemptVars, workerVars, WatchTypeOK, SessionTypeOK
<1>2. CASE WatchNext
  BY <1>2, SessionTypes, WireTypes, SyncTypes, PortTypes, ResetTypes DEF WatchNext, Session
<1>3. QED
  BY <1>1, <1>2

-----------------------------------------------------------------------------
(* The watcher. *)

(* What an action of one opener leaves alone. *)
LEMMA OneOpener ==
    ASSUME WatchTypeOK, NEW k \in Keys, OpenOne(k) \/ OpenTimesOut(k)
    PROVE  /\ worker[k] # "idle" /\ gen' = gen /\ generation' = generation
           /\ loop' = loop /\ todo' = todo /\ desired' = desired
           /\ removed' = removed /\ doomed' = doomed /\ loopVars' = loopVars
           /\ broker' = broker /\ bound' = bound /\ link' = link /\ s2c' = s2c
           /\ pending' = pending
           /\ \A q \in Keys : q # k =>
                 worker'[q] = worker[q] /\ wid'[q] = wid[q] /\ active'[q] = active[q] /\ of'[q] = of[q]
<1> USE DEF sessionVars, clientVars, wireVars, loopVars, ghostVars,
            watchVars, mapVars, attemptVars, workerVars, Goto, WatchTypeOK
<1>1. CASE Skip(k) \/ OpenGivesUp(k) \/ Check(k) \/ Reject(k) \/ Restore(k) \/ Publish(k)
  BY <1>1 DEF Skip, OpenGivesUp, Check, Reject, Restore, Publish
<1>2. CASE OpenReserve(k)
  BY <1>2 DEF OpenReserve
<1>3. CASE OpenWrite(k) \/ OpenCommit(k) \/ OpenAnswer(k)
  BY <1>3 DEF OpenWrite, OpenCommit, OpenAnswer
<1>4. CASE OpenCancelled(k) \/ OpenTimesOut(k) \/ CloseOpened(k)
  BY <1>4 DEF OpenCancelled, OpenTimesOut, CloseOpened
<1>5. QED
  BY <1>1, <1>2, <1>3, <1>4 DEF OpenOne

(* Where it goes, and what it then holds. *)
LEMMA OpenerGoes ==
    ASSUME WatchTypeOK, WatchInv, NEW k \in Keys, OpenOne(k) \/ OpenTimesOut(k)
    PROVE  /\ wid'[k] = NoId <=> worker'[k] \in NoListener
           /\ wid'[k] # NoId => PortOf(wid'[k]) = k
           /\ wid'[k] # NoId => wid'[k] = wid[k] \/ wid'[k] \notin Held
           /\ \/ active'[k] = active[k] /\ of'[k] = of[k]
              \/ /\ active'[k] = wid[k] /\ of'[k] = desired[k] /\ worker'[k] = "idle"
                 /\ worker[k] = "publish" /\ gen[k] = generation
<1> USE DEF sessionVars, clientVars, wireVars, loopVars, ghostVars,
            watchVars, mapVars, attemptVars, workerVars, Goto, WatchTypeOK, NoListener
<1>1. OpenInv(k)
  BY DEF WatchInv
<1>2. CASE Skip(k) \/ OpenGivesUp(k) \/ Reject(k) \/ Restore(k) \/ Publish(k)
  BY <1>1, <1>2 DEF Skip, OpenGivesUp, Reject, Restore, Publish, OpenInv
<1>3. CASE Check(k)
  BY <1>1, <1>3 DEF Check, OpenInv
<1>4. CASE OpenReserve(k)
  <2>1. PICK j \in Ids : j = NewId(k, Held) /\ PortOf(j) = k /\ j \notin Held
    BY <1>4, NewIdFree DEF OpenReserve
  <2>2. wid'[k] = j /\ worker'[k] = "write"
    BY <1>4, <2>1 DEF OpenReserve
  <2>3. j # NoId
    BY IdFacts
  <2>4. active'[k] = active[k] /\ of'[k] = of[k]
    BY <1>4 DEF OpenReserve
  <2>5. QED
    BY <2>1, <2>2, <2>3, <2>4
<1>5. CASE OpenWrite(k) \/ OpenCommit(k) \/ OpenAnswer(k)
  BY <1>1, <1>5 DEF OpenWrite, OpenCommit, OpenAnswer, OpenInv
<1>6. CASE OpenCancelled(k) \/ OpenTimesOut(k) \/ CloseOpened(k)
  BY <1>1, <1>6 DEF OpenCancelled, OpenTimesOut, CloseOpened, OpenInv
<1>7. QED
  BY <1>2, <1>3, <1>4, <1>5, <1>6 DEF OpenOne

(* openOne keeps the watcher's invariant: its port is not mapped meanwhile. *)
LEMMA WatchOpeners ==
    ASSUME WatchTypeOK, WatchTypeOK', WatchInv, NEW k \in Keys, OpenOne(k) \/ OpenTimesOut(k)
    PROVE  WatchInv'
<1>1. /\ worker[k] # "idle" /\ gen' = gen /\ generation' = generation
      /\ loop' = loop /\ todo' = todo /\ desired' = desired
      /\ removed' = removed /\ doomed' = doomed /\ sess' = sess
      /\ \A q \in Keys : q # k =>
            worker'[q] = worker[q] /\ wid'[q] = wid[q] /\ active'[q] = active[q] /\ of'[q] = of[q]
  BY OneOpener DEF loopVars
<1>2. /\ wid'[k] = NoId <=> worker'[k] \in NoListener
      /\ wid'[k] # NoId => PortOf(wid'[k]) = k
      /\ wid'[k] # NoId => wid'[k] = wid[k] \/ wid'[k] \notin Held
      /\ \/ active'[k] = active[k] /\ of'[k] = of[k]
         \/ active'[k] = wid[k] /\ of'[k] = desired[k] /\ worker'[k] = "idle" /\ worker[k] = "publish"
  BY OpenerGoes
<1>3. MapInv(k) /\ OpenInv(k) /\ CloseInv
  BY DEF WatchInv
<1>4. active[k] = NoId
  BY <1>1, <1>3 DEF MapInv
<1>5. \A q \in Keys : q # k => MapInv(q)' /\ OpenInv(q)'
  <2> SUFFICES ASSUME NEW q \in Keys, q # k
               PROVE  MapInv(q)' /\ OpenInv(q)'
    OBVIOUS
  <2>1. MapInv(q) /\ OpenInv(q)
    BY DEF WatchInv
  <2>2. QED
    BY <1>1, <2>1 DEF MapInv, OpenInv
<1>6. OpenInv(k)'
  BY <1>1, <1>2, <1>3 DEF OpenInv
<1>7. MapInv(k)'
  BY <1>1, <1>2, <1>3, <1>4 DEF MapInv, OpenInv
<1>8. CloseInv'
  <2> SUFFICES ASSUME NEW i \in removed \cup doomed, NEW q \in Keys
               PROVE  i # active'[q] /\ i # wid'[q]
    BY <1>1, <1>3 DEF CloseInv
  <2>1. i \in Held /\ i \in Ids /\ i # NoId
    BY IdFacts DEF Held, WatchTypeOK
  <2>2. i # active[q] /\ i # wid[q]
    BY <1>3 DEF CloseInv
  <2>3. CASE q # k
    BY <1>1, <2>2, <2>3
  <2>4. CASE q = k
    BY <1>2, <2>1, <2>2, <2>4
  <2>5. QED
    BY <2>3, <2>4
<1>9. QED
  BY <1>5, <1>6, <1>7, <1>8 DEF WatchInv

(* sync keeps it: a port is opened only if it is not mapped. *)
LEMMA WatchSync ==
    ASSUME WatchTypeOK, WatchInv, Sync
    PROVE  WatchInv'
<1> USE DEF sessionVars, clientVars, wireVars, loopVars, ghostVars,
            watchVars, mapVars, attemptVars, workerVars
<1> USE DEF NoListener
<1>1. \A k \in Keys : MapInv(k) /\ OpenInv(k)
  BY DEF WatchInv
<1>2. CloseInv
  BY DEF WatchInv
<1>3. CASE Scan
  <2>1. /\ loop = "tick" /\ removed' = {active[k] : k \in Outdated}
        /\ loop' = (IF removed' = {} THEN "begin" ELSE "close")
        /\ doomed' = doomed /\ sess' = sess /\ worker' = worker /\ wid' = wid /\ todo' = todo
        /\ gen' = gen /\ generation' = generation /\ desired' = host
    BY <1>3 DEF Scan
  <2>2. \A k \in Keys : /\ k \in Outdated => active'[k] = NoId
                        /\ k \notin Outdated => active'[k] = active[k] /\ of'[k] = of[k]
    BY <1>3 DEF Scan, WatchTypeOK
  <2>3. \A k \in Keys : k \notin Outdated /\ active[k] # NoId => of[k] = host[k]
    BY DEF Outdated
  <2>4. \A k \in Keys : worker[k] = "idle" /\ wid[k] = NoId
    BY <1>1, <2>1 DEF OpenInv
  <2>5. \A k \in Keys : MapInv(k)' /\ OpenInv(k)'
    BY <1>1, <2>1, <2>2, <2>3, <2>4 DEF MapInv, OpenInv
  <2>6. \A i \in removed' : PortOf(i) \in Keys /\ i # NoId /\ \A k \in Keys : i # active'[k]
    <3> SUFFICES ASSUME NEW q \in Outdated, NEW k \in Keys
                 PROVE  PortOf(active[q]) \in Keys /\ active[q] # NoId /\ active[q] # active'[k]
      BY <2>1 DEF Outdated
    <3>1. q \in Keys /\ active[q] # NoId
      BY DEF Outdated
    <3>2. PortOf(active[q]) = q
      BY <3>1, <1>1 DEF MapInv
    <3>3. CASE k \in Outdated
      BY <2>2, <3>1, <3>2, <3>3
    <3>4. CASE k \notin Outdated
      BY <2>2, <3>1, <3>2, <3>4, <1>1 DEF MapInv
    <3>5. QED
      BY <3>1, <3>2, <3>3, <3>4
  <2>7. \A i \in doomed : PortOf(i) \in Keys /\ i # NoId /\ \A k \in Keys : i # active'[k]
    BY <1>2, <2>2, IdFacts DEF CloseInv, WatchTypeOK
  <2>8. CloseInv'
    BY <1>2, <2>1, <2>4, <2>6, <2>7 DEF CloseInv
  <2>9. QED
    BY <2>5, <2>8 DEF WatchInv
<1>4. CASE CloseRemoved
  <2>1. removed' \subseteq removed /\ loop = "close" /\ loop' = (IF removed' = {} THEN "begin" ELSE "close")
        /\ UNCHANGED <<sess, active, of, worker, wid, todo, gen, generation, desired, doomed>>
    BY <1>4 DEF CloseRemoved
  <2>2. \A k \in Keys : MapInv(k)' /\ OpenInv(k)'
    BY <1>1, <2>1 DEF MapInv, OpenInv
  <2>3. CloseInv'
    BY <1>2, <2>1 DEF CloseInv
  <2>4. QED
    BY <2>2, <2>3 DEF WatchInv
<1>5. CASE BeginAttempt
  <2>1. loop = "begin" /\ loop' \in {"wait", "plan"}
        /\ UNCHANGED <<sess, active, of, worker, wid, gen, generation, desired, doomed, removed>>
    BY <1>5 DEF BeginAttempt
  <2>2. \A k \in Keys : MapInv(k)' /\ OpenInv(k)'
    BY <1>1, <2>1 DEF MapInv, OpenInv
  <2>3. CloseInv'
    BY <1>2, <2>1 DEF CloseInv
  <2>4. QED
    BY <2>2, <2>3 DEF WatchInv
<1>6. CASE Plan
  <2>1. loop = "plan" /\ loop' \in {"wait", "plan"}
        /\ UNCHANGED <<sess, active, of, wid, generation, desired, doomed, removed>>
    BY <1>6 DEF Plan
  <2>2. PICK q \in todo : /\ todo' = todo \ {q}
                          /\ \/ /\ ~Mapped(q)
                                /\ worker' = [worker EXCEPT ![q] = "dial"]
                                /\ gen' = [gen EXCEPT ![q] = generation]
                             \/ UNCHANGED <<worker, gen>>
    BY <1>6 DEF Plan
  <2>3. q \in Keys /\ worker[q] = "idle" /\ wid[q] = NoId
    BY <1>1, <2>2 DEF OpenInv, WatchTypeOK
  <2>4. ~Mapped(q) => active[q] = NoId
    BY <1>1, <2>1, <2>3 DEF Mapped, MapInv
  <2>5. \A k \in Keys : MapInv(k)' /\ OpenInv(k)'
    <3> SUFFICES ASSUME NEW k \in Keys
                 PROVE  MapInv(k)' /\ OpenInv(k)'
      OBVIOUS
    <3>1. MapInv(k) /\ OpenInv(k)
      BY <1>1
    <3>2. CASE UNCHANGED <<worker, gen>>
      BY <2>1, <2>2, <3>1, <3>2 DEF MapInv, OpenInv
    <3>3. CASE ~UNCHANGED <<worker, gen>>
      <4>1. /\ active[q] = NoId /\ generation \in Nat
            /\ worker'[k] = (IF k = q THEN "dial" ELSE worker[k])
            /\ gen'[k] = (IF k = q THEN generation ELSE gen[k])
        BY <2>2, <2>3, <2>4, <3>3 DEF WatchTypeOK
      <4>2. MapInv(k)'
        BY <2>1, <3>1, <4>1 DEF MapInv
      <4>3. OpenInv(k)'
        BY <2>1, <2>2, <2>3, <3>1, <4>1 DEF OpenInv
      <4>4. QED
        BY <4>2, <4>3
    <3>4. QED
      BY <3>2, <3>3
  <2>6. CloseInv'
    BY <1>2, <2>1 DEF CloseInv
  <2>7. QED
    BY <2>5, <2>6 DEF WatchInv
<1>7. CASE SyncDone
  <2>1. loop' = "tick" /\ loop = "wait" /\ (\A k \in Keys : worker[k] = "idle") /\ gen' = [k \in Keys |-> 0]
        /\ UNCHANGED <<sess, active, of, worker, wid, generation, todo, doomed, removed>>
    BY <1>7 DEF SyncDone
  <2>2. generation \in Nat
    BY DEF WatchTypeOK
  <2>3. \A k \in Keys : MapInv(k)' /\ OpenInv(k)'
    BY <1>1, <2>1, <2>2 DEF MapInv, OpenInv
  <2>4. CloseInv'
    BY <1>2, <2>1 DEF CloseInv
  <2>5. QED
    BY <2>3, <2>4 DEF WatchInv
<1>8. QED
  BY <1>3, <1>4, <1>5, <1>6, <1>7 DEF Sync

(* Reset keeps it, between any two steps of the others. *)
LEMMA WatchReset ==
    ASSUME WatchTypeOK, WatchInv, Reset
    PROVE  WatchInv'
<1> USE DEF sessionVars, clientVars, wireVars, loopVars, ghostVars,
            watchVars, mapVars, attemptVars, workerVars
<1>1. \A k \in Keys : MapInv(k) /\ OpenInv(k)
  BY DEF WatchInv
<1>2. CloseInv
  BY DEF WatchInv
<1>3. CASE ResetLocked
  <2>1. /\ sess = "hook" /\ sess' = "cancel" /\ doomed' = Mappings
        /\ (\A k \in Keys : active'[k] = NoId) /\ generation' = generation + 1
        /\ UNCHANGED <<worker, wid, todo, gen, loop, desired, removed>>
    BY <1>3 DEF ResetLocked
  <2>2. \A k \in Keys : MapInv(k)'
    BY <2>1 DEF MapInv
  <2>3. \A k \in Keys : OpenInv(k)'
    <3>1. generation \in Nat /\ \A k \in Keys : gen[k] \in Nat
      BY DEF WatchTypeOK
    <3>2. QED
      BY <1>1, <2>1, <3>1 DEF OpenInv
  <2>4. \A i \in doomed' : /\ PortOf(i) \in Keys /\ i # NoId
                           /\ \A k \in Keys : i # wid[k]
    <3> SUFFICES ASSUME NEW q \in Keys, active[q] # NoId, NEW k \in Keys
                 PROVE  PortOf(active[q]) \in Keys /\ active[q] # wid[k]
      BY <2>1 DEF Mappings
    <3>1. PortOf(active[q]) = q /\ worker[q] = "idle"
      BY <1>1 DEF MapInv
    <3>2. wid[q] = NoId
      BY <3>1, <1>1 DEF OpenInv, NoListener
    <3>3. wid[k] # NoId => PortOf(wid[k]) = k
      BY <1>1 DEF OpenInv
    <3>4. QED
      BY <3>1, <3>2, <3>3
  <2>5. \A i \in removed : i # NoId
    BY IdFacts DEF WatchTypeOK
  <2>6. CloseInv'
    BY <1>2, <2>1, <2>4, <2>5 DEF CloseInv
  <2>7. QED
    BY <2>2, <2>3, <2>6 DEF WatchInv
<1>4. CASE ResetCancels \/ ResetCloses
  <2>1. /\ doomed' \subseteq doomed
        /\ sess' \notin {"cancel", "close"} => doomed' = {}
        /\ UNCHANGED <<active, of, generation, worker, wid, todo, gen, loop, desired, removed>>
    BY <1>4 DEF ResetCancels, ResetCloses, Cleared
  <2>2. \A k \in Keys : MapInv(k)' /\ OpenInv(k)'
    BY <1>1, <2>1 DEF MapInv, OpenInv
  <2>3. CloseInv'
    BY <1>2, <2>1 DEF CloseInv
  <2>4. QED
    BY <2>2, <2>3 DEF WatchInv
<1>5. QED
  BY <1>3, <1>4 DEF Reset

(* So does every step. *)
LEMMA WatchStep ==
    ASSUME WatchTypeOK, WatchTypeOK', WatchInv, [WatchNext]_relayVars
    PROVE  WatchInv'
<1> USE DEF sessionVars, clientVars, wireVars, loopVars, ghostVars,
            watchVars, mapVars, attemptVars, workerVars
<1>1. ASSUME UNCHANGED <<active, of, generation, worker, wid, todo, gen, loop, desired, removed, doomed>>,
             sess' = sess \/ {sess, sess'} \cap {"cancel", "close"} = {}
      PROVE  WatchInv'
  BY <1>1 DEF WatchInv, MapInv, OpenInv, CloseInv
<1>2. CASE UNCHANGED relayVars
  BY <1>1, <1>2 DEF relayVars
<1>3. CASE SessionStep(Held) /\ UNCHANGED watchVars
  <2>1. {sess, sess'} \cap {"cancel", "close"} = {}
    BY <1>3 DEF SessionStep, AttachConnector, HelloOK, HelloFails, Invalidate, ClearClient, SetClient,
                Register, RegisterWrite, RegisterAnswer, RegisterCommit, Noticed
  <2>2. QED
    BY <1>1, <1>3, <2>1
<1>4. CASE DispatchFrame \/ HandleFrame \/ Outage \/ \E i \in Ids : RunListener(i)
  <2>1. sess' = sess /\ UNCHANGED watchVars
    BY <1>4 DEF DispatchFrame, HandleFrame, Outage, RunListener, ListenerRuns, Dispatch, BrokerHandles,
                HandleListen, HandleCommit, HandleUnlisten, OpenListener, SendPending, AcceptFails,
                ConnectorExit, BrokerRestart
  <2>2. QED
    BY <1>1, <2>1
<1>5. CASE \E k \in Keys : LocalChange(k) \/ BackoffEnds(k)
  BY <1>1, <1>5 DEF LocalChange, BackoffEnds
<1>6. QED
  BY <1>2, <1>3, <1>4, <1>5, WatchOpeners, WatchSync, WatchReset DEF WatchNext, Session

-----------------------------------------------------------------------------
(* The session. *)

(* clientListener.Close, whoever calls it. *)
LEMMA CloseEffect ==
    ASSUME WatchTypeOK, NEW j \in Ids, CloseListener(j)
    PROVE  /\ registered' = registered \ {j}
           /\ ready'[j] = "none" /\ \A i \in Ids : i # j => ready'[i] = ready[i]
           /\ \/ c2s' = c2s /\ lost' = lost /\ j \notin registered
              \/ c2s' = Append(c2s, Frame("unlisten", j)) /\ lost' = lost /\ j \in registered /\ link = "up"
              \/ c2s' = c2s /\ lost' = lost \cup ({j} \cap Hosted) /\ j \in registered /\ link = "down"
  BY DEF CloseListener, WatchTypeOK, SessionTypeOK

(* What an action of an opener does to the client's table. *)
LEMMA OpenerClient ==
    ASSUME WatchTypeOK, WatchInv, SessionInv, NEW k \in Keys, OpenOne(k) \/ OpenTimesOut(k)
    PROVE  /\ \/ registered' = registered /\ ready' = ready /\ wid'[k] = wid[k]
              \/ registered' = registered /\ ready' = ready /\ wid'[k] = NoId /\ active'[k] = wid[k]
              \/ registered' = registered /\ wid'[k] = wid[k] /\ wid[k] \in Ids
                 /\ ready'[wid[k]] = "none" /\ \A i \in Ids : i # wid[k] => ready'[i] = ready[i]
              \/ registered' = registered \ {wid[k]} /\ wid[k] \in Ids
                 /\ ready'[wid[k]] = "none" /\ \A i \in Ids : i # wid[k] => ready'[i] = ready[i]
              \/ registered' = registered \cup {wid'[k]} /\ ready' = ready /\ wid[k] = NoId /\ dialer
           /\ c2s' = c2s \/ link = "up"
<1> USE DEF sessionVars, clientVars, wireVars, loopVars, ghostVars,
            watchVars, mapVars, attemptVars, workerVars, Goto, NoListener
<1>1. wid[k] = NoId <=> worker[k] \in NoListener
  BY DEF WatchInv, OpenInv
<1>2. worker[k] \notin NoListener => wid[k] \in Ids
  BY NamesHeld
<1>3. CASE Skip(k) \/ OpenGivesUp(k) \/ Check(k) \/ Reject(k) \/ Restore(k) \/ OpenWrite(k) \/ OpenCommit(k)
  BY <1>3 DEF Skip, OpenGivesUp, Check, Reject, Restore, OpenWrite, OpenCommit, WriteFrame
<1>4. CASE Publish(k)
  BY <1>4 DEF Publish, WatchTypeOK
<1>5. CASE OpenReserve(k)
  BY <1>1, <1>5 DEF OpenReserve, Reserve, WatchTypeOK
<1>6. CASE OpenAnswer(k)
  <2>1. wid[k] \in Ids
    BY <1>2, <1>6 DEF OpenAnswer
  <2>2. /\ ready'[wid[k]] = "none" /\ \A i \in Ids : i # wid[k] => ready'[i] = ready[i]
        /\ c2s' = c2s
        /\ (registered' = registered /\ wid' = wid) \/ registered' = registered \ {wid[k]}
    BY <1>6, <2>1 DEF OpenAnswer, WatchTypeOK, SessionTypeOK
  <2>3. QED
    BY <2>1, <2>2
<1>7. CASE OpenCancelled(k) \/ OpenTimesOut(k) \/ CloseOpened(k)
  <2>1. wid[k] \in Ids /\ CloseListener(wid[k])
    BY <1>2, <1>7 DEF OpenCancelled, OpenTimesOut, CloseOpened
  <2>2. QED
    BY <2>1, CloseEffect
<1>8. QED
  BY <1>3, <1>4, <1>5, <1>6, <1>7 DEF OpenOne

(* What the loop of the session believes does not depend on the watcher.     *)
LEMMA SessionQuiet ==
    ASSUME WatchTypeOK, WatchInv, SessionInv,
           UNCHANGED <<loopVars, broker, link, s2c, generation>>,
           NEW j \in Ids \cup {NoId}, Watched(j) \/ j = NoId,
           registered \ {j} \subseteq registered',
           Fresh => registered' \subseteq registered /\ \A k \in Keys : active'[k] = NoId /\ wid'[k] = NoId,
           c2s' = c2s \/ link = "up"
    PROVE  SessionInv'
<1>1. sess \in {"write", "wait", "commit"} => static \in registered'
  <2> SUFFICES ASSUME sess \in {"write", "wait", "commit"}
               PROVE  static \in registered'
    OBVIOUS
  <2>1. static \in registered /\ static \in Ids
    BY DEF SessionInv, WatchTypeOK, SessionTypeOK
  <2>2. static # NoId /\ PortOf(static) = Static
    BY <2>1, IdFacts DEF SessionInv
  <2>3. static # j
    BY <2>2, SessionAssumption DEF Watched
  <2>4. QED
    BY <2>1, <2>3
<1>2. QED
  BY <1>1 DEF SessionInv, Fresh, loopVars

(* openOne reserves only through a client that was set. *)
LEMMA SessionOpeners ==
    ASSUME WatchTypeOK, WatchInv, SessionInv, NEW k \in Keys, OpenOne(k) \/ OpenTimesOut(k)
    PROVE  SessionInv'
<1>1. /\ UNCHANGED <<loopVars, broker, link, s2c, generation>>
      /\ \A q \in Keys : q # k => wid'[q] = wid[q] /\ active'[q] = active[q]
      /\ c2s' = c2s \/ link = "up"
  BY OneOpener, OpenerClient
<1>2. wid[k] \in Ids \cup {NoId} /\ (Watched(wid[k]) \/ wid[k] = NoId)
  BY DEF WatchTypeOK, WatchInv, OpenInv, Watched
<1>3. registered \ {wid[k]} \subseteq registered'
  BY OpenerClient
<1>4. ASSUME Fresh
      PROVE  registered' \subseteq registered /\ wid'[k] = NoId /\ active'[k] = NoId
  <2>1. ~dialer /\ wid[k] = NoId /\ active[k] = NoId
    BY <1>4 DEF SessionInv
  <2>2. wid[k] \notin Ids
    BY <2>1, IdFacts
  <2>3. wid'[k] = NoId /\ registered' \subseteq registered
    BY <2>1, <2>2, OpenerClient
  <2>4. active'[k] = NoId
    BY <2>1, OpenerGoes
  <2>5. QED
    BY <2>3, <2>4
<1>5. Fresh => \A q \in Keys : active'[q] = NoId /\ wid'[q] = NoId
  BY <1>1, <1>4 DEF SessionInv
<1>6. QED
  BY <1>1, <1>2, <1>3, <1>4, <1>5, SessionQuiet

(* sync closes none of the session's own listeners. *)
LEMMA SessionSync ==
    ASSUME WatchTypeOK, WatchInv, SessionInv, Sync
    PROVE  SessionInv'
<1> USE DEF sessionVars, clientVars, wireVars, ghostVars,
            watchVars, mapVars, attemptVars, workerVars
<1>1. CASE CloseRemoved
  <2>1. PICK j \in removed : CloseListener(j)
    BY <1>1 DEF CloseRemoved
  <2>2. j \in Ids /\ Watched(j)
    BY <2>1 DEF WatchTypeOK, WatchInv, CloseInv, Watched
  <2>3. registered' = registered \ {j} /\ (c2s' = c2s \/ link = "up")
    BY <2>1, <2>2, CloseEffect
  <2>4. UNCHANGED <<loopVars, broker, link, s2c, generation, active, wid>>
    BY <1>1 DEF CloseRemoved
  <2>5. Fresh => \A k \in Keys : active'[k] = NoId /\ wid'[k] = NoId
    BY <2>4 DEF SessionInv
  <2>6. QED
    BY <2>2, <2>3, <2>4, <2>5, SessionQuiet
<1>2. CASE Scan \/ BeginAttempt \/ Plan \/ SyncDone
  <2>1. UNCHANGED <<loopVars, broker, link, s2c, c2s, generation, registered, wid>>
    BY <1>2 DEF Scan, BeginAttempt, Plan, SyncDone
  <2>2. \A k \in Keys : active'[k] \in {active[k], NoId}
    BY <1>2 DEF Scan, BeginAttempt, Plan, SyncDone, WatchTypeOK
  <2>3. Fresh => \A k \in Keys : active'[k] = NoId /\ wid'[k] = NoId
    BY <2>1, <2>2 DEF SessionInv
  <2>4. QED
    BY <2>1, <2>3, SessionQuiet
<1>3. QED
  BY <1>1, <1>2 DEF Sync

(* Reset comes after a broker of its own. *)
LEMMA SessionReset ==
    ASSUME WatchTypeOK, WatchInv, SessionInv, Reset
    PROVE  SessionInv'
<1> USE DEF sessionVars, clientVars, wireVars, loopVars, ghostVars,
            watchVars, mapVars, attemptVars, workerVars
<1>1. CASE ResetLocked
  <2>1. generation + 2 <= peer /\ generation \in Nat /\ peer \in Nat
    BY <1>1 DEF ResetLocked, SessionInv, WatchTypeOK, SessionTypeOK
  <2>2. QED
    BY <1>1, <2>1 DEF ResetLocked, SessionInv, Fresh
<1>2. CASE ResetCancels
  BY <1>2 DEF ResetCancels, Cleared, SessionInv, Fresh
<1>3. CASE ResetCloses
  <2>1. PICK j \in doomed : CloseListener(j)
    BY <1>3 DEF ResetCloses
  <2>2. j \in Ids
    BY <2>1 DEF WatchTypeOK
  <2>3. registered' = registered \ {j} /\ (c2s' = c2s \/ link = "up")
    BY <2>1, <2>2, CloseEffect
  <2>4. QED
    BY <1>3, <2>3 DEF ResetCloses, Cleared, SessionInv, Fresh
<1>4. QED
  BY <1>1, <1>2, <1>3 DEF Reset

(* Answers and LISTEN_CLOSE are all that a broker sends, and outages empty   *)
(* the channels.                                                             *)
LEMMA SessionWire ==
    ASSUME WatchTypeOK, SessionInv, DispatchFrame \/ HandleFrame \/ Outage \/ \E j \in Ids : RunListener(j)
    PROVE  SessionInv'
<1> USE DEF sessionVars, clientVars, wireVars, loopVars, ghostVars,
            watchVars, mapVars, attemptVars, workerVars
<1>1. CASE DispatchFrame \/ HandleFrame
  <2>1. UNCHANGED <<loopVars, registered, active, wid, generation, broker, link>> /\ (c2s # <<>> \/ s2c # <<>>)
        /\ (s2c' = s2c \/ (s2c # <<>> /\ s2c' = Tail(s2c)))
    BY <1>1 DEF DispatchFrame, HandleFrame, Dispatch, BrokerHandles, HandleListen, HandleCommit, HandleUnlisten
  <2>2. link # "down"
    BY <2>1 DEF SessionInv
  <2>3. Sent(s2c') \subseteq Sent(s2c)
    BY <2>1, SentTail DEF WatchTypeOK, SessionTypeOK
  <2>4. QED
    BY <2>1, <2>2, <2>3 DEF SessionInv, Fresh
<1>2. CASE (ConnectorExit \/ BrokerRestart) /\ UNCHANGED watchVars
  <2>1. UNCHANGED <<loopVars, registered, active, wid, generation>> /\ c2s' = <<>> /\ s2c' = <<>>
        /\ (broker' = broker \/ broker' = broker + 1)
    BY <1>2 DEF ConnectorExit, BrokerRestart
  <2>2. peer <= broker'
    BY <2>1 DEF SessionInv, WatchTypeOK, SessionTypeOK
  <2>3. QED
    BY <2>1, <2>2, SentOther DEF SessionInv, Fresh
<1>3. ASSUME NEW j \in Ids, ListenerStep(j)
      PROVE  SessionInv'
  <2>1. /\ UNCHANGED <<loopVars, registered, active, wid, generation, broker, link, c2s>>
        /\ link = "down" => s2c' = s2c
        /\ Opens(j) \/ Refused(j) \/ Resends(j) \/ Fails(j)
    BY <1>3, ListenerEffect
  <2>2. \A f \in Sent(s2c') : f \in Sent(s2c) \/ f \in {Frame("ok", j), Frame("err", j), Frame("unlisten", j)}
    BY <2>1 DEF Opens, Refused, Resends, Fails, Sends
  <2>3. \A t \in {"ok", "err", "unlisten"} : Frame(t, j).type = t
    BY FrameFacts
  <2>4. \A f \in Sent(s2c') : f.type \in {"ok", "err", "unlisten"}
    BY <2>2, <2>3 DEF SessionInv
  <2>5. QED
    BY <2>1, <2>4 DEF SessionInv, Fresh
<1>4. QED
  BY <1>1, <1>2, <1>3 DEF Outage, ListenerStep

(* runPersistentConnector and registerMappings. *)
LEMMA SessionLoop ==
    ASSUME WatchTypeOK, WatchInv, SessionInv, SessionStep(Held), UNCHANGED watchVars
    PROVE  SessionInv'
<1> USE DEF sessionVars, clientVars, wireVars, loopVars, ghostVars,
            watchVars, mapVars, attemptVars, workerVars
<1>0. broker \in Nat /\ broker >= 1 /\ peer \in Nat /\ generation \in Nat
  BY SessionAssumption DEF WatchTypeOK, SessionTypeOK
<1>1. CASE AttachConnector
  BY <1>0, <1>1 DEF AttachConnector, SessionInv, Fresh
<1>2. CASE HelloFails \/ ClearClient \/ SetClient
  BY <1>0, <1>2 DEF HelloFails, ClearClient, SetClient, SessionInv, Fresh
<1>3. CASE Noticed
  BY <1>0, <1>3 DEF Noticed, SessionInv, Fresh
<1>4. CASE HelloOK
  <2>1. /\ sess = "hello" /\ peer' = broker
        /\ \/ inited /\ peer # broker /\ sess' = "invalidate"
           \/ inited /\ peer = broker /\ sess' = "ready"
           \/ ~inited /\ sess' = "set"
        /\ UNCHANGED <<clientVars, wireVars, inited, dialer, static, watchVars>>
    BY <1>4 DEF HelloOK
  <2>2. peer <= broker /\ (generation = 0 \/ generation + 1 <= peer) /\ (inited => peer >= 1)
    BY DEF SessionInv
  <2>3. generation = 0 \/ generation + 1 <= broker
    BY <1>0, <2>2
  <2>4. inited /\ peer # broker => generation + 2 <= broker
    BY <1>0, <2>2
  <2>5. ~inited => static = NoId
    BY <2>1 DEF SessionInv, Fresh
  <2>6. QED
    BY <1>0, <2>1, <2>3, <2>4, <2>5 DEF SessionInv, Fresh
<1>5. CASE Invalidate
  BY <1>0, <1>5 DEF Invalidate, SessionInv, Fresh
<1>6. CASE Register(Held)
  <2>1. static' \in Ids /\ PortOf(static') = Static /\ static' \in registered'
    BY <1>6, NewIdFree DEF Register, Reserve
  <2>2. QED
    BY <1>0, <1>6, <2>1 DEF Register, SessionInv, Fresh
<1>7. CASE RegisterWrite \/ RegisterCommit
  BY <1>0, <1>7 DEF RegisterWrite, RegisterCommit, WriteFrame, SessionInv, Fresh
<1>8. CASE RegisterAnswer
  BY <1>0, <1>8 DEF RegisterAnswer, SessionInv, Fresh
<1>9. QED
  BY <1>1, <1>2, <1>3, <1>4, <1>5, <1>6, <1>7, <1>8 DEF SessionStep

(* Every step keeps the session's invariant. *)
LEMMA SessionInvStep ==
    ASSUME WatchTypeOK, WatchInv, SessionInv, [WatchNext]_relayVars
    PROVE  SessionInv'
<1> USE DEF sessionVars, clientVars, wireVars, loopVars, ghostVars,
            watchVars, mapVars, attemptVars, workerVars
<1>1. ASSUME UNCHANGED <<sessionVars, active, wid, generation>>
      PROVE  SessionInv'
  BY <1>1 DEF SessionInv, Fresh
<1>2. CASE UNCHANGED relayVars
  BY <1>1, <1>2 DEF relayVars
<1>3. CASE \E k \in Keys : LocalChange(k) \/ BackoffEnds(k)
  BY <1>1, <1>3 DEF LocalChange, BackoffEnds
<1>4. QED
  BY <1>2, <1>3, SessionOpeners, SessionSync, SessionReset, SessionWire, SessionLoop DEF WatchNext, Session

-----------------------------------------------------------------------------
(* Who holds a listener. *)

(* What leaves everybody's hands is unregistered and has no answer waiting. *)
LEMMA HandsKept ==
    ASSUME HandsInv, registered' \subseteq Ids,
           \A i \in Ids : i \in Held => \/ i \in Held'
                                        \/ i \notin registered' /\ (Watched(i) => ready'[i] = "none"),
           \A i \in registered' : i \in registered \/ i \in Held',
           \A i \in Ids : ready'[i] # "none" => ready[i] # "none" \/ i \in registered
    PROVE  HandsInv'
<1>1. registered' \subseteq Held'
  BY DEF HandsInv
<1>2. \A i \in Ids : ready'[i] # "none" /\ Watched(i) => i \in Held'
  BY DEF HandsInv
<1>3. QED
  BY <1>1, <1>2 DEF HandsInv, Watched, PortOf

(* openOne hands its listener over or closes it. *)
LEMMA HandsOpeners ==
    ASSUME WatchTypeOK, WatchTypeOK', WatchInv, SessionInv, HandsInv,
           NEW k \in Keys, OpenOne(k) \/ OpenTimesOut(k)
    PROVE  HandsInv'
<1>1. /\ worker[k] # "idle" /\ removed' = removed /\ doomed' = doomed /\ static' = static
      /\ \A q \in Keys : q # k => wid'[q] = wid[q] /\ active'[q] = active[q]
  BY OneOpener DEF loopVars
<1>2. active[k] = NoId /\ NoId \notin Ids
  BY <1>1, IdFacts DEF WatchInv, MapInv
<1>3. \A i \in Ids : i \in Held /\ i # wid[k] => i \in Held'
  BY <1>1, <1>2 DEF Held
<1>4. wid'[k] \in Held' /\ active'[k] \in Held'
  BY DEF Held
<1>5. registered' \subseteq Ids
  BY DEF WatchTypeOK, SessionTypeOK
<1>6. wid[k] \in Ids => wid[k] \in Held' \/ (wid[k] \notin registered' /\ ready'[wid[k]] = "none")
  BY <1>2, <1>4, OpenerClient
<1>7. \A i \in Ids : i \in Held => i \in Held' \/ (i \notin registered' /\ ready'[i] = "none")
  BY <1>3, <1>6
<1>8. \A i \in registered' : i \in registered \/ i \in Held'
  BY <1>4, OpenerClient
<1>9. \A i \in Ids : ready'[i] # "none" => ready[i] # "none"
  BY OpenerClient
<1>10. QED
  BY <1>5, <1>7, <1>8, <1>9, HandsKept

(* sync moves mappings to the ones it closes. *)
LEMMA HandsSync ==
    ASSUME WatchTypeOK, WatchTypeOK', WatchInv, HandsInv, Sync
    PROVE  HandsInv'
<1> USE DEF sessionVars, clientVars, wireVars, loopVars, ghostVars,
            watchVars, mapVars, attemptVars, workerVars
<1>1. CASE Scan
  <2>1. /\ UNCHANGED <<registered, ready, wid, doomed, static>> /\ removed = {}
        /\ removed' = {active[k] : k \in Outdated}
        /\ \A k \in Keys : k \notin Outdated => active'[k] = active[k]
    BY <1>1 DEF Scan, WatchTypeOK, WatchInv, CloseInv
  <2>2. Held \subseteq Held'
    BY <2>1 DEF Held, Outdated
  <2>3. QED
    BY <2>1, <2>2 DEF HandsInv, Watched, PortOf
<1>2. CASE CloseRemoved
  <2>1. PICK j \in removed : CloseListener(j) /\ removed' = removed \ {j}
    BY <1>2 DEF CloseRemoved
  <2>2. j \in Ids
    BY <2>1 DEF WatchTypeOK
  <2>3. /\ registered' = registered \ {j}
        /\ ready'[j] = "none" /\ \A i \in Ids : i # j => ready'[i] = ready[i]
    BY <2>1, <2>2, CloseEffect
  <2>4. \A i \in Held : i # j => i \in Held'
    BY <1>2, <2>1 DEF CloseRemoved, Held
  <2>5. QED
    BY <2>2, <2>3, <2>4, HandsKept DEF WatchTypeOK, SessionTypeOK
<1>3. CASE BeginAttempt \/ Plan \/ SyncDone
  <2>1. UNCHANGED <<registered, ready, active, wid, doomed, removed, static>>
    BY <1>3 DEF BeginAttempt, Plan, SyncDone
  <2>2. QED
    BY <2>1 DEF HandsInv, Held, Watched
<1>4. QED
  BY <1>1, <1>2, <1>3 DEF Sync

(* Reset does so too. *)
LEMMA HandsReset ==
    ASSUME WatchTypeOK, WatchTypeOK', WatchInv, SessionInv, HandsInv, Reset
    PROVE  HandsInv'
<1> USE DEF sessionVars, clientVars, wireVars, loopVars, ghostVars,
            watchVars, mapVars, attemptVars, workerVars
<1>1. NoId \notin Ids /\ registered \subseteq Ids
  BY IdFacts DEF WatchTypeOK, SessionTypeOK
<1>2. CASE ResetLocked
  <2>1. /\ UNCHANGED <<registered, ready, wid, removed, static>> /\ doomed = {} /\ doomed' = Mappings
    BY <1>2 DEF ResetLocked, WatchInv, CloseInv
  <2>2. \A i \in Ids : i \in Held => i \in Held'
    BY <1>1, <2>1 DEF Held, Mappings
  <2>3. QED
    BY <1>1, <2>1, <2>2 DEF HandsInv, Watched, PortOf
<1>3. CASE ResetCancels
  <2>1. UNCHANGED <<registered, ready, active, wid, removed, doomed, static>>
    BY <1>3 DEF ResetCancels, Cleared
  <2>2. QED
    BY <2>1 DEF HandsInv, Held, Watched
<1>4. CASE ResetCloses
  <2>1. PICK j \in doomed : CloseListener(j) /\ doomed' = doomed \ {j}
    BY <1>4 DEF ResetCloses
  <2>2. j \in Ids
    BY <2>1 DEF WatchTypeOK
  <2>3. /\ registered' = registered \ {j}
        /\ ready'[j] = "none" /\ \A i \in Ids : i # j => ready'[i] = ready[i]
    BY <2>1, <2>2, CloseEffect
  <2>4. \A i \in Held : i # j => i \in Held'
    BY <1>4, <2>1 DEF ResetCloses, Cleared, Held
  <2>5. QED
    BY <2>2, <2>3, <2>4, HandsKept DEF WatchTypeOK, SessionTypeOK
<1>5. QED
  BY <1>2, <1>3, <1>4 DEF Reset

(* The session drops its listener only after ResetPeerState forgot it. *)
LEMMA HandsLoop ==
    ASSUME WatchTypeOK, WatchTypeOK', WatchInv, SessionInv, HandsInv, SessionStep(Held), UNCHANGED watchVars
    PROVE  HandsInv'
<1> USE DEF sessionVars, clientVars, wireVars, loopVars, ghostVars,
            watchVars, mapVars, attemptVars, workerVars
<1>1. NoId \notin Ids /\ registered' \subseteq Ids /\ (static # NoId => ~Watched(static))
  BY IdFacts, SessionAssumption DEF WatchTypeOK, SessionTypeOK, SessionInv, Watched
<1>2. \A i \in Held : i # static => i \in Held'
  BY DEF Held
<1>3. CASE AttachConnector \/ HelloOK \/ HelloFails \/ ClearClient \/ SetClient \/ RegisterWrite
           \/ RegisterCommit \/ Noticed
  <2>1. UNCHANGED <<registered, ready, static>>
    BY <1>3 DEF AttachConnector, HelloOK, HelloFails, ClearClient, SetClient, RegisterWrite, RegisterCommit, Noticed
  <2>2. QED
    BY <2>1 DEF HandsInv, Held, Watched
<1>4. CASE Invalidate
  <2>1. registered' = {} /\ ready' = ready
    BY <1>4 DEF Invalidate
  <2>2. QED
    BY <1>1, <1>2, <2>1, HandsKept
<1>5. CASE Register(Held)
  <2>1. registered' = registered \cup {static'} /\ ready' = ready /\ static = NoId
    BY <1>5 DEF Register, Reserve, SessionInv
  <2>2. static' \in Held'
    BY DEF Held
  <2>3. QED
    BY <1>1, <1>2, <2>1, <2>2, HandsKept
<1>6. CASE RegisterAnswer
  <2>1. registered' = registered /\ static' = static
        /\ \A i \in Ids : ready'[i] # "none" => ready[i] # "none"
    BY <1>6 DEF RegisterAnswer, WatchTypeOK, SessionTypeOK
  <2>2. Held' = Held
    BY <2>1 DEF Held
  <2>3. QED
    BY <1>1, <2>1, <2>2, HandsKept
<1>7. QED
  BY <1>3, <1>4, <1>5, <1>6 DEF SessionStep

(* So in every step. *)
LEMMA HandsStep ==
    ASSUME WatchTypeOK, WatchTypeOK', WatchInv, SessionInv, HandsInv, [WatchNext]_relayVars
    PROVE  HandsInv'
<1> USE DEF sessionVars, clientVars, wireVars, loopVars, ghostVars,
            watchVars, mapVars, attemptVars, workerVars
<1>1. ASSUME UNCHANGED <<registered, ready, active, wid, removed, doomed, static>>
      PROVE  HandsInv'
  BY <1>1 DEF HandsInv, Held, Watched
<1>2. CASE UNCHANGED relayVars
  BY <1>1, <1>2 DEF relayVars
<1>3. CASE \E k \in Keys : LocalChange(k) \/ BackoffEnds(k)
  BY <1>1, <1>3 DEF LocalChange, BackoffEnds
<1>4. CASE HandleFrame \/ Outage \/ \E j \in Ids : RunListener(j)
  <2>1. CASE HandleFrame \/ ((ConnectorExit \/ BrokerRestart) /\ UNCHANGED watchVars)
    BY <1>1, <2>1 DEF HandleFrame, BrokerHandles, HandleListen, HandleCommit, HandleUnlisten,
                      ConnectorExit, BrokerRestart
  <2>2. ASSUME NEW j \in Ids, ListenerStep(j)
        PROVE  HandsInv'
    BY <1>1, <2>2, ListenerEffect
  <2>3. QED
    BY <1>4, <2>1, <2>2 DEF Outage, ListenerStep
<1>5. CASE DispatchFrame
  <2>1. UNCHANGED <<registered, active, wid, removed, doomed, static>>
        /\ \A i \in Ids : ready'[i] # "none" => ready[i] # "none" \/ i \in registered
    BY <1>5 DEF DispatchFrame, Dispatch, WatchTypeOK, SessionTypeOK
  <2>2. Held' = Held /\ registered' \subseteq Ids
    BY <2>1 DEF Held, WatchTypeOK, SessionTypeOK
  <2>3. QED
    BY <2>1, <2>2, HandsKept
<1>6. QED
  BY <1>2, <1>3, <1>4, <1>5, HandsOpeners, HandsSync, HandsReset, HandsLoop DEF WatchNext, Session

-----------------------------------------------------------------------------
(* The wire. *)

(* An opener that has its LISTEN_OPEN still to write, and keeps it. *)
StillWrites(k) == worker'[k] = "write" => worker[k] = "write" /\ wid'[k] = wid[k]

(* A step that leaves the wire and the client's table alone. *)
LEMMA WireSame ==
    ASSUME WireInv,
           UNCHANGED <<bound, pending, c2s, s2c, severed, registered, ready, lost, overtaken, failed>>,
           \A k \in Keys : StillWrites(k), Stale => Stale' \/ registered = {}
    PROVE  WireInv'
<1> USE DEF BoundTo, Asked, Opening, Answers, Kept
<1>1. \A i \in registered' : Watched(i) => Agreed(i)'
  BY DEF WireInv, Agreed
<1>2. \A k \in Keys : worker'[k] = "write" => Unasked(wid[k])'
  BY DEF WireInv, Unasked, StillWrites
<1>3. \A i \in Ids : Abandoned(i) => Abandoned(i)'
  BY DEF Abandoned
<1>4. QED
  BY <1>1, <1>2, <1>3 DEF WireInv, StillWrites, Watched, Unasked

(* A listener takes the answer out of its ready channel, and may be deleted. *)
LEMMA WireAnswered ==
    ASSUME WatchTypeOK, WireInv, UNCHANGED <<bound, pending, c2s, s2c, severed, lost, overtaken, failed>>,
           NEW j \in Ids, \A i \in Ids : i # j => ready'[i] = ready[i], ready'[j] = "none",
           \/ registered' = registered
           \/ registered' = registered \ {j} /\ Watched(j) /\ ready[j] = "err",
           \A k \in Keys : StillWrites(k) /\ (worker'[k] = "write" => wid[k] # j), Stale => Stale'
    PROVE  WireInv'
<1> USE DEF BoundTo, Asked, Opening, Answers, Kept
<1>1. registered' \subseteq registered /\ registered \subseteq Ids
  BY DEF WatchTypeOK, SessionTypeOK
<1>2. \A i \in registered' : Watched(i) => Agreed(i)'
  BY <1>1 DEF WireInv, Agreed
<1>3. \A k \in Keys : worker'[k] = "write" => Unasked(wid[k])'
  <2> SUFFICES ASSUME NEW k \in Keys, worker'[k] = "write"
               PROVE  Unasked(wid[k])'
    OBVIOUS
  <2>1. Unasked(wid[k]) /\ wid'[k] = wid[k] /\ wid[k] # j
    BY DEF WireInv, StillWrites
  <2>2. wid[k] \in registered => wid[k] \in Ids
    BY <1>1
  <2>3. QED
    BY <1>1, <2>1, <2>2 DEF Unasked
<1>4. \A i \in Ids : i \in registered' \cup severed' \/ Abandoned(i)'
  <2> SUFFICES ASSUME NEW i \in Ids, i \notin registered' \cup severed'
               PROVE  Abandoned(i)'
    OBVIOUS
  <2>1. CASE i \in registered
    <3>1. i = j /\ Watched(i) /\ ready[i] = "err"
      BY <2>1
    <3>2. Frame("listen", i) \notin Sent(c2s) /\ pending[i] # "open"
      BY <2>1, <3>1 DEF WireInv, Agreed
    <3>3. QED
      BY <3>2, SentOther DEF Abandoned
  <2>2. CASE i \notin registered
    BY <2>2 DEF WireInv, Abandoned
  <2>3. QED
    BY <2>1, <2>2
<1>5. QED
  BY <1>2, <1>3, <1>4 DEF WireInv, StillWrites, Watched, Unasked

(* clientListener.Close: LISTEN_CLOSE goes behind whatever was written. *)
LEMMA WireClosed ==
    ASSUME WatchTypeOK, SessionInv, WireInv, UNCHANGED <<bound, pending, s2c, severed, overtaken, failed>>,
           NEW j \in Ids, Watched(j), CloseListener(j),
           \A k \in Keys : StillWrites(k) /\ (worker'[k] = "write" => wid[k] # j), Stale => Stale'
    PROVE  WireInv'
<1> USE DEF BoundTo, Asked, Opening, Answers, Kept
<1>1. registered' = registered \ {j} /\ registered \subseteq Ids /\ c2s \in Seq(Frames)
      /\ \A i \in Ids : i # j => ready'[i] = ready[i]
  BY CloseEffect DEF WatchTypeOK, SessionTypeOK
<1>2. PICK u \in Frames : u = Frame("unlisten", j)
  BY FrameFacts
<1>3. /\ lost \subseteq lost'
      /\ \/ c2s' = c2s /\ j \notin registered
         \/ c2s' = Append(c2s, u)
         \/ c2s' = c2s /\ c2s = <<>> /\ (pending[j] = "open" => j \in lost')
  BY <1>2, CloseEffect DEF SessionInv, Hosted
<1>4. /\ \A i \in Ids : u # Frame("listen", i)
      /\ \A i \in Ids : i # j => u # Frame("unlisten", i)
  BY <1>2, FrameFacts
<1>5. \A f : f \in Sent(c2s') => f \in Sent(c2s) \/ f = u
  <2>1. Sent(Append(c2s, u)) = Sent(c2s) \cup {u}
    BY <1>1, SentAppend
  <2>2. QED
    BY <1>3, <2>1
<1>6. \A i \in Ids : Watched(i) => Once(c2s', Frame("listen", i))
  <2> SUFFICES ASSUME NEW i \in Ids, Watched(i)
               PROVE  Once(c2s', Frame("listen", i))
    OBVIOUS
  <2>1. Once(c2s, Frame("listen", i)) /\ u # Frame("listen", i)
    BY <1>4 DEF WireInv
  <2>2. QED
    BY <1>1, <1>3, <2>1, SentAppend
<1>7. \A i \in registered' : Watched(i) => Agreed(i)'
  <2> SUFFICES ASSUME NEW i \in registered', Watched(i)
               PROVE  Agreed(i)'
    OBVIOUS
  <2>1. i \in Ids /\ i # j /\ Agreed(i)
    BY <1>1 DEF WireInv
  <2>2. Frame("listen", i) # u /\ Frame("unlisten", i) # u
    BY <1>4, <2>1
  <2>3. QED
    BY <1>1, <1>5, <2>1, <2>2 DEF Agreed
<1>8. \A k \in Keys : worker'[k] = "write" => Unasked(wid[k])'
  <2> SUFFICES ASSUME NEW k \in Keys, worker'[k] = "write"
               PROVE  Unasked(wid[k])'
    OBVIOUS
  <2>1. Unasked(wid[k]) /\ wid'[k] = wid[k] /\ wid[k] # j
    BY DEF WireInv, StillWrites
  <2>2. wid[k] \in registered \cup severed /\ severed \subseteq Ids
    BY <2>1 DEF Unasked, WatchTypeOK, SessionTypeOK
  <2>3. wid[k] \in Ids /\ Frame("listen", wid[k]) # u
    BY <1>1, <1>4, <2>2
  <2>4. QED
    BY <1>1, <1>5, <2>1, <2>3 DEF Unasked
<1>9. \A i \in Ids : i \in registered' \cup severed' \/ Abandoned(i)'
  <2> SUFFICES ASSUME NEW i \in Ids, i \notin registered' \cup severed'
               PROVE  Abandoned(i)'
    OBVIOUS
  <2>1. CASE i = j /\ j \in registered
    <3>1. CASE c2s' = Append(c2s, u)
      <4>1. Followed(c2s', i) /\ Frame("unlisten", i) \in Sent(c2s')
        BY <1>1, <1>2, <2>1, <3>1, FollowedAppend, SentAppend
      <4>2. QED
        BY <4>1 DEF Abandoned
    <3>2. CASE c2s' = <<>> /\ (pending[j] = "open" => j \in lost')
      BY <2>1, <3>2, SentOther DEF Abandoned
    <3>3. QED
      BY <1>3, <2>1, <3>1, <3>2
  <2>2. CASE ~(i = j /\ j \in registered)
    <3>1. Abandoned(i)
      BY <1>1, <2>2 DEF WireInv
    <3>2. u # Frame("listen", i)
      BY <1>4
    <3>3. CASE c2s' = Append(c2s, u)
      <4>1. Followed(c2s', i) /\ Sent(c2s') = Sent(c2s) \cup {u}
        BY <1>1, <3>1, <3>2, <3>3, FollowedAppend, SentAppend DEF Abandoned
      <4>2. QED
        BY <1>3, <3>1, <4>1 DEF Abandoned
    <3>4. CASE c2s' = c2s
      BY <1>3, <3>1, <3>4 DEF Abandoned
    <3>5. QED
      BY <1>3, <3>3, <3>4
  <2>3. QED
    BY <2>1, <2>2
<1>10. QED
  BY <1>6, <1>7, <1>8, <1>9 DEF WireInv, StillWrites, Watched, Unasked

(* ReserveReverseForward under a name of which nothing is left. *)
LEMMA WireReserved ==
    ASSUME WatchTypeOK, WireInv, UNCHANGED <<bound, pending, c2s, s2c>>, NEW j \in Ids, Reserve(j),
           bound[j] = "none", pending[j] = "none", j \notin InFlight(c2s) \cup InFlight(s2c), Watched(j) => ready[j] = "none",
           \A k \in Keys : \/ StillWrites(k) /\ (worker'[k] = "write" => wid[k] # j)
                           \/ wid'[k] = j /\ Watched(j),
           Stale => Stale'
    PROVE  WireInv'
<1> USE DEF BoundTo, Asked, Opening, Answers, Kept
<1>1. /\ registered' = registered \cup {j} /\ severed' = severed \ {j} /\ ready' = ready
      /\ failed' = failed \ {j} /\ lost' = lost \ {j} /\ overtaken' = overtaken \ {j}
      /\ registered \subseteq Ids
  BY DEF Reserve, WatchTypeOK, SessionTypeOK
<1>2. \A t \in {"listen", "unlisten"} : Frame(t, j) \notin Sent(c2s)
  <2> SUFFICES ASSUME NEW t \in {"listen", "unlisten"}
               PROVE  Frame(t, j) \notin Sent(c2s)
    OBVIOUS
  <2>1. Frame(t, j).id = j
    BY FrameFacts
  <2>2. QED
    BY <2>1, SentOther
<1>3. \A t \in {"ok", "err"} : Frame(t, j) \notin Sent(s2c)
  <2> SUFFICES ASSUME NEW t \in {"ok", "err"}
               PROVE  Frame(t, j) \notin Sent(s2c)
    OBVIOUS
  <2>1. Frame(t, j).id = j
    BY FrameFacts
  <2>2. QED
    BY <2>1, SentOther
<1>4. \A i \in registered' : Watched(i) => Agreed(i)'
  <2> SUFFICES ASSUME NEW i \in registered', Watched(i)
               PROVE  Agreed(i)'
    OBVIOUS
  <2>1. CASE i = j
    BY <1>1, <1>2, <1>3, <2>1 DEF Agreed
  <2>2. CASE i # j
    <3>1. Agreed(i)
      BY <1>1, <2>2 DEF WireInv
    <3>2. QED
      BY <1>1, <2>2, <3>1 DEF Agreed
  <2>3. QED
    BY <2>1, <2>2
<1>5. \A k \in Keys : worker'[k] = "write" => Unasked(wid[k])'
  <2> SUFFICES ASSUME NEW k \in Keys, worker'[k] = "write"
               PROVE  Unasked(wid[k])'
    OBVIOUS
  <2>1. CASE wid'[k] = j /\ Watched(j)
    BY <1>1, <1>2, <1>3, <2>1 DEF Unasked
  <2>2. CASE ~(wid'[k] = j /\ Watched(j))
    <3>1. Unasked(wid[k]) /\ wid'[k] = wid[k] /\ wid[k] # j
      BY <2>2 DEF WireInv, StillWrites
    <3>2. QED
      BY <1>1, <3>1 DEF Unasked
  <2>3. QED
    BY <2>1, <2>2
<1>6. \A i \in Ids : i # j /\ Abandoned(i) => Abandoned(i)'
  BY <1>1 DEF Abandoned
<1>7. QED
  BY <1>1, <1>4, <1>5, <1>6 DEF WireInv, Watched, Unasked

(* LISTEN_OPEN or LISTEN_COMMIT is written. *)
LEMMA WireWritten ==
    ASSUME WatchTypeOK, WireInv,
           UNCHANGED <<bound, pending, s2c, severed, registered, ready, lost, overtaken, failed>>,
           NEW j \in Ids, NEW t \in {"listen", "commit"}, c2s' = Append(c2s, Frame(t, j)),
           t = "listen" => j \in registered \cup severed /\ (Watched(j) => Unasked(j)),
           \A k \in Keys : StillWrites(k) /\ (t = "listen" /\ worker'[k] = "write" => wid[k] # j),
           Stale => Stale'
    PROVE  WireInv'
<1> USE DEF BoundTo, Asked, Opening, Answers, Kept
<1>1. PICK g \in Frames : g = Frame(t, j)
  BY FrameFacts
<1>2. /\ \A i \in Ids : g # Frame("unlisten", i)
      /\ \A i \in Ids : g = Frame("listen", i) => t = "listen" /\ i = j
  BY <1>1, FrameFacts
<1>3. c2s \in Seq(Frames) /\ registered \subseteq Ids /\ severed \subseteq Ids
  BY DEF WatchTypeOK, SessionTypeOK
<1>4. Sent(c2s') = Sent(c2s) \cup {g}
  BY <1>1, <1>3, SentAppend
<1>5. \A i \in Ids : Watched(i) => Once(c2s', Frame("listen", i))
  <2> SUFFICES ASSUME NEW i \in Ids, Watched(i)
               PROVE  Once(c2s', Frame("listen", i))
    OBVIOUS
  <2>1. Once(c2s, Frame("listen", i))
    BY DEF WireInv
  <2>2. CASE g # Frame("listen", i)
    BY <1>1, <1>3, <2>1, <2>2, SentAppend
  <2>3. CASE g = Frame("listen", i)
    <3>1. g \notin Sent(c2s)
      BY <1>2, <2>3 DEF Unasked
    <3>2. QED
      BY <1>1, <1>3, <2>3, <3>1, SentAppend
  <2>4. QED
    BY <2>2, <2>3
<1>6. \A i \in registered' : Watched(i) => Agreed(i)'
  <2> SUFFICES ASSUME NEW i \in registered', Watched(i)
               PROVE  Agreed(i)'
    OBVIOUS
  <2>1. i \in Ids /\ i \in registered /\ Agreed(i)
    BY <1>3 DEF WireInv
  <2>2. CASE g # Frame("listen", i)
    BY <1>2, <1>4, <2>1, <2>2 DEF Agreed
  <2>3. CASE g = Frame("listen", i)
    <3>1. Unasked(i)
      BY <1>2, <2>1, <2>3
    <3>2. QED
      BY <1>2, <1>4, <2>1, <3>1 DEF Agreed, Unasked
  <2>4. QED
    BY <2>2, <2>3
<1>7. \A k \in Keys : worker'[k] = "write" => Unasked(wid[k])'
  <2> SUFFICES ASSUME NEW k \in Keys, worker'[k] = "write"
               PROVE  Unasked(wid[k])'
    OBVIOUS
  <2>1. Unasked(wid[k]) /\ wid'[k] = wid[k] /\ (t = "listen" => wid[k] # j)
    BY DEF WireInv, StillWrites
  <2>2. wid[k] \in Ids
    BY <1>3, <2>1 DEF Unasked
  <2>3. g # Frame("listen", wid[k])
    BY <1>2, <2>1, <2>2
  <2>4. QED
    BY <1>4, <2>1, <2>3 DEF Unasked
<1>8. \A i \in Ids : i \in registered' \cup severed' \/ Abandoned(i)'
  <2> SUFFICES ASSUME NEW i \in Ids, i \notin registered \cup severed
               PROVE  Abandoned(i)'
    OBVIOUS
  <2>1. Abandoned(i) /\ g # Frame("listen", i)
    BY <1>2 DEF WireInv
  <2>2. Followed(c2s', i)
    BY <1>1, <1>3, <2>1, FollowedAppend DEF Abandoned
  <2>3. QED
    BY <1>4, <2>1, <2>2 DEF Abandoned
<1>9. QED
  BY <1>5, <1>6, <1>7, <1>8 DEF WireInv, StillWrites, Watched, Unasked

(* dispatch of an answer. *)
LEMMA WireDispatch ==
    ASSUME WatchTypeOK, SessionInv, WireInv, DispatchFrame
    PROVE  WireInv'
<1> USE DEF sessionVars, clientVars, wireVars, loopVars, ghostVars,
            watchVars, mapVars, attemptVars, workerVars
<1> USE DEF BoundTo, Asked, Opening, Answers, Kept
<1>1. /\ s2c \in Seq(Frames) /\ s2c # <<>> /\ s2c' = Tail(s2c) /\ registered \subseteq Ids
      /\ UNCHANGED <<bound, pending, c2s, severed, registered, broker, peer, sess, worker, wid,
                     lost, overtaken, failed>>
  BY DEF DispatchFrame, Dispatch, WatchTypeOK, SessionTypeOK
<1>2. PICK f \in Frames : f = Head(s2c) /\ f \in Sent(s2c)
  BY <1>1, SentTail
<1>3. /\ f = Frame(f.type, f.id) /\ f.id \in Ids
      /\ Sent(s2c') \subseteq Sent(s2c)
  BY <1>1, <1>2, FrameFacts, SentTail
<1>4. \A i \in Ids : ready'[i] = ready[i]
                     \/ (i = f.id /\ ready'[i] = f.type /\ f.type \in {"ok", "err"})
  BY <1>2, <1>3 DEF DispatchFrame, Dispatch, WatchTypeOK, SessionTypeOK
<1>5. \A i \in registered' : Watched(i) => Agreed(i)'
  <2> SUFFICES ASSUME NEW i \in registered', Watched(i)
               PROVE  Agreed(i)'
    OBVIOUS
  <2>1. i \in registered /\ i \in Ids /\ Agreed(i)
    BY <1>1 DEF WireInv
  <2>2. CASE ready'[i] = ready[i]
    BY <1>1, <1>3, <2>1, <2>2 DEF Agreed, Stale
  <2>3. CASE ready'[i] = f.type /\ i = f.id /\ f.type \in {"ok", "err"}
    <3>1. Frame(f.type, i) \in Sent(s2c)
      BY <1>2, <1>3, <2>3
    <3>2. QED
      BY <1>1, <1>3, <2>1, <2>3, <3>1 DEF Agreed, Stale
  <2>4. QED
    BY <1>4, <2>1, <2>2, <2>3
<1>6. \A k \in Keys : worker'[k] = "write" => Unasked(wid[k])'
  <2> SUFFICES ASSUME NEW k \in Keys, worker[k] = "write"
               PROVE  Unasked(wid[k])'
    BY <1>1
  <2>1. Unasked(wid[k])
    BY DEF WireInv
  <2>2. wid[k] \in registered => /\ wid[k] \in Ids /\ f # Frame("ok", wid[k]) /\ f # Frame("err", wid[k])
    BY <1>1, <1>2, <2>1 DEF Unasked
  <2>3. wid[k] \in registered => ready'[wid[k]] = "none"
    BY <1>3, <1>4, <2>1, <2>2 DEF Unasked
  <2>4. QED
    BY <1>1, <1>3, <2>1, <2>3 DEF Unasked
<1>7. \A i \in Ids : Abandoned(i) => Abandoned(i)'
  BY <1>1 DEF Abandoned
<1>8. QED
  BY <1>1, <1>5, <1>6, <1>7 DEF WireInv, Watched, Unasked

(* The broker takes LISTEN_OPEN, and a goroutine begins with it. *)
LEMMA WireListen ==
    ASSUME WatchTypeOK, SessionInv, WireInv, HandleListen, UNCHANGED watchVars
    PROVE  WireInv'
<1> USE DEF sessionVars, clientVars, wireVars, loopVars, ghostVars,
            watchVars, mapVars, attemptVars, workerVars
<1> USE DEF BoundTo, Asked, Opening, Answers, Kept
<1>1. /\ c2s \in Seq(Frames) /\ c2s # <<>> /\ c2s' = Tail(c2s)
      /\ registered \subseteq Ids /\ severed \subseteq Ids /\ Head(c2s).type = "listen"
      /\ UNCHANGED <<bound, s2c, severed, registered, ready, broker, peer, sess, worker, wid,
                     lost, overtaken, failed>>
  BY DEF HandleListen, WatchTypeOK, SessionTypeOK
<1>2. PICK j \in Ids : Head(c2s) = Frame("listen", j) /\ Head(c2s).id = j
  BY <1>1, SentTail, FrameFacts
<1>3. /\ Frame("listen", j) \in Sent(c2s) /\ Sent(c2s') \subseteq Sent(c2s)
      /\ Watched(j) => Frame("listen", j) \notin Sent(c2s')
      /\ Sent(c2s) \subseteq Sent(c2s') \cup {Frame("listen", j)}
  BY <1>1, <1>2, SentTail DEF WireInv
<1>4. pending'[j] = "open" /\ \A i \in Ids : i # j => pending'[i] = pending[i]
  BY <1>2 DEF HandleListen, WatchTypeOK, SessionTypeOK
<1>5. \A i \in Ids : Watched(i) => Once(c2s', Frame("listen", i))
  BY <1>1, SentTail DEF WireInv
<1>6. \A i \in registered' : Watched(i) => Agreed(i)'
  <2> SUFFICES ASSUME NEW i \in registered', Watched(i)
               PROVE  Agreed(i)'
    OBVIOUS
  <2>1. i \in registered /\ i \in Ids /\ Agreed(i)
    BY <1>1 DEF WireInv
  <2>2. CASE i # j
    BY <1>1, <1>3, <1>4, <2>1, <2>2 DEF Agreed, Stale
  <2>3. CASE i = j
    BY <1>1, <1>3, <1>4, <2>1, <2>3 DEF Agreed, Stale
  <2>4. QED
    BY <2>2, <2>3
<1>7. \A k \in Keys : worker'[k] = "write" => Unasked(wid[k])'
  <2> SUFFICES ASSUME NEW k \in Keys, worker[k] = "write"
               PROVE  Unasked(wid[k])'
    BY <1>1
  <2>1. Unasked(wid[k])
    BY DEF WireInv
  <2>2. wid[k] \in Ids /\ wid[k] # j
    BY <1>1, <1>3, <2>1 DEF Unasked
  <2>3. QED
    BY <1>1, <1>3, <1>4, <2>1, <2>2 DEF Unasked
<1>8. \A i \in Ids : i \in registered' \cup severed' \/ Abandoned(i)'
  <2> SUFFICES ASSUME NEW i \in Ids, i \notin registered \cup severed
               PROVE  Abandoned(i)'
    BY <1>1
  <2>1. Abandoned(i)
    BY DEF WireInv
  <2>2. /\ Followed(c2s', i)
        /\ i = j => Frame("unlisten", i) \in Sent(c2s')
    BY <1>1, <1>2, <2>1, FollowedTail DEF Abandoned
  <2>3. i # j => (Frame("unlisten", i) \in Sent(c2s) => Frame("unlisten", i) \in Sent(c2s'))
    BY <1>3, FrameFacts
  <2>4. QED
    BY <1>1, <1>4, <2>1, <2>2, <2>3 DEF Abandoned
<1>9. QED
  BY <1>5, <1>6, <1>7, <1>8 DEF WireInv, Watched, Unasked

(* The goroutine opens the listener, is refused the port, or sends what it   *)
(* could not send before; or Accept fails in it.                             *)
LEMMA WireListener ==
    ASSUME WatchTypeOK, WireInv, NEW j \in Ids, ListenerStep(j)
    PROVE  WireInv'
<1> USE DEF sessionVars, clientVars, wireVars, loopVars, ghostVars,
            watchVars, mapVars, attemptVars, workerVars
<1> USE DEF BoundTo, Asked, Opening, Answers, Kept
<1>1. /\ UNCHANGED <<broker, link, c2s, registered, ready, severed, peer, sess, worker, wid>>
      /\ \A i \in Ids : i # j => pending'[i] = pending[i] /\ bound'[i] = bound[i]
      /\ lost \ {j} \subseteq lost' /\ overtaken \ {j} \subseteq overtaken'
      /\ Opens(j) \/ Refused(j) \/ Resends(j) \/ Fails(j)
  BY ListenerEffect
<1>2. registered \subseteq Ids /\ severed \subseteq Ids
  BY DEF WatchTypeOK, SessionTypeOK
<1>3. /\ pending'[j] # "open" /\ failed \subseteq failed'
      /\ \A f \in Sent(s2c') : f \in Sent(s2c) \/ f \in {Frame("ok", j), Frame("err", j), Frame("unlisten", j)}
  BY <1>1 DEF Opens, Refused, Resends, Fails, Sends
<1>4. \A i \in Ids : i # j => \A t \in {"ok", "err"} : Frame(t, i) \in Sent(s2c') => Frame(t, i) \in Sent(s2c)
  BY <1>3, FrameFacts
<1>5. \A i \in registered' : Watched(i) => Agreed(i)'
  <2> SUFFICES ASSUME NEW i \in registered', Watched(i)
               PROVE  Agreed(i)'
    OBVIOUS
  <2>1. i \in registered /\ i \in Ids /\ Agreed(i)
    BY <1>1, <1>2 DEF WireInv
  <2>2. CASE i # j
    BY <1>1, <1>3, <1>4, <2>1, <2>2 DEF Agreed, Stale
  <2>3. ASSUME i = j, Opens(j)
        PROVE  Agreed(i)'
    <3>1. /\ pending[i] = "open" /\ bound'[i] # "none" /\ pending'[i] \in {"none", "ok"}
          /\ Frame("err", i) \in Sent(s2c') => Frame("err", i) \in Sent(s2c)
      BY <2>3, FrameFacts DEF Opens, Sends
    <3>2. QED
      BY <1>1, <2>1, <3>1 DEF Agreed
  <2>4. ASSUME i = j, Refused(j)
        PROVE  Agreed(i)'
    <3>1. /\ pending[i] = "open" /\ bound'[i] = bound[i] /\ pending'[i] \in {"none", "err"}
          /\ Frame("ok", i) \in Sent(s2c') => Frame("ok", i) \in Sent(s2c)
      BY <2>4, FrameFacts DEF Refused, Sends
    <3>2. QED
      BY <1>1, <1>3, <2>1, <3>1 DEF Agreed, Stale
  <2>5. ASSUME i = j, Resends(j)
        PROVE  Agreed(i)'
    <3>1. /\ bound'[i] = bound[i] /\ pending'[i] \in {"none", pending[i]}
          /\ Frame("ok", i) \in Sent(s2c') => Frame("ok", i) \in Sent(s2c) \/ pending[i] = "ok"
          /\ Frame("err", i) \in Sent(s2c') => Frame("err", i) \in Sent(s2c) \/ pending[i] = "err"
      BY <2>5, FrameFacts DEF Resends, Sends
    <3>2. QED
      BY <1>1, <1>3, <2>1, <3>1 DEF Agreed, Stale
  <2>6. ASSUME i = j, Fails(j)
        PROVE  Agreed(i)'
    <3>1. /\ bound[i] # "none" /\ bound'[i] = "none" /\ pending'[i] \in {"none", "unlisten"} /\ i \in failed'
          /\ Frame("err", i) \in Sent(s2c') => Frame("err", i) \in Sent(s2c)
      BY <2>6, FrameFacts DEF Fails, Sends
    <3>2. QED
      BY <1>1, <2>1, <3>1 DEF Agreed
  <2>7. QED
    BY <1>1, <2>2, <2>3, <2>4, <2>5, <2>6
<1>6. \A k \in Keys : worker'[k] = "write" => Unasked(wid[k])'
  <2> SUFFICES ASSUME NEW k \in Keys, worker[k] = "write"
               PROVE  Unasked(wid[k])'
    BY <1>1
  <2>1. Unasked(wid[k])
    BY DEF WireInv
  <2>2. wid[k] \in Ids
    BY <1>2, <2>1 DEF Unasked
  <2>3. wid[k] \in registered => wid[k] # j
    BY <1>1, <2>1 DEF Unasked, Opens, Refused, Resends, Fails
  <2>4. QED
    BY <1>1, <1>4, <2>1, <2>2, <2>3 DEF Unasked
<1>7. \A i \in Ids : i \in registered' \cup severed' \/ Abandoned(i)'
  <2> SUFFICES ASSUME NEW i \in Ids, i \notin registered \cup severed
               PROVE  Abandoned(i)'
    BY <1>1
  <2>1. Abandoned(i)
    BY DEF WireInv
  <2>2. QED
    BY <1>1, <1>3, <2>1 DEF Abandoned
<1>8. QED
  BY <1>1, <1>5, <1>6, <1>7 DEF WireInv, Watched, Unasked

(* It takes LISTEN_COMMIT or LISTEN_CLOSE. *)
LEMMA WireTaken ==
    ASSUME WatchTypeOK, WireInv, HandleCommit \/ HandleUnlisten, UNCHANGED watchVars
    PROVE  WireInv'
<1> USE DEF sessionVars, clientVars, wireVars, loopVars, ghostVars,
            watchVars, mapVars, attemptVars, workerVars
<1>1. /\ c2s \in Seq(Frames) /\ c2s # <<>> /\ c2s' = Tail(c2s)
      /\ registered \subseteq Ids /\ severed \subseteq Ids
      /\ UNCHANGED <<pending, s2c, severed, registered, ready, broker, peer, sess, worker, wid, failed>>
  BY DEF HandleCommit, HandleUnlisten, WatchTypeOK, SessionTypeOK
<1>2. Sent(c2s') \subseteq Sent(c2s) /\ Head(c2s) \in Sent(c2s)
  BY <1>1, SentTail
<1>3. \A i \in registered : Watched(i) => (BoundTo(i)' <=> BoundTo(i))
  <2> SUFFICES ASSUME NEW i \in registered, Watched(i)
               PROVE  BoundTo(i)' <=> BoundTo(i)
    OBVIOUS
  <2>1. i \in Ids /\ Frame("unlisten", i) \notin Sent(c2s)
    BY <1>1 DEF WireInv, Agreed
  <2>2. CASE HandleCommit
    BY <2>1, <2>2 DEF HandleCommit, BoundTo, WatchTypeOK, SessionTypeOK
  <2>3. CASE HandleUnlisten
    <3>1. Head(c2s) = Frame("unlisten", Head(c2s).id)
      BY <1>1, <2>3, SentTail, FrameFacts DEF HandleUnlisten
    <3>2. i # Head(c2s).id
      BY <1>2, <2>1, <3>1
    <3>3. QED
      BY <2>1, <2>3, <3>2 DEF HandleUnlisten, BoundTo, WatchTypeOK, SessionTypeOK
  <2>4. QED
    BY <2>2, <2>3
<1>4. \A i \in Ids : Watched(i) => Once(c2s', Frame("listen", i))
  BY <1>1, SentTail DEF WireInv
<1>5. \A i \in registered' : Watched(i) => Agreed(i)'
  <2> SUFFICES ASSUME NEW i \in registered', Watched(i)
               PROVE  Agreed(i)'
    OBVIOUS
  <2>1. Agreed(i) /\ (BoundTo(i)' <=> BoundTo(i))
    BY <1>1, <1>3 DEF WireInv
  <2>2. QED
    BY <1>1, <1>2, <2>1 DEF Agreed, Stale, Asked, Opening, Answers, Kept
<1>6. \A k \in Keys : worker'[k] = "write" => Unasked(wid[k])'
  <2> SUFFICES ASSUME NEW k \in Keys, worker[k] = "write"
               PROVE  Unasked(wid[k])'
    BY <1>1
  <2>1. Unasked(wid[k])
    BY DEF WireInv
  <2>2. wid[k] \in registered => ~BoundTo(wid[k])'
    <3>1. wid[k] \in registered /\ ~BoundTo(wid[k]) => wid[k] \in Ids /\ bound[wid[k]] = "none"
      BY <1>1 DEF BoundTo
    <3>2. wid[k] \in Ids /\ bound[wid[k]] = "none" => bound'[wid[k]] = "none"
      BY DEF HandleCommit, HandleUnlisten, WatchTypeOK, SessionTypeOK
    <3>3. QED
      BY <1>1, <2>1, <3>1, <3>2 DEF Unasked, BoundTo
  <2>3. QED
    BY <1>1, <1>2, <2>1, <2>2 DEF Unasked, Asked
<1>7. \A i \in Ids : i \in registered' \cup severed' \/ Abandoned(i)'
  <2> SUFFICES ASSUME NEW i \in Ids, i \notin registered \cup severed
               PROVE  Abandoned(i)'
    BY <1>1
  <2>1. Abandoned(i)
    BY DEF WireInv
  <2>2. Followed(c2s', i)
    BY <1>1, <2>1, FollowedTail DEF Abandoned
  <2>3. Sent(c2s) \subseteq Sent(c2s') \cup {Head(c2s)} /\ Head(c2s) = Frame(Head(c2s).type, Head(c2s).id)
        /\ Head(c2s).id \in Ids
    BY <1>1, SentTail, FrameFacts
  <2>4. CASE HandleCommit
    <3>1. lost' = lost /\ overtaken' = overtaken /\ Head(c2s) # Frame("unlisten", i)
      BY <2>3, <2>4, FrameFacts DEF HandleCommit
    <3>2. QED
      BY <1>1, <2>1, <2>2, <2>3, <3>1 DEF Abandoned, Opening
  <2>5. CASE HandleUnlisten
    <3>1. /\ lost' = lost \ {Head(c2s).id} /\ overtaken \subseteq overtaken'
          /\ pending[Head(c2s).id] = "open" => Head(c2s).id \in overtaken'
      BY <2>3, <2>5 DEF HandleUnlisten
    <3>2. i # Head(c2s).id => Head(c2s) # Frame("unlisten", i)
      BY <2>3, FrameFacts
    <3>3. QED
      BY <1>1, <2>1, <2>2, <2>3, <3>1, <3>2 DEF Abandoned, Opening
  <2>6. QED
    BY <2>4, <2>5
<1>8. QED
  BY <1>4, <1>5, <1>6, <1>7 DEF WireInv, Watched, Unasked

(* The frames under way are gone, and perhaps the listeners of the broker.   *)
LEMMA WireOutage ==
    ASSUME WatchTypeOK, SessionInv, WireInv, ConnectorExit \/ BrokerRestart, UNCHANGED watchVars
    PROVE  WireInv'
<1> USE DEF sessionVars, clientVars, wireVars, loopVars, ghostVars,
            watchVars, mapVars, attemptVars, workerVars
<1> USE DEF BoundTo, Asked, Opening, Answers, Kept
<1>1. /\ c2s' = <<>> /\ s2c' = <<>> /\ registered \subseteq Ids
      /\ UNCHANGED <<severed, registered, ready, peer, sess, worker, wid>>
  BY DEF ConnectorExit, BrokerRestart, WatchTypeOK, SessionTypeOK
<1>2. \/ UNCHANGED <<bound, pending, broker, failed>>
      \/ (\A i \in Ids : bound'[i] = "none" /\ pending'[i] = "none") /\ Stale'
  <2>1. CASE ConnectorExit
    BY <2>1 DEF ConnectorExit
  <2>2. CASE BrokerRestart
    <3>1. broker' = broker + 1 /\ peer <= broker /\ broker \in Nat /\ peer \in Nat /\ peer' = peer
      BY <2>2 DEF BrokerRestart, SessionInv, WatchTypeOK, SessionTypeOK
    <3>2. Stale'
      BY <3>1 DEF Stale
    <3>3. QED
      BY <2>2, <3>2 DEF BrokerRestart
  <2>3. QED
    BY <2>1, <2>2
<1>3. Sent(c2s') = {} /\ Sent(s2c') = {} /\ \A i \in Ids : Once(c2s', Frame("listen", i)) /\ Followed(c2s', i)
  BY <1>1, SentOther
<1>4. \A i \in registered' : Watched(i) => Agreed(i)'
  <2> SUFFICES ASSUME NEW i \in registered', Watched(i)
               PROVE  Agreed(i)'
    OBVIOUS
  <2>1. i \in Ids /\ Agreed(i)
    BY <1>1 DEF WireInv
  <2>2. CASE UNCHANGED <<bound, pending, broker, failed>>
    BY <1>1, <1>3, <2>1, <2>2 DEF Agreed, Stale
  <2>3. CASE bound'[i] = "none" /\ pending'[i] = "none" /\ Stale'
    BY <1>3, <2>3 DEF Agreed
  <2>4. QED
    BY <1>2, <2>1, <2>2, <2>3
<1>5. \A k \in Keys : worker'[k] = "write" => Unasked(wid[k])'
  <2> SUFFICES ASSUME NEW k \in Keys, worker[k] = "write"
               PROVE  Unasked(wid[k])'
    BY <1>1
  <2>1. Unasked(wid[k])
    BY DEF WireInv
  <2>2. wid[k] \in registered => bound'[wid[k]] = "none" /\ pending'[wid[k]] = "none"
    BY <1>1, <1>2, <2>1 DEF Unasked
  <2>3. QED
    BY <1>1, <1>3, <2>1, <2>2 DEF Unasked
<1>6. \A i \in Ids : i \in registered' \cup severed' \/ Abandoned(i)'
  <2> SUFFICES ASSUME NEW i \in Ids, i \notin registered \cup severed
               PROVE  Abandoned(i)'
    BY <1>1
  <2>1. Abandoned(i)
    BY DEF WireInv
  <2>2. CASE ConnectorExit
    <3>1. Frame("unlisten", i) \in Sent(c2s) => i \in InFlight(c2s)
      <4>1. Frame("unlisten", i).id = i
        BY FrameFacts
      <4>2. QED
        BY <4>1, SentOther
    <3>2. pending' = pending /\ overtaken' = overtaken /\ lost \subseteq lost'
          /\ (i \in InFlight(c2s) /\ pending[i] = "open" => i \in lost')
      BY <2>2 DEF ConnectorExit, Hosted
    <3>3. QED
      BY <1>3, <2>1, <3>1, <3>2 DEF Abandoned
  <2>3. CASE BrokerRestart
    <3>1. pending'[i] = "none"
      BY <2>3 DEF BrokerRestart
    <3>2. QED
      BY <1>3, <3>1 DEF Abandoned
  <2>4. QED
    BY <2>2, <2>3
<1>7. QED
  BY <1>3, <1>4, <1>5, <1>6 DEF WireInv, Watched, Unasked

(* ResetPeerState. *)
LEMMA WireInvalidate ==
    ASSUME WatchTypeOK, WireInv, Invalidate, UNCHANGED watchVars
    PROVE  WireInv'
<1> USE DEF sessionVars, clientVars, wireVars, loopVars, ghostVars,
            watchVars, mapVars, attemptVars, workerVars
<1>1. /\ registered' = {} /\ severed' = severed \cup registered
      /\ UNCHANGED <<ready, bound, pending, c2s, s2c, worker, wid, lost, overtaken>>
  BY DEF Invalidate
<1>2. \A k \in Keys : worker'[k] = "write" => Unasked(wid[k])'
  BY <1>1 DEF WireInv, Unasked, Asked
<1>3. \A i \in Ids : Abandoned(i) => Abandoned(i)'
  BY <1>1 DEF Abandoned, Opening
<1>4. QED
  BY <1>1, <1>2, <1>3 DEF WireInv, Watched, Unasked

(* Every action of openOne is one of these. *)
LEMMA WireOpeners ==
    ASSUME WatchTypeOK, WatchInv, SessionInv, HandsInv, WireInv,
           NEW k \in Keys, OpenOne(k) \/ OpenTimesOut(k)
    PROVE  WireInv'
<1> USE DEF sessionVars, clientVars, wireVars, ghostVars,
            watchVars, mapVars, attemptVars, workerVars, Goto
<1>1. /\ UNCHANGED <<loopVars, broker, bound, pending, s2c>>
      /\ \A q \in Keys : q # k => worker'[q] = worker[q] /\ wid'[q] = wid[q]
  BY OneOpener
<1>2. Stale => Stale'
  BY <1>1 DEF Stale, loopVars
<1>3. ASSUME worker'[k] # "write"
      PROVE  /\ \A q \in Keys : StillWrites(q)
             /\ wid[k] \in Ids => \A q \in Keys : worker'[q] = "write" => wid[q] # wid[k]
  <2>1. \A q \in Keys : StillWrites(q)
    BY <1>1, <1>3 DEF StillWrites
  <2>2. \A q \in Keys : wid[q] # NoId => PortOf(wid[q]) = q
    BY DEF WatchInv, OpenInv
  <2>3. QED
    BY <1>3, <2>1, <2>2, IdFacts
<1>4. worker[k] \notin NoListener => wid[k] \in Ids
  BY NamesHeld
<1>5. wid[k] # NoId => Watched(wid[k])
  BY DEF WatchInv, OpenInv, Watched
<1>6. CASE Skip(k) \/ OpenGivesUp(k) \/ Check(k) \/ Reject(k) \/ Restore(k) \/ Publish(k)
  <2>1. worker'[k] # "write"
    BY <1>6 DEF Skip, OpenGivesUp, Check, Reject, Restore, Publish, WatchTypeOK
  <2>2. UNCHANGED <<bound, pending, c2s, s2c, severed, registered, ready, lost, overtaken, failed>>
    BY <1>6 DEF Skip, OpenGivesUp, Check, Reject, Restore, Publish
  <2>3. QED
    BY <1>2, <1>3, <2>1, <2>2, WireSame
<1>7. CASE OpenReserve(k)
  <2>1. PICK j \in Ids : /\ Reserve(j) /\ wid'[k] = j /\ PortOf(j) = k /\ bound[j] = "none" /\ pending[j] = "none"
                         /\ j \notin Held \cup registered \cup InFlight(c2s) \cup InFlight(s2c)
    BY <1>7, NewIdFree DEF OpenReserve, WatchTypeOK
  <2>2. ready[j] = "none" /\ Watched(j)
    BY <2>1 DEF HandsInv, Watched
  <2>3. \A q \in Keys : \/ StillWrites(q) /\ (worker'[q] = "write" => wid[q] # j)
                        \/ wid'[q] = j /\ Watched(j)
    BY <1>1, <2>1, <2>2 DEF StillWrites, Held
  <2>4. UNCHANGED <<bound, pending, c2s, s2c>>
    BY <1>7 DEF OpenReserve
  <2>5. QED
    BY <1>2, <2>1, <2>2, <2>3, <2>4, WireReserved
<1>8. CASE OpenWrite(k)
  <2>1. /\ wid[k] \in Ids /\ worker'[k] # "write" /\ c2s' = Append(c2s, Frame("listen", wid[k]))
        /\ UNCHANGED <<bound, pending, s2c, severed, registered, ready, lost, overtaken, failed>>
    BY <1>4, <1>8 DEF OpenWrite, WriteFrame, WatchTypeOK, NoListener
  <2>2. Unasked(wid[k])
    BY <1>8 DEF OpenWrite, WireInv
  <2>3. wid[k] \in registered \cup severed
    BY <2>2 DEF Unasked
  <2>4. QED
    BY <1>2, <1>3, <2>1, <2>2, <2>3, WireWritten
<1>9. CASE OpenCommit(k)
  <2>1. /\ wid[k] \in Ids /\ worker'[k] # "write" /\ c2s' = Append(c2s, Frame("commit", wid[k]))
        /\ UNCHANGED <<bound, pending, s2c, severed, registered, ready, lost, overtaken, failed>>
    BY <1>4, <1>9 DEF OpenCommit, WriteFrame, WatchTypeOK, NoListener
  <2>2. QED
    BY <1>2, <1>3, <2>1, WireWritten
<1>10. CASE OpenAnswer(k)
  <2>1. wid[k] \in Ids /\ worker'[k] # "write"
    BY <1>4, <1>10 DEF OpenAnswer, WatchTypeOK, NoListener
  <2>2. Watched(wid[k])
    BY <1>5, <2>1, IdFacts
  <2>3. /\ UNCHANGED <<bound, pending, c2s, s2c, severed, lost, overtaken, failed>>
        /\ ready'[wid[k]] = "none" /\ \A i \in Ids : i # wid[k] => ready'[i] = ready[i]
        /\ \/ registered' = registered
           \/ registered' = registered \ {wid[k]} /\ ready[wid[k]] = "err"
    BY <1>10, <2>1 DEF OpenAnswer, WatchTypeOK, SessionTypeOK
  <2>4. QED
    BY <1>2, <1>3, <2>1, <2>2, <2>3, WireAnswered
<1>11. CASE OpenCancelled(k) \/ OpenTimesOut(k) \/ CloseOpened(k)
  <2>1. wid[k] \in Ids /\ CloseListener(wid[k]) /\ worker'[k] # "write"
        /\ UNCHANGED <<bound, pending, s2c, severed, overtaken, failed>>
    BY <1>4, <1>11 DEF OpenCancelled, OpenTimesOut, CloseOpened, WatchTypeOK, NoListener
  <2>2. Watched(wid[k])
    BY <1>5, <2>1, IdFacts
  <2>3. QED
    BY <1>2, <1>3, <2>1, <2>2, WireClosed
<1>12. QED
  BY <1>6, <1>7, <1>8, <1>9, <1>10, <1>11 DEF OpenOne

(* So are the closes of sync and Reset. *)
LEMMA WireCloses ==
    ASSUME WatchTypeOK, WatchInv, SessionInv, WireInv, CloseRemoved \/ ResetCloses
    PROVE  WireInv'
<1> USE DEF sessionVars, clientVars, wireVars, loopVars, ghostVars,
            watchVars, mapVars, attemptVars, workerVars
<1>1. PICK j \in removed \cup doomed : CloseListener(j)
  BY DEF CloseRemoved, ResetCloses
<1>2. j \in Ids /\ Watched(j) /\ \A k \in Keys : wid[k] # j
  BY <1>1 DEF WatchTypeOK, WatchInv, CloseInv, Watched
<1>3. UNCHANGED <<bound, pending, s2c, severed, overtaken, failed, broker, peer, worker, wid>>
      /\ (sess' = sess \/ sess = "close")
  BY DEF CloseRemoved, ResetCloses, Cleared
<1>4. (Stale => Stale') /\ \A k \in Keys : StillWrites(k) /\ (worker'[k] = "write" => wid[k] # j)
  BY <1>2, <1>3 DEF Stale, StillWrites
<1>5. QED
  BY <1>1, <1>2, <1>3, <1>4, WireClosed

(* So are the steps of the session. *)
LEMMA WireLoop ==
    ASSUME WatchTypeOK, WatchInv, SessionInv, WireInv, SessionStep(Held), UNCHANGED watchVars
    PROVE  WireInv'
<1> USE DEF sessionVars, clientVars, wireVars, loopVars, ghostVars,
            watchVars, mapVars, attemptVars, workerVars
<1>1. \A k \in Keys : StillWrites(k) /\ (wid[k] # NoId => Watched(wid[k]))
  BY DEF StillWrites, WatchInv, OpenInv, Watched
<1>2. \A k \in Keys : worker'[k] = "write" => wid[k] # NoId
  BY DEF WatchInv, OpenInv, NoListener
<1>3. CASE AttachConnector \/ HelloOK \/ HelloFails \/ ClearClient \/ SetClient \/ Noticed
  <2>1. UNCHANGED <<bound, pending, c2s, s2c, severed, registered, ready, lost, overtaken, failed>>
    BY <1>3 DEF AttachConnector, HelloOK, HelloFails, ClearClient, SetClient, Noticed
  <2>2. Stale => Stale' \/ registered = {}
    <3>1. CASE HelloOK
      BY <3>1 DEF HelloOK, Stale, SessionInv, Fresh
    <3>2. CASE ~HelloOK
      BY <1>3, <3>2 DEF AttachConnector, HelloFails, ClearClient, SetClient, Noticed, Stale
    <3>3. QED
      BY <3>1, <3>2
  <2>3. QED
    BY <1>1, <2>1, <2>2, WireSame
<1>4. CASE Invalidate
  BY <1>4, WireInvalidate
<1>5. CASE Register(Held)
  <2>1. PICK j \in Ids : /\ Reserve(j) /\ PortOf(j) = Static /\ bound[j] = "none" /\ pending[j] = "none"
                         /\ j \notin Held \cup registered \cup InFlight(c2s) \cup InFlight(s2c)
    BY <1>5, NewIdFree DEF Register
  <2>2. ~Watched(j) /\ \A k \in Keys : wid[k] # j
    BY <2>1, SessionAssumption DEF Held, Watched
  <2>3. UNCHANGED <<bound, pending, c2s, s2c>> /\ (Stale => Stale')
    BY <1>5 DEF Register, Stale
  <2>4. QED
    BY <1>1, <2>1, <2>2, <2>3, WireReserved
<1>6. ASSUME sess \in {"write", "wait", "commit"}
      PROVE  /\ static \in Ids /\ static \in registered /\ ~Watched(static)
             /\ \A k \in Keys : worker'[k] = "write" => wid[k] # static
  <2>1. static \in Ids /\ static \in registered
    BY <1>6, NamesHeld DEF SessionInv
  <2>2. ~Watched(static)
    BY <2>1, IdFacts, SessionAssumption DEF SessionInv, Watched
  <2>3. QED
    BY <1>1, <1>2, <2>1, <2>2
<1>7. CASE RegisterWrite
  <2>1. /\ c2s' = Append(c2s, Frame("listen", static)) /\ sess = "write" /\ (Stale => Stale')
        /\ UNCHANGED <<bound, pending, s2c, severed, registered, ready, lost, overtaken, failed>>
    BY <1>7 DEF RegisterWrite, WriteFrame, Stale
  <2>2. QED
    BY <1>1, <1>6, <2>1, WireWritten
<1>8. CASE RegisterCommit
  <2>1. /\ c2s' = Append(c2s, Frame("commit", static)) /\ sess = "commit" /\ (Stale => Stale')
        /\ UNCHANGED <<bound, pending, s2c, severed, registered, ready, lost, overtaken, failed>>
    BY <1>8 DEF RegisterCommit, WriteFrame, Stale
  <2>2. QED
    BY <1>1, <1>6, <2>1, WireWritten
<1>9. CASE RegisterAnswer
  <2>1. /\ sess = "wait" /\ (Stale => Stale')
        /\ UNCHANGED <<bound, pending, c2s, s2c, severed, registered, lost, overtaken, failed>>
    BY <1>9 DEF RegisterAnswer, Stale
  <2>2. ready'[static] = "none" /\ \A i \in Ids : i # static => ready'[i] = ready[i]
    BY <1>6, <1>9, <2>1 DEF RegisterAnswer, WatchTypeOK, SessionTypeOK
  <2>3. QED
    BY <1>1, <1>6, <2>1, <2>2, WireAnswered
<1>10. QED
  BY <1>3, <1>4, <1>5, <1>7, <1>8, <1>9 DEF SessionStep

(* So is every step. *)
LEMMA WireStep ==
    ASSUME WatchTypeOK, WatchInv, SessionInv, HandsInv, WireInv, [WatchNext]_relayVars
    PROVE  WireInv'
<1> USE DEF sessionVars, clientVars, wireVars, loopVars, ghostVars,
            watchVars, mapVars, attemptVars, workerVars
<1>1. ASSUME UNCHANGED <<bound, pending, c2s, s2c, severed, registered, ready, lost, overtaken, failed>>,
             UNCHANGED <<broker, peer, wid>>,
             sess' = sess \/ sess # "invalidate",
             \A k \in Keys : worker'[k] = "write" => worker[k] = "write"
      PROVE  WireInv'
  BY <1>1, WireSame DEF StillWrites, Stale
<1>2. CASE UNCHANGED relayVars
  BY <1>1, <1>2 DEF relayVars
<1>3. CASE \E k \in Keys : LocalChange(k) \/ BackoffEnds(k)
  BY <1>1, <1>3 DEF LocalChange, BackoffEnds
<1>4. CASE Scan \/ BeginAttempt \/ Plan \/ SyncDone
  <2>1. \A k \in Keys : worker'[k] = "write" => worker[k] = "write"
    BY <1>4 DEF Scan, BeginAttempt, Plan, SyncDone, WatchTypeOK
  <2>2. QED
    BY <1>1, <1>4, <2>1 DEF Scan, BeginAttempt, Plan, SyncDone
<1>5. CASE ResetLocked \/ ResetCancels
  BY <1>1, <1>5 DEF ResetLocked, ResetCancels, Cleared
<1>6. CASE Outage \/ \E j \in Ids : RunListener(j)
  BY <1>6, WireOutage, WireListener DEF Outage, ListenerStep
<1>7. QED
  BY <1>2, <1>3, <1>4, <1>5, <1>6, WireOpeners, WireCloses, WireLoop, WireDispatch, WireListen, WireTaken
  DEF WatchNext, Session, Sync, Reset, HandleFrame, BrokerHandles

-----------------------------------------------------------------------------
(* Mappings and openers. *)

(* A Reset that is pending stays so until it happens. *)
LEMMA PendingStep ==
    ASSUME WatchTypeOK, SessionInv, [WatchNext]_relayVars, ResetPending
    PROVE  ResetPending' \/ Fresh \/ ResetLocked
<1> USE DEF sessionVars, clientVars, wireVars, loopVars, ghostVars,
            watchVars, mapVars, attemptVars, workerVars
<1>1. ASSUME UNCHANGED <<broker, peer, sess>>
      PROVE  ResetPending'
  BY <1>1 DEF ResetPending
<1>2. CASE UNCHANGED relayVars
  BY <1>1, <1>2 DEF relayVars
<1>3. CASE \E k \in Keys : LocalChange(k) \/ BackoffEnds(k)
  BY <1>1, <1>3 DEF LocalChange, BackoffEnds
<1>4. CASE \E k \in Keys : OpenOne(k) \/ OpenTimesOut(k)
  BY <1>1, <1>4, OneOpener
<1>5. CASE Sync
  BY <1>1, <1>5 DEF Sync, Scan, CloseRemoved, BeginAttempt, Plan, SyncDone
<1>6. CASE ResetCancels \/ ResetCloses
  BY <1>6 DEF ResetCancels, ResetCloses, Cleared, ResetPending
<1>7. CASE DispatchFrame \/ HandleFrame
  BY <1>1, <1>7 DEF DispatchFrame, Dispatch, HandleFrame, BrokerHandles, HandleListen, HandleCommit, HandleUnlisten
<1>8. CASE (ConnectorExit \/ BrokerRestart) /\ UNCHANGED watchVars
  <2>1. /\ broker' = broker \/ broker' = broker + 1
        /\ UNCHANGED <<peer, sess>> /\ peer <= broker /\ broker \in Nat /\ peer \in Nat
    BY <1>8 DEF ConnectorExit, BrokerRestart, SessionInv, WatchTypeOK, SessionTypeOK
  <2>2. QED
    BY <2>1 DEF ResetPending
<1>9. CASE SessionStep(Held)
  <2>1. CASE HelloOK
    BY <2>1 DEF HelloOK, ResetPending, Fresh
  <2>2. CASE AttachConnector \/ HelloFails \/ Invalidate \/ ClearClient \/ SetClient \/ Noticed
    BY <2>2 DEF AttachConnector, HelloFails, Invalidate, ClearClient, SetClient, Noticed, ResetPending
  <2>3. CASE Register(Held) \/ RegisterWrite \/ RegisterAnswer \/ RegisterCommit
    BY <2>3 DEF Register, RegisterWrite, RegisterAnswer, RegisterCommit, ResetPending
  <2>4. QED
    BY <1>9, <2>1, <2>2, <2>3 DEF SessionStep
<1>10. ASSUME NEW j \in Ids, ListenerStep(j)
       PROVE  ResetPending'
  BY <1>1, <1>10, ListenerEffect
<1>11. QED
  BY <1>2, <1>3, <1>4, <1>5, <1>6, <1>7, <1>8, <1>9, <1>10 DEF WatchNext, Session, Reset, Outage, ListenerStep

(* Someone gives the listener up in this step. *)
GivenUp(i) == i \in removed \cup doomed \/ \E k \in Keys : wid[k] = i /\ wid'[k] = NoId /\ active'[k] # i

(* Nothing else than the end of the broker, or a failure of its own, takes a *)
(* registered listener away.                                                 *)
LEMMA BackedStep ==
    ASSUME WatchTypeOK, WatchInv, SessionInv, WireInv, [WatchNext]_relayVars,
           NEW i \in registered, Watched(i), ~GivenUp(i)
    PROVE  ResetPending' \/ (i \in registered' /\ (Kept(i) => Kept(i)'))
<1> USE DEF sessionVars, clientVars, wireVars, loopVars, ghostVars,
            watchVars, mapVars, attemptVars, workerVars
<1> USE DEF BoundTo, Kept
<1>0. i \in Ids /\ i # NoId /\ registered \subseteq Ids
  BY IdFacts DEF WatchTypeOK, SessionTypeOK
<1>1. ASSUME bound' = bound, registered \subseteq registered', i \in failed => i \in failed'
      PROVE  i \in registered' /\ (Kept(i) => Kept(i)')
  BY <1>1
<1>2. CASE UNCHANGED relayVars
  BY <1>1, <1>2 DEF relayVars
<1>3. CASE \E k \in Keys : LocalChange(k) \/ BackoffEnds(k)
  BY <1>1, <1>3 DEF LocalChange, BackoffEnds
<1>4. CASE \E k \in Keys : OpenOne(k) \/ OpenTimesOut(k)
  <2>1. PICK k \in Keys : OpenOne(k) \/ OpenTimesOut(k)
    BY <1>4
  <2>2. bound' = bound /\ (i \in failed => i \in failed')
    <3>1. CASE OpenReserve(k)
      <4>1. PICK j \in Ids : Reserve(j) /\ j \notin registered
        BY <3>1, NewIdFree DEF OpenReserve
      <4>2. QED
        BY <3>1, <4>1 DEF OpenReserve, Reserve
    <3>2. CASE ~OpenReserve(k)
      <4>1. failed' = failed
        BY <2>1, <3>2 DEF OpenOne, OpenTimesOut, Skip, OpenGivesUp, OpenWrite, OpenAnswer,
                          OpenCancelled, OpenCommit, Check, Reject, Restore, Publish, CloseOpened
      <4>2. QED
        BY <2>1, <4>1, OneOpener
    <3>3. QED
      BY <3>1, <3>2
  <2>3. CASE registered \subseteq registered'
    BY <1>1, <2>2, <2>3
  <2>4. CASE ~(registered \subseteq registered')
    <3>1. registered' = registered \ {wid[k]}
      BY <2>1, <2>4, OpenerClient
    <3>2. wid[k] # i
      <4>1. SUFFICES ASSUME wid[k] = i
                     PROVE  FALSE
        OBVIOUS
      <4>2. wid'[k] = NoId /\ active'[k] = active[k]
        <5>1. worker[k] # "idle"
          BY <2>1, OneOpener
        <5>2. CASE OpenAnswer(k)
          BY <2>4, <5>2 DEF OpenAnswer, WatchTypeOK
        <5>3. CASE OpenCancelled(k) \/ OpenTimesOut(k) \/ CloseOpened(k)
          BY <5>3 DEF OpenCancelled, OpenTimesOut, CloseOpened, WatchTypeOK
        <5>4. CASE Skip(k) \/ OpenGivesUp(k) \/ Check(k) \/ Reject(k) \/ Restore(k) \/ Publish(k)
          BY <2>4, <5>4 DEF Skip, OpenGivesUp, Check, Reject, Restore, Publish
        <5>5. CASE OpenReserve(k) \/ OpenWrite(k) \/ OpenCommit(k)
          BY <2>4, <5>5 DEF OpenReserve, Reserve, OpenWrite, OpenCommit
        <5>6. QED
          BY <2>1, <5>2, <5>3, <5>4, <5>5 DEF OpenOne
      <4>3. active[k] = NoId
        BY <2>1, OneOpener DEF WatchInv, MapInv
      <4>4. QED
        BY <1>0, <4>1, <4>2, <4>3 DEF GivenUp
    <3>3. QED
      BY <2>2, <3>1, <3>2
  <2>5. QED
    BY <2>3, <2>4
<1>5. CASE CloseRemoved \/ ResetCloses
  <2>1. PICK j \in removed \cup doomed : CloseListener(j)
    BY <1>5 DEF CloseRemoved, ResetCloses
  <2>2. registered' = registered \ {j} /\ j # i
    BY <2>1 DEF CloseListener, GivenUp
  <2>3. bound' = bound /\ failed' = failed
    BY <1>5 DEF CloseRemoved, ResetCloses
  <2>4. QED
    BY <2>2, <2>3
<1>6. CASE Scan \/ BeginAttempt \/ Plan \/ SyncDone \/ ResetLocked \/ ResetCancels
  BY <1>1, <1>6 DEF Scan, BeginAttempt, Plan, SyncDone, ResetLocked, ResetCancels
<1>7. CASE DispatchFrame \/ ConnectorExit \/ HandleListen
  BY <1>1, <1>7 DEF DispatchFrame, Dispatch, ConnectorExit, HandleListen
<1>8. CASE HandleCommit
  BY <1>0, <1>8 DEF HandleCommit, WatchTypeOK, SessionTypeOK
<1>9. CASE HandleUnlisten
  <2>1. Head(c2s) = Frame("unlisten", Head(c2s).id) /\ Head(c2s) \in Sent(c2s)
    BY <1>9, SentTail, FrameFacts DEF HandleUnlisten, WatchTypeOK, SessionTypeOK
  <2>2. Frame("unlisten", i) \notin Sent(c2s)
    BY DEF WireInv, Agreed
  <2>3. i # Head(c2s).id
    BY <2>1, <2>2
  <2>4. QED
    BY <1>0, <1>9, <2>3 DEF HandleUnlisten, WatchTypeOK, SessionTypeOK
<1>10. CASE BrokerRestart
  <2>1. broker' = broker + 1 /\ peer' = peer /\ peer <= broker /\ broker \in Nat /\ peer \in Nat
    BY <1>10 DEF BrokerRestart, SessionInv, WatchTypeOK, SessionTypeOK
  <2>2. QED
    BY <2>1 DEF ResetPending
<1>11. CASE SessionStep(Held)
  <2>1. CASE Invalidate
    BY <2>1 DEF Invalidate, ResetPending
  <2>2. CASE ~Invalidate
    <3>1. bound' = bound /\ registered \subseteq registered'
      BY <1>11, <2>2 DEF SessionStep, AttachConnector, HelloOK, HelloFails, ClearClient, SetClient,
                         Register, Reserve, RegisterWrite, RegisterAnswer, RegisterCommit, Noticed
    <3>2. CASE Register(Held)
      <4>1. static' \notin registered /\ failed' = failed \ {static'}
        BY <3>2, NewIdFree DEF Register, Reserve
      <4>2. QED
        BY <1>1, <3>1, <4>1
    <3>3. CASE ~Register(Held)
      <4>1. failed' = failed
        BY <1>11, <2>2, <3>3 DEF SessionStep, AttachConnector, HelloOK, HelloFails, ClearClient, SetClient,
                                 RegisterWrite, RegisterAnswer, RegisterCommit, Noticed
      <4>2. QED
        BY <1>1, <3>1, <4>1
    <3>4. QED
      BY <3>2, <3>3
  <2>3. QED
    BY <2>1, <2>2
<1>12. ASSUME NEW j \in Ids, ListenerStep(j)
       PROVE  i \in registered' /\ (Kept(i) => Kept(i)')
  <2>1. /\ registered' = registered
        /\ i # j => bound'[i] = bound[i]
        /\ Opens(j) \/ Refused(j) \/ Resends(j) \/ Fails(j)
    BY <1>0, <1>12, ListenerEffect
  <2>2. failed \subseteq failed' /\ (bound'[j] # "none" \/ bound'[j] = bound[j] \/ j \in failed')
    BY <2>1 DEF Opens, Refused, Resends, Fails
  <2>3. QED
    BY <2>1, <2>2
<1>13. QED
  BY <1>2, <1>3, <1>4, <1>5, <1>6, <1>7, <1>8, <1>9, <1>10, <1>11, <1>12
  DEF WatchNext, Session, Sync, Reset, HandleFrame, BrokerHandles, Outage, ListenerStep

(* What sync and Reset do to the mappings and to the openers. *)
LEMMA OthersMove ==
    ASSUME WatchTypeOK, WatchInv, [WatchNext]_relayVars, NEW k \in Keys,
           ~(OpenOne(k) \/ OpenTimesOut(k))
    PROVE  /\ active'[k] \in {active[k], NoId} /\ wid'[k] = wid[k]
           /\ \/ worker'[k] = worker[k] /\ gen'[k] = gen[k] /\ generation' = generation
              \/ worker'[k] \in {"idle", "dial"}
              \/ gen'[k] # generation'
           /\ ResetLocked => active'[k] = NoId /\ gen'[k] # generation'
<1> USE DEF sessionVars, clientVars, wireVars, loopVars, ghostVars,
            watchVars, mapVars, attemptVars, workerVars
<1>1. ASSUME UNCHANGED <<active, wid, worker, gen, generation>>
      PROVE  active'[k] = active[k] /\ wid'[k] = wid[k] /\ worker'[k] = worker[k] /\ gen'[k] = gen[k]
             /\ generation' = generation
  BY <1>1
<1>2. ASSUME ResetLocked
      PROVE  active'[k] = NoId /\ gen'[k] # generation' /\ wid'[k] = wid[k]
  <2>1. gen[k] \in Nat /\ generation \in Nat /\ gen[k] <= generation
    BY DEF WatchTypeOK, WatchInv, OpenInv
  <2>2. QED
    BY <1>2, <2>1 DEF ResetLocked
<1>3. CASE ResetLocked
  BY <1>2, <1>3
<1>4. CASE ~ResetLocked
  <2>1. CASE UNCHANGED relayVars
    BY <1>1, <1>4, <2>1 DEF relayVars
  <2>2. CASE (SessionStep(Held) /\ UNCHANGED watchVars) \/ DispatchFrame \/ HandleFrame \/ Outage
             \/ \E j \in Ids : RunListener(j)
    BY <1>1, <1>4, <2>2 DEF DispatchFrame, HandleFrame, Outage, RunListener
  <2>3. CASE ResetCancels \/ ResetCloses
    BY <1>1, <1>4, <2>3 DEF ResetCancels, ResetCloses
  <2>4. CASE Scan \/ CloseRemoved \/ BeginAttempt
    BY <1>4, <2>4 DEF Scan, CloseRemoved, BeginAttempt, WatchTypeOK
  <2>5. CASE Plan
    BY <1>4, <2>5 DEF Plan, WatchTypeOK
  <2>6. CASE SyncDone
    BY <1>4, <2>6 DEF SyncDone
  <2>7. CASE \E q \in Keys : LocalChange(q) \/ BackoffEnds(q)
    BY <1>1, <1>4, <2>7 DEF LocalChange, BackoffEnds
  <2>8. CASE \E q \in Keys : OpenOne(q) \/ OpenTimesOut(q)
    <3>1. PICK q \in Keys : (OpenOne(q) \/ OpenTimesOut(q)) /\ q # k
      BY <2>8
    <3>2. QED
      BY <1>4, <3>1, OneOpener
  <2>9. QED
    BY <1>4, <2>1, <2>2, <2>3, <2>4, <2>5, <2>6, <2>7, <2>8 DEF WatchNext, Session, Sync, Reset
<1>5. QED
  BY <1>3, <1>4

(* A mapping stays backed, and a published one is, or a Reset is pending. *)
LEMMA ActiveStep ==
    ASSUME WatchTypeOK, WatchInv, SessionInv, WireInv, OpenersInv, ActiveIsLive, [WatchNext]_relayVars
    PROVE  ActiveIsLive'
<1> SUFFICES ASSUME NEW k \in Keys, active'[k] # NoId
             PROVE  ResetPending' \/ (active'[k] \in registered' /\ Kept(active[k])')
  BY DEF ActiveIsLive, Kept, BoundTo
<1>1. CASE active'[k] = active[k]
  <2>1. PICK i \in Ids : i = active[k] /\ i = active'[k]
    BY <1>1 DEF WatchTypeOK
  <2>2. PortOf(i) = k /\ Watched(i) /\ wid[k] = NoId /\ i # NoId
    BY <1>1, <2>1 DEF WatchInv, MapInv, OpenInv, NoListener, Watched
  <2>3. ~Fresh /\ ~ResetLocked
    BY <2>1, <2>2 DEF SessionInv, ResetLocked
  <2>4. ~GivenUp(i)
    <3>1. i \notin removed \cup doomed
      BY <2>1 DEF WatchInv, CloseInv
    <3>2. \A q \in Keys : wid[q] # i
      BY <2>2 DEF WatchInv, OpenInv
    <3>3. QED
      BY <3>1, <3>2 DEF GivenUp
  <2>5. CASE ResetPending
    BY <2>3, <2>5, PendingStep
  <2>6. CASE i \in registered /\ Kept(i)
    <3>1. ResetPending' \/ (i \in registered' /\ Kept(i)')
      BY <2>2, <2>4, <2>6, BackedStep
    <3>2. QED
      BY <2>1, <3>1 DEF Kept, BoundTo
  <2>7. QED
    BY <1>1, <2>1, <2>5, <2>6 DEF ActiveIsLive, Kept, BoundTo
<1>2. CASE active'[k] # active[k]
  <2>1. OpenOne(k) \/ OpenTimesOut(k)
    BY <1>2, OthersMove
  <2>2. active'[k] = wid[k] /\ worker[k] = "publish" /\ gen[k] = generation
    BY <1>2, <2>1, OpenerGoes
  <2>3. Publish(k)
    BY <2>1, <2>2 DEF OpenOne, OpenTimesOut, Skip, OpenReserve, OpenGivesUp, OpenWrite, OpenAnswer,
                      OpenCancelled, OpenCommit, Check, Reject, Restore, CloseOpened
  <2>4. (wid[k] \in registered /\ Kept(wid[k])) \/ ResetPending
    BY <2>2 DEF OpenersInv, Believes
  <2>5. UNCHANGED <<registered, bound, failed, broker, peer, sess>>
    BY <2>3 DEF Publish, sessionVars, clientVars, wireVars, loopVars, ghostVars
  <2>6. QED
    BY <2>2, <2>4, <2>5 DEF Kept, BoundTo, ResetPending
<1>3. QED
  BY <1>1, <1>2

(* An opener of the current generation is right about its listener. *)
LEMMA OpenersStep ==
    ASSUME WatchTypeOK, WatchTypeOK', WatchInv, WatchInv', SessionInv, WireInv, OpenersInv,
           [WatchNext]_relayVars
    PROVE  OpenersInv'
<1> SUFFICES ASSUME NEW k \in Keys, gen'[k] = generation'
             PROVE  /\ worker'[k] \in {"write", "wait"} => wid'[k] \in registered' \/ ResetPending'
                    /\ worker'[k] \in {"commit", "opened", "restore", "publish"} =>
                          (wid'[k] \in registered' /\ Kept(wid[k])') \/ ResetPending'
  BY DEF OpenersInv, Believes
<1>1. CASE ~(OpenOne(k) \/ OpenTimesOut(k))
  <2>1. ~ResetLocked /\ wid'[k] = wid[k]
    BY <1>1, OthersMove
  <2>2. CASE worker'[k] \in {"idle", "dial"}
    BY <2>2
  <2>3. CASE worker'[k] = worker[k] /\ gen'[k] = gen[k] /\ generation' = generation
    <3> SUFFICES ASSUME worker[k] \in {"write", "wait", "commit", "opened", "restore", "publish"}
                 PROVE  /\ worker[k] \in {"write", "wait"} => wid[k] \in registered' \/ ResetPending'
                        /\ worker[k] \in {"commit", "opened", "restore", "publish"} =>
                              (wid[k] \in registered' /\ Kept(wid[k])') \/ ResetPending'
      BY <2>1, <2>3
    <3>1. PICK i \in Ids : i = wid[k] /\ i = wid'[k]
      BY <2>1, NamesHeld DEF NoListener
    <3>2. PortOf(i) = k /\ Watched(i) /\ i # NoId
      BY <3>1, IdFacts DEF WatchInv, OpenInv, Watched
    <3>3. ~Fresh
      BY <3>1, <3>2 DEF SessionInv
    <3>4. ~GivenUp(i)
      <4>1. i \notin removed \cup doomed
        BY <3>1 DEF WatchInv, CloseInv
      <4>2. \A q \in Keys : wid[q] = i => q = k
        BY <3>2 DEF WatchInv, OpenInv
      <4>3. QED
        BY <3>1, <3>2, <4>1, <4>2 DEF GivenUp
    <3>5. CASE ResetPending
      BY <2>1, <3>3, <3>5, PendingStep
    <3>6. CASE ~ResetPending
      <4>1. /\ i \in registered
            /\ worker[k] \in {"commit", "opened", "restore", "publish"} => Kept(i)
        BY <2>3, <3>1, <3>6 DEF OpenersInv, Believes
      <4>2. ResetPending' \/ (i \in registered' /\ (Kept(i) => Kept(i)'))
        BY <3>2, <3>4, <4>1, BackedStep
      <4>3. QED
        BY <3>1, <4>1, <4>2 DEF Kept, BoundTo
    <3>7. QED
      BY <3>5, <3>6
  <2>4. QED
    BY <1>1, <2>2, <2>3, OthersMove
<1>2. CASE OpenOne(k) \/ OpenTimesOut(k)
  <2>1. /\ gen' = gen /\ generation' = generation /\ UNCHANGED <<broker, peer, sess, bound>>
    BY <1>2, OneOpener DEF loopVars
  <2>2. (ResetPending' <=> ResetPending) /\ Believes(k) /\ gen[k] = generation
    BY <2>1 DEF ResetPending, OpenersInv
  <2> USE DEF sessionVars, clientVars, wireVars, loopVars, ghostVars,
              watchVars, mapVars, attemptVars, workerVars, Goto
  <2>3. CASE OpenReserve(k)
    <3>1. worker'[k] = "write" /\ wid'[k] \in registered'
      BY <2>3 DEF OpenReserve, Reserve, WatchTypeOK
    <3>2. QED
      BY <3>1
  <2>4. CASE OpenWrite(k) \/ OpenCommit(k) \/ Restore(k)
    <3>1. /\ wid' = wid /\ registered' = registered /\ failed' = failed
          /\ \/ worker[k] = "write" /\ worker'[k] = "wait"
             \/ worker[k] = "commit" /\ worker'[k] = "opened"
             \/ worker[k] = "restore" /\ worker'[k] = "publish"
      BY <2>4 DEF OpenWrite, OpenCommit, Restore, WatchTypeOK
    <3>2. QED
      BY <2>1, <2>2, <3>1 DEF Believes, Kept, BoundTo
  <2>5. CASE Check(k)
    <3>1. /\ wid' = wid /\ registered' = registered /\ failed' = failed
          /\ \/ worker[k] = "opened" /\ worker'[k] = "restore"
             \/ worker'[k] \in {"idle", "close", "reject"}
      BY <2>5 DEF Check, WatchTypeOK
    <3>2. QED
      BY <2>1, <2>2, <3>1 DEF Believes, Kept, BoundTo
  <2>6. CASE Skip(k) \/ OpenGivesUp(k) \/ Reject(k) \/ Publish(k) \/ CloseOpened(k)
             \/ OpenCancelled(k) \/ OpenTimesOut(k)
    <3>1. worker'[k] \in {"idle", "failed", "close"}
      BY <2>6 DEF Skip, OpenGivesUp, Reject, Publish, CloseOpened, OpenCancelled, OpenTimesOut, WatchTypeOK
    <3>2. QED
      BY <3>1
  <2>7. CASE OpenAnswer(k)
    <3>1. worker[k] = "wait" /\ wid[k] \in Ids
      BY <2>7, NamesHeld DEF OpenAnswer, NoListener
    <3>2. Watched(wid[k])
      BY <3>1, IdFacts DEF WatchInv, OpenInv, Watched
    <3>3. CASE worker'[k] = "failed"
      BY <3>3
    <3>4. CASE worker'[k] # "failed"
      <4>1. /\ worker'[k] = "commit" /\ wid' = wid /\ registered' = registered /\ failed' = failed
            /\ ready[wid[k]] = "ok"
        BY <2>7, <3>4 DEF OpenAnswer, WatchTypeOK
      <4>2. wid[k] \in registered \/ ResetPending
        BY <2>2, <3>1 DEF Believes
      <4>3. wid[k] \in registered => Kept(wid[k]) \/ ResetPending
        BY <3>2, <4>1 DEF WireInv, Agreed, Stale, ResetPending
      <4>4. QED
        BY <2>1, <2>2, <4>1, <4>2, <4>3 DEF Kept, BoundTo
    <3>5. QED
      BY <3>3, <3>4
  <2>8. QED
    BY <1>2, <2>3, <2>4, <2>5, <2>6, <2>7 DEF OpenOne
<1>3. QED
  BY <1>1, <1>2

-----------------------------------------------------------------------------
(* Orphans. *)

(* An orphan, in terms of the frames under way. *)
LEMMA OrphanSent == \A i : Orphan(i) <=> BoundTo(i) /\ i \notin registered /\ Frame("unlisten", i) \notin Sent(c2s)
  BY DEF Orphan, BoundTo, Sent

(* ListenersOwned's part about orphans. *)
OrphansKnown == \A i \in Ids : Orphan(i) => i \in lost \cup overtaken \cup severed

(* Close leaves LISTEN_CLOSE behind, or a listener that lost it. *)
LEMMA OrphansClosed ==
    ASSUME WatchTypeOK, OrphansKnown, UNCHANGED <<bound, overtaken, severed>>, NEW j \in Ids, CloseListener(j)
    PROVE  OrphansKnown'
<1> SUFFICES ASSUME NEW i \in Ids, Orphan(i)'
             PROVE  i \in lost' \cup overtaken' \cup severed'
  BY DEF OrphansKnown
<1>1. BoundTo(i)' /\ i \notin registered' /\ Frame("unlisten", i) \notin Sent(c2s')
  BY OrphanSent DEF Orphan, BoundTo, Sent
<1>2. BoundTo(i) /\ registered' = registered \ {j} /\ lost \subseteq lost'
  BY <1>1, CloseEffect DEF BoundTo
<1>3. PICK u \in Frames : u = Frame("unlisten", j)
  BY FrameFacts
<1>4. Sent(Append(c2s, u)) = Sent(c2s) \cup {u}
  BY SentAppend DEF WatchTypeOK, SessionTypeOK
<1>5. Frame("unlisten", i) \notin Sent(c2s)
  BY <1>1, <1>3, <1>4, CloseEffect
<1>6. CASE i \notin registered
  BY <1>2, <1>5, <1>6, OrphanSent DEF OrphansKnown
<1>7. CASE i \in registered
  <2>1. i = j
    BY <1>1, <1>2, <1>7
  <2>2. c2s' # Append(c2s, u)
    BY <1>1, <1>3, <1>4, <2>1
  <2>3. lost' = lost \cup ({j} \cap Hosted)
    BY <1>3, <1>7, <2>1, <2>2, CloseEffect
  <2>4. QED
    BY <1>2, <2>1, <2>3 DEF Hosted, BoundTo
<1>8. QED
  BY <1>6, <1>7

(* The broker takes LISTEN_CLOSE of no listener but its own. *)
LEMMA OrphansHandled ==
    ASSUME WatchTypeOK, WireInv, OrphansKnown, BrokerHandles
    PROVE  OrphansKnown'
<1> USE DEF sessionVars, clientVars, wireVars, loopVars, ghostVars
<1> SUFFICES ASSUME NEW i \in Ids, Orphan(i)'
             PROVE  i \in lost' \cup overtaken' \cup severed'
  BY DEF OrphansKnown
<1>1. BoundTo(i)' /\ i \notin registered' /\ Frame("unlisten", i) \notin Sent(c2s')
  BY DEF Orphan, BoundTo, Sent
<1>2. /\ c2s \in Seq(Frames) /\ c2s # <<>> /\ c2s' = Tail(c2s)
      /\ UNCHANGED <<registered, severed>>
  BY DEF BrokerHandles, HandleListen, HandleCommit, HandleUnlisten, WatchTypeOK, SessionTypeOK
<1>3. PICK f \in Frames : /\ f = Head(c2s) /\ f = Frame(f.type, f.id) /\ f.id \in Ids
                          /\ Sent(c2s) \subseteq Sent(c2s') \cup {f}
  BY <1>2, SentTail, FrameFacts
<1>4. CASE HandleListen \/ HandleCommit
  <2>1. f # Frame("unlisten", i) /\ lost' = lost /\ overtaken' = overtaken
    BY <1>3, <1>4, FrameFacts DEF HandleListen, HandleCommit
  <2>2. BoundTo(i)
    BY <1>1, <1>4 DEF HandleListen, HandleCommit, BoundTo, WatchTypeOK, SessionTypeOK
  <2>3. QED
    BY <1>1, <1>2, <1>3, <2>1, <2>2, OrphanSent DEF OrphansKnown
<1>5. CASE HandleUnlisten
  <2>1. i # f.id /\ BoundTo(i) /\ lost' = lost \ {f.id} /\ overtaken \subseteq overtaken'
    BY <1>1, <1>3, <1>5 DEF HandleUnlisten, BoundTo, WatchTypeOK, SessionTypeOK
  <2>2. f # Frame("unlisten", i)
    BY <2>1, FrameFacts
  <2>3. Orphan(i)
    BY <1>1, <1>2, <1>3, <2>1, <2>2, OrphanSent
  <2>4. QED
    BY <1>2, <2>1, <2>3 DEF OrphansKnown
<1>6. QED
  BY <1>4, <1>5 DEF BrokerHandles

(* A goroutine binds no listener that nobody will close. *)
LEMMA OrphansListener ==
    ASSUME WatchTypeOK, WireInv, OrphansKnown, NEW j \in Ids, ListenerStep(j)
    PROVE  OrphansKnown'
<1> SUFFICES ASSUME NEW i \in Ids, Orphan(i)'
             PROVE  i \in lost' \cup overtaken' \cup severed'
  BY DEF OrphansKnown
<1>1. bound'[i] # "none" /\ i \notin registered' /\ Frame("unlisten", i) \notin Sent(c2s')
  BY DEF Orphan, Sent
<1>2. /\ UNCHANGED <<c2s, registered, severed>>
      /\ i # j => bound'[i] = bound[i]
      /\ lost \ {j} \subseteq lost' /\ overtaken \ {j} \subseteq overtaken'
      /\ Opens(j) \/ Refused(j) \/ Resends(j) \/ Fails(j)
  BY ListenerEffect
<1>3. ASSUME bound[i] # "none"
      PROVE  i \in lost \cup overtaken \cup severed
  BY <1>1, <1>2, <1>3, OrphanSent DEF OrphansKnown, BoundTo
<1>4. CASE i # j
  BY <1>1, <1>2, <1>3, <1>4
<1>5. CASE i = j
  <2>1. CASE Opens(j)
    <3>1. i \in registered \cup severed \/ Abandoned(i)
      BY DEF WireInv
    <3>2. QED
      BY <1>1, <1>2, <1>5, <2>1, <3>1 DEF Opens, Abandoned, Opening
  <2>2. CASE Refused(j)
    BY <1>1, <1>2, <1>3, <1>5, <2>2 DEF Refused
  <2>3. CASE Resends(j)
    BY <1>1, <1>2, <1>3, <1>5, <2>3 DEF Resends
  <2>4. CASE Fails(j)
    BY <1>1, <1>5, <2>4 DEF Fails
  <2>5. QED
    BY <1>2, <2>1, <2>2, <2>3, <2>4
<1>6. QED
  BY <1>4, <1>5

(* So in every step. *)
LEMMA OrphansStep ==
    ASSUME WatchTypeOK, WatchInv, SessionInv, WireInv, OrphansKnown, [WatchNext]_relayVars
    PROVE  OrphansKnown'
<1> USE DEF sessionVars, clientVars, wireVars, loopVars, ghostVars,
            watchVars, mapVars, attemptVars, workerVars
<1>1. ASSUME UNCHANGED <<bound, registered, c2s, lost, overtaken, severed>>
      PROVE  OrphansKnown'
  BY <1>1 DEF OrphansKnown, Orphan
<1>2. ASSUME UNCHANGED <<bound, registered, lost, overtaken, severed>>, NEW f \in Frames, c2s' = Append(c2s, f)
      PROVE  OrphansKnown'
  <2> SUFFICES ASSUME NEW i \in Ids, Orphan(i)'
               PROVE  i \in lost' \cup overtaken' \cup severed'
    BY DEF OrphansKnown
  <2>1. BoundTo(i)' /\ i \notin registered' /\ Frame("unlisten", i) \notin Sent(c2s')
    BY DEF Orphan, BoundTo, Sent
  <2>2. Sent(c2s') = Sent(c2s) \cup {f}
    BY <1>2, SentAppend DEF WatchTypeOK, SessionTypeOK
  <2>3. QED
    BY <1>2, <2>1, <2>2, OrphanSent DEF OrphansKnown, BoundTo
<1>3. ASSUME UNCHANGED <<bound, c2s>>, NEW j \in Ids, Reserve(j)
      PROVE  OrphansKnown'
  BY <1>3 DEF Reserve, OrphansKnown, Orphan
<1>4. CASE UNCHANGED relayVars
  BY <1>1, <1>4 DEF relayVars
<1>5. CASE \E k \in Keys : LocalChange(k) \/ BackoffEnds(k)
  BY <1>1, <1>5 DEF LocalChange, BackoffEnds
<1>6. CASE Scan \/ BeginAttempt \/ Plan \/ SyncDone \/ ResetLocked \/ ResetCancels \/ DispatchFrame
  BY <1>1, <1>6 DEF Scan, BeginAttempt, Plan, SyncDone, ResetLocked, ResetCancels, DispatchFrame, Dispatch
<1>7. CASE CloseRemoved \/ ResetCloses
  <2>1. PICK j \in removed \cup doomed : CloseListener(j)
    BY <1>7 DEF CloseRemoved, ResetCloses
  <2>2. j \in Ids /\ UNCHANGED <<bound, overtaken, severed>>
    BY <1>7, <2>1 DEF CloseRemoved, ResetCloses, WatchTypeOK
  <2>3. QED
    BY <2>1, <2>2, OrphansClosed
<1>8. CASE HandleFrame
  BY <1>8, OrphansHandled DEF HandleFrame
<1>9. CASE ConnectorExit \/ BrokerRestart
  <2> SUFFICES ASSUME NEW i \in Ids, Orphan(i)'
               PROVE  i \in lost' \cup overtaken' \cup severed'
    BY DEF OrphansKnown
  <2>1. bound'[i] # "none" /\ i \notin registered'
    BY DEF Orphan
  <2>2. ConnectorExit
    BY <1>9, <2>1 DEF BrokerRestart
  <2>3. /\ lost' = lost \cup ((InFlight(c2s) \cup InFlight(s2c)) \cap Hosted)
        /\ UNCHANGED <<bound, registered, overtaken, severed>>
    BY <2>2 DEF ConnectorExit
  <2>4. CASE Frame("unlisten", i) \in Sent(c2s)
    <3>1. i \in InFlight(c2s)
      BY <2>4, SentOther, FrameFacts
    <3>2. QED
      BY <2>1, <2>3, <3>1 DEF Hosted
  <2>5. CASE Frame("unlisten", i) \notin Sent(c2s)
    BY <2>1, <2>3, <2>5, OrphanSent DEF OrphansKnown, BoundTo
  <2>6. QED
    BY <2>4, <2>5
<1>10. CASE SessionStep(Held)
  <2>1. CASE AttachConnector \/ HelloOK \/ HelloFails \/ ClearClient \/ SetClient \/ RegisterAnswer \/ Noticed
    BY <1>1, <2>1 DEF AttachConnector, HelloOK, HelloFails, ClearClient, SetClient, RegisterAnswer, Noticed
  <2>2. CASE Invalidate
    BY <2>2 DEF Invalidate, OrphansKnown, Orphan
  <2>3. CASE Register(Held)
    <3>1. PICK j \in Ids : Reserve(j)
      BY <2>3, NewIdFree DEF Register
    <3>2. UNCHANGED <<bound, c2s>>
      BY <2>3 DEF Register
    <3>3. QED
      BY <1>3, <3>1, <3>2
  <2>4. CASE RegisterWrite \/ RegisterCommit
    <3>1. PICK f \in Frames : c2s' = Append(c2s, f)
      <4>1. static \in Ids
        BY <2>4, NamesHeld DEF RegisterWrite, RegisterCommit
      <4>2. Frame("listen", static) \in Frames /\ Frame("commit", static) \in Frames
        BY <4>1, FrameFacts
      <4>3. QED
        BY <2>4, <4>2 DEF RegisterWrite, RegisterCommit, WriteFrame
    <3>2. QED
      BY <1>2, <2>4, <3>1 DEF RegisterWrite, RegisterCommit
  <2>5. QED
    BY <1>10, <2>1, <2>2, <2>3, <2>4 DEF SessionStep
<1>11. ASSUME NEW k \in Keys, OpenOne(k) \/ OpenTimesOut(k)
       PROVE  OrphansKnown'
  <2>1. worker[k] \notin NoListener => wid[k] \in Ids
    BY NamesHeld
  <2>2. CASE Skip(k) \/ OpenGivesUp(k) \/ Check(k) \/ Reject(k) \/ Restore(k) \/ Publish(k)
    BY <1>1, <2>2 DEF Skip, OpenGivesUp, Check, Reject, Restore, Publish
  <2>3. CASE OpenReserve(k)
    <3>1. PICK j \in Ids : Reserve(j)
      BY <2>3, NewIdFree DEF OpenReserve
    <3>2. UNCHANGED <<bound, c2s>>
      BY <2>3 DEF OpenReserve
    <3>3. QED
      BY <1>3, <3>1, <3>2
  <2>4. CASE OpenWrite(k) \/ OpenCommit(k)
    <3>1. PICK f \in Frames : c2s' = Append(c2s, f)
      <4>1. wid[k] \in Ids
        BY <2>1, <2>4 DEF OpenWrite, OpenCommit, NoListener
      <4>2. Frame("listen", wid[k]) \in Frames /\ Frame("commit", wid[k]) \in Frames
        BY <4>1, FrameFacts
      <4>3. QED
        BY <2>4, <4>2 DEF OpenWrite, OpenCommit, WriteFrame
    <3>2. QED
      BY <1>2, <2>4, <3>1 DEF OpenWrite, OpenCommit
  <2>5. CASE OpenAnswer(k)
    <3>1. wid[k] \in Ids
      BY <2>1, <2>5 DEF OpenAnswer, NoListener
    <3>2. Watched(wid[k])
      BY <3>1, IdFacts DEF WatchInv, OpenInv, Watched
    <3>3. UNCHANGED <<bound, c2s, lost, overtaken, severed>>
      BY <2>5 DEF OpenAnswer
    <3>4. CASE registered' = registered
      BY <1>1, <3>3, <3>4
    <3>5. CASE registered' # registered
      <4>1. registered' = registered \ {wid[k]} /\ ready[wid[k]] = "err" /\ wid[k] \in registered
        BY <2>5, <3>5 DEF OpenAnswer
      <4>2. ~BoundTo(wid[k])
        BY <3>2, <4>1 DEF WireInv, Agreed
      <4>3. QED
        BY <3>3, <4>1, <4>2 DEF OrphansKnown, Orphan, BoundTo
    <3>6. QED
      BY <3>4, <3>5
  <2>6. CASE OpenCancelled(k) \/ OpenTimesOut(k) \/ CloseOpened(k)
    <3>1. wid[k] \in Ids /\ CloseListener(wid[k]) /\ UNCHANGED <<bound, overtaken, severed>>
      BY <2>1, <2>6 DEF OpenCancelled, OpenTimesOut, CloseOpened, NoListener
    <3>2. QED
      BY <3>1, OrphansClosed
  <2>7. QED
    BY <1>11, <2>2, <2>3, <2>4, <2>5, <2>6 DEF OpenOne
<1>12. QED
  BY <1>4, <1>5, <1>6, <1>7, <1>8, <1>9, <1>10, <1>11, OrphansListener
  DEF WatchNext, Session, Sync, Reset, Outage, ListenerStep

-----------------------------------------------------------------------------
(* The theorems. *)

(* The initial states satisfy the invariant. *)
LEMMA RelayInit == WatchInit => RelayInv
<1> SUFFICES ASSUME WatchInit
             PROVE  RelayInv
  OBVIOUS
<1> USE DEF WatchInit, SessionInit
<1>1. SessionTypeOK
  <2>1. <<>> \in Seq(Frames)
    OBVIOUS
  <2>2. broker \in 1 .. MaxRestarts + 1 /\ peer \in 0 .. MaxRestarts + 1 /\ faults \in 0 .. MaxFaults
    BY SessionAssumption
  <2>3. bound \in [Ids -> {"none", "bound", "serving"}] /\ ready \in [Ids -> {"none", "ok", "err"}]
        /\ pending \in [Ids -> {"none", "open", "ok", "err", "unlisten"}]
    OBVIOUS
  <2>4. inited \in BOOLEAN /\ dialer \in BOOLEAN /\ static \in Ids \cup {NoId}
    OBVIOUS
  <2>5. QED
    BY <2>1, <2>2, <2>3, <2>4 DEF SessionTypeOK
<1>2. WatchTypeOK
  <2>1. changes \in 0 .. MaxChanges /\ generation \in 0 .. MaxRestarts /\ gen \in [Keys -> 0 .. MaxRestarts]
    BY SessionAssumption, ChangesAssumption
  <2>2. active \in [Keys -> Ids \cup {NoId}] /\ wid \in [Keys -> Ids \cup {NoId}]
    OBVIOUS
  <2>3. /\ of \in [Keys -> Hosts \cup {NoHost}] /\ rejected \in [Keys -> Hosts \cup {NoHost}]
        /\ desired \in [Keys -> Hosts \cup {NoHost}]
    OBVIOUS
  <2>4. cancel \in BOOLEAN /\ taken \in BOOLEAN /\ cancelled \in BOOLEAN
    OBVIOUS
  <2>5. QED
    BY <1>1, <2>1, <2>2, <2>3, <2>4 DEF WatchTypeOK
<1>3. WatchInv
  BY DEF WatchInv, MapInv, OpenInv, CloseInv, NoListener
<1>4. Sent(c2s) = {} /\ Sent(s2c) = {} /\ \A i \in Ids : Once(c2s, Frame("listen", i)) /\ Followed(c2s, i)
  BY SentOther
<1>5. SessionInv
  BY <1>4 DEF SessionInv, Fresh
<1>6. HandsInv
  BY DEF HandsInv
<1>7. WireInv
  BY <1>4 DEF WireInv, Abandoned, Opening
<1>8. OpenersInv /\ ActiveIsLive /\ ListenersOwned
  BY DEF OpenersInv, Believes, ActiveIsLive, ListenersOwned, Orphan
<1>9. QED
  BY <1>2, <1>3, <1>5, <1>6, <1>7, <1>8 DEF RelayInv

(* Every step preserves it. *)
LEMMA RelayStep == RelayInv /\ [WatchNext]_relayVars => RelayInv'
<1> SUFFICES ASSUME RelayInv, [WatchNext]_relayVars
             PROVE  RelayInv'
  OBVIOUS
<1>1. /\ WatchTypeOK /\ WatchInv /\ SessionInv /\ HandsInv /\ WireInv /\ OpenersInv
      /\ ActiveIsLive /\ ListenersOwned
  BY DEF RelayInv
<1>2. OrphansKnown
  BY <1>1 DEF ListenersOwned, OrphansKnown
<1>3. WatchTypeOK'
  BY <1>1, RelayTypes
<1>4. WatchInv' /\ SessionInv' /\ HandsInv' /\ WireInv'
  BY <1>1, <1>3, WatchStep, SessionInvStep, HandsStep, WireStep
<1>5. OpenersInv' /\ ActiveIsLive' /\ OrphansKnown'
  BY <1>1, <1>2, <1>3, <1>4, OpenersStep, ActiveStep, OrphansStep
<1>6. ListenersOwned'
  BY <1>4, <1>5 DEF ListenersOwned, OrphansKnown, HandsInv
<1>7. QED
  BY <1>3, <1>4, <1>5, <1>6 DEF RelayInv

(* The inductive invariant of the watcher over the session holds in every    *)
(* reachable state, whatever the connectors, the broker and the WSL          *)
(* listeners do.                                                             *)
THEOREM RelayInvHolds == WatchSpec => []RelayInv
  BY RelayInit, RelayStep, PTL DEF WatchSpec

(* Type correctness of the watcher and the session below it, for any number  *)
(* of ports, restarts, faults and changes; in particular Reset never counts  *)
(* more generations than there were brokers.                                 *)
THEOREM WatchTypeCorrect == WatchSpec => []WatchTypeOK
<1>1. RelayInv => WatchTypeOK
  BY DEF RelayInv
<1>2. QED
  BY <1>1, RelayInvHolds, PTL

(* What the watcher calls active is a listener the client knows and the      *)
(* running broker has bound, unless a Reset is still to come or its Accept   *)
(* failed: openOne never publishes a mapping of a broker that is gone after  *)
(* Reset has looked, whatever its goroutine at the broker still has to do.   *)
THEOREM ActiveMappingsLive == WatchSpec => []ActiveIsLive
<1>1. RelayInv => ActiveIsLive
  BY DEF RelayInv
<1>2. QED
  BY <1>1, RelayInvHolds, PTL

(* A listener registered at the client is in somebody's hands, and a bound   *)
(* Windows listener whose registration is gone is about to be closed, lost a *)
(* frame with a connector, was bound after its LISTEN_CLOSE, or was          *)
(* invalidated by ResetPeerState.                                            *)
THEOREM NoListenerForgotten == WatchSpec => []ListenersOwned
<1>1. RelayInv => ListenersOwned
  BY DEF RelayInv
<1>2. QED
  BY <1>1, RelayInvHolds, PTL

=============================================================================
