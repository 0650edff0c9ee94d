-------------------------- MODULE StreamOpenProofs --------------------------
(* Proofs about StreamOpen for every set of ids and all limits.              *)
EXTENDS StreamOpen, TLAPS

(* Only an opener that got as far as its dial has a socket. *)
Dialled == \A i \in Ids : conn[i] = "open" => opener[i] \in {"dialed", "reply", "done"}

(* An id is opened once: OPEN is on its way at most once, and only while no  *)
(* opener has run for the id; before DialContext there is neither.           *)
OpenAt(ch, k, i) == ch[k].type = "open" /\ ch[k].id = i
Once ==
    /\ \A i \in Ids, k \in 1..Len(c2s) :
          OpenAt(c2s, k, i) => opener[i] = "none" /\ client[i] # "none"
    /\ \A i \in Ids, j, k \in 1..Len(c2s) : OpenAt(c2s, j, i) /\ OpenAt(c2s, k, i) => j = k
    /\ \A i \in Ids : client[i] = "none" => opener[i] = "none"

OpenInv == TypeOK /\ Dialled /\ NoOrphanConn /\ Once

(* No stream exists at first. *)
LEMMA OpenInit == Init => OpenInv
BY DEF Init, OpenInv, TypeOK, OpenerStates, Dialled, NoOrphanConn, Once

(* What the channels may hold. *)
LEMMA FrameType ==
  ASSUME NEW i \in Ids, NEW type \in {"open", "close", "ok", "err", "reset"}
  PROVE  Frame(type, i) \in Frames
BY DEF Frame, Frames

(* Appending a frame to a channel gives a channel. *)
LEMMA AppendType ==
  ASSUME NEW ch \in Seq(Frames), NEW i \in Ids, NEW type \in {"open", "close", "ok", "err", "reset"}
  PROVE  Append(ch, Frame(type, i)) \in Seq(Frames) /\ Put(ch, type, i) \in Seq(Frames)
BY FrameType DEF Put

(* The first frame of a channel is a frame, and the rest a channel. *)
LEMMA HeadType ==
  ASSUME NEW ch \in Seq(Frames), ch # <<>>
  PROVE  Tail(ch) \in Seq(Frames) /\ Head(ch) \in Frames /\ Head(ch).id \in Ids
<1>1. Tail(ch) \in Seq(Frames) /\ Head(ch) \in Frames
  OBVIOUS
<1> QED
  BY <1>1 DEF Frames

(* Once looks at client, opener and c2s only; what changes them keeps it.    *)
LEMMA OnceKept ==
  ASSUME TypeOK, Once, c2s' = c2s,
         \A i \in Ids : opener[i] = "none" <=> opener'[i] = "none",
         \A i \in Ids : client[i] = "none" <=> client'[i] = "none"
  PROVE  Once'
BY DEF Once, OpenAt

(* Taking a frame off the channel leaves at most one OPEN of every stream. *)
LEMMA OnceTail ==
  ASSUME TypeOK, Once, c2s # <<>>, c2s' = Tail(c2s), client' = client,
         NEW n \in Ids, n = Head(c2s).id,
         \/ opener' = opener
         \/ Head(c2s).type = "open" /\ opener' = [opener EXCEPT ![n] = "spawned"]
  PROVE  Once'
<1>1. /\ Len(c2s) \in Nat /\ Len(c2s') = Len(c2s) - 1 /\ 1 \in 1..Len(c2s) /\ Head(c2s) = c2s[1]
      /\ \A k \in 1..Len(c2s') : k + 1 \in 1..Len(c2s) /\ c2s'[k] = c2s[k + 1]
  BY DEF TypeOK
<1>2. \A i \in Ids, k \in 1..Len(c2s') : OpenAt(c2s', k, i) => OpenAt(c2s, k + 1, i)
  BY <1>1 DEF OpenAt
<1>3. ASSUME NEW i \in Ids, NEW k \in 1..Len(c2s'), OpenAt(c2s', k, i)
      PROVE  opener'[i] = "none" /\ client'[i] # "none"
  <2>1. OpenAt(c2s, k + 1, i) /\ k + 1 \in 1..Len(c2s) /\ k + 1 # 1
    BY <1>1, <1>2, <1>3
  <2>2. opener[i] = "none" /\ client[i] # "none"
    BY <2>1 DEF Once
  <2>3. Head(c2s).type = "open" => n # i
    BY <1>1, <2>1 DEF Once, OpenAt
  <2> QED
    BY <2>2, <2>3 DEF TypeOK
<1>4. ASSUME NEW i \in Ids, NEW j \in 1..Len(c2s'), NEW k \in 1..Len(c2s'),
             OpenAt(c2s', j, i), OpenAt(c2s', k, i)
      PROVE  j = k
  <2>1. OpenAt(c2s, j + 1, i) /\ OpenAt(c2s, k + 1, i) /\ j + 1 \in 1..Len(c2s) /\ k + 1 \in 1..Len(c2s)
    BY <1>1, <1>2, <1>4
  <2>2. j + 1 = k + 1
    BY <2>1 DEF Once
  <2> QED
    BY <2>2
<1>5. ASSUME NEW i \in Ids, client'[i] = "none" PROVE opener'[i] = "none"
  <2>1. opener[i] = "none"
    BY <1>5 DEF Once
  <2>2. Head(c2s).type = "open" => n # i
    BY <1>1, <1>5 DEF Once, OpenAt
  <2> QED
    BY <2>1, <2>2 DEF TypeOK
<1> QED
  BY <1>3, <1>4, <1>5 DEF Once

(* A CLOSE, or the OPEN of a new stream, leaves at most one OPEN of every stream. *)
LEMMA OnceAppend ==
  ASSUME TypeOK, Once, opener' = opener, NEW n \in Ids, NEW type \in {"open", "close"},
         c2s' = Append(c2s, Frame(type, n)),
         client'[n] # "none", \A i \in Ids : i # n => client'[i] = client[i],
         type = "open" => client[n] = "none"
  PROVE  Once'
<1>1. /\ Len(c2s) \in Nat /\ Len(c2s') = Len(c2s) + 1
      /\ \A k \in 1..Len(c2s) : c2s'[k] = c2s[k]
      /\ c2s'[Len(c2s) + 1].type = type /\ c2s'[Len(c2s) + 1].id = n
  <2>1. c2s'[Len(c2s) + 1] = Frame(type, n) /\ Len(c2s) \in Nat /\ Len(c2s') = Len(c2s) + 1
        /\ \A k \in 1..Len(c2s) : c2s'[k] = c2s[k]
    BY FrameType DEF TypeOK
  <2> QED
    BY <2>1 DEF Frame
<1>2. \A i \in Ids, k \in 1..Len(c2s) : OpenAt(c2s', k, i) => OpenAt(c2s, k, i)
  BY <1>1 DEF OpenAt
<1>3. \A i \in Ids : OpenAt(c2s', Len(c2s) + 1, i) => i = n /\ type = "open"
  BY <1>1 DEF OpenAt
<1>4. type = "open" => /\ opener[n] = "none"
                       /\ \A k \in 1..Len(c2s) : ~OpenAt(c2s, k, n)
  BY DEF Once
<1>5. \A k \in 1..Len(c2s') : k \in 1..Len(c2s) \/ k = Len(c2s) + 1
  BY <1>1
<1>6. \A i \in Ids : client[i] # "none" => client'[i] # "none"
  OBVIOUS
<1>7. ASSUME NEW i \in Ids, NEW k \in 1..Len(c2s'), OpenAt(c2s', k, i)
      PROVE  opener'[i] = "none" /\ client'[i] # "none"
  <2>1. CASE k \in 1..Len(c2s)
    BY <1>2, <1>6, <1>7, <2>1 DEF Once
  <2>2. CASE k = Len(c2s) + 1
    BY <1>3, <1>4, <1>7, <2>2
  <2> QED
    BY <1>5, <2>1, <2>2
<1>8. ASSUME NEW i \in Ids, NEW j \in 1..Len(c2s'), NEW k \in 1..Len(c2s'),
             OpenAt(c2s', j, i), OpenAt(c2s', k, i)
      PROVE  j = k
  <2>1. CASE j \in 1..Len(c2s) /\ k \in 1..Len(c2s)
    BY <1>2, <1>8, <2>1 DEF Once
  <2>2. CASE j = Len(c2s) + 1 \/ k = Len(c2s) + 1
    BY <1>2, <1>3, <1>4, <1>5, <1>8, <2>2
  <2> QED
    BY <1>5, <2>1, <2>2
<1>9. \A i \in Ids : client'[i] = "none" => opener'[i] = "none"
  BY DEF Once
<1> QED
  BY <1>7, <1>8, <1>9 DEF Once

(* remove loses no socket: what it unregisters it will close, or the opener  *)
(* still holds it.                                                           *)
LEMMA RemoveSafe ==
  ASSUME TypeOK, Dialled, NoOrphanConn, NEW set \in SUBSET Ids, Remove(set)
  PROVE  /\ streams' \in SUBSET Ids /\ closing' \in SUBSET Ids
         /\ \A i \in Ids : conn[i] = "open"
                => i \in streams' \/ i \in closing' \/ opener[i] = "dialed"
BY DEF TypeOK, Dialled, NoOrphanConn, Remove

(* The opener goroutines leave client and c2s alone, and never go back to    *)
(* having not run.                                                           *)
LEMMA OnceOpener ==
  ASSUME TypeOK, Once, c2s' = c2s, client' = client, NEW i \in Ids, opener[i] # "none",
         NEW st \in OpenerStates \ {"none"},
         opener' = opener \/ opener' = [opener EXCEPT ![i] = st]
  PROVE  Once'
<1>1. \A k \in Ids : opener[k] = "none" <=> opener'[k] = "none"
  BY DEF TypeOK
<1> QED
  BY <1>1, OnceKept

(* Every step of the client, the frame reader, an opener or shutdown keeps the invariant. *)
LEMMA OpenStep == OpenInv /\ [Next]_vars => OpenInv'
<1> SUFFICES ASSUME OpenInv, [Next]_vars PROVE OpenInv'
  OBVIOUS
<1>0. TypeOK /\ Dialled /\ NoOrphanConn /\ Once
  BY DEF OpenInv
<1>1. ASSUME NEW i \in Ids, Dial(i) PROVE OpenInv'
  <2>1. UNCHANGED <<ready, done, link, s2c, serverVars>> /\ client[i] = "none"
    BY <1>1 DEF Dial
  <2>2. \/ client' = [client EXCEPT ![i] = "opening"] /\ c2s' = Append(c2s, Frame("open", i))
        \/ client' = [client EXCEPT ![i] = "gone"] /\ c2s' = c2s
    BY <1>1 DEF Dial
  <2>3. client' \in [Ids -> {"none", "opening", "open", "gone"}]
        /\ client'[i] # "none" /\ \A k \in Ids : k # i => client'[k] = client[k]
    BY <1>0, <2>2 DEF TypeOK
  <2>4. c2s' \in Seq(Frames)
    BY <1>0, <2>2, AppendType DEF TypeOK
  <2>5. Once'
    <3>1. CASE c2s' = Append(c2s, Frame("open", i))
      BY <1>0, <2>1, <2>3, <3>1, OnceAppend DEF serverVars
    <3>2. CASE c2s' = c2s
      <4>1. opener' = opener
        BY <2>1 DEF serverVars
      <4> QED
        BY <1>0, <2>1, <2>3, <3>2, <4>1 DEF Once, OpenAt
    <3> QED
      BY <2>2, <3>1, <3>2
  <2> QED
    BY <1>0, <2>1, <2>3, <2>4, <2>5 DEF OpenInv, TypeOK, Dialled, NoOrphanConn, serverVars
<1>2. ASSUME NEW i \in Ids, DialReturn(i) PROVE OpenInv'
  <2>1. UNCHANGED <<ready, done, link, c2s, s2c, serverVars>> /\ client[i] = "opening"
        /\ (client' = [client EXCEPT ![i] = "open"] \/ client' = [client EXCEPT ![i] = "gone"])
    BY <1>2 DEF DialReturn
  <2>2. client' \in [Ids -> {"none", "opening", "open", "gone"}]
        /\ \A k \in Ids : client[k] = "none" <=> client'[k] = "none"
    BY <1>0, <2>1 DEF TypeOK
  <2>3. Once'
    BY <1>0, <2>1, <2>2, OnceKept DEF serverVars
  <2> QED
    BY <1>0, <2>1, <2>2, <2>3 DEF OpenInv, TypeOK, Dialled, NoOrphanConn, serverVars
<1>3. ASSUME NEW i \in Ids, Close(i) PROVE OpenInv'
  <2>1. UNCHANGED <<link, s2c, serverVars>> /\ c2s' = Append(c2s, Frame("close", i))
        /\ client' = [client EXCEPT ![i] = "gone"] /\ done' = done \cup {i}
    BY <1>3 DEF Close
  <2>2. client' \in [Ids -> {"none", "opening", "open", "gone"}] /\ done' \in SUBSET Ids
        /\ client'[i] # "none" /\ \A k \in Ids : k # i => client'[k] = client[k]
    BY <1>0, <2>1 DEF TypeOK
  <2>3. ready' \in [Ids -> {"none", "ok", "err"}]
    BY <1>0, <1>3 DEF Close, TypeOK
  <2>4. c2s' \in Seq(Frames)
    BY <1>0, <2>1, AppendType DEF TypeOK
  <2>5. Once'
    BY <1>0, <2>1, <2>2, OnceAppend DEF serverVars
  <2> QED
    BY <1>0, <2>1, <2>2, <2>3, <2>4, <2>5 DEF OpenInv, TypeOK, Dialled, NoOrphanConn, serverVars
<1>4. CASE Dispatch
  <2>1. s2c' \in Seq(Frames) /\ Head(s2c).id \in Ids
    BY <1>0, <1>4, HeadType DEF Dispatch, TypeOK
  <2>2. ready' \in [Ids -> {"none", "ok", "err"}] /\ done' \in SUBSET Ids
    BY <1>0, <1>4, <2>1 DEF Dispatch, TypeOK
  <2>3. UNCHANGED <<client, link, c2s, serverVars>>
    BY <1>4 DEF Dispatch
  <2>4. Once'
    BY <1>0, <2>3, OnceKept DEF serverVars
  <2> QED
    BY <1>0, <2>1, <2>2, <2>3, <2>4 DEF OpenInv, TypeOK, Dialled, NoOrphanConn, serverVars
<1>5. CASE LinkDown
  <2>1. client' \in [Ids -> {"none", "opening", "open", "gone"}] /\ ready' \in [Ids -> {"none", "ok", "err"}]
        /\ done' \in SUBSET Ids /\ link' \in {"up", "down"}
    BY <1>0, <1>5 DEF LinkDown, TypeOK, Registered
  <2>2. c2s' = <<>> /\ s2c' \in Seq(Frames) /\ UNCHANGED serverVars
    BY <1>5 DEF LinkDown
  <2>3. \A i \in Ids : client'[i] = "none" => client[i] = "none"
    BY <1>0, <1>5 DEF LinkDown, TypeOK
  <2>4. Once'
    <3>1. Len(c2s') = 0 /\ opener' = opener
      BY <2>2 DEF serverVars
    <3>2. \A i \in Ids : client'[i] = "none" => opener'[i] = "none"
      BY <1>0, <2>3, <3>1 DEF Once
    <3>3. 1..Len(c2s') = {}
      BY <3>1
    <3> QED
      BY <3>2, <3>3 DEF Once
  <2> QED
    BY <1>0, <2>1, <2>2, <2>4 DEF OpenInv, TypeOK, Dialled, NoOrphanConn, serverVars
<1>6. CASE StartOpen
  <2>1. c2s' \in Seq(Frames) /\ Head(c2s).id \in Ids
    BY <1>0, <1>6, HeadType DEF StartOpen, TypeOK
  <2>2. s2c' \in Seq(Frames)
    BY <1>0, <1>6, <2>1, AppendType DEF StartOpen, TypeOK
  <2>3. /\ UNCHANGED <<clientVars, link, server, streams, closing, conn>>
        /\ c2s # <<>> /\ c2s' = Tail(c2s) /\ Head(c2s).type = "open"
        /\ opener' = opener \/ opener' = [opener EXCEPT ![Head(c2s).id] = "spawned"]
    BY <1>6 DEF StartOpen
  <2>4. conn[Head(c2s).id] # "open"
    <3>1. 1 \in 1..Len(c2s) /\ Head(c2s) = c2s[1]
      BY <1>0, <2>3 DEF TypeOK
    <3>2. opener[Head(c2s).id] = "none"
      BY <1>0, <2>1, <2>3, <3>1 DEF Once, OpenAt
    <3> QED
      BY <1>0, <2>1, <3>2 DEF Dialled
  <2>5. Once'
    BY <1>0, <2>1, <2>3, OnceTail DEF clientVars
  <2>6. opener' \in [Ids -> OpenerStates]
    BY <1>0, <2>1, <2>3 DEF TypeOK, OpenerStates
  <2>7. Dialled' /\ NoOrphanConn'
    BY <1>0, <2>1, <2>3, <2>4 DEF TypeOK, Dialled, NoOrphanConn
  <2> QED
    BY <1>0, <2>1, <2>2, <2>3, <2>5, <2>6, <2>7 DEF OpenInv, TypeOK, clientVars
<1>7. CASE HandleClose
  <2>1. c2s' \in Seq(Frames) /\ Head(c2s).id \in Ids
    BY <1>0, <1>7, HeadType DEF HandleClose, TypeOK
  <2>2. UNCHANGED <<clientVars, link, s2c, server, opener, conn>> /\ Remove({Head(c2s).id})
        /\ c2s # <<>> /\ c2s' = Tail(c2s)
    BY <1>7 DEF HandleClose
  <2>3. /\ streams' \in SUBSET Ids /\ closing' \in SUBSET Ids
        /\ \A i \in Ids : conn[i] = "open" => i \in streams' \/ i \in closing' \/ opener[i] = "dialed"
    BY <1>0, <2>1, <2>2, RemoveSafe
  <2>4. Once'
    BY <1>0, <2>1, <2>2, OnceTail DEF clientVars
  <2> QED
    BY <1>0, <2>1, <2>2, <2>3, <2>4 DEF OpenInv, TypeOK, Dialled, NoOrphanConn, clientVars
<1>8. CASE Cancel
  <2>1. Once'
    BY <1>0, <1>8, OnceKept DEF Cancel, clientVars
  <2> QED
    BY <1>0, <1>8, <2>1 DEF Cancel, OpenInv, TypeOK, Dialled, NoOrphanConn, clientVars
<1>9. CASE Shutdown
  <2>1. UNCHANGED <<clientVars, link, c2s, s2c, opener, conn>> /\ Remove(streams) /\ server' = "down"
    BY <1>9 DEF Shutdown
  <2>2. /\ streams' \in SUBSET Ids /\ closing' \in SUBSET Ids
        /\ \A i \in Ids : conn[i] = "open" => i \in streams' \/ i \in closing' \/ opener[i] = "dialed"
    BY <1>0, <2>1, RemoveSafe DEF TypeOK
  <2>3. Once'
    BY <1>0, <2>1, OnceKept DEF clientVars
  <2> QED
    BY <1>0, <2>1, <2>2, <2>3 DEF OpenInv, TypeOK, Dialled, NoOrphanConn, clientVars
<1>10. ASSUME NEW i \in Ids, CloseConn(i) PROVE OpenInv'
  <2>1. UNCHANGED <<clientVars, link, c2s, s2c, server, opener, streams>>
        /\ closing' = closing \ {i} /\ conn' = [conn EXCEPT ![i] = "closed"]
    BY <1>10 DEF CloseConn
  <2>2. Dialled' /\ NoOrphanConn' /\ conn' \in [Ids -> {"none", "open", "closed"}]
    BY <1>0, <2>1 DEF TypeOK, Dialled, NoOrphanConn
  <2>3. Once'
    BY <1>0, <2>1, OnceKept DEF clientVars
  <2> QED
    BY <1>0, <2>1, <2>2, <2>3 DEF OpenInv, TypeOK, clientVars
<1>11. ASSUME NEW i \in Ids, DialOK(i) PROVE OpenInv'
  <2>1. UNCHANGED <<clientVars, link, c2s, s2c, server, streams, closing>> /\ opener[i] = "dialing"
        /\ opener' = [opener EXCEPT ![i] = "dialed"] /\ conn' = [conn EXCEPT ![i] = "open"]
    BY <1>11 DEF DialOK
  <2>2. opener' \in [Ids -> OpenerStates] /\ conn' \in [Ids -> {"none", "open", "closed"}]
    BY <1>0, <2>1 DEF TypeOK, OpenerStates
  <2>3. Dialled' /\ NoOrphanConn'
    BY <1>0, <2>1 DEF TypeOK, Dialled, NoOrphanConn
  <2>4. Once'
    BY <1>0, <2>1, OnceOpener DEF clientVars, OpenerStates
  <2> QED
    BY <1>0, <2>1, <2>2, <2>3, <2>4 DEF OpenInv, TypeOK, clientVars
<1>12. ASSUME NEW i \in Ids, Attach(i) PROVE OpenInv'
  <2>1. UNCHANGED <<clientVars, link, c2s, s2c, server, streams, closing>> /\ opener[i] = "dialed"
    BY <1>12 DEF Attach
  <2>2. \/ i \in streams /\ opener' = [opener EXCEPT ![i] = "reply"] /\ conn' = conn
        \/ opener' = [opener EXCEPT ![i] = "done"] /\ conn' = [conn EXCEPT ![i] = "closed"]
    BY <1>12 DEF Attach
  <2>3. opener' \in [Ids -> OpenerStates] /\ conn' \in [Ids -> {"none", "open", "closed"}]
    BY <1>0, <2>2 DEF TypeOK, OpenerStates
  <2>4. Dialled' /\ NoOrphanConn'
    BY <1>0, <2>1, <2>2 DEF TypeOK, Dialled, NoOrphanConn
  <2>5. Once'
    BY <1>0, <2>1, <2>2, OnceOpener DEF clientVars, OpenerStates
  <2> QED
    BY <1>0, <2>1, <2>3, <2>4, <2>5 DEF OpenInv, TypeOK, clientVars
<1>13. ASSUME NEW i \in Ids, Register(i) PROVE OpenInv'
  <2>1. UNCHANGED <<clientVars, link, c2s, server, closing, conn>> /\ s2c' \in Seq(Frames)
    BY <1>0, <1>13, AppendType DEF Register, TypeOK
  <2>2. /\ opener[i] = "spawned" /\ streams \subseteq streams' /\ streams' \subseteq streams \cup {i}
        /\ \E st \in {"dialing", "doomed", "done"} : opener' = [opener EXCEPT ![i] = st]
    BY <1>13 DEF Register
  <2>3. PICK st \in {"dialing", "doomed", "done"} : opener' = [opener EXCEPT ![i] = st]
    BY <2>2
  <2>4. opener' \in [Ids -> OpenerStates] /\ streams' \in SUBSET Ids
    BY <1>0, <2>2, <2>3 DEF TypeOK, OpenerStates
  <2>5. Dialled' /\ NoOrphanConn'
    BY <1>0, <2>1, <2>2, <2>3 DEF TypeOK, Dialled, NoOrphanConn
  <2>6. Once'
    BY <1>0, <2>1, <2>2, <2>3, OnceOpener DEF clientVars, OpenerStates
  <2> QED
    BY <1>0, <2>1, <2>4, <2>5, <2>6 DEF OpenInv, TypeOK, clientVars
<1>14. ASSUME NEW i \in Ids, DialError(i) \/ Reply(i) \/ RemoteError(i) PROVE OpenInv'
  <2>1. UNCHANGED <<clientVars, link, c2s, server, conn>>
        /\ (s2c' = Put(s2c, "err", i) \/ s2c' = Put(s2c, "ok", i) \/ s2c' = Put(s2c, "reset", i))
    BY <1>14 DEF DialError, Reply, RemoteError
  <2>2. s2c' \in Seq(Frames)
    BY <1>0, <2>1, AppendType DEF TypeOK
  <2>3. /\ opener' = opener \/ opener' = [opener EXCEPT ![i] = "done"]
        /\ opener[i] # "dialed" /\ opener[i] # "none"
    BY <1>14 DEF DialError, Reply, RemoteError
  <2>4. /\ streams' \in SUBSET Ids /\ closing' \in SUBSET Ids
        /\ \A k \in Ids : conn[k] = "open" => k \in streams' \/ k \in closing' \/ opener[k] = "dialed"
    <3>1. CASE Remove({i})
      BY <1>0, <3>1, RemoveSafe
    <3>2. CASE UNCHANGED <<streams, closing>>
      BY <1>0, <3>2 DEF TypeOK, NoOrphanConn
    <3> QED
      BY <1>14, <3>1, <3>2 DEF DialError, Reply, RemoteError
  <2>5. opener' \in [Ids -> OpenerStates] /\ Dialled' /\ NoOrphanConn'
    BY <1>0, <2>1, <2>3, <2>4 DEF TypeOK, OpenerStates, Dialled, NoOrphanConn
  <2>6. Once'
    BY <1>0, <2>1, <2>3, OnceOpener DEF clientVars, OpenerStates
  <2> QED
    BY <1>0, <2>1, <2>2, <2>4, <2>5, <2>6 DEF OpenInv, TypeOK, clientVars
<1>15. CASE UNCHANGED vars
  <2>1. Once'
    BY <1>0, <1>15, OnceKept DEF vars, clientVars, serverVars
  <2> QED
    BY <1>0, <1>15, <2>1 DEF vars, clientVars, serverVars, OpenInv, TypeOK, Dialled, NoOrphanConn
<1> QED
  BY <1>1, <1>2, <1>3, <1>4, <1>5, <1>6, <1>7, <1>8, <1>9, <1>10, <1>11, <1>12, <1>13, <1>14, <1>15
     DEF Next, OpenerNext

(* The inductive invariant of opening holds throughout. *)
THEOREM OpenInvHolds == Spec => []OpenInv
BY OpenInit, OpenStep, PTL DEF Spec

(* Types of the registries, the openers and the frames under way. *)
THEOREM TypeCorrect == Spec => []TypeOK
<1>1. OpenInv => TypeOK
  BY DEF OpenInv
<1> QED
  BY OpenInvHolds, <1>1, PTL

(* No interleaving of OPEN, CLOSE, the dial and shutdown loses a socket.     *)
THEOREM SocketsOwned == Spec => []NoOrphanConn
<1>1. OpenInv => NoOrphanConn
  BY DEF OpenInv
<1> QED
  BY OpenInvHolds, <1>1, PTL

-----------------------------------------------------------------------------
(* The two ends agree about established streams. *)

(* OPEN_OK was sent: it is under way or has resolved openDone. *)
Answered(i) == ready[i] = "ok" \/ InFlight(s2c, "ok", i)

(* The server still has the stream, or the client knows or will learn that   *)
(* it has not, or no longer cares.                                           *)
Kept(i) == i \in streams \/ i \in done \/ client[i] = "gone" \/ InFlight(s2c, "reset", i)

Agreement(i) ==
    /\ Answered(i) => opener[i] = "done"
    /\ Answered(i) \/ opener[i] = "reply" => Kept(i)
    /\ client[i] = "open" => ready[i] = "ok"
    /\ InFlight(c2s, "close", i) => client[i] = "gone"
    /\ link = "down" => client[i] \in {"none", "gone"}

AgreeInv == (server # "serving" => link = "down") /\ \A i \in Ids : Agreement(i)

(* Appending a frame puts that frame under way and no other. *)
LEMMA InFlightAppend ==
  ASSUME NEW ch \in Seq(Frames), NEW n \in Ids, NEW type \in {"open", "close", "ok", "err", "reset"},
         NEW t, NEW i
  PROVE  InFlight(Append(ch, Frame(type, n)), t, i) <=> InFlight(ch, t, i) \/ (t = type /\ i = n)
<1> DEFINE new == Append(ch, Frame(type, n))
<1>1. /\ Len(ch) \in Nat /\ Len(new) = Len(ch) + 1
      /\ \A k \in 1..Len(ch) : new[k] = ch[k]
      /\ new[Len(ch) + 1] = Frame(type, n)
  BY FrameType
<1>2. \A k \in 1..Len(new) : k \in 1..Len(ch) \/ k = Len(ch) + 1
  BY <1>1
<1>3. \A k \in 1..Len(ch) : k \in 1..Len(new)
  BY <1>1
<1>4. Len(ch) + 1 \in 1..Len(new)
  BY <1>1
<1>5. Frame(type, n) = Frame(t, i) <=> t = type /\ i = n
  BY DEF Frame
<1> HIDE DEF new
<1>6. InFlight(new, t, i) <=> InFlight(ch, t, i) \/ (t = type /\ i = n)
  BY <1>1, <1>2, <1>3, <1>4, <1>5 DEF InFlight
<1> QED
  BY <1>6 DEF new

(* What is under way is the first frame or a later one. *)
LEMMA InFlightTail ==
  ASSUME NEW ch \in Seq(Frames), ch # <<>>, NEW t, NEW i
  PROVE  InFlight(ch, t, i) <=> (Head(ch).type = t /\ Head(ch).id = i) \/ InFlight(Tail(ch), t, i)
<1> DEFINE new == Tail(ch)
<1>1. /\ Len(ch) \in Nat /\ Len(ch) > 0 /\ Len(new) = Len(ch) - 1 /\ Head(ch) = ch[1]
      /\ \A k \in 1..Len(new) : new[k] = ch[k + 1]
  OBVIOUS
<1>2. \A k \in 1..Len(ch) : k = 1 \/ k - 1 \in 1..Len(new)
  BY <1>1
<1>3. \A k \in 1..Len(ch) : k # 1 => new[k - 1] = ch[k]
  BY <1>1, <1>2
<1>4. \A k \in 1..Len(new) : k + 1 \in 1..Len(ch)
  BY <1>1
<1>5. 1 \in 1..Len(ch)
  BY <1>1
<1>6. Head(ch) = Frame(t, i) <=> Head(ch).type = t /\ Head(ch).id = i
  <2>1. Head(ch) = [type |-> Head(ch).type, id |-> Head(ch).id]
    BY HeadType DEF Frames
  <2> QED
    BY <2>1 DEF Frame
<1> HIDE DEF new
<1>7. InFlight(ch, t, i) => Head(ch) = Frame(t, i) \/ InFlight(new, t, i)
  BY <1>1, <1>2, <1>3 DEF InFlight
<1>8. Head(ch) = Frame(t, i) \/ InFlight(new, t, i) => InFlight(ch, t, i)
  BY <1>1, <1>4, <1>5 DEF InFlight
<1> QED
  BY <1>6, <1>7, <1>8 DEF new

(* A frame written after the link went down is lost. *)
LEMMA InFlightPut ==
  ASSUME NEW ch \in Seq(Frames), NEW n \in Ids, NEW type \in {"open", "close", "ok", "err", "reset"},
         NEW t, NEW i
  PROVE  InFlight(Put(ch, type, n), t, i)
            <=> InFlight(ch, t, i) \/ (link = "up" /\ t = type /\ i = n)
BY InFlightAppend DEF Put

(* Nothing is under way on an empty channel. *)
LEMMA InFlightEmpty == \A t, i : ~InFlight(<<>>, t, i)
BY DEF InFlight

(* At first no stream is established. *)
LEMMA AgreeInit == Init => AgreeInv
BY InFlightEmpty DEF Init, AgreeInv, Agreement, Answered, Kept

(* An established stream was dialled by the client. *)
LEMMA AnsweredDialled ==
  ASSUME OpenInv, AgreeInv, NEW i \in Ids, Answered(i) \/ opener[i] = "reply"
  PROVE  client[i] # "none"
BY DEF OpenInv, Once, AgreeInv, Agreement

(* Every step keeps the agreement. *)
LEMMA AgreeStep == OpenInv /\ AgreeInv /\ [Next]_vars => AgreeInv'
<1> SUFFICES ASSUME OpenInv, AgreeInv, [Next]_vars PROVE AgreeInv'
  OBVIOUS
<1>0. /\ TypeOK /\ Once /\ (server # "serving" => link = "down")
      /\ \A i \in Ids : Agreement(i)
      /\ \A i \in Ids : Answered(i) \/ opener[i] = "reply" => client[i] # "none"
  BY AnsweredDialled DEF OpenInv, AgreeInv
<1>t. c2s \in Seq(Frames) /\ s2c \in Seq(Frames)
  BY <1>0 DEF TypeOK
<1>1. ASSUME NEW n \in Ids, Dial(n) PROVE AgreeInv'
  <2>1. UNCHANGED <<ready, done, link, s2c, serverVars>> /\ client[n] = "none" /\ link = "up"
    BY <1>1 DEF Dial
  <2>2. \A t, i : t # "open" => (InFlight(c2s', t, i) <=> InFlight(c2s, t, i))
    <3>1. c2s' = c2s \/ c2s' = Append(c2s, Frame("open", n))
      BY <1>1 DEF Dial
    <3>2. \A t, i : InFlight(Append(c2s, Frame("open", n)), t, i)
                 <=> InFlight(c2s, t, i) \/ (t = "open" /\ i = n)
      BY <1>t, InFlightAppend
    <3> QED
      BY <3>1, <3>2
  <2>3. client'[n] \in {"opening", "gone"} /\ \A i \in Ids : i # n => client'[i] = client[i]
    BY <1>0, <1>1 DEF Dial, TypeOK
  <2>4. ASSUME NEW i \in Ids PROVE Agreement(i)'
    BY <1>0, <2>1, <2>2, <2>3 DEF Agreement, Answered, Kept, serverVars
  <2> QED
    BY <1>0, <2>1, <2>4 DEF AgreeInv, serverVars
<1>2. ASSUME NEW n \in Ids, DialReturn(n) PROVE AgreeInv'
  <2>1. /\ UNCHANGED <<ready, done, link, c2s, s2c, serverVars>> /\ client[n] = "opening"
        /\ client' = [client EXCEPT ![n] = IF ready[n] = "ok" THEN "open" ELSE "gone"]
    BY <1>2 DEF DialReturn
  <2>2. /\ (client'[n] = "open" /\ ready[n] = "ok") \/ client'[n] = "gone"
        /\ \A i \in Ids : i # n => client'[i] = client[i]
    BY <1>0, <2>1 DEF TypeOK
  <2>3. ASSUME NEW i \in Ids PROVE Agreement(i)'
    BY <1>0, <2>1, <2>2 DEF Agreement, Answered, Kept, serverVars
  <2> QED
    BY <1>0, <2>1, <2>3 DEF AgreeInv, serverVars
<1>3. ASSUME NEW n \in Ids, Close(n) PROVE AgreeInv'
  <2>1. UNCHANGED <<link, s2c, serverVars>> /\ c2s' = Append(c2s, Frame("close", n))
        /\ done' = done \cup {n}
    BY <1>3 DEF Close
  <2>2. \A i \in Ids : InFlight(c2s', "close", i) <=> InFlight(c2s, "close", i) \/ i = n
    BY <1>t, <2>1, InFlightAppend
  <2>3. /\ client'[n] = "gone" /\ \A i \in Ids : i # n => client'[i] = client[i]
        /\ \A i \in Ids : ready'[i] = "ok" <=> ready[i] = "ok"
    BY <1>0, <1>3 DEF Close, TypeOK
  <2>4. ASSUME NEW i \in Ids PROVE Agreement(i)'
    BY <1>0, <2>1, <2>2, <2>3 DEF Agreement, Answered, Kept, serverVars
  <2> QED
    BY <1>0, <2>1, <2>4 DEF AgreeInv, serverVars
<1>4. CASE Dispatch
  <2>1. UNCHANGED <<client, link, c2s, serverVars>> /\ s2c # <<>> /\ s2c' = Tail(s2c)
    BY <1>4 DEF Dispatch
  <2>2. \A t, i : InFlight(s2c, t, i)
            <=> (Head(s2c).type = t /\ Head(s2c).id = i) \/ InFlight(s2c', t, i)
    BY <1>t, <2>1, InFlightTail
  <2>3. Head(s2c).id \in Ids
    BY <1>t, <2>1, HeadType
  <2>4. \A i \in Ids : ready'[i] = "ok" <=>
            ready[i] = "ok" \/ (i = Head(s2c).id /\ i \in Registered /\ Head(s2c).type = "ok" /\ ready[i] = "none")
    BY <1>0, <1>4, <2>3 DEF Dispatch, TypeOK
  <2>5. /\ done \subseteq done'
        /\ Head(s2c).type = "reset" /\ Head(s2c).id \in Registered => Head(s2c).id \in done'
    BY <1>4 DEF Dispatch
  <2>6. \A i \in Ids : i \in Registered \/ client[i] \in {"none", "gone"}
    BY <1>0 DEF Registered, TypeOK
  <2>7. ASSUME NEW i \in Ids PROVE Agreement(i)'
    <3>1. /\ client'[i] = client[i] /\ opener'[i] = opener[i] /\ link' = link /\ c2s' = c2s
          /\ streams' = streams
      BY <2>1 DEF serverVars
    <3>2. Answered(i)' => Answered(i)
      BY <2>2, <2>4 DEF Answered
    <3>3. Kept(i) => client[i] = "none" \/ Kept(i)'
      BY <2>2, <2>5, <2>6, <3>1 DEF Kept
    <3>4. client[i] = "open" => ready'[i] = "ok"
      BY <1>0, <2>4 DEF Agreement
    <3> QED
      BY <1>0, <3>1, <3>2, <3>3, <3>4 DEF Agreement
  <2> QED
    BY <1>0, <2>1, <2>7 DEF AgreeInv, serverVars
<1>5. CASE LinkDown
  <2>1. c2s' = <<>> /\ s2c' = <<>> /\ UNCHANGED serverVars /\ link' = "down"
    BY <1>5 DEF LinkDown
  <2>2. \A i \in Ids : /\ client'[i] = IF client[i] = "none" THEN "none" ELSE "gone"
                       /\ ready'[i] = "ok" <=> ready[i] = "ok"
    BY <1>0, <1>5 DEF LinkDown, Registered, TypeOK
  <2>3. ASSUME NEW i \in Ids PROVE Agreement(i)'
    BY <1>0, <2>1, <2>2, InFlightEmpty DEF Agreement, Answered, Kept, serverVars
  <2> QED
    BY <1>0, <2>1, <2>3 DEF AgreeInv, serverVars
<1>6. CASE StartOpen
  <2>1. /\ UNCHANGED <<clientVars, link, server, streams, closing, conn>>
        /\ c2s # <<>> /\ c2s' = Tail(c2s) /\ Head(c2s).type = "open"
        /\ opener' = opener \/ opener' = [opener EXCEPT ![Head(c2s).id] = "spawned"]
        /\ s2c' = s2c \/ s2c' = Put(s2c, "err", Head(c2s).id)
    BY <1>6 DEF StartOpen
  <2>2. Head(c2s).id \in Ids
    BY <1>t, <2>1, HeadType
  <2>3. \A t, i : /\ InFlight(c2s', t, i) => InFlight(c2s, t, i)
                  /\ t # "err" => (InFlight(s2c', t, i) <=> InFlight(s2c, t, i))
    <3>1. \A t, i : InFlight(c2s', t, i) => InFlight(c2s, t, i)
      BY <1>t, <2>1, InFlightTail
    <3>2. \A t, i : t # "err" => (InFlight(Put(s2c, "err", Head(c2s).id), t, i) <=> InFlight(s2c, t, i))
      BY <1>t, <2>2, InFlightPut
    <3> QED
      BY <2>1, <3>1, <3>2
  <2>4. opener[Head(c2s).id] = "none"
    <3>1. 1 \in 1..Len(c2s) /\ Head(c2s) = c2s[1]
      BY <1>t, <2>1
    <3> QED
      BY <1>0, <2>1, <2>2, <3>1 DEF Once, OpenAt
  <2>5. \A i \in Ids : opener[i] \in {"reply", "done"} \/ opener'[i] \in {"reply", "done"}
                        => opener'[i] = opener[i]
    BY <1>0, <2>1, <2>2, <2>4 DEF TypeOK
  <2>6. ASSUME NEW i \in Ids PROVE Agreement(i)'
    <3>1. client' = client /\ ready' = ready /\ done' = done /\ link' = link /\ streams' = streams
      BY <2>1 DEF clientVars
    <3>2. (Answered(i)' <=> Answered(i)) /\ (Kept(i)' <=> Kept(i))
      BY <2>3, <3>1 DEF Answered, Kept
    <3> QED
      BY <1>0, <2>3, <2>5, <3>1, <3>2 DEF Agreement
  <2> QED
    BY <1>0, <2>1, <2>6 DEF AgreeInv
<1>7. CASE HandleClose
  <2>1. UNCHANGED <<clientVars, link, s2c, server, opener, conn>>
        /\ c2s # <<>> /\ c2s' = Tail(c2s) /\ Head(c2s).type = "close"
        /\ streams' = streams \ {Head(c2s).id}
    BY <1>7 DEF HandleClose, Remove
  <2>2. \A i \in Ids : /\ InFlight(c2s', "close", i) => InFlight(c2s, "close", i)
                       /\ Head(c2s).id = i => InFlight(c2s, "close", i)
    BY <1>t, <2>1, InFlightTail
  <2>3. ASSUME NEW i \in Ids PROVE Agreement(i)'
    BY <1>0, <2>1, <2>2 DEF Agreement, Answered, Kept, clientVars
  <2> QED
    BY <1>0, <2>1, <2>3 DEF AgreeInv
<1>8. CASE Cancel
  <2>1. UNCHANGED <<clientVars, link, c2s, s2c, opener, streams>> /\ link = "down"
    BY <1>8 DEF Cancel
  <2>2. ASSUME NEW i \in Ids PROVE Agreement(i)'
    BY <1>0, <2>1 DEF Agreement, Answered, Kept, clientVars
  <2> QED
    BY <2>1, <2>2 DEF AgreeInv
<1>9. CASE Shutdown
  <2>1. UNCHANGED <<clientVars, link, c2s, s2c, opener>> /\ link = "down"
    BY <1>0, <1>9 DEF Shutdown
  <2>2. ASSUME NEW i \in Ids PROVE Agreement(i)'
    BY <1>0, <2>1 DEF Agreement, Answered, Kept, clientVars
  <2> QED
    BY <2>1, <2>2 DEF AgreeInv
<1>10. ASSUME NEW n \in Ids, CloseConn(n) PROVE AgreeInv'
  <2>1. UNCHANGED <<clientVars, link, c2s, s2c, server, opener, streams>>
    BY <1>10 DEF CloseConn
  <2>2. ASSUME NEW i \in Ids PROVE Agreement(i)'
    BY <1>0, <2>1 DEF Agreement, Answered, Kept, clientVars
  <2> QED
    BY <1>0, <2>1, <2>2 DEF AgreeInv
<1>11. ASSUME NEW n \in Ids, Register(n) \/ DialOK(n) \/ Attach(n) PROVE AgreeInv'
  <2>1. UNCHANGED <<clientVars, link, c2s, server>> /\ streams \subseteq streams'
        /\ (s2c' = s2c \/ s2c' = Put(s2c, "err", n))
    BY <1>11 DEF Register, DialOK, Attach
  <2>2. \A t, i : t # "err" => (InFlight(s2c', t, i) <=> InFlight(s2c, t, i))
    BY <1>t, <2>1, InFlightPut
  <2>3. /\ \A i \in Ids : opener[i] = "done" => opener'[i] = "done"
        /\ \A i \in Ids : opener'[i] = "reply" => opener[i] = "reply" \/ i \in streams
    BY <1>0, <1>11 DEF Register, DialOK, Attach, TypeOK
  <2>4. ASSUME NEW i \in Ids PROVE Agreement(i)'
    BY <1>0, <2>1, <2>2, <2>3 DEF Agreement, Answered, Kept, clientVars
  <2> QED
    BY <1>0, <2>1, <2>4 DEF AgreeInv
<1>12. ASSUME NEW n \in Ids, DialError(n) PROVE AgreeInv'
  <2>1. UNCHANGED <<clientVars, link, c2s, server>> /\ streams' = streams \ {n}
        /\ s2c' = Put(s2c, "err", n) /\ opener[n] \in {"dialing", "doomed"}
        /\ opener' = [opener EXCEPT ![n] = "done"]
    BY <1>12 DEF DialError, Remove
  <2>2. \A t, i : t # "err" => (InFlight(s2c', t, i) <=> InFlight(s2c, t, i))
    BY <1>t, <2>1, InFlightPut
  <2>3. opener'[n] = "done" /\ \A i \in Ids : i # n => opener'[i] = opener[i]
    BY <1>0, <2>1 DEF TypeOK
  <2>4. ASSUME NEW i \in Ids PROVE Agreement(i)'
    BY <1>0, <2>1, <2>2, <2>3 DEF Agreement, Answered, Kept, clientVars
  <2> QED
    BY <1>0, <2>1, <2>4 DEF AgreeInv
<1>13. ASSUME NEW n \in Ids, Reply(n) PROVE AgreeInv'
  <2>1. UNCHANGED <<clientVars, link, c2s, server>>
        /\ (streams' = streams \/ link = "down")
        /\ s2c' = Put(s2c, "ok", n) /\ opener[n] = "reply" /\ opener' = [opener EXCEPT ![n] = "done"]
    BY <1>13 DEF Reply, Remove
  <2>2. \A i \in Ids : /\ InFlight(s2c', "reset", i) <=> InFlight(s2c, "reset", i)
                       /\ InFlight(s2c', "ok", i) => InFlight(s2c, "ok", i) \/ i = n
    BY <1>t, <2>1, InFlightPut
  <2>3. opener'[n] = "done" /\ \A i \in Ids : i # n => opener'[i] = opener[i]
    BY <1>0, <2>1 DEF TypeOK
  <2>4. ASSUME NEW i \in Ids PROVE Agreement(i)'
    BY <1>0, <2>1, <2>2, <2>3 DEF Agreement, Answered, Kept, clientVars
  <2> QED
    BY <1>0, <2>1, <2>4 DEF AgreeInv
<1>14. ASSUME NEW n \in Ids, RemoteError(n) PROVE AgreeInv'
  <2>1. UNCHANGED <<clientVars, link, c2s, server, opener>>
        /\ streams' = streams \ {n} /\ s2c' = Put(s2c, "reset", n)
    BY <1>14 DEF RemoteError, Remove
  <2>2. \A i \in Ids : /\ InFlight(s2c, "reset", i) => InFlight(s2c', "reset", i)
                       /\ InFlight(s2c', "ok", i) <=> InFlight(s2c, "ok", i)
    BY <1>t, <2>1, InFlightPut
  <2>3. link = "down" \/ InFlight(s2c', "reset", n)
    BY <1>0, <1>t, <2>1, InFlightPut DEF TypeOK
  <2>4. ASSUME NEW i \in Ids PROVE Agreement(i)'
    BY <1>0, <2>1, <2>2, <2>3 DEF Agreement, Answered, Kept, clientVars
  <2> QED
    BY <1>0, <2>1, <2>4 DEF AgreeInv
<1>15. CASE UNCHANGED vars
  <2>1. ASSUME NEW i \in Ids PROVE Agreement(i)'
    BY <1>0, <1>15 DEF Agreement, Answered, Kept, vars, clientVars, serverVars
  <2> QED
    BY <1>0, <1>15, <2>1 DEF AgreeInv, vars, serverVars
<1> QED
  BY <1>1, <1>2, <1>3, <1>4, <1>5, <1>6, <1>7, <1>8, <1>9, <1>10, <1>11, <1>12, <1>13, <1>14, <1>15
     DEF Next, OpenerNext

(* The agreement of the two ends holds throughout. *)
THEOREM AgreeInvHolds == Spec => []AgreeInv
BY AgreeInit, AgreeStep, OpenInvHolds, PTL DEF Spec

(* The server never drops silently a stream that DialContext has returned:   *)
(* while the client may use it the server has it, or its RESET is on the     *)
(* way, whatever CLOSE, a failed socket, shutdown and a lost link do.        *)
THEOREM EstablishedAgreed == Spec => []OpenAgreed
<1>1. AgreeInv => OpenAgreed
  BY DEF AgreeInv, Agreement, Answered, Kept, OpenAgreed
<1> QED
  BY AgreeInvHolds, <1>1, PTL
=============================================================================
