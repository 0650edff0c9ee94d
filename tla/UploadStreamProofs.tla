------------------------- MODULE UploadStreamProofs -------------------------
(* The upload direction of a stream for every window, every frame size and   *)
(* any number of bytes: types, exact credit, in-order delivery and the        *)
(* half-close after the last byte.                                           *)
EXTENDS UploadStream, TLAPS

-----------------------------------------------------------------------------
(* What happens to a run of adjacent ranges when a frame is appended to it   *)
(* or taken from its head.                                                   *)

(* No frame at all is a chain from any position to itself. *)
LEMMA ChainEmpty == \A a \in Nat : Chain(<<>>, a, a)
BY DEF Chain

(* Appending a range that starts where the run ends extends the run.         *)
LEMMA ChainAppend ==
    ASSUME NEW R, \A r \in R : r.from \in Nat /\ r.to \in Nat,
           NEW s \in Seq(R),
           NEW a \in Nat, NEW b \in Nat, Chain(s, a, b),
           NEW f \in R,
           f.from = b, b <= f.to
    PROVE  Chain(Append(s, f), a, f.to)
<1> DEFINE q == Append(s, f)
<1>1. Len(q) = Len(s) + 1 /\ q[Len(s) + 1] = f /\ \A i \in 1..Len(s) : q[i] = s[i]
  OBVIOUS
<1>2. /\ \A i \in 1..Len(s) : s[i].from \in Nat /\ s[i].to \in Nat
      /\ f.from \in Nat /\ f.to \in Nat /\ Len(s) \in Nat
  OBVIOUS
<1>3. q # <<>> /\ a <= f.to
  BY <1>1, <1>2 DEF Chain
<1>4. q[1].from = a /\ q[Len(q)].to = f.to
  <2>1. CASE s = <<>>
    BY <1>1, <2>1 DEF Chain
  <2>2. CASE s # <<>>
    BY <1>1, <2>2 DEF Chain
  <2> QED
    BY <2>1, <2>2
<1>5. \A i \in 1..Len(q) : q[i].from <= q[i].to
  BY <1>1, <1>2 DEF Chain
<1>6. \A i \in 1..Len(s) : s[i].to <= b
  <2> TAKE i \in 1..Len(s)
  <2>1. s # <<>> /\ s[Len(s)].to = b
    BY DEF Chain
  <2>2. CASE i = Len(s)
    BY <2>1, <2>2, <1>2
  <2>3. CASE i # Len(s)
    <3>1. i < Len(s) /\ Len(s) \in 1..Len(s)
      BY <2>3, <1>2
    <3>2. s[i].to <= s[Len(s)].from /\ s[Len(s)].from <= s[Len(s)].to
      BY <3>1 DEF Chain
    <3> QED
      BY <3>1, <3>2, <2>1, <1>2
  <2> QED
    BY <2>2, <2>3
<1>7. ASSUME NEW i \in 1..Len(q), NEW j \in 1..Len(q), i < j
      PROVE  q[i].to <= q[j].from
  <2>1. i \in 1..Len(s) /\ q[i] = s[i]
    BY <1>1, <1>2, <1>7
  <2>2. CASE j = Len(s) + 1
    BY <1>1, <1>2, <1>6, <2>1, <2>2
  <2>3. CASE j \in 1..Len(s)
    BY <1>1, <1>7, <2>1, <2>3 DEF Chain
  <2> QED
    BY <1>1, <1>2, <2>2, <2>3
<1>8. ASSUME NEW i \in 1..Len(q), i + 1 <= Len(q)
      PROVE  q[i + 1].from = q[i].to
  <2>1. i \in 1..Len(s) /\ q[i] = s[i]
    BY <1>1, <1>2, <1>8
  <2>2. CASE i = Len(s)
    BY <1>1, <1>2, <2>1, <2>2 DEF Chain
  <2>3. CASE i + 1 \in 1..Len(s)
    BY <1>1, <2>1, <2>3 DEF Chain
  <2>4. i = Len(s) \/ i + 1 \in 1..Len(s)
    BY <1>2, <2>1
  <2> QED
    BY <2>2, <2>3, <2>4
<1> HIDE DEF q
<1>9. Chain(q, a, f.to)
  BY <1>3, <1>4, <1>5, <1>7, <1>8 DEF Chain
<1> QED
  BY <1>9 DEF q

(* The head of a run starts at its beginning, and the rest is a run from     *)
(* where the head ends.                                                      *)
LEMMA ChainTail ==
    ASSUME NEW R, \A r \in R : r.from \in Nat /\ r.to \in Nat,
           NEW s \in Seq(R), s # <<>>,
           NEW a \in Nat, NEW b \in Nat, Chain(s, a, b)
    PROVE  /\ Head(s) \in R
           /\ Tail(s) \in Seq(R)
           /\ Head(s).from = a
           /\ a <= Head(s).to
           /\ Head(s).to <= b
           /\ Chain(Tail(s), Head(s).to, b)
<1> DEFINE q == Tail(s)
<1>1. /\ Len(s) \in Nat /\ Len(s) >= 1 /\ Head(s) = s[1] /\ Len(q) = Len(s) - 1
      /\ \A i \in 1..Len(q) : q[i] = s[i + 1]
  OBVIOUS
<1>2. \A i \in 1..Len(s) : s[i].from \in Nat /\ s[i].to \in Nat
  OBVIOUS
<1>3. Head(s).from = a /\ a <= Head(s).to
  BY <1>1 DEF Chain
<1>4. Head(s).to <= b
  <2>1. CASE Len(s) = 1
    BY <1>1, <1>2, <2>1 DEF Chain
  <2>2. CASE Len(s) # 1
    <3>1. 1 \in 1..Len(s) /\ Len(s) \in 1..Len(s) /\ 1 < Len(s)
      BY <1>1, <2>2
    <3>2. s[1].to <= s[Len(s)].from /\ s[Len(s)].from <= s[Len(s)].to /\ s[Len(s)].to = b
      BY <3>1 DEF Chain
    <3> QED
      BY <1>1, <1>2, <3>1, <3>2
  <2> QED
    BY <2>1, <2>2
<1>5. q = <<>> => Head(s).to = b
  <2>1. q = <<>> => Len(s) = 1
    <3>1. q = <<>> => Len(q) = 0
      BY Zenon, Len(<<>>) = 0
    <3> QED
      BY <1>1, <3>1
  <2> QED
    BY <1>1, <2>1 DEF Chain
<1>6. q # <<>> => q[1].from = Head(s).to /\ q[Len(q)].to = b
  <2>1. q # <<>> => Len(q) >= 1
    OBVIOUS
  <2>2. Len(q) >= 1 => q[1] = s[1 + 1] /\ q[Len(q)] = s[Len(s)]
    BY <1>1
  <2>3. Len(q) >= 1 => s[1 + 1].from = s[1].to
    BY <1>1 DEF Chain
  <2> QED
    BY <1>1, <2>1, <2>2, <2>3 DEF Chain
<1>7. \A i \in 1..Len(q) : q[i].from <= q[i].to
  <2> TAKE i \in 1..Len(q)
  <2>1. i + 1 \in 1..Len(s) /\ q[i] = s[i + 1]
    BY <1>1
  <2> QED
    BY <2>1 DEF Chain
<1>8. ASSUME NEW i \in 1..Len(q), NEW j \in 1..Len(q), i < j
      PROVE  q[i].to <= q[j].from
  <2>1. i + 1 \in 1..Len(s) /\ q[i] = s[i + 1] /\ j + 1 \in 1..Len(s) /\ q[j] = s[j + 1]
    BY <1>1
  <2>2. i + 1 < j + 1
    BY <1>8
  <2> QED
    BY <2>1, <2>2 DEF Chain
<1>9. ASSUME NEW i \in 1..Len(q), i + 1 <= Len(q)
      PROVE  q[i + 1].from = q[i].to
  <2>1. /\ i + 1 \in 1..Len(s) /\ q[i] = s[i + 1] /\ (i + 1) + 1 <= Len(s)
        /\ q[i + 1] = s[(i + 1) + 1]
    BY <1>1, <1>9
  <2> QED
    BY <2>1 DEF Chain
<1>10. Chain(q, Head(s).to, b)
  BY <1>4, <1>5, <1>6, <1>7, <1>8, <1>9 DEF Chain
<1>11. Head(s) \in R
       /\ Tail(s) \in Seq(R)
  BY <1>1
<1> QED
  BY <1>3, <1>4, <1>10, <1>11

-----------------------------------------------------------------------------
(* The inductive invariant.  The client's window, the credit it holds and    *)
(* the bytes sent and not credited make up the initial window; every byte    *)
(* sent and not written is at one place on the way                           *)
(*      cur, queue, c2s                                                      *)
(* and every byte written and not credited is at one place on the way back   *)
(*      count, s2c,                                                          *)
(* all of them as adjacent ranges, as long as the end that would receive     *)
(* them still keeps the stream.                                              *)
Positions ==
    /\ held <= want
    /\ avail + held + sent = Window + credited
    /\ count <= delivered
    /\ credited <= delivered - count
    /\ cur.from = delivered /\ cur.from <= cur.to
    /\ worker = "select" => cur.from = cur.to
    /\ worker = "write" => cur.from < cur.to
    /\ (worker = "update") <=> (count > 0)
    /\ rcvd <= sent
    /\ clientErr # "invalid-update"
    /\ writeSide = "half-closed" => want = 0
    /\ remote = "half-closed" => writeSide = "half-closed" /\ delivered = sent

Chains ==
    /\ client # "closed" => Chain(s2c, credited, delivered - count)
    /\ Chain(queue, cur.to, rcvd)
    /\ server = "open" => Chain(c2s, rcvd, sent)

(* The frames each sequence can hold; a half-close stands at the end of what *)
(* was sent.                                                                 *)
FromClient(f) ==
    /\ f.type \in {"data", "half", "close"}
    /\ f.type = "data" => f.from < f.to
    /\ f.type = "half" => f.from = sent /\ f.to = sent /\ writeSide = "half-closed"

FromServer(f) ==
    /\ f.type \in {"update", "reset"}
    /\ f.type = "update" => f.from < f.to
    /\ f.type = "reset" => f.from = f.to

FramesOK ==
    /\ \A i \in 1..Len(c2s) : FromClient(c2s[i])
    /\ \A i \in 1..Len(queue) : FromClient(queue[i])
    /\ \A i \in 1..Len(s2c) : FromServer(s2c[i])

UploadInv == TypeOK /\ Positions /\ Chains /\ FramesOK

-----------------------------------------------------------------------------
(* Frames and sequences of them. *)

(* The fields of a frame. *)
LEMMA FrameFields ==
    /\ \A r \in Frames : r.from \in Nat /\ r.to \in Nat /\ r.type \in FrameTypes
    /\ \A t \in FrameTypes, a, b \in Nat :
          /\ Frame(t, a, b) \in Frames
          /\ Frame(t, a, b).type = t
          /\ Frame(t, a, b).from = a
          /\ Frame(t, a, b).to = b
BY DEF Frames, Frame

(* The elements of a sequence with one appended are its own and that one. *)
LEMMA ElementsAppend ==
    ASSUME NEW R, NEW s \in Seq(R), NEW f \in R
    PROVE  /\ Append(s, f) \in Seq(R)
           /\ \A i \in 1..Len(Append(s, f)) :
                 Append(s, f)[i] = f \/ \E j \in 1..Len(s) : Append(s, f)[i] = s[j]
OBVIOUS

(* The elements of the tail are elements of the sequence. *)
LEMMA ElementsTail ==
    ASSUME NEW R, NEW s \in Seq(R), s # <<>>
    PROVE  /\ Tail(s) \in Seq(R)
           /\ Head(s) \in R
           /\ \E j \in 1..Len(s) : Head(s) = s[j]
           /\ \A i \in 1..Len(Tail(s)) : \E j \in 1..Len(s) : Tail(s)[i] = s[j]
<1>1. Len(s) \in Nat /\ Len(s) >= 1 /\ Head(s) = s[1] /\ 1 \in 1..Len(s)
  OBVIOUS
<1>2. ASSUME NEW i \in 1..Len(Tail(s)) PROVE \E j \in 1..Len(s) : Tail(s)[i] = s[j]
  <2>1. i + 1 \in 1..Len(s) /\ Tail(s)[i] = s[i + 1]
    OBVIOUS
  <2> QED
    BY <2>1
<1> QED
  BY <1>1, <1>2

(* The facts about runs of ranges, for sequences of frames. *)
LEMMA FramesAppend ==
    ASSUME NEW s \in Seq(Frames), NEW a \in Nat, NEW b \in Nat, Chain(s, a, b),
           NEW f \in Frames, f.from = b, b <= f.to
    PROVE  Chain(Append(s, f), a, f.to)
BY FrameFields, ChainAppend

(* The rest of a channel is a channel. *)
LEMMA FramesTail ==
    ASSUME NEW s \in Seq(Frames), s # <<>>,
           NEW a \in Nat, NEW b \in Nat, Chain(s, a, b)
    PROVE  /\ Head(s).from = a
           /\ a <= Head(s).to
           /\ Head(s).to <= b
           /\ Chain(Tail(s), Head(s).to, b)
BY FrameFields, ChainTail

-----------------------------------------------------------------------------
(* The invariant holds initially and every action preserves it. *)

(* A stream that was just established is in a state of the invariant. *)
LEMMA InvInit == Init => UploadInv
<1> SUFFICES ASSUME Init PROVE UploadInv
  OBVIOUS
<1> USE WindowAssumption, MaxDataAssumption, FrameFields
<1>1. Frame("data", 0, 0) \in Frames /\ Frame("data", 0, 0).from = 0 /\ Frame("data", 0, 0).to = 0
  BY DEF FrameTypes
<1>2. TypeOK
  BY <1>1 DEF Init, TypeOK
<1>3. Positions
  BY <1>1 DEF Init, Positions
<1>4. Chains
  BY <1>1, ChainEmpty DEF Init, Chains
<1>5. FramesOK
  BY DEF Init, FramesOK
<1> QED
  BY <1>2, <1>3, <1>4, <1>5 DEF UploadInv

(* Actions of the client that touch neither wire. *)
LEMMA WriteInv ==
    ASSUME UploadInv,
           (\E n \in 1..Total : Write(n)) \/ WriteTake \/ WriteAbort \/ WriteTimeout
    PROVE  UploadInv'
<1> USE WindowAssumption, MaxDataAssumption, TotalAssumption
<1>1. UNCHANGED <<sent, writeSide, client, clientErr, credited, serverVars, c2s, s2c>>
  BY DEF Write, WriteTake, WriteAbort, WriteTimeout
<1>2. /\ want' \in Nat /\ avail' \in 0..Window /\ held' \in 0..MaxData
      /\ held' <= want' /\ avail' + held' = avail + held
      /\ writeSide = "half-closed" => want' = 0
  <2>1. CASE \E n \in 1..Total : Write(n)
    BY <2>1 DEF UploadInv, TypeOK, Positions, Write
  <2>2. CASE WriteTake
    <3> DEFINE n == TakeCount(Least(want, MaxData), avail)
    <3>1. /\ want \in Nat /\ want > 0 /\ held = 0 /\ avail \in 0..Window /\ avail > 0
          /\ held' = n /\ avail' = avail - n /\ want' = want
      BY <2>2 DEF UploadInv, TypeOK, WriteTake
    <3>2. n \in Nat /\ n <= want /\ n <= avail /\ n <= MaxData
      BY <3>1 DEF TakeCount, Least
    <3>3. writeSide # "half-closed"
      BY <3>1 DEF UploadInv, Positions
    <3> QED
      BY <3>1, <3>2, <3>3
  <2>3. CASE WriteAbort \/ WriteTimeout
    <3>1. want' = 0 /\ held' = held /\ avail' = avail /\ held = 0
      BY <2>3 DEF WriteAbort, WriteTimeout
    <3> QED
      BY <3>1 DEF UploadInv, TypeOK
  <2> QED
    BY <2>1, <2>2, <2>3
<1>3. TypeOK'
  BY <1>1, <1>2 DEF UploadInv, TypeOK, serverVars
<1>4. Positions'
  BY <1>1, <1>2 DEF UploadInv, TypeOK, Positions, serverVars
<1>5. Chains' /\ FramesOK'
  BY <1>1 DEF UploadInv, Chains, FramesOK, FromClient, FromServer, serverVars
<1> QED
  BY <1>3, <1>4, <1>5 DEF UploadInv

(* Sending the chunk that credit was taken for keeps the invariant. *)
LEMMA WriteSendInv ==
    ASSUME UploadInv, WriteSend
    PROVE  UploadInv'
<1> DEFINE f == Frame("data", sent, sent + held)
<1> USE WindowAssumption, MaxDataAssumption
<1>1. /\ sent \in Nat /\ held \in Nat /\ held > 0 /\ held <= want /\ want \in Nat
      /\ c2s \in Seq(Frames) /\ rcvd \in Nat
  BY DEF UploadInv, TypeOK, Positions, WriteSend
<1>2. f \in Frames /\ f.type = "data" /\ f.from = sent /\ f.to = sent + held
  BY <1>1, FrameFields DEF FrameTypes
<1>3. /\ c2s' = Append(c2s, f) /\ sent' = sent + held
      /\ want' = want - held /\ held' = 0
      /\ UNCHANGED <<avail, writeSide, client, clientErr, credited, serverVars, s2c>>
  BY DEF WriteSend
<1> HIDE DEF f
<1>4. writeSide = "open"
  BY <1>1 DEF UploadInv, TypeOK, Positions
<1>5. c2s' \in Seq(Frames)
  BY <1>1, <1>2, <1>3, ElementsAppend
<1>6. TypeOK'
  BY <1>1, <1>3, <1>5 DEF UploadInv, TypeOK, serverVars
<1>7. Positions'
  BY <1>1, <1>3, <1>4 DEF UploadInv, TypeOK, Positions, serverVars
<1>8. server = "open" => Chain(c2s', rcvd, sent')
  BY <1>1, <1>2, <1>3, FramesAppend DEF UploadInv, Chains
<1>9. Chains'
  BY <1>3, <1>8 DEF UploadInv, Chains, serverVars
<1>10. \A i \in 1..Len(c2s') : FromClient(c2s[i])'
  <2> TAKE i \in 1..Len(c2s')
  <2>1. CASE c2s'[i] = f
    BY <1>1, <1>2, <2>1 DEF FromClient
  <2>2. CASE \E j \in 1..Len(c2s) : c2s'[i] = c2s[j]
    BY <1>3, <1>4, <2>2 DEF UploadInv, FramesOK, FromClient
  <2> QED
    BY <1>1, <1>2, <1>3, <2>1, <2>2, ElementsAppend
<1>11. FramesOK'
  BY <1>3, <1>4, <1>10 DEF UploadInv, FramesOK, FromClient, FromServer, serverVars
<1> QED
  BY <1>6, <1>7, <1>9, <1>11 DEF UploadInv

(* CloseWrite and Close: the client appends a frame at position sent, or     *)
(* nothing.                                                                  *)
LEMMA CloseWriteInv ==
    ASSUME UploadInv, CloseWrite
    PROVE  UploadInv'
<1> DEFINE f == Frame("half", sent, sent)
<1>1. sent \in Nat /\ c2s \in Seq(Frames) /\ rcvd \in Nat /\ want = 0 /\ writeSide = "open"
  BY DEF UploadInv, TypeOK, CloseWrite
<1>2. f \in Frames /\ f.type = "half" /\ f.from = sent /\ f.to = sent
  BY <1>1, FrameFields DEF FrameTypes
<1>3. /\ c2s' = Append(c2s, f) /\ writeSide' = "half-closed"
      /\ UNCHANGED <<want, avail, held, sent, client, clientErr, credited, serverVars, s2c>>
  BY DEF CloseWrite
<1> HIDE DEF f
<1>4. c2s' \in Seq(Frames)
  BY <1>1, <1>2, <1>3, ElementsAppend
<1>5. TypeOK'
  BY <1>3, <1>4 DEF UploadInv, TypeOK, serverVars
<1>6. Positions'
  BY <1>1, <1>3 DEF UploadInv, TypeOK, Positions, serverVars
<1>7. server = "open" => Chain(c2s', rcvd, sent)
  <2>1. server = "open" => Chain(c2s, rcvd, sent)
    BY DEF UploadInv, Chains
  <2>2. server = "open" => Chain(Append(c2s, f), rcvd, f.to)
    BY <1>1, <1>2, <2>1, FramesAppend
  <2> QED
    BY <1>2, <1>3, <2>2
<1>8. Chains'
  BY <1>3, <1>7 DEF UploadInv, Chains, serverVars
<1>9. \A i \in 1..Len(c2s') : FromClient(c2s[i])'
  <2> TAKE i \in 1..Len(c2s')
  <2>1. CASE c2s'[i] = f
    BY <1>1, <1>2, <1>3, <2>1 DEF FromClient
  <2>2. CASE \E j \in 1..Len(c2s) : c2s'[i] = c2s[j]
    BY <1>3, <2>2 DEF UploadInv, FramesOK, FromClient
  <2> QED
    BY <1>1, <1>2, <1>3, <2>1, <2>2, ElementsAppend
<1>10. \A i \in 1..Len(queue) : FromClient(queue[i])'
  BY <1>1, <1>3 DEF UploadInv, FramesOK, FromClient, serverVars
<1>11. FramesOK'
  BY <1>3, <1>9, <1>10 DEF UploadInv, FramesOK, FromServer, serverVars
<1> QED
  BY <1>5, <1>6, <1>8, <1>11 DEF UploadInv

(* Closing the stream at the client keeps the invariant. *)
LEMMA CloseInv ==
    ASSUME UploadInv, Close
    PROVE  UploadInv'
<1> DEFINE f == Frame("close", sent, sent)
<1>1. sent \in Nat /\ c2s \in Seq(Frames) /\ rcvd \in Nat
  BY DEF UploadInv, TypeOK
<1>2. f \in Frames /\ f.type = "close" /\ f.from = sent /\ f.to = sent
  BY <1>1, FrameFields DEF FrameTypes
<1>3. /\ c2s' = c2s \/ c2s' = Append(c2s, f)
      /\ client' = "closed" /\ clientErr' \in {clientErr, "eof"}
      /\ UNCHANGED <<want, avail, held, sent, writeSide, credited, serverVars, s2c>>
  BY DEF Close, Failed
<1> HIDE DEF f
<1>4. c2s' \in Seq(Frames)
  BY <1>1, <1>2, <1>3, ElementsAppend
<1>5. TypeOK'
  BY <1>3, <1>4 DEF UploadInv, TypeOK, serverVars
<1>6. Positions'
  BY <1>3 DEF UploadInv, TypeOK, Positions, serverVars
<1>7. server = "open" => Chain(c2s', rcvd, sent)
  <2>1. CASE c2s' = c2s
    BY <2>1 DEF UploadInv, Chains
  <2>2. CASE c2s' = Append(c2s, f)
    BY <1>1, <1>2, <2>2, FramesAppend DEF UploadInv, Chains
  <2> QED
    BY <1>3, <2>1, <2>2
<1>8. Chains'
  BY <1>3, <1>7 DEF UploadInv, Chains, serverVars
<1>9. \A i \in 1..Len(c2s') : c2s'[i] = f \/ \E j \in 1..Len(c2s) : c2s'[i] = c2s[j]
  <2>1. CASE c2s' = c2s
    BY <2>1
  <2>2. CASE c2s' = Append(c2s, f)
    BY <1>1, <1>2, <2>2, ElementsAppend
  <2> QED
    BY <1>3, <2>1, <2>2
<1>10. \A i \in 1..Len(c2s') : FromClient(c2s[i])'
  <2> TAKE i \in 1..Len(c2s')
  <2>1. CASE c2s'[i] = f
    BY <1>2, <2>1 DEF FromClient
  <2>2. CASE \E j \in 1..Len(c2s) : c2s'[i] = c2s[j]
    BY <1>3, <2>2 DEF UploadInv, FramesOK, FromClient
  <2> QED
    BY <1>9, <2>1, <2>2
<1>11. FramesOK'
  BY <1>3, <1>10 DEF UploadInv, FramesOK, FromClient, FromServer, serverVars
<1> QED
  BY <1>5, <1>6, <1>8, <1>11 DEF UploadInv

(* The client takes a frame from s2c.  The head of the run is the next range  *)
(* to be credited, so a WINDOW_UPDATE always fits the window.                *)
LEMMA ClientUpdateInv ==
    ASSUME UploadInv, ClientUpdate
    PROVE  UploadInv'
<1> DEFINE h == Head(s2c)
<1> DEFINE n == Bytes(h)
<1> USE WindowAssumption
<1>1. /\ s2c \in Seq(Frames) /\ s2c # <<>> /\ h.type = "update" /\ s2c' = Tail(s2c)
      /\ UNCHANGED <<want, held, sent, writeSide, serverVars, c2s>>
  BY DEF UploadInv, TypeOK, ClientUpdate
<1>2. /\ s2c' \in Seq(Frames) /\ h \in Frames
      /\ \A i \in 1..Len(s2c') : \E j \in 1..Len(s2c) : s2c'[i] = s2c[j]
      /\ \E j \in 1..Len(s2c) : h = s2c[j]
  BY <1>1, ElementsTail
<1>3. h.from \in Nat /\ h.to \in Nat /\ h.from < h.to
  BY <1>1, <1>2, FrameFields DEF UploadInv, FramesOK, FromServer
<1>4. FramesOK'
  BY <1>1, <1>2 DEF UploadInv, FramesOK, FromClient, FromServer, serverVars
<1>5. CASE client = "closed"
  <2>1. UNCHANGED <<avail, credited, client, clientErr>>
    BY <1>5 DEF ClientUpdate
  <2> QED
    BY <1>1, <1>2, <1>4, <1>5, <2>1
       DEF UploadInv, TypeOK, Positions, Chains, serverVars
<1>6. CASE client # "closed"
  <2>1. /\ delivered \in Nat /\ count \in Nat /\ credited \in Nat /\ count <= delivered
        /\ delivered - count \in Nat /\ sent \in Nat /\ held \in Nat /\ avail \in Nat
        /\ avail + held + sent = Window + credited
        /\ rcvd \in Nat /\ rcvd <= sent
    BY MaxDataAssumption DEF UploadInv, TypeOK, Positions
  <2>2. /\ h.from = credited /\ h.to <= delivered - count
        /\ Chain(s2c', h.to, delivered - count)
    BY <1>1, <1>6, <2>1, FramesTail DEF UploadInv, Chains
  <2>3. cur \in Frames /\ cur.from = delivered /\ cur.from <= cur.to /\ Chain(queue, cur.to, rcvd)
    BY DEF UploadInv, TypeOK, Positions, Chains
  <2>4. delivered <= sent
    BY <2>1, <2>3, FrameFields DEF Chain
  <2>5. n \in Nat /\ n > 0 /\ avail + n <= Window /\ credited + n = h.to
    BY <1>3, <2>1, <2>2, <2>4 DEF Bytes
  <2>6. CanAdd(avail, n)
    BY <2>5 DEF CanAdd
  <2>7. avail' = avail + n /\ credited' = credited + n /\ UNCHANGED <<client, clientErr>>
    BY <1>6, <2>6 DEF ClientUpdate
  <2> HIDE DEF n
  <2>8. TypeOK'
    BY <1>1, <1>2, <2>1, <2>5, <2>7 DEF UploadInv, TypeOK, serverVars
  <2>9. Positions'
    <3>1. avail' + held + sent = Window + credited' /\ credited' <= delivered - count
      BY <1>3, <2>1, <2>2, <2>5, <2>7
    <3> QED
      BY <1>1, <2>7, <3>1 DEF UploadInv, Positions, serverVars
  <2>10. Chains'
    <3>1. credited' = h.to
      BY <2>5, <2>7
    <3> QED
      BY <1>1, <2>2, <2>7, <3>1 DEF UploadInv, Chains, serverVars
  <2> QED
    BY <1>4, <2>8, <2>9, <2>10 DEF UploadInv
<1> QED
  BY <1>5, <1>6

(* A RESET that reaches the client keeps the invariant. *)
LEMMA ClientResetInv ==
    ASSUME UploadInv, ClientReset
    PROVE  UploadInv'
<1> DEFINE h == Head(s2c)
<1>1. /\ s2c \in Seq(Frames) /\ s2c # <<>> /\ h.type = "reset" /\ s2c' = Tail(s2c)
      /\ UNCHANGED <<want, avail, held, sent, writeSide, credited, serverVars, c2s>>
      /\ (client = "closed") = (client' = "closed")
      /\ client' \in {"open", "failed", "closed"} /\ clientErr' \in {clientErr, "reset"}
  BY DEF UploadInv, TypeOK, ClientReset, Failed
<1>2. /\ s2c' \in Seq(Frames) /\ h \in Frames
      /\ \A i \in 1..Len(s2c') : \E j \in 1..Len(s2c) : s2c'[i] = s2c[j]
  BY <1>1, ElementsTail
<1>3. FramesOK'
  BY <1>1, <1>2 DEF UploadInv, FramesOK, FromClient, FromServer, serverVars
<1>4. TypeOK' /\ Positions'
  BY <1>1, <1>2 DEF UploadInv, TypeOK, Positions, serverVars
<1>5. client # "closed" => Chain(s2c', credited, delivered - count)
  <2> SUFFICES ASSUME client # "closed" PROVE Chain(s2c', credited, delivered - count)
    OBVIOUS
  <2>1. delivered - count \in Nat /\ credited \in Nat
    BY MaxDataAssumption, WindowAssumption DEF UploadInv, TypeOK, Positions
  <2>2. h.from = credited /\ Chain(s2c', h.to, delivered - count)
    BY <1>1, <2>1, FramesTail DEF UploadInv, Chains
  <2>3. h.from = h.to
    <3>1. \E j \in 1..Len(s2c) : h = s2c[j]
      BY <1>1, ElementsTail
    <3> QED
      BY <1>1, <3>1 DEF UploadInv, FramesOK, FromServer
  <2> QED
    BY <2>2, <2>3
<1>6. Chains'
  BY <1>1, <1>5 DEF UploadInv, Chains, serverVars
<1> QED
  BY <1>3, <1>4, <1>6 DEF UploadInv

(* The server's frame reader takes the head of c2s: the next range to be      *)
(* queued while the stream is open.                                          *)
LEMMA ServerDataInv ==
    ASSUME UploadInv, ServerData
    PROVE  UploadInv'
<1> DEFINE h == Head(c2s)
<1> DEFINE r == Frame("reset", delivered - count, delivered - count)
<1>1. /\ c2s \in Seq(Frames) /\ c2s # <<>> /\ h.type = "data" /\ c2s' = Tail(c2s)
      /\ UNCHANGED <<worker, cur, count, workerErr, delivered, remote, clientVars>>
      /\ queue \in Seq(Frames) /\ s2c \in Seq(Frames) /\ cur \in Frames
      /\ server \in {"open", "removing", "removed"}
  BY DEF UploadInv, TypeOK, ServerData
<1>2. /\ c2s' \in Seq(Frames) /\ h \in Frames
      /\ \A i \in 1..Len(c2s') : \E j \in 1..Len(c2s) : c2s'[i] = c2s[j]
      /\ \E j \in 1..Len(c2s) : h = c2s[j]
  BY <1>1, ElementsTail
<1>3. /\ rcvd \in Nat /\ sent \in Nat /\ delivered - count \in Nat /\ credited \in Nat
      /\ h.from \in Nat /\ h.to \in Nat /\ cur.to \in Nat
  BY <1>1, <1>2, FrameFields, MaxDataAssumption, WindowAssumption DEF UploadInv, TypeOK, Positions
<1>4. r \in Frames /\ r.type = "reset" /\ r.from = delivered - count /\ r.to = delivered - count
  BY <1>3, FrameFields DEF FrameTypes
<1>5. \A i \in 1..Len(c2s') : FromClient(c2s[i])'
  BY <1>1, <1>2 DEF UploadInv, FramesOK, FromClient, clientVars
<1>6. CASE server # "open"
  <2>1. UNCHANGED <<queue, rcvd, server, s2c>>
    BY <1>6 DEF ServerData
  <2>2. TypeOK' /\ Positions'
    BY <1>1, <1>2, <2>1 DEF UploadInv, TypeOK, Positions, clientVars
  <2>3. Chains' /\ FramesOK'
    BY <1>1, <1>5, <1>6, <2>1 DEF UploadInv, Chains, FramesOK, FromClient, FromServer, clientVars
  <2> QED
    BY <2>2, <2>3 DEF UploadInv
<1>7. CASE server = "open" /\ Len(queue) < QueueCap
  <2>1. queue' = Append(queue, h) /\ rcvd' = h.to /\ UNCHANGED <<server, s2c>>
    BY <1>7 DEF ServerData
  <2>2. /\ h.from = rcvd /\ rcvd <= h.to /\ h.to <= sent /\ Chain(c2s', h.to, sent)
    <3>1. Chain(c2s, rcvd, sent)
      BY <1>7 DEF UploadInv, Chains
    <3> QED
      BY <1>1, <1>3, <3>1, FramesTail
  <2>3. Chain(queue', cur.to, h.to)
    <3>1. Chain(queue, cur.to, rcvd)
      BY DEF UploadInv, Chains
    <3>2. Chain(Append(queue, h), cur.to, h.to)
      BY <1>1, <1>2, <1>3, <2>2, <3>1, FramesAppend
    <3> QED
      BY <2>1, <3>2
  <2>4. Chains'
    BY <1>1, <2>1, <2>2, <2>3 DEF UploadInv, Chains, clientVars
  <2>5. /\ queue' \in Seq(Frames)
        /\ \A i \in 1..Len(queue') : queue'[i] = h \/ \E j \in 1..Len(queue) : queue'[i] = queue[j]
    BY <1>1, <1>2, <2>1, ElementsAppend
  <2>6. TypeOK'
    BY <1>1, <1>2, <1>3, <2>1, <2>5 DEF UploadInv, TypeOK, clientVars
  <2>6a. Positions'
    BY <1>1, <2>1, <2>2 DEF UploadInv, Positions, clientVars
  <2>7. \A i \in 1..Len(queue') : FromClient(queue[i])'
    <3>1. FromClient(h) /\ \A j \in 1..Len(queue) : FromClient(queue[j])
      BY <1>2 DEF UploadInv, FramesOK
    <3>2. \A i \in 1..Len(queue') : FromClient(queue'[i])
      BY <2>5, <3>1
    <3> QED
      BY <1>1, <3>2 DEF FromClient, clientVars
  <2>8. FramesOK'
    BY <1>5, <2>1, <2>7 DEF UploadInv, FramesOK, FromServer
  <2> QED
    BY <2>4, <2>6, <2>6a, <2>8 DEF UploadInv
<1>8. CASE server = "open" /\ ~(Len(queue) < QueueCap)
  <2>1. s2c' = Append(s2c, r) /\ server' = "removing" /\ UNCHANGED <<queue, rcvd>>
    BY <1>8 DEF ServerData
  <2> HIDE DEF r
  <2>2. /\ s2c' \in Seq(Frames)
        /\ \A i \in 1..Len(s2c') : s2c'[i] = r \/ \E j \in 1..Len(s2c) : s2c'[i] = s2c[j]
    BY <1>1, <1>4, <2>1, ElementsAppend
  <2>3. TypeOK' /\ Positions'
    BY <1>1, <1>2, <2>1, <2>2 DEF UploadInv, TypeOK, Positions, clientVars
  <2>4. client # "closed" => Chain(s2c', credited, delivered - count)
    <3>1. client # "closed" => Chain(s2c, credited, delivered - count)
      BY DEF UploadInv, Chains
    <3>2. client # "closed" => Chain(Append(s2c, r), credited, r.to)
      BY <1>1, <1>3, <1>4, <3>1, FramesAppend
    <3> QED
      BY <1>4, <2>1, <3>2
  <2>5. Chains'
    BY <1>1, <2>1, <2>4 DEF UploadInv, Chains, clientVars
  <2>6. \A i \in 1..Len(s2c') : FromServer(s2c[i])'
    BY <1>4, <2>2 DEF UploadInv, FramesOK, FromServer
  <2>7. FramesOK'
    BY <1>1, <1>5, <2>1, <2>6 DEF UploadInv, FramesOK, FromClient, clientVars
  <2> QED
    BY <2>3, <2>5, <2>7 DEF UploadInv
<1> QED
  BY <1>6, <1>7, <1>8

(* Queueing a half-close keeps the invariant. *)
LEMMA ServerHalfCloseInv ==
    ASSUME UploadInv, ServerHalfClose
    PROVE  UploadInv'
<1> DEFINE h == Head(c2s)
<1>1. /\ c2s \in Seq(Frames) /\ c2s # <<>> /\ h.type = "half" /\ c2s' = Tail(c2s)
      /\ UNCHANGED <<server, rcvd, worker, cur, count, workerErr, delivered, remote,
                     clientVars, s2c>>
      /\ queue \in Seq(Frames) /\ cur \in Frames
  BY DEF UploadInv, TypeOK, ServerHalfClose
<1>2. /\ c2s' \in Seq(Frames) /\ h \in Frames
      /\ \A i \in 1..Len(c2s') : \E j \in 1..Len(c2s) : c2s'[i] = c2s[j]
      /\ \E j \in 1..Len(c2s) : h = c2s[j]
  BY <1>1, ElementsTail
<1>3. rcvd \in Nat /\ sent \in Nat /\ h.from \in Nat /\ h.to \in Nat /\ cur.to \in Nat
  BY <1>1, <1>2, FrameFields DEF UploadInv, TypeOK
<1>4. FromClient(h) /\ h.from = h.to
  BY <1>1, <1>2 DEF UploadInv, FramesOK, FromClient
<1>5. \A i \in 1..Len(c2s') : FromClient(c2s[i])'
  BY <1>1, <1>2 DEF UploadInv, FramesOK, FromClient, clientVars
<1>6. server = "open" => h.from = rcvd /\ Chain(c2s', rcvd, sent)
  BY <1>1, <1>3, <1>4, FramesTail DEF UploadInv, Chains
<1>7. CASE UNCHANGED queue
  <2>1. TypeOK' /\ Positions'
    BY <1>1, <1>2, <1>7 DEF UploadInv, TypeOK, Positions, clientVars
  <2>2. Chains' /\ FramesOK'
    BY <1>1, <1>5, <1>6, <1>7 DEF UploadInv, Chains, FramesOK, FromClient, FromServer, clientVars
  <2> QED
    BY <2>1, <2>2 DEF UploadInv
<1>8. CASE server = "open" /\ queue' = Append(queue, h)
  <2>1. Chain(queue', cur.to, rcvd)
    <3>1. Chain(queue, cur.to, rcvd)
      BY DEF UploadInv, Chains
    <3>2. Chain(Append(queue, h), cur.to, h.to)
      BY <1>1, <1>2, <1>3, <1>4, <1>6, <1>8, <3>1, FramesAppend
    <3> QED
      BY <1>4, <1>6, <1>8, <3>2
  <2>2. /\ queue' \in Seq(Frames)
        /\ \A i \in 1..Len(queue') : queue'[i] = h \/ \E j \in 1..Len(queue) : queue'[i] = queue[j]
    BY <1>1, <1>2, <1>8, ElementsAppend
  <2>3. TypeOK' /\ Positions'
    BY <1>1, <1>2, <2>2 DEF UploadInv, TypeOK, Positions, clientVars
  <2>4. Chains'
    BY <1>1, <1>6, <2>1 DEF UploadInv, Chains, clientVars
  <2>5. \A i \in 1..Len(queue') : FromClient(queue[i])'
    <3>1. \A j \in 1..Len(queue) : FromClient(queue[j])
      BY DEF UploadInv, FramesOK
    <3>2. \A i \in 1..Len(queue') : FromClient(queue'[i])
      BY <1>4, <2>2, <3>1
    <3> QED
      BY <1>1, <3>2 DEF FromClient, clientVars
  <2>6. FramesOK'
    BY <1>1, <1>5, <2>5 DEF UploadInv, FramesOK, FromServer
  <2> QED
    BY <2>3, <2>4, <2>6 DEF UploadInv
<1> QED
  BY <1>7, <1>8 DEF ServerHalfClose

(* A CLOSE that reaches the server keeps the invariant. *)
LEMMA ServerCloseInv ==
    ASSUME UploadInv, ServerClose
    PROVE  UploadInv'
<1>1. /\ c2s \in Seq(Frames) /\ c2s # <<>> /\ c2s' = Tail(c2s)
      /\ UNCHANGED <<queue, rcvd, worker, cur, count, workerErr, delivered, remote,
                     clientVars, s2c>>
      /\ server' \in {"removing", "removed"}
  BY DEF UploadInv, TypeOK, ServerClose, Removed
<1>2. /\ c2s' \in Seq(Frames)
      /\ \A i \in 1..Len(c2s') : \E j \in 1..Len(c2s) : c2s'[i] = c2s[j]
  BY <1>1, ElementsTail
<1>3. \A i \in 1..Len(c2s') : FromClient(c2s[i])'
  BY <1>1, <1>2 DEF UploadInv, FramesOK, FromClient, clientVars
<1>4. TypeOK' /\ Positions'
  BY <1>1, <1>2 DEF UploadInv, TypeOK, Positions, clientVars
<1>5. Chains' /\ FramesOK'
  BY <1>1, <1>3 DEF UploadInv, Chains, FramesOK, FromClient, FromServer, clientVars
<1> QED
  BY <1>4, <1>5 DEF UploadInv

(* Closing the Windows socket keeps the invariant. *)
LEMMA CloseConnInv ==
    ASSUME UploadInv, CloseConn \/ WorkerDone
    PROVE  UploadInv'
<1>1. /\ UNCHANGED <<queue, rcvd, cur, count, workerErr, delivered, remote, clientVars, c2s, s2c>>
      /\ \/ UNCHANGED worker /\ server = "removing" /\ server' = "removed"
         \/ worker = "select" /\ worker' = "exit" /\ UNCHANGED server
  BY DEF CloseConn, WorkerDone
<1>2. TypeOK' /\ Positions'
  BY <1>1 DEF UploadInv, TypeOK, Positions, clientVars
<1>3. Chains' /\ FramesOK'
  BY <1>1 DEF UploadInv, Chains, FramesOK, FromClient, FromServer, clientVars
<1> QED
  BY <1>2, <1>3 DEF UploadInv

-----------------------------------------------------------------------------
(* writeToRemote. *)

(* Taking a data event off the queue keeps the invariant. *)
LEMMA TakeEventInv ==
    ASSUME UploadInv, TakeEvent
    PROVE  UploadInv'
<1> DEFINE h == Head(queue)
<1>1. /\ queue \in Seq(Frames) /\ queue # <<>> /\ h.type = "data" /\ queue' = Tail(queue)
      /\ cur' = h /\ worker = "select" /\ worker' = "write"
      /\ UNCHANGED <<server, rcvd, count, workerErr, delivered, remote, clientVars, c2s, s2c>>
      /\ cur \in Frames
  BY DEF UploadInv, TypeOK, TakeEvent
<1>2. /\ queue' \in Seq(Frames) /\ h \in Frames
      /\ \A i \in 1..Len(queue') : \E j \in 1..Len(queue) : queue'[i] = queue[j]
      /\ \E j \in 1..Len(queue) : h = queue[j]
  BY <1>1, ElementsTail
<1>3. rcvd \in Nat /\ h.from \in Nat /\ h.to \in Nat /\ cur.to \in Nat
  BY <1>1, <1>2, FrameFields DEF UploadInv, TypeOK
<1>4. h.from < h.to
  BY <1>1, <1>2 DEF UploadInv, FramesOK, FromClient
<1>5. h.from = cur.to /\ Chain(queue', h.to, rcvd)
  BY <1>1, <1>3, FramesTail DEF UploadInv, Chains
<1>6. TypeOK'
  BY <1>1, <1>2 DEF UploadInv, TypeOK, clientVars
<1>7. Positions'
  BY <1>1, <1>3, <1>4, <1>5 DEF UploadInv, Positions, clientVars
<1>8. Chains'
  BY <1>1, <1>5 DEF UploadInv, Chains, clientVars
<1>9. \A i \in 1..Len(queue') : FromClient(queue[i])'
  BY <1>1, <1>2 DEF UploadInv, FramesOK, FromClient, clientVars
<1>10. FramesOK'
  BY <1>1, <1>9 DEF UploadInv, FramesOK, FromClient, FromServer, clientVars
<1> QED
  BY <1>6, <1>7, <1>8, <1>10 DEF UploadInv

(* A RESET is an empty range at the end of the run of credit.                *)
LEMMA AppendReset ==
    ASSUME UploadInv, NEW s \in Seq(Frames),
           \A i \in 1..Len(s) : FromServer(s[i])
    PROVE  LET q == Append(s, Frame("reset", delivered, delivered))
           IN  /\ q \in Seq(Frames)
               /\ \A i \in 1..Len(q) : FromServer(q[i])
               /\ Chain(s, credited, delivered) => Chain(q, credited, delivered)
<1> DEFINE r == Frame("reset", delivered, delivered)
<1>1. delivered \in Nat /\ credited \in Nat
  BY DEF UploadInv, TypeOK
<1>2. r \in Frames /\ r.type = "reset" /\ r.from = delivered /\ r.to = delivered
  BY <1>1, FrameFields DEF FrameTypes
<1> HIDE DEF r
<1>3. /\ Append(s, r) \in Seq(Frames)
      /\ \A i \in 1..Len(Append(s, r)) :
            Append(s, r)[i] = r \/ \E j \in 1..Len(s) : Append(s, r)[i] = s[j]
  BY <1>2, ElementsAppend
<1>4. FromServer(r)
  BY <1>2 DEF FromServer
<1>5. \A i \in 1..Len(Append(s, r)) : FromServer(Append(s, r)[i])
  BY <1>3, <1>4
<1>6. ASSUME Chain(s, credited, delivered) PROVE Chain(Append(s, r), credited, r.to)
  BY <1>1, <1>2, <1>6, FramesAppend
<1> QED
  BY <1>2, <1>3, <1>5, <1>6 DEF r

(* Half-closing the Windows socket, or failing to, keeps the invariant. *)
LEMMA RemoteCloseWriteInv ==
    ASSUME UploadInv, RemoteCloseWrite
    PROVE  UploadInv'
<1> DEFINE h == Head(queue)
<1>1. /\ queue \in Seq(Frames) /\ queue # <<>> /\ h.type = "half" /\ queue' = Tail(queue)
      /\ worker = "select" /\ cur \in Frames /\ s2c \in Seq(Frames)
      /\ UNCHANGED <<rcvd, cur, count, workerErr, delivered, clientVars, c2s>>
  BY DEF UploadInv, TypeOK, RemoteCloseWrite
<1>2. /\ queue' \in Seq(Frames) /\ h \in Frames
      /\ \A i \in 1..Len(queue') : \E j \in 1..Len(queue) : queue'[i] = queue[j]
      /\ \E j \in 1..Len(queue) : h = queue[j]
  BY <1>1, ElementsTail
<1>3. rcvd \in Nat /\ h.from \in Nat /\ h.to \in Nat /\ cur.to \in Nat /\ delivered \in Nat
  BY <1>1, <1>2, FrameFields DEF UploadInv, TypeOK
<1>4. h.from = sent /\ h.to = sent /\ writeSide = "half-closed"
  BY <1>1, <1>2 DEF UploadInv, FramesOK, FromClient
<1>5. h.from = cur.to /\ Chain(queue', h.to, rcvd)
  BY <1>1, <1>3, FramesTail DEF UploadInv, Chains
<1>6. delivered = sent /\ Chain(queue', cur.to, rcvd) /\ count = 0
  BY <1>1, <1>3, <1>4, <1>5 DEF UploadInv, TypeOK, Positions
<1>7. \A i \in 1..Len(queue') : FromClient(queue[i])'
  BY <1>1, <1>2 DEF UploadInv, FramesOK, FromClient, clientVars
<1>8. CASE remote' = "half-closed" /\ UNCHANGED <<server, worker, s2c>>
  <2>1. TypeOK' /\ Positions'
    BY <1>1, <1>2, <1>4, <1>6, <1>8 DEF UploadInv, TypeOK, Positions, clientVars
  <2>2. Chains' /\ FramesOK'
    BY <1>1, <1>6, <1>7, <1>8 DEF UploadInv, Chains, FramesOK, FromClient, FromServer, clientVars
  <2> QED
    BY <2>1, <2>2 DEF UploadInv
<1>9. CASE ResetAndExit(s2c) /\ UNCHANGED remote
  <2>1. /\ s2c' \in Seq(Frames)
        /\ \A i \in 1..Len(s2c') : FromServer(s2c'[i])
        /\ Chain(s2c, credited, delivered) => Chain(s2c', credited, delivered)
    BY <1>1, <1>9, AppendReset DEF UploadInv, FramesOK, ResetAndExit
  <2>2. worker' = "exit" /\ server' \in {"removing", "removed"} /\ delivered - count = delivered
    BY <1>3, <1>6, <1>9 DEF UploadInv, TypeOK, ResetAndExit, Removed
  <2>3. TypeOK' /\ Positions'
    BY <1>1, <1>2, <1>6, <1>9, <2>1, <2>2 DEF UploadInv, TypeOK, Positions, clientVars
  <2>4. Chains'
    BY <1>1, <1>6, <2>1, <2>2 DEF UploadInv, Chains, clientVars
  <2>5. FramesOK'
    BY <1>1, <1>7, <2>1 DEF UploadInv, FramesOK, FromClient, FromServer, clientVars
  <2> QED
    BY <2>3, <2>4, <2>5 DEF UploadInv
<1> QED
  BY <1>8, <1>9 DEF RemoteCloseWrite

(* A write of any length to the Windows socket keeps the invariant. *)
LEMMA RemoteWriteInv ==
    ASSUME UploadInv, NEW n \in 1..MaxData, RemoteWrite(n)
    PROVE  UploadInv'
<1> USE WindowAssumption, MaxDataAssumption
<1>1. /\ cur \in Frames /\ delivered \in Nat /\ count \in Nat /\ credited \in Nat
      /\ worker = "write" /\ worker' = "update"
      /\ n <= cur.to - cur.from /\ delivered' = delivered + n /\ count' = n
      /\ cur' = [cur EXCEPT !.from = cur.from + n]
      /\ workerErr' \in {"none", "error"}
      /\ UNCHANGED <<server, queue, rcvd, remote, clientVars, c2s, s2c>>
  BY DEF UploadInv, TypeOK, RemoteWrite, Bytes
<1>2. cur.from \in Nat /\ cur.to \in Nat /\ cur.from = delivered /\ count = 0
  BY <1>1, FrameFields DEF UploadInv, Positions
<1>3. cur' \in Frames /\ cur'.from = cur.from + n /\ cur'.to = cur.to
  BY <1>1, <1>2 DEF Frames
<1>4. delivered' - count' = delivered - count /\ delivered' <= cur.to
  BY <1>1, <1>2
<1>5. remote = "open"
  <2>1. /\ remote \in {"open", "half-closed"} /\ rcvd \in Nat /\ sent \in Nat /\ rcvd <= sent
        /\ remote = "half-closed" => delivered = sent
    BY DEF UploadInv, TypeOK, Positions
  <2>2. cur.to <= rcvd /\ cur.from < cur.to
    BY <1>1 DEF UploadInv, Positions, Chains, Chain
  <2> QED
    BY <1>2, <2>1, <2>2
<1>6. TypeOK'
  BY <1>1, <1>3 DEF UploadInv, TypeOK, clientVars
<1>7. Positions'
  <2>1. credited <= delivered' - count' /\ count' <= delivered' /\ cur'.from <= cur'.to
        /\ count' > 0 /\ cur'.from = delivered'
    BY <1>1, <1>2, <1>3, <1>4 DEF UploadInv, Positions
  <2> QED
    BY <1>1, <1>5, <2>1 DEF UploadInv, Positions, clientVars
<1>8. Chains'
  BY <1>1, <1>3, <1>4 DEF UploadInv, Chains, clientVars
<1>9. FramesOK'
  BY <1>1 DEF UploadInv, FramesOK, FromClient, FromServer, clientVars
<1> QED
  BY <1>6, <1>7, <1>8, <1>9 DEF UploadInv

(* A failed write to the Windows socket keeps the invariant. *)
LEMMA RemoteWriteErrorInv ==
    ASSUME UploadInv, RemoteWriteError
    PROVE  UploadInv'
<1>1. /\ s2c \in Seq(Frames) /\ delivered \in Nat /\ count \in Nat /\ worker = "write"
      /\ UNCHANGED <<queue, rcvd, cur, count, workerErr, delivered, remote, clientVars, c2s>>
  BY WindowAssumption, MaxDataAssumption DEF UploadInv, TypeOK, RemoteWriteError
<1>2. /\ s2c' \in Seq(Frames)
      /\ \A i \in 1..Len(s2c') : FromServer(s2c'[i])
      /\ Chain(s2c, credited, delivered) => Chain(s2c', credited, delivered)
  BY <1>1, AppendReset DEF UploadInv, FramesOK, RemoteWriteError, ResetAndExit
<1>3. count = 0 /\ delivered - count = delivered
  BY <1>1 DEF UploadInv, Positions
<1>4. worker' = "exit" /\ server' \in {"removing", "removed"}
  BY DEF UploadInv, TypeOK, RemoteWriteError, ResetAndExit, Removed
<1>5. TypeOK' /\ Positions'
  BY <1>1, <1>2, <1>3, <1>4 DEF UploadInv, TypeOK, Positions, clientVars
<1>6. Chains'
  BY <1>1, <1>2, <1>3, <1>4 DEF UploadInv, Chains, clientVars
<1>7. FramesOK'
  BY <1>1, <1>2 DEF UploadInv, FramesOK, FromClient, FromServer, clientVars
<1> QED
  BY <1>5, <1>6, <1>7 DEF UploadInv

(* Returning the credit of what was written keeps the invariant. *)
LEMMA SendUpdateInv ==
    ASSUME UploadInv, SendUpdate
    PROVE  UploadInv'
<1> DEFINE u == Frame("update", delivered - count, delivered)
<1> DEFINE q == Append(s2c, u)
<1>1. /\ s2c \in Seq(Frames) /\ delivered \in Nat /\ count \in Nat /\ credited \in Nat
      /\ cur \in Frames /\ worker = "update" /\ count' = 0
      /\ UNCHANGED <<queue, rcvd, cur, workerErr, delivered, remote, clientVars, c2s>>
  BY WindowAssumption, MaxDataAssumption DEF UploadInv, TypeOK, SendUpdate
<1>2. count > 0 /\ delivered - count \in Nat /\ credited <= delivered
  BY <1>1 DEF UploadInv, Positions
<1>3. u \in Frames /\ u.type = "update" /\ u.from = delivered - count /\ u.to = delivered
  BY <1>1, <1>2, FrameFields DEF FrameTypes
<1>4. cur.from \in Nat /\ cur.to \in Nat /\ cur.from <= cur.to
  BY <1>1, FrameFields DEF UploadInv, Positions
<1> HIDE DEF u
<1>5. /\ q \in Seq(Frames)
      /\ \A i \in 1..Len(q) : q[i] = u \/ \E j \in 1..Len(s2c) : q[i] = s2c[j]
  BY <1>1, <1>3, ElementsAppend
<1>6. client # "closed" => Chain(q, credited, delivered)
  <2>1. client # "closed" => Chain(s2c, credited, delivered - count)
    BY DEF UploadInv, Chains
  <2>2. ASSUME client # "closed" PROVE Chain(Append(s2c, u), credited, u.to)
    BY <1>1, <1>2, <1>3, <2>1, <2>2, FramesAppend
  <2> QED
    BY <1>3, <2>2
<1>7. \A i \in 1..Len(q) : FromServer(q[i])
  <2>1. FromServer(u)
    BY <1>1, <1>2, <1>3 DEF FromServer
  <2>2. \A j \in 1..Len(s2c) : FromServer(s2c[j])
    BY DEF UploadInv, FramesOK
  <2> QED
    BY <1>5, <2>1, <2>2
<1> HIDE DEF q
<1>8. /\ s2c' \in Seq(Frames)
      /\ \A i \in 1..Len(s2c') : FromServer(s2c'[i])
      /\ client # "closed" => Chain(s2c', credited, delivered)
      /\ worker' \in {"select", "write", "exit"}
      /\ worker' = "select" => cur.from = cur.to
      /\ worker' = "write" => cur.from < cur.to
      /\ server' \in {"open", "removing", "removed"}
      /\ server' = "open" => server = "open"
  <2>1. CASE ResetAndExit(q)
    <3>1. s2c' = Append(q, Frame("reset", delivered, delivered)) /\ worker' = "exit"
          /\ server' \in {"removing", "removed"}
      BY <2>1 DEF UploadInv, TypeOK, ResetAndExit, Removed
    <3>2. /\ s2c' \in Seq(Frames)
          /\ \A i \in 1..Len(s2c') : FromServer(s2c'[i])
          /\ Chain(q, credited, delivered) => Chain(s2c', credited, delivered)
      BY <1>5, <1>7, <3>1, AppendReset
    <3> QED
      BY <1>6, <3>1, <3>2
  <2>2. CASE s2c' = q /\ worker' = (IF Bytes(cur) = 0 THEN "select" ELSE "write")
             /\ UNCHANGED server
    BY <1>4, <1>5, <1>6, <1>7, <2>2 DEF Bytes, UploadInv, TypeOK
  <2> QED
    BY <2>1, <2>2 DEF SendUpdate, q, u
<1>9. TypeOK'
  BY <1>1, <1>8, MaxDataAssumption, WindowAssumption DEF UploadInv, TypeOK, clientVars
<1>10. Positions'
  BY <1>1, <1>2, <1>8 DEF UploadInv, Positions, clientVars
<1>11. delivered' - count' = delivered
  BY <1>1
<1>12. Chains'
  BY <1>1, <1>8, <1>11 DEF UploadInv, Chains, clientVars
<1>13. FramesOK'
  BY <1>1, <1>8 DEF UploadInv, FramesOK, FromClient, FromServer, clientVars
<1> QED
  BY <1>9, <1>10, <1>12, <1>13 DEF UploadInv

-----------------------------------------------------------------------------
(* Every step keeps the invariant. *)
LEMMA InvStep == UploadInv /\ [Next]_vars => UploadInv'
<1> SUFFICES ASSUME UploadInv, [Next]_vars PROVE UploadInv'
  OBVIOUS
<1>1. CASE WriterNext
  BY <1>1, WriteInv, WriteSendInv, CloseWriteInv, CloseInv DEF WriterNext
<1>2. CASE DispatchNext
  BY <1>2, ClientUpdateInv, ClientResetInv DEF DispatchNext
<1>3. CASE ReaderNext
  BY <1>3, ServerDataInv, ServerHalfCloseInv, ServerCloseInv DEF ReaderNext
<1>4. CASE CloseConn
  BY <1>4, CloseConnInv
<1>5. CASE WorkerNext
  BY <1>5, TakeEventInv, RemoteCloseWriteInv, CloseConnInv, RemoteWriteInv,
     RemoteWriteErrorInv, SendUpdateInv DEF WorkerNext
<1>6. CASE UNCHANGED vars
  <2>1. UNCHANGED <<clientVars, serverVars, c2s, s2c>>
    BY <1>6 DEF vars
  <2>2. TypeOK' /\ Positions'
    BY <2>1 DEF UploadInv, TypeOK, Positions, clientVars, serverVars
  <2>3. Chains' /\ FramesOK'
    BY <2>1 DEF UploadInv, Chains, FramesOK, FromClient, FromServer, clientVars, serverVars
  <2> QED
    BY <2>2, <2>3 DEF UploadInv
<1> QED
  BY <1>1, <1>2, <1>3, <1>4, <1>5, <1>6 DEF Next

(* The inductive invariant of the upload direction holds throughout. *)
THEOREM InvHolds == Spec => []UploadInv
BY InvInit, InvStep, PTL DEF Spec

(* The bytes that are anywhere between Write and its credit fit the window.  *)
LEMMA Bounded == UploadInv => delivered <= rcvd /\ rcvd <= sent /\ sent <= delivered + Window
<1> SUFFICES ASSUME UploadInv
             PROVE  delivered <= rcvd /\ rcvd <= sent /\ sent <= delivered + Window
  OBVIOUS
<1>1. cur.to \in Nat /\ cur.from \in Nat
  BY FrameFields DEF UploadInv, TypeOK
<1>2. cur.from = delivered /\ cur.from <= cur.to /\ cur.to <= rcvd /\ rcvd <= sent
  BY DEF UploadInv, Positions, Chains, Chain
<1>3. /\ avail + held + sent = Window + credited /\ credited <= delivered - count
      /\ avail \in Nat /\ held \in Nat /\ sent \in Nat /\ credited \in Nat
      /\ delivered \in Nat /\ count \in Nat /\ rcvd \in Nat
  BY WindowAssumption, MaxDataAssumption DEF UploadInv, TypeOK, Positions
<1> QED
  BY <1>1, <1>2, <1>3, WindowAssumption

(* Types: in particular the client's window stays within 0..Window.          *)
THEOREM TypeCorrect == Spec => []TypeOK
<1>1. UploadInv => TypeOK
  BY DEF UploadInv
<1> QED
  BY InvHolds, <1>1, PTL

(* clientStream.handle never refuses a WINDOW_UPDATE of this direction,       *)
(* whatever partial writes the Windows socket makes and however the frames   *)
(* of the two directions interleave.                                         *)
THEOREM CreditExact == Spec => []NoInvalidUpdate
<1>1. UploadInv => NoInvalidUpdate
  BY DEF UploadInv, Positions, NoInvalidUpdate
<1> QED
  BY InvHolds, <1>1, PTL

(* The server never buffers more than the advertised window for a stream.    *)
THEOREM MemoryBound == Spec => []BufferedWithinWindow
<1>1. UploadInv => BufferedWithinWindow
  BY Bounded, WindowAssumption DEF UploadInv, TypeOK, BufferedWithinWindow
<1> QED
  BY InvHolds, <1>1, PTL

(* writeToRemote always offers the socket the next byte it has not had.      *)
THEOREM DeliveryInOrder == Spec => []InOrder
<1>1. UploadInv => InOrder
  BY DEF UploadInv, Positions, InOrder
<1> QED
  BY InvHolds, <1>1, PTL

(* The half-close reaches the Windows socket after the last byte.            *)
THEOREM HalfCloseLast == Spec => []HalfCloseAfterData
<1>1. UploadInv => HalfCloseAfterData
  BY DEF UploadInv, Positions, HalfCloseAfterData
<1> QED
  BY InvHolds, <1>1, PTL

-----------------------------------------------------------------------------
(* Arithmetic used by the refinement. *)
LEMMA LeqTransitive ==
  ASSUME NEW a \in Nat, NEW b \in Nat, NEW c \in Nat, a <= b, b <= c
  PROVE  a <= c
OBVIOUS

(* Arithmetic used by the refinement: a bound on a sum bounds the difference. *)
LEMMA DifferenceBound ==
  ASSUME NEW a \in Nat, NEW b \in Nat, NEW w \in Nat, a <= b + w
  PROVE  a - b <= w
OBVIOUS

(* The upload direction implements a reliable byte stream of capacity Window: *)
(* a step of the code accepts, delivers or ends, or is a stutter.             *)
THEOREM Refinement == Spec => StreamSpec
<1>1. Init => Stream!Init
  BY DEF Init, Stream!Init
<1>2. UploadInv /\ UploadInv' /\ [Next]_vars => [Stream!Next]_(Stream!bvars)
  <2> SUFFICES ASSUME UploadInv, UploadInv', [Next]_vars PROVE [Stream!Next]_(Stream!bvars)
    OBVIOUS
  <2>0. /\ sent \in Nat /\ delivered \in Nat /\ sent' \in Nat /\ delivered' \in Nat
        /\ delivered <= sent /\ delivered' <= sent' /\ sent' <= delivered' + Window
        /\ remote = "half-closed" => delivered = sent /\ want = 0
        /\ remote' = "half-closed" => delivered' = sent'
        /\ held \in Nat /\ held <= want /\ want \in Nat
    <3>1. (delivered <= rcvd /\ rcvd <= sent /\ sent <= delivered + Window)'
      BY Bounded, PTL
    <3>2. delivered <= rcvd /\ rcvd <= sent /\ rcvd \in Nat /\ rcvd' \in Nat
      BY Bounded DEF UploadInv, TypeOK
    <3>3. /\ sent \in Nat /\ delivered \in Nat /\ sent' \in Nat /\ delivered' \in Nat
          /\ held \in Nat /\ want \in Nat
      BY WindowAssumption, MaxDataAssumption DEF UploadInv, TypeOK
    <3>1a. delivered' <= rcvd' /\ rcvd' <= sent' /\ sent' <= delivered' + Window
      BY <3>1
    <3>4. delivered <= sent /\ delivered' <= sent' /\ sent' <= delivered' + Window
      BY <3>1a, <3>2, <3>3, LeqTransitive
    <3>5. held <= want /\ (remote = "half-closed" => delivered = sent /\ want = 0)
      BY DEF UploadInv, Positions
    <3>6. remote' = "half-closed" => delivered' = sent'
      BY DEF UploadInv, Positions
    <3> QED
      BY <3>3, <3>4, <3>5, <3>6
  <2>1. CASE WriteSend
    <3>1. sent' > sent /\ remote # "half-closed" /\ UNCHANGED <<delivered, remote, server>>
      BY <2>0, <2>1 DEF WriteSend, serverVars
    <3>2. sent' - delivered <= Window
      <4>1. Window \in Nat /\ sent' <= delivered + Window
        BY <2>0, <3>1, WindowAssumption
      <4> QED
        BY <2>0, <4>1, DifferenceBound
    <3>3. Stream!Accept
      BY <3>1, <3>2 DEF Stream!Accept
    <3> QED
      BY <3>3 DEF Stream!Next
  <2>2. CASE UNCHANGED <<sent, delivered, remote, server>>
    BY <2>2 DEF Stream!bvars
  <2>3. CASE UNCHANGED <<sent, delivered, remote>> /\ server = "open" /\ server' # "open"
    BY <2>3 DEF Stream!Next, Stream!Break, Stream!bvars
  <2>4. ASSUME NEW n \in 1..MaxData, RemoteWrite(n)
        PROVE  [Stream!Next]_(Stream!bvars)
    <3>1. delivered' > delivered /\ UNCHANGED <<sent, remote, server>>
      BY <2>0, <2>4, MaxDataAssumption, WindowAssumption DEF RemoteWrite, clientVars
    <3>2. remote # "half-closed"
      BY <2>0, <3>1
    <3> QED
      BY <2>0, <3>1, <3>2 DEF Stream!Next, Stream!Deliver, Stream!bvars
  <2>5. CASE RemoteCloseWrite /\ remote' = "half-closed" /\ UNCHANGED server
    <3>1. UNCHANGED <<sent, delivered, server>>
      BY <2>5 DEF RemoteCloseWrite, clientVars
    <3> QED
      BY <2>0, <2>5, <3>1 DEF Stream!Next, Stream!Finish, Stream!bvars
  <2>6. CASE (\E n \in 1..Total : Write(n)) \/ WriteTake \/ WriteAbort \/ WriteTimeout
             \/ CloseWrite \/ Close \/ DispatchNext
    BY <2>2, <2>6 DEF Write, WriteTake, WriteAbort, WriteTimeout, CloseWrite, Close,
                      DispatchNext, ClientUpdate, ClientReset, serverVars
  <2>7. CASE ReaderNext \/ CloseConn
    <3>1. UNCHANGED <<sent, delivered, remote>>
      BY <2>7 DEF ReaderNext, ServerData, ServerHalfClose, ServerClose, CloseConn, clientVars
    <3>2. server' = server \/ (server = "open" /\ server' # "open")
          \/ (server = "removing" /\ server' = "removed")
      BY <2>7 DEF ReaderNext, ServerData, ServerHalfClose, ServerClose, CloseConn, Removed
    <3> QED
      BY <2>2, <2>3, <3>1, <3>2 DEF Stream!bvars
  <2>8. CASE TakeEvent \/ WorkerDone
    BY <2>2, <2>8 DEF TakeEvent, WorkerDone, clientVars
  <2>9. CASE RemoteCloseWrite \/ RemoteWriteError \/ SendUpdate
    <3>1. UNCHANGED <<sent, delivered>>
      BY <2>9 DEF RemoteCloseWrite, RemoteWriteError, SendUpdate, clientVars
    <3>2. \/ UNCHANGED <<remote, server>>
          \/ UNCHANGED remote /\ server = "open" /\ server' # "open"
          \/ RemoteCloseWrite /\ remote' = "half-closed" /\ UNCHANGED server
      BY <2>9 DEF RemoteCloseWrite, RemoteWriteError, SendUpdate, ResetAndExit, Removed, clientVars
    <3> QED
      BY <2>2, <2>3, <2>5, <3>1, <3>2
  <2>10. CASE UNCHANGED vars
    BY <2>2, <2>10 DEF vars, clientVars, serverVars
  <2> QED
    BY <2>1, <2>4, <2>6, <2>7, <2>8, <2>9, <2>10 DEF Next, WriterNext, WorkerNext
<1> QED
  BY InvHolds, <1>1, <1>2, PTL DEF Spec, StreamSpec, Stream!Spec
=============================================================================
