-------------------------- MODULE DatagramsProofs --------------------------
(* Proofs about Datagrams for every set of associations and of mappings, any *)
(* number of datagrams and flows and every queue depth.                      *)
EXTENDS Datagrams, TLAPS

-----------------------------------------------------------------------------
(* The inductive invariant, in layers. *)

CallType ==
    /\ app \in [Ids -> {"none", "opening", "open", "closed", "gone"}]
    /\ creg \subseteq Ids /\ done \subseteq Ids /\ won \subseteq Ids
    /\ ready \in [Ids -> {"none", "ok", "err"}]
FlowType ==
    /\ shut \in [Maps -> {"no", "begun", "swapped", "over"}]
    /\ cqueue \in [Maps -> 0..Depth]
    /\ worker \in [Maps -> {"idle", "resolve", "write", "over"}] /\ using \in [Maps -> 0..MaxFlows]
    /\ flow \in [Maps -> 0..MaxFlows] /\ made \in [Maps -> 0..MaxFlows]
    /\ fopen \in [Maps -> SUBSET Flows] /\ fclosing \in [Maps -> SUBSET Flows]
    /\ freading \in [Maps -> SUBSET Flows]
WireType ==
    /\ link \in {"up", "down"} /\ peer \in {"first", "second", "accepted"}
    /\ c2s \in Seq(Frames) /\ s2c \in Seq(Frames) /\ sent \in 0..MaxData
ServerType ==
    /\ server \in {"serving", "cancelled", "down"}
    /\ opener \in [Ids -> OpenerAt]
    /\ sreg \subseteq Ids /\ loop \subseteq Ids /\ cancelled \subseteq Ids
    /\ squeue \in [Ids -> 0..Depth]
    /\ sock \in [Ids -> {"none", "open", "closed"}]

(* writeDatagrams writes to a flow it has. *)
Using == \A m \in Maps : worker[m] = "write" => using[m] \in Flows

TypeInv == TypeOK /\ Using

(* closeOnce closes done before it takes the flows out of the map. *)
FlowInv == FlowsOwned /\ \A m \in Maps : shut[m] # "no" => m \in done

(* Nothing has happened to an id that was not opened. *)
About(ch, i) == \E k \in 1..Len(ch) : ch[k].id = i
Opening(ch, i) == \E k \in 1..Len(ch) : ch[k] = Frame("open", i)
Fresh(i) ==
    /\ i \notin creg /\ i \notin cancelled /\ opener[i] = "none" /\ ~About(c2s, i)
    /\ i \in Maps => /\ shut[i] = "no" /\ cqueue[i] = 0 /\ worker[i] \notin {"resolve", "write"}
                     /\ fopen[i] = {}

(* OPEN is the first frame of its id, and under way only before its opener   *)
(* runs; a mapping that was closed is not opened any more.                   *)
OpenFirst(ch) == \A j, k \in 1..Len(ch) : ch[k].type = "open" /\ ch[j].id = ch[k].id => k <= j
IdInv ==
    /\ \A i \in Ids : app[i] = "none" => Fresh(i)
    /\ OpenFirst(c2s)
    /\ \A i \in Ids : Opening(c2s, i) => opener[i] = "none"
    /\ \A m \in Maps : m \in cancelled => opener[m] \in {"none", "over"} /\ ~Opening(c2s, m)

-----------------------------------------------------------------------------
(* Types. *)

(* The type invariant in parts: the callers, the flows, the wire and the     *)
(* server.                                                                   *)
LEMMA TypeParts == TypeOK <=> CallType /\ FlowType /\ WireType /\ ServerType
BY DEF TypeOK, CallType, FlowType, WireType, ServerType

(* The same one step later. *)
LEMMA TypePartsNext == TypeOK' <=> CallType' /\ FlowType' /\ WireType' /\ ServerType'
BY DEF TypeOK, CallType, FlowType, WireType, ServerType

(* Nothing is open at first. *)
LEMMA TypeInit == Init => TypeInv
<1> SUFFICES ASSUME Init PROVE TypeInv
  OBVIOUS
<1>1. CallType
  BY DEF Init, CallType
<1>2. FlowType /\ Using
  BY DatagramBounds DEF Init, FlowType, Using
<1>3. WireType
  BY DatagramBounds DEF Init, WireType
<1>4. ServerType
  BY DatagramBounds DEF Init, ServerType, OpenerAt
<1> QED
  BY <1>1, <1>2, <1>3, <1>4, TypeParts DEF TypeInv

FrameTypes == {"open", "close", "data", "ok", "err"}

(* What the channels may hold. *)
LEMMA FrameType ==
  ASSUME NEW t \in FrameTypes, NEW i \in Ids
  PROVE  Frame(t, i) \in Frames /\ Frame(t, i).type = t /\ Frame(t, i).id = i
BY DEF Frame, Frames, FrameTypes

(* Sending a frame gives a channel. *)
LEMMA PutType ==
  ASSUME NEW ch \in Seq(Frames), NEW t \in FrameTypes, NEW i \in Ids
  PROVE  Put(ch, t, i) \in Seq(Frames) /\ (Put(ch, t, i) = ch \/ Put(ch, t, i) = Append(ch, Frame(t, i)))
BY FrameType DEF Put

(* The empty channel is a channel. *)
LEMMA EmptyType == <<>> \in Seq(Frames)
OBVIOUS

(* The first frame of a channel. *)
LEMMA HeadType ==
  ASSUME NEW ch \in Seq(Frames), ch # <<>>
  PROVE  Tail(ch) \in Seq(Frames) /\ Head(ch).id \in Ids /\ Head(ch) = Frame(Head(ch).type, Head(ch).id)
<1>1. Tail(ch) \in Seq(Frames) /\ Head(ch) \in Frames
  OBVIOUS
<1> QED
  BY <1>1 DEF Frame, Frames

(* A queue that is full drops. *)
LEMMA QueuedType == \A n \in 0..Depth : Queued(n) \in 0..Depth
BY DatagramBounds DEF Queued

(* fail keeps the types. *)
LEMMA FailType ==
  ASSUME CallType, FlowType, NEW S \in SUBSET Ids, Fail(S)
  PROVE  /\ ready' \in [Ids -> {"none", "ok", "err"}] /\ done' \subseteq Ids
         /\ shut' \in [Maps -> {"no", "begun", "swapped", "over"}]
BY DEF Fail, CallType, FlowType

(* Every step keeps the callers' types. *)
LEMMA CallTypeStep ==
  ASSUME TypeInv, Next
  PROVE  CallType'
<1>0. CallType /\ FlowType /\ WireType
  BY TypeParts DEF TypeInv
<1>m. Maps \subseteq Ids
  BY DEF Ids
<1>f. ASSUME NEW S \in SUBSET Ids, Fail(S), UNCHANGED <<app, won>>, creg' \subseteq Ids PROVE CallType'
  BY <1>0, <1>f, FailType DEF CallType
<1>1. CASE UNCHANGED callVars
  BY <1>0, <1>1 DEF CallType, callVars
<1>2. ASSUME NEW i \in Ids, Open(i) \/ OpenReturn(i) PROVE CallType'
  BY <1>0, <1>2 DEF Open, OpenReturn, CallType
<1>3. ASSUME NEW i \in Ids, Close(i) PROVE CallType'
  <2>1. app' \in [Ids -> {"none", "opening", "open", "closed", "gone"}]
    BY <1>0, <1>3 DEF Close, CallType
  <2>2. CASE i \in Maps /\ shut[i] # "no"
    BY <1>0, <1>3, <2>1, <2>2 DEF Close, CallType
  <2>3. CASE ~(i \in Maps /\ shut[i] # "no")
    <3>1. creg' = creg \ {i} /\ won' = won \cup {i} /\ Fail({i})
      BY <1>3, <2>3 DEF Close
    <3> QED
      BY <1>0, <2>1, <3>1, FailType DEF CallType
  <2> QED
    BY <2>2, <2>3
<1>4. ASSUME NEW m \in Maps, SwapFlows(m) PROVE CallType'
  BY <1>0, <1>4 DEF SwapFlows, CallType
<1>5. ASSUME Dispatch PROVE CallType'
  <2>1. Head(s2c).id \in Ids /\ UNCHANGED <<app, creg, won>>
        /\ \/ UNCHANGED <<ready, done>>
           \/ Fail({Head(s2c).id})
           \/ /\ ready' = [ready EXCEPT ![Head(s2c).id] = IF @ = "none" THEN "ok" ELSE @]
              /\ done' = done
    BY <1>0, <1>5, HeadType DEF Dispatch, WireType
  <2> QED
    BY <1>0, <1>f, <2>1 DEF CallType
<1>6. ASSUME LinkDown \/ ResetPeerState \/ Cancel PROVE CallType'
  <2>1. creg \in SUBSET Ids /\ Fail(creg) /\ creg' = {} /\ UNCHANGED <<app, won>>
    BY <1>0, <1>6 DEF LinkDown, ResetPeerState, Cancel, CallType
  <2> QED
    BY <1>f, <2>1
<1>7. ASSUME NEW m \in Maps, ResolveError(m) \/ DialFlowError(m) PROVE CallType'
  <2>1. {m} \in SUBSET Ids /\ Fail({m}) /\ UNCHANGED <<app, creg, won>>
    BY <1>m, <1>7 DEF ResolveError, DialFlowError
  <2> QED
    BY <1>0, <1>f, <2>1 DEF CallType
<1>8. ASSUME NEW m \in Maps, \/ FinishClose(m) \/ TakeDatagram(m) \/ GetFlow(m) \/ WriteFlow(m)
                             \/ \E n \in Flows : CloseFlow(m, n) \/ FlowAnswer(m, n) \/ FlowEnds(m, n)
      PROVE  UNCHANGED callVars
  BY <1>8 DEF FinishClose, TakeDatagram, GetFlow, WriteFlow, CloseFlow, FlowAnswer, FlowEnds
<1>9. ASSUME NEW i \in Ids, Handle(i) \/ OpenStep(i) \/ WriteOut(i) \/ ReadIn(i) \/ ReadEnds(i)
      PROVE  UNCHANGED callVars
  BY <1>9 DEF Handle, HandleOpen, HandleData, HandleClose, OpenStep, Register, DialOK, DialError, Publish, Reply,
              WriteOut, ReadIn, ReadEnds
<1>10. ASSUME (\E a \in Assocs : WriteTo(a)) \/ PeerRestart \/ Shutdown PROVE UNCHANGED callVars
  BY <1>10 DEF WriteTo, PeerRestart, Shutdown
<1> QED
  BY <1>1, <1>2, <1>3, <1>4, <1>5, <1>6, <1>7, <1>8, <1>9, <1>10 DEF Next, ClientStep, FlowStep, ServerStep

(* The steps that leave the flows of the mappings alone. *)
LEMMA FlowFrame ==
  ASSUME Next,
         ~\E i \in Ids : Close(i),
         ~\E m \in Maps : \/ SwapFlows(m) \/ FinishClose(m) \/ TakeDatagram(m) \/ ResolveError(m) \/ GetFlow(m)
                          \/ DialFlowError(m) \/ WriteFlow(m)
                          \/ \E n \in Flows : CloseFlow(m, n) \/ FlowEnds(m, n),
         ~(Dispatch \/ LinkDown \/ ResetPeerState \/ Cancel)
  PROVE  UNCHANGED flowVars
<1>1. ASSUME NEW i \in Ids, Open(i) \/ OpenReturn(i) PROVE UNCHANGED flowVars
  BY <1>1 DEF Open, OpenReturn
<1>2. ASSUME NEW i \in Ids, Handle(i) \/ OpenStep(i) \/ WriteOut(i) \/ ReadIn(i) \/ ReadEnds(i)
      PROVE  UNCHANGED flowVars
  BY <1>2 DEF Handle, HandleOpen, HandleData, HandleClose, OpenStep, Register, DialOK, DialError, Publish, Reply,
              WriteOut, ReadIn, ReadEnds
<1>3. ASSUME \/ \E a \in Assocs : WriteTo(a)
             \/ \E m \in Maps, n \in Flows : FlowAnswer(m, n)
             \/ PeerRestart \/ Shutdown
      PROVE  UNCHANGED flowVars
  BY <1>3 DEF WriteTo, FlowAnswer, PeerRestart, Shutdown
<1> QED
  BY <1>1, <1>2, <1>3 DEF Next, ClientStep, FlowStep, ServerStep

(* Every step keeps the flows' types. *)
LEMMA FlowTypeStep ==
  ASSUME TypeInv, Next
  PROVE  FlowType' /\ Using'
<1>0. CallType /\ FlowType /\ WireType /\ Using
  BY TypeParts DEF TypeInv
<1>m. Maps \subseteq Ids /\ \A n \in Flows : n \in 0..MaxFlows /\ n # 0
  BY DatagramBounds DEF Ids, Flows
<1>f. ASSUME NEW S \in SUBSET Ids, Fail(S), UNCHANGED <<workVars, sockVars>> PROVE FlowType' /\ Using'
  <2>1. shut' \in [Maps -> {"no", "begun", "swapped", "over"}]
    BY <1>0, <1>f, FailType
  <2> QED
    BY <1>0, <1>f, <2>1 DEF FlowType, Using, workVars, sockVars
<1>1. CASE UNCHANGED flowVars
  BY <1>0, <1>1 DEF FlowType, Using, flowVars, workVars, sockVars
<1>3. ASSUME NEW i \in Ids, Close(i) PROVE FlowType' /\ Using'
  <2>1. CASE i \in Maps /\ shut[i] # "no"
    <3>1. UNCHANGED flowVars
      BY <1>3, <2>1 DEF Close, flowVars
    <3> QED
      BY <1>1, <3>1
  <2>2. CASE ~(i \in Maps /\ shut[i] # "no")
    BY <1>3, <1>f, <2>2 DEF Close
  <2> QED
    BY <2>1, <2>2
<1>4. ASSUME NEW m \in Maps, SwapFlows(m) PROVE FlowType' /\ Using'
  <2>1. {flow[m]} \ {0} \subseteq Flows
    BY <1>0, <1>4, DatagramBounds DEF FlowType, Flows
  <2> QED
    BY <1>0, <1>4, <2>1, DatagramBounds DEF SwapFlows, FlowType, Using, workVars
<1>5. ASSUME Dispatch PROVE FlowType' /\ Using'
  <2>1. Head(s2c).id \in Ids /\ UNCHANGED <<worker, using, sockVars>>
        /\ \/ UNCHANGED <<shut, cqueue>>
           \/ Fail({Head(s2c).id}) /\ cqueue' = cqueue
           \/ shut' = shut /\ Head(s2c).id \in Maps
              /\ cqueue' = [cqueue EXCEPT ![Head(s2c).id] = Queued(@)]
    BY <1>0, <1>5, HeadType DEF Dispatch, WireType
  <2>2. CASE UNCHANGED <<shut, cqueue>>
    BY <1>1, <2>1, <2>2 DEF flowVars, workVars
  <2>3. CASE Fail({Head(s2c).id}) /\ cqueue' = cqueue
    BY <1>f, <2>1, <2>3 DEF workVars
  <2>4. CASE shut' = shut /\ Head(s2c).id \in Maps /\ cqueue' = [cqueue EXCEPT ![Head(s2c).id] = Queued(@)]
    <3>1. cqueue' \in [Maps -> 0..Depth]
      BY <1>0, <2>4, QueuedType DEF FlowType
    <3> QED
      BY <1>0, <2>1, <2>4, <3>1 DEF FlowType, Using, sockVars
  <2> QED
    BY <2>1, <2>2, <2>3, <2>4
<1>6. ASSUME LinkDown \/ ResetPeerState \/ Cancel PROVE FlowType' /\ Using'
  <2>1. creg \in SUBSET Ids /\ Fail(creg) /\ UNCHANGED <<workVars, sockVars>>
    BY <1>0, <1>6 DEF LinkDown, ResetPeerState, Cancel, CallType
  <2> QED
    BY <1>f, <2>1
<1>7. ASSUME NEW m \in Maps, ResolveError(m) \/ DialFlowError(m) PROVE FlowType' /\ Using'
  <2>1. {m} \in SUBSET Ids /\ Fail({m}) /\ worker' = [worker EXCEPT ![m] = "idle"]
        /\ UNCHANGED <<cqueue, using, sockVars>>
    BY <1>m, <1>7 DEF ResolveError, DialFlowError
  <2>2. shut' \in [Maps -> {"no", "begun", "swapped", "over"}]
    BY <1>0, <2>1, FailType
  <2> QED
    BY <1>0, <2>1, <2>2 DEF FlowType, Using, sockVars
<1>8. ASSUME NEW m \in Maps, FinishClose(m) PROVE FlowType' /\ Using'
  BY <1>0, <1>8 DEF FinishClose, FlowType, Using, workVars, sockVars
<1>9. ASSUME NEW m \in Maps, TakeDatagram(m) PROVE FlowType' /\ Using'
  <2>1. UNCHANGED <<shut, using, sockVars>>
        /\ \/ worker' = [worker EXCEPT ![m] = "over"] /\ cqueue' = cqueue
           \/ cqueue[m] > 0 /\ cqueue' = [cqueue EXCEPT ![m] = @ - 1] /\ worker' = [worker EXCEPT ![m] = "resolve"]
    BY <1>9 DEF TakeDatagram
  <2>2. cqueue' \in [Maps -> 0..Depth]
    BY <1>0, <2>1, DatagramBounds DEF FlowType
  <2> QED
    BY <1>0, <2>1, <2>2 DEF FlowType, Using, sockVars
<1>10. ASSUME NEW m \in Maps, GetFlow(m) PROVE FlowType' /\ Using'
  <2>0. UNCHANGED <<shut, cqueue, fclosing>>
    BY <1>10 DEF GetFlow
  <2>1. CASE worker' = [worker EXCEPT ![m] = "idle"] /\ UNCHANGED <<using, flow, made, fopen, freading>>
    BY <1>0, <2>0, <2>1 DEF FlowType, Using
  <2>2. CASE /\ flow[m] # 0 /\ worker' = [worker EXCEPT ![m] = "write"] /\ using' = [using EXCEPT ![m] = flow[m]]
             /\ UNCHANGED <<flow, made, fopen, freading>>
    <3>1. flow[m] \in Flows
      BY <1>0, <2>2, DatagramBounds DEF FlowType, Flows
    <3> QED
      BY <1>0, <1>m, <2>0, <2>2, <3>1 DEF FlowType, Using
  <2>3. CASE /\ made[m] < MaxFlows /\ made' = [made EXCEPT ![m] = @ + 1]
             /\ flow' = [flow EXCEPT ![m] = made'[m]]
             /\ fopen' = [fopen EXCEPT ![m] = @ \cup {made'[m]}]
             /\ freading' = [freading EXCEPT ![m] = @ \cup {made'[m]}]
             /\ worker' = [worker EXCEPT ![m] = "write"] /\ using' = [using EXCEPT ![m] = made'[m]]
    <3>1. made'[m] \in Flows /\ made' \in [Maps -> 0..MaxFlows]
      BY <1>0, <2>3, DatagramBounds DEF FlowType, Flows
    <3> QED
      BY <1>0, <1>m, <2>0, <2>3, <3>1 DEF FlowType, Using
  <2> QED
    BY <1>10, <2>1, <2>2, <2>3 DEF GetFlow
<1>11. ASSUME NEW m \in Maps, NEW n \in Flows, RemoveFlow(m, n),
              UNCHANGED <<shut, cqueue, using, made, fopen>>,
              worker' = worker \/ worker' = [worker EXCEPT ![m] = "idle"],
              freading' = freading \/ freading' = [freading EXCEPT ![m] = @ \ {n}]
       PROVE  FlowType' /\ Using'
  BY <1>0, <1>11, DatagramBounds DEF RemoveFlow, FlowType, Using
<1>12. ASSUME NEW m \in Maps, WriteFlow(m) PROVE FlowType' /\ Using'
  <2>1. CASE UNCHANGED <<flow, fclosing>>
    BY <1>0, <1>12, <2>1 DEF WriteFlow, FlowType, Using
  <2>2. CASE RemoveFlow(m, using[m])
    BY <1>0, <1>11, <1>12, <2>2 DEF WriteFlow, Using
  <2> QED
    BY <1>12, <2>1, <2>2 DEF WriteFlow
<1>13. ASSUME NEW m \in Maps, NEW n \in Flows, CloseFlow(m, n) \/ FlowEnds(m, n) PROVE FlowType' /\ Using'
  <2>1. CASE CloseFlow(m, n)
    BY <1>0, <2>1 DEF CloseFlow, FlowType, Using, workVars
  <2>2. CASE FlowEnds(m, n)
    BY <1>11, <2>2 DEF FlowEnds, workVars
  <2> QED
    BY <1>13, <2>1, <2>2
<1> QED
  BY <1>1, <1>3, <1>4, <1>5, <1>6, <1>7, <1>8, <1>9, <1>10, <1>12, <1>13, FlowFrame

(* What a step does to the frames under way to the server: it leaves them    *)
(* alone, loses them all, takes off the first, or adds one at the end, and   *)
(* only for an id that is opened now or was before.                          *)
C2SShrinks == c2s' = c2s \/ c2s' = <<>> \/ (c2s # <<>> /\ c2s' = Tail(c2s))
C2SOpens == \E i \in Ids : Open(i) /\ c2s' = Append(c2s, Frame("open", i))
Touched(i) == app[i] # "none" \/ (i \in Maps /\ (shut[i] # "no" \/ fopen[i] # {}))
C2SGrows == \E i \in Ids, t \in {"close", "data"} : Touched(i) /\ c2s' = Append(c2s, Frame(t, i))

(* No step does anything else. *)
LEMMA C2SStep ==
  ASSUME TypeInv, Next
  PROVE  C2SShrinks \/ C2SOpens \/ C2SGrows
<1>m. Maps \subseteq Ids /\ Assocs \subseteq Ids
  BY DEF Ids
<1>1. ASSUME NEW i \in Ids, Open(i) PROVE C2SShrinks \/ C2SOpens
  BY <1>1 DEF Open, Put, C2SShrinks, C2SOpens
<1>2. ASSUME NEW i \in Ids, Close(i) PROVE C2SShrinks \/ C2SGrows
  <2>1. app[i] # "none" /\ (c2s' = c2s \/ c2s' = Append(c2s, Frame("close", i)))
    BY <1>2 DEF Close, Put
  <2> QED
    BY <2>1 DEF C2SShrinks, C2SGrows, Touched
<1>3. ASSUME NEW m \in Maps, FinishClose(m) PROVE C2SShrinks \/ C2SGrows
  <2>1. shut[m] # "no" /\ (c2s' = c2s \/ c2s' = Append(c2s, Frame("close", m)))
    BY <1>3 DEF FinishClose, Put
  <2> QED
    BY <1>m, <2>1 DEF C2SShrinks, C2SGrows, Touched
<1>4. ASSUME NEW a \in Assocs, WriteTo(a) PROVE C2SShrinks \/ C2SGrows
  <2>1. app[a] # "none" /\ (c2s' = c2s \/ c2s' = Append(c2s, Frame("data", a)))
    BY <1>4 DEF WriteTo, Put
  <2> QED
    BY <1>m, <2>1 DEF C2SShrinks, C2SGrows, Touched
<1>5. ASSUME NEW m \in Maps, NEW n \in Flows, FlowAnswer(m, n) PROVE C2SShrinks \/ C2SGrows
  <2>1. fopen[m] # {} /\ (c2s' = c2s \/ c2s' = Append(c2s, Frame("data", m)))
    BY <1>5 DEF FlowAnswer, Put
  <2> QED
    BY <1>m, <2>1 DEF C2SShrinks, C2SGrows, Touched
<1>6. ASSUME NEW i \in Ids, \/ OpenReturn(i) \/ Handle(i) \/ OpenStep(i) \/ WriteOut(i) \/ ReadIn(i) \/ ReadEnds(i)
      PROVE  C2SShrinks
  BY <1>6 DEF OpenReturn, Handle, HandleOpen, HandleData, HandleClose, Received, Reading, OpenStep, Register, DialOK,
              DialError, Publish, Reply, WriteOut, ReadIn, ReadEnds, wireVars, C2SShrinks
<1>7. ASSUME NEW m \in Maps, \/ SwapFlows(m) \/ TakeDatagram(m) \/ ResolveError(m) \/ GetFlow(m)
                             \/ DialFlowError(m) \/ WriteFlow(m)
                             \/ \E n \in Flows : CloseFlow(m, n) \/ FlowEnds(m, n)
      PROVE  C2SShrinks
  BY <1>7 DEF SwapFlows, TakeDatagram, ResolveError, GetFlow, DialFlowError, WriteFlow, CloseFlow, FlowEnds,
              wireVars, C2SShrinks
<1>8. ASSUME Dispatch \/ LinkDown \/ PeerRestart \/ ResetPeerState \/ Cancel \/ Shutdown PROVE C2SShrinks
  BY <1>8 DEF Dispatch, LinkDown, PeerRestart, ResetPeerState, Cancel, Shutdown, wireVars, C2SShrinks
<1> QED
  BY <1>1, <1>2, <1>3, <1>4, <1>5, <1>6, <1>7, <1>8 DEF Next, ClientStep, FlowStep, ServerStep

(* The frames under way to the client. *)
LEMMA S2CStep ==
  ASSUME TypeInv, Next
  PROVE  s2c' \in Seq(Frames)
<1>0. s2c \in Seq(Frames)
  BY DEF TypeInv, TypeOK
<1>m. Maps \subseteq Ids /\ Assocs \subseteq Ids
  BY DEF Ids
<1>p. ASSUME NEW i \in Ids, NEW t \in FrameTypes, s2c' = s2c \/ s2c' = Put(s2c, t, i)
      PROVE  s2c' \in Seq(Frames)
  BY <1>0, <1>p, PutType
<1>1. ASSUME NEW i \in Ids, \/ HandleOpen(i) \/ Register(i) \/ DialError(i) \/ WriteOut(i) \/ Reply(i)
                            \/ ReadIn(i) \/ ReadEnds(i)
      PROVE  s2c' \in Seq(Frames)
  <2>1. \E t \in FrameTypes : s2c' = s2c \/ s2c' = Put(s2c, t, i)
    BY <1>1 DEF HandleOpen, Register, DialError, WriteOut, Reply, ReadIn, ReadEnds, FrameTypes
  <2> QED
    BY <1>p, <2>1
<1>2. CASE s2c' = s2c \/ s2c' = <<>>
  BY <1>0, <1>2, EmptyType
<1>3. ASSUME Dispatch PROVE s2c' \in Seq(Frames)
  BY <1>0, <1>3, HeadType DEF Dispatch
<1>4. ASSUME NEW i \in Ids, \/ Open(i) \/ OpenReturn(i) \/ Close(i) \/ HandleData(i) \/ HandleClose(i)
                            \/ DialOK(i) \/ Publish(i)
      PROVE  s2c' = s2c
  BY <1>4 DEF Open, OpenReturn, Close, HandleData, HandleClose, DialOK, Publish, wireVars
<1>5. ASSUME NEW m \in Maps, \/ SwapFlows(m) \/ FinishClose(m) \/ TakeDatagram(m) \/ ResolveError(m) \/ GetFlow(m)
                             \/ DialFlowError(m) \/ WriteFlow(m)
                             \/ \E n \in Flows : CloseFlow(m, n) \/ FlowAnswer(m, n) \/ FlowEnds(m, n)
      PROVE  s2c' = s2c
  BY <1>5 DEF SwapFlows, FinishClose, TakeDatagram, ResolveError, GetFlow, DialFlowError, WriteFlow, CloseFlow,
              FlowAnswer, FlowEnds, wireVars
<1>6. ASSUME \/ LinkDown \/ PeerRestart \/ ResetPeerState \/ Cancel \/ Shutdown \/ \E a \in Assocs : WriteTo(a)
      PROVE  s2c' = s2c \/ s2c' = <<>>
  BY <1>6 DEF LinkDown, PeerRestart, ResetPeerState, Cancel, Shutdown, WriteTo, wireVars
<1> QED
  BY <1>1, <1>2, <1>3, <1>4, <1>5, <1>6 DEF Next, ClientStep, FlowStep, ServerStep, Handle, OpenStep

(* Every step keeps the wire's types. *)
LEMMA WireTypeStep ==
  ASSUME TypeInv, Next
  PROVE  WireType'
<1>0. WireType
  BY TypeParts DEF TypeInv
<1>1. c2s' \in Seq(Frames)
  <2>1. CASE C2SShrinks
    BY <1>0, <2>1, HeadType, EmptyType DEF C2SShrinks, WireType
  <2>2. CASE C2SOpens \/ C2SGrows
    <3>1. \E f \in Frames : c2s' = Append(c2s, f)
      BY <2>2, FrameType DEF C2SOpens, C2SGrows, FrameTypes
    <3> QED
      BY <1>0, <3>1 DEF WireType
  <2> QED
    BY <2>1, <2>2, C2SStep
<1>2. sent' = sent \/ (sent < MaxData /\ sent' = sent + 1)
  BY DEF Next, ClientStep, FlowStep, ServerStep, Handle, OpenStep, Open, OpenReturn, Close, SwapFlows, FinishClose,
         CloseFlow, Dispatch, WriteTo, LinkDown, PeerRestart, ResetPeerState, TakeDatagram, ResolveError, GetFlow,
         DialFlowError, WriteFlow, FlowAnswer, FlowEnds, HandleOpen, HandleData, HandleClose, Register, DialOK,
         DialError, Publish, Reply, WriteOut, ReadIn, ReadEnds, Cancel, Shutdown, wireVars
<1>3. (link' = link \/ link' = "down") /\ (peer' = peer \/ peer' \in {"second", "accepted"})
  BY DEF Next, ClientStep, FlowStep, ServerStep, Handle, OpenStep, Open, OpenReturn, Close, SwapFlows, FinishClose,
         CloseFlow, Dispatch, WriteTo, LinkDown, PeerRestart, ResetPeerState, TakeDatagram, ResolveError, GetFlow,
         DialFlowError, WriteFlow, FlowAnswer, FlowEnds, HandleOpen, HandleData, HandleClose, Register, DialOK,
         DialError, Publish, Reply, WriteOut, ReadIn, ReadEnds, Cancel, Shutdown, wireVars
<1>4. sent' \in 0..MaxData
  BY <1>0, <1>2, DatagramBounds DEF WireType
<1> QED
  BY <1>0, <1>1, <1>3, <1>4, S2CStep DEF WireType

(* The steps that leave the server alone. *)
LEMMA ServerFrame ==
  ASSUME Next, ~PeerRestart, ~Cancel, ~Shutdown,
         ~\E i \in Ids : Handle(i) \/ OpenStep(i) \/ WriteOut(i) \/ ReadEnds(i)
  PROVE  UNCHANGED serverVars
<1>1. ASSUME NEW i \in Ids, Open(i) \/ OpenReturn(i) \/ Close(i) \/ ReadIn(i) PROVE UNCHANGED serverVars
  BY <1>1 DEF Open, OpenReturn, Close, ReadIn
<1>2. ASSUME NEW m \in Maps, \/ SwapFlows(m) \/ FinishClose(m) \/ TakeDatagram(m) \/ ResolveError(m) \/ GetFlow(m)
                             \/ DialFlowError(m) \/ WriteFlow(m)
                             \/ \E n \in Flows : CloseFlow(m, n) \/ FlowAnswer(m, n) \/ FlowEnds(m, n)
      PROVE  UNCHANGED serverVars
  BY <1>2 DEF SwapFlows, FinishClose, TakeDatagram, ResolveError, GetFlow, DialFlowError, WriteFlow, CloseFlow,
              FlowAnswer, FlowEnds
<1>3. ASSUME Dispatch \/ LinkDown \/ ResetPeerState \/ \E a \in Assocs : WriteTo(a) PROVE UNCHANGED serverVars
  BY <1>3 DEF Dispatch, LinkDown, ResetPeerState, WriteTo
<1> QED
  BY <1>1, <1>2, <1>3 DEF Next, ClientStep, FlowStep, ServerStep

(* Removing ids keeps the types. *)
LEMMA RemoveType ==
  ASSUME ServerType, NEW S, Remove(S)
  PROVE  sreg' \subseteq Ids /\ sock' \in [Ids -> {"none", "open", "closed"}]
BY DEF Remove, ServerType

(* Every step keeps the server's types. *)
LEMMA ServerTypeStep ==
  ASSUME TypeInv, Next
  PROVE  ServerType'
<1>0. ServerType
  BY TypeParts DEF TypeInv
<1>1. CASE UNCHANGED serverVars
  BY <1>0, <1>1 DEF ServerType, serverVars
<1>2. CASE PeerRestart
  BY <1>0, <1>2, DatagramBounds DEF PeerRestart, ServerType, OpenerAt
<1>3. CASE Cancel
  BY <1>0, <1>3 DEF Cancel, ServerType
<1>4. CASE Shutdown
  <2>1. Remove(sreg) /\ server' = "down" /\ UNCHANGED <<opener, squeue, loop, cancelled>>
    BY <1>4 DEF Shutdown
  <2> QED
    BY <1>0, <2>1, RemoveType DEF ServerType
<1>5. ASSUME NEW i \in Ids, HandleOpen(i) PROVE ServerType'
  BY <1>0, <1>5 DEF HandleOpen, ServerType, OpenerAt
<1>6. ASSUME NEW i \in Ids, HandleData(i) PROVE ServerType'
  <2>1. squeue' \in [Ids -> 0..Depth]
    BY <1>0, <1>6, QueuedType DEF HandleData, ServerType
  <2> QED
    BY <1>0, <1>6, <2>1 DEF HandleData, ServerType
<1>7. ASSUME NEW i \in Ids, HandleClose(i) PROVE ServerType'
  <2>1. Remove({i}) /\ cancelled' = cancelled \cup {i} /\ UNCHANGED <<server, opener, squeue, loop>>
    BY <1>7 DEF HandleClose
  <2> QED
    BY <1>0, <2>1, RemoveType DEF ServerType
<1>8. ASSUME NEW i \in Ids, Register(i) \/ DialOK(i) \/ DialError(i) \/ Publish(i) PROVE ServerType'
  BY <1>0, <1>8 DEF Register, DialOK, DialError, Publish, ServerType, OpenerAt
<1>9. ASSUME NEW i \in Ids, Reply(i) PROVE ServerType'
  <2>1. /\ opener' = [opener EXCEPT ![i] = "over"] /\ UNCHANGED <<server, squeue, cancelled>>
        /\ \/ loop' = loop \cup {i} /\ UNCHANGED <<sreg, sock>>
           \/ Remove({i}) /\ loop' = loop
    BY <1>9 DEF Reply
  <2> QED
    BY <1>0, <2>1, RemoveType DEF ServerType, OpenerAt
<1>10. ASSUME NEW i \in Ids, WriteOut(i) PROVE ServerType'
  <2>1. squeue' \in [Ids -> 0..Depth]
    BY <1>0, <1>10, DatagramBounds DEF WriteOut, ServerType
  <2> QED
    BY <1>0, <1>10, <2>1 DEF WriteOut, ServerType
<1>11. ASSUME NEW i \in Ids, ReadEnds(i) PROVE ServerType'
  <2>1. Remove({i}) /\ loop' = loop \ {i} /\ UNCHANGED <<server, opener, squeue, cancelled>>
    BY <1>11 DEF ReadEnds
  <2> QED
    BY <1>0, <2>1, RemoveType DEF ServerType
<1> QED
  BY <1>1, <1>2, <1>3, <1>4, <1>5, <1>6, <1>7, <1>8, <1>9, <1>10, <1>11, ServerFrame DEF Handle, OpenStep

(* Every step keeps the types. *)
LEMMA TypeStep == TypeInv /\ [Next]_vars => TypeInv'
<1> SUFFICES ASSUME TypeInv, [Next]_vars PROVE TypeInv'
  OBVIOUS
<1>1. CASE Next
  BY <1>1, CallTypeStep, FlowTypeStep, WireTypeStep, ServerTypeStep, TypePartsNext DEF TypeInv
<1>2. CASE UNCHANGED vars
  BY <1>2 DEF TypeInv, TypeOK, Using, vars, callVars, flowVars, workVars, sockVars, wireVars, serverVars
<1> QED
  BY <1>1, <1>2

(* The strengthened types hold. *)
THEOREM TypeInvHolds == Spec => []TypeInv
BY TypeInit, TypeStep, PTL DEF Spec

(* The variables of both ends keep their types; no incoming channel ever     *)
(* holds more than datagramQueueDepth datagrams.                             *)
THEOREM TypeCorrect == Spec => []TypeOK
<1>1. TypeInv => TypeOK
  BY DEF TypeInv
<1> QED
  BY <1>1, TypeInvHolds, PTL

-----------------------------------------------------------------------------
(* The flows of a mapping. *)

(* There are no flows at first. *)
LEMMA FlowInit == Init => FlowInv
BY DEF Init, FlowInv, FlowsOwned

(* fail begins to close mappings and touches no flow. *)
LEMMA FailFlow ==
  ASSUME TypeInv, FlowInv, NEW S \in SUBSET Ids, Fail(S), UNCHANGED sockVars
  PROVE  FlowInv'
<1>0. FlowType
  BY TypeParts DEF TypeInv
<1>1. /\ done' = done \cup S
      /\ \A m \in Maps : shut'[m] = IF m \in S /\ shut[m] = "no" THEN "begun" ELSE shut[m]
  BY <1>0 DEF Fail, FlowType
<1>2. FlowsOwned'
  BY <1>1 DEF FlowInv, FlowsOwned, sockVars
<1> QED
  BY <1>1, <1>2 DEF FlowInv

(* removeFlow leaves the flow it removes to somebody who closes it.          *)
LEMMA RemoveFlowInv ==
  ASSUME TypeInv, FlowInv, NEW m \in Maps, NEW n \in Flows, RemoveFlow(m, n), UNCHANGED <<shut, fopen, done>>
  PROVE  FlowInv'
<1>0. FlowType
  BY TypeParts DEF TypeInv
<1>1. ASSUME NEW k \in Maps
      PROVE  \/ k # m /\ flow'[k] = flow[k] /\ fclosing'[k] = fclosing[k]
             \/ k = m /\ fclosing'[k] = fclosing[k] \cup {n} /\ (flow[k] # n => flow'[k] = flow[k])
  BY <1>0 DEF RemoveFlow, FlowType
<1> QED
  BY <1>1 DEF FlowInv, FlowsOwned

(* Every step keeps the flows owned. *)
LEMMA FlowInvStep ==
  ASSUME TypeInv, FlowInv, Next
  PROVE  FlowInv'
<1>0. CallType /\ FlowType /\ WireType /\ Using
  BY TypeParts DEF TypeInv
<1>m. Maps \subseteq Ids
  BY DEF Ids
<1>d. done \subseteq done'
  BY DEF Next, ClientStep, FlowStep, ServerStep, Handle, OpenStep, Open, OpenReturn, Close, SwapFlows, FinishClose,
         CloseFlow, Dispatch, WriteTo, LinkDown, PeerRestart, ResetPeerState, TakeDatagram, ResolveError, GetFlow,
         DialFlowError, WriteFlow, FlowAnswer, FlowEnds, HandleOpen, HandleData, HandleClose, Register, DialOK,
         DialError, Publish, Reply, WriteOut, ReadIn, ReadEnds, Cancel, Shutdown, Fail, callVars
<1>1. CASE UNCHANGED <<shut, flow, fopen, fclosing>>
  BY <1>1, <1>d DEF FlowInv, FlowsOwned
<1>2. CASE UNCHANGED flowVars
  BY <1>1, <1>2 DEF flowVars, sockVars
<1>3. ASSUME NEW i \in Ids, Close(i) PROVE FlowInv'
  <2>1. UNCHANGED sockVars
    BY <1>3 DEF Close
  <2>2. CASE i \in Maps /\ shut[i] # "no"
    BY <1>1, <1>3, <2>1, <2>2 DEF Close, sockVars
  <2>3. CASE ~(i \in Maps /\ shut[i] # "no")
    BY <1>3, <2>1, <2>3, FailFlow DEF Close
  <2> QED
    BY <2>2, <2>3
<1>4. ASSUME NEW m \in Maps, SwapFlows(m) PROVE FlowInv'
  <2>1. /\ shut[m] = "begun" /\ shut' = [shut EXCEPT ![m] = "swapped"]
        /\ flow' = [flow EXCEPT ![m] = 0] /\ UNCHANGED <<fopen, done>>
        /\ fclosing' = [fclosing EXCEPT ![m] = @ \cup ({flow[m]} \ {0})]
    BY <1>4 DEF SwapFlows
  <2>2. \A n \in fopen[m] : n # 0
    BY <1>0, DatagramBounds DEF FlowType, Flows
  <2>3. ASSUME NEW k \in Maps
        PROVE  \/ k # m /\ shut'[k] = shut[k] /\ flow'[k] = flow[k] /\ fclosing'[k] = fclosing[k]
               \/ k = m /\ shut'[k] = "swapped" /\ fclosing'[k] = fclosing[k] \cup ({flow[k]} \ {0})
    BY <1>0, <2>1 DEF FlowType
  <2> QED
    BY <2>1, <2>2, <2>3 DEF FlowInv, FlowsOwned
<1>5. ASSUME Dispatch PROVE FlowInv'
  <2>1. Head(s2c).id \in Ids /\ UNCHANGED sockVars /\ (shut' = shut \/ Fail({Head(s2c).id}))
    BY <1>0, <1>5, HeadType DEF Dispatch, WireType
  <2>2. CASE shut' = shut
    BY <1>1, <2>1, <2>2 DEF sockVars
  <2>3. CASE Fail({Head(s2c).id})
    BY <2>1, <2>3, FailFlow
  <2> QED
    BY <2>1, <2>2, <2>3
<1>6. ASSUME LinkDown \/ ResetPeerState \/ Cancel PROVE FlowInv'
  <2>1. creg \in SUBSET Ids /\ Fail(creg) /\ UNCHANGED sockVars
    BY <1>0, <1>6 DEF LinkDown, ResetPeerState, Cancel, CallType
  <2> QED
    BY <2>1, FailFlow
<1>7. ASSUME NEW m \in Maps, ResolveError(m) \/ DialFlowError(m) PROVE FlowInv'
  <2>1. {m} \in SUBSET Ids /\ Fail({m}) /\ UNCHANGED sockVars
    BY <1>m, <1>7 DEF ResolveError, DialFlowError
  <2> QED
    BY <2>1, FailFlow
<1>8. ASSUME NEW m \in Maps, FinishClose(m) PROVE FlowInv'
  <2>1. shut[m] = "swapped" /\ shut' = [shut EXCEPT ![m] = "over"] /\ UNCHANGED <<flow, fopen, fclosing, done>>
    BY <1>8 DEF FinishClose, sockVars, callVars
  <2>2. ASSUME NEW k \in Maps PROVE shut'[k] = shut[k] \/ (k = m /\ shut'[k] = "over")
    BY <1>0, <2>1 DEF FlowType
  <2> QED
    BY <2>1, <2>2 DEF FlowInv, FlowsOwned
<1>9. ASSUME NEW m \in Maps, TakeDatagram(m) PROVE FlowInv'
  BY <1>1, <1>9 DEF TakeDatagram, sockVars
<1>10. ASSUME NEW m \in Maps, GetFlow(m) PROVE FlowInv'
  <2>1. CASE UNCHANGED <<flow, fopen>>
    BY <1>1, <1>10, <2>1 DEF GetFlow
  <2>2. CASE /\ m \notin done /\ flow[m] = 0
             /\ flow' = [flow EXCEPT ![m] = made'[m]]
             /\ fopen' = [fopen EXCEPT ![m] = @ \cup {made'[m]}]
    <3>1. shut[m] = "no" /\ UNCHANGED <<shut, fclosing>>
      BY <1>10, <2>2 DEF FlowInv, GetFlow
    <3>2. \A n \in fopen[m] : n # 0
      BY <1>0, DatagramBounds DEF FlowType, Flows
    <3>3. \A n \in fopen[m] : n \in fclosing[m]
      BY <2>2, <3>2 DEF FlowInv, FlowsOwned
    <3>4. ASSUME NEW k \in Maps
          PROVE  \/ k # m /\ flow'[k] = flow[k] /\ fopen'[k] = fopen[k]
                 \/ k = m /\ flow'[k] = made'[m] /\ fopen'[k] = fopen[k] \cup {made'[m]}
      BY <1>0, <2>2 DEF FlowType
    <3>5. FlowsOwned'
      BY <3>1, <3>3, <3>4 DEF FlowInv, FlowsOwned
    <3> QED
      BY <1>d, <3>1, <3>5 DEF FlowInv
  <2> QED
    BY <1>10, <2>1, <2>2 DEF GetFlow
<1>11. ASSUME NEW m \in Maps, WriteFlow(m) PROVE FlowInv'
  <2>1. CASE UNCHANGED <<flow, fclosing>>
    BY <1>1, <1>11, <2>1 DEF WriteFlow
  <2>2. CASE RemoveFlow(m, using[m])
    BY <1>0, <1>11, <2>2, RemoveFlowInv DEF WriteFlow, Using, callVars
  <2> QED
    BY <1>11, <2>1, <2>2 DEF WriteFlow
<1>12. ASSUME NEW m \in Maps, NEW n \in Flows, CloseFlow(m, n) PROVE FlowInv'
  <2>1. /\ fopen' = [fopen EXCEPT ![m] = @ \ {n}] /\ fclosing' = [fclosing EXCEPT ![m] = @ \ {n}]
        /\ UNCHANGED <<shut, flow, done>>
    BY <1>12 DEF CloseFlow, callVars
  <2>2. ASSUME NEW k \in Maps
        PROVE  \/ k # m /\ fopen'[k] = fopen[k] /\ fclosing'[k] = fclosing[k]
               \/ k = m /\ fopen'[k] = fopen[k] \ {n} /\ fclosing'[k] = fclosing[k] \ {n}
    BY <1>0, <2>1 DEF FlowType
  <2> QED
    BY <2>1, <2>2 DEF FlowInv, FlowsOwned
<1>13. ASSUME NEW m \in Maps, NEW n \in Flows, FlowEnds(m, n) PROVE FlowInv'
  BY <1>13, RemoveFlowInv DEF FlowEnds, callVars
<1> QED
  BY <1>2, <1>3, <1>4, <1>5, <1>6, <1>7, <1>8, <1>9, <1>10, <1>11, <1>12, <1>13, FlowFrame

(* The flows stay owned. *)
THEOREM FlowInvHolds == Spec => []FlowInv
<1>1. TypeInv /\ FlowInv /\ [Next]_vars => FlowInv'
  <2> SUFFICES ASSUME TypeInv, FlowInv, [Next]_vars PROVE FlowInv'
    OBVIOUS
  <2>1. CASE UNCHANGED vars
    BY <2>1 DEF FlowInv, FlowsOwned, vars, callVars, flowVars, sockVars
  <2> QED
    BY <2>1, FlowInvStep
<1> QED
  BY <1>1, FlowInit, TypeInvHolds, PTL DEF Spec

(* No socket of a mapping's flow is lost: it is in the map until closeOnce   *)
(* takes it out, or somebody is about to close it.                           *)
THEOREM FlowSocketsOwned == Spec => []FlowsOwned
<1>1. FlowInv => FlowsOwned
  BY DEF FlowInv
<1> QED
  BY <1>1, FlowInvHolds, PTL

-----------------------------------------------------------------------------
(* The ids of a channel. *)

(* What a new frame is about. *)
LEMMA AboutAppend ==
  ASSUME NEW ch \in Seq(Frames), NEW f \in Frames, NEW i
  PROVE  /\ About(Append(ch, f), i) => About(ch, i) \/ f.id = i
         /\ Opening(Append(ch, f), i) => Opening(ch, i) \/ f = Frame("open", i)
<1> DEFINE new == Append(ch, f)
<1>1. \A k \in 1..Len(new) : (k \in 1..Len(ch) /\ new[k] = ch[k]) \/ new[k] = f
  OBVIOUS
<1> HIDE DEF new
<1>2. /\ About(new, i) => About(ch, i) \/ f.id = i
      /\ Opening(new, i) => Opening(ch, i) \/ f = Frame("open", i)
  BY <1>1 DEF About, Opening
<1> QED
  BY <1>2 DEF new

(* The frames behind the first; if that one is about i, none of them opens i. *)
LEMMA AboutTail ==
  ASSUME NEW ch \in Seq(Frames), ch # <<>>, NEW i
  PROVE  /\ About(ch, Head(ch).id)
         /\ About(Tail(ch), i) => About(ch, i)
         /\ Opening(Tail(ch), i) => Opening(ch, i)
         /\ Head(ch) = Frame("open", i) => Opening(ch, i)
         /\ OpenFirst(ch) => OpenFirst(Tail(ch)) /\ (Head(ch).id = i => ~Opening(Tail(ch), i))
<1> DEFINE new == Tail(ch)
<1>1. /\ Len(new) \in Nat /\ 1 \in 1..Len(ch) /\ ch[1] = Head(ch)
      /\ \A k \in 1..Len(new) : k + 1 \in 1..Len(ch) /\ new[k] = ch[k + 1]
  OBVIOUS
<1> HIDE DEF new
<1>2. /\ About(ch, Head(ch).id) /\ (About(new, i) => About(ch, i)) /\ (Opening(new, i) => Opening(ch, i))
      /\ Head(ch) = Frame("open", i) => Opening(ch, i)
  BY <1>1 DEF About, Opening
<1>3. ASSUME OpenFirst(ch), NEW j \in 1..Len(new), NEW k \in 1..Len(new), new[k].type = "open", new[j].id = new[k].id
      PROVE  k <= j
  <2>1. k + 1 <= j + 1
    BY <1>1, <1>3 DEF OpenFirst
  <2> QED
    BY <1>1, <2>1
<1>4. ASSUME OpenFirst(ch), Head(ch).id = i, NEW k \in 1..Len(new), new[k] = Frame("open", i) PROVE FALSE
  <2>1. ch[k + 1].type = "open" /\ ch[k + 1].id = i /\ ch[1].id = i
    BY <1>1, <1>4 DEF Frame
  <2>2. k + 1 <= 1
    BY <1>1, <1>4, <2>1 DEF OpenFirst
  <2> QED
    BY <1>1, <2>2
<1>5. OpenFirst(ch) => OpenFirst(new) /\ (Head(ch).id = i => ~Opening(new, i))
  BY <1>3, <1>4 DEF OpenFirst, Opening
<1> QED
  BY <1>2, <1>5 DEF new

(* An OPEN is first if nothing of its id was sent before. *)
LEMMA OpenFirstAppend ==
  ASSUME NEW ch \in Seq(Frames), NEW f \in Frames, OpenFirst(ch), f.type = "open" => ~About(ch, f.id)
  PROVE  OpenFirst(Append(ch, f))
<1> DEFINE new == Append(ch, f)
<1>1. /\ Len(ch) \in Nat
      /\ \A k \in 1..Len(new) : (k \in 1..Len(ch) /\ new[k] = ch[k]) \/ (k = Len(ch) + 1 /\ new[k] = f)
  OBVIOUS
<1> HIDE DEF new
<1>2. ASSUME NEW j \in 1..Len(new), NEW k \in 1..Len(new), new[k].type = "open", new[j].id = new[k].id
      PROVE  k <= j
  <2>1. CASE k \in 1..Len(ch) /\ new[k] = ch[k] /\ j \in 1..Len(ch) /\ new[j] = ch[j]
    BY <1>2, <2>1 DEF OpenFirst
  <2>2. CASE k = Len(ch) + 1 /\ new[k] = f /\ j \in 1..Len(ch) /\ new[j] = ch[j]
    BY <1>2, <2>2 DEF About
  <2>3. CASE j = Len(ch) + 1
    BY <1>1, <2>3
  <2> QED
    BY <1>1, <2>1, <2>2, <2>3
<1>3. OpenFirst(new)
  BY <1>2 DEF OpenFirst
<1> QED
  BY <1>3 DEF new

(* An empty channel is about nothing. *)
LEMMA AboutEmpty == OpenFirst(<<>>) /\ \A i : ~About(<<>>, i) /\ ~Opening(<<>>, i)
BY DEF About, Opening, OpenFirst

(* A channel that shrinks is about no more than before. *)
LEMMA AboutShrink ==
  ASSUME c2s \in Seq(Frames), C2SShrinks, NEW i
  PROVE  /\ About(c2s, i)' => About(c2s, i)
         /\ Opening(c2s, i)' => Opening(c2s, i)
         /\ OpenFirst(c2s) => OpenFirst(c2s)'
<1>1. CASE c2s' = c2s
  BY <1>1 DEF About, Opening, OpenFirst
<1>2. CASE c2s' = <<>>
  BY <1>2 DEF About, Opening, OpenFirst
<1>3. CASE c2s # <<>> /\ c2s' = Tail(c2s)
  <2>1. /\ About(Tail(c2s), i) => About(c2s, i)
        /\ Opening(Tail(c2s), i) => Opening(c2s, i)
        /\ OpenFirst(c2s) => OpenFirst(Tail(c2s))
    BY <1>3, AboutTail
  <2> QED
    BY <1>3, <2>1 DEF About, Opening, OpenFirst
<1> QED
  BY <1>1, <1>2, <1>3 DEF C2SShrinks

-----------------------------------------------------------------------------
(* Ids are used once. *)

(* An id that was opened is not opened again. *)
LEMMA AppNone ==
  ASSUME TypeInv, Next, NEW i \in Ids, app'[i] = "none"
  PROVE  app[i] = "none" /\ \A j \in Ids : Open(j) \/ Close(j) => j # i
<1>0. CallType
  BY TypeParts DEF TypeInv
<1>1. ASSUME NEW j \in Ids, Open(j) \/ OpenReturn(j) \/ Close(j) PROVE j # i /\ app'[i] = app[i]
  <2>1. \E st \in {"opening", "open", "gone", "closed"} : app' = [app EXCEPT ![j] = st]
    BY <1>1 DEF Open, OpenReturn, Close
  <2> QED
    BY <1>0, <2>1 DEF CallType
<1>2. (\E j \in Ids : Open(j) \/ OpenReturn(j) \/ Close(j)) \/ app' = app
  BY DEF Next, ClientStep, FlowStep, ServerStep, Handle, OpenStep, SwapFlows, FinishClose,
         CloseFlow, Dispatch, WriteTo, LinkDown, PeerRestart, ResetPeerState, TakeDatagram, ResolveError, GetFlow,
         DialFlowError, WriteFlow, FlowAnswer, FlowEnds, HandleOpen, HandleData, HandleClose, Register, DialOK,
         DialError, Publish, Reply, WriteOut, ReadIn, ReadEnds, Cancel, Shutdown, callVars
<1> QED
  BY <1>1, <1>2

(* It stays unknown at the client, ... *)
LEMMA FreshClient ==
  ASSUME TypeInv, Next, NEW i \in Ids, app'[i] = "none", Fresh(i)
  PROVE  /\ i \notin creg'
         /\ i \in Maps => /\ shut'[i] = "no" /\ cqueue'[i] = 0 /\ worker'[i] \notin {"resolve", "write"}
                          /\ fopen'[i] = {}
<1>0. CallType /\ FlowType /\ WireType /\ Using
  BY TypeParts DEF TypeInv
<1>a. app[i] = "none" /\ \A j \in Ids : Open(j) \/ Close(j) => j # i
  BY AppNone
<1>f. ASSUME NEW S \in SUBSET Ids, Fail(S), i \notin S PROVE i \in Maps => shut'[i] = "no"
  BY <1>0, <1>f DEF Fail, Fresh, FlowType
<1>1. i \notin creg'
  <2>1. (\E j \in Ids : Open(j) /\ creg' = creg \cup {j}) \/ creg' \subseteq creg
    BY DEF Next, ClientStep, FlowStep, ServerStep, Handle, OpenStep, Open, OpenReturn, Close, SwapFlows, FinishClose,
           CloseFlow, Dispatch, WriteTo, LinkDown, PeerRestart, ResetPeerState, TakeDatagram, ResolveError, GetFlow,
           DialFlowError, WriteFlow, FlowAnswer, FlowEnds, HandleOpen, HandleData, HandleClose, Register, DialOK,
           DialError, Publish, Reply, WriteOut, ReadIn, ReadEnds, Cancel, Shutdown, callVars
  <2> QED
    BY <1>a, <2>1 DEF Fresh
<1>2. ASSUME i \in Maps
      PROVE  /\ shut'[i] = "no" /\ cqueue'[i] = 0 /\ worker'[i] \notin {"resolve", "write"}
             /\ fopen'[i] = {}
  <2>0. /\ shut[i] = "no" /\ cqueue[i] = 0 /\ worker[i] \notin {"resolve", "write"} /\ fopen[i] = {}
        /\ i \notin creg
    BY <1>2 DEF Fresh
  <2>1. CASE UNCHANGED flowVars
    BY <2>0, <2>1 DEF flowVars, workVars, sockVars
  <2>2. ASSUME NEW S \in SUBSET Ids, Fail(S), i \notin S, UNCHANGED sockVars, cqueue'[i] = cqueue[i],
               worker'[i] = worker[i]
        PROVE  /\ shut'[i] = "no" /\ cqueue'[i] = 0 /\ worker'[i] \notin {"resolve", "write"}
               /\ fopen'[i] = {}
    BY <1>2, <1>f, <2>0, <2>2 DEF sockVars
  <2>3. ASSUME NEW j \in Ids, Close(j)
        PROVE  /\ shut'[i] = "no" /\ cqueue'[i] = 0 /\ worker'[i] \notin {"resolve", "write"}
               /\ fopen'[i] = {}
    <3>1. j # i /\ UNCHANGED <<workVars, sockVars>> /\ (shut' = shut \/ Fail({j}))
      BY <1>a, <2>3 DEF Close
    <3> QED
      BY <2>0, <2>2, <3>1 DEF workVars, sockVars
  <2>4. ASSUME NEW m \in Maps, SwapFlows(m) \/ FinishClose(m)
        PROVE  /\ shut'[i] = "no" /\ cqueue'[i] = 0 /\ worker'[i] \notin {"resolve", "write"}
               /\ fopen'[i] = {}
    <3>1. /\ shut[m] # "no" /\ UNCHANGED <<workVars, fopen>>
          /\ \E st \in {"swapped", "over"} : shut' = [shut EXCEPT ![m] = st]
      BY <2>4 DEF SwapFlows, FinishClose, sockVars
    <3> QED
      BY <1>0, <1>2, <2>0, <3>1 DEF FlowType, workVars
  <2>5. ASSUME Dispatch
        PROVE  /\ shut'[i] = "no" /\ cqueue'[i] = 0 /\ worker'[i] \notin {"resolve", "write"}
               /\ fopen'[i] = {}
    <3>1. Head(s2c).id \in Ids /\ UNCHANGED <<worker, sockVars>>
          /\ \/ UNCHANGED <<shut, cqueue>>
             \/ Head(s2c).id \in creg /\ Fail({Head(s2c).id}) /\ cqueue' = cqueue
             \/ shut' = shut /\ Head(s2c).id \in creg /\ Head(s2c).id \in Maps
                /\ cqueue' = [cqueue EXCEPT ![Head(s2c).id] = Queued(@)]
      BY <1>0, <2>5, HeadType DEF Dispatch, WireType
    <3>2. CASE UNCHANGED <<shut, cqueue>>
      BY <2>0, <3>1, <3>2 DEF sockVars
    <3>3. CASE Head(s2c).id \in creg /\ Fail({Head(s2c).id}) /\ cqueue' = cqueue
      BY <2>0, <2>2, <3>1, <3>3
    <3>4. CASE shut' = shut /\ Head(s2c).id \in creg /\ Head(s2c).id \in Maps
               /\ cqueue' = [cqueue EXCEPT ![Head(s2c).id] = Queued(@)]
      <4>1. cqueue'[i] = cqueue[i]
        BY <1>0, <1>2, <2>0, <3>4 DEF FlowType
      <4> QED
        BY <2>0, <3>1, <3>4, <4>1 DEF sockVars
    <3> QED
      BY <3>1, <3>2, <3>3, <3>4
  <2>6. ASSUME LinkDown \/ ResetPeerState \/ Cancel
        PROVE  /\ shut'[i] = "no" /\ cqueue'[i] = 0 /\ worker'[i] \notin {"resolve", "write"}
               /\ fopen'[i] = {}
    <3>1. creg \in SUBSET Ids /\ Fail(creg) /\ UNCHANGED <<workVars, sockVars>>
      BY <1>0, <2>6 DEF LinkDown, ResetPeerState, Cancel, CallType
    <3> QED
      BY <2>0, <2>2, <3>1 DEF workVars
  <2>7. ASSUME NEW m \in Maps, ResolveError(m) \/ DialFlowError(m)
        PROVE  /\ shut'[i] = "no" /\ cqueue'[i] = 0 /\ worker'[i] \notin {"resolve", "write"}
               /\ fopen'[i] = {}
    <3>1. worker[m] = "resolve" /\ Fail({m}) /\ worker' = [worker EXCEPT ![m] = "idle"]
          /\ UNCHANGED <<cqueue, sockVars>>
      BY <2>7 DEF ResolveError, DialFlowError
    <3>2. m # i /\ {m} \in SUBSET Ids /\ worker'[i] = worker[i]
      BY <1>0, <1>2, <2>0, <3>1 DEF FlowType, Ids
    <3> QED
      BY <2>2, <3>1, <3>2
  <2>8. ASSUME NEW m \in Maps, TakeDatagram(m)
        PROVE  /\ shut'[i] = "no" /\ cqueue'[i] = 0 /\ worker'[i] \notin {"resolve", "write"}
               /\ fopen'[i] = {}
    <3>1. UNCHANGED <<shut, sockVars>>
          /\ \/ worker' = [worker EXCEPT ![m] = "over"] /\ cqueue' = cqueue
             \/ cqueue[m] > 0 /\ cqueue' = [cqueue EXCEPT ![m] = @ - 1] /\ worker' = [worker EXCEPT ![m] = "resolve"]
      BY <2>8 DEF TakeDatagram
    <3>2. cqueue'[i] = 0 /\ worker'[i] \notin {"resolve", "write"}
      BY <1>0, <1>2, <2>0, <3>1 DEF FlowType
    <3> QED
      BY <2>0, <3>1, <3>2 DEF sockVars
  <2>9. ASSUME NEW m \in Maps, GetFlow(m) \/ WriteFlow(m)
        PROVE  /\ shut'[i] = "no" /\ cqueue'[i] = 0 /\ worker'[i] \notin {"resolve", "write"}
               /\ fopen'[i] = {}
    <3>1. /\ worker[m] \in {"resolve", "write"} /\ UNCHANGED <<shut, cqueue>>
          /\ \E st \in {"idle", "write"} : worker' = [worker EXCEPT ![m] = st]
          /\ fopen' = fopen \/ fopen' = [fopen EXCEPT ![m] = @ \cup {made'[m]}]
      BY <2>9 DEF GetFlow, WriteFlow
    <3>2. worker'[i] = worker[i] /\ fopen'[i] = fopen[i]
      BY <1>0, <1>2, <2>0, <3>1 DEF FlowType
    <3> QED
      BY <2>0, <3>1, <3>2
  <2>10. ASSUME NEW m \in Maps, NEW n \in Flows, CloseFlow(m, n) \/ FlowEnds(m, n)
        PROVE  /\ shut'[i] = "no" /\ cqueue'[i] = 0 /\ worker'[i] \notin {"resolve", "write"}
               /\ fopen'[i] = {}
    <3>1. /\ UNCHANGED <<shut, workVars>> /\ (fopen' = fopen \/ fopen' = [fopen EXCEPT ![m] = @ \ {n}])
      BY <2>10 DEF CloseFlow, FlowEnds
    <3>2. fopen'[i] = {}
      BY <1>0, <1>2, <2>0, <3>1 DEF FlowType
    <3> QED
      BY <2>0, <3>1, <3>2 DEF workVars
  <2> QED
    BY <2>1, <2>3, <2>4, <2>5, <2>6, <2>7, <2>8, <2>9, <2>10, FlowFrame
<1> QED
  BY <1>1, <1>2

(* What a step does to the opener of an id: it starts with the OPEN frame.   *)
LEMMA OpenerStep ==
  ASSUME TypeInv, Next, NEW i \in Ids
  PROVE  \/ opener'[i] = opener[i]
         \/ HandleOpen(i) /\ c2s # <<>> /\ Head(c2s) = Frame("open", i) /\ c2s' = Tail(c2s)
         \/ opener[i] \notin {"none", "over"}
         \/ opener[i] = "over" /\ opener'[i] = "over"
<1>0. ServerType
  BY TypeParts DEF TypeInv
<1>1. CASE UNCHANGED serverVars
  BY <1>1 DEF serverVars
<1>2. CASE PeerRestart
  BY <1>0, <1>2 DEF PeerRestart, ServerType, OpenerAt
<1>3. ASSUME NEW j \in Ids, HandleOpen(j)
      PROVE  opener'[i] = opener[i] \/
             (HandleOpen(i) /\ c2s # <<>> /\ Head(c2s) = Frame("open", i) /\ c2s' = Tail(c2s))
  <2>1. Received("open", j) /\ (opener' = opener \/ opener' = [opener EXCEPT ![j] = "spawned"])
    BY <1>3 DEF HandleOpen
  <2>2. j # i => opener'[i] = opener[i]
    BY <1>0, <2>1 DEF ServerType
  <2> QED
    BY <1>3, <2>1, <2>2 DEF Received, Reading
<1>4. ASSUME NEW j \in Ids, HandleData(j) \/ HandleClose(j) \/ WriteOut(j) \/ ReadEnds(j) PROVE opener' = opener
  BY <1>4 DEF HandleData, HandleClose, WriteOut, ReadEnds
<1>5. ASSUME NEW j \in Ids, OpenStep(j) PROVE opener'[i] = opener[i] \/ opener[i] \notin {"none", "over"}
  <2>1. /\ opener[j] \in {"spawned", "dialing", "dialed", "reply"}
        /\ \E st \in OpenerAt : opener' = [opener EXCEPT ![j] = st]
    BY <1>5 DEF OpenStep, Register, DialOK, DialError, Publish, Reply, OpenerAt
  <2> QED
    BY <1>0, <2>1 DEF ServerType
<1>6. ASSUME Cancel \/ Shutdown PROVE opener' = opener
  BY <1>6 DEF Cancel, Shutdown
<1> QED
  BY <1>1, <1>2, <1>3, <1>4, <1>5, <1>6, ServerFrame DEF Handle

(* What a step adds to the frames the server has handled a CLOSE of. *)
LEMMA CancelledStep ==
  ASSUME TypeInv, Next, NEW i \in Ids, i \in cancelled', i \notin cancelled
  PROVE  HandleClose(i) /\ c2s # <<>> /\ Head(c2s) = Frame("close", i) /\ c2s' = Tail(c2s)
<1>1. \E j \in Ids : HandleClose(j) /\ cancelled' = cancelled \cup {j}
  BY DEF Next, ClientStep, FlowStep, ServerStep, Handle, OpenStep, Open, OpenReturn, Close, SwapFlows, FinishClose,
         CloseFlow, Dispatch, WriteTo, LinkDown, PeerRestart, ResetPeerState, TakeDatagram, ResolveError, GetFlow,
         DialFlowError, WriteFlow, FlowAnswer, FlowEnds, HandleOpen, HandleData, HandleClose, Register, DialOK,
         DialError, Publish, Reply, WriteOut, ReadIn, ReadEnds, Cancel, Shutdown, serverVars
<1>2. HandleClose(i)
  BY <1>1
<1> QED
  BY <1>2 DEF HandleClose, Received, Reading

(* No id has a history at first. *)
LEMMA IdInit == Init => IdInv
<1> SUFFICES ASSUME Init PROVE IdInv
  OBVIOUS
<1>1. OpenFirst(c2s) /\ \A i : ~About(c2s, i) /\ ~Opening(c2s, i)
  BY AboutEmpty DEF Init
<1>2. \A i \in Ids : Fresh(i)
  BY <1>1 DEF Init, Fresh
<1> QED
  BY <1>1, <1>2 DEF IdInv, Init

(* What a step does to the frames about an id, in terms of the id. *)
LEMMA C2SAbout ==
  ASSUME TypeInv, IdInv, Next
  PROVE  /\ OpenFirst(c2s)'
         /\ \A i \in Ids : Opening(c2s, i)' => Opening(c2s, i) \/ (Open(i) /\ Fresh(i))
         /\ \A i \in Ids : app'[i] = "none" /\ About(c2s, i)' => About(c2s, i)
<1>0. c2s \in Seq(Frames) /\ OpenFirst(c2s)
  BY TypeParts DEF TypeInv, WireType, IdInv
<1>1. CASE C2SShrinks
  BY <1>0, <1>1, AboutShrink
<1>2. CASE C2SOpens
  <2>1. PICK j \in Ids : Open(j) /\ c2s' = Append(c2s, Frame("open", j))
    BY <1>2 DEF C2SOpens
  <2>2. Fresh(j) /\ ~About(c2s, j)
    BY <2>1 DEF Open, IdInv, Fresh
  <2>3. PICK f \in Frames : f = Frame("open", j) /\ f.type = "open" /\ f.id = j
    BY FrameType DEF FrameTypes
  <2>4. c2s' = Append(c2s, f)
    BY <2>1, <2>3
  <2>5. OpenFirst(Append(c2s, f))
    BY <1>0, <2>2, <2>3, OpenFirstAppend
  <2>6. ASSUME NEW i \in Ids
        PROVE  /\ Opening(c2s, i)' => Opening(c2s, i) \/ i = j
               /\ About(c2s, i)' => About(c2s, i) \/ i = j
    <3>1. /\ About(Append(c2s, f), i) => About(c2s, i) \/ i = j
          /\ Opening(Append(c2s, f), i) => Opening(c2s, i) \/ f = Frame("open", i)
      BY <1>0, <2>3, AboutAppend
    <3>2. f = Frame("open", i) => i = j
      BY <2>3 DEF Frame
    <3> QED
      BY <2>4, <3>1, <3>2 DEF About, Opening
  <2>7. OpenFirst(c2s)'
    BY <2>4, <2>5 DEF OpenFirst
  <2> QED
    BY <2>1, <2>2, <2>6, <2>7, AppNone
<1>3. CASE C2SGrows
  <2>1. PICK j \in Ids, t \in {"close", "data"} : Touched(j) /\ c2s' = Append(c2s, Frame(t, j))
    BY <1>3 DEF C2SGrows
  <2>3. PICK f \in Frames : f = Frame(t, j) /\ f.type = t /\ f.id = j
    BY FrameType DEF FrameTypes
  <2>4. c2s' = Append(c2s, f)
    BY <2>1, <2>3
  <2>5. OpenFirst(Append(c2s, f))
    BY <1>0, <2>3, OpenFirstAppend
  <2>6. ASSUME NEW i \in Ids
        PROVE  /\ Opening(c2s, i)' => Opening(c2s, i)
               /\ About(c2s, i)' => About(c2s, i) \/ i = j
    <3>1. /\ About(Append(c2s, f), i) => About(c2s, i) \/ i = j
          /\ Opening(Append(c2s, f), i) => Opening(c2s, i) \/ f = Frame("open", i)
      BY <1>0, <2>3, AboutAppend
    <3>2. f # Frame("open", i)
      BY <2>3 DEF Frame
    <3> QED
      BY <2>4, <3>1, <3>2 DEF About, Opening
  <2>7. OpenFirst(c2s)'
    BY <2>4, <2>5 DEF OpenFirst
  <2>8. app'[j] # "none"
    BY <2>1, AppNone DEF Touched, IdInv, Fresh
  <2> QED
    BY <2>6, <2>7, <2>8
<1> QED
  BY <1>1, <1>2, <1>3, C2SStep

(* The history of every id stays in order. *)
LEMMA IdInvStep ==
  ASSUME TypeInv, IdInv, Next
  PROVE  IdInv'
<1>0. /\ c2s \in Seq(Frames) /\ OpenFirst(c2s) /\ Maps \subseteq Ids
      /\ \A i \in Ids : Opening(c2s, i) => opener[i] = "none"
      /\ \A m \in Maps : m \in cancelled => opener[m] \in {"none", "over"} /\ ~Opening(c2s, m)
  BY TypeParts DEF TypeInv, WireType, IdInv, Ids
<1>o. ASSUME NEW i \in Ids, HandleOpen(i), Head(c2s) = Frame("open", i), c2s # <<>>
      PROVE  About(c2s, i) /\ Opening(c2s, i) /\ (c2s' = Tail(c2s) => ~Opening(c2s, i)')
  <2>1. Head(c2s).id = i
    BY <1>o DEF Frame
  <2>2. About(c2s, i) /\ Opening(c2s, i) /\ ~Opening(Tail(c2s), i)
    BY <1>0, <1>o, <2>1, AboutTail
  <2> QED
    BY <2>2 DEF Opening
<1>c. ASSUME NEW i \in Ids, i \in cancelled', i \notin cancelled
      PROVE  /\ About(c2s, i) /\ ~Opening(c2s, i)' /\ opener' = opener
             /\ i \in Maps => opener[i] \in {"none", "over"}
  <2>1. HandleClose(i) /\ c2s # <<>> /\ Head(c2s) = Frame("close", i) /\ c2s' = Tail(c2s)
    BY <1>c, CancelledStep
  <2>2. Head(c2s).id = i
    BY <2>1 DEF Frame
  <2>3. About(c2s, i) /\ ~Opening(Tail(c2s), i)
    BY <1>0, <2>1, <2>2, AboutTail
  <2>4. opener' = opener /\ (i \in Maps => opener[i] \in {"none", "over"})
    BY <2>1 DEF HandleClose, Received, Reading
  <2> QED
    BY <2>1, <2>3, <2>4 DEF Opening
<1>1. ASSUME NEW i \in Ids, app'[i] = "none" PROVE Fresh(i)'
  <2>1. app[i] = "none" /\ Fresh(i)
    BY <1>1, AppNone DEF IdInv
  <2>2. /\ i \notin creg'
        /\ i \in Maps => /\ shut'[i] = "no" /\ cqueue'[i] = 0 /\ worker'[i] \notin {"resolve", "write"}
                         /\ fopen'[i] = {}
    BY <1>1, <2>1, FreshClient
  <2>3. ~About(c2s, i) /\ opener[i] = "none" /\ i \notin cancelled
    BY <2>1 DEF Fresh
  <2>4. ~About(c2s, i)'
    BY <1>1, <2>3, C2SAbout
  <2>5. i \notin cancelled'
    BY <1>c, <2>3
  <2>6. opener'[i] = "none"
    BY <1>o, <2>3, OpenerStep
  <2> QED
    BY <2>2, <2>4, <2>5, <2>6 DEF Fresh
<1>2. ASSUME NEW i \in Ids, Opening(c2s, i)' PROVE opener'[i] = "none"
  <2>1. opener[i] = "none"
    BY <1>0, <1>2, C2SAbout DEF Fresh
  <2> QED
    BY <1>o, <1>2, <2>1, OpenerStep
<1>3. ASSUME NEW m \in Maps, m \in cancelled' PROVE opener'[m] \in {"none", "over"} /\ ~Opening(c2s, m)'
  <2>0. m \in Ids
    BY DEF Ids
  <2>1. CASE m \notin cancelled
    BY <1>3, <1>c, <2>0, <2>1
  <2>2. CASE m \in cancelled
    <3>1. opener[m] \in {"none", "over"} /\ ~Opening(c2s, m)
      BY <1>0, <2>2
    <3>2. ~Opening(c2s, m)'
      BY <2>0, <2>2, <3>1, C2SAbout DEF Fresh
    <3> QED
      BY <1>o, <2>0, <3>1, <3>2, OpenerStep
  <2> QED
    BY <2>1, <2>2
<1>4. OpenFirst(c2s)'
  BY C2SAbout
<1> QED
  BY <1>1, <1>2, <1>3, <1>4 DEF IdInv

(* Ids are used once, OPEN comes first, and a mapping that was closed is not *)
(* opened any more.                                                          *)
THEOREM IdInvHolds == Spec => []IdInv
<1>1. TypeInv /\ IdInv /\ [Next]_vars => IdInv'
  <2> SUFFICES ASSUME TypeInv, IdInv, [Next]_vars PROVE IdInv'
    OBVIOUS
  <2>1. CASE UNCHANGED vars
    <3>1. UNCHANGED <<app, creg, cancelled, opener, c2s, shut, cqueue, worker, fopen>>
      BY <2>1 DEF vars, callVars, flowVars, workVars, sockVars, wireVars, serverVars
    <3> QED
      BY <3>1 DEF IdInv, Fresh, About, Opening, OpenFirst
  <2> QED
    BY <2>1, IdInvStep
<1> QED
  BY <1>1, IdInit, TypeInvHolds, PTL DEF Spec

-----------------------------------------------------------------------------
(* The Windows sockets. *)

(* Removing ids closes what is registered and published, and nothing opens. *)
LEMMA RemoveSockets ==
  ASSUME ServerType, SocketsOwned, NEW S, Remove(S), NEW i \in Ids, sock'[i] = "open"
  PROVE  /\ sock[i] = "open"
         /\ opener[i] = "dialed" \/ (i \notin S /\ i \in sreg' /\ opener[i] \in {"reply", "over"})
BY DEF Remove, ServerType, SocketsOwned

(* A socket opens only under its opener. *)
LEMMA SockStep ==
  ASSUME TypeInv, Next, NEW i \in Ids, sock'[i] = "open"
  PROVE  sock[i] = "open" \/ opener[i] = "dialing"
<1>0. ServerType
  BY TypeParts DEF TypeInv
<1>r. ASSUME NEW S, Remove(S) PROVE sock[i] = "open"
  BY <1>0, <1>r DEF Remove
<1>1. CASE UNCHANGED sock
  BY <1>1
<1>2. CASE PeerRestart
  BY <1>0, <1>2 DEF PeerRestart
<1>3. ASSUME NEW j \in Ids, DialOK(j) \/ Publish(j) PROVE sock[i] = "open" \/ opener[i] = "dialing"
  BY <1>0, <1>3 DEF DialOK, Publish, ServerType
<1>4. ASSUME NEW j \in Ids, HandleClose(j) \/ Reply(j) \/ ReadEnds(j) PROVE sock[i] = "open"
  BY <1>r, <1>4 DEF HandleClose, Reply, ReadEnds
<1>5. ASSUME NEW j \in Ids, HandleOpen(j) \/ HandleData(j) \/ Register(j) \/ DialError(j) \/ WriteOut(j)
      PROVE  UNCHANGED sock
  BY <1>5 DEF HandleOpen, HandleData, Register, DialError, WriteOut
<1>6. Cancel => UNCHANGED sock
  BY DEF Cancel
<1>7. Shutdown => sock[i] = "open"
  BY <1>r DEF Shutdown
<1>8. UNCHANGED serverVars => UNCHANGED sock
  BY DEF serverVars
<1> QED
  BY <1>1, <1>2, <1>3, <1>4, <1>5, <1>6, <1>7, <1>8, ServerFrame DEF Handle, OpenStep

(* Who has an open socket. *)
SockOwned(i) == sock[i] = "open" => opener[i] = "dialed" \/ (i \in sreg /\ opener[i] \in {"reply", "over"})

(* A step leaves every open socket with an owner. *)
LEMMA OwnedStep ==
  ASSUME TypeInv, IdInv, SocketsOwned, Next, NEW i \in Ids
  PROVE  SockOwned(i)'
<1>0. ServerType /\ c2s \in Seq(Frames) /\ SockOwned(i)
  BY TypeParts DEF TypeInv, WireType, SocketsOwned, SockOwned
<1>r. ASSUME NEW S, Remove(S), opener'[i] = opener[i] PROVE SockOwned(i)'
  BY <1>0, <1>r, RemoveSockets DEF SockOwned
<1>1. CASE UNCHANGED <<opener, sreg, sock>>
  BY <1>0, <1>1 DEF SockOwned
<1>2. CASE PeerRestart
  BY <1>0, <1>2 DEF PeerRestart, SockOwned
<1>3. ASSUME NEW j \in Ids, HandleOpen(j) PROVE SockOwned(i)'
  <2>1. /\ c2s # <<>> /\ Head(c2s) = Frame("open", j) /\ UNCHANGED <<sreg, sock>>
        /\ opener' = opener \/ opener' = [opener EXCEPT ![j] = "spawned"]
    BY <1>3 DEF HandleOpen, Received, Reading
  <2>2. opener[j] = "none"
    <3>1. Opening(c2s, j)
      BY <1>0, <2>1, AboutTail
    <3> QED
      BY <3>1 DEF IdInv
  <2> QED
    BY <1>0, <2>1, <2>2 DEF SockOwned, ServerType
<1>4. ASSUME NEW j \in Ids, HandleClose(j) \/ ReadEnds(j) PROVE SockOwned(i)'
  <2>1. Remove({j}) /\ opener' = opener
    BY <1>4 DEF HandleClose, ReadEnds
  <2> QED
    BY <1>r, <2>1
<1>5. ASSUME NEW j \in Ids, Register(j) \/ DialOK(j) \/ DialError(j) \/ Publish(j) PROVE SockOwned(i)'
  <2>1. CASE Register(j)
    BY <1>0, <2>1 DEF Register, SockOwned, ServerType
  <2>2. CASE DialOK(j)
    BY <1>0, <2>2 DEF DialOK, SockOwned, ServerType
  <2>3. CASE DialError(j)
    BY <1>0, <2>3 DEF DialError, SockOwned, ServerType
  <2>4. CASE Publish(j)
    BY <1>0, <2>4 DEF Publish, SockOwned, ServerType
  <2> QED
    BY <1>5, <2>1, <2>2, <2>3, <2>4
<1>6. ASSUME NEW j \in Ids, Reply(j) PROVE SockOwned(i)'
  <2>1. /\ opener[j] = "reply" /\ opener' = [opener EXCEPT ![j] = "over"]
        /\ UNCHANGED <<sreg, sock>> \/ Remove({j})
    BY <1>6 DEF Reply
  <2>2. CASE UNCHANGED <<sreg, sock>>
    BY <1>0, <2>1, <2>2 DEF SockOwned, ServerType
  <2>3. CASE Remove({j}) /\ i # j
    BY <1>0, <1>r, <2>1, <2>3 DEF ServerType
  <2>4. CASE Remove({j}) /\ i = j
    BY <1>0, <2>1, <2>4, RemoveSockets DEF SockOwned
  <2> QED
    BY <2>1, <2>2, <2>3, <2>4
<1>7. ASSUME Shutdown PROVE SockOwned(i)'
  <2>1. Remove(sreg) /\ opener' = opener
    BY <1>7 DEF Shutdown
  <2> QED
    BY <1>r, <2>1
<1>8. ASSUME NEW j \in Ids, HandleData(j) \/ WriteOut(j) PROVE UNCHANGED <<opener, sreg, sock>>
  BY <1>8 DEF HandleData, WriteOut
<1>9. Cancel \/ UNCHANGED serverVars => UNCHANGED <<opener, sreg, sock>>
  BY DEF Cancel, serverVars
<1> QED
  BY <1>1, <1>2, <1>3, <1>4, <1>5, <1>6, <1>7, <1>8, <1>9, ServerFrame DEF Handle, OpenStep

(* A mapping whose CLOSE was handled has no socket and gets none. *)
LEMMA CancelledClosed ==
  ASSUME TypeInv, IdInv, SocketsOwned, Next, NEW m \in Maps, m \in cancelled'
  PROVE  sock'[m] # "open"
<1>0. ServerType /\ m \in Ids
  BY TypeParts DEF TypeInv, Ids
<1>1. CASE m \in cancelled
  <2>1. sock[m] # "open" /\ opener[m] # "dialing"
    BY <1>1 DEF SocketsOwned, IdInv
  <2> QED
    BY <1>0, <2>1, SockStep
<1>2. CASE m \notin cancelled
  <2>1. HandleClose(m)
    BY <1>0, <1>2, CancelledStep
  <2>2. Remove({m}) /\ opener[m] # "dialed"
    BY <2>1 DEF HandleClose, Received, Reading
  <2> QED
    BY <1>0, <2>2, RemoveSockets
<1> QED
  BY <1>1, <1>2

(* No Windows socket of an association or a mapping is ever lost, however a  *)
(* CLOSE, a failed dial, a restart and a shutdown fall between registration  *)
(* and answer, and a mapping whose CLOSE the server has handled has none.    *)
THEOREM ServerSocketsOwned == Spec => []SocketsOwned
<1>1. Init => SocketsOwned
  BY DEF Init, SocketsOwned
<1>2. TypeInv /\ IdInv /\ SocketsOwned /\ [Next]_vars => SocketsOwned'
  <2> SUFFICES ASSUME TypeInv, IdInv, SocketsOwned, [Next]_vars PROVE SocketsOwned'
    OBVIOUS
  <2>1. CASE UNCHANGED vars
    BY <2>1 DEF SocketsOwned, vars, serverVars
  <2>2. CASE Next
    <3>1. \A i \in Ids : SockOwned(i)'
      BY <2>2, OwnedStep
    <3> QED
      BY <2>2, <3>1, CancelledClosed DEF SocketsOwned, SockOwned
  <2> QED
    BY <2>1, <2>2
<1> QED
  BY <1>1, <1>2, TypeInvHolds, IdInvHolds, PTL DEF Spec
=============================================================================
