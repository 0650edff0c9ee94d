------------------------ MODULE DownloadStreamProofs ------------------------
(* The download direction of a stream, and the send window that both         *)
(* directions take their credit from, for every window, every frame size,    *)
(* any number of bytes and every set of writers.                             *)
EXTENDS DownloadStream, FlowWindow, TLAPS

-----------------------------------------------------------------------------
(* The send window: add and take. *)

(* Every step of add and take keeps the window within its initial size. *)
LEMMA WindowTypeStep == WindowTypeOK /\ [WindowNext]_windowVars => WindowTypeOK'
<1> SUFFICES ASSUME WindowTypeOK, [WindowNext]_windowVars PROVE WindowTypeOK'
  OBVIOUS
<1> USE WindowAssumption, MaxDataAssumption DEF WindowTypeOK
<1>1. ASSUME NEW t \in Takers, NEW n \in 1..MaxData, Take(t, n) PROVE WindowTypeOK'
  BY <1>1 DEF Take
<1>2. ASSUME NEW t \in Takers, Check(t) PROVE WindowTypeOK'
  BY <1>2 DEF Check, TakeCount, Least
<1>3. ASSUME NEW t \in Takers,
             Notified(t) \/ DeadlineChanged(t) \/ Done(t) \/ Timeout(t)
      PROVE WindowTypeOK'
  BY <1>3 DEF Notified, DeadlineChanged, Done, Timeout
<1>4. ASSUME NEW n \in 1..Window, Add(n) PROVE WindowTypeOK'
  BY <1>4 DEF Add, CanAdd
<1>5. CASE Signal
  BY <1>5 DEF Signal
<1>6. CASE CloseDone
  BY <1>6 DEF CloseDone
<1>7. CASE UNCHANGED windowVars
  BY <1>7 DEF windowVars
<1> QED
  BY <1>1, <1>2, <1>3, <1>4, <1>5, <1>6, <1>7 DEF WindowNext

(* A new window is full and has no token. *)
LEMMA WindowTypeInit == WindowInit => WindowTypeOK
BY WindowAssumption, MaxDataAssumption DEF WindowInit, WindowTypeOK

(* available never leaves 0..Window and the channel never holds more than    *)
(* its one token, however take and add interleave.                           *)
THEOREM WindowTypeCorrect == WindowSpec => []WindowTypeOK
BY WindowTypeInit, WindowTypeStep, PTL DEF WindowSpec

(* Both wake-up properties are inductive given the types: credit appears      *)
(* only in Add, which leaves its signal pending; a token leaves only with a   *)
(* writer that goes to look at the window; and a writer goes to wait only     *)
(* beside an empty one.                                                      *)
WakeInv == WindowTypeOK /\ FullWindowWoken /\ LoneWaiterWoken

(* Every step of add and take keeps the wake-up invariant. *)
LEMMA WakeStep == WakeInv /\ [WindowNext]_windowVars => WakeInv'
<1> SUFFICES ASSUME WakeInv, [WindowNext]_windowVars PROVE FullWindowWoken' /\ LoneWaiterWoken'
  BY WindowTypeStep DEF WakeInv
<1> USE WindowAssumption, MaxDataAssumption DEF WakeInv, WindowTypeOK, FullWindowWoken, LoneWaiterWoken
<1>1. ASSUME NEW t \in Takers, NEW n \in 1..MaxData, Take(t, n)
      PROVE FullWindowWoken' /\ LoneWaiterWoken'
  BY <1>1 DEF Take
<1>2. ASSUME NEW t \in Takers, Check(t) PROVE FullWindowWoken' /\ LoneWaiterWoken'
  BY <1>2 DEF Check, TakeCount, Least
<1>3. ASSUME NEW t \in Takers, Notified(t) PROVE FullWindowWoken' /\ LoneWaiterWoken'
  BY <1>3 DEF Notified
<1>4. ASSUME NEW t \in Takers, DeadlineChanged(t) PROVE FullWindowWoken' /\ LoneWaiterWoken'
  BY <1>4 DEF DeadlineChanged
<1>5. ASSUME NEW t \in Takers, Done(t) \/ Timeout(t)
      PROVE FullWindowWoken' /\ LoneWaiterWoken'
  BY <1>5 DEF Done, Timeout
<1>6. ASSUME NEW n \in 1..Window, Add(n) PROVE FullWindowWoken' /\ LoneWaiterWoken'
  BY <1>6 DEF Add, CanAdd
<1>7. CASE Signal \/ CloseDone
  BY <1>7 DEF Signal, CloseDone
<1>8. CASE UNCHANGED windowVars
  BY <1>8 DEF windowVars
<1> QED
  BY <1>1, <1>2, <1>3, <1>4, <1>5, <1>6, <1>7, <1>8 DEF WindowNext

(* A new window has no waiting writer. *)
LEMMA WakeInit == WindowInit => WakeInv
BY WindowTypeInit DEF WindowInit, WakeInv, FullWindowWoken, LoneWaiterWoken

(* For every number of writers: none waits beside a full window, and a lone   *)
(* one beside any credit, unless a token, a pending signal or another         *)
(* writer's look at the window is there to set things going again.           *)
THEOREM WakeupNotLost == WindowSpec => []NoLostWakeup
<1>1. WakeInv => NoLostWakeup
  BY DEF WakeInv, NoLostWakeup
<1> QED
  BY WakeInit, WakeStep, <1>1, PTL DEF WindowSpec

-----------------------------------------------------------------------------
(* The download direction: the inductive invariant. *)

(* Where the bytes under way to the client start, and where those that Read  *)
(* has not copied yet end.                                                   *)
Start == IF s2c = <<>> THEN sent ELSE s2c[1].from
Received == IF incoming = <<>> THEN readBuf.to ELSE incoming[Len(incoming)].to
Before(i) == IF i = 1 THEN readBuf.to ELSE incoming[i - 1].to

(* No error is queued among the first i events. *)
Clean(i) == \A j \in 1..i : incoming[j].type = "data"

(* The frames under way are adjacent ranges up to what copyToClient sent. *)
Joined ==
    /\ \A i \in 1..Len(s2c) : s2c[i].type # "data" => s2c[i].from = s2c[i].to
    /\ \A i \in 1..Len(s2c) : s2c[i].to = IF i = Len(s2c) THEN sent ELSE s2c[i + 1].from

(* The server has given the stream up, or is about to. *)
GivenUp == server # "open" \/ loop = "resetting" \/ uploader = "resetting"

(* A client that has not failed has dropped nothing, sent no CLOSE or RESET  *)
(* and has no error queued; if the server gives the stream up, its RESET is  *)
(* still on its way.                                                         *)
Failures ==
    /\ client = "open" <=> clientErr = "none"
    /\ dropped => client # "open"
    /\ client = "open" => /\ \A i \in 1..Len(incoming) : incoming[i].type # "err"
                          /\ \A i \in 1..Len(c2s) : c2s[i].type \notin {"close", "reset"}
    /\ GivenUp /\ client = "open" => \E r \in 1..Len(s2c) : s2c[r].type = "reset"

(* What Read copies next, what is queued in front of an error, and what is   *)
(* under way are adjacent until a frame is dropped.                          *)
ReadJoined == ~dropped =>
    /\ readBuf.from = delivered
    /\ reader = "reading" => \A i \in 1..Len(incoming) : Clean(i) => incoming[i].from = Before(i)
    /\ reader = "reading" /\ client # "closed" /\ Clean(Len(incoming)) => Start = Received

(* HALF_CLOSE follows the last byte of the socket, unless the stream was     *)
(* given up before.                                                          *)
Ends ==
    /\ copier = "half" => lastChunk \/ server = "removed"
    /\ \A h \in 1..Len(s2c) : s2c[h].type = "half" =>
          /\ copier = "exit" /\ \A i \in h..Len(s2c) : s2c[i].from = sent
          /\ client = "open" => lastChunk \/ \E r \in 1..h - 1 : s2c[r].type = "reset"
    /\ readEOF /\ clientErr = "none" =>
          lastChunk /\ copier = "exit" /\ \A i \in 1..Len(s2c) : s2c[i].from = sent
    /\ reader = "eof" /\ clientErr = "none" => lastChunk /\ copier = "exit" /\ delivered = sent

(* The types in parts. *)
ChannelType == s2c \in Seq(Frames) /\ c2s \in Seq(Frames) /\ incoming \in Seq(Frames)
ServerType ==
    /\ copier \in {"read", "lookup", "take", "send", "half", "exit"}
    /\ chunk \in 0..MaxData /\ lastChunk \in BOOLEAN
    /\ avail \in 0..Window /\ sent \in Nat
    /\ server \in {"open", "removing", "removed"} /\ loop \in {"handle", "resetting"}
    /\ uploader \in {"run", "resetting", "exit"}
ClientType ==
    /\ client \in {"open", "failed", "closed"} /\ clientErr \in Errors
    /\ readEOF \in BOOLEAN /\ readBuf \in Frames
    /\ reader \in {"reading", "eof", "error"} /\ delivered \in Nat /\ dropped \in BOOLEAN

DownloadInv == TypeOK /\ Joined /\ Failures /\ ReadJoined /\ Ends

-----------------------------------------------------------------------------
(* Frames and channels. *)

(* The fields of a frame. *)
LEMMA FrameFields ==
  ASSUME NEW t \in FrameTypes, NEW a \in Nat, NEW b \in Nat
  PROVE  Frame(t, a, b) \in Frames /\ Frame(t, a, b).type = t /\ Frame(t, a, b).from = a /\ Frame(t, a, b).to = b
BY DEF Frame, Frames, FrameTypes

(* The elements of a channel are frames. *)
LEMMA Elements ==
  ASSUME NEW ch \in Seq(Frames)
  PROVE  /\ Len(ch) \in Nat /\ (ch # <<>> => Len(ch) >= 1)
         /\ \A i \in 1..Len(ch) : ch[i] \in Frames /\ ch[i].from \in Nat /\ ch[i].to \in Nat
<1>1. Len(ch) \in Nat /\ (ch # <<>> => Len(ch) >= 1) /\ \A i \in 1..Len(ch) : ch[i] \in Frames
  OBVIOUS
<1>2. \A f \in Frames : f.from \in Nat /\ f.to \in Nat
  BY DEF Frames
<1> QED
  BY <1>1, <1>2

(* What a frame at the end adds. *)
LEMMA AppendElements ==
  ASSUME NEW ch \in Seq(Frames), NEW f \in Frames
  PROVE  /\ Append(ch, f) \in Seq(Frames) /\ Len(Append(ch, f)) = Len(ch) + 1 /\ Append(ch, f) # <<>>
         /\ Append(ch, f)[Len(ch) + 1] = f
         /\ \A i \in 1..Len(ch) : Append(ch, f)[i] = ch[i]
OBVIOUS

(* What is left behind the first frame. *)
LEMMA TailElements ==
  ASSUME NEW ch \in Seq(Frames), ch # <<>>
  PROVE  /\ Tail(ch) \in Seq(Frames) /\ Head(ch) \in Frames /\ Head(ch) = ch[1]
         /\ Len(ch) \in Nat /\ Len(ch) >= 1 /\ Len(Tail(ch)) = Len(ch) - 1
         /\ \A i \in 1..Len(Tail(ch)) : i + 1 \in 1..Len(ch) /\ Tail(ch)[i] = ch[i + 1]
OBVIOUS

(* The empty channel. *)
LEMMA EmptyChannel == <<>> \in Seq(Frames) /\ Len(<<>>) = 0
OBVIOUS

(* The type invariant is the conjunction of its parts. *)
LEMMA TypeParts == TypeOK <=> ChannelType /\ ServerType /\ ClientType
BY DEF TypeOK, ChannelType, ServerType, ClientType

(* The same one step later. *)
LEMMA TypePartsNext == TypeOK' <=> ChannelType' /\ ServerType' /\ ClientType'
BY DEF TypeOK, ChannelType, ServerType, ClientType

(* A new stream has nothing under way. *)
LEMMA DownloadInit == Init => DownloadInv
<1> SUFFICES ASSUME Init PROVE DownloadInv
  OBVIOUS
<1>1. Frame("data", 0, 0) \in Frames /\ Frame("data", 0, 0).from = 0 /\ Frame("data", 0, 0).to = 0
  BY FrameFields DEF FrameTypes
<1>2. ChannelType /\ ServerType /\ ClientType
  <2>1. ChannelType
    BY EmptyChannel DEF Init, ChannelType
  <2>2. ServerType
    <3>1. copier = "read" /\ chunk = 0 /\ avail = Window /\ sent = 0 /\ server = "open" /\ loop = "handle"
          /\ uploader = "run"
      BY DEF Init
    <3>2. lastChunk \in BOOLEAN
      BY DEF Init
    <3> QED
      BY <3>1, <3>2, WindowAssumption, MaxDataAssumption DEF ServerType, Errors
  <2>3. ClientType
    BY <1>1 DEF Init, ClientType, Errors
  <2> QED
    BY <2>1, <2>2, <2>3
<1>3. Len(s2c) = 0 /\ Len(c2s) = 0 /\ Len(incoming) = 0
  BY EmptyChannel DEF Init
<1>4. Joined /\ Failures /\ Ends
  BY <1>3 DEF Init, Joined, Failures, GivenUp, Ends
<1>5. ReadJoined
  BY <1>1, <1>3 DEF Init, ReadJoined, Start, Received
<1> QED
  BY <1>2, <1>4, <1>5, TypeParts DEF DownloadInv

-----------------------------------------------------------------------------
(* Types. *)

(* The client's steps leave the server alone. *)
LEMMA ClientSteps == DispatchNext \/ Close \/ ReadNext => UNCHANGED serverVars
BY DEF DispatchNext, ReadNext, ClientData, ClientHalfClose, ClientReset, Close, ReadCopy, ReadEvent, ReadEnd, ReadDone

(* Every step keeps the types of what copyToClient and the server hold. *)
LEMMA ServerTypeStep ==
  ASSUME ServerType, ChannelType, Next
  PROVE  ServerType'
<1> USE WindowAssumption, MaxDataAssumption, SizesAssumption
<1>1. ASSUME NEW n \in Sizes \cup {0}, CopyRead(n) PROVE ServerType'
  <2>1. lastChunk' \in BOOLEAN
    BY <1>1 DEF CopyRead
  <2> QED
    BY <1>1, <2>1 DEF CopyRead, ServerType
<1>2. CASE CopyReadClosed \/ CopyLookup \/ CopyAbort \/ CopyHalfClose \/ CloseConn
  BY <1>2 DEF CopyReadClosed, CopyLookup, CopyAbort, CopyHalfClose, CloseConn, ServerType
<1>3. CASE CopyTake
  BY <1>3 DEF CopyTake, TakeCount, Least, ServerType
<1>4. CASE CopySend
  BY <1>4 DEF CopySend, ServerType
<1>5. CASE ServerUpdate
  <2>1. Head(c2s).from \in Nat /\ Head(c2s).to \in Nat
    BY <1>5, TailElements, Elements DEF ServerUpdate, ChannelType
  <2>2. avail' \in 0..Window
    BY <1>5, <2>1 DEF ServerUpdate, CanAdd, Bytes, ServerType
  <2> QED
    BY <1>5, <2>2 DEF ServerUpdate, ServerType
<1>6. CASE ServerClose \/ LoopRemove \/ UploaderNext
  BY <1>6 DEF ServerClose, LoopRemove, UploaderNext, UploadReset, UploadRemove, Remove, ServerType
<1>7. CASE UNCHANGED serverVars
  BY <1>7 DEF serverVars, ServerType
<1>8. DispatchNext \/ Close \/ ReadNext => UNCHANGED serverVars
  BY ClientSteps
<1> QED
  BY <1>1, <1>2, <1>3, <1>4, <1>5, <1>6, <1>7, <1>8 DEF Next, CopierNext, ServerReaderNext, UploaderNext

(* The server's steps leave the client alone. *)
LEMMA ServerSteps ==
  CopierNext \/ ServerReaderNext \/ UploaderNext \/ CloseConn => UNCHANGED clientVars
<1>1. CopierNext => UNCHANGED clientVars
  BY DEF CopierNext, CopyRead, CopyReadClosed, CopyLookup, CopyTake, CopyAbort, CopySend, CopyHalfClose
<1>2. ServerReaderNext \/ UploaderNext \/ CloseConn => UNCHANGED clientVars
  BY DEF ServerReaderNext, ServerUpdate, LoopRemove, ServerClose, UploaderNext, UploadReset, UploadRemove, CloseConn
<1> QED
  BY <1>1, <1>2

(* Every step keeps the types of what the client holds. *)
LEMMA ClientTypeStep ==
  ASSUME ClientType, ChannelType, Next
  PROVE  ClientType'
<1>1. CASE DispatchNext
  BY <1>1 DEF DispatchNext, ClientData, ClientHalfClose, ClientReset, Fail, ClientType, Errors
<1>2. CASE Close
  BY <1>2 DEF Close, Fail, ClientType, Errors
<1>3. ASSUME NEW n \in Sizes, ReadCopy(n) PROVE ClientType'
  <2>1. readBuf.from \in Nat /\ readBuf.to \in Nat
    BY DEF ClientType, Frames
  <2>2. Least(n, Bytes(readBuf)) \in Nat
    BY <1>3, <2>1, MaxDataAssumption, WindowAssumption, SizesAssumption DEF ReadCopy, Least, Bytes
  <2>3. PICK k \in Nat : /\ readBuf' = [readBuf EXCEPT !.from = readBuf.from + k]
                         /\ delivered' = delivered + k
                         /\ UNCHANGED <<client, clientErr, readEOF, reader, dropped>>
    BY <1>3, <2>2 DEF ReadCopy
  <2>4. readBuf' \in Frames
    BY <2>1, <2>3 DEF ClientType, Frames
  <2> QED
    BY <2>3, <2>4 DEF ClientType
<1>4. CASE ReadEvent
  <2>1. Head(incoming) \in Frames
    BY <1>4, TailElements DEF ReadEvent, ChannelType
  <2> QED
    BY <1>4, <2>1 DEF ReadEvent, ClientType
<1>5. CASE ReadEnd \/ ReadDone
  BY <1>5 DEF ReadEnd, ReadDone, ClientType
<1>6. CASE UNCHANGED clientVars
  BY <1>6 DEF clientVars, ClientType
<1>7. CopierNext \/ ServerReaderNext \/ UploaderNext \/ CloseConn => UNCHANGED clientVars
  BY ServerSteps
<1> QED
  BY <1>1, <1>2, <1>3, <1>4, <1>5, <1>6, <1>7 DEF Next, ReadNext

(* What a step does to the frames under way to the client: it leaves them    *)
(* alone, adds one that starts at what was sent, or takes off the first.     *)
S2CKeeps == UNCHANGED <<s2c, sent>>
S2CAdds(f) ==
    /\ s2c' = Append(s2c, f) /\ f.from = sent /\ sent' = f.to
    /\ \/ copier = "send" /\ f.type = "data" /\ copier' \in {"half", "read"} /\ server' = server
       \/ copier = "half" /\ f.type = "half" /\ f.to = f.from /\ copier' = "exit" /\ server' = server
       \/ /\ f.type = "reset" /\ f.to = f.from /\ UNCHANGED <<copier, server>>
          /\ ~UNCHANGED <<loop, uploader>>
S2CDrops == s2c # <<>> /\ s2c' = Tail(s2c) /\ UNCHANGED serverVars

(* No step does anything else. *)
LEMMA S2CStep ==
  ASSUME ServerType, Next
  PROVE  S2CKeeps \/ S2CDrops \/ \E f \in Frames : S2CAdds(f) /\ UNCHANGED clientVars
<1>1. CASE CopySend
  <2>1. PICK f \in Frames : f = Frame("data", sent, sent + chunk) /\ f.type = "data" /\ f.from = sent /\ f.to = sent + chunk
    BY FrameFields, MaxDataAssumption, WindowAssumption, SizesAssumption DEF FrameTypes, ServerType
  <2> QED
    BY <1>1, <2>1 DEF CopySend, S2CAdds
<1>2. ASSUME NEW ty \in {"half", "reset"}
      PROVE  \E f \in Frames : f = Frame(ty, sent, sent) /\ f.type = ty /\ f.from = sent /\ f.to = sent
  BY FrameFields DEF FrameTypes, ServerType
<1>3. CASE CopyHalfClose
  <2>1. PICK f \in Frames : f = Frame("half", sent, sent) /\ f.type = "half" /\ f.from = sent /\ f.to = sent
    BY <1>2
  <2> QED
    BY <1>3, <2>1 DEF CopyHalfClose, S2CAdds
<1>4. CASE UploadReset \/ ServerUpdate
  <2>1. PICK f \in Frames : f = Frame("reset", sent, sent) /\ f.type = "reset" /\ f.from = sent /\ f.to = sent
    BY <1>2
  <2> QED
    BY <1>4, <2>1 DEF UploadReset, ServerUpdate, clientVars, S2CAdds, S2CKeeps
<1>5. CASE DispatchNext
  BY <1>5 DEF DispatchNext, ClientData, ClientHalfClose, ClientReset, S2CDrops
<1>6. CASE Close \/ ReadNext \/ ServerClose \/ LoopRemove \/ UploadRemove \/ CloseConn
  BY <1>6 DEF Close, ReadNext, ReadCopy, ReadEvent, ReadEnd, ReadDone, ServerClose, LoopRemove, UploadRemove, CloseConn, Fail, serverVars, clientVars,
              S2CKeeps
<1>7. ASSUME (\E n \in Sizes \cup {0} : CopyRead(n)) \/ CopyReadClosed \/ CopyLookup \/ CopyTake \/ CopyAbort PROVE S2CKeeps
  BY <1>7 DEF CopyRead, CopyReadClosed, CopyLookup, CopyTake, CopyAbort, clientVars, S2CKeeps
<1> QED
  BY <1>1, <1>3, <1>4, <1>5, <1>6, <1>7 DEF Next, CopierNext, ServerReaderNext, UploaderNext

(* Every step keeps the channels. *)
LEMMA ChannelTypeStep ==
  ASSUME TypeOK, Next
  PROVE  ChannelType'
<1>0. ChannelType /\ ServerType /\ ClientType
  BY TypeParts
<1>1. s2c' \in Seq(Frames)
  <2>1. ASSUME NEW f \in Frames, S2CAdds(f) PROVE s2c' \in Seq(Frames)
    BY <1>0, <2>1, AppendElements DEF ChannelType, S2CAdds
  <2>2. CASE S2CKeeps \/ S2CDrops
    BY <1>0, <2>2, TailElements DEF ChannelType, S2CKeeps, S2CDrops
  <2> QED
    BY <1>0, <2>1, <2>2, S2CStep
<1>2. c2s' \in Seq(Frames)
  <2>1. Frame("reset", 0, 0) \in Frames /\ Frame("close", 0, 0) \in Frames
    BY FrameFields DEF FrameTypes
  <2>2. ASSUME NEW n \in Sizes, ReadCopy(n) PROVE c2s' \in Seq(Frames)
    <3>1. readBuf.from \in Nat /\ readBuf.to \in Nat
      BY <1>0 DEF ClientType, Frames
    <3>2. Least(n, Bytes(readBuf)) \in Nat
      BY <2>2, <3>1, MaxDataAssumption, WindowAssumption, SizesAssumption DEF ReadCopy, Least, Bytes
    <3>3. Frame("update", readBuf.from, readBuf.from + Least(n, Bytes(readBuf))) \in Frames
      BY <3>1, <3>2, FrameFields DEF FrameTypes
    <3> QED
      BY <1>0, <2>2, <3>3, AppendElements DEF ReadCopy, ChannelType
  <2>3. CASE ClientData \/ Close
    BY <1>0, <2>1, <2>3, AppendElements DEF ClientData, Close, ChannelType
  <2>4. CASE ServerReaderNext
    BY <1>0, <2>4, TailElements DEF ServerReaderNext, ServerUpdate, LoopRemove, Remove, ServerClose, ChannelType
  <2>5. CopierNext \/ UploaderNext \/ CloseConn \/ ClientHalfClose \/ ClientReset \/ ReadEvent \/ ReadEnd \/ ReadDone
        => c2s' = c2s
    BY DEF CopierNext, UploaderNext, UploadReset, UploadRemove, CloseConn, CopyRead, CopyReadClosed, CopyLookup, CopyTake, CopyAbort,
           CopySend, CopyHalfClose, ClientHalfClose, ClientReset, ReadEvent, ReadEnd, ReadDone
  <2> QED
    BY <1>0, <2>2, <2>3, <2>4, <2>5 DEF Next, DispatchNext, ReadNext, ChannelType
<1>3. incoming' \in Seq(Frames)
  <2>1. Frame("err", 0, 0) \in Frames
    BY FrameFields DEF FrameTypes
  <2>2. CASE ClientData
    BY <1>0, <2>1, <2>2, AppendElements, TailElements DEF ClientData, Fail, ChannelType
  <2>3. CASE ClientReset \/ Close
    BY <1>0, <2>1, <2>3, AppendElements DEF ClientReset, Close, Fail, ChannelType
  <2>4. CASE ReadEvent
    BY <1>0, <2>4, TailElements DEF ReadEvent, ChannelType
  <2>5. CopierNext \/ ServerReaderNext \/ UploaderNext \/ CloseConn \/ ClientHalfClose \/ ReadEnd \/ ReadDone
        \/ (\E n \in Sizes : ReadCopy(n))
        => incoming' = incoming
    BY ServerSteps DEF ClientHalfClose, ReadCopy, ReadEnd, ReadDone, clientVars
  <2> QED
    BY <1>0, <2>2, <2>3, <2>4, <2>5 DEF Next, DispatchNext, ReadNext, ChannelType
<1> QED
  BY <1>1, <1>2, <1>3 DEF ChannelType

(* Every step keeps the types. *)
LEMMA TypeStep ==
  ASSUME TypeOK, Next
  PROVE  TypeOK'
BY TypeParts, TypePartsNext, ChannelTypeStep, ServerTypeStep, ClientTypeStep

-----------------------------------------------------------------------------
(* The frames under way. *)

(* What a channel that loses its first frame or gets one more says about     *)
(* where its bytes start.                                                    *)
LEMMA JoinedStep ==
  ASSUME TypeOK, Joined, Next
  PROVE  /\ Joined'
         /\ S2CKeeps \/ (\E f \in Frames : S2CAdds(f)) => Start' = Start
         /\ S2CDrops => Start' = s2c[1].to /\ s2c[1].from = Start
<1>0. s2c \in Seq(Frames) /\ s2c' \in Seq(Frames) /\ ServerType
  BY TypeStep, TypeParts DEF TypeOK
<1>e. /\ Len(s2c) \in Nat /\ (s2c # <<>> => Len(s2c) >= 1) /\ (s2c = <<>> => Len(s2c) = 0)
      /\ (s2c' # <<>> => Len(s2c') >= 1) /\ (s2c' = <<>> => Len(s2c') = 0)
  BY <1>0, Elements, EmptyChannel
<1>1. CASE S2CKeeps
  <2>1. Joined' /\ Start' = Start
    BY <1>1 DEF S2CKeeps, Joined, Start
  <2>2. S2CDrops => Start' = s2c[1].to /\ s2c[1].from = Start
    <3>1. ASSUME S2CDrops PROVE FALSE
      BY <1>0, <1>1, <1>e, <3>1, TailElements DEF S2CKeeps, S2CDrops
    <3> QED
      BY <3>1
  <2> QED
    BY <2>1, <2>2
<1>2. ASSUME NEW f \in Frames, S2CAdds(f) PROVE Joined' /\ Start' = Start /\ ~S2CDrops
  <2>1. /\ s2c' = Append(s2c, f) /\ f.from = sent /\ sent' = f.to
        /\ f.type # "data" => f.from = f.to
    BY <1>2 DEF S2CAdds
  <2>2. /\ Len(s2c') = Len(s2c) + 1 /\ s2c' # <<>> /\ s2c'[Len(s2c) + 1] = f
        /\ \A i \in 1..Len(s2c) : s2c'[i] = s2c[i]
    BY <1>0, <2>1, AppendElements
  <2>3. ~S2CDrops
    BY <1>0, <1>e, <2>2, TailElements DEF S2CDrops
  <2>4. Start' = Start
    BY <1>e, <2>1, <2>2 DEF Start
  <2>5. ASSUME NEW i \in 1..Len(s2c')
        PROVE  /\ s2c'[i].type # "data" => s2c'[i].from = s2c'[i].to
               /\ s2c'[i].to = IF i = Len(s2c') THEN sent' ELSE s2c'[i + 1].from
    <3>1. CASE i = Len(s2c) + 1
      BY <2>1, <2>2, <3>1
    <3>2. CASE i = Len(s2c) /\ i \in 1..Len(s2c)
      BY <1>e, <2>1, <2>2, <3>2 DEF Joined
    <3>3. CASE i # Len(s2c) /\ i \in 1..Len(s2c)
      <4>1. i + 1 \in 1..Len(s2c)
        BY <1>e, <3>3
      <4> QED
        BY <1>e, <2>2, <3>3, <4>1 DEF Joined
    <3> QED
      BY <1>e, <2>2, <3>1, <3>2, <3>3
  <2> QED
    BY <2>3, <2>4, <2>5 DEF Joined
<1>3. CASE S2CDrops
  <2>1. /\ Len(s2c) >= 1 /\ Len(s2c') = Len(s2c) - 1 /\ sent' = sent /\ s2c # <<>>
        /\ \A i \in 1..Len(s2c') : i + 1 \in 1..Len(s2c) /\ s2c'[i] = s2c[i + 1]
    BY <1>0, <1>3, TailElements DEF S2CDrops, serverVars
  <2>2. Start' = s2c[1].to
    <3>1. CASE s2c' = <<>>
      <4>1. Len(s2c) = 1
        BY <1>e, <2>1, <3>1
      <4> QED
        BY <2>1, <3>1, <4>1 DEF Joined, Start
    <3>2. CASE s2c' # <<>>
      <4>1. Len(s2c) # 1 /\ s2c'[1] = s2c[1 + 1] /\ 1 \in 1..Len(s2c)
        BY <1>e, <2>1, <3>2
      <4> QED
        BY <2>1, <3>2, <4>1 DEF Joined, Start
    <3> QED
      BY <3>1, <3>2
  <2>3. ASSUME NEW i \in 1..Len(s2c')
        PROVE  /\ s2c'[i].type # "data" => s2c'[i].from = s2c'[i].to
               /\ s2c'[i].to = IF i = Len(s2c') THEN sent' ELSE s2c'[i + 1].from
    <3>1. CASE i = Len(s2c')
      <4>1. i + 1 = Len(s2c) /\ i + 1 \in 1..Len(s2c)
        BY <1>e, <2>1, <3>1
      <4> QED
        BY <2>1, <3>1, <4>1 DEF Joined
    <3>2. CASE i # Len(s2c')
      <4>1. i + 1 \in 1..Len(s2c') /\ i + 1 # Len(s2c)
        BY <1>e, <2>1, <3>2
      <4> QED
        BY <2>1, <3>2, <4>1 DEF Joined
    <3> QED
      BY <3>1, <3>2
  <2>4. Joined'
    BY <2>3 DEF Joined
  <2>5. ~S2CKeeps /\ ~\E f \in Frames : S2CAdds(f)
    <3>1. ASSUME NEW f \in Frames, S2CAdds(f) PROVE FALSE
      BY <1>2, <1>3, <3>1
    <3> QED
      BY <1>e, <2>1, <3>1 DEF S2CKeeps
  <2> QED
    BY <2>1, <2>2, <2>4, <2>5 DEF Start
<1> QED
  BY <1>0, <1>1, <1>2, <1>3, S2CStep

(* Only the dispatch loop takes frames off. *)
LEMMA DropsDispatch ==
  ASSUME TypeOK, Next, S2CDrops
  PROVE  DispatchNext /\ Head(s2c) = s2c[1] /\ Len(s2c') = Len(s2c) - 1 /\ Len(s2c) >= 1 /\ Len(s2c) \in Nat
         /\ \A i \in 1..Len(s2c') : i + 1 \in 1..Len(s2c) /\ s2c'[i] = s2c[i + 1]
<1>0. s2c \in Seq(Frames)
  BY DEF TypeOK
<1>1. /\ Head(s2c) = s2c[1] /\ Len(s2c') = Len(s2c) - 1 /\ Len(s2c) >= 1 /\ Len(s2c) \in Nat
      /\ \A i \in 1..Len(s2c') : i + 1 \in 1..Len(s2c) /\ s2c'[i] = s2c[i + 1]
  BY <1>0, TailElements DEF S2CDrops
<1>2. ASSUME NEW f \in Frames, s2c' = Append(s2c, f) PROVE FALSE
  BY <1>0, <1>1, <1>2, AppendElements
<1>3. s2c' # s2c
  BY <1>1
<1>4. DispatchNext
  <2>1. CASE CopySend \/ CopyHalfClose \/ UploadReset \/ ServerUpdate
    <3>1. CASE S2CKeeps
      BY <1>3, <3>1 DEF S2CKeeps
    <3>2. CASE UNCHANGED <<copier, server, loop, uploader, sent>>
      BY <1>3, <2>1, <3>2 DEF CopySend, CopyHalfClose, UploadReset, ServerUpdate
    <3>3. UNCHANGED <<copier, server, loop, uploader, sent>>
      BY DEF S2CDrops, serverVars
    <3> QED
      BY <3>2, <3>3
  <2>2. CASE Close \/ ReadNext \/ ServerClose \/ LoopRemove \/ UploadRemove \/ CloseConn
    BY <1>3, <2>2 DEF Close, ReadNext, ReadCopy, ReadEvent, ReadEnd, ReadDone, ServerClose, LoopRemove, UploadRemove, CloseConn
  <2>3. CASE (\E n \in Sizes \cup {0} : CopyRead(n)) \/ CopyReadClosed \/ CopyLookup \/ CopyTake \/ CopyAbort
    BY <1>3, <2>3 DEF CopyRead, CopyReadClosed, CopyLookup, CopyTake, CopyAbort
  <2> QED
    BY <2>1, <2>2, <2>3 DEF Next, CopierNext, ServerReaderNext, UploaderNext
<1> QED
  BY <1>1, <1>4

-----------------------------------------------------------------------------
(* Failures. *)

(* A client that fails or closes never opens again, and leaves the rest of   *)
(* what it has queued as it is.                                              *)
LEMMA ClientMoves ==
  ASSUME ClientType, Next
  PROVE  /\ client' = "open" => client = "open" /\ ~ClientReset /\ ~Close
         /\ clientErr # "none" => clientErr' = clientErr
         /\ (client = "open" <=> clientErr = "none") => (client' = "open" <=> clientErr' = "none")
         /\ dropped => dropped'
         /\ dropped' => dropped \/ client' # "open"
<1>1. CASE ClientData
  BY <1>1 DEF ClientData, ClientReset, Close, Fail, serverVars, ClientType, Errors
<1>2. CASE ClientHalfClose
  BY <1>2 DEF ClientHalfClose, ClientReset, Close
<1>3. CASE ClientReset \/ Close
  BY <1>3 DEF ClientReset, Close, Fail, ClientType, Errors
<1>4. CASE ReadNext
  BY <1>4 DEF ReadNext, ReadCopy, ReadEvent, ReadEnd, ReadDone, ClientReset, Close
<1>5. CASE UNCHANGED clientVars
  BY <1>5 DEF clientVars, ClientReset, Close
<1>6. CopierNext \/ ServerReaderNext \/ UploaderNext \/ CloseConn => UNCHANGED clientVars
  BY ServerSteps
<1> QED
  BY <1>1, <1>2, <1>3, <1>4, <1>5, <1>6 DEF Next, DispatchNext

(* An open client queues data only. *)
LEMMA OpenIncoming ==
  ASSUME TypeOK, Failures, Next, client' = "open"
  PROVE  \A i \in 1..Len(incoming') : incoming'[i].type # "err"
<1>0. incoming \in Seq(Frames) /\ s2c \in Seq(Frames) /\ ClientType
  BY TypeParts DEF TypeOK
<1>1. client = "open" /\ ~ClientReset /\ ~Close /\ \A i \in 1..Len(incoming) : incoming[i].type # "err"
  BY <1>0, ClientMoves DEF Failures
<1>2. CASE incoming' = incoming
  BY <1>1, <1>2
<1>3. CASE ClientData
  <2>1. incoming' = incoming \/ incoming' = Append(incoming, Head(s2c))
    BY <1>3 DEF ClientData
  <2>2. Head(s2c) \in Frames /\ Head(s2c).type = "data"
    BY <1>0, <1>3, TailElements DEF ClientData
  <2>3. ASSUME incoming' = Append(incoming, Head(s2c)) PROVE \A i \in 1..Len(incoming') : incoming'[i].type # "err"
    <3>1. /\ Len(incoming') = Len(incoming) + 1 /\ incoming'[Len(incoming) + 1] = Head(s2c)
          /\ \A i \in 1..Len(incoming) : incoming'[i] = incoming[i]
      BY <1>0, <2>2, <2>3, AppendElements
    <3>2. \A i \in 1..Len(incoming') : i \in 1..Len(incoming) \/ i = Len(incoming) + 1
      BY <1>0, <3>1, Elements
    <3> QED
      BY <1>1, <2>2, <3>1, <3>2
  <2> QED
    BY <1>2, <2>1, <2>3
<1>4. CASE ReadEvent
  <2>1. \A i \in 1..Len(incoming') : i + 1 \in 1..Len(incoming) /\ incoming'[i] = incoming[i + 1]
    BY <1>0, <1>4, TailElements DEF ReadEvent
  <2> QED
    BY <1>1, <2>1
<1>5. ReadNext => ReadEvent \/ incoming' = incoming
  BY DEF ReadNext, ReadCopy, ReadEnd, ReadDone
<1>6. CopierNext \/ ServerReaderNext \/ UploaderNext \/ CloseConn \/ ClientHalfClose => incoming' = incoming
  BY ServerSteps DEF ClientHalfClose, clientVars
<1> QED
  BY <1>1, <1>2, <1>3, <1>4, <1>5, <1>6 DEF Next, DispatchNext

(* An open client has sent no CLOSE and no RESET. *)
LEMMA OpenC2S ==
  ASSUME TypeOK, Failures, Next, client' = "open"
  PROVE  \A i \in 1..Len(c2s') : c2s'[i].type \notin {"close", "reset"}
<1>0. c2s \in Seq(Frames) /\ Len(c2s) \in Nat /\ ClientType
  BY TypeParts, Elements DEF TypeOK
<1>1. client = "open" /\ ~ClientReset /\ ~Close /\ \A i \in 1..Len(c2s) : c2s[i].type \notin {"close", "reset"}
  BY <1>0, ClientMoves DEF Failures
<1>2. CASE c2s' = c2s
  BY <1>1, <1>2
<1>3. ASSUME NEW n \in Sizes, ReadCopy(n) PROVE \A i \in 1..Len(c2s') : c2s'[i].type \notin {"close", "reset"}
  <2>1. readBuf.from \in Nat /\ readBuf.to \in Nat
    BY <1>0 DEF ClientType, Frames
  <2>2. Least(n, Bytes(readBuf)) \in Nat
    BY <1>3, <2>1, MaxDataAssumption, WindowAssumption, SizesAssumption DEF ReadCopy, Least, Bytes
  <2>3. PICK f \in Frames : f.type = "update" /\ c2s' = Append(c2s, f)
    BY <1>3, <2>1, <2>2, FrameFields DEF ReadCopy, FrameTypes
  <2>4. /\ Len(c2s') = Len(c2s) + 1 /\ c2s'[Len(c2s) + 1] = f
        /\ \A i \in 1..Len(c2s) : c2s'[i] = c2s[i]
    BY <1>0, <2>3, AppendElements
  <2>5. \A i \in 1..Len(c2s') : i \in 1..Len(c2s) \/ i = Len(c2s) + 1
    BY <1>0, <2>4
  <2> QED
    BY <1>1, <2>3, <2>4, <2>5
<1>4. CASE ServerUpdate \/ ServerClose
  <2>1. \A i \in 1..Len(c2s') : i + 1 \in 1..Len(c2s) /\ c2s'[i] = c2s[i + 1]
    BY <1>0, <1>4, TailElements DEF ServerUpdate, ServerClose
  <2> QED
    BY <1>1, <2>1
<1>5. ClientData => c2s' = c2s
  BY <1>1 DEF ClientData
<1>6. LoopRemove \/ CopierNext \/ UploaderNext \/ CloseConn \/ ClientHalfClose \/ ReadEvent \/ ReadEnd \/ ReadDone => c2s' = c2s
  BY DEF LoopRemove, CopierNext, UploaderNext, UploadReset, UploadRemove, CloseConn, CopyRead, CopyReadClosed, CopyLookup, CopyTake, CopyAbort,
         CopySend, CopyHalfClose, ClientHalfClose, ReadEvent, ReadEnd, ReadDone
<1> QED
  BY <1>1, <1>2, <1>3, <1>4, <1>5, <1>6 DEF Next, DispatchNext, ReadNext, ServerReaderNext

(* If the server gave the stream up, an open client has its RESET before it. *)
LEMMA ResetUnderWay ==
  ASSUME TypeOK, Failures, Next, client' = "open", GivenUp'
  PROVE  \E r \in 1..Len(s2c') : s2c'[r].type = "reset"
<1>0. s2c \in Seq(Frames) /\ Len(s2c) \in Nat /\ ServerType /\ ClientType /\ c2s \in Seq(Frames)
  BY TypeParts, Elements DEF TypeOK
<1>1. client = "open" /\ ~ClientReset /\ ~Close
  BY <1>0, ClientMoves
<1>2. ASSUME NEW f \in Frames, S2CAdds(f) PROVE \E r \in 1..Len(s2c') : s2c'[r].type = "reset"
  <2>1. /\ Len(s2c') = Len(s2c) + 1 /\ s2c'[Len(s2c) + 1] = f
        /\ \A i \in 1..Len(s2c) : s2c'[i] = s2c[i]
    BY <1>0, <1>2, AppendElements DEF S2CAdds
  <2>2. CASE f.type = "reset"
    BY <1>0, <2>1, <2>2
  <2>3. CASE f.type # "reset"
    <3>1. GivenUp
      <4>1. f.type \in {"data", "half"} /\ copier' # copier
        BY <1>2, <2>3 DEF S2CAdds
      <4>2. UNCHANGED <<server, loop, uploader>>
        <5>1. CASE CopierNext
          BY <5>1 DEF CopierNext, CopyRead, CopyReadClosed, CopyLookup, CopyTake, CopyAbort, CopySend, CopyHalfClose
        <5>2. ServerReaderNext \/ UploaderNext \/ CloseConn => copier' = copier
          BY DEF ServerReaderNext, ServerUpdate, LoopRemove, ServerClose, UploaderNext, UploadReset, UploadRemove, CloseConn
        <5>3. DispatchNext \/ Close \/ ReadNext => copier' = copier
          BY ClientSteps DEF serverVars
        <5> QED
          BY <4>1, <5>1, <5>2, <5>3 DEF Next
      <4> QED
        BY <4>2 DEF GivenUp
    <3>2. PICK r \in 1..Len(s2c) : s2c[r].type = "reset"
      BY <1>1, <3>1 DEF Failures
    <3> QED
      BY <1>0, <2>1, <3>2
  <2> QED
    BY <2>2, <2>3
<1>3. CASE S2CDrops
  <2>1. /\ DispatchNext /\ Head(s2c) = s2c[1] /\ Len(s2c') = Len(s2c) - 1 /\ Len(s2c) >= 1
        /\ \A i \in 1..Len(s2c') : i + 1 \in 1..Len(s2c) /\ s2c'[i] = s2c[i + 1]
    BY <1>3, DropsDispatch
  <2>2. GivenUp /\ s2c[1].type # "reset"
    BY <1>1, <1>3, <2>1 DEF S2CDrops, serverVars, GivenUp, DispatchNext, ClientData, ClientHalfClose
  <2>3. PICK r \in 1..Len(s2c) : s2c[r].type = "reset"
    BY <1>1, <2>2 DEF Failures
  <2>4. PICK q \in Nat : q = r - 1
    BY <1>0
  <2>5. q \in 1..Len(s2c') /\ s2c'[q] = s2c[r]
    BY <1>0, <2>1, <2>2, <2>3, <2>4
  <2> QED
    BY <2>3, <2>5
<1>4. CASE S2CKeeps
  <2>1. GivenUp
    <3>1. UploadReset => FALSE
      BY <1>0, <1>4, AppendElements, FrameFields DEF UploadReset, S2CKeeps, FrameTypes, ServerType
    <3>2. ServerUpdate => UNCHANGED <<server, loop, uploader>>
      BY <1>0, <1>4, AppendElements, FrameFields DEF ServerUpdate, S2CKeeps, FrameTypes, ServerType
    <3>3. ServerClose => FALSE
      <4>1. c2s # <<>> => Head(c2s) = c2s[1] /\ 1 \in 1..Len(c2s)
        BY <1>0, TailElements
      <4> QED
        BY <1>1, <4>1 DEF ServerClose, Failures
    <3>4. LoopRemove \/ UploadRemove => GivenUp
      BY DEF LoopRemove, UploadRemove, GivenUp
    <3>5. CopierNext => UNCHANGED <<server, loop, uploader>>
      BY DEF CopierNext, CopyRead, CopyReadClosed, CopyLookup, CopyTake, CopyAbort, CopySend, CopyHalfClose
    <3>6. CloseConn => GivenUp
      BY DEF CloseConn, GivenUp
    <3>7. DispatchNext \/ ReadNext => UNCHANGED <<server, loop, uploader>>
      BY ClientSteps DEF serverVars
    <3>8. UNCHANGED <<server, loop, uploader>> => GivenUp
      BY DEF GivenUp
    <3> QED
      BY <1>1, <3>1, <3>2, <3>3, <3>4, <3>5, <3>6, <3>7, <3>8 DEF Next, ServerReaderNext, UploaderNext
  <2> QED
    BY <1>1, <1>4, <2>1 DEF S2CKeeps, Failures
<1> QED
  BY <1>0, <1>2, <1>3, <1>4, S2CStep

(* Every step keeps what is known of failures. *)
LEMMA FailuresStep ==
  ASSUME TypeOK, Failures, Next
  PROVE  Failures'
<1>1. ClientType
  BY TypeParts
<1> QED
  BY <1>1, ClientMoves, OpenIncoming, OpenC2S, ResetUnderWay DEF Failures

-----------------------------------------------------------------------------
(* What Read returns. *)

(* The queued events in front of an error are adjacent. *)
QueueJoined == \A i \in 1..Len(incoming) : Clean(i) => incoming[i].from = Before(i)

(* An event at the end of the queue. *)
LEMMA QueueAppend ==
  ASSUME TypeOK, NEW f \in Frames, incoming' = Append(incoming, f), readBuf' = readBuf, QueueJoined,
         f.type = "data" /\ Clean(Len(incoming)) => f.from = Received
  PROVE  /\ QueueJoined' /\ Received' = f.to
         /\ Clean(Len(incoming))' => f.type = "data" /\ Clean(Len(incoming))
<1>0. incoming \in Seq(Frames) /\ Len(incoming) \in Nat /\ (incoming = <<>> <=> Len(incoming) = 0)
  BY Elements, EmptyChannel DEF TypeOK
<1>1. /\ Len(incoming') = Len(incoming) + 1 /\ incoming' # <<>> /\ incoming'[Len(incoming) + 1] = f
      /\ \A i \in 1..Len(incoming) : incoming'[i] = incoming[i]
  BY <1>0, AppendElements
<1>2. Received' = f.to
  BY <1>1 DEF Received
<1>3. ASSUME NEW i \in 1..Len(incoming) PROVE (Clean(i)' <=> Clean(i)) /\ Before(i)' = Before(i)
  <2>1. \A j \in 1..i : j \in 1..Len(incoming)
    BY <1>0
  <2>2. i # 1 => i - 1 \in 1..Len(incoming)
    BY <1>0
  <2> QED
    BY <1>1, <2>1, <2>2 DEF Clean, Before
<1>4. ASSUME NEW k \in Nat, k = Len(incoming) + 1, Clean(k)' PROVE f.type = "data" /\ Clean(Len(incoming))
  <2>1. k \in 1..k /\ \A j \in 1..Len(incoming) : j \in 1..k
    BY <1>0, <1>4
  <2> QED
    BY <1>1, <1>4, <2>1 DEF Clean
<1>5. ASSUME NEW k \in Nat, k = Len(incoming) + 1 PROVE Before(k)' = Received
  <2>1. CASE Len(incoming) = 0
    BY <1>0, <1>5, <2>1 DEF Before, Received
  <2>2. CASE Len(incoming) # 0
    <3>1. k # 1 /\ k - 1 = Len(incoming) /\ Len(incoming) \in 1..Len(incoming)
      BY <1>0, <1>5, <2>2
    <3> QED
      BY <1>0, <1>1, <2>2, <3>1 DEF Before, Received
  <2> QED
    BY <2>1, <2>2
<1>6. ASSUME NEW i \in 1..Len(incoming'), Clean(i)' PROVE incoming'[i].from = Before(i)'
  <2>1. CASE i \in 1..Len(incoming)
    BY <1>1, <1>3, <1>6, <2>1 DEF QueueJoined
  <2>2. CASE i = Len(incoming) + 1
    BY <1>0, <1>1, <1>4, <1>5, <1>6, <2>2
  <2> QED
    BY <1>0, <1>1, <2>1, <2>2
<1>7. QueueJoined'
  BY <1>6 DEF QueueJoined
<1>8. Clean(Len(incoming))' => f.type = "data" /\ Clean(Len(incoming))
  <2>1. PICK k \in Nat : k = Len(incoming) + 1
    BY <1>0
  <2>2. Clean(Len(incoming))' => Clean(k)'
    BY <1>1, <2>1 DEF Clean
  <2> QED
    BY <1>4, <2>1, <2>2
<1> QED
  BY <1>2, <1>7, <1>8

(* Read takes the first event. *)
LEMMA QueueTail ==
  ASSUME TypeOK, incoming # <<>>, incoming' = Tail(incoming), Head(incoming).type = "data", readBuf' = Head(incoming),
         QueueJoined
  PROVE  /\ QueueJoined' /\ Received' = Received /\ Head(incoming).from = readBuf.to
         /\ Clean(Len(incoming))' => Clean(Len(incoming))
<1>0. incoming \in Seq(Frames) /\ incoming' \in Seq(Frames) /\ Len(incoming) \in Nat
  BY Elements, TailElements DEF TypeOK
<1>1. /\ Head(incoming) = incoming[1] /\ Len(incoming') = Len(incoming) - 1 /\ Len(incoming) >= 1
      /\ \A i \in 1..Len(incoming') : i + 1 \in 1..Len(incoming) /\ incoming'[i] = incoming[i + 1]
  BY <1>0, TailElements
<1>2. Clean(1) /\ 1 \in 1..Len(incoming)
  BY <1>0, <1>1 DEF Clean
<1>3. Head(incoming).from = readBuf.to
  BY <1>1, <1>2 DEF QueueJoined, Before
<1>4. incoming' = <<>> <=> Len(incoming) = 1
  BY <1>0, <1>1, Elements, EmptyChannel
<1>5. Received' = Received
  <2>1. CASE Len(incoming) = 1
    BY <1>1, <1>4, <2>1 DEF Received
  <2>2. CASE Len(incoming) # 1
    <3>1. Len(incoming') \in 1..Len(incoming') /\ Len(incoming') + 1 = Len(incoming)
      BY <1>0, <1>1, <2>2
    <3> QED
      BY <1>1, <1>4, <2>2, <3>1 DEF Received
  <2> QED
    BY <2>1, <2>2
<1>6. ASSUME NEW i \in 0..Len(incoming'), Clean(i)' PROVE Clean(i + 1)
  <2> SUFFICES ASSUME NEW j \in 1..i + 1 PROVE incoming[j].type = "data"
    BY DEF Clean
  <2>1. CASE j = 1
    BY <1>1, <2>1
  <2>2. CASE j # 1
    <3>1. PICK k \in 1..i : j = k + 1
      <4>1. j - 1 \in 1..i /\ j = (j - 1) + 1
        BY <1>0, <1>1, <2>2
      <4> QED
        BY <4>1
    <3>2. k \in 1..Len(incoming')
      BY <1>0, <1>1
    <3> QED
      BY <1>1, <1>6, <3>1, <3>2 DEF Clean
  <2> QED
    BY <2>1, <2>2
<1>7. ASSUME NEW i \in 1..Len(incoming'), Clean(i)' PROVE incoming'[i].from = Before(i)'
  <2>1. incoming[i + 1].from = Before(i + 1) /\ incoming'[i] = incoming[i + 1]
    BY <1>0, <1>1, <1>6, <1>7 DEF QueueJoined
  <2>2. Before(i + 1) = Before(i)'
    <3>1. CASE i = 1
      BY <1>1, <3>1 DEF Before
    <3>2. CASE i # 1
      <4>1. i - 1 \in 1..Len(incoming') /\ (i - 1) + 1 = i /\ (i + 1) - 1 = i /\ i + 1 # 1
        BY <1>0, <1>1, <3>2
      <4> QED
        BY <1>1, <3>2, <4>1 DEF Before
    <3> QED
      BY <3>1, <3>2
  <2> QED
    BY <2>1, <2>2
<1>8. QueueJoined'
  BY <1>7 DEF QueueJoined
<1>9. Clean(Len(incoming))' => Clean(Len(incoming))
  <2>0. Len(incoming') \in 0..Len(incoming') /\ Len(incoming') + 1 = Len(incoming)
    BY <1>0, <1>1
  <2>1. PICK k \in 0..Len(incoming') : k = Len(incoming') /\ k + 1 = Len(incoming)
    BY <2>0
  <2>2. Clean(Len(incoming))' => Clean(k)'
    BY <2>1 DEF Clean
  <2> QED
    BY <1>6, <2>1, <2>2
<1> QED
  BY <1>3, <1>5, <1>8, <1>9

(* The two halves of ReadJoined while Read goes on. *)
Linked == client # "closed" /\ Clean(Len(incoming)) => Start = Received

(* What Read copies stays adjacent to what is queued and under way. *)
LEMMA ReadJoinedStep ==
  ASSUME DownloadInv, Next, ~dropped'
  PROVE  readBuf'.from = delivered' /\ (reader' = "reading" => QueueJoined' /\ Linked')
<1>0. /\ TypeOK /\ Joined /\ Failures /\ ClientType /\ ServerType /\ ChannelType
      /\ readBuf.from \in Nat /\ readBuf.to \in Nat /\ delivered \in Nat
  <2>1. TypeOK /\ Joined /\ Failures
    BY DEF DownloadInv
  <2>2. ClientType /\ ServerType /\ ChannelType
    BY <2>1, TypeParts
  <2> QED
    BY <2>1, <2>2 DEF ClientType, Frames
<1>p. /\ readBuf.from = delivered
      /\ reader = "reading" => QueueJoined /\ Linked
  <2>1. ~dropped
    BY <1>0, ClientMoves
  <2> QED
    BY <2>1 DEF DownloadInv, ReadJoined, QueueJoined, Linked
<1>j. /\ S2CKeeps \/ (\E f \in Frames : S2CAdds(f)) => Start' = Start
      /\ S2CDrops => Start' = s2c[1].to /\ s2c[1].from = Start
  BY <1>0, JoinedStep
<1>s. ASSUME UNCHANGED <<readBuf, delivered, reader, incoming>>, client' # "closed" => client # "closed", Start' = Start
      PROVE  readBuf'.from = delivered' /\ (reader' = "reading" => QueueJoined' /\ Linked')
  BY <1>p, <1>s DEF QueueJoined, Linked, Clean, Before, Received
<1>1. ASSUME NEW n \in Sizes, ReadCopy(n)
      PROVE  readBuf'.from = delivered' /\ (reader' = "reading" => QueueJoined' /\ Linked')
  <2>1. Least(n, Bytes(readBuf)) \in Nat
    BY <1>0, <1>1, MaxDataAssumption, WindowAssumption, SizesAssumption DEF ReadCopy, Least, Bytes
  <2>2. PICK k \in Nat : /\ readBuf' = [readBuf EXCEPT !.from = readBuf.from + k] /\ delivered' = delivered + k
                         /\ UNCHANGED <<incoming, client, reader, s2c, sent>>
    BY <1>1, <2>1 DEF ReadCopy, serverVars
  <2>3. readBuf'.from = readBuf.from + k /\ readBuf'.to = readBuf.to
    BY <1>0, <2>2 DEF ClientType, Frames
  <2> QED
    BY <1>p, <2>2, <2>3 DEF QueueJoined, Linked, Clean, Before, Received, Start
<1>2. CASE ReadEvent
  <2>0. /\ reader = "reading" /\ readBuf.to - readBuf.from = 0 /\ incoming # <<>> /\ incoming' = Tail(incoming)
        /\ UNCHANGED <<client, delivered, s2c, sent>>
    BY <1>2 DEF ReadEvent, Bytes, serverVars
  <2>1. CASE Head(incoming).type = "data" /\ readBuf' = Head(incoming)
    <3>1. /\ QueueJoined' /\ Received' = Received /\ Head(incoming).from = readBuf.to
          /\ Clean(Len(incoming))' => Clean(Len(incoming))
      BY <1>0, <1>p, <2>0, <2>1, QueueTail
    <3>2. readBuf'.from = delivered'
      BY <1>0, <1>p, <2>0, <2>1, <3>1
    <3>3. Start' = Start
      BY <2>0 DEF Start
    <3> QED
      BY <1>p, <2>0, <3>1, <3>2, <3>3 DEF Linked
  <2>2. CASE Head(incoming).type = "err" /\ readBuf' = readBuf /\ reader' # "reading"
    BY <1>p, <2>0, <2>2
  <2> QED
    BY <1>2, <2>1, <2>2 DEF ReadEvent
<1>3. CASE ReadEnd \/ ReadDone
  BY <1>p, <1>3 DEF ReadEnd, ReadDone
<1>4. CASE ClientData
  <2>0. /\ S2CDrops /\ s2c[1].type = "data" /\ Head(s2c) = s2c[1] /\ Head(s2c) \in Frames
        /\ Len(s2c) \in Nat /\ Len(s2c) >= 1 /\ UNCHANGED <<readBuf, delivered, reader>>
    BY <1>0, <1>4, TailElements DEF ClientData, S2CDrops, ChannelType
  <2>1. CASE client = "closed" /\ UNCHANGED <<incoming, client>>
    BY <1>p, <2>0, <2>1 DEF QueueJoined, Linked, Clean, Before
  <2>2. CASE client # "closed" /\ incoming' = Append(incoming, Head(s2c)) /\ client' = client
    <3>2. ASSUME reader = "reading" PROVE QueueJoined' /\ Linked'
      <4>1. Clean(Len(incoming)) => Head(s2c).from = Received
        BY <1>p, <1>j, <2>0, <2>2, <3>2 DEF Linked
      <4>2. QueueJoined' /\ Received' = Head(s2c).to
        BY <1>0, <1>p, <2>0, <2>2, <3>2, <4>1, QueueAppend
      <4> QED
        BY <1>j, <2>0, <4>2 DEF Linked
    <3> QED
      BY <1>p, <2>0, <3>2
  <2>3. ~dropped'
    OBVIOUS
  <2> QED
    BY <1>4, <2>1, <2>2, <2>3 DEF ClientData
<1>q. ASSUME S2CDrops, s2c[1].type # "data" PROVE Start' = Start
  <2>1. s2c[1].from = s2c[1].to
    BY <1>0, <1>q, DropsDispatch DEF Joined
  <2> QED
    BY <1>j, <1>q, <2>1
<1>5. CASE ClientHalfClose
  <2>1. /\ S2CDrops /\ s2c[1].type # "data" /\ UNCHANGED <<readBuf, delivered, reader, incoming, client>>
    BY <1>0, <1>5, TailElements DEF ClientHalfClose, S2CDrops, ChannelType
  <2> QED
    BY <1>q, <1>s, <2>1
<1>f. ASSUME NEW e, Fail(e), UNCHANGED <<readBuf, delivered, reader>>
      PROVE  /\ reader = "reading" => QueueJoined'
             /\ incoming' = incoming \/ (~Clean(Len(incoming)))'
  <2>1. CASE incoming' = incoming
    BY <1>p, <1>f, <2>1 DEF QueueJoined, Clean, Before
  <2>2. CASE incoming' = Append(incoming, Frame("err", 0, 0))
    <3>1. Frame("err", 0, 0) \in Frames /\ Frame("err", 0, 0).type = "err"
      BY FrameFields DEF FrameTypes
    <3>2. (~Clean(Len(incoming)))'
      <4>1. Len(incoming') = Len(incoming) + 1 /\ incoming'[Len(incoming) + 1] = Frame("err", 0, 0) /\ Len(incoming) \in Nat
        BY <1>0, <2>2, <3>1, AppendElements, Elements DEF ChannelType
      <4>2. Len(incoming') \in 1..Len(incoming')
        BY <4>1
      <4> QED
        BY <3>1, <4>1, <4>2 DEF Clean
    <3>3. reader = "reading" => QueueJoined'
      BY <1>0, <1>p, <1>f, <2>2, <3>1, QueueAppend
    <3> QED
      BY <3>2, <3>3
  <2> QED
    BY <1>f, <2>1, <2>2 DEF Fail
<1>6. CASE ClientReset
  <2>1. S2CDrops /\ s2c[1].type # "data" /\ UNCHANGED <<readBuf, delivered, reader>>
    BY <1>0, <1>6, TailElements DEF ClientReset, S2CDrops, ChannelType
  <2>2. Start' = Start
    BY <1>q, <2>1
  <2>3. CASE client = "closed" /\ UNCHANGED <<incoming, client>>
    BY <1>s, <2>1, <2>2, <2>3
  <2>4. CASE client # "closed" /\ Fail("reset")
    <3>1. (reader = "reading" => QueueJoined') /\ (incoming' = incoming \/ (~Clean(Len(incoming)))')
      BY <1>f, <2>1, <2>4
    <3>2. CASE incoming' = incoming
      BY <1>s, <2>1, <2>2, <2>4, <3>2
    <3>3. CASE (~Clean(Len(incoming)))'
      BY <1>p, <2>1, <3>1, <3>3 DEF Linked
    <3> QED
      BY <3>1, <3>2, <3>3
  <2> QED
    BY <1>6, <2>3, <2>4 DEF ClientReset
<1>7. CASE Close
  <2>1. UNCHANGED <<readBuf, delivered, reader>> /\ client' = "closed" /\ Fail("eof")
    BY <1>7 DEF Close
  <2>2. reader = "reading" => QueueJoined'
    BY <1>f, <2>1
  <2> QED
    BY <1>p, <2>1, <2>2 DEF Linked
<1>8. CASE CopierNext \/ ServerReaderNext \/ UploaderNext \/ CloseConn
  <2>1. UNCHANGED clientVars
    BY <1>8, ServerSteps
  <2>2. ~S2CDrops
    <3>1. S2CDrops => s2c' # s2c /\ UNCHANGED <<copier, loop, uploader>>
      BY <1>0, DropsDispatch DEF S2CDrops, serverVars
    <3>2. s2c' = s2c \/ ~UNCHANGED <<copier, loop, uploader>>
      BY <1>8 DEF CopierNext, ServerReaderNext, UploaderNext, UploadReset, UploadRemove, LoopRemove, CloseConn, CopyRead,
                  CopyReadClosed, CopyLookup, CopyTake, CopyAbort, CopySend, CopyHalfClose, ServerUpdate, ServerClose
    <3> QED
      BY <3>1, <3>2
  <2>3. Start' = Start
    BY <1>0, <1>j, <2>2, S2CStep
  <2> QED
    BY <1>s, <2>1, <2>3 DEF clientVars
<1> QED
  BY <1>1, <1>2, <1>3, <1>4, <1>5, <1>6, <1>7, <1>8 DEF Next, DispatchNext, ReadNext

-----------------------------------------------------------------------------
(* The end of the stream. *)

(* What a step does to the chunk that ends the socket: once copyToClient is  *)
(* through, nothing.                                                         *)
LEMMA LastMoves ==
  ASSUME Next
  PROVE  /\ copier = "exit" => UNCHANGED <<copier, lastChunk, sent>>
         /\ copier = "half" => UNCHANGED <<lastChunk, sent>> /\ copier' \in {"half", "exit"}
         /\ server = "removed" => server' = "removed"
         /\ copier' = "half" => copier = "half" \/ server' = "removed" \/ lastChunk'
<1>1. ASSUME NEW n \in Sizes \cup {0}, CopyRead(n)
      PROVE  copier = "read" /\ server' = server /\ (copier' = "half" => lastChunk')
  BY <1>1 DEF CopyRead
<1>2. CASE CopySend
  <2>1. copier = "send" /\ UNCHANGED <<server, lastChunk>> /\ (copier' = "half" => lastChunk)
    BY <1>2 DEF CopySend
  <2> QED
    BY <2>1
<1>3. CASE CopyReadClosed \/ CopyLookup \/ CopyTake \/ CopyAbort \/ CopyHalfClose
  BY <1>3 DEF CopyReadClosed, CopyLookup, CopyTake, CopyAbort, CopyHalfClose
<1>4. CASE ServerReaderNext \/ UploaderNext \/ CloseConn
  BY <1>4 DEF ServerReaderNext, ServerUpdate, LoopRemove, Remove, ServerClose, UploaderNext, UploadReset, UploadRemove,
              CloseConn
<1>5. CASE UNCHANGED serverVars
  BY <1>5 DEF serverVars
<1>6. DispatchNext \/ Close \/ ReadNext => UNCHANGED serverVars
  BY ClientSteps
<1> QED
  BY <1>1, <1>2, <1>3, <1>4, <1>5, <1>6 DEF Next, CopierNext

EndsHalf(h) ==
    /\ copier = "exit" /\ \A i \in h..Len(s2c) : s2c[i].from = sent
    /\ client = "open" => lastChunk \/ \E r \in 1..h - 1 : s2c[r].type = "reset"

(* HALF_CLOSE stays behind the last byte. *)
LEMMA HalfStep ==
  ASSUME DownloadInv, Next, NEW h \in 1..Len(s2c'), s2c'[h].type = "half"
  PROVE  EndsHalf(h)'
<1>0. /\ TypeOK /\ Failures /\ ServerType /\ ClientType /\ s2c \in Seq(Frames) /\ Len(s2c) \in Nat
      /\ copier = "half" => lastChunk \/ server = "removed"
  <2>1. TypeOK /\ Failures
    BY DEF DownloadInv
  <2> QED
    BY <2>1, TypeParts, Elements DEF DownloadInv, Ends, TypeOK
<1>h. ASSUME NEW k \in 1..Len(s2c), s2c[k].type = "half" PROVE EndsHalf(k) /\ UNCHANGED <<copier, lastChunk, sent>>
  <2>1. EndsHalf(k)
    BY <1>h DEF DownloadInv, Ends, EndsHalf
  <2> QED
    BY <2>1, LastMoves DEF EndsHalf
<1>c. client' = "open" => client = "open"
  BY <1>0, ClientMoves
<1>1. CASE S2CKeeps
  <2>1. EndsHalf(h) /\ UNCHANGED <<copier, lastChunk, sent>>
    BY <1>1, <1>h DEF S2CKeeps
  <2> QED
    BY <1>1, <1>c, <2>1 DEF S2CKeeps, EndsHalf
<1>2. ASSUME NEW f \in Frames, S2CAdds(f), UNCHANGED clientVars PROVE EndsHalf(h)'
  <2>1. /\ Len(s2c') = Len(s2c) + 1 /\ s2c'[Len(s2c) + 1] = f /\ f.from = sent
        /\ \A i \in 1..Len(s2c) : s2c'[i] = s2c[i]
    BY <1>0, <1>2, AppendElements DEF S2CAdds
  <2>2. CASE h \in 1..Len(s2c)
    <3>1. EndsHalf(h) /\ UNCHANGED <<copier, lastChunk, sent>>
      BY <1>h, <2>1, <2>2
    <3>2. \A i \in h..Len(s2c') : s2c'[i].from = sent'
      <4>1. \A i \in h..Len(s2c') : i = Len(s2c) + 1 \/ (i \in h..Len(s2c) /\ i \in 1..Len(s2c))
        BY <1>0, <2>1, <2>2
      <4> QED
        BY <2>1, <3>1, <4>1 DEF EndsHalf
    <3>3. \A r \in 1..h - 1 : s2c'[r] = s2c[r]
      BY <1>0, <2>1, <2>2
    <3> QED
      BY <1>c, <3>1, <3>2, <3>3 DEF EndsHalf
  <2>3. CASE h = Len(s2c) + 1
    <3>1. f.type = "half"
      BY <2>1, <2>3
    <3>2. copier = "half" /\ copier' = "exit" /\ sent' = sent /\ server' = server
      BY <1>2, <3>1 DEF S2CAdds
    <3>3. lastChunk' = lastChunk
      BY <3>2, LastMoves
    <3>4. \A i \in h..Len(s2c') : s2c'[i].from = sent'
      <4>1. \A i \in h..Len(s2c') : i = Len(s2c) + 1
        BY <1>0, <2>1, <2>3
      <4> QED
        BY <2>1, <3>2, <4>1
    <3>5. ASSUME client = "open", ~lastChunk PROVE \E r \in 1..h - 1 : s2c'[r].type = "reset"
      <4>1. server # "open"
        BY <1>0, <3>2, <3>5
      <4>2. PICK r \in 1..Len(s2c) : s2c[r].type = "reset"
        BY <1>0, <3>5, <4>1 DEF Failures, GivenUp
      <4>3. r \in 1..h - 1 /\ s2c'[r] = s2c[r]
        BY <1>0, <2>1, <2>3
      <4> QED
        BY <4>2, <4>3
    <3> QED
      BY <1>c, <3>2, <3>3, <3>4, <3>5 DEF EndsHalf
  <2> QED
    BY <1>0, <2>1, <2>2, <2>3
<1>3. CASE S2CDrops
  <2>1. /\ DispatchNext /\ Head(s2c) = s2c[1] /\ Len(s2c') = Len(s2c) - 1
        /\ \A i \in 1..Len(s2c') : i + 1 \in 1..Len(s2c) /\ s2c'[i] = s2c[i + 1]
    BY <1>0, <1>3, DropsDispatch
  <2>2. EndsHalf(h + 1) /\ UNCHANGED <<copier, lastChunk, sent>>
    BY <1>h, <2>1
  <2>3. \A i \in h..Len(s2c') : s2c'[i].from = sent'
    <3>1. \A i \in h..Len(s2c') : i \in 1..Len(s2c') /\ i + 1 \in h + 1..Len(s2c)
      BY <1>0, <2>1
    <3> QED
      BY <2>1, <2>2, <3>1 DEF EndsHalf
  <2>4. ASSUME client' = "open", ~lastChunk PROVE \E r \in 1..h - 1 : s2c'[r].type = "reset"
    <3>1. PICK r \in 1..(h + 1) - 1 : s2c[r].type = "reset"
      BY <1>c, <2>2, <2>4 DEF EndsHalf
    <3>2. r # 1
      <4>1. ~ClientReset
        BY <1>0, <2>4, ClientMoves
      <4> QED
        BY <2>1, <3>1, <4>1 DEF DispatchNext, ClientData, ClientHalfClose
    <3>3. r - 1 \in 1..h - 1 /\ r - 1 \in 1..Len(s2c') /\ (r - 1) + 1 = r
      BY <1>0, <2>1, <3>1, <3>2
    <3>4. s2c'[r - 1].type = "reset"
      BY <2>1, <3>1, <3>3
    <3> QED
      BY <3>3, <3>4
  <2> QED
    BY <2>2, <2>3, <2>4 DEF EndsHalf
<1> QED
  BY <1>0, <1>1, <1>2, <1>3, S2CStep

AtEnd == lastChunk /\ copier = "exit" /\ \A i \in 1..Len(s2c) : s2c[i].from = sent

(* Behind HALF_CLOSE nothing comes. *)
LEMMA AtEndStep ==
  ASSUME TypeOK, AtEnd, Next
  PROVE  AtEnd' /\ sent' = sent
<1>0. s2c \in Seq(Frames) /\ Len(s2c) \in Nat /\ ServerType
  BY TypeParts, Elements DEF TypeOK
<1>1. UNCHANGED <<lastChunk, copier, sent>>
  BY LastMoves DEF AtEnd
<1>2. \A i \in 1..Len(s2c') : s2c'[i].from = sent
  <2>1. CASE S2CKeeps
    BY <2>1 DEF S2CKeeps, AtEnd
  <2>2. CASE S2CDrops
    BY <2>2, DropsDispatch DEF AtEnd
  <2>3. ASSUME NEW f \in Frames, S2CAdds(f) PROVE \A i \in 1..Len(s2c') : s2c'[i].from = sent
    <3>1. /\ Len(s2c') = Len(s2c) + 1 /\ s2c'[Len(s2c) + 1] = f /\ f.from = sent
          /\ \A i \in 1..Len(s2c) : s2c'[i] = s2c[i]
      BY <1>0, <2>3, AppendElements DEF S2CAdds
    <3>2. \A i \in 1..Len(s2c') : i \in 1..Len(s2c) \/ i = Len(s2c) + 1
      BY <1>0, <3>1
    <3> QED
      BY <3>1, <3>2 DEF AtEnd
  <2> QED
    BY <1>0, <2>1, <2>2, <2>3, S2CStep
<1> QED
  BY <1>1, <1>2 DEF AtEnd

(* What a step does to readEOF and to the outcome of Read, on a stream that  *)
(* has not failed.                                                           *)
LEMMA ReaderMoves ==
  ASSUME Failures, Next, clientErr = "none"
  PROVE  /\ readEOF' => readEOF \/ ClientHalfClose
         /\ reader' = "eof" => reader = "eof" \/ ReadEnd
         /\ reader # "reading" => delivered' = delivered
<1>1. CASE DispatchNext \/ Close
  BY <1>1 DEF DispatchNext, Close, ClientData, ClientHalfClose, ClientReset
<1>2. ASSUME (\E n \in Sizes : ReadCopy(n)) \/ ReadEnd
      PROVE  readEOF' = readEOF /\ (reader' = reader \/ ReadEnd) /\ (reader # "reading" => delivered' = delivered)
  BY <1>2 DEF ReadCopy, ReadEnd
<1>3. CASE ReadEvent
  <2>1. clientErr # "eof" /\ delivered' = delivered /\ reader = "reading"
    BY <1>3 DEF ReadEvent
  <2>2. readEOF' => readEOF
    BY <1>3, <2>1, Zenon DEF ReadEvent
  <2>3. reader' = "eof" => reader = "eof"
    BY <1>3, <2>1 DEF ReadEvent
  <2> QED
    BY <2>1, <2>2, <2>3
<1>4. CASE ReadDone
  BY <1>4 DEF ReadDone, Failures
<1>5. CASE UNCHANGED clientVars
  BY <1>5 DEF clientVars
<1>6. CopierNext \/ ServerReaderNext \/ UploaderNext \/ CloseConn => UNCHANGED clientVars
  BY ServerSteps
<1> QED
  BY <1>1, <1>2, <1>3, <1>4, <1>5, <1>6 DEF Next, ReadNext

(* Every step keeps what is known of the end of the stream. *)
LEMMA EndsStep ==
  ASSUME DownloadInv, Next
  PROVE  Ends'
<1>0. /\ TypeOK /\ Failures /\ Ends /\ ReadJoined /\ ClientType /\ s2c \in Seq(Frames) /\ Len(s2c) \in Nat
      /\ readBuf.from \in Nat /\ readBuf.to \in Nat
  <2>1. TypeOK /\ Failures /\ Ends /\ ReadJoined
    BY DEF DownloadInv
  <2> QED
    BY <2>1, TypeParts, Elements DEF TypeOK, ClientType, Frames
<1>1. copier' = "half" => lastChunk' \/ server' = "removed"
  <2>1. CASE copier = "half"
    BY <1>0, <2>1, LastMoves DEF Ends
  <2>2. CASE copier # "half"
    BY <2>2, LastMoves
  <2> QED
    BY <2>1, <2>2
<1>2. ASSUME NEW h \in 1..Len(s2c'), s2c'[h].type = "half" PROVE EndsHalf(h)'
  BY <1>2, HalfStep
<1>n. clientErr' = "none" => clientErr = "none" /\ client = "open"
  BY <1>0, ClientMoves DEF Failures
<1>e. readEOF /\ clientErr = "none" => AtEnd
  BY <1>0 DEF Ends, AtEnd
<1>3. ASSUME readEOF', clientErr' = "none" PROVE AtEnd'
  <2>1. CASE readEOF
    BY <1>0, <1>e, <1>n, <1>3, <2>1, AtEndStep
  <2>2. CASE ~readEOF
    <3>1. ClientHalfClose
      BY <1>0, <1>3, <1>n, <2>2, ReaderMoves
    <3>2. s2c # <<>> /\ Head(s2c) = s2c[1] /\ s2c[1].type = "half" /\ Len(s2c) >= 1
      BY <1>0, <3>1, TailElements DEF ClientHalfClose
    <3>3. 1 \in 1..Len(s2c) /\ ~\E r \in 1..1 - 1 : TRUE
      BY <1>0, <3>2
    <3>4. AtEnd
      BY <1>0, <1>3, <1>n, <3>2, <3>3 DEF Ends, AtEnd
    <3> QED
      BY <1>0, <3>4, AtEndStep
  <2> QED
    BY <2>1, <2>2
<1>4. ASSUME reader' = "eof", clientErr' = "none" PROVE lastChunk' /\ copier' = "exit" /\ delivered' = sent'
  <2>1. CASE reader = "eof"
    <3>1. lastChunk /\ copier = "exit" /\ delivered = sent
      BY <1>0, <1>4, <1>n, <2>1 DEF Ends
    <3>2. UNCHANGED <<copier, lastChunk, sent>>
      BY <3>1, LastMoves
    <3>3. delivered' = delivered
      BY <1>0, <1>4, <1>n, <2>1, ReaderMoves
    <3> QED
      BY <3>1, <3>2, <3>3
  <2>2. CASE reader # "eof"
    <3>1. ReadEnd
      BY <1>0, <1>4, <1>n, <2>2, ReaderMoves
    <3>2. AtEnd
      BY <1>4, <1>e, <1>n, <3>1 DEF ReadEnd
    <3>3. /\ reader = "reading" /\ incoming = <<>> /\ readBuf.to - readBuf.from = 0 /\ Len(incoming) = 0
          /\ delivered' = delivered
      BY <3>1, EmptyChannel DEF ReadEnd, Bytes
    <3>4. Clean(Len(incoming))
      BY <3>3 DEF Clean
    <3>5. Start = Received /\ readBuf.from = delivered
      BY <1>0, <1>4, <1>n, <3>3, <3>4 DEF ReadJoined, Failures
    <3>6. Start = sent
      <4>1. s2c # <<>> => 1 \in 1..Len(s2c)
        BY <1>0, Elements
      <4> QED
        BY <3>2, <4>1 DEF AtEnd, Start
    <3>7. delivered = sent
      BY <1>0, <3>3, <3>5, <3>6 DEF Received
    <3>8. AtEnd' /\ sent' = sent
      BY <1>0, <3>2, AtEndStep
    <3> QED
      BY <3>3, <3>7, <3>8 DEF AtEnd
  <2> QED
    BY <2>1, <2>2
<1> QED
  BY <1>1, <1>2, <1>3, <1>4 DEF Ends, EndsHalf, AtEnd

-----------------------------------------------------------------------------
(* The theorems. *)

(* Every step keeps the invariant. *)
LEMMA DownloadStep == DownloadInv /\ [Next]_vars => DownloadInv'
<1> SUFFICES ASSUME DownloadInv, [Next]_vars PROVE DownloadInv'
  OBVIOUS
<1>1. CASE Next
  <2>1. TypeOK' /\ Joined' /\ Failures' /\ Ends'
    BY <1>1, TypeStep, JoinedStep, FailuresStep, EndsStep DEF DownloadInv
  <2>2. ReadJoined'
    BY <1>1, ReadJoinedStep DEF ReadJoined, QueueJoined, Linked
  <2> QED
    BY <2>1, <2>2 DEF DownloadInv
<1>2. CASE UNCHANGED vars
  <2>1. UNCHANGED <<copier, chunk, lastChunk, avail, sent, server, loop, uploader, s2c, c2s, incoming, client, clientErr,
                    readEOF, readBuf, reader, delivered, dropped>>
    BY <1>2 DEF vars, serverVars, clientVars
  <2>2. TypeOK' /\ Joined' /\ Ends'
    BY <2>1 DEF DownloadInv, TypeOK, Joined, Ends
  <2>4. Failures'
    BY <2>1 DEF DownloadInv, Failures, GivenUp
  <2>3. ReadJoined'
    BY <2>1 DEF DownloadInv, ReadJoined, Clean, Before, Start, Received
  <2> QED
    BY <2>2, <2>3, <2>4 DEF DownloadInv
<1> QED
  BY <1>1, <1>2

(* The strengthened invariant holds. *)
THEOREM DownloadInvHolds == Spec => []DownloadInv
BY DownloadInit, DownloadStep, PTL DEF Spec

(* The types hold for any window, frame size and number of bytes; in         *)
(* particular the send window of the server stays within its initial size    *)
(* although copyToClient drops what take returned.                           *)
THEOREM TypeCorrect == Spec => []TypeOK
<1>1. DownloadInv => TypeOK
  BY DEF DownloadInv
<1> QED
  BY <1>1, DownloadInvHolds, PTL

(* What clientStream.Read copies starts where it stopped, unless a frame     *)
(* found the queue full, which only a stream that failed has seen; and on a  *)
(* stream that has not failed io.EOF comes only after the last byte of the   *)
(* Windows socket: a RESET, the error that fail queues, the chunks that are  *)
(* sent between a RESET and the removal and the out-of-band readEOF never    *)
(* make Read skip or cut off bytes.                                          *)
THEOREM WholeStreamRead == Spec => []ReadsWhole
<1>1. DownloadInv => ReadsWhole
  BY DEF DownloadInv, ReadJoined, Failures, Ends, ReadsWhole
<1> QED
  BY <1>1, DownloadInvHolds, PTL

=============================================================================
