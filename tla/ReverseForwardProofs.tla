------------------------ MODULE ReverseForwardProofs ------------------------
(* Proofs about ReverseForward for every set of listeners and of inbound     *)
(* connections and every limit on listeners.                                 *)
EXTENDS ReverseForward, TLAPS

-----------------------------------------------------------------------------
(* Channels. *)

InFlight(ch, f) == \E k \in 1..Len(ch) : ch[k] = f

(* f is under way at most once, and before any frame of G. *)
First(ch, f, G) == \A j, k \in 1..Len(ch) : ch[k] = f /\ ch[j] \in G \cup {f} => k <= j

-----------------------------------------------------------------------------
(* The inductive invariant, in layers. *)

(* An accept loop past Accept has a connection in hand. *)
Holding(l, s) == serve[l] \in {"accepted", "announce"} /\ cur[l] = s
TypeInv == TypeOK /\ \A l \in Listeners : serve[l] \in {"accepted", "announce"} => cur[l] \in Conns

(* A socket is there only once openListener has bound it. *)
Bound == \A l \in Listeners : sock[l] = "open" => serve[l] \notin {"none", "spawned", "binding"}

(* A listener is opened once: LISTEN_OPEN is under way at most once, and     *)
(* only before openListener runs.                                            *)
Once ==
    \A l \in Listeners :
        /\ First(c2s, Frame("listen", l), {})
        /\ InFlight(c2s, Frame("listen", l)) => serve[l] = "none" /\ client[l] # "none"
        /\ client[l] = "none" => serve[l] = "none"

(* The server learns of a commit only after the client made it. *)
CommitInv ==
    /\ \A l \in Listeners : InFlight(c2s, Frame("commit", l)) => l \in commit
    /\ committed \subseteq commit
    /\ \A l \in Listeners : serve[l] \in {"accepting", "accepted", "announce"} => l \in commit
    /\ AcceptAfterCommit

ListenInv == Bound /\ NoOrphanSocket /\ Once

(* Where an inbound stream can be: in the hand of its accept loop, announced *)
(* by an INBOUND_OPEN under way, at the client, or ended.                    *)
Ending(s) == InFlight(c2s, Frame("close", s)) \/ InFlight(c2s, Frame("reset", s))
Announced(s) == InFlight(s2c, Frame("inbound", s))
Resetting(s) == InFlight(s2c, Frame("reset", s))

InHand(s) ==
    \A l \in Listeners : Holding(l, s) =>
        /\ lis[s] = l /\ conn[s] # "none" /\ cstream[s] = "none"
        /\ ~Announced(s) /\ ~Resetting(s) /\ ~Ending(s)
        /\ serve[l] = "accepted" => s \notin streams
        /\ serve[l] = "announce" => s \in streams \/ server # "serving"

Stream(s) ==
    /\ First(s2c, Frame("inbound", s), {Frame("reset", s)})
    /\ Announced(s) => cstream[s] = "none" /\ ~Ending(s) /\ (s \in streams \/ Resetting(s))
    /\ Ending(s) => cstream[s] \in {"none", "gone"}
    /\ s \in streams \/ Announced(s) \/ Resetting(s) \/ Ending(s) \/ cstream[s] # "none"
           => conn[s] # "none"
    /\ s \in RegisteredStreams \ failed => s \in streams \/ Resetting(s)
    /\ link = "down" => /\ ~Announced(s) /\ ~Resetting(s) /\ ~Ending(s)
                        /\ s \in RegisteredStreams => s \in failed

InboundInv ==
    /\ server # "serving" => link = "down"
    /\ \A s \in Conns : InHand(s) /\ Stream(s)

-----------------------------------------------------------------------------
(* Lemmas about channels. *)

ListenTypes == {"listen", "commit", "unlisten", "ok", "err"}
StreamTypes == {"inbound", "close", "reset"}

(* Frames are equal if their types and ids are. *)
LEMMA FrameEq == \A t, u, i, j : Frame(t, i) = Frame(u, j) <=> t = u /\ i = j
BY DEF Frame

(* What the channels may hold. *)
LEMMA FrameType ==
  /\ \A t \in ListenTypes, l \in Listeners : Frame(t, l) \in Frames
  /\ \A t \in StreamTypes, c \in Conns : Frame(t, c) \in Frames
BY DEF Frame, Frames, ListenTypes, StreamTypes

(* Appending or sending a frame gives a channel. *)
LEMMA AppendType ==
  ASSUME NEW ch \in Seq(Frames), NEW t, NEW i, Frame(t, i) \in Frames
  PROVE  Append(ch, Frame(t, i)) \in Seq(Frames) /\ Put(ch, t, i) \in Seq(Frames)
BY DEF Put

(* The first frame of a channel is a frame about a listener or about a stream. *)
LEMMA HeadType ==
  ASSUME NEW ch \in Seq(Frames), ch # <<>>
  PROVE  /\ Tail(ch) \in Seq(Frames) /\ Head(ch) = Frame(Head(ch).type, Head(ch).id)
         /\ Head(ch).type \in ListenTypes => Head(ch).id \in Listeners
         /\ Head(ch).type \in StreamTypes => Head(ch).id \in Conns
<1>1. Tail(ch) \in Seq(Frames) /\ Head(ch) \in Frames
  OBVIOUS
<1>2. CASE Head(ch) \in [type : ListenTypes, id : Listeners]
  BY <1>1, <1>2 DEF Frame, ListenTypes, StreamTypes
<1>3. CASE Head(ch) \in [type : StreamTypes, id : Conns]
  BY <1>1, <1>3 DEF Frame, ListenTypes, StreamTypes
<1> QED
  BY <1>1, <1>2, <1>3 DEF Frames, ListenTypes, StreamTypes

(* Positions after an append. *)
LEMMA AppendAt ==
  ASSUME NEW ch \in Seq(Frames), NEW g \in Frames
  PROVE  LET new == Append(ch, g) IN
         /\ Len(ch) \in Nat /\ Len(new) = Len(ch) + 1
         /\ \A k \in 1..Len(ch) : k \in 1..Len(new) /\ new[k] = ch[k]
         /\ Len(ch) + 1 \in 1..Len(new) /\ new[Len(ch) + 1] = g
         /\ \A k \in 1..Len(new) : k \in 1..Len(ch) \/ k = Len(ch) + 1
OBVIOUS

(* Positions after the first frame is taken off. *)
LEMMA TailAt ==
  ASSUME NEW ch \in Seq(Frames), ch # <<>>
  PROVE  /\ Len(ch) \in Nat /\ Len(Tail(ch)) = Len(ch) - 1
         /\ 1 \in 1..Len(ch) /\ ch[1] = Head(ch)
         /\ \A k \in 1..Len(Tail(ch)) : k + 1 \in 1..Len(ch) /\ Tail(ch)[k] = ch[k + 1]
         /\ \A k \in 1..Len(ch) : k = 1 \/ (k - 1 \in 1..Len(Tail(ch)) /\ Tail(ch)[k - 1] = ch[k])
OBVIOUS

(* Appending a frame puts that frame under way and no other. *)
LEMMA InFlightAppend ==
  ASSUME NEW ch \in Seq(Frames), NEW g \in Frames
  PROVE  \A f : InFlight(Append(ch, g), f) <=> InFlight(ch, f) \/ f = g
<1> DEFINE new == Append(ch, g)
<1>1. /\ \A k \in 1..Len(ch) : k \in 1..Len(new) /\ new[k] = ch[k]
      /\ Len(ch) + 1 \in 1..Len(new) /\ new[Len(ch) + 1] = g
      /\ \A k \in 1..Len(new) : k \in 1..Len(ch) \/ k = Len(ch) + 1
  BY AppendAt
<1> HIDE DEF new
<1>2. \A f : InFlight(new, f) <=> InFlight(ch, f) \/ f = g
  BY <1>1 DEF InFlight
<1> QED
  BY <1>2 DEF new

(* What is under way is the first frame or a later one. *)
LEMMA InFlightTail ==
  ASSUME NEW ch \in Seq(Frames), ch # <<>>
  PROVE  \A f : InFlight(ch, f) <=> f = Head(ch) \/ InFlight(Tail(ch), f)
<1> DEFINE new == Tail(ch)
<1>1. /\ 1 \in 1..Len(ch) /\ ch[1] = Head(ch)
      /\ \A k \in 1..Len(new) : k + 1 \in 1..Len(ch) /\ new[k] = ch[k + 1]
      /\ \A k \in 1..Len(ch) : k = 1 \/ (k - 1 \in 1..Len(new) /\ new[k - 1] = ch[k])
  BY TailAt
<1> HIDE DEF new
<1>2. \A f : InFlight(ch, f) => f = Head(ch) \/ InFlight(new, f)
  BY <1>1 DEF InFlight
<1>3. \A f : f = Head(ch) \/ InFlight(new, f) => InFlight(ch, f)
  BY <1>1 DEF InFlight
<1> QED
  BY <1>2, <1>3 DEF new

(* A frame sent after the link went down is lost. *)
LEMMA InFlightPut ==
  ASSUME NEW ch \in Seq(Frames), NEW t, NEW i, Frame(t, i) \in Frames
  PROVE  \A f : InFlight(Put(ch, t, i), f) <=> InFlight(ch, f) \/ (link = "up" /\ f = Frame(t, i))
BY InFlightAppend DEF Put

(* The empty channel is a channel. *)
LEMMA EmptyType == <<>> \in Seq(Frames)
OBVIOUS

(* Nothing is under way on an empty channel. *)
LEMMA ChannelEmpty == \A f, G : ~InFlight(<<>>, f) /\ First(<<>>, f, G)
BY DEF InFlight, First

(* A new frame is behind those under way; if it is f, none of G may be there. *)
LEMMA FirstAppend ==
  ASSUME NEW ch \in Seq(Frames), NEW g \in Frames, NEW f, NEW G, First(ch, f, G),
         f = g => ~InFlight(ch, f) /\ \A h \in G : ~InFlight(ch, h)
  PROVE  First(Append(ch, g), f, G)
<1> DEFINE new == Append(ch, g)
<1>1. /\ Len(ch) \in Nat
      /\ \A k \in 1..Len(ch) : k \in 1..Len(new) /\ new[k] = ch[k]
      /\ Len(ch) + 1 \in 1..Len(new) /\ new[Len(ch) + 1] = g
      /\ \A k \in 1..Len(new) : k \in 1..Len(ch) \/ k = Len(ch) + 1
  BY AppendAt
<1> HIDE DEF new
<1>2. ASSUME NEW j \in 1..Len(new), NEW k \in 1..Len(new), new[k] = f, new[j] \in G \cup {f}
      PROVE  k <= j
  <2>1. CASE k \in 1..Len(ch) /\ j \in 1..Len(ch)
    BY <1>1, <1>2, <2>1 DEF First
  <2>2. CASE k = Len(ch) + 1 /\ j \in 1..Len(ch)
    BY <1>1, <1>2, <2>2 DEF InFlight
  <2>3. CASE j = Len(ch) + 1
    BY <1>1, <1>2, <2>3
  <2> QED
    BY <1>1, <2>1, <2>2, <2>3
<1>3. First(new, f, G)
  BY <1>2 DEF First
<1> QED
  BY <1>3 DEF new

(* The same for a frame that is sent. *)
LEMMA FirstPut ==
  ASSUME NEW ch \in Seq(Frames), NEW t, NEW i, Frame(t, i) \in Frames, NEW f, NEW G, First(ch, f, G),
         f = Frame(t, i) => ~InFlight(ch, f) /\ \A h \in G : ~InFlight(ch, h)
  PROVE  First(Put(ch, t, i), f, G)
BY FirstAppend DEF Put

(* Taking off the first frame keeps the order; behind f, or a frame of G,    *)
(* there is no f.                                                            *)
LEMMA FirstTail ==
  ASSUME NEW ch \in Seq(Frames), ch # <<>>, NEW f, NEW G, First(ch, f, G)
  PROVE  /\ First(Tail(ch), f, G)
         /\ Head(ch) \in G \cup {f} => ~InFlight(Tail(ch), f)
<1> DEFINE new == Tail(ch)
<1>1. /\ Len(new) \in Nat /\ 1 \in 1..Len(ch) /\ ch[1] = Head(ch)
      /\ \A k \in 1..Len(new) : k + 1 \in 1..Len(ch) /\ new[k] = ch[k + 1]
  BY TailAt
<1> HIDE DEF new
<1>2. ASSUME NEW j \in 1..Len(new), NEW k \in 1..Len(new), new[k] = f, new[j] \in G \cup {f}
      PROVE  k <= j
  <2>1. k + 1 <= j + 1
    BY <1>1, <1>2 DEF First
  <2> QED
    BY <1>1, <2>1
<1>3. ASSUME Head(ch) \in G \cup {f}, NEW k \in 1..Len(new), new[k] = f PROVE FALSE
  <2>1. k + 1 <= 1
    BY <1>1, <1>3 DEF First
  <2> QED
    BY <1>1, <2>1
<1>4. First(new, f, G) /\ (Head(ch) \in G \cup {f} => ~InFlight(new, f))
  BY <1>2, <1>3 DEF First, InFlight
<1> QED
  BY <1>4 DEF new

(* A channel that shrinks puts nothing under way and keeps the order. *)
LEMMA ShrinkKeeps ==
  ASSUME NEW ch \in Seq(Frames), NEW new, new = ch \/ new = <<>> \/ (ch # <<>> /\ new = Tail(ch)),
         NEW f, NEW G
  PROVE  (InFlight(new, f) => InFlight(ch, f)) /\ (First(ch, f, G) => First(new, f, G))
<1>1. CASE new = ch
  BY <1>1
<1>2. CASE new = <<>>
  BY <1>2, ChannelEmpty
<1>3. CASE ch # <<>> /\ new = Tail(ch)
  BY <1>3, InFlightTail, FirstTail
<1> QED
  BY <1>1, <1>2, <1>3

-----------------------------------------------------------------------------
(* Types. *)

(* Initially there is nothing. *)
LEMMA TypeInit == Init => TypeInv
BY DEF Init, TypeInv, TypeOK, ServeStates, None

(* What a step does to the frames under way to the server: it leaves them    *)
(* alone, loses them all, takes off the first, or adds one at the end.       *)
C2SShrinks == c2s' = c2s \/ c2s' = <<>> \/ (c2s # <<>> /\ c2s' = Tail(c2s))
C2SGrows ==
    \/ \E l \in Listeners : Reserve(l) /\ c2s' = Append(c2s, Frame("listen", l))
    \/ \E l \in Listeners : Commit(l) /\ c2s' = Append(c2s, Frame("commit", l))
    \/ \E l \in Listeners : c2s' = Append(c2s, Frame("unlisten", l))
    \/ \E c \in Conns, t \in {"close", "reset"} : c2s' = Append(c2s, Frame(t, c))

(* No step does anything else. *)
LEMMA C2SStep ==
  ASSUME TypeInv, Next
  PROVE  C2SShrinks \/ C2SGrows
<1>1. ASSUME NEW l \in Listeners, Reserve(l) \/ ReserveReturn(l) \/ CloseListener(l) \/ Commit(l)
      PROVE  C2SShrinks \/ C2SGrows
  <2>1. CASE Reserve(l)
    <3>1. c2s' = c2s \/ c2s' = Append(c2s, Frame("listen", l))
      BY <2>1 DEF Reserve
    <3> QED
      BY <2>1, <3>1 DEF C2SShrinks, C2SGrows
  <2>2. CASE Commit(l)
    <3>1. c2s' = Append(c2s, Frame("commit", l))
      BY <2>2 DEF Commit
    <3> QED
      BY <2>2, <3>1 DEF C2SGrows
  <2>3. CASE ReserveReturn(l) \/ CloseListener(l)
    BY <2>3 DEF ReserveReturn, CloseListener, C2SShrinks, C2SGrows
  <2> QED
    BY <1>1, <2>1, <2>2, <2>3
<1>2. ASSUME NEW c \in Conns, LocalDialOK(c) \/ LocalDialError(c) \/ BridgeEnd(c) \/ RemoteError(c)
      PROVE  C2SShrinks \/ C2SGrows
  <2>1. c2s' = c2s \/ \E t \in {"close", "reset"} : c2s' = Append(c2s, Frame(t, c))
    BY <1>2 DEF LocalDialOK, LocalDialError, BridgeEnd, RemoteError, Put
  <2> QED
    BY <2>1 DEF C2SShrinks, C2SGrows
<1>3. ASSUME DispatchInbound PROVE C2SShrinks \/ C2SGrows
  <2>1. s2c # <<>> /\ Head(s2c).type = "inbound"
        /\ (c2s' = c2s \/ c2s' = Append(c2s, Frame("reset", Head(s2c).id)))
    BY <1>3 DEF DispatchInbound
  <2>2. Head(s2c).id \in Conns
    BY <2>1, HeadType DEF TypeInv, TypeOK, StreamTypes
  <2> QED
    BY <2>1, <2>2 DEF C2SShrinks, C2SGrows
<1>4. ASSUME DispatchListen \/ DispatchUnlisten \/ DispatchReset \/ LinkDown PROVE C2SShrinks
  BY <1>4 DEF DispatchListen, DispatchUnlisten, DispatchReset, LinkDown, C2SShrinks
<1>5. ASSUME ReaderNext PROVE C2SShrinks
  BY <1>5 DEF ReaderNext, StartListen, HandleCommit, HandleUnlisten, HandleClose, C2SShrinks
<1>6. ASSUME Cancel \/ ShutdownListeners \/ ShutdownStreams PROVE C2SShrinks
  BY <1>6 DEF Cancel, ShutdownListeners, ShutdownStreams, C2SShrinks
<1>7. ASSUME NEW l \in Listeners, OpenNext(l) \/ ServeNext(l) \/ CloseSocket(l) \/ AcceptError(l)
      PROVE  C2SShrinks
  BY <1>7 DEF OpenNext, RegisterListener, BindOK, BindError, Publish, SendOK, ServeNext, StartAccepting,
              StopWaiting, RegisterInbound, SendInbound, CloseSocket, AcceptError, C2SShrinks
<1>8. ASSUME NEW l \in Listeners, NEW c \in Conns, Accept(l, c) PROVE C2SShrinks
  BY <1>8 DEF Accept, C2SShrinks
<1> QED
  BY <1>1, <1>2, <1>3, <1>4, <1>5, <1>6, <1>7, <1>8 DEF Next, DispatchNext

(* So the channel to the server keeps its type. *)
LEMMA C2SType ==
  ASSUME TypeInv, Next
  PROVE  c2s' \in Seq(Frames)
<1>0. c2s \in Seq(Frames)
  BY DEF TypeInv, TypeOK
<1>1. CASE C2SShrinks
  BY <1>0, <1>1, HeadType, EmptyType DEF C2SShrinks
<1>2. CASE C2SGrows
  <2>1. \E f \in Frames : c2s' = Append(c2s, f)
    BY <1>2, FrameType DEF C2SGrows, ListenTypes, StreamTypes
  <2> QED
    BY <1>0, <2>1
<1> QED
  BY <1>1, <1>2, C2SStep

(* The same for the frames under way to the client. *)
LEMMA S2CType ==
  ASSUME TypeInv, Next
  PROVE  s2c' \in Seq(Frames)
<1>0. s2c \in Seq(Frames)
  BY DEF TypeInv, TypeOK
<1>t. s2c # <<>> => Tail(s2c) \in Seq(Frames)
  BY <1>0, HeadType
<1>1. ASSUME NEW l \in Listeners, Reserve(l) \/ ReserveReturn(l) \/ CloseListener(l) \/ Commit(l)
      PROVE  s2c' \in Seq(Frames)
  BY <1>0, <1>1 DEF Reserve, ReserveReturn, CloseListener, Commit
<1>2. ASSUME NEW c \in Conns, LocalDialOK(c) \/ LocalDialError(c) \/ BridgeEnd(c) \/ RemoteError(c)
      PROVE  s2c' \in Seq(Frames)
  <2>1. s2c' = s2c \/ s2c' = Put(s2c, "reset", c)
    BY <1>2 DEF LocalDialOK, LocalDialError, BridgeEnd, RemoteError
  <2> QED
    BY <1>0, <2>1, AppendType, FrameType DEF StreamTypes
<1>3. ASSUME DispatchNext \/ LinkDown PROVE s2c' \in Seq(Frames)
  <2>1. (s2c # <<>> /\ s2c' = Tail(s2c)) \/ s2c' = <<>>
    BY <1>3 DEF DispatchNext, DispatchListen, DispatchUnlisten, DispatchInbound, DispatchReset, LinkDown
  <2> QED
    BY <1>t, <2>1, EmptyType
<1>4. ASSUME StartListen PROVE s2c' \in Seq(Frames)
  <2>1. c2s # <<>> /\ Head(c2s).type = "listen" /\ (s2c' = s2c \/ s2c' = Put(s2c, "err", Head(c2s).id))
    BY <1>4 DEF StartListen
  <2>2. Head(c2s).id \in Listeners
    BY <2>1, HeadType DEF TypeInv, TypeOK, ListenTypes
  <2> QED
    BY <1>0, <2>1, <2>2, AppendType, FrameType DEF ListenTypes
<1>5. ASSUME HandleCommit \/ HandleUnlisten \/ HandleClose \/ Cancel \/ ShutdownListeners \/ ShutdownStreams
      PROVE  s2c' \in Seq(Frames)
  BY <1>0, <1>5 DEF HandleCommit, HandleUnlisten, HandleClose, Cancel, ShutdownListeners, ShutdownStreams
<1>6. ASSUME NEW l \in Listeners, OpenNext(l) \/ CloseSocket(l) \/ AcceptError(l) PROVE s2c' \in Seq(Frames)
  <2>1. s2c' = s2c \/ \E t \in ListenTypes : s2c' = Put(s2c, t, l)
    BY <1>6 DEF OpenNext, RegisterListener, BindOK, BindError, Publish, SendOK, CloseSocket, AcceptError, ListenTypes
  <2> QED
    BY <1>0, <2>1, AppendType, FrameType
<1>7. ASSUME NEW l \in Listeners, ServeNext(l) PROVE s2c' \in Seq(Frames)
  <2>1. s2c' = s2c \/ (serve[l] = "announce" /\ s2c' = Put(s2c, "inbound", cur[l]))
    BY <1>7 DEF ServeNext, StartAccepting, StopWaiting, RegisterInbound, SendInbound
  <2>2. serve[l] = "announce" => Frame("inbound", cur[l]) \in Frames
    BY FrameType DEF TypeInv, StreamTypes
  <2> QED
    BY <1>0, <2>1, <2>2, AppendType
<1>8. ASSUME NEW l \in Listeners, NEW c \in Conns, Accept(l, c) PROVE s2c' \in Seq(Frames)
  BY <1>0, <1>8 DEF Accept
<1> QED
  BY <1>1, <1>2, <1>3, <1>4, <1>5, <1>6, <1>7, <1>8 DEF Next, ReaderNext

(* Every step keeps the types. *)
LEMMA TypeStep == TypeInv /\ [Next]_vars => TypeInv'
<1> SUFFICES ASSUME TypeInv, Next PROVE TypeInv'
  BY DEF TypeInv, TypeOK, vars, clientVars, serverVars
<1>0. TypeOK /\ \A l \in Listeners : serve[l] \in {"accepted", "announce"} => cur[l] \in Conns
  BY DEF TypeInv
<1>c. c2s' \in Seq(Frames) /\ s2c' \in Seq(Frames)
  BY C2SType, S2CType
<1>h. /\ s2c # <<>> /\ Head(s2c).type \in ListenTypes => Head(s2c).id \in Listeners
      /\ s2c # <<>> /\ Head(s2c).type \in StreamTypes => Head(s2c).id \in Conns
      /\ c2s # <<>> /\ Head(c2s).type \in ListenTypes => Head(c2s).id \in Listeners
  BY <1>0, HeadType DEF TypeOK
<1>1. ASSUME NEW l \in Listeners, Reserve(l) \/ ReserveReturn(l) \/ CloseListener(l) PROVE TypeInv'
  <2>1. \E st \in {"opening", "reserved", "closed"} : client' = [client EXCEPT ![l] = st]
    BY <1>1 DEF Reserve, ReserveReturn, CloseListener
  <2>2. UNCHANGED <<ready, commit, cstream, failed, link, serverVars>>
    BY <1>1 DEF Reserve, ReserveReturn, CloseListener
  <2> QED
    BY <1>0, <1>c, <2>1, <2>2 DEF TypeInv, TypeOK, serverVars
<1>2. ASSUME NEW l \in Listeners, Commit(l) PROVE TypeInv'
  BY <1>0, <1>c, <1>2 DEF Commit, TypeInv, TypeOK, serverVars
<1>3. ASSUME NEW c \in Conns, LocalDialOK(c) \/ LocalDialError(c) \/ BridgeEnd(c) PROVE TypeInv'
  <2>1. \E st \in {"bridged", "gone"} : cstream' = [cstream EXCEPT ![c] = st]
    BY <1>3 DEF LocalDialOK, LocalDialError, BridgeEnd
  <2>2. UNCHANGED <<client, ready, commit, failed, link, serverVars>>
    BY <1>3 DEF LocalDialOK, LocalDialError, BridgeEnd
  <2> QED
    BY <1>0, <1>c, <2>1, <2>2 DEF TypeInv, TypeOK, serverVars
<1>4. CASE DispatchListen
  <2>1. Head(s2c).id \in Listeners /\ Head(s2c).type \in {"ok", "err"}
    BY <1>h, <1>4 DEF DispatchListen, ListenTypes
  <2>2. /\ ready' = ready \/ ready' = [ready EXCEPT ![Head(s2c).id] = Head(s2c).type]
        /\ UNCHANGED <<client, commit, cstream, failed, link, c2s, serverVars>>
    BY <1>4 DEF DispatchListen
  <2> QED
    BY <1>0, <1>c, <2>1, <2>2 DEF TypeInv, TypeOK, serverVars
<1>5. CASE DispatchUnlisten
  <2>1. UNCHANGED <<clientVars, link, serverVars>>
    BY <1>5 DEF DispatchUnlisten
  <2> QED
    BY <1>0, <1>c, <2>1 DEF TypeInv, TypeOK, clientVars, serverVars
<1>6. CASE DispatchInbound
  <2>1. Head(s2c).id \in Conns
    BY <1>h, <1>6 DEF DispatchInbound, StreamTypes
  <2>2. /\ cstream' = cstream \/ cstream' = [cstream EXCEPT ![Head(s2c).id] = "dialing"]
        /\ UNCHANGED <<client, ready, commit, failed, link, serverVars>>
    BY <1>6 DEF DispatchInbound
  <2> QED
    BY <1>0, <1>c, <2>1, <2>2 DEF TypeInv, TypeOK, serverVars
<1>7. CASE DispatchReset
  <2>1. failed' \in SUBSET Conns /\ UNCHANGED <<client, ready, commit, cstream, link, serverVars>>
    BY <1>0, <1>7 DEF DispatchReset, RegisteredStreams, TypeOK
  <2> QED
    BY <1>0, <1>c, <2>1 DEF TypeInv, TypeOK, serverVars
<1>8. CASE LinkDown
  <2>1. /\ client' \in [Listeners -> {"none", "opening", "reserved", "closed"}] /\ failed' \in SUBSET Conns
        /\ link' = "down" /\ UNCHANGED <<ready, commit, cstream, serverVars>>
    BY <1>0, <1>8 DEF LinkDown, RegisteredStreams, TypeOK
  <2> QED
    BY <1>0, <1>c, <2>1 DEF TypeInv, TypeOK, serverVars
<1>9. CASE StartListen
  <2>1. Head(c2s).id \in Listeners
    BY <1>h, <1>9 DEF StartListen, ListenTypes
  <2>2. /\ serve' = serve \/ serve' = [serve EXCEPT ![Head(c2s).id] = "spawned"]
        /\ UNCHANGED <<clientVars, link, server, lmap, cancelled, committed, sock, cur, lis, streams, conn>>
    BY <1>9 DEF StartListen
  <2> QED
    BY <1>0, <1>c, <2>1, <2>2 DEF TypeInv, TypeOK, ServeStates, clientVars
<1>10. CASE HandleCommit
  <2>1. /\ committed' \in SUBSET Listeners
        /\ UNCHANGED <<clientVars, link, server, serve, lmap, cancelled, sock, cur, lis, streams, conn>>
    BY <1>0, <1>10 DEF HandleCommit, TypeOK
  <2> QED
    BY <1>0, <1>c, <2>1 DEF TypeInv, TypeOK, clientVars
<1>11. CASE HandleUnlisten \/ ShutdownListeners
  <2>1. /\ lmap' \in SUBSET Listeners /\ cancelled' \in SUBSET Listeners
        /\ server' \in {"serving", "cancelled", "unlistened", "down"}
        /\ UNCHANGED <<clientVars, link, serve, committed, sock, cur, lis, streams, conn>>
    BY <1>0, <1>11 DEF HandleUnlisten, ShutdownListeners, RemoveListeners, TypeOK
  <2> QED
    BY <1>0, <1>c, <2>1 DEF TypeInv, TypeOK, clientVars
<1>12. ASSUME HandleClose \/ ShutdownStreams \/ \E c \in Conns : RemoteError(c) PROVE TypeInv'
  <2>1. /\ streams' \in SUBSET Conns /\ conn' \in [Conns -> {"none", "open", "closed"}]
        /\ server' \in {"serving", "cancelled", "unlistened", "down"}
        /\ UNCHANGED <<clientVars, link, serve, lmap, cancelled, committed, sock, cur, lis>>
    BY <1>0, <1>12 DEF HandleClose, ShutdownStreams, RemoteError, RemoveStreams, TypeOK
  <2> QED
    BY <1>0, <1>c, <2>1 DEF TypeInv, TypeOK, clientVars
<1>13. CASE Cancel
  <2>1. /\ server' = "cancelled" /\ cancelled' = Listeners
        /\ UNCHANGED <<clientVars, link, serve, lmap, committed, sock, cur, lis, streams, conn>>
    BY <1>13 DEF Cancel
  <2> QED
    BY <1>0, <1>c, <2>1 DEF TypeInv, TypeOK, clientVars
<1>14. ASSUME NEW l \in Listeners, OpenNext(l) \/ AcceptError(l) PROVE TypeInv'
  <2>1. \E st \in {"binding", "bound", "reply", "waiting", "done"} : serve' = [serve EXCEPT ![l] = st]
    BY <1>14 DEF OpenNext, RegisterListener, BindOK, BindError, Publish, SendOK, AcceptError
  <2>2. UNCHANGED <<clientVars, link, server, committed, cur, lis, streams, conn>>
    BY <1>14 DEF OpenNext, RegisterListener, BindOK, BindError, Publish, SendOK, AcceptError
  <2>3. lmap' \in SUBSET Listeners /\ cancelled' \in SUBSET Listeners
    BY <1>0, <1>14 DEF OpenNext, RegisterListener, BindOK, BindError, Publish, SendOK, AcceptError,
                       RemoveListeners, TypeOK
  <2>4. sock' \in [Listeners -> {"none", "open", "closed"}]
    BY <1>0, <1>14 DEF OpenNext, RegisterListener, BindOK, BindError, Publish, SendOK, AcceptError, TypeOK
  <2>5. serve' \in [Listeners -> ServeStates]
    BY <1>0, <2>1 DEF TypeOK, ServeStates
  <2>6. \A k \in Listeners : serve'[k] \in {"accepted", "announce"} => cur'[k] \in Conns
    BY <1>0, <2>1, <2>2 DEF TypeOK
  <2> QED
    BY <1>0, <1>c, <2>2, <2>3, <2>4, <2>5, <2>6 DEF TypeInv, TypeOK, clientVars
<1>15. ASSUME NEW l \in Listeners, StartAccepting(l) \/ StopWaiting(l) \/ CloseSocket(l) PROVE TypeInv'
  <2>1. /\ UNCHANGED <<clientVars, link, server, lmap, cancelled, committed, cur, lis, streams, conn>>
        /\ serve' = serve \/ \E st \in {"accepting", "done"} : serve' = [serve EXCEPT ![l] = st]
        /\ sock' = sock \/ sock' = [sock EXCEPT ![l] = "closed"]
    BY <1>15 DEF StartAccepting, StopWaiting, CloseSocket
  <2> QED
    BY <1>0, <1>c, <2>1 DEF TypeInv, TypeOK, ServeStates, clientVars
<1>16. ASSUME NEW l \in Listeners, RegisterInbound(l) \/ SendInbound(l) PROVE TypeInv'
  <2>1. cur[l] \in Conns
    BY <1>0, <1>16 DEF RegisterInbound, SendInbound
  <2>2. /\ \E st \in {"accepting", "announce", "done"} : serve' = [serve EXCEPT ![l] = st]
        /\ UNCHANGED <<clientVars, link, server, lmap, cancelled, committed, sock, cur, lis>>
    BY <1>16 DEF RegisterInbound, SendInbound
  <2>3. streams' \in SUBSET Conns /\ conn' \in [Conns -> {"none", "open", "closed"}]
    BY <1>0, <1>16, <2>1 DEF RegisterInbound, SendInbound, RemoveStreams, TypeOK
  <2> QED
    BY <1>0, <1>c, <2>1, <2>2, <2>3 DEF TypeInv, TypeOK, ServeStates, clientVars
<1>17. ASSUME NEW l \in Listeners, NEW c \in Conns, Accept(l, c) PROVE TypeInv'
  <2>1. /\ UNCHANGED <<clientVars, link, server, lmap, cancelled, committed, sock, streams>>
        /\ serve' = [serve EXCEPT ![l] = "accepted"] /\ cur' = [cur EXCEPT ![l] = c]
        /\ lis' = [lis EXCEPT ![c] = l] /\ conn' = [conn EXCEPT ![c] = "open"]
    BY <1>17 DEF Accept
  <2> QED
    BY <1>0, <1>c, <2>1 DEF TypeInv, TypeOK, ServeStates, clientVars
<1> QED
  BY <1>1, <1>2, <1>3, <1>4, <1>5, <1>6, <1>7, <1>8, <1>9, <1>10, <1>11, <1>12, <1>13, <1>14, <1>15,
     <1>16, <1>17
     DEF Next, DispatchNext, ReaderNext, ServeNext

(* The types hold throughout. *)
THEOREM TypeInvHolds == Spec => []TypeInv
BY TypeInit, TypeStep, PTL DEF Spec

(* Types of the two ends' registries, the accept loops and the frames under way. *)
THEOREM TypeCorrect == Spec => []TypeOK
<1>1. TypeInv => TypeOK
  BY DEF TypeInv
<1> QED
  BY TypeInvHolds, <1>1, PTL

-----------------------------------------------------------------------------
(* Listeners. *)

(* Only Reserve puts a LISTEN_OPEN under way, and it is the first one. *)
LEMMA ListenUnderWay ==
  ASSUME TypeInv, Once, Next, NEW l \in Listeners
  PROVE  /\ First(c2s', Frame("listen", l), {})
         /\ InFlight(c2s', Frame("listen", l)) => InFlight(c2s, Frame("listen", l)) \/ Reserve(l)
<1> DEFINE f == Frame("listen", l)
<1>0. c2s \in Seq(Frames) /\ First(c2s, f, {})
  BY DEF TypeInv, TypeOK, Once
<1>1. CASE C2SShrinks
  BY <1>0, <1>1, ShrinkKeeps DEF C2SShrinks
<1>2. ASSUME NEW g \in Frames, c2s' = Append(c2s, g), g # f
      PROVE  First(c2s', f, {}) /\ (InFlight(c2s', f) => InFlight(c2s, f))
  BY <1>0, <1>2, InFlightAppend, FirstAppend
<1>3. CASE Reserve(l) /\ c2s' = Append(c2s, f)
  <2>1. client[l] = "none"
    BY <1>3 DEF Reserve
  <2>2. ~InFlight(c2s, f)
    BY <2>1 DEF Once
  <2> QED
    BY <1>0, <1>3, <2>2, FirstAppend, FrameType DEF ListenTypes
<1>4. CASE C2SGrows
  <2>1. (Reserve(l) /\ c2s' = Append(c2s, f)) \/ \E g \in Frames : c2s' = Append(c2s, g) /\ g # f
    BY <1>4, FrameType, FrameEq DEF C2SGrows, ListenTypes, StreamTypes
  <2> QED
    BY <1>2, <1>3, <2>1
<1> QED
  BY <1>1, <1>4, C2SStep

(* A reservation does not go back to having not been made. *)
LEMMA ClientStep ==
  ASSUME TypeInv, Next
  PROVE  \A l \in Listeners : client'[l] = "none" => client[l] = "none" /\ ~Reserve(l)
<1>0. TypeOK
  BY DEF TypeInv
<1>1. ASSUME NEW k \in Listeners, Reserve(k) \/ ReserveReturn(k) \/ CloseListener(k)
      PROVE  \A l \in Listeners : client'[l] = "none" => client[l] = "none" /\ l # k
  <2>1. \E st \in {"opening", "reserved", "closed"} : client' = [client EXCEPT ![k] = st]
    BY <1>1 DEF Reserve, ReserveReturn, CloseListener
  <2> QED
    BY <1>0, <2>1 DEF TypeOK
<1> SUFFICES ASSUME ~\E k \in Listeners : Reserve(k) \/ ReserveReturn(k) \/ CloseListener(k)
             PROVE  \A l \in Listeners : client'[l] = "none" => client[l] = "none"
  BY <1>1
<1>2. CASE LinkDown
  BY <1>0, <1>2 DEF LinkDown, TypeOK
<1>3. LinkDown \/ client' = client
  BY DEF Next, Commit, LocalDialOK, LocalDialError, BridgeEnd, RemoteError, DispatchNext, DispatchListen,
         DispatchUnlisten, DispatchInbound, DispatchReset, ReaderNext, StartListen, HandleCommit,
         HandleUnlisten, HandleClose, Cancel, ShutdownListeners, ShutdownStreams, OpenNext,
         RegisterListener, BindOK, BindError, Publish, SendOK, ServeNext, StartAccepting, StopWaiting,
         RegisterInbound, SendInbound, CloseSocket, AcceptError, Accept, clientVars
<1> QED
  BY <1>2, <1>3

(* What a step of the server does to the state of openListener and           *)
(* serveListener of one listener.                                            *)
LEMMA ServeStep ==
  ASSUME TypeInv, Next, NEW l \in Listeners, serve'[l] # serve[l]
  PROVE  \/ StartListen /\ Head(c2s) = Frame("listen", l)
         \/ serve[l] # "none" /\ (OpenNext(l) \/ ServeNext(l) \/ AcceptError(l) \/ \E c \in Conns : Accept(l, c))
<1>0. TypeOK
  BY DEF TypeInv
<1>1. CASE StartListen
  <2>1. c2s # <<>> /\ Head(c2s).type = "listen"
        /\ (serve' = serve \/ serve' = [serve EXCEPT ![Head(c2s).id] = "spawned"])
    BY <1>1 DEF StartListen
  <2>2. Head(c2s) = Frame("listen", Head(c2s).id)
    BY <1>0, <2>1, HeadType DEF TypeOK
  <2> QED
    BY <1>0, <1>1, <2>1, <2>2 DEF TypeOK
<1>2. ASSUME NEW k \in Listeners, OpenNext(k) \/ ServeNext(k) \/ AcceptError(k) \/ \E c \in Conns : Accept(k, c)
      PROVE  l = k /\ serve[l] # "none"
  <2>1. serve[k] # "none" /\ \E st \in ServeStates : serve' = [serve EXCEPT ![k] = st]
    BY <1>2 DEF OpenNext, RegisterListener, BindOK, BindError, Publish, SendOK, ServeNext, StartAccepting,
                StopWaiting, RegisterInbound, SendInbound, AcceptError, Accept, ServeStates
  <2> QED
    BY <1>0, <2>1 DEF TypeOK
<1>3. \/ StartListen
      \/ \E k \in Listeners : OpenNext(k) \/ ServeNext(k) \/ AcceptError(k) \/ \E c \in Conns : Accept(k, c)
      \/ serve' = serve
  BY DEF Next, Reserve, ReserveReturn, CloseListener, Commit, LocalDialOK, LocalDialError, BridgeEnd,
         RemoteError, DispatchNext, DispatchListen, DispatchUnlisten, DispatchInbound, DispatchReset, LinkDown,
         ReaderNext, HandleCommit, HandleUnlisten, HandleClose, Cancel, ShutdownListeners,
         ShutdownStreams, CloseSocket, serverVars
<1> QED
  BY <1>1, <1>2, <1>3

(* openListener runs once, when the reader takes off the only LISTEN_OPEN.   *)
LEMMA OnceStep ==
  ASSUME TypeInv, Once, Next
  PROVE  Once'
<1> SUFFICES ASSUME NEW l \in Listeners
             PROVE  /\ First(c2s', Frame("listen", l), {})
                    /\ InFlight(c2s', Frame("listen", l)) => serve'[l] = "none" /\ client'[l] # "none"
                    /\ client'[l] = "none" => serve'[l] = "none"
  BY DEF Once
<1>1. /\ First(c2s', Frame("listen", l), {})
      /\ InFlight(c2s', Frame("listen", l)) => InFlight(c2s, Frame("listen", l)) \/ Reserve(l)
  BY ListenUnderWay
<1>2. client'[l] = "none" => client[l] = "none" /\ ~Reserve(l)
  BY ClientStep
<1>3. Reserve(l) => client[l] = "none" /\ serve' = serve
  BY DEF Reserve, serverVars
<1>4. CASE serve'[l] = serve[l]
  BY <1>1, <1>2, <1>3, <1>4 DEF Once
<1>5. CASE serve[l] # "none" /\ serve'[l] # serve[l]
  BY <1>1, <1>2, <1>3, <1>5 DEF Once
<1>6. CASE StartListen /\ Head(c2s) = Frame("listen", l) /\ serve'[l] # serve[l]
  <2>1. c2s \in Seq(Frames) /\ c2s # <<>> /\ c2s' = Tail(c2s) /\ client' = client
    BY <1>6 DEF StartListen, clientVars, TypeInv, TypeOK
  <2>2. InFlight(c2s, Frame("listen", l)) /\ ~InFlight(c2s', Frame("listen", l))
    BY <1>6, <2>1, InFlightTail, FirstTail DEF Once
  <2> QED
    BY <1>1, <2>1, <2>2 DEF Once
<1> QED
  BY <1>4, <1>5, <1>6, ServeStep

(* No listener leaves the map uncancelled. *)
LEMMA Tracked ==
  ASSUME TypeInv, Next
  PROVE  lmap \cup cancelled \subseteq lmap' \cup cancelled'
<1>0. TypeOK
  BY DEF TypeInv
<1>1. ASSUME NEW l \in Listeners, OpenNext(l) \/ AcceptError(l)
      PROVE  lmap \cup cancelled \subseteq lmap' \cup cancelled'
  BY <1>1 DEF OpenNext, RegisterListener, BindOK, BindError, Publish, SendOK, AcceptError, RemoveListeners
<1>2. ASSUME HandleUnlisten \/ ShutdownListeners \/ Cancel
      PROVE  lmap \cup cancelled \subseteq lmap' \cup cancelled'
  BY <1>0, <1>2 DEF HandleUnlisten, ShutdownListeners, Cancel, RemoveListeners, TypeOK
<1>3. \/ UNCHANGED <<lmap, cancelled>> \/ HandleUnlisten \/ ShutdownListeners \/ Cancel
      \/ \E l \in Listeners : OpenNext(l) \/ AcceptError(l)
  BY DEF Next, Reserve, ReserveReturn, CloseListener, Commit, LocalDialOK, LocalDialError, BridgeEnd,
         RemoteError, DispatchNext, DispatchListen, DispatchUnlisten, DispatchInbound, DispatchReset, LinkDown,
         ReaderNext, StartListen, HandleCommit, HandleClose, ShutdownStreams, ServeNext, StartAccepting,
         StopWaiting, RegisterInbound, SendInbound, CloseSocket, Accept, serverVars
<1> QED
  BY <1>1, <1>2, <1>3

(* A socket is bound only by BindOK, and openListener then holds it. *)
LEMMA SockStep ==
  ASSUME TypeInv, Next, NEW l \in Listeners, sock'[l] = "open"
  PROVE  sock[l] = "open" \/ BindOK(l)
<1>0. TypeOK
  BY DEF TypeInv
<1>1. ASSUME NEW k \in Listeners, BindOK(k) PROVE sock[l] = "open" \/ BindOK(l)
  BY <1>0, <1>1 DEF BindOK, TypeOK
<1>2. ASSUME NEW k \in Listeners, Publish(k) \/ CloseSocket(k) PROVE sock[l] = "open"
  <2>1. sock' = sock \/ sock' = [sock EXCEPT ![k] = "closed"]
    BY <1>2 DEF Publish, CloseSocket
  <2> QED
    BY <1>0, <2>1 DEF TypeOK
<1>3. (\E k \in Listeners : BindOK(k) \/ Publish(k) \/ CloseSocket(k)) \/ sock' = sock
  BY DEF Next, Reserve, ReserveReturn, CloseListener, Commit, LocalDialOK, LocalDialError, BridgeEnd,
         RemoteError, DispatchNext, DispatchListen, DispatchUnlisten, DispatchInbound, DispatchReset, LinkDown,
         ReaderNext, StartListen, HandleCommit, HandleUnlisten, HandleClose, Cancel, ShutdownListeners,
         ShutdownStreams, OpenNext, RegisterListener, BindError, SendOK, ServeNext, StartAccepting,
         StopWaiting, RegisterInbound, SendInbound, AcceptError, Accept, serverVars
<1> QED
  BY <1>1, <1>2, <1>3

(* Every step keeps what is known of the listeners' sockets. *)
LEMMA ListenStep == TypeInv /\ ListenInv /\ [Next]_vars => ListenInv'
<1>1. CASE UNCHANGED vars
  BY <1>1 DEF ListenInv, Bound, NoOrphanSocket, Once, vars, clientVars, serverVars
<1> SUFFICES ASSUME TypeInv, ListenInv, Next PROVE ListenInv'
  BY <1>1
<1>2. Once'
  BY OnceStep DEF ListenInv
<1>3. ASSUME NEW l \in Listeners, sock'[l] = "open"
      PROVE  /\ serve'[l] \notin {"none", "spawned", "binding"}
             /\ l \in lmap' \/ l \in cancelled' \/ serve'[l] = "bound"
  <2>1. CASE BindOK(l)
    BY <2>1 DEF BindOK, TypeInv, TypeOK
  <2>2. CASE sock[l] = "open" /\ serve'[l] = serve[l]
    BY <2>2, Tracked DEF ListenInv, Bound, NoOrphanSocket
  <2>3. CASE sock[l] = "open" /\ serve'[l] # serve[l]
    <3>0. serve[l] \notin {"none", "spawned", "binding"}
          /\ (l \in lmap \/ l \in cancelled \/ serve[l] = "bound")
      BY <2>3 DEF ListenInv, Bound, NoOrphanSocket
    <3>1. CASE StartListen /\ Head(c2s) = Frame("listen", l)
      <4>1. c2s \in Seq(Frames) /\ c2s # <<>>
        BY <3>1 DEF StartListen, TypeInv, TypeOK
      <4>2. InFlight(c2s, Frame("listen", l))
        BY <3>1, <4>1, InFlightTail
      <4> QED
        BY <3>0, <4>2 DEF ListenInv, Once
    <3>2. CASE OpenNext(l)
      <4>1. Publish(l) \/ SendOK(l)
        BY <3>0, <3>2 DEF OpenNext, RegisterListener, BindOK, BindError
      <4>2. CASE Publish(l)
        BY <1>3, <3>0, <4>2 DEF Publish, TypeInv, TypeOK
      <4>3. CASE SendOK(l)
        <5>1. serve[l] = "reply" /\ (serve' = [serve EXCEPT ![l] = "waiting"] \/ serve' = [serve EXCEPT ![l] = "done"])
          BY <4>3 DEF SendOK
        <5> QED
          BY <3>0, <5>1, Tracked DEF TypeInv, TypeOK
      <4> QED
        BY <4>1, <4>2, <4>3
    <3>3. CASE ServeNext(l) \/ AcceptError(l) \/ \E c \in Conns : Accept(l, c)
      <4>1. /\ serve[l] \in {"waiting", "accepting", "accepted", "announce"}
            /\ \E st \in {"accepting", "accepted", "announce", "done"} : serve' = [serve EXCEPT ![l] = st]
        BY <3>3 DEF ServeNext, StartAccepting, StopWaiting, RegisterInbound, SendInbound, AcceptError, Accept
      <4> QED
        BY <3>0, <4>1, Tracked DEF TypeInv, TypeOK
    <3> QED
      BY <2>3, <3>1, <3>2, <3>3, ServeStep
  <2> QED
    BY <1>3, <2>1, <2>2, <2>3, SockStep
<1> QED
  BY <1>2, <1>3 DEF ListenInv, Bound, NoOrphanSocket

(* No listener exists at first. *)
LEMMA ListenInit == Init => ListenInv
BY ChannelEmpty DEF Init, ListenInv, Bound, NoOrphanSocket, Once

(* What is known of the listeners' sockets holds throughout. *)
THEOREM ListenInvHolds == Spec => []ListenInv
BY ListenInit, ListenStep, TypeInvHolds, PTL DEF Spec

(* A bound Windows socket is never lost, whatever the order in which         *)
(* LISTEN_CLOSE, the bind, a failed answer, accept errors and shutdown come. *)
THEOREM ListenersOwned == Spec => []NoOrphanSocket
<1>1. ListenInv => NoOrphanSocket
  BY DEF ListenInv
<1> QED
  BY ListenInvHolds, <1>1, PTL

-----------------------------------------------------------------------------
(* Inbound streams. *)

(* A step leaves one stream alone: its state, its frames and whoever holds it. *)
Untouched(s) ==
    /\ link' = link /\ (server # "serving" => server' # "serving")
    /\ cstream'[s] = cstream[s] /\ (s \in failed' <=> s \in failed)
    /\ (s \in streams' <=> s \in streams) /\ conn'[s] = conn[s] /\ lis'[s] = lis[s]
    /\ \A t \in StreamTypes : /\ InFlight(c2s', Frame(t, s)) <=> InFlight(c2s, Frame(t, s))
                              /\ InFlight(s2c', Frame(t, s)) <=> InFlight(s2c, Frame(t, s))
    /\ First(s2c', Frame("inbound", s), {Frame("reset", s)})
    /\ \A l \in Listeners : Holding(l, s)' => Holding(l, s) /\ serve'[l] = serve[l]

(* Such a step keeps what is known of the stream. *)
LEMMA UntouchedKept ==
  ASSUME NEW s \in Conns, InHand(s), Stream(s), Untouched(s)
  PROVE  InHand(s)' /\ Stream(s)'
<1>1. /\ (Announced(s)' <=> Announced(s)) /\ (Resetting(s)' <=> Resetting(s)) /\ (Ending(s)' <=> Ending(s))
      /\ (s \in RegisteredStreams' <=> s \in RegisteredStreams)
  BY DEF Untouched, Announced, Resetting, Ending, StreamTypes, RegisteredStreams
<1>2. InHand(s)'
  BY <1>1 DEF InHand, Untouched
<1>3. Stream(s)'
  BY <1>1 DEF Stream, Untouched
<1> QED
  BY <1>2, <1>3

(* A channel changes by a frame that is not about stream s. *)
Elsewhere(ch, new, s) ==
    \/ new = ch
    \/ \E u, i : /\ Frame(u, i) \in Frames /\ (u \in StreamTypes => i # s)
                 /\ new = Append(ch, Frame(u, i)) \/ new = Put(ch, u, i)
    \/ ch # <<>> /\ new = Tail(ch) /\ (Head(ch).type \in StreamTypes => Head(ch).id # s)

(* That leaves the frames of the stream alone. *)
LEMMA OtherFrames ==
  ASSUME NEW ch \in Seq(Frames), NEW s \in Conns, NEW new, Elsewhere(ch, new, s)
  PROVE  /\ \A t \in StreamTypes : InFlight(new, Frame(t, s)) <=> InFlight(ch, Frame(t, s))
         /\ First(ch, Frame("inbound", s), {Frame("reset", s)})
                => First(new, Frame("inbound", s), {Frame("reset", s)})
<1> DEFINE Same == /\ \A t \in StreamTypes : InFlight(new, Frame(t, s)) <=> InFlight(ch, Frame(t, s))
                   /\ First(ch, Frame("inbound", s), {Frame("reset", s)})
                         => First(new, Frame("inbound", s), {Frame("reset", s)})
<1>1. CASE new = ch
  BY <1>1
<1>2. ASSUME NEW u, NEW i, Frame(u, i) \in Frames, u \in StreamTypes => i # s, new = Append(ch, Frame(u, i))
      PROVE  Same
  <2>1. \A t \in StreamTypes : Frame(t, s) # Frame(u, i)
    BY <1>2, FrameEq
  <2>2. Frame("inbound", s) # Frame(u, i)
    BY <2>1 DEF StreamTypes
  <2> QED
    BY <1>2, <2>1, <2>2, InFlightAppend, FirstAppend
<1>3. CASE ch # <<>> /\ new = Tail(ch) /\ (Head(ch).type \in StreamTypes => Head(ch).id # s)
  <2>1. \A t \in StreamTypes : Frame(t, s) # Head(ch)
    BY <1>3, HeadType, FrameEq
  <2> QED
    BY <1>3, <2>1, InFlightTail, FirstTail
<1>4. (\E u, i : /\ Frame(u, i) \in Frames /\ (u \in StreamTypes => i # s)
                 /\ new = Append(ch, Frame(u, i)) \/ new = Put(ch, u, i))
      => new = ch \/ \E u, i : /\ Frame(u, i) \in Frames /\ (u \in StreamTypes => i # s)
                               /\ new = Append(ch, Frame(u, i))
  BY DEF Put
<1> QED
  BY <1>1, <1>2, <1>3, <1>4 DEF Elsewhere

(* What only concerns listeners leaves every stream alone. *)
ListenerOnly ==
    \/ \E l \in Listeners : Reserve(l) \/ ReserveReturn(l) \/ CloseListener(l) \/ Commit(l) \/ OpenNext(l)
                            \/ StartAccepting(l) \/ StopWaiting(l) \/ CloseSocket(l) \/ AcceptError(l)
    \/ DispatchListen \/ DispatchUnlisten \/ StartListen \/ HandleCommit \/ HandleUnlisten
    \/ ShutdownListeners \/ Cancel

LEMMA ListenerOnlyUntouched ==
  ASSUME TypeInv, ListenerOnly, NEW s \in Conns, Stream(s)
  PROVE  Untouched(s)
<1>0. /\ TypeOK /\ c2s \in Seq(Frames) /\ s2c \in Seq(Frames)
      /\ First(s2c, Frame("inbound", s), {Frame("reset", s)})
  BY DEF TypeInv, TypeOK, Stream
<1>1. UNCHANGED <<cstream, failed, link, cur, lis, streams, conn>>
  BY DEF ListenerOnly, Reserve, ReserveReturn, CloseListener, Commit, OpenNext, RegisterListener, BindOK,
         BindError, Publish, SendOK, StartAccepting, StopWaiting, CloseSocket, AcceptError, DispatchListen,
         DispatchUnlisten, StartListen, HandleCommit, HandleUnlisten, ShutdownListeners, Cancel,
         clientVars, serverVars
<1>2. server # "serving" => server' # "serving"
  BY DEF ListenerOnly, Reserve, ReserveReturn, CloseListener, Commit, OpenNext, RegisterListener, BindOK,
         BindError, Publish, SendOK, StartAccepting, StopWaiting, CloseSocket, AcceptError, DispatchListen,
         DispatchUnlisten, StartListen, HandleCommit, HandleUnlisten, ShutdownListeners, Cancel,
         clientVars, serverVars
<1>3. serve' = serve \/ \E l, st : st \notin {"accepted", "announce"} /\ serve' = [serve EXCEPT ![l] = st]
  BY DEF ListenerOnly, Reserve, ReserveReturn, CloseListener, Commit, OpenNext, RegisterListener, BindOK,
         BindError, Publish, SendOK, StartAccepting, StopWaiting, CloseSocket, AcceptError, DispatchListen,
         DispatchUnlisten, StartListen, HandleCommit, HandleUnlisten, ShutdownListeners, Cancel,
         clientVars, serverVars
<1>4. \A l \in Listeners : Holding(l, s)' => Holding(l, s) /\ serve'[l] = serve[l]
  BY <1>0, <1>1, <1>3 DEF Holding, TypeOK
<1>5. Elsewhere(c2s, c2s', s)
  <2>1. ASSUME NEW l \in Listeners, Reserve(l) \/ ReserveReturn(l) \/ CloseListener(l) \/ Commit(l)
        PROVE  c2s' = c2s \/ \E u \in ListenTypes : c2s' = Append(c2s, Frame(u, l))
    BY <2>1 DEF Reserve, ReserveReturn, CloseListener, Commit, ListenTypes
  <2>2. ASSUME NEW l \in Listeners, NEW u \in ListenTypes
        PROVE  Frame(u, l) \in Frames /\ u \notin StreamTypes
    BY FrameType DEF ListenTypes, StreamTypes
  <2>3. ASSUME StartListen \/ HandleCommit \/ HandleUnlisten
        PROVE  c2s # <<>> /\ c2s' = Tail(c2s) /\ Head(c2s).type \notin StreamTypes
    BY <2>3 DEF StartListen, HandleCommit, HandleUnlisten, StreamTypes
  <2>4. \/ \E l \in Listeners : Reserve(l) \/ ReserveReturn(l) \/ CloseListener(l) \/ Commit(l)
        \/ StartListen \/ HandleCommit \/ HandleUnlisten
        \/ c2s' = c2s
    BY DEF ListenerOnly, OpenNext, RegisterListener, BindOK, BindError, Publish, SendOK, StartAccepting,
           StopWaiting, CloseSocket, AcceptError, DispatchListen, DispatchUnlisten, ShutdownListeners, Cancel
  <2> QED
    BY <2>1, <2>2, <2>3, <2>4 DEF Elsewhere
<1>6. Elsewhere(s2c, s2c', s)
  <2>1. ASSUME NEW l \in Listeners, OpenNext(l) \/ AcceptError(l)
        PROVE  s2c' = s2c \/ \E u \in ListenTypes : s2c' = Put(s2c, u, l)
    BY <2>1 DEF OpenNext, RegisterListener, BindOK, BindError, Publish, SendOK, AcceptError, ListenTypes
  <2>2. ASSUME NEW l \in Listeners, NEW u \in ListenTypes
        PROVE  Frame(u, l) \in Frames /\ u \notin StreamTypes
    BY FrameType DEF ListenTypes, StreamTypes
  <2>3. ASSUME StartListen
        PROVE  s2c' = s2c \/ \E l \in Listeners, u \in ListenTypes : s2c' = Put(s2c, u, l)
    <3>1. c2s # <<>> /\ Head(c2s).type = "listen" /\ (s2c' = s2c \/ s2c' = Put(s2c, "err", Head(c2s).id))
      BY <2>3 DEF StartListen
    <3>2. Head(c2s).id \in Listeners
      BY <1>0, <3>1, HeadType DEF ListenTypes
    <3> QED
      BY <3>1, <3>2 DEF ListenTypes
  <2>4. ASSUME DispatchListen \/ DispatchUnlisten
        PROVE  s2c # <<>> /\ s2c' = Tail(s2c) /\ Head(s2c).type \notin StreamTypes
    BY <2>4 DEF DispatchListen, DispatchUnlisten, StreamTypes
  <2>5. \/ \E l \in Listeners : OpenNext(l) \/ AcceptError(l)
        \/ StartListen \/ DispatchListen \/ DispatchUnlisten
        \/ s2c' = s2c
    BY DEF ListenerOnly, Reserve, ReserveReturn, CloseListener, Commit, StartAccepting, StopWaiting,
           CloseSocket, HandleCommit, HandleUnlisten, ShutdownListeners, Cancel
  <2> QED
    BY <2>1, <2>2, <2>3, <2>4, <2>5 DEF Elsewhere
<1>7. /\ \A t \in StreamTypes : InFlight(s2c', Frame(t, s)) <=> InFlight(s2c, Frame(t, s))
      /\ First(s2c', Frame("inbound", s), {Frame("reset", s)})
  BY <1>0, <1>6, OtherFrames
<1>8. \A t \in StreamTypes : InFlight(c2s', Frame(t, s)) <=> InFlight(c2s, Frame(t, s))
  BY <1>0, <1>5, OtherFrames
<1> QED
  BY <1>1, <1>2, <1>4, <1>7, <1>8 DEF Untouched

(* A step that concerns one stream only leaves the others alone. *)
LEMMA OthersUntouched ==
  ASSUME TypeInv, NEW s \in Conns, Stream(s), link' = link, server' = server,
         cstream'[s] = cstream[s], s \in failed' <=> s \in failed, s \in streams' <=> s \in streams,
         conn'[s] = conn[s], lis'[s] = lis[s], Elsewhere(c2s, c2s', s), Elsewhere(s2c, s2c', s),
         \A l \in Listeners : Holding(l, s)' => Holding(l, s) /\ serve'[l] = serve[l]
  PROVE  Untouched(s)
<1>0. /\ c2s \in Seq(Frames) /\ s2c \in Seq(Frames)
      /\ First(s2c, Frame("inbound", s), {Frame("reset", s)})
  BY DEF TypeInv, TypeOK, Stream
<1>1. /\ \A t \in StreamTypes : InFlight(s2c', Frame(t, s)) <=> InFlight(s2c, Frame(t, s))
      /\ First(s2c', Frame("inbound", s), {Frame("reset", s)})
  BY <1>0, OtherFrames
<1>2. \A t \in StreamTypes : InFlight(c2s', Frame(t, s)) <=> InFlight(c2s, Frame(t, s))
  BY <1>0, OtherFrames
<1> QED
  BY <1>1, <1>2 DEF Untouched

Fine(s) == InHand(s) /\ Stream(s)

(* The client's steps: dialling the WSL target and ending the bridge. *)
LEMMA LocalStep ==
  ASSUME TypeInv, NEW c \in Conns, LocalDialOK(c) \/ LocalDialError(c) \/ BridgeEnd(c),
         NEW s \in Conns, Fine(s)
  PROVE  Fine(s)'
<1>0. TypeOK /\ c2s \in Seq(Frames) /\ s2c \in Seq(Frames) /\ InHand(s) /\ Stream(s)
  BY DEF TypeInv, TypeOK, Fine
<1>1. /\ UNCHANGED <<failed, link, s2c, serverVars>>
      /\ cstream[c] \in {"dialing", "bridged"}
      /\ \E st \in {"bridged", "gone"} : cstream' = [cstream EXCEPT ![c] = st]
      /\ c2s' = c2s \/ (cstream' = [cstream EXCEPT ![c] = "gone"]
                          /\ \E t \in {"close", "reset"} : c2s' = Put(c2s, t, c))
  BY DEF LocalDialOK, LocalDialError, BridgeEnd
<1>2. \A l \in Listeners : Holding(l, s)' <=> Holding(l, s)
  BY <1>1 DEF Holding, serverVars
<1>3. CASE s # c
  <2>1. Elsewhere(c2s, c2s', s) /\ Elsewhere(s2c, s2c', s)
    BY <1>1, <1>3, FrameType DEF Elsewhere, StreamTypes
  <2>2. cstream'[s] = cstream[s]
    BY <1>0, <1>1, <1>3 DEF TypeOK
  <2>3. Untouched(s)
    BY <1>0, <1>1, <1>2, <2>1, <2>2, OthersUntouched DEF serverVars
  <2> QED
    BY <1>0, <2>3, UntouchedKept DEF Fine
<1>4. CASE s = c
  <2>1. \A l \in Listeners : ~Holding(l, s)
    BY <1>0, <1>1, <1>4 DEF InHand
  <2>2. ~Announced(s) /\ ~Ending(s) /\ conn[s] # "none"
    BY <1>0, <1>1, <1>4 DEF Stream
  <2>3. (Announced(s)' <=> Announced(s)) /\ (Resetting(s)' <=> Resetting(s))
        /\ First(s2c', Frame("inbound", s), {Frame("reset", s)})
    BY <1>0, <1>1 DEF Announced, Resetting, Stream
  <2>4. Ending(s)' => cstream'[s] = "gone" /\ link = "up"
    <3>1. CASE c2s' = c2s
      BY <2>2, <3>1 DEF Ending
    <3>2. ASSUME NEW t \in {"close", "reset"}, cstream' = [cstream EXCEPT ![c] = "gone"], c2s' = Put(c2s, t, c)
          PROVE  cstream'[s] = "gone" /\ (Ending(s)' => link = "up")
      <4>1. Frame(t, c) \in Frames
        BY FrameType DEF StreamTypes
      <4>2. \A f : InFlight(c2s', f) <=> InFlight(c2s, f) \/ (link = "up" /\ f = Frame(t, c))
        BY <1>0, <3>2, <4>1, InFlightPut
      <4> QED
        BY <1>0, <1>4, <2>2, <3>2, <4>2 DEF Ending, TypeOK
    <3> QED
      BY <1>1, <3>1, <3>2
  <2>5. cstream'[s] \in {"bridged", "gone"} /\ (s \in RegisteredStreams)
    BY <1>0, <1>1, <1>4 DEF RegisteredStreams, TypeOK
  <2>6. InHand(s)'
    BY <1>2, <2>1 DEF InHand
  <2>7. Stream(s)'
    BY <1>0, <1>1, <2>2, <2>3, <2>4, <2>5 DEF Stream, serverVars
  <2> QED
    BY <2>6, <2>7 DEF Fine
<1> QED
  BY <1>3, <1>4

(* INBOUND_OPEN reaches the client: the stream is served or refused. *)
LEMMA DispatchInboundStep ==
  ASSUME TypeInv, DispatchInbound, NEW s \in Conns, Fine(s)
  PROVE  Fine(s)'
<1> DEFINE c == Head(s2c).id
<1>0. TypeOK /\ c2s \in Seq(Frames) /\ s2c \in Seq(Frames) /\ InHand(s) /\ Stream(s)
  BY DEF TypeInv, TypeOK, Fine
<1>1. /\ UNCHANGED <<failed, link, serverVars>>
      /\ s2c # <<>> /\ Head(s2c).type = "inbound" /\ s2c' = Tail(s2c)
      /\ \/ c2s' = c2s /\ cstream' = [cstream EXCEPT ![c] = "dialing"]
         \/ c2s' = Append(c2s, Frame("reset", c)) /\ cstream' = cstream
  BY DEF DispatchInbound
<1>2. \A l \in Listeners : Holding(l, s)' <=> Holding(l, s)
  BY <1>1 DEF Holding, serverVars
<1>h. Head(s2c) = Frame("inbound", c) /\ c \in Conns
  BY <1>0, <1>1, HeadType DEF StreamTypes
<1> HIDE DEF c
<1>3. CASE s # c
  <2>1. Elsewhere(s2c, s2c', s)
    BY <1>1, <1>3 DEF Elsewhere, c
  <2>2. Elsewhere(c2s, c2s', s)
    BY <1>1, <1>3, <1>h, FrameType DEF Elsewhere, StreamTypes
  <2>3. cstream'[s] = cstream[s]
    BY <1>0, <1>1, <1>3 DEF TypeOK
  <2>4. Untouched(s)
    BY <1>0, <1>1, <1>2, <2>1, <2>2, <2>3, OthersUntouched DEF serverVars
  <2> QED
    BY <1>0, <2>4, UntouchedKept DEF Fine
<1>4. CASE s = c
  <2>1. \A f : InFlight(s2c, f) <=> f = Frame("inbound", s) \/ InFlight(s2c', f)
    BY <1>0, <1>1, <1>4, <1>h, InFlightTail
  <2>2. /\ First(s2c', Frame("inbound", s), {Frame("reset", s)})
        /\ ~InFlight(s2c', Frame("inbound", s))
    BY <1>0, <1>1, <1>4, <1>h, FirstTail DEF Stream
  <2>3. Announced(s) /\ ~Announced(s)' /\ (Resetting(s)' <=> Resetting(s))
    BY <2>1, <2>2, FrameEq DEF Announced, Resetting
  <2>4. /\ cstream[s] = "none" /\ ~Ending(s) /\ conn[s] # "none" /\ link # "down"
        /\ s \in streams \/ Resetting(s)
    BY <1>0, <2>3 DEF Stream
  <2>5. InHand(s)'
    BY <1>0, <1>2, <2>3 DEF InHand
  <2>6. Ending(s)' => cstream'[s] = "none"
    BY <1>1, <2>4 DEF Ending
  <2>7. streams' = streams /\ conn' = conn /\ failed' = failed /\ link' = link
    BY <1>1 DEF serverVars
  <2>8. cstream'[s] \in {"none", "dialing"}
    BY <1>0, <1>1, <2>4 DEF TypeOK
  <2>9. Stream(s)'
    BY <2>2, <2>3, <2>4, <2>6, <2>7, <2>8 DEF Stream
  <2> QED
    BY <2>5, <2>9 DEF Fine
<1> QED
  BY <1>3, <1>4

(* RESET reaches the client; no INBOUND_OPEN of the stream is behind it. *)
LEMMA DispatchResetStep ==
  ASSUME TypeInv, DispatchReset, NEW s \in Conns, Fine(s)
  PROVE  Fine(s)'
<1> DEFINE c == Head(s2c).id
<1>0. TypeOK /\ c2s \in Seq(Frames) /\ s2c \in Seq(Frames) /\ InHand(s) /\ Stream(s)
  BY DEF TypeInv, TypeOK, Fine
<1>1. /\ UNCHANGED <<cstream, link, c2s, serverVars>>
      /\ s2c # <<>> /\ Head(s2c).type = "reset" /\ s2c' = Tail(s2c)
      /\ failed' = failed \cup ({c} \cap RegisteredStreams)
  BY DEF DispatchReset
<1>2. \A l \in Listeners : Holding(l, s)' <=> Holding(l, s)
  BY <1>1 DEF Holding, serverVars
<1>h. Head(s2c) = Frame("reset", c) /\ c \in Conns
  BY <1>0, <1>1, HeadType DEF StreamTypes
<1> HIDE DEF c
<1>3. CASE s # c
  <2>1. Elsewhere(s2c, s2c', s) /\ Elsewhere(c2s, c2s', s)
    BY <1>1, <1>3 DEF Elsewhere, c
  <2>2. Untouched(s)
    BY <1>0, <1>1, <1>2, <1>3, <2>1, OthersUntouched DEF serverVars
  <2> QED
    BY <1>0, <2>2, UntouchedKept DEF Fine
<1>4. CASE s = c
  <2>1. \A f : InFlight(s2c, f) <=> f = Frame("reset", s) \/ InFlight(s2c', f)
    BY <1>0, <1>1, <1>4, <1>h, InFlightTail
  <2>2. /\ First(s2c', Frame("inbound", s), {Frame("reset", s)})
        /\ ~InFlight(s2c', Frame("inbound", s))
    BY <1>0, <1>1, <1>4, <1>h, FirstTail DEF Stream
  <2>3. Resetting(s) /\ ~Announced(s)' /\ (Ending(s)' <=> Ending(s))
    BY <1>1, <2>1, <2>2 DEF Announced, Resetting, Ending
  <2>4. conn[s] # "none" /\ link # "down"
    BY <1>0, <2>3 DEF Stream
  <2>5. InHand(s)'
    BY <1>0, <1>2, <2>3 DEF InHand
  <2>6. s \in RegisteredStreams' => s \in failed'
    BY <1>1, <1>4 DEF RegisteredStreams
  <2>7. conn' = conn /\ link' = link /\ cstream' = cstream
    BY <1>1 DEF serverVars
  <2>8. Stream(s)'
    BY <1>0, <2>2, <2>3, <2>4, <2>6, <2>7 DEF Stream
  <2> QED
    BY <2>5, <2>8 DEF Fine
<1> QED
  BY <1>3, <1>4

(* The link goes down: nothing is under way, and the client fails its streams. *)
LEMMA LinkDownStep ==
  ASSUME TypeInv, LinkDown, NEW s \in Conns, Fine(s)
  PROVE  Fine(s)'
<1>0. InHand(s) /\ Stream(s)
  BY DEF Fine
<1>1. /\ UNCHANGED <<cstream, serverVars>> /\ c2s' = <<>> /\ s2c' = <<>>
      /\ failed' = failed \cup RegisteredStreams
  BY DEF LinkDown
<1>2. \A l \in Listeners : Holding(l, s)' <=> Holding(l, s)
  BY <1>1 DEF Holding, serverVars
<1>3. ~Announced(s)' /\ ~Resetting(s)' /\ ~Ending(s)'
      /\ First(s2c', Frame("inbound", s), {Frame("reset", s)})
  BY <1>1, ChannelEmpty DEF Announced, Resetting, Ending
<1>4. s \in RegisteredStreams' => s \in failed'
  BY <1>1 DEF RegisteredStreams
<1>5. InHand(s)'
  BY <1>0, <1>1, <1>2, <1>3 DEF InHand, serverVars
<1>6. Stream(s)'
  BY <1>0, <1>1, <1>3, <1>4 DEF Stream, serverVars
<1> QED
  BY <1>5, <1>6 DEF Fine

(* CLOSE and RESET from the client: the client does not serve the stream. *)
LEMMA HandleCloseStep ==
  ASSUME TypeInv, HandleClose, NEW s \in Conns, Fine(s)
  PROVE  Fine(s)'
<1> DEFINE c == Head(c2s).id
<1>0. TypeOK /\ c2s \in Seq(Frames) /\ s2c \in Seq(Frames) /\ InHand(s) /\ Stream(s)
  BY DEF TypeInv, TypeOK, Fine
<1>1. /\ UNCHANGED <<cstream, failed, link, s2c, server, serve, cur, lis>>
      /\ c2s # <<>> /\ Head(c2s).type \in {"close", "reset"} /\ c2s' = Tail(c2s)
      /\ streams' = streams \ {c}
      /\ conn' = [d \in Conns |-> IF d \in {c} \cap streams THEN "closed" ELSE conn[d]]
  BY DEF HandleClose, RemoveStreams, clientVars
<1>2. \A l \in Listeners : Holding(l, s)' <=> Holding(l, s)
  BY <1>1 DEF Holding
<1>h. Head(c2s) = Frame(Head(c2s).type, c) /\ c \in Conns
  BY <1>0, <1>1, HeadType DEF StreamTypes
<1> HIDE DEF c
<1>3. CASE s # c
  <2>1. Elsewhere(s2c, s2c', s) /\ Elsewhere(c2s, c2s', s)
    BY <1>1, <1>3 DEF Elsewhere, c
  <2>2. conn'[s] = conn[s]
    BY <1>0, <1>1, <1>3 DEF TypeOK
  <2>3. Untouched(s)
    BY <1>0, <1>1, <1>2, <1>3, <2>1, <2>2, OthersUntouched
  <2> QED
    BY <1>0, <2>3, UntouchedKept DEF Fine
<1>4. CASE s = c
  <2>1. \A f : InFlight(c2s, f) <=> f = Head(c2s) \/ InFlight(c2s', f)
    BY <1>0, <1>1, InFlightTail
  <2>2. Ending(s) /\ (Ending(s)' => Ending(s))
    BY <1>1, <1>4, <1>h, <2>1 DEF Ending
  <2>3. (Announced(s)' <=> Announced(s)) /\ (Resetting(s)' <=> Resetting(s))
        /\ First(s2c', Frame("inbound", s), {Frame("reset", s)})
    BY <1>0, <1>1 DEF Announced, Resetting, Stream
  <2>4. ~Announced(s) /\ cstream[s] \in {"none", "gone"} /\ conn[s] # "none" /\ link # "down"
    BY <1>0, <2>2 DEF Stream
  <2>5. InHand(s)'
    BY <1>0, <1>2, <2>2 DEF InHand
  <2>6. conn'[s] # "none" /\ s \notin RegisteredStreams'
    BY <1>0, <1>1, <2>4 DEF RegisteredStreams, TypeOK
  <2>7. Stream(s)'
    BY <1>0, <1>1, <2>2, <2>3, <2>4, <2>6 DEF Stream
  <2> QED
    BY <2>5, <2>7 DEF Fine
<1> QED
  BY <1>3, <1>4

(* The last step of shutdown: the link is down, so the client has failed its *)
(* streams.                                                                  *)
LEMMA ShutdownStreamsStep ==
  ASSUME TypeInv, ShutdownStreams, link = "down", NEW s \in Conns, Fine(s)
  PROVE  Fine(s)'
<1>0. TypeOK /\ InHand(s) /\ Stream(s)
  BY DEF TypeInv, Fine
<1>1. /\ UNCHANGED <<cstream, failed, link, c2s, s2c, serve, cur, lis>> /\ server' = "down"
      /\ streams' = {} /\ conn' = [d \in Conns |-> IF d \in streams THEN "closed" ELSE conn[d]]
  BY DEF ShutdownStreams, RemoveStreams, clientVars
<1>2. \A l \in Listeners : Holding(l, s)' <=> Holding(l, s)
  BY <1>1 DEF Holding
<1>3. /\ (Announced(s)' <=> Announced(s)) /\ (Resetting(s)' <=> Resetting(s)) /\ (Ending(s)' <=> Ending(s))
      /\ First(s2c', Frame("inbound", s), {Frame("reset", s)})
      /\ (s \in RegisteredStreams' <=> s \in RegisteredStreams)
  BY <1>0, <1>1 DEF Announced, Resetting, Ending, Stream, RegisteredStreams
<1>4. conn[s] # "none" => conn'[s] # "none"
  BY <1>0, <1>1 DEF TypeOK
<1>5. InHand(s)'
  BY <1>0, <1>1, <1>2, <1>3, <1>4 DEF InHand
<1>6. Stream(s)'
  BY <1>0, <1>1, <1>3, <1>4 DEF Stream
<1> QED
  BY <1>5, <1>6 DEF Fine

(* A failed connection: the RESET goes out with the removal, or there is no  *)
(* link and the client has failed the stream.                                *)
LEMMA RemoteErrorStep ==
  ASSUME TypeInv, NEW c \in Conns, RemoteError(c), NEW s \in Conns, Fine(s)
  PROVE  Fine(s)'
<1>0. TypeOK /\ c2s \in Seq(Frames) /\ s2c \in Seq(Frames) /\ InHand(s) /\ Stream(s)
  BY DEF TypeInv, TypeOK, Fine
<1>1. /\ UNCHANGED <<cstream, failed, link, c2s, server, serve, cur, lis>>
      /\ c \in streams /\ \A l \in Listeners : ~(serve[l] = "announce" /\ cur[l] = c)
      /\ s2c' = Put(s2c, "reset", c) /\ streams' = streams \ {c}
      /\ conn' = [d \in Conns |-> IF d \in {c} \cap streams THEN "closed" ELSE conn[d]]
  BY DEF RemoteError, RemoveStreams, clientVars
<1>2. \A l \in Listeners : Holding(l, s)' <=> Holding(l, s)
  BY <1>1 DEF Holding
<1>f. Frame("reset", c) \in Frames
  BY FrameType DEF StreamTypes
<1>3. CASE s # c
  <2>1. Elsewhere(s2c, s2c', s) /\ Elsewhere(c2s, c2s', s)
    BY <1>1, <1>3, <1>f DEF Elsewhere
  <2>2. conn'[s] = conn[s]
    BY <1>0, <1>1, <1>3 DEF TypeOK
  <2>3. Untouched(s)
    BY <1>0, <1>1, <1>2, <1>3, <2>1, <2>2, OthersUntouched
  <2> QED
    BY <1>0, <2>3, UntouchedKept DEF Fine
<1>4. CASE s = c
  <2>1. \A f : InFlight(s2c', f) <=> InFlight(s2c, f) \/ (link = "up" /\ f = Frame("reset", s))
    BY <1>0, <1>1, <1>4, <1>f, InFlightPut
  <2>2. First(s2c', Frame("inbound", s), {Frame("reset", s)})
    <3>1. Frame("inbound", s) # Frame("reset", c)
      BY FrameEq
    <3> QED
      BY <1>0, <1>1, <1>f, <3>1, FirstPut DEF Stream
  <2>3. /\ (Announced(s)' <=> Announced(s)) /\ (Resetting(s)' <=> Resetting(s) \/ link = "up")
        /\ (Ending(s)' <=> Ending(s))
    BY <1>1, <2>1, FrameEq DEF Announced, Resetting, Ending
  <2>4. \A l \in Listeners : ~Holding(l, s)
    BY <1>0, <1>1, <1>4 DEF InHand, Holding
  <2>5. InHand(s)'
    BY <1>2, <2>4 DEF InHand
  <2>6. conn'[s] # "none" /\ (s \in RegisteredStreams' <=> s \in RegisteredStreams) /\ link \in {"up", "down"}
    BY <1>0, <1>1, <1>4 DEF RegisteredStreams, TypeOK
  <2>7. Stream(s)'
    BY <1>0, <1>1, <2>2, <2>3, <2>6 DEF Stream
  <2> QED
    BY <2>5, <2>7 DEF Fine
<1> QED
  BY <1>3, <1>4

(* registerInboundStream, or the connection is closed at the stream limit. *)
LEMMA RegisterInboundStep ==
  ASSUME TypeInv, NEW k \in Listeners, RegisterInbound(k), NEW s \in Conns, Fine(s)
  PROVE  Fine(s)'
<1>0. TypeOK /\ InHand(s) /\ Stream(s) /\ (serve[k] = "accepted" => cur[k] \in Conns)
  BY DEF TypeInv, Fine
<1>1. /\ UNCHANGED <<cstream, failed, link, c2s, s2c, server, cur, lis>> /\ serve[k] = "accepted"
      /\ \/ streams' = streams \cup {cur[k]} /\ serve' = [serve EXCEPT ![k] = "announce"] /\ conn' = conn
         \/ /\ streams' = streams /\ serve' = [serve EXCEPT ![k] = "accepting"]
            /\ conn' = [conn EXCEPT ![cur[k]] = "closed"]
  BY DEF RegisterInbound, clientVars
<1>2. \A l \in Listeners : /\ l # k => (Holding(l, s)' <=> Holding(l, s)) /\ serve'[l] = serve[l]
                          /\ serve'[k] \in {"announce", "accepting"}
  BY <1>0, <1>1 DEF Holding, TypeOK
<1>3. CASE s # cur[k]
  <2>1. Elsewhere(s2c, s2c', s) /\ Elsewhere(c2s, c2s', s)
    BY <1>1 DEF Elsewhere
  <2>2. conn'[s] = conn[s]
    BY <1>0, <1>1, <1>3 DEF TypeOK
  <2>3. ~Holding(k, s)'
    BY <1>1, <1>3 DEF Holding
  <2>4. \A l \in Listeners : Holding(l, s)' => Holding(l, s) /\ serve'[l] = serve[l]
    BY <1>2, <2>3
  <2>5. s \in streams' <=> s \in streams
    BY <1>1, <1>3
  <2>6. Untouched(s)
    BY <1>0, <1>1, <2>1, <2>2, <2>4, <2>5, OthersUntouched
  <2> QED
    BY <1>0, <2>6, UntouchedKept DEF Fine
<1>4. CASE s = cur[k]
  <2>1. /\ lis[s] = k /\ conn[s] # "none" /\ cstream[s] = "none"
        /\ ~Announced(s) /\ ~Resetting(s) /\ ~Ending(s) /\ s \notin streams
    BY <1>0, <1>1, <1>4 DEF InHand, Holding
  <2>2. \A l \in Listeners : l # k => ~Holding(l, s)
    BY <1>0, <2>1 DEF InHand
  <2>3. ~Announced(s)' /\ ~Resetting(s)' /\ ~Ending(s)'
        /\ First(s2c', Frame("inbound", s), {Frame("reset", s)})
    BY <1>0, <1>1, <2>1 DEF Announced, Resetting, Ending, Stream
  <2>4. conn'[s] # "none" /\ s \notin RegisteredStreams'
    BY <1>0, <1>1, <1>4, <2>1 DEF RegisteredStreams, TypeOK
  <2>5. serve'[k] = "announce" => s \in streams'
    BY <1>0, <1>1, <1>4 DEF TypeOK
  <2>6. InHand(s)'
    <3>1. ASSUME NEW l \in Listeners, Holding(l, s)' PROVE l = k /\ serve'[k] = "announce"
      BY <1>2, <2>2, <3>1 DEF Holding
    <3> QED
      BY <1>1, <2>1, <2>3, <2>4, <2>5, <3>1 DEF InHand
  <2>7. Stream(s)'
    BY <1>0, <1>1, <2>1, <2>3, <2>4 DEF Stream
  <2> QED
    BY <2>6, <2>7 DEF Fine
<1> QED
  BY <1>3, <1>4

(* INBOUND_OPEN goes out while the stream is registered; if it fails the     *)
(* link is down.                                                             *)
LEMMA SendInboundStep ==
  ASSUME TypeInv, NEW k \in Listeners, SendInbound(k), NEW s \in Conns, Fine(s)
  PROVE  Fine(s)'
<1>0. TypeOK /\ c2s \in Seq(Frames) /\ s2c \in Seq(Frames) /\ InHand(s) /\ Stream(s)
      /\ (serve[k] = "announce" => cur[k] \in Conns)
  BY DEF TypeInv, TypeOK, Fine
<1>1. /\ UNCHANGED <<cstream, failed, link, c2s, server, cur, lis>> /\ serve[k] = "announce"
      /\ \E st \in {"accepting", "done"} : serve' = [serve EXCEPT ![k] = st]
      /\ \/ server = "serving" /\ s2c' = Put(s2c, "inbound", cur[k]) /\ streams' = streams /\ conn' = conn
         \/ /\ link = "down" /\ s2c' = s2c /\ streams' = streams \ {cur[k]}
            /\ conn' = [d \in Conns |-> IF d \in {cur[k]} \cap streams THEN "closed" ELSE conn[d]]
  BY DEF SendInbound, RemoveStreams, clientVars
<1>2. \A l \in Listeners : /\ l # k => (Holding(l, s)' <=> Holding(l, s)) /\ serve'[l] = serve[l]
                          /\ ~Holding(k, s)'
  BY <1>0, <1>1 DEF Holding, TypeOK
<1>f. Frame("inbound", cur[k]) \in Frames
  BY <1>0, <1>1, FrameType DEF StreamTypes
<1>3. CASE s # cur[k]
  <2>1. Elsewhere(s2c, s2c', s) /\ Elsewhere(c2s, c2s', s)
    BY <1>1, <1>3, <1>f DEF Elsewhere
  <2>2. conn'[s] = conn[s]
    BY <1>0, <1>1, <1>3 DEF TypeOK
  <2>3. \A l \in Listeners : Holding(l, s)' => Holding(l, s) /\ serve'[l] = serve[l]
    BY <1>2
  <2>4. s \in streams' <=> s \in streams
    BY <1>1, <1>3
  <2>5. Untouched(s)
    BY <1>0, <1>1, <2>1, <2>2, <2>3, <2>4, OthersUntouched
  <2> QED
    BY <1>0, <2>5, UntouchedKept DEF Fine
<1>4. CASE s = cur[k]
  <2>1. /\ lis[s] = k /\ conn[s] # "none" /\ cstream[s] = "none"
        /\ ~Announced(s) /\ ~Resetting(s) /\ ~Ending(s) /\ (s \in streams \/ server # "serving")
    BY <1>0, <1>1, <1>4 DEF InHand, Holding
  <2>2. \A l \in Listeners : ~Holding(l, s)'
    BY <1>0, <1>2, <2>1 DEF InHand
  <2>3. InHand(s)'
    BY <2>2 DEF InHand
  <2>4. First(s2c', Frame("inbound", s), {Frame("reset", s)})
    <3>1. CASE s2c' = s2c
      BY <1>0, <3>1 DEF Stream
    <3>2. CASE s2c' = Put(s2c, "inbound", cur[k])
      BY <1>0, <1>4, <1>f, <2>1, <3>2, FirstPut DEF Stream, Announced, Resetting
    <3> QED
      BY <1>1, <3>1, <3>2
  <2>5. ~Resetting(s)' /\ ~Ending(s)' /\ (Announced(s)' => link = "up" /\ s \in streams')
    <3>1. CASE s2c' = s2c
      BY <1>1, <2>1, <3>1 DEF Announced, Resetting, Ending
    <3>2. CASE server = "serving" /\ s2c' = Put(s2c, "inbound", cur[k]) /\ streams' = streams
      <4>1. \A f : InFlight(s2c', f) <=> InFlight(s2c, f) \/ (link = "up" /\ f = Frame("inbound", s))
        BY <1>0, <1>4, <1>f, <3>2, InFlightPut
      <4> QED
        BY <1>1, <2>1, <3>2, <4>1, FrameEq DEF Announced, Resetting, Ending
    <3> QED
      BY <1>1, <3>1, <3>2
  <2>6. conn'[s] # "none" /\ s \notin RegisteredStreams'
    BY <1>0, <1>1, <1>4, <2>1 DEF RegisteredStreams, TypeOK
  <2>7. Stream(s)'
    BY <1>1, <2>1, <2>4, <2>5, <2>6 DEF Stream
  <2> QED
    BY <2>3, <2>7 DEF Fine
<1> QED
  BY <1>3, <1>4

(* A Windows client connects: its stream is new. *)
LEMMA AcceptStep ==
  ASSUME TypeInv, NEW k \in Listeners, NEW c \in Conns, Accept(k, c), NEW s \in Conns, Fine(s)
  PROVE  Fine(s)'
<1>0. TypeOK /\ InHand(s) /\ Stream(s)
  BY DEF TypeInv, Fine
<1>1. /\ UNCHANGED <<cstream, failed, link, c2s, s2c, server, streams>>
      /\ serve[k] = "accepting" /\ conn[c] = "none"
      /\ serve' = [serve EXCEPT ![k] = "accepted"] /\ cur' = [cur EXCEPT ![k] = c]
      /\ lis' = [lis EXCEPT ![c] = k] /\ conn' = [conn EXCEPT ![c] = "open"]
  BY DEF Accept, clientVars
<1>2. /\ \A l \in Listeners : l # k => (Holding(l, s)' <=> Holding(l, s)) /\ serve'[l] = serve[l]
      /\ serve'[k] = "accepted" /\ cur'[k] = c
  BY <1>0, <1>1 DEF Holding, TypeOK
<1>3. CASE s # c
  <2>1. Elsewhere(s2c, s2c', s) /\ Elsewhere(c2s, c2s', s)
    BY <1>1 DEF Elsewhere
  <2>2. conn'[s] = conn[s] /\ lis'[s] = lis[s]
    BY <1>0, <1>1, <1>3 DEF TypeOK
  <2>3. ~Holding(k, s)'
    BY <1>2, <1>3 DEF Holding
  <2>4. \A l \in Listeners : Holding(l, s)' => Holding(l, s) /\ serve'[l] = serve[l]
    BY <1>2, <2>3
  <2>5. Untouched(s)
    BY <1>0, <1>1, <2>1, <2>2, <2>4, OthersUntouched
  <2> QED
    BY <1>0, <2>5, UntouchedKept DEF Fine
<1>4. CASE s = c
  <2>1. \A l \in Listeners : ~Holding(l, s)
    BY <1>0, <1>1, <1>4 DEF InHand
  <2>2. s \notin streams /\ ~Announced(s) /\ ~Resetting(s) /\ ~Ending(s) /\ cstream[s] = "none"
    BY <1>0, <1>1, <1>4 DEF Stream
  <2>3. ~Announced(s)' /\ ~Resetting(s)' /\ ~Ending(s)'
        /\ First(s2c', Frame("inbound", s), {Frame("reset", s)})
    BY <1>0, <1>1, <2>2 DEF Announced, Resetting, Ending, Stream
  <2>4. conn'[s] # "none" /\ lis'[s] = k /\ s \notin RegisteredStreams'
    BY <1>0, <1>1, <1>4, <2>2 DEF RegisteredStreams, TypeOK
  <2>5. InHand(s)'
    BY <1>1, <1>2, <2>1, <2>2, <2>3, <2>4 DEF InHand
  <2>6. Stream(s)'
    BY <1>1, <2>2, <2>3, <2>4 DEF Stream
  <2> QED
    BY <2>5, <2>6 DEF Fine
<1> QED
  BY <1>3, <1>4

(* Shutdown starts only when the link is down. *)
LEMMA DownFirst ==
  ASSUME TypeInv, Next, server # "serving" => link = "down"
  PROVE  (server # "serving" => link = "down")'
<1>1. CASE LinkDown
  BY <1>1 DEF LinkDown
<1>2. CASE Cancel
  BY <1>2 DEF Cancel
<1>3. CASE ShutdownListeners \/ ShutdownStreams
  BY <1>3 DEF ShutdownListeners, ShutdownStreams
<1>4. LinkDown \/ Cancel \/ ShutdownListeners \/ ShutdownStreams \/ UNCHANGED <<link, server>>
  BY DEF Next, Reserve, ReserveReturn, CloseListener, Commit, LocalDialOK, LocalDialError, BridgeEnd,
         RemoteError, DispatchNext, DispatchListen, DispatchUnlisten, DispatchInbound, DispatchReset,
         ReaderNext, StartListen, HandleCommit, HandleUnlisten, HandleClose,
         OpenNext, RegisterListener, BindOK, BindError, Publish, SendOK, ServeNext, StartAccepting,
         StopWaiting, RegisterInbound, SendInbound, CloseSocket, AcceptError, Accept, serverVars
<1> QED
  BY <1>1, <1>2, <1>3, <1>4

(* Every step keeps the agreement about inbound streams. *)
LEMMA InboundStep == TypeInv /\ InboundInv /\ [Next]_vars => InboundInv'
<1>1. CASE UNCHANGED vars
  BY <1>1 DEF InboundInv, InHand, Stream, Holding, Announced, Resetting, Ending, RegisteredStreams,
              vars, clientVars, serverVars
<1> SUFFICES ASSUME TypeInv, InboundInv, Next PROVE InboundInv'
  BY <1>1
<1>2. (server # "serving" => link = "down")'
  BY DownFirst DEF InboundInv
<1>3. ASSUME NEW s \in Conns PROVE Fine(s)'
  <2>0. Fine(s)
    BY DEF InboundInv, Fine
  <2>1. CASE ListenerOnly
    BY <2>0, <2>1, ListenerOnlyUntouched, UntouchedKept DEF Fine
  <2>2. ASSUME NEW c \in Conns, LocalDialOK(c) \/ LocalDialError(c) \/ BridgeEnd(c) \/ RemoteError(c)
        PROVE  Fine(s)'
    BY <2>0, <2>2, LocalStep, RemoteErrorStep
  <2>3. CASE DispatchInbound \/ DispatchReset \/ LinkDown \/ HandleClose
    BY <2>0, <2>3, DispatchInboundStep, DispatchResetStep, LinkDownStep, HandleCloseStep
  <2>4. CASE ShutdownStreams
    <3>1. link = "down"
      BY <2>4 DEF ShutdownStreams, InboundInv
    <3> QED
      BY <2>0, <2>4, <3>1, ShutdownStreamsStep
  <2>5. ASSUME NEW l \in Listeners, RegisterInbound(l) \/ SendInbound(l) \/ \E c \in Conns : Accept(l, c)
        PROVE  Fine(s)'
    BY <2>0, <2>5, RegisterInboundStep, SendInboundStep, AcceptStep
  <2> QED
    BY <2>1, <2>2, <2>3, <2>4, <2>5 DEF Next, DispatchNext, ReaderNext, ServeNext, ListenerOnly
<1> QED
  BY <1>2, <1>3 DEF InboundInv, Fine

(* No connection exists at first. *)
LEMMA InboundInit == Init => InboundInv
<1> SUFFICES ASSUME Init PROVE InboundInv
  OBVIOUS
<1>1. server = "serving" /\ link = "up" /\ streams = {} /\ c2s = <<>> /\ s2c = <<>>
  BY DEF Init
<1>2. ASSUME NEW s \in Conns PROVE InHand(s) /\ Stream(s)
  <2>1. cstream[s] = "none" /\ \A l \in Listeners : ~Holding(l, s)
    BY DEF Init, Holding
  <2>2. ~Announced(s) /\ ~Resetting(s) /\ ~Ending(s) /\ First(s2c, Frame("inbound", s), {Frame("reset", s)})
    BY <1>1, ChannelEmpty DEF Announced, Resetting, Ending
  <2> QED
    BY <1>1, <2>1, <2>2 DEF InHand, Stream, RegisteredStreams
<1> QED
  BY <1>1, <1>2 DEF InboundInv

(* The agreement about inbound streams holds throughout. *)
THEOREM InboundInvHolds == Spec => []InboundInv
BY InboundInit, InboundStep, TypeInvHolds, PTL DEF Spec

(* The server never drops silently an inbound stream that the client serves: *)
(* it is registered on the server or its RESET is on the way.                *)
THEOREM InboundStreamsAgreed == Spec => []InboundAgreed
<1>1. TypeInv /\ InboundInv => InboundAgreed
  BY DEF InboundInv, Stream, InboundAgreed, Resetting, InFlight, RegisteredStreams
<1> QED
  BY InboundInvHolds, TypeInvHolds, <1>1, PTL

-----------------------------------------------------------------------------
(* Commits. *)

(* A commit is not taken back. *)
LEMMA CommitStays ==
  ASSUME Next
  PROVE  commit \subseteq commit'
<1>1. (\E l \in Listeners : Commit(l)) \/ commit' = commit
  BY DEF Next, Reserve, ReserveReturn, CloseListener, LocalDialOK, LocalDialError, BridgeEnd, RemoteError,
         DispatchNext, DispatchListen, DispatchUnlisten, DispatchInbound, DispatchReset, LinkDown, ReaderNext,
         StartListen, HandleCommit, HandleUnlisten, HandleClose, Cancel, ShutdownListeners, ShutdownStreams,
         OpenNext, RegisterListener, BindOK, BindError, Publish, SendOK, ServeNext, StartAccepting,
         StopWaiting, RegisterInbound, SendInbound, CloseSocket, AcceptError, Accept, clientVars
<1> QED
  BY <1>1 DEF Commit

(* Only Commit puts a LISTEN_COMMIT under way. *)
LEMMA CommitUnderWay ==
  ASSUME TypeInv, Next, NEW l \in Listeners, InFlight(c2s', Frame("commit", l))
  PROVE  InFlight(c2s, Frame("commit", l)) \/ l \in commit'
<1>0. c2s \in Seq(Frames)
  BY DEF TypeInv, TypeOK
<1>1. CASE C2SShrinks
  BY <1>0, <1>1, ShrinkKeeps DEF C2SShrinks
<1>2. CASE C2SGrows
  <2>1. Commit(l) \/ \E g \in Frames : c2s' = Append(c2s, g) /\ g # Frame("commit", l)
    BY <1>2, FrameType, FrameEq DEF C2SGrows, ListenTypes, StreamTypes
  <2>2. Commit(l) => l \in commit'
    BY DEF Commit
  <2>3. ASSUME NEW g \in Frames, c2s' = Append(c2s, g), g # Frame("commit", l)
        PROVE  InFlight(c2s, Frame("commit", l))
    BY <1>0, <2>3, InFlightAppend
  <2> QED
    BY <2>1, <2>2, <2>3
<1> QED
  BY <1>1, <1>2, C2SStep

(* Only a LISTEN_COMMIT commits a listener on the server. *)
LEMMA CommittedStep ==
  ASSUME TypeInv, CommitInv, Next
  PROVE  committed' \subseteq commit
<1>1. CASE HandleCommit
  <2>1. c2s \in Seq(Frames) /\ c2s # <<>> /\ Head(c2s).type = "commit"
        /\ committed' = committed \cup ({Head(c2s).id} \cap lmap)
    BY <1>1 DEF HandleCommit, TypeInv, TypeOK
  <2>2. Head(c2s) = Frame("commit", Head(c2s).id) /\ Head(c2s).id \in Listeners
    BY <2>1, HeadType DEF ListenTypes
  <2>3. InFlight(c2s, Frame("commit", Head(c2s).id))
    BY <2>1, <2>2, InFlightTail
  <2>4. Head(c2s).id \in commit
    BY <2>2, <2>3 DEF CommitInv
  <2> QED
    BY <2>1, <2>4 DEF CommitInv
<1>2. HandleCommit \/ committed' = committed
  BY DEF Next, Reserve, ReserveReturn, CloseListener, Commit, LocalDialOK, LocalDialError, BridgeEnd,
         RemoteError, DispatchNext, DispatchListen, DispatchUnlisten, DispatchInbound, DispatchReset, LinkDown,
         ReaderNext, StartListen, HandleUnlisten, HandleClose, Cancel, ShutdownListeners, ShutdownStreams,
         OpenNext, RegisterListener, BindOK, BindError, Publish, SendOK, ServeNext, StartAccepting,
         StopWaiting, RegisterInbound, SendInbound, CloseSocket, AcceptError, Accept, serverVars
<1> QED
  BY <1>1, <1>2 DEF CommitInv

(* A listener starts to accept only when it is committed. *)
LEMMA AcceptingStep ==
  ASSUME TypeInv, CommitInv, Next, NEW l \in Listeners,
         serve'[l] \in {"accepting", "accepted", "announce"}
  PROVE  l \in commit
<1>0. TypeOK
  BY DEF TypeInv
<1>1. CASE serve'[l] = serve[l]
  BY <1>1 DEF CommitInv
<1>2. CASE StartListen /\ Head(c2s) = Frame("listen", l)
  <2>1. serve' = serve \/ serve' = [serve EXCEPT ![Head(c2s).id] = "spawned"]
    BY <1>2 DEF StartListen
  <2> QED
    BY <1>0, <2>1 DEF CommitInv, TypeOK
<1>3. CASE OpenNext(l)
  <2>1. \E st \in {"binding", "bound", "reply", "waiting", "done"} : serve' = [serve EXCEPT ![l] = st]
    BY <1>3 DEF OpenNext, RegisterListener, BindOK, BindError, Publish, SendOK
  <2> QED
    BY <1>0, <2>1 DEF TypeOK
<1>4. CASE StartAccepting(l)
  BY <1>4 DEF StartAccepting, CommitInv
<1>5. CASE StopWaiting(l)
  BY <1>0, <1>5 DEF StopWaiting, TypeOK
<1>6. CASE RegisterInbound(l) \/ SendInbound(l) \/ AcceptError(l) \/ \E c \in Conns : Accept(l, c)
  <2>1. serve[l] \in {"accepting", "accepted", "announce"}
    BY <1>6 DEF RegisterInbound, SendInbound, AcceptError, Accept
  <2> QED
    BY <2>1 DEF CommitInv
<1> QED
  BY <1>1, <1>2, <1>3, <1>4, <1>5, <1>6, ServeStep DEF ServeNext

(* What a step does to an accepted connection and the listener it names. *)
LEMMA ConnStep ==
  ASSUME TypeInv, InboundInv, Next, NEW c \in Conns, conn'[c] # "none"
  PROVE  \/ lis'[c] = lis[c] /\ conn[c] # "none"
         \/ \E l \in Listeners : Accept(l, c) /\ lis'[c] = l
<1>0. TypeOK /\ InHand(c) /\ Stream(c)
  BY DEF TypeInv, InboundInv
<1>1. ASSUME NEW l \in Listeners, NEW d \in Conns, Accept(l, d)
      PROVE  (lis'[c] = lis[c] /\ conn'[c] = conn[c]) \/ (c = d /\ lis'[c] = l)
  BY <1>0, <1>1 DEF Accept, TypeOK
<1>2. ASSUME NEW set, RemoveStreams(set) PROVE conn[c] # "none"
  BY <1>0, <1>2 DEF RemoveStreams, Stream, TypeOK
<1>3. ASSUME NEW l \in Listeners, RegisterInbound(l) PROVE lis' = lis /\ conn[c] # "none"
  <2>1. serve[l] = "accepted" /\ lis' = lis /\ (conn' = conn \/ conn' = [conn EXCEPT ![cur[l]] = "closed"])
    BY <1>3 DEF RegisterInbound
  <2>2. c = cur[l] => conn[c] # "none"
    BY <1>0, <2>1 DEF InHand, Holding
  <2> QED
    BY <1>0, <2>1, <2>2 DEF TypeOK
<1>4. \/ lis' = lis /\ (conn' = conn \/ \E set : RemoveStreams(set))
      \/ \E l \in Listeners : RegisterInbound(l) \/ \E d \in Conns : Accept(l, d)
  BY DEF Next, Reserve, ReserveReturn, CloseListener, Commit, LocalDialOK, LocalDialError, BridgeEnd,
         RemoteError, DispatchNext, DispatchListen, DispatchUnlisten, DispatchInbound, DispatchReset, LinkDown,
         ReaderNext, StartListen, HandleCommit, HandleUnlisten, HandleClose, Cancel, ShutdownListeners,
         ShutdownStreams, OpenNext, RegisterListener, BindOK, BindError, Publish, SendOK, ServeNext,
         StartAccepting, StopWaiting, SendInbound, CloseSocket, AcceptError, serverVars
<1> QED
  BY <1>1, <1>2, <1>3, <1>4

(* Every step keeps what is known of commits. *)
LEMMA CommitStep == TypeInv /\ InboundInv /\ CommitInv /\ [Next]_vars => CommitInv'
<1>1. CASE UNCHANGED vars
  BY <1>1 DEF CommitInv, AcceptAfterCommit, vars, clientVars, serverVars
<1> SUFFICES ASSUME TypeInv, InboundInv, CommitInv, Next PROVE CommitInv'
  BY <1>1
<1>2. commit \subseteq commit'
  BY CommitStays
<1>3. \A l \in Listeners : InFlight(c2s', Frame("commit", l)) => l \in commit'
  BY <1>2, CommitUnderWay DEF CommitInv
<1>4. committed' \subseteq commit'
  BY <1>2, CommittedStep
<1>5. \A l \in Listeners : serve'[l] \in {"accepting", "accepted", "announce"} => l \in commit'
  BY <1>2, AcceptingStep
<1>6. ASSUME NEW c \in Conns, conn'[c] # "none" PROVE lis'[c] \in commit'
  <2>1. CASE lis'[c] = lis[c] /\ conn[c] # "none"
    BY <1>2, <2>1 DEF CommitInv, AcceptAfterCommit
  <2>2. ASSUME NEW l \in Listeners, Accept(l, c), lis'[c] = l PROVE lis'[c] \in commit'
    <3>1. l \in commit
      BY <2>2 DEF Accept, CommitInv
    <3> QED
      BY <1>2, <2>2, <3>1
  <2> QED
    BY <1>6, <2>1, <2>2, ConnStep
<1> QED
  BY <1>3, <1>4, <1>5, <1>6 DEF CommitInv, AcceptAfterCommit

(* Nothing is committed at first. *)
LEMMA CommitInit == Init => CommitInv
BY ChannelEmpty DEF Init, CommitInv, AcceptAfterCommit

(* What is known of commits holds throughout. *)
THEOREM CommitInvHolds == Spec => []CommitInv
BY CommitInit, CommitStep, TypeInvHolds, InboundInvHolds, PTL DEF Spec

(* No Windows client is accepted before ReverseReservation.Commit ran,       *)
(* however long the bind, the answer and the commit take.                    *)
THEOREM AcceptedAfterCommit == Spec => []AcceptAfterCommit
<1>1. CommitInv => AcceptAfterCommit
  BY DEF CommitInv
<1> QED
  BY CommitInvHolds, <1>1, PTL
=============================================================================
