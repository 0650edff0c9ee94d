------------------------------ MODULE Datagrams ------------------------------
(* UDP through the relay.  An association (OpenPacketContext, DATAGRAM       *)
(* frames) gives a WSL client a Windows UDP socket; a mapping               *)
(* (ReverseDatagramForward, LISTEN_DATAGRAM frames) binds a Windows UDP     *)
(* socket and gives every remote source a flow, a socket of its own towards *)
(* the WSL target.  The server opens associations in goroutines and         *)
(* mappings in its frame reader.  What a datagram carries is left out; that *)
(* one was queued, refused or lost is not.  Ids are never used again        *)
(* (Client.nextID).                                                         *)
EXTENDS Naturals, Sequences, FiniteSets

CONSTANTS
    Assocs,    \* ids of associations
    Maps,      \* ids of mappings
    MaxOpened, \* bound: ids that are opened
    MaxData,   \* bound: datagrams that enter at either end
    MaxFlows,  \* bound: flow sockets a mapping opens, one after the other
    Depth      \* datagramQueueDepth

ASSUME IdsAssumption == Assocs \cap Maps = {}
ASSUME DatagramBounds ==
    MaxOpened \in Nat /\ MaxData \in Nat /\ MaxFlows \in Nat /\ Depth \in Nat \ {0}

Ids == Assocs \cup Maps
Flows == 1..MaxFlows

VARIABLES
    app,      \* each id: none, opening, open, closed (after it was open), gone
    creg,     \* c.datagrams and c.reverseDatagrams
    ready,    \* each id: what ready holds or held
    done,     \* ids whose done channel is closed
    won,      \* ids whose closeOnce was won by Close
    shut,     \* each mapping: how far closeOnce has got
    cqueue,   \* each mapping: datagrams in incoming
    worker,   \* each mapping: where writeDatagrams is
    using,    \* each mapping: the flow writeDatagrams writes to
    flow,     \* each mapping: l.flows, for the one source there is; 0 for none
    made,     \* each mapping: flow sockets opened so far
    fopen,    \* each mapping: flow sockets that are open
    fclosing, \* each mapping: flows out of the map that somebody will close
    freading, \* each mapping: flows whose readLoop runs
    link,     \* up or down
    c2s, s2c, \* frames under way
    sent,     \* datagrams that entered so far
    peer,     \* the server process: first, second, or accepted (the client
              \* has seen the new instance id and reset its state)
    server,   \* serving, cancelled (s.cancel ran) or down (shutdown ran)
    opener,   \* each id: where the code that opens it is
    sreg,     \* s.datagrams and s.reverseDatagrams
    squeue,   \* each id: datagrams in the server's incoming
    loop,     \* ids whose read loop runs
    sock,     \* each id: the Windows socket
    cancelled \* history: ids whose CLOSE frame the server has handled

callVars == <<app, creg, ready, done, won>>
workVars == <<cqueue, worker, using>>
sockVars == <<flow, made, fopen, fclosing, freading>>
flowVars == <<shut, workVars, sockVars>>
wireVars == <<link, c2s, s2c, sent, peer>>
serverVars == <<server, opener, sreg, squeue, loop, sock, cancelled>>
vars == <<callVars, flowVars, wireVars, serverVars>>

Frames == [type : {"open", "close", "data", "ok", "err"}, id : Ids]
OpenerAt == {"none", "spawned", "dialing", "dialed", "reply", "over"}

(* Type correctness, with the incoming channels within datagramQueueDepth.   *)
TypeOK ==
    /\ app \in [Ids -> {"none", "opening", "open", "closed", "gone"}]
    /\ creg \subseteq Ids /\ done \subseteq Ids /\ won \subseteq Ids
    /\ ready \in [Ids -> {"none", "ok", "err"}]
    /\ shut \in [Maps -> {"no", "begun", "swapped", "over"}]
    /\ cqueue \in [Maps -> 0..Depth]
    /\ worker \in [Maps -> {"idle", "resolve", "write", "over"}] /\ using \in [Maps -> 0..MaxFlows]
    /\ flow \in [Maps -> 0..MaxFlows] /\ made \in [Maps -> 0..MaxFlows]
    /\ fopen \in [Maps -> SUBSET Flows] /\ fclosing \in [Maps -> SUBSET Flows]
    /\ freading \in [Maps -> SUBSET Flows]
    /\ link \in {"up", "down"}
    /\ c2s \in Seq(Frames) /\ s2c \in Seq(Frames) /\ sent \in 0..MaxData
    /\ peer \in {"first", "second", "accepted"}
    /\ server \in {"serving", "cancelled", "down"}
    /\ opener \in [Ids -> OpenerAt]
    /\ sreg \subseteq Ids /\ loop \subseteq Ids /\ cancelled \subseteq Ids
    /\ squeue \in [Ids -> 0..Depth]
    /\ sock \in [Ids -> {"none", "open", "closed"}]

Init ==
    /\ app = [i \in Ids |-> "none"] /\ ready = [i \in Ids |-> "none"]
    /\ creg = {} /\ done = {} /\ won = {}
    /\ shut = [m \in Maps |-> "no"] /\ cqueue = [m \in Maps |-> 0]
    /\ worker = [m \in Maps |-> "idle"] /\ using = [m \in Maps |-> 0]
    /\ flow = [m \in Maps |-> 0] /\ made = [m \in Maps |-> 0]
    /\ fopen = [m \in Maps |-> {}] /\ fclosing = [m \in Maps |-> {}]
    /\ freading = [m \in Maps |-> {}]
    /\ link = "up" /\ c2s = <<>> /\ s2c = <<>> /\ sent = 0
    /\ peer = "first" /\ server = "serving"
    /\ opener = [i \in Ids |-> "none"] /\ squeue = [i \in Ids |-> 0]
    /\ sreg = {} /\ loop = {} /\ cancelled = {}
    /\ sock = [i \in Ids |-> "none"]

-----------------------------------------------------------------------------
(* The wire.  A frame written to a link that is down is lost and the writer  *)
(* gets an error.                                                            *)

Frame(type, i) == [type |-> type, id |-> i]

Put(wire, type, i) == IF link = "up" THEN Append(wire, Frame(type, i)) ELSE wire

(* Mutant: nothing is dropped. *)
QueuedAlways(n) == n + 1

(* A full incoming channel drops the datagram, at either end.                *)
Queued(n) == IF n < Depth THEN n + 1 ELSE n

-----------------------------------------------------------------------------
(* The client: opening, failing and closing. *)

(* clientPacketConn.fail and clientReverseDatagram.fail on the ids in S: an  *)
(* opener is told, done is closed.  For a mapping the rest is in closeOnce   *)
(* and follows in steps of its own, unless Close or another fail has won it. *)
Fail(S) ==
    /\ ready' = [i \in Ids |-> IF i \in S /\ ready[i] = "none" THEN "err" ELSE ready[i]]
    /\ done' = done \cup S
    /\ shut' = [m \in Maps |-> IF m \in S /\ shut[m] = "no" THEN "begun" ELSE shut[m]]

(* Both Opens register and send OPEN; with the link down that is an error.   *)
Open(i) ==
    /\ app[i] = "none" /\ link = "up"
    /\ Cardinality({j \in Ids : app[j] # "none"}) < MaxOpened
    /\ app' = [app EXCEPT ![i] = "opening"]
    /\ creg' = creg \cup {i}
    /\ c2s' = Put(c2s, "open", i)
    /\ UNCHANGED <<ready, done, won, flowVars, link, s2c, sent, serverVars, peer>>

(* The answer, or a client that failed.                                      *)
OpenReturn(i) ==
    /\ app[i] = "opening"
    /\ \/ ready[i] = "ok" /\ app' = [app EXCEPT ![i] = "open"] /\ UNCHANGED creg
       \/ /\ ready[i] = "err" \/ link = "down"
          /\ app' = [app EXCEPT ![i] = "gone"]
          /\ creg' = creg \ {i}
    /\ UNCHANGED <<ready, done, won, flowVars, wireVars, serverVars>>

(* Mutant: the mapping's Close leaves the frame to fail. *)
CloseSilent(i) ==
    /\ app[i] \in {"opening", "open"}
    /\ app' = [app EXCEPT ![i] = IF @ = "open" THEN "closed" ELSE "gone"]
    /\ creg' = creg \ {i} /\ won' = won \cup {i} /\ Fail({i})
    /\ UNCHANGED <<workVars, sockVars, wireVars, serverVars>>

(* Close by the caller, or by an Open whose context is done.  An association *)
(* sends its CLOSE in any case.  A mapping sends one only if Close and not   *)
(* fail has won closeOnce, and at the end of it.                             *)
Close(i) ==
    /\ app[i] \in {"opening", "open"}
    /\ app' = [app EXCEPT ![i] = IF @ = "open" THEN "closed" ELSE "gone"]
    /\ IF i \in Maps /\ shut[i] # "no"
       THEN UNCHANGED <<creg, ready, done, won, shut, c2s>>
       ELSE /\ creg' = creg \ {i}
            /\ won' = won \cup {i}
            /\ Fail({i})
            /\ c2s' = IF i \in Assocs THEN Put(c2s, "close", i) ELSE c2s
    /\ UNCHANGED <<workVars, sockVars, link, s2c, sent, serverVars, peer>>

(* The rest of closeOnce: the flows are taken out of the map under l.mu ...  *)
SwapFlows(m) ==
    /\ shut[m] = "begun"
    /\ shut' = [shut EXCEPT ![m] = "swapped"]
    /\ creg' = creg \ {m}
    /\ flow' = [flow EXCEPT ![m] = 0]
    /\ fclosing' = [fclosing EXCEPT ![m] = @ \cup ({flow[m]} \ {0})]
    /\ UNCHANGED <<app, ready, done, won, workVars, made, fopen, freading, wireVars, serverVars>>

(* ... and, when they are closed, Close sends its frame.                     *)
FinishClose(m) ==
    /\ shut[m] = "swapped"
    /\ shut' = [shut EXCEPT ![m] = "over"]
    /\ c2s' = IF m \in won THEN Put(c2s, "close", m) ELSE c2s
    /\ UNCHANGED <<callVars, workVars, sockVars, link, s2c, sent, serverVars, peer>>

CloseFlow(m, n) ==
    /\ n \in fclosing[m]
    /\ fopen' = [fopen EXCEPT ![m] = @ \ {n}]
    /\ fclosing' = [fclosing EXCEPT ![m] = @ \ {n}]
    /\ UNCHANGED <<callVars, shut, workVars, flow, made, freading, wireVars, serverVars>>

(* dispatch and the two handle methods; a frame for an id that is no longer  *)
(* registered is dropped.                                                    *)
Dispatch ==
    /\ s2c # <<>> /\ link = "up"
    /\ s2c' = Tail(s2c)
    /\ LET i == Head(s2c).id
           type == Head(s2c).type
       IN  \/ i \notin creg /\ UNCHANGED <<ready, done, shut, cqueue>>
           \/ /\ i \in creg /\ type = "ok"
              /\ ready' = [ready EXCEPT ![i] = IF @ = "none" THEN "ok" ELSE @]
              /\ UNCHANGED <<done, shut, cqueue>>
           \/ i \in creg /\ type \in {"err", "close"} /\ Fail({i}) /\ UNCHANGED cqueue
           \/ /\ i \in creg /\ type = "data"
              /\ cqueue' = IF i \in Maps THEN [cqueue EXCEPT ![i] = Queued(@)] ELSE cqueue
              /\ UNCHANGED <<ready, done, shut>>
    /\ UNCHANGED <<app, creg, won, worker, using, sockVars, link, c2s, sent, serverVars, peer>>

(* WriteTo of an open association.                                           *)
WriteTo(a) ==
    /\ app[a] = "open" /\ a \notin done /\ link = "up" /\ sent < MaxData
    /\ sent' = sent + 1
    /\ c2s' = Put(c2s, "data", a)
    /\ UNCHANGED <<callVars, flowVars, link, s2c, serverVars, peer>>

(* The transport breaks: Client.fail.                                        *)
LinkDown ==
    /\ link = "up"
    /\ link' = "down" /\ c2s' = <<>> /\ s2c' = <<>>
    /\ creg' = {}
    /\ Fail(creg)
    /\ UNCHANGED <<app, won, workVars, sockVars, sent, serverVars, peer>>

(* A broker process ends and another takes its place: its sockets are closed *)
(* and the frames under way are lost; ...                                    *)
PeerRestart ==
    /\ peer = "first" /\ server = "serving" /\ link = "up"
    /\ peer' = "second"
    /\ c2s' = <<>> /\ s2c' = <<>>
    /\ opener' = [i \in Ids |-> IF opener[i] = "none" THEN "none" ELSE "over"]
    /\ sreg' = {} /\ loop' = {} /\ squeue' = [i \in Ids |-> 0]
    /\ sock' = [i \in Ids |-> IF sock[i] = "open" THEN "closed" ELSE sock[i]]
    /\ UNCHANGED <<callVars, flowVars, link, sent, server, cancelled>>

(* Mutant: the maps are emptied, nobody is told. *)
ResetPeerStateSilent ==
    /\ peer = "second" /\ link = "up"
    /\ peer' = "accepted"
    /\ creg' = {}
    /\ UNCHANGED <<app, ready, done, won, flowVars, link, c2s, s2c, sent, serverVars>>

(* ... ResetPeerState, after the handshake with the new one.                 *)
ResetPeerState ==
    /\ peer = "second" /\ link = "up"
    /\ peer' = "accepted"
    /\ creg' = {}
    /\ Fail(creg)
    /\ UNCHANGED <<app, won, workVars, sockVars,
                   link, c2s, s2c, sent, serverVars>>

-----------------------------------------------------------------------------
(* The client: the flows of a mapping. *)

(* writeDatagrams takes a datagram; a closed mapping ends it.                *)
TakeDatagram(m) ==
    /\ worker[m] = "idle"
    /\ IF m \in done
       THEN worker' = [worker EXCEPT ![m] = "over"] /\ UNCHANGED cqueue
       ELSE /\ cqueue[m] > 0
            /\ cqueue' = [cqueue EXCEPT ![m] = @ - 1]
            /\ worker' = [worker EXCEPT ![m] = "resolve"]
    /\ UNCHANGED <<callVars, shut, using, sockVars, wireVars, serverVars>>

(* The endpoint does not decode or resolve.                                  *)
ResolveError(m) ==
    /\ worker[m] = "resolve"
    /\ worker' = [worker EXCEPT ![m] = "idle"]
    /\ Fail({m})
    /\ UNCHANGED <<app, creg, won, cqueue, using, sockVars, wireVars, serverVars>>

(* Under l.mu: done once more, then the flow of the source or a new one;     *)
(* with all flows taken the datagram is dropped.                             *)
GetFlow(m) ==
    /\ worker[m] = "resolve"
    /\ \/ /\ m \in done \/ flow[m] = 0
          /\ worker' = [worker EXCEPT ![m] = "idle"]
          /\ UNCHANGED <<using, flow, made, fopen, freading>>
       \/ /\ m \notin done /\ flow[m] # 0
          /\ worker' = [worker EXCEPT ![m] = "write"] /\ using' = [using EXCEPT ![m] = flow[m]]
          /\ UNCHANGED <<flow, made, fopen, freading>>
       \/ /\ m \notin done /\ flow[m] = 0 /\ made[m] < MaxFlows
          /\ made' = [made EXCEPT ![m] = @ + 1]
          /\ flow' = [flow EXCEPT ![m] = made'[m]]
          /\ fopen' = [fopen EXCEPT ![m] = @ \cup {made'[m]}]
          /\ freading' = [freading EXCEPT ![m] = @ \cup {made'[m]}]
          /\ worker' = [worker EXCEPT ![m] = "write"] /\ using' = [using EXCEPT ![m] = made'[m]]
    /\ UNCHANGED <<callVars, shut, cqueue, fclosing, wireVars, serverVars>>

(* DialUDP fails.                                                            *)
DialFlowError(m) ==
    /\ worker[m] = "resolve" /\ m \notin done /\ flow[m] = 0
    /\ worker' = [worker EXCEPT ![m] = "idle"]
    /\ Fail({m})
    /\ UNCHANGED <<app, creg, won, cqueue, using, sockVars, wireVars, serverVars>>

(* Mutant: whatever flow the source has is deleted. *)
RemoveAnyFlow(m, n) ==
    /\ flow' = [flow EXCEPT ![m] = 0]
    /\ fclosing' = [fclosing EXCEPT ![m] = @ \cup {n}]

(* removeFlow: the map may hold a newer flow of the same source by now.      *)
RemoveFlow(m, n) ==
    /\ flow' = [flow EXCEPT ![m] = IF @ = n THEN 0 ELSE @]
    /\ fclosing' = [fclosing EXCEPT ![m] = @ \cup {n}]

(* The write to the flow's socket; to a closed one it fails.                 *)
WriteFlow(m) ==
    /\ worker[m] = "write"
    /\ worker' = [worker EXCEPT ![m] = "idle"]
    /\ \/ using[m] \in fopen[m] /\ UNCHANGED <<flow, fclosing>>
       \/ RemoveFlow(m, using[m])
    /\ UNCHANGED <<callVars, shut, cqueue, using, made, fopen, freading, wireVars, serverVars>>

(* readLoop: an answer of the WSL target, ...                                *)
FlowAnswer(m, n) ==
    /\ n \in fopen[m] /\ link = "up" /\ sent < MaxData
    /\ sent' = sent + 1
    /\ c2s' = Put(c2s, "data", m)
    /\ UNCHANGED <<callVars, flowVars, link, s2c, serverVars, peer>>

(* ... or its end: idle too long, an error, a frame that cannot be written,  *)
(* or a socket that is closed by now.                                        *)
FlowEnds(m, n) ==
    /\ n \in freading[m]
    /\ freading' = [freading EXCEPT ![m] = @ \ {n}]
    /\ RemoveFlow(m, n)
    /\ UNCHANGED <<callVars, shut, workVars, made, fopen, wireVars, serverVars>>

-----------------------------------------------------------------------------
(* The server. *)

(* removeDatagram and removeReverseDatagram: conn is set only while the id   *)
(* is registered, and until then the opener has it.                          *)
Remove(S) ==
    /\ sreg' = sreg \ S
    /\ sock' = [i \in Ids |->
            IF i \in S /\ i \in sreg /\ opener[i] \notin {"dialing", "dialed"} /\ sock[i] = "open"
            THEN "closed" ELSE sock[i]]

(* A mapping is opened by the frame reader, which reads nothing meanwhile.   *)
Reading ==
    /\ c2s # <<>> /\ link = "up" /\ server # "down"
    /\ \A m \in Maps : opener[m] \in {"none", "over"}

Received(type, i) == Reading /\ Head(c2s) = Frame(type, i) /\ c2s' = Tail(c2s)

(* startOpen may have no slot for an association, which it refuses.          *)
HandleOpen(i) ==
    /\ Received("open", i)
    /\ \/ opener' = [opener EXCEPT ![i] = "spawned"] /\ UNCHANGED s2c
       \/ i \in Assocs /\ s2c' = Put(s2c, "err", i) /\ UNCHANGED opener
    /\ UNCHANGED <<callVars, flowVars, link, sent, server, sreg, squeue, loop, sock, cancelled, peer>>

HandleData(i) ==
    /\ Received("data", i)
    /\ squeue' = IF i \in sreg THEN [squeue EXCEPT ![i] = Queued(@)] ELSE squeue
    /\ UNCHANGED <<callVars, flowVars, link, s2c, sent, server, opener, sreg, loop, sock, cancelled, peer>>

HandleClose(i) ==
    /\ Received("close", i)
    /\ Remove({i})
    /\ cancelled' = cancelled \cup {i}
    /\ UNCHANGED <<callVars, flowVars, link, s2c, sent, server, opener, squeue, loop, peer>>

(* openDatagram and openReverseDatagram: register, unless the limit is       *)
(* reached, which other ids may do at any time.                              *)
Register(i) ==
    /\ opener[i] = "spawned"
    /\ \/ /\ opener' = [opener EXCEPT ![i] = "dialing"] /\ sreg' = sreg \cup {i}
          /\ UNCHANGED s2c
       \/ /\ opener' = [opener EXCEPT ![i] = "over"] /\ s2c' = Put(s2c, "err", i)
          /\ UNCHANGED sreg
    /\ UNCHANGED <<callVars, flowVars, link, c2s, sent, server, squeue, loop, sock, cancelled, peer>>

(* packetDial, or resolveUDP and ListenUDP.                                  *)
DialOK(i) ==
    /\ opener[i] = "dialing"
    /\ opener' = [opener EXCEPT ![i] = "dialed"]
    /\ sock' = [sock EXCEPT ![i] = "open"]
    /\ UNCHANGED <<callVars, flowVars, wireVars, server, sreg, squeue, loop, cancelled>>

DialError(i) ==
    /\ opener[i] = "dialing"
    /\ opener' = [opener EXCEPT ![i] = "over"]
    /\ sreg' = sreg \ {i}
    /\ s2c' = Put(s2c, "err", i)
    /\ UNCHANGED <<callVars, flowVars, link, c2s, sent, server, squeue, loop, sock, cancelled, peer>>

(* Mutant: the map is not looked at again after the dial. *)
PublishUnchecked(i) ==
    /\ opener[i] = "dialed"
    /\ opener' = [opener EXCEPT ![i] = "reply"]
    /\ UNCHANGED <<callVars, flowVars, wireVars, server, sreg, squeue, loop, sock, cancelled>>

(* Is the id still registered, and the server not shutting down?             *)
Publish(i) ==
    /\ opener[i] = "dialed"
    /\ IF i \in sreg /\ server = "serving"
       THEN opener' = [opener EXCEPT ![i] = "reply"] /\ UNCHANGED sock
       ELSE /\ opener' = [opener EXCEPT ![i] = "over"]
            /\ sock' = [sock EXCEPT ![i] = "closed"]
    /\ UNCHANGED <<callVars, flowVars, wireVars, server, sreg, squeue, loop, cancelled>>

(* Send OK and start the two loops, or give up with a link that is down.     *)
Reply(i) ==
    /\ opener[i] = "reply"
    /\ opener' = [opener EXCEPT ![i] = "over"]
    /\ s2c' = Put(s2c, "ok", i)
    /\ IF link = "up"
       THEN loop' = loop \cup {i} /\ UNCHANGED <<sreg, sock>>
       ELSE Remove({i}) /\ UNCHANGED loop
    /\ UNCHANGED <<callVars, flowVars, link, c2s, sent, server, squeue, cancelled, peer>>

(* writeDatagrams and writeReverseDatagrams: a datagram goes out, or the     *)
(* client is told that it did not.  The socket stays.                        *)
WriteOut(i) ==
    /\ i \in loop /\ i \in sreg /\ squeue[i] > 0
    /\ squeue' = [squeue EXCEPT ![i] = @ - 1]
    /\ \/ UNCHANGED s2c
       \/ s2c' = Put(s2c, "err", i)
    /\ UNCHANGED <<callVars, flowVars, link, c2s, sent, server, opener, sreg, loop, sock, cancelled, peer>>

(* The read loops: a datagram arrives ...                                    *)
ReadIn(i) ==
    /\ i \in loop /\ sock[i] = "open" /\ link = "up" /\ sent < MaxData
    /\ sent' = sent + 1
    /\ s2c' = Put(s2c, "data", i)
    /\ UNCHANGED <<callVars, flowVars, link, c2s, serverVars, peer>>

(* ... or the socket fails, or is found closed, or the frame cannot be sent. *)
(* Only a mapping tells the client.                                          *)
ReadEnds(i) ==
    /\ i \in loop
    /\ loop' = loop \ {i}
    /\ Remove({i})
    /\ s2c' = IF i \in Maps THEN Put(s2c, "close", i) ELSE s2c
    /\ UNCHANGED <<callVars, flowVars, link, c2s, sent, server, opener, squeue, cancelled, peer>>

(* ServeAttached or Serve returns, and shutdown.                             *)
Cancel ==
    /\ server = "serving"
    /\ server' = "cancelled" /\ link' = "down" /\ c2s' = <<>> /\ s2c' = <<>>
    /\ creg' = {} /\ Fail(creg)
    /\ UNCHANGED <<app, won, workVars, sockVars, sent,
                   opener, sreg, squeue, loop, sock, cancelled, peer>>

(* Shutdown is called by the frame reader when it returns.                   *)
Shutdown ==
    /\ server = "cancelled"
    /\ \A m \in Maps : opener[m] \in {"none", "over"}
    /\ server' = "down"
    /\ Remove(sreg)
    /\ UNCHANGED <<callVars, flowVars, wireVars, opener, squeue, loop, cancelled>>

-----------------------------------------------------------------------------
ClientStep ==
    \/ \E i \in Ids : Open(i) \/ OpenReturn(i) \/ Close(i)
    \/ \E m \in Maps : SwapFlows(m) \/ FinishClose(m) \/ \E n \in Flows : CloseFlow(m, n)
    \/ Dispatch
    \/ \E a \in Assocs : WriteTo(a)
    \/ LinkDown \/ PeerRestart \/ ResetPeerState

FlowStep ==
    \E m \in Maps :
        \/ TakeDatagram(m) \/ ResolveError(m) \/ GetFlow(m) \/ DialFlowError(m) \/ WriteFlow(m)
        \/ \E n \in Flows : FlowAnswer(m, n) \/ FlowEnds(m, n)

Handle(i) == HandleOpen(i) \/ HandleData(i) \/ HandleClose(i)
OpenStep(i) == Register(i) \/ DialOK(i) \/ DialError(i) \/ Publish(i) \/ Reply(i)

ServerStep ==
    \/ \E i \in Ids : Handle(i) \/ OpenStep(i) \/ WriteOut(i) \/ ReadIn(i) \/ ReadEnds(i)
    \/ Cancel
    \/ Shutdown

Next == ClientStep \/ FlowStep \/ ServerStep

(* The goroutines of both ends run, a dial returns, and a server whose       *)
(* transport broke shuts down.  Nobody has to close anything, no datagram    *)
(* has to come, no socket has to fail.                                       *)
Fairness ==
    /\ \A i \in Ids : WF_vars(OpenReturn(i)) /\ WF_vars(OpenStep(i)) /\ WF_vars(Handle(i))
    /\ \A m \in Maps : WF_vars(SwapFlows(m)) /\ WF_vars(FinishClose(m))
    /\ WF_vars(Dispatch) /\ WF_vars(ResetPeerState)
    /\ WF_vars(link = "down" /\ Cancel) /\ WF_vars(Shutdown)

Spec == Init /\ [][Next]_vars /\ Fairness

-----------------------------------------------------------------------------
(* However CLOSE, a failed dial, a broken link and a shutdown fall between   *)
(* the registration of an id and the answer to it, an open Windows socket is *)
(* either in the hands of the code that opened it and will look at the map   *)
(* again, or found through the map by whoever removes the id; and, as the    *)
(* comment in Server.handle says, binding a mapping before the next frame is *)
(* read keeps OPEN and CLOSE in order, so that a client that cancels a       *)
(* mapping at once leaves no late socket.                                    *)
SocketsOwned ==
    /\ \A i \in Ids : sock[i] = "open" =>
          opener[i] = "dialed" \/ (i \in sreg /\ opener[i] \in {"reply", "over"})
    /\ \A m \in Maps : m \in cancelled => sock[m] # "open"

(* A flow's socket is in its mapping's map or somebody is about to close it, *)
(* and once the mapping's closeOnce has emptied the map nothing comes into   *)
(* it again: neither the datagram worker, which may have started before the  *)
(* close, nor the end of an older flow of the same source loses a socket.    *)
FlowsOwned ==
    \A m \in Maps : \A n \in fopen[m] :
        n \in fclosing[m] \/ (n = flow[m] /\ shut[m] \in {"no", "begun"})

(* A caller of OpenPacketContext or ReverseDatagramForward that waits        *)
(* without a deadline is answered: refused, failed, dropped by a shutdown or *)
(* served.                                                                   *)
OpenReturns == \A i \in Ids : app[i] = "opening" ~> app[i] # "opening"

(* Closing what was open releases the Windows socket in the end, also when   *)
(* the link breaks on the way.  For a mapping this needs Close to win        *)
(* closeOnce: after a fail the server is not told.                           *)
CloseReleases == \A i \in Ids : (app[i] = "closed" /\ i \in won) ~> sock[i] # "open"
=============================================================================
