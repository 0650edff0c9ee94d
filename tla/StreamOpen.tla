----------------------------- MODULE StreamOpen -----------------------------
(* How TCP streams to Windows come and go: Client.DialContext registers a    *)
(* stream and sends OPEN; the server runs each OPEN in a goroutine of its    *)
(* own, which registers, dials and answers, while its frame reader handles   *)
(* CLOSE at once.  The two ends therefore disagree for a while about which   *)
(* streams exist, and a socket that was dialled meanwhile must not be lost.  *)
(* Stream ids are never reused (Client.nextID), so a model id is one dial.   *)
(* The limits count inbound streams, listeners and datagram associations     *)
(* too, so they may refuse a dial before the streams of this model fill      *)
(* them.                                                                     *)
EXTENDS Naturals, Sequences, FiniteSets

CONSTANTS
    Ids,         \* stream ids the client allocates; bounds the number of dials
    MaxStreams,  \* MaxConcurrentStreams
    MaxOpens     \* MaxConcurrentOpenOperations

ASSUME LimitsAssumption == MaxStreams \in Nat \ {0} /\ MaxOpens \in Nat \ {0}

VARIABLES
    client,   \* each id: none, opening (DialContext waits), open, or gone
    ready,    \* each id: what openDone holds or held
    done,     \* ids whose clientStream.done is closed
    link,     \* the transport: up or down
    c2s, s2c, \* frames under way
    server,   \* serving, cancelled (s.cancel ran) or down (shutdown ran)
    opener,   \* each id: where the goroutine of startOpen is
    streams,  \* s.streams
    closing,  \* ids that remove has unregistered and whose conn it will close
    conn      \* each id: the Windows socket

clientVars == <<client, ready, done>>
serverVars == <<server, opener, streams, closing, conn>>
vars == <<clientVars, link, c2s, s2c, serverVars>>

OpenerStates == {"none", "spawned", "dialing", "doomed", "dialed", "reply", "done"}
Frames == [type : {"open", "close", "ok", "err", "reset"}, id : Ids]

TypeOK ==
    /\ client \in [Ids -> {"none", "opening", "open", "gone"}]
    /\ ready \in [Ids -> {"none", "ok", "err"}]
    /\ done \in SUBSET Ids
    /\ link \in {"up", "down"}
    /\ c2s \in Seq(Frames)
    /\ s2c \in Seq(Frames)
    /\ server \in {"serving", "cancelled", "down"}
    /\ opener \in [Ids -> OpenerStates]
    /\ streams \in SUBSET Ids
    /\ closing \in SUBSET Ids
    /\ conn \in [Ids -> {"none", "open", "closed"}]

Init ==
    /\ client = [i \in Ids |-> "none"]
    /\ ready = [i \in Ids |-> "none"]
    /\ done = {}
    /\ link = "up" /\ c2s = <<>> /\ s2c = <<>>
    /\ server = "serving"
    /\ opener = [i \in Ids |-> "none"]
    /\ streams = {} /\ closing = {}
    /\ conn = [i \in Ids |-> "none"]

Frame(type, i) == [type |-> type, id |-> i]

(* A frame written after the transport went down is lost. *)
Put(ch, type, i) == IF link = "up" THEN Append(ch, Frame(type, i)) ELSE ch

-----------------------------------------------------------------------------
(* The client. *)

(* c.streams *)
Registered == {i \in Ids : client[i] \in {"opening", "open"}}

(* DialContext up to its select, unless the stream limit refuses it.         *)
Dial(i) ==
    /\ client[i] = "none" /\ link = "up"
    /\ \/ /\ Cardinality(Registered) < MaxStreams
          /\ client' = [client EXCEPT ![i] = "opening"]
          /\ c2s' = Append(c2s, Frame("open", i))
       \/ /\ client' = [client EXCEPT ![i] = "gone"]
          /\ UNCHANGED c2s
    /\ UNCHANGED <<ready, done, link, s2c, serverVars>>

(* The select of DialContext: openDone, or the caller's context.             *)
DialReturn(i) ==
    /\ client[i] = "opening" /\ ready[i] # "none"
    /\ client' = [client EXCEPT ![i] = IF ready[i] = "ok" THEN "open" ELSE "gone"]
    /\ UNCHANGED <<ready, done, link, c2s, s2c, serverVars>>

(* clientStream.Close, called by DialContext when its context ends and by    *)
(* the application later: unregister, fail (which resolves openDone) and     *)
(* send CLOSE.                                                               *)
Close(i) ==
    /\ client[i] \in {"opening", "open"} /\ link = "up"
    /\ client' = [client EXCEPT ![i] = "gone"]
    /\ done' = done \cup {i}
    /\ ready' = [ready EXCEPT ![i] = IF @ = "none" THEN "err" ELSE @]
    /\ c2s' = Append(c2s, Frame("close", i))
    /\ UNCHANGED <<link, s2c, serverVars>>

(* dispatch: the answers to OPEN and RESET; a stream that is not registered  *)
(* ignores them.                                                             *)
Dispatch ==
    /\ s2c # <<>>
    /\ s2c' = Tail(s2c)
    /\ LET f == Head(s2c) IN
       \/ /\ f.id \notin Registered
          /\ UNCHANGED <<ready, done>>
       \/ /\ f.id \in Registered /\ f.type = "ok"
          /\ ready' = [ready EXCEPT ![f.id] = IF @ = "none" THEN "ok" ELSE @]
          /\ UNCHANGED done
       \/ /\ f.id \in Registered /\ f.type \in {"err", "reset"}
          /\ ready' = [ready EXCEPT ![f.id] = IF @ = "none" THEN "err" ELSE @]
          /\ done' = done \cup {f.id}
    /\ UNCHANGED <<client, link, c2s, serverVars>>

(* The transport ends: Client.fail drops every stream and ends every dial.   *)
LinkDown ==
    /\ link = "up"
    /\ link' = "down"
    /\ c2s' = <<>> /\ s2c' = <<>>
    /\ client' = [i \in Ids |-> IF i \in Registered THEN "gone" ELSE client[i]]
    /\ ready' = [i \in Ids |-> IF i \in Registered /\ ready[i] = "none" THEN "err" ELSE ready[i]]
    /\ done' = done \cup Registered
    /\ UNCHANGED serverVars

-----------------------------------------------------------------------------
(* The server's frame reader. *)

(* Goroutines that hold a slot of openSlots. *)
Opening == {i \in Ids : opener[i] \notin {"none", "done"}}

StartOpen ==
    /\ server = "serving" /\ c2s # <<>> /\ Head(c2s).type = "open"
    /\ c2s' = Tail(c2s)
    /\ LET i == Head(c2s).id IN
       \/ /\ Cardinality(Opening) < MaxOpens
          /\ opener' = [opener EXCEPT ![i] = "spawned"]
          /\ UNCHANGED s2c
       \/ /\ s2c' = Put(s2c, "err", i)
          /\ UNCHANGED opener
    /\ UNCHANGED <<clientVars, link, server, streams, closing, conn>>

(* Mutant: the stream is unregistered and its connection left alone. *)
RemoveOnly(set) ==
    /\ streams' = streams \ set
    /\ UNCHANGED closing

(* remove: unregister under the mutex; a stream that has its conn gets it    *)
(* closed afterwards.  A set of ids, for shutdown.                           *)
Remove(set) ==
    /\ streams' = streams \ set
    /\ closing' = closing \cup {i \in set \cap streams : opener[i] \in {"reply", "done"}}

HandleClose ==
    /\ server = "serving" /\ c2s # <<>> /\ Head(c2s).type = "close"
    /\ c2s' = Tail(c2s)
    /\ Remove({Head(c2s).id})
    /\ UNCHANGED <<clientVars, link, s2c, server, opener, conn>>

(* Serve returns and shutdown cancels, then removes what is registered.      *)
Cancel ==
    /\ server = "serving" /\ link = "down"
    /\ server' = "cancelled"
    /\ UNCHANGED <<clientVars, link, c2s, s2c, opener, streams, closing, conn>>

Shutdown ==
    /\ server = "cancelled"
    /\ server' = "down"
    /\ Remove(streams)
    /\ UNCHANGED <<clientVars, link, c2s, s2c, opener, conn>>

CloseConn(i) ==
    /\ i \in closing
    /\ closing' = closing \ {i}
    /\ conn' = [conn EXCEPT ![i] = "closed"]
    /\ UNCHANGED <<clientVars, link, c2s, s2c, server, opener, streams>>

-----------------------------------------------------------------------------
(* Server.open, in its goroutine. *)

(* Mutant: at the stream limit open returns without an answer. *)
RegisterSilent(i) ==
    /\ opener[i] = "spawned"
    /\ \/ /\ Cardinality(streams) < MaxStreams
          /\ streams' = streams \cup {i}
          /\ opener' = [opener EXCEPT ![i] = IF server = "serving" THEN "dialing" ELSE "doomed"]
       \/ /\ opener' = [opener EXCEPT ![i] = "done"]
          /\ UNCHANGED streams
    /\ UNCHANGED <<clientVars, link, c2s, s2c, server, closing, conn>>

(* Register, or refuse for the stream limit.  A context that is cancelled    *)
(* already dooms the dial.                                                   *)
Register(i) ==
    /\ opener[i] = "spawned"
    /\ \/ /\ Cardinality(streams) < MaxStreams
          /\ streams' = streams \cup {i}
          /\ opener' = [opener EXCEPT ![i] = IF server = "serving" THEN "dialing" ELSE "doomed"]
          /\ UNCHANGED s2c
       \/ /\ opener' = [opener EXCEPT ![i] = "done"]
          /\ s2c' = Put(s2c, "err", i)
          /\ UNCHANGED streams
    /\ UNCHANGED <<clientVars, link, c2s, server, closing, conn>>

DialOK(i) ==
    /\ opener[i] = "dialing"
    /\ opener' = [opener EXCEPT ![i] = "dialed"]
    /\ conn' = [conn EXCEPT ![i] = "open"]
    /\ UNCHANGED <<clientVars, link, c2s, s2c, server, streams, closing>>

(* The target refused, or the stream's context was cancelled. *)
DialError(i) ==
    /\ opener[i] \in {"dialing", "doomed"}
    /\ opener' = [opener EXCEPT ![i] = "done"]
    /\ Remove({i})
    /\ s2c' = Put(s2c, "err", i)
    /\ UNCHANGED <<clientVars, link, c2s, server, conn>>

(* Mutant: the dialled connection is used without looking whether the stream *)
(* is still registered.                                                      *)
AttachAlways(i) ==
    /\ opener[i] = "dialed"
    /\ opener' = [opener EXCEPT ![i] = "reply"]
    /\ UNCHANGED <<clientVars, link, c2s, s2c, server, streams, closing, conn>>

(* The stream may have been removed while its target was dialled.            *)
Attach(i) ==
    /\ opener[i] = "dialed"
    /\ \/ /\ i \in streams
          /\ opener' = [opener EXCEPT ![i] = "reply"]
          /\ UNCHANGED conn
       \/ /\ i \notin streams
          /\ opener' = [opener EXCEPT ![i] = "done"]
          /\ conn' = [conn EXCEPT ![i] = "closed"]
    /\ UNCHANGED <<clientVars, link, c2s, s2c, server, streams, closing>>

(* OPEN_OK; a failed send removes the stream again. *)
Reply(i) ==
    /\ opener[i] = "reply"
    /\ opener' = [opener EXCEPT ![i] = "done"]
    /\ s2c' = Put(s2c, "ok", i)
    /\ \/ UNCHANGED <<streams, closing>>
       \/ link = "down" /\ Remove({i})
    /\ UNCHANGED <<clientVars, link, c2s, server, conn>>

(* Mutant: a failed stream is removed without a RESET. *)
RemoteErrorSilent(i) ==
    /\ opener[i] = "done" /\ i \in streams
    /\ Remove({i})
    /\ UNCHANGED <<clientVars, link, c2s, s2c, server, opener, conn>>

(* writeToRemote resets a stream whose socket failed. *)
RemoteError(i) ==
    /\ opener[i] = "done" /\ i \in streams
    /\ s2c' = Put(s2c, "reset", i)
    /\ Remove({i})
    /\ UNCHANGED <<clientVars, link, c2s, server, opener, conn>>

-----------------------------------------------------------------------------
OpenerNext(i) == Register(i) \/ DialOK(i) \/ DialError(i) \/ Attach(i) \/ Reply(i)

Next ==
    \/ \E i \in Ids : Dial(i) \/ DialReturn(i) \/ Close(i)
    \/ Dispatch \/ LinkDown
    \/ StartOpen \/ HandleClose \/ Cancel \/ Shutdown
    \/ \E i \in Ids : OpenerNext(i) \/ RemoteError(i) \/ CloseConn(i)

Spec == Init /\ [][Next]_vars

(* Goroutines that can run do run and a dial ends one way or the other; no   *)
(* caller has to close, no socket has to fail and the link need not end.     *)
Fairness ==
    /\ \A i \in Ids : WF_vars(DialReturn(i)) /\ WF_vars(OpenerNext(i)) /\ WF_vars(CloseConn(i))
    /\ WF_vars(Dispatch)
    /\ WF_vars(StartOpen \/ HandleClose)
    /\ WF_vars(Cancel) /\ WF_vars(Shutdown)

FairSpec == Spec /\ Fairness

-----------------------------------------------------------------------------
(* Properties. *)

(* A Windows socket that open dialled is never lost: a registered stream     *)
(* has it, or open still holds it, or remove is about to close it, however   *)
(* CLOSE, shutdown and the dial interleave.                                  *)
NoOrphanConn ==
    \A i \in Ids : conn[i] = "open" => i \in streams \/ i \in closing \/ opener[i] = "dialed"

InFlight(ch, type, i) == \E k \in 1..Len(ch) : ch[k] = Frame(type, i)

(* A stream the client may use is registered on the server, or its RESET is  *)
(* on the way: the server never drops an established stream silently.        *)
OpenAgreed ==
    \A i \in Ids : client[i] = "open" /\ i \notin done => i \in streams \/ InFlight(s2c, "reset", i)

(* DialContext returns even if its caller sets no deadline: every OPEN is    *)
(* answered, also when the limits refuse it or the stream is removed while   *)
(* its target is dialled.                                                    *)
DialReturns == \A i \in Ids : client[i] = "opening" ~> client[i] # "opening"

(* Windows sockets are given back: that of a stream that was established and *)
(* then closed, and after shutdown every one, even of an open that was still *)
(* dialling or had not registered yet.                                       *)
SocketsReleased ==
    /\ \A i \in Ids : (client[i] = "gone" /\ ready[i] = "ok") ~> conn[i] # "open"
    /\ server = "down" ~> [](\A i \in Ids : conn[i] # "open")
=============================================================================
