--------------------------- MODULE ReverseForward ---------------------------
(* Reverse forwarding: ReserveReverseForward asks the server to bind a       *)
(* Windows listener, Commit lets it accept, and every accepted connection    *)
(* becomes a stream that the server opens towards the client, which dials    *)
(* the WSL target.  LISTEN_OPEN runs in a goroutine of its own while         *)
(* LISTEN_CLOSE and LISTEN_COMMIT are handled by the frame reader, and each  *)
(* listener has an accept loop.  The server is the attached one, whose sends *)
(* fail once its context is cancelled.  Ids are never reused.  The limits on  *)
(* streams and on concurrent opens count the streams of DialContext and the  *)
(* datagram associations too, so here they may refuse at any time.           *)
EXTENDS Naturals, Sequences, FiniteSets

CONSTANTS
    Listeners,     \* listener ids the client allocates
    Conns,         \* ids of the inbound streams: the connections Windows makes
    MaxListeners   \* MaxConcurrentListeners

ASSUME LimitsAssumption == MaxListeners \in Nat \ {0}

VARIABLES
    client,    \* each listener: none, opening, reserved or closed
    ready,     \* each listener: what clientListener.ready holds or held
    commit,    \* listeners whose ReverseReservation.Commit ran
    cstream,   \* each inbound stream at the client: none, dialing, bridged, gone
    failed,    \* inbound streams whose clientStream.done is closed
    link,      \* the transport: up or down
    c2s, s2c,  \* frames under way
    server,    \* serving, cancelled, unlistened or down: how far shutdown is
    serve,     \* each listener: where openListener and then serveListener is
    lmap,      \* s.listeners
    cancelled, \* listeners whose context is cancelled
    committed, \* listeners whose commit channel is closed
    sock,      \* each listener: the Windows socket
    cur,       \* each listener: the connection its accept loop has in hand
    lis,       \* each inbound stream: the listener INBOUND_OPEN names
    streams,   \* s.streams, inbound
    conn       \* each inbound stream: the accepted connection

clientVars == <<client, ready, commit, cstream, failed>>
serverVars == <<server, serve, lmap, cancelled, committed, sock, cur, lis, streams, conn>>
vars == <<clientVars, link, c2s, s2c, serverVars>>

None == "none"
ServeStates == {"none", "spawned", "binding", "bound", "reply", "waiting",
                "accepting", "accepted", "announce", "done"}
Frames ==
    [type : {"listen", "commit", "unlisten", "ok", "err"}, id : Listeners]
    \cup [type : {"inbound", "close", "reset"}, id : Conns]

TypeOK ==
    /\ client \in [Listeners -> {"none", "opening", "reserved", "closed"}]
    /\ ready \in [Listeners -> {"none", "ok", "err"}]
    /\ commit \in SUBSET Listeners
    /\ cstream \in [Conns -> {"none", "dialing", "bridged", "gone"}]
    /\ failed \in SUBSET Conns
    /\ link \in {"up", "down"}
    /\ c2s \in Seq(Frames) /\ s2c \in Seq(Frames)
    /\ server \in {"serving", "cancelled", "unlistened", "down"}
    /\ serve \in [Listeners -> ServeStates]
    /\ lmap \in SUBSET Listeners
    /\ cancelled \in SUBSET Listeners
    /\ committed \in SUBSET Listeners
    /\ sock \in [Listeners -> {"none", "open", "closed"}]
    /\ cur \in [Listeners -> Conns \cup {None}]
    /\ lis \in [Conns -> Listeners \cup {None}]
    /\ streams \in SUBSET Conns
    /\ conn \in [Conns -> {"none", "open", "closed"}]

Init ==
    /\ client = [l \in Listeners |-> "none"] /\ ready = [l \in Listeners |-> "none"]
    /\ commit = {} /\ cstream = [s \in Conns |-> "none"] /\ failed = {}
    /\ link = "up" /\ c2s = <<>> /\ s2c = <<>>
    /\ server = "serving" /\ serve = [l \in Listeners |-> "none"]
    /\ lmap = {} /\ cancelled = {} /\ committed = {}
    /\ sock = [l \in Listeners |-> "none"] /\ cur = [l \in Listeners |-> None]
    /\ lis = [s \in Conns |-> None]
    /\ streams = {} /\ conn = [s \in Conns |-> "none"]

Frame(type, i) == [type |-> type, id |-> i]
Put(ch, type, i) == IF link = "up" THEN Append(ch, Frame(type, i)) ELSE ch

-----------------------------------------------------------------------------
(* The client. *)

RegisteredListeners == {l \in Listeners : client[l] \in {"opening", "reserved"}}
RegisteredStreams == {s \in Conns : cstream[s] \in {"dialing", "bridged"}}

(* ReserveReverseForward up to its select, or refused for the limit.         *)
Reserve(l) ==
    /\ client[l] = "none" /\ link = "up"
    /\ \/ /\ Cardinality(RegisteredListeners) < MaxListeners
          /\ client' = [client EXCEPT ![l] = "opening"]
          /\ c2s' = Append(c2s, Frame("listen", l))
       \/ /\ ~(Cardinality(RegisteredListeners) < MaxListeners)
          /\ client' = [client EXCEPT ![l] = "closed"]
          /\ UNCHANGED c2s
    /\ UNCHANGED <<ready, commit, cstream, failed, link, s2c, serverVars>>

ReserveReturn(l) ==
    /\ client[l] = "opening" /\ ready[l] # "none"
    /\ client' = [client EXCEPT ![l] = IF ready[l] = "ok" THEN "reserved" ELSE "closed"]
    /\ UNCHANGED <<ready, commit, cstream, failed, link, c2s, s2c, serverVars>>

(* clientListener.Close: by the owner, or when the caller's context ends.    *)
CloseListener(l) ==
    /\ client[l] \in {"opening", "reserved"} /\ link = "up"
    /\ client' = [client EXCEPT ![l] = "closed"]
    /\ c2s' = Append(c2s, Frame("unlisten", l))
    /\ UNCHANGED <<ready, commit, cstream, failed, link, s2c, serverVars>>

(* Commit is sent once, even if the reservation has been closed meanwhile.   *)
Commit(l) ==
    /\ client[l] \in {"reserved", "closed"} /\ ready[l] = "ok" /\ l \notin commit
    /\ link = "up"
    /\ commit' = commit \cup {l}
    /\ c2s' = Append(c2s, Frame("commit", l))
    /\ UNCHANGED <<client, ready, cstream, failed, link, s2c, serverVars>>

(* dispatch of the answers to LISTEN_OPEN; the first one counts.             *)
DispatchListen ==
    /\ s2c # <<>> /\ Head(s2c).type \in {"ok", "err"}
    /\ s2c' = Tail(s2c)
    /\ LET f == Head(s2c) IN
       ready' = IF f.id \in RegisteredListeners /\ ready[f.id] = "none"
                THEN [ready EXCEPT ![f.id] = f.type] ELSE ready
    /\ UNCHANGED <<client, commit, cstream, failed, link, c2s, serverVars>>

(* LISTEN_CLOSE from the server finds no stream with its id and is dropped.  *)
DispatchUnlisten ==
    /\ s2c # <<>> /\ Head(s2c).type = "unlisten"
    /\ s2c' = Tail(s2c)
    /\ UNCHANGED <<clientVars, link, c2s, serverVars>>

(* Mutant: an INBOUND_OPEN that is refused gets no RESET. *)
DispatchInboundSilent ==
    /\ s2c # <<>> /\ Head(s2c).type = "inbound"
    /\ s2c' = Tail(s2c)
    /\ LET s == Head(s2c).id IN
       cstream' = IF lis[s] \in RegisteredListeners
                  THEN [cstream EXCEPT ![s] = "dialing"] ELSE cstream
    /\ UNCHANGED <<client, ready, commit, failed, link, c2s, serverVars>>

(* INBOUND_OPEN starts acceptInbound; it is refused with RESET if its        *)
(* listener is closed or the stream limit is reached.                        *)
DispatchInbound ==
    /\ s2c # <<>> /\ Head(s2c).type = "inbound"
    /\ s2c' = Tail(s2c)
    /\ LET s == Head(s2c).id IN
       \/ /\ lis[s] \in RegisteredListeners
          /\ cstream' = [cstream EXCEPT ![s] = "dialing"]
          /\ UNCHANGED c2s
       \/ /\ c2s' = Append(c2s, Frame("reset", s))
          /\ UNCHANGED cstream
    /\ UNCHANGED <<client, ready, commit, failed, link, serverVars>>

DispatchReset ==
    /\ s2c # <<>> /\ Head(s2c).type = "reset"
    /\ s2c' = Tail(s2c)
    /\ failed' = failed \cup ({Head(s2c).id} \cap RegisteredStreams)
    /\ UNCHANGED <<client, ready, commit, cstream, link, c2s, serverVars>>

(* acceptInbound: the WSL target answers and the two are bridged, or it does *)
(* not (perhaps because the listener's context is cancelled) and the stream  *)
(* is reset.                                                                 *)
LocalDialOK(s) ==
    /\ cstream[s] = "dialing"
    /\ cstream' = [cstream EXCEPT ![s] = "bridged"]
    /\ UNCHANGED <<client, ready, commit, failed, link, c2s, s2c, serverVars>>

LocalDialError(s) ==
    /\ cstream[s] = "dialing"
    /\ cstream' = [cstream EXCEPT ![s] = "gone"]
    /\ c2s' = Put(c2s, "reset", s)
    /\ UNCHANGED <<client, ready, commit, failed, link, s2c, serverVars>>

(* bridge returns after it has closed both ends. *)
BridgeEnd(s) ==
    /\ cstream[s] = "bridged"
    /\ cstream' = [cstream EXCEPT ![s] = "gone"]
    /\ c2s' = Put(c2s, "close", s)
    /\ UNCHANGED <<client, ready, commit, failed, link, s2c, serverVars>>

(* The transport ends; Client.fail invalidates the listeners and fails the   *)
(* streams.                                                                  *)
LinkDown ==
    /\ link = "up"
    /\ link' = "down"
    /\ c2s' = <<>> /\ s2c' = <<>>
    /\ client' = [l \in Listeners |-> IF l \in RegisteredListeners THEN "closed" ELSE client[l]]
    /\ failed' = failed \cup RegisteredStreams
    /\ UNCHANGED <<ready, commit, cstream, serverVars>>

-----------------------------------------------------------------------------
(* The server's frame reader. *)

(* startOpen: a goroutine for openListener, or a refusal when all slots are  *)
(* taken.                                                                    *)
StartListen ==
    /\ server = "serving" /\ c2s # <<>> /\ Head(c2s).type = "listen"
    /\ c2s' = Tail(c2s)
    /\ LET l == Head(c2s).id IN
       \/ /\ serve' = [serve EXCEPT ![l] = "spawned"]
          /\ UNCHANGED s2c
       \/ /\ s2c' = Put(s2c, "err", l)
          /\ UNCHANGED serve
    /\ UNCHANGED <<clientVars, link, server, lmap, cancelled, committed, sock, cur, lis, streams, conn>>

HandleCommit ==
    /\ server = "serving" /\ c2s # <<>> /\ Head(c2s).type = "commit"
    /\ c2s' = Tail(c2s)
    /\ committed' = committed \cup ({Head(c2s).id} \cap lmap)
    /\ UNCHANGED <<clientVars, link, s2c, server, serve, lmap, cancelled, sock, cur, lis, streams, conn>>

(* Mutant: a listener leaves the map and is not cancelled. *)
RemoveListenersOnly(set) ==
    /\ lmap' = lmap \ set
    /\ UNCHANGED cancelled

(* removeListener: unregister and cancel; CloseSocket does the rest.         *)
RemoveListeners(set) ==
    /\ lmap' = lmap \ set
    /\ cancelled' = cancelled \cup (set \cap lmap)

HandleUnlisten ==
    /\ server = "serving" /\ c2s # <<>> /\ Head(c2s).type = "unlisten"
    /\ c2s' = Tail(c2s)
    /\ RemoveListeners({Head(c2s).id})
    /\ UNCHANGED <<clientVars, link, s2c, server, serve, committed, sock, cur, lis, streams, conn>>

(* remove: unregister a stream and close its connection. *)
RemoveStreams(set) ==
    /\ streams' = streams \ set
    /\ conn' = [s \in Conns |-> IF s \in set \cap streams THEN "closed" ELSE conn[s]]

HandleClose ==
    /\ server = "serving" /\ c2s # <<>> /\ Head(c2s).type \in {"close", "reset"}
    /\ c2s' = Tail(c2s)
    /\ RemoveStreams({Head(c2s).id})
    /\ UNCHANGED <<clientVars, link, s2c, server, serve, lmap, cancelled, committed, sock, cur, lis>>

(* shutdown: cancel the context every listener inherits, remove the          *)
(* listeners there are, then the streams there are.                          *)
Cancel ==
    /\ server = "serving" /\ link = "down"
    /\ server' = "cancelled"
    /\ cancelled' = Listeners
    /\ UNCHANGED <<clientVars, link, c2s, s2c, serve, lmap, committed, sock, cur, lis, streams, conn>>

ShutdownListeners ==
    /\ server = "cancelled"
    /\ server' = "unlistened"
    /\ RemoveListeners(lmap)
    /\ UNCHANGED <<clientVars, link, c2s, s2c, serve, committed, sock, cur, lis, streams, conn>>

ShutdownStreams ==
    /\ server = "unlistened"
    /\ server' = "down"
    /\ RemoveStreams(streams)
    /\ UNCHANGED <<clientVars, link, c2s, s2c, serve, lmap, cancelled, committed, sock, cur, lis>>

-----------------------------------------------------------------------------
(* openListener, in its goroutine. *)

RegisterListener(l) ==
    /\ serve[l] = "spawned"
    /\ \/ /\ Cardinality(lmap) < MaxListeners
          /\ lmap' = lmap \cup {l}
          /\ serve' = [serve EXCEPT ![l] = "binding"]
          /\ UNCHANGED s2c
       \/ /\ ~(Cardinality(lmap) < MaxListeners)
          /\ serve' = [serve EXCEPT ![l] = "done"]
          /\ s2c' = Put(s2c, "err", l)
          /\ UNCHANGED lmap
    /\ UNCHANGED <<clientVars, link, c2s, server, cancelled, committed, sock, cur, lis, streams, conn>>

BindOK(l) ==
    /\ serve[l] = "binding"
    /\ serve' = [serve EXCEPT ![l] = "bound"]
    /\ sock' = [sock EXCEPT ![l] = "open"]
    /\ UNCHANGED <<clientVars, link, c2s, s2c, server, lmap, cancelled, committed, cur, lis, streams, conn>>

(* Mutant: a failed bind is not reported. *)
BindErrorSilent(l) ==
    /\ serve[l] = "binding"
    /\ serve' = [serve EXCEPT ![l] = "done"]
    /\ lmap' = lmap \ {l}
    /\ cancelled' = cancelled \cup {l}
    /\ UNCHANGED <<clientVars, link, c2s, s2c, server, committed, sock, cur, lis, streams, conn>>

BindError(l) ==
    /\ serve[l] = "binding"
    /\ serve' = [serve EXCEPT ![l] = "done"]
    /\ lmap' = lmap \ {l}
    /\ cancelled' = cancelled \cup {l}
    /\ s2c' = Put(s2c, "err", l)
    /\ UNCHANGED <<clientVars, link, c2s, server, committed, sock, cur, lis, streams, conn>>

(* The listener may have been removed or the server cancelled during bind.   *)
Publish(l) ==
    /\ serve[l] = "bound"
    /\ \/ /\ l \in lmap /\ l \notin cancelled
          /\ serve' = [serve EXCEPT ![l] = "reply"]
          /\ UNCHANGED <<sock, cancelled>>
       \/ /\ l \notin lmap \/ l \in cancelled
          /\ serve' = [serve EXCEPT ![l] = "done"]
          /\ cancelled' = cancelled \cup {l}
          /\ sock' = [sock EXCEPT ![l] = "closed"]
    /\ UNCHANGED <<clientVars, link, c2s, s2c, server, lmap, committed, cur, lis, streams, conn>>

(* LISTEN_OK, then serveListener starts; a failed send removes the listener. *)
SendOK(l) ==
    /\ serve[l] = "reply"
    /\ \/ /\ server = "serving"
          /\ s2c' = Put(s2c, "ok", l)
          /\ serve' = [serve EXCEPT ![l] = "waiting"]
          /\ UNCHANGED <<lmap, cancelled>>
       \/ /\ link = "down"
          /\ serve' = [serve EXCEPT ![l] = "done"]
          /\ RemoveListeners({l})
          /\ UNCHANGED s2c
    /\ UNCHANGED <<clientVars, link, c2s, server, committed, sock, cur, lis, streams, conn>>

-----------------------------------------------------------------------------
(* serveListener. *)

(* Mutant: accepting does not wait for the commit. *)
StartAcceptingEarly(l) ==
    /\ serve[l] = "waiting"
    /\ serve' = [serve EXCEPT ![l] = "accepting"]
    /\ UNCHANGED <<clientVars, link, c2s, s2c, server, lmap, cancelled, committed, sock, cur, lis, streams, conn>>

StartAccepting(l) ==
    /\ serve[l] = "waiting" /\ l \in committed
    /\ serve' = [serve EXCEPT ![l] = "accepting"]
    /\ UNCHANGED <<clientVars, link, c2s, s2c, server, lmap, cancelled, committed, sock, cur, lis, streams, conn>>

StopWaiting(l) ==
    /\ serve[l] = "waiting" /\ l \in cancelled
    /\ serve' = [serve EXCEPT ![l] = "done"]
    /\ UNCHANGED <<clientVars, link, c2s, s2c, server, lmap, cancelled, committed, sock, cur, lis, streams, conn>>

(* A cancelled listener's socket is closed, by removeListener or by the      *)
(* goroutine that waits for its context.                                     *)
CloseSocket(l) ==
    /\ l \in cancelled /\ sock[l] = "open" /\ serve[l] # "bound"
    /\ sock' = [sock EXCEPT ![l] = "closed"]
    /\ UNCHANGED <<clientVars, link, c2s, s2c, server, serve, lmap, cancelled, committed, cur, lis, streams, conn>>

Accept(l, s) ==
    /\ serve[l] = "accepting" /\ sock[l] = "open"
    /\ conn[s] = "none"
    /\ serve' = [serve EXCEPT ![l] = "accepted"]
    /\ cur' = [cur EXCEPT ![l] = s]
    /\ lis' = [lis EXCEPT ![s] = l]
    /\ conn' = [conn EXCEPT ![s] = "open"]
    /\ UNCHANGED <<clientVars, link, c2s, s2c, server, lmap, cancelled, committed, sock, streams>>

(* Accept fails: the socket was closed, or by itself. *)
AcceptError(l) ==
    /\ serve[l] = "accepting"
    /\ serve' = [serve EXCEPT ![l] = "done"]
    /\ RemoveListeners({l})
    /\ s2c' = Put(s2c, "unlisten", l)
    /\ UNCHANGED <<clientVars, link, c2s, server, committed, sock, cur, lis, streams, conn>>

(* registerInboundStream; at the stream limit the connection is closed.      *)
RegisterInbound(l) ==
    /\ serve[l] = "accepted"
    /\ \/ /\ streams' = streams \cup {cur[l]}
          /\ serve' = [serve EXCEPT ![l] = "announce"]
          /\ UNCHANGED conn
       \/ /\ conn' = [conn EXCEPT ![cur[l]] = "closed"]
          /\ serve' = [serve EXCEPT ![l] = "accepting"]
          /\ UNCHANGED streams
    /\ UNCHANGED <<clientVars, link, c2s, s2c, server, lmap, cancelled, committed, sock, cur, lis>>

(* Mutant: INBOUND_OPEN names the listener instead of the stream. *)
SendInboundListener(l) ==
    /\ serve[l] = "announce" /\ server = "serving"
    /\ s2c' = Put(s2c, "inbound", l)
    /\ serve' = [serve EXCEPT ![l] = "accepting"]
    /\ UNCHANGED <<clientVars, link, c2s, server, lmap, cancelled, committed, sock, cur, lis, streams, conn>>

(* Mutant: a failed INBOUND_OPEN ends the loop and leaves the stream. *)
SendInboundLeak(l) ==
    /\ serve[l] = "announce"
    /\ \/ /\ server = "serving"
          /\ s2c' = Put(s2c, "inbound", cur[l])
          /\ serve' = [serve EXCEPT ![l] = "accepting"]
       \/ /\ link = "down"
          /\ serve' = [serve EXCEPT ![l] = "done"]
          /\ UNCHANGED s2c
    /\ UNCHANGED <<clientVars, link, c2s, server, lmap, cancelled, committed, sock, cur, lis, streams, conn>>

(* INBOUND_OPEN; a failed send removes the stream and ends the accept loop.  *)
SendInbound(l) ==
    /\ serve[l] = "announce"
    /\ \/ /\ server = "serving"
          /\ s2c' = Put(s2c, "inbound", cur[l])
          /\ serve' = [serve EXCEPT ![l] = "accepting"]
          /\ UNCHANGED <<streams, conn>>
       \/ /\ link = "down"
          /\ serve' = [serve EXCEPT ![l] = "done"]
          /\ RemoveStreams({cur[l]})
          /\ UNCHANGED s2c
    /\ UNCHANGED <<clientVars, link, c2s, server, lmap, cancelled, committed, sock, cur, lis>>

(* Mutant: a failed connection is dropped without a RESET. *)
RemoteErrorSilent(s) ==
    /\ s \in streams
    /\ \A l \in Listeners : ~(serve[l] = "announce" /\ cur[l] = s)
    /\ RemoveStreams({s})
    /\ UNCHANGED <<clientVars, link, c2s, s2c, server, serve, lmap, cancelled, committed, sock, cur, lis>>

(* The stream's workers reset it when its connection fails. *)
RemoteError(s) ==
    /\ s \in streams
    /\ \A l \in Listeners : ~(serve[l] = "announce" /\ cur[l] = s)
    /\ s2c' = Put(s2c, "reset", s)
    /\ RemoveStreams({s})
    /\ UNCHANGED <<clientVars, link, c2s, server, serve, lmap, cancelled, committed, sock, cur, lis>>

-----------------------------------------------------------------------------
DispatchNext == DispatchListen \/ DispatchUnlisten \/ DispatchInbound \/ DispatchReset
ReaderNext == StartListen \/ HandleCommit \/ HandleUnlisten \/ HandleClose
OpenNext(l) == RegisterListener(l) \/ BindOK(l) \/ BindError(l) \/ Publish(l) \/ SendOK(l)
ServeNext(l) == StartAccepting(l) \/ StopWaiting(l) \/ RegisterInbound(l) \/ SendInbound(l)

Next ==
    \/ \E l \in Listeners : Reserve(l) \/ ReserveReturn(l) \/ CloseListener(l) \/ Commit(l)
    \/ \E s \in Conns : LocalDialOK(s) \/ LocalDialError(s) \/ BridgeEnd(s) \/ RemoteError(s)
    \/ DispatchNext \/ LinkDown
    \/ ReaderNext \/ Cancel \/ ShutdownListeners \/ ShutdownStreams
    \/ \E l \in Listeners : OpenNext(l) \/ ServeNext(l) \/ CloseSocket(l) \/ AcceptError(l)
    \/ \E l \in Listeners, s \in Conns : Accept(l, s)

Spec == Init /\ [][Next]_vars

(* Goroutines that can run do run; Windows need not connect, accepting need  *)
(* not fail while the socket is open, and nobody has to close anything.      *)
Fairness ==
    /\ \A l \in Listeners :
          /\ WF_vars(ReserveReturn(l)) /\ WF_vars(OpenNext(l)) /\ WF_vars(ServeNext(l))
          /\ WF_vars(CloseSocket(l)) /\ WF_vars(AcceptError(l) /\ sock[l] = "closed")
    /\ \A s \in Conns :
          /\ WF_vars(LocalDialOK(s) \/ LocalDialError(s))
          /\ WF_vars(BridgeEnd(s) /\ s \in failed)
    /\ WF_vars(DispatchNext)
    /\ WF_vars(ReaderNext)
    /\ WF_vars(Cancel) /\ WF_vars(ShutdownListeners) /\ WF_vars(ShutdownStreams)

FairSpec == Spec /\ Fairness

-----------------------------------------------------------------------------
(* Properties. *)

(* A bound Windows socket is never lost: it belongs to a registered listener, *)
(* or openListener still holds it, or it is about to be closed.              *)
NoOrphanSocket ==
    \A l \in Listeners : sock[l] = "open" => l \in lmap \/ l \in cancelled \/ serve[l] = "bound"

(* No Windows client is accepted before the reservation was committed        *)
(* ("binds the Windows listener without accepting clients").                 *)
AcceptAfterCommit == \A s \in Conns : conn[s] # "none" => lis[s] \in commit

(* An inbound stream that the client serves is registered on the server, or  *)
(* its RESET is on the way.                                                  *)
InboundAgreed ==
    \A s \in RegisteredStreams \ failed :
        s \in streams \/ \E k \in 1..Len(s2c) : s2c[k] = Frame("reset", s)

(* ReserveReverseForward returns even without a deadline. *)
ReserveReturns == \A l \in Listeners : client[l] = "opening" ~> client[l] # "opening"

(* An accepted Windows connection is bridged to the WSL target or closed,    *)
(* also when its listener was removed on either side meanwhile.              *)
InboundSettles == \A s \in Conns : conn[s] = "open" ~> (conn[s] = "closed" \/ cstream[s] = "bridged")

(* Windows sockets are given back: that of a granted reservation that was    *)
(* closed, and after shutdown every listener and accepted connection, even   *)
(* one that was bound or accepted while shutdown ran.                        *)
SocketsReleased ==
    /\ \A l \in Listeners : (client[l] = "closed" /\ ready[l] = "ok") ~> sock[l] # "open"
    /\ server = "down" ~> [](/\ \A l \in Listeners : sock[l] # "open"
                             /\ \A s \in Conns : conn[s] # "open")

=============================================================================
