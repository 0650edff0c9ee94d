---------------------------- MODULE RelaySession ----------------------------
(* How wsl-proxy keeps one relay client attached to a Windows broker: a       *)
(* connector child carries the frames, runPersistentConnector replaces it     *)
(* when it exits and, when the broker turns out to be another process, drops  *)
(* what belonged to the old one and registers the configured mapping again.   *)
(* Reverse listeners are followed from LISTEN_OPEN to LISTEN_CLOSE.  The      *)
(* broker opens each in a goroutine that registers and binds in one step      *)
(* (ReverseForward has these apart); the other frames it handles at once.     *)
(* The connector may exit with frames in its pipes, the broker may restart,   *)
(* Windows may refuse a port.  An id names one listener until nothing refers  *)
(* to it any more and then the next one.  Strict leases are in StrictLeases.  *)
EXTENDS Naturals, Sequences, FiniteSets

CONSTANTS
    Keys,         \* the ports that are forwarded automatically
    Static,       \* the port of the configured reverse mapping
    PerPort,      \* names for the listeners of one port
    MaxRestarts,  \* bound on the restarts of the broker
    MaxFaults     \* bound on connector exits, refused ports and early timeouts

ASSUME SessionAssumption ==
    /\ Static \notin Keys /\ PerPort \in Nat \ {0}
    /\ MaxRestarts \in Nat /\ MaxFaults \in Nat

VARIABLES
    broker,     \* the instance id of the broker that is running
    bound,      \* its listeners: none, bound, or serving once committed
    pending,    \* what its goroutine of a listener has still to do: open it, or
                \* send a frame
    link,       \* the Link of the client: up or down
    c2s, s2c,   \* frames under way
    registered, \* c.listeners, which is also: clientListener.once not yet used
    ready,      \* what each clientListener.ready holds
    sess,       \* where runPersistentConnector is; nothing is said of a proxy
                \* that has ended: its service restarts it
    peer,       \* *peerInstanceID
    inited,     \* *initialized
    dialer,     \* whether sessionDialer has a client
    static,     \* the id of the configured mapping, or NoId
    faults,     \* faults so far
    lost,       \* ids of Windows listeners that lost a frame or gave up on CLOSE
    overtaken,  \* ids whose LISTEN_CLOSE was handled before the opening began
    severed,    \* ids that ResetPeerState invalidated
    failed      \* ids whose Windows listener failed by itself

clientVars == <<registered, ready>>
wireVars == <<broker, bound, pending, link, c2s, s2c>>
loopVars == <<sess, peer, inited, dialer, static>>
ghostVars == <<faults, lost, overtaken, severed, failed>>
sessionVars == <<clientVars, wireVars, loopVars, ghostVars>>

Ids == (Keys \cup {Static}) \X (1 .. PerPort)
NoId == <<>>
PortOf(i) == i[1]
Frames == [type : {"listen", "commit", "unlisten", "ok", "err"}, id : Ids]

SessionTypeOK ==
    /\ broker \in 1 .. MaxRestarts + 1 /\ peer \in 0 .. MaxRestarts + 1
    /\ bound \in [Ids -> {"none", "bound", "serving"}]
    /\ pending \in [Ids -> {"none", "open", "ok", "err", "unlisten"}]
    /\ link \in {"up", "down"}
    /\ c2s \in Seq(Frames) /\ s2c \in Seq(Frames)
    /\ registered \in SUBSET Ids
    /\ ready \in [Ids -> {"none", "ok", "err"}]
    /\ sess \in {"idle", "hello", "invalidate", "clear", "hook", "cancel", "close", "set",
                 "register", "write", "wait", "commit", "ready", "ended"}
    /\ inited \in BOOLEAN /\ dialer \in BOOLEAN
    /\ static \in Ids \cup {NoId} /\ faults \in 0 .. MaxFaults
    /\ lost \in SUBSET Ids /\ overtaken \in SUBSET Ids
    /\ severed \in SUBSET Ids /\ failed \in SUBSET Ids

SessionInit ==
    /\ broker = 1 /\ bound = [i \in Ids |-> "none"] /\ pending = [i \in Ids |-> "none"]
    /\ link = "down" /\ c2s = <<>> /\ s2c = <<>>
    /\ registered = {} /\ ready = [i \in Ids |-> "none"]
    /\ sess = "idle" /\ peer = 0 /\ inited = FALSE /\ dialer = FALSE /\ static = NoId
    /\ faults = 0 /\ lost = {} /\ overtaken = {} /\ severed = {} /\ failed = {}

Frame(type, i) == [type |-> type, id |-> i]
InFlight(ch) == {ch[n].id : n \in 1 .. Len(ch)}
Running == sess # "ended"
BoundIds == {i \in Ids : bound[i] # "none"}
Hosted == {i \in Ids : bound[i] # "none" \/ pending[i] = "open"}
Fault == faults < MaxFaults /\ faults' = faults + 1

-----------------------------------------------------------------------------
(* The client's listeners, for whoever opens one. *)

(* A name of which nothing is left, given those that callers still hold.      *)
FreeIds(p, held) ==
    {i \in Ids : PortOf(i) = p /\ bound[i] = "none" /\ pending[i] = "none"}
    \ (held \cup registered \cup InFlight(c2s) \cup InFlight(s2c))
NewId(p, held) == CHOOSE i \in FreeIds(p, held) : \A j \in FreeIds(p, held) : i[2] <= j[2]

(* ReserveReverseForward up to its write. *)
Reserve(i) ==
    /\ registered' = registered \cup {i}
    /\ lost' = lost \ {i} /\ overtaken' = overtaken \ {i}
    /\ severed' = severed \ {i} /\ failed' = failed \ {i}
    /\ UNCHANGED <<ready, faults>>

(* Client.write waits for an attachment, under no context of the caller.     *)
WriteFrame(type, i) ==
    /\ link = "up"
    /\ c2s' = Append(c2s, Frame(type, i))

(* Mutant: Close forgets the listener and sends nothing. *)
CloseListenerSilent(i) ==
    /\ registered' = registered \ {i}
    /\ ready' = [ready EXCEPT ![i] = "none"]
    /\ UNCHANGED <<c2s, lost>>

(* clientListener.Close: nothing if the listener was invalidated; otherwise   *)
(* it is removed and LISTEN_CLOSE is written, or given up when the Link has   *)
(* no connector for closeFrameTimeout.                                        *)
CloseListener(i) ==
    /\ registered' = registered \ {i}
    /\ ready' = [ready EXCEPT ![i] = "none"]
    /\ \/ /\ i \notin registered
          /\ UNCHANGED <<c2s, lost>>
       \/ /\ i \in registered /\ link = "up"
          /\ c2s' = Append(c2s, Frame("unlisten", i))
          /\ UNCHANGED lost
       \/ /\ i \in registered /\ link = "down"
          /\ lost' = lost \cup ({i} \cap Hosted)
          /\ UNCHANGED c2s

(* dispatch of LISTEN_OK and LISTEN_ERROR; an unknown id is passed over, and  *)
(* so is LISTEN_CLOSE, which is nothing to a client without such a stream.    *)
Dispatch ==
    /\ Running /\ s2c # <<>>
    /\ s2c' = Tail(s2c)
    /\ LET f == Head(s2c) IN
       ready' = IF f.type \in {"ok", "err"} /\ f.id \in registered /\ ready[f.id] = "none"
                THEN [ready EXCEPT ![f.id] = f.type] ELSE ready
    /\ UNCHANGED <<registered, broker, bound, pending, link, c2s, loopVars, ghostVars>>

-----------------------------------------------------------------------------
(* The broker and the connector. *)

Free(p) == \A i \in BoundIds : PortOf(i) # p

(* LISTEN_OPEN starts a goroutine, and the next frame may be handled first.   *)
HandleListen ==
    /\ Running /\ c2s # <<>> /\ Head(c2s).type = "listen"
    /\ c2s' = Tail(c2s)
    /\ pending' = [pending EXCEPT ![Head(c2s).id] = "open"]
    /\ UNCHANGED <<clientVars, broker, bound, link, s2c, loopVars, ghostVars>>

(* Server.send in the goroutine of i: at once, or when there is an attachment. *)
Send(type, i) ==
    \/ /\ link = "up"
       /\ s2c' = Append(s2c, Frame(type, i))
       /\ pending' = [pending EXCEPT ![i] = "none"]
    \/ /\ link = "down"
       /\ pending' = [pending EXCEPT ![i] = type]
       /\ UNCHANGED s2c

(* The goroutine: the port is bound, or refused because it is taken, by one   *)
(* of the broker's own listeners or by another program on Windows.            *)
OpenListener(i) ==
    /\ Running /\ pending[i] = "open"
    /\ \/ /\ Free(PortOf(i))
          /\ bound' = [bound EXCEPT ![i] = "bound"]
          /\ Send("ok", i)
          /\ UNCHANGED faults
       \/ /\ \/ ~Free(PortOf(i)) /\ UNCHANGED faults
             \/ Free(PortOf(i)) /\ Fault
          /\ Send("err", i)
          /\ UNCHANGED bound
    /\ UNCHANGED <<clientVars, broker, link, c2s, loopVars, lost, overtaken, severed, failed>>

SendPending(i) ==
    /\ Running /\ pending[i] \in {"ok", "err", "unlisten"} /\ link = "up"
    /\ Send(pending[i], i)
    /\ UNCHANGED <<clientVars, broker, bound, link, c2s, loopVars, ghostVars>>

HandleCommit ==
    /\ Running /\ c2s # <<>> /\ Head(c2s).type = "commit"
    /\ c2s' = Tail(c2s)
    /\ LET i == Head(c2s).id IN
       bound' = IF bound[i] = "bound" THEN [bound EXCEPT ![i] = "serving"] ELSE bound
    /\ UNCHANGED <<clientVars, broker, pending, link, s2c, loopVars, ghostVars>>

(* removeListener: nothing, if the goroutine has not registered the listener  *)
(* yet, which it will do nevertheless.                                        *)
HandleUnlisten ==
    /\ Running /\ c2s # <<>> /\ Head(c2s).type = "unlisten"
    /\ c2s' = Tail(c2s)
    /\ bound' = [bound EXCEPT ![Head(c2s).id] = "none"]
    /\ lost' = lost \ {Head(c2s).id}
    /\ overtaken' = overtaken \cup ({Head(c2s).id} \cap {i \in Ids : pending[i] = "open"})
    /\ UNCHANGED <<clientVars, broker, pending, link, s2c, loopVars, faults, severed, failed>>

BrokerHandles == HandleListen \/ HandleCommit \/ HandleUnlisten
ListenerRuns(i) == OpenListener(i) \/ SendPending(i)

(* serveListener: Accept fails, the listener is removed and the client told.  *)
AcceptFails(i) ==
    /\ Running /\ bound[i] = "serving" /\ pending[i] = "none" /\ Fault
    /\ bound' = [bound EXCEPT ![i] = "none"]
    /\ Send("unlisten", i)
    /\ failed' = failed \cup {i} /\ lost' = lost \ {i}
    /\ UNCHANGED <<clientVars, broker, link, c2s, loopVars, overtaken, severed>>

(* The connector exits by itself, and what is in its pipes is gone although   *)
(* the Links reported it written.                                             *)
ConnectorExit ==
    /\ Running /\ link = "up" /\ Fault
    /\ link' = "down"
    /\ c2s' = <<>> /\ s2c' = <<>>
    /\ lost' = lost \cup ((InFlight(c2s) \cup InFlight(s2c)) \cap Hosted)
    /\ UNCHANGED <<clientVars, broker, bound, pending, loopVars, overtaken, severed, failed>>

(* Another broker takes over; the connector's end of the pipe breaks.         *)
BrokerRestart ==
    /\ Running /\ broker <= MaxRestarts
    /\ broker' = broker + 1
    /\ bound' = [i \in Ids |-> "none"] /\ pending' = [i \in Ids |-> "none"]
    /\ link' = "down"
    /\ c2s' = <<>> /\ s2c' = <<>>
    /\ lost' = {} /\ overtaken' = {} /\ failed' = {}
    /\ UNCHANGED <<clientVars, loopVars, faults, severed>>

-----------------------------------------------------------------------------
(* supervise and runPersistentConnector. *)

(* A new connector is started and attached to the Link. *)
AttachConnector ==
    /\ sess = "idle"
    /\ sess' = "hello" /\ link' = "up"
    /\ UNCHANGED <<clientVars, broker, bound, pending, c2s, s2c, peer, inited, dialer, static, ghostVars>>

(* HELLO_OK tells the broker's instance id; peer state is dropped if it       *)
(* changed, and mappings are registered unless they already are.              *)
HelloOK ==
    /\ sess = "hello" /\ link = "up"
    /\ peer' = broker
    /\ sess' = IF inited /\ peer # broker THEN "invalidate"
               ELSE IF inited THEN "ready" ELSE "set"
    /\ UNCHANGED <<clientVars, wireVars, inited, dialer, static, ghostVars>>

(* A handshake that does not complete times out, which no one retries.        *)
HelloFails ==
    /\ sess = "hello" /\ link = "down"
    /\ sess' = "ended"
    /\ UNCHANGED <<clientVars, wireVars, peer, inited, dialer, static, ghostVars>>

(* ResetPeerState invalidates every listener of the client, then the          *)
(* configured mappings are closed, which sends nothing.                       *)
Invalidate ==
    /\ sess = "invalidate"
    /\ registered' = {} /\ severed' = severed \cup registered
    /\ static' = NoId
    /\ sess' = "clear"
    /\ UNCHANGED <<ready, wireVars, peer, inited, dialer, faults, lost, overtaken, failed>>

(* sessionDialer.clear up to its hook, which the watcher supplies. *)
ClearClient ==
    /\ sess = "clear"
    /\ dialer' = FALSE
    /\ sess' = "hook"
    /\ UNCHANGED <<clientVars, wireVars, peer, inited, static, ghostVars>>

(* The hook returns and the new broker counts as not initialized. *)
Cleared ==
    /\ sess' = "set" /\ inited' = FALSE
    /\ UNCHANGED <<peer, dialer, static>>

SetClient ==
    /\ sess = "set"
    /\ dialer' = TRUE
    /\ sess' = "register"
    /\ UNCHANGED <<clientVars, wireVars, peer, inited, static, ghostVars>>

(* registerMappings: the configured mapping is reserved and committed, under  *)
(* a context that ends only with the proxy.                                   *)
Register(held) ==
    /\ sess = "register" /\ FreeIds(Static, held) # {}
    /\ static' = NewId(Static, held)
    /\ Reserve(static')
    /\ sess' = "write"
    /\ UNCHANGED <<wireVars, peer, inited, dialer>>

RegisterWrite ==
    /\ sess = "write" /\ WriteFrame("listen", static)
    /\ sess' = "wait"
    /\ UNCHANGED <<clientVars, broker, bound, pending, link, s2c, peer, inited, dialer, static, ghostVars>>

RegisterAnswer ==
    /\ sess = "wait" /\ ready[static] # "none"
    /\ ready' = [ready EXCEPT ![static] = "none"]
    /\ sess' = IF ready[static] = "ok" THEN "commit" ELSE "ended"
    /\ UNCHANGED <<registered, wireVars, peer, inited, dialer, static, ghostVars>>

RegisterCommit ==
    /\ sess = "commit" /\ WriteFrame("commit", static)
    /\ sess' = "ready" /\ inited' = TRUE
    /\ UNCHANGED <<clientVars, broker, bound, pending, link, s2c, peer, dialer, static, ghostVars>>

(* The connector's exit is noticed: a new one is started after a delay, or    *)
(* the proxy gives up because it exited with a status.                        *)
Noticed ==
    /\ sess = "ready" /\ link = "down"
    /\ sess' \in {"idle", "ended"}
    /\ UNCHANGED <<clientVars, wireVars, peer, inited, dialer, static, ghostVars>>

SessionStep(held) ==
    AttachConnector \/ HelloOK \/ HelloFails \/ Invalidate \/ ClearClient \/ SetClient \/ Register(held)
    \/ RegisterWrite \/ RegisterAnswer \/ RegisterCommit \/ Noticed

=============================================================================
