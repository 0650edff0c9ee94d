----------------------------- MODULE FramedLink -----------------------------
(* framed.Link in broker mode: the relay's two ends each own a Link whose    *)
(* transport is replaced whenever a new connector attaches.  One direction   *)
(* is modelled: goroutines of the writing end call WriteFrame (and retry     *)
(* while it says ErrDetached, as Server.send and Client.writeContext do),    *)
(* the frame loop of the reading end calls ReadFrame.  A transport is a      *)
(* connector process: a bounded buffer that dies with it.  protocol.Write    *)
(* puts a frame on the wire in two parts, header and payload, and            *)
(* protocol.Read takes it off in two.                                        *)
EXTENDS Naturals, Sequences

CONSTANTS
    Writers,    \* goroutines that write frames
    Gens,       \* bound: how many transports there are, one after the other
    MaxFrames,  \* bound: how many frames are written
    PipeCap     \* what a transport buffers, in parts

ASSUME BoundsAssumption == Gens \in Nat /\ MaxFrames \in Nat /\ PipeCap \in Nat \ {0}

(* writeMu when no goroutine has it *)
NoWriter == "none"
ASSUME WritersAssumption == NoWriter \notin Writers

Ends == {"writing", "reading"}
Transports == 1..Gens
Parts == {"header", "payload"}

VARIABLES
    cur,       \* each end: Link.current, 0 for nil
    last,      \* each end: the last transport attached there
    up,        \* each end: the transports whose endpoint is not closed there
    dropped,   \* each end: replaced transports that Attach has still to close
    shut,      \* ends whose Link is closed
    dead,      \* transports whose connector has died
    pipe,      \* each transport: what was written and not yet read
    wpc,       \* each writer: idle, snapshot, lock, header or payload
    wgen,      \* each writer: the attachment it took a snapshot of
    lock,      \* writeMu: a writer, or NoWriter
    begun,     \* frames the writers have been given
    written,   \* frames WriteFrame reported as written
    rpc,       \* the frame loop: snapshot, header or payload
    rgen,      \* the attachment the frame loop reads from
    rframe,    \* the frame whose header it has read
    received   \* the frames ReadFrame returned, in order

endVars == <<cur, last, up, dropped, shut>>
writerVars == <<wpc, wgen, lock, begun, written>>
readerVars == <<rpc, rgen, rframe, received>>
vars == <<endVars, dead, pipe, writerVars, readerVars>>

TypeOK ==
    /\ cur \in [Ends -> 0..Gens]
    /\ last \in [Ends -> 0..Gens]
    /\ up \in [Ends -> SUBSET Transports]
    /\ dropped \in [Ends -> SUBSET Transports]
    /\ shut \in SUBSET Ends
    /\ dead \in SUBSET Transports
    /\ pipe \in [Transports -> Seq([frame : Nat, part : Parts])]
    /\ wpc \in [Writers -> {"idle", "snapshot", "lock", "header", "payload"}]
    /\ wgen \in [Writers -> 0..Gens]
    /\ lock \in Writers \cup {NoWriter}
    /\ begun \in Nat /\ written \in Nat
    /\ rpc \in {"snapshot", "header", "payload", "closed"}
    /\ rgen \in 0..Gens /\ rframe \in Nat /\ received \in Seq(Nat)

Init ==
    /\ cur = [e \in Ends |-> 0] /\ last = [e \in Ends |-> 0]
    /\ up = [e \in Ends |-> {}] /\ dropped = [e \in Ends |-> {}] /\ shut = {}
    /\ dead = {} /\ pipe = [g \in Transports |-> <<>>]
    /\ wpc = [w \in Writers |-> "idle"] /\ wgen = [w \in Writers |-> 0]
    /\ lock = NoWriter /\ begun = 0 /\ written = 0
    /\ rpc = "snapshot" /\ rgen = 0 /\ rframe = 0 /\ received = <<>>

-----------------------------------------------------------------------------
(* Attachments. *)

(* Mutant: the previous transport is closed even if there is none. *)
AttachOldNil(e) ==
    /\ e \notin shut /\ last[e] < Gens
    /\ cur' = [cur EXCEPT ![e] = last[e] + 1]
    /\ last' = [last EXCEPT ![e] = @ + 1]
    /\ up' = [up EXCEPT ![e] = @ \cup {last[e] + 1}]
    /\ dropped' = [dropped EXCEPT ![e] = @ \cup {cur[e]}]
    /\ UNCHANGED <<shut, dead, pipe, writerVars, readerVars>>

(* Link.Attach: install the next transport; the old one is closed after the  *)
(* mutex is released.                                                        *)
Attach(e) ==
    /\ e \notin shut /\ last[e] < Gens
    /\ LET g == last[e] + 1 IN
       /\ cur' = [cur EXCEPT ![e] = g]
       /\ last' = [last EXCEPT ![e] = g]
       /\ up' = [up EXCEPT ![e] = @ \cup {g}]
    /\ dropped' = [dropped EXCEPT ![e] = @ \cup ({cur[e]} \ {0})]
    /\ UNCHANGED <<shut, dead, pipe, writerVars, readerVars>>

(* Mutant: the replaced transport is forgotten, not closed. *)
CloseOldNot(e, g) ==
    /\ g \in dropped[e]
    /\ dropped' = [dropped EXCEPT ![e] = @ \ {g}]
    /\ UNCHANGED <<cur, last, up, shut, dead, pipe, writerVars, readerVars>>

CloseOld(e, g) ==
    /\ g \in dropped[e]
    /\ dropped' = [dropped EXCEPT ![e] = @ \ {g}]
    /\ up' = [up EXCEPT ![e] = @ \ {g}]
    /\ UNCHANGED <<cur, last, shut, dead, pipe, writerVars, readerVars>>

(* Mutant: whatever is current is detached. *)
DetachAny(e, g) == cur' = [cur EXCEPT ![e] = 0]

(* detachIfCurrent, after a read or write of attachment g failed at end e.   *)
DetachIfCurrent(e, g) == cur' = IF cur[e] = g THEN [cur EXCEPT ![e] = 0] ELSE cur

(* The owner of endpoint g closes it, at any time and in any order with the  *)
(* installation of its successor (runPersistentConnector closes the endpoint *)
(* of a connector that exited; the frame loop notices).                      *)
CloseEndpoint(e, g) ==
    /\ g \in up[e]
    /\ up' = [up EXCEPT ![e] = @ \ {g}]
    /\ UNCHANGED <<cur, last, dropped, shut, dead, pipe, writerVars, readerVars>>

LinkClose(e) ==
    /\ e \notin shut
    /\ shut' = shut \cup {e}
    /\ cur' = [cur EXCEPT ![e] = 0]
    /\ up' = [up EXCEPT ![e] = @ \ {cur[e]}]
    /\ UNCHANGED <<last, dropped, dead, pipe, writerVars, readerVars>>

(* A connector dies; what it had buffered is lost from some point on.        *)
Die(g) ==
    /\ g \notin dead /\ \E e \in Ends : g <= last[e]
    /\ dead' = dead \cup {g}
    /\ \E n \in 0..Len(pipe[g]) : pipe' = [pipe EXCEPT ![g] = SubSeq(@, 1, n)]
    /\ UNCHANGED <<endVars, writerVars, readerVars>>

(* Transport g was attached at end e and its endpoint there is closed.       *)
Left(e, g) == g <= last[e] /\ g \notin up[e]

(* The other direction uses the same two Links: a frame loop reads at the    *)
(* writing end, goroutines write at the reading end.  Their call fails when  *)
(* the connector is dead or either of its endpoints is closed, and detaches  *)
(* the transport at their end without closing it; if it is not current any   *)
(* more, nothing changes.                                                    *)
ReverseError(e) ==
    /\ cur[e] # 0
    /\ cur[e] \in dead \/ \E d \in Ends : Left(d, cur[e])
    /\ DetachIfCurrent(e, cur[e])
    /\ UNCHANGED <<last, up, dropped, shut, dead, pipe, writerVars, readerVars>>

-----------------------------------------------------------------------------
(* WriteFrameContext. *)

(* A write to g fails: the connector is gone, or the endpoint is closed at   *)
(* this end.  That the other end has closed it does not fail the write; it   *)
(* waits once the pipe is full.                                              *)
Broken(g) == g \in dead \/ g \notin up["writing"]

Begin(w) ==
    /\ wpc[w] = "idle" /\ begun < MaxFrames
    /\ begun' = begun + 1
    /\ wpc' = [wpc EXCEPT ![w] = "snapshot"]
    /\ UNCHANGED <<wgen, lock, written, endVars, dead, pipe, readerVars>>

Snapshot(w) ==
    /\ wpc[w] = "snapshot" /\ cur["writing"] # 0
    /\ wgen' = [wgen EXCEPT ![w] = cur["writing"]]
    /\ wpc' = [wpc EXCEPT ![w] = "lock"]
    /\ UNCHANGED <<lock, begun, written, endVars, dead, pipe, readerVars>>

(* The link is closed, or the caller's context ends while it is detached.    *)
GiveUp(w) ==
    /\ wpc[w] = "snapshot" /\ cur["writing"] = 0
    /\ wpc' = [wpc EXCEPT ![w] = "idle"]
    /\ UNCHANGED <<wgen, lock, begun, written, endVars, dead, pipe, readerVars>>

(* Mutant: writeMu is not taken. *)
RecheckUnlocked(w) ==
    /\ wpc[w] = "lock"
    /\ wpc' = [wpc EXCEPT ![w] = IF cur["writing"] = wgen[w] THEN "header" ELSE "snapshot"]
    /\ UNCHANGED <<wgen, lock, begun, written, endVars, dead, pipe, readerVars>>

(* Take writeMu and look again whether the snapshot is still current.        *)
Recheck(w) ==
    /\ wpc[w] = "lock" /\ lock = NoWriter
    /\ \/ /\ cur["writing"] = wgen[w]
          /\ lock' = w
          /\ wpc' = [wpc EXCEPT ![w] = "header"]
       \/ /\ cur["writing"] # wgen[w]
          /\ wpc' = [wpc EXCEPT ![w] = "snapshot"]
          /\ UNCHANGED lock
    /\ UNCHANGED <<wgen, begun, written, endVars, dead, pipe, readerVars>>

(* One part goes out; with the payload the frame counts as written.          *)
WritePart(w) ==
    /\ wpc[w] \in Parts
    /\ ~Broken(wgen[w]) /\ Len(pipe[wgen[w]]) < PipeCap
    /\ pipe' = [pipe EXCEPT ![wgen[w]] = Append(@, [frame |-> written + 1, part |-> wpc[w]])]
    /\ \/ /\ wpc[w] = "header"
          /\ wpc' = [wpc EXCEPT ![w] = "payload"]
          /\ UNCHANGED <<lock, written>>
       \/ /\ wpc[w] = "payload"
          /\ wpc' = [wpc EXCEPT ![w] = "idle"]
          /\ lock' = NoWriter
          /\ written' = written + 1
    /\ UNCHANGED <<wgen, begun, endVars, dead, readerVars>>

(* ErrDetached; the caller tries the same frame again. *)
WriteError(w) ==
    /\ wpc[w] \in Parts /\ Broken(wgen[w])
    /\ lock' = NoWriter
    /\ DetachIfCurrent("writing", wgen[w])
    /\ wpc' = [wpc EXCEPT ![w] = "snapshot"]
    /\ UNCHANGED <<wgen, begun, written, last, up, dropped, shut, dead, pipe, readerVars>>

-----------------------------------------------------------------------------
(* ReadFrame, called in a loop. *)

ReadSnapshot ==
    /\ rpc = "snapshot" /\ cur["reading"] # 0
    /\ rgen' = cur["reading"]
    /\ rpc' = "header"
    /\ UNCHANGED <<rframe, received, endVars, dead, pipe, writerVars>>

ReadPart ==
    /\ rpc \in Parts /\ rgen \in up["reading"]
    /\ pipe[rgen] # <<>>
    /\ pipe' = [pipe EXCEPT ![rgen] = Tail(@)]
    /\ \/ /\ rpc = "header"
          /\ rframe' = Head(pipe[rgen]).frame
          /\ rpc' = "payload"
          /\ UNCHANGED received
       \/ /\ rpc = "payload"
          /\ received' = Append(received, rframe)
          /\ rpc' = "snapshot"
          /\ UNCHANGED rframe
    /\ UNCHANGED <<rgen, endVars, dead, writerVars>>

(* The endpoint was closed, or the other side is gone and the rest is read.  *)
ReadError ==
    /\ rpc \in Parts
    /\ \/ rgen \notin up["reading"]
       \/ pipe[rgen] = <<>> /\ (rgen \in dead \/ Left("writing", rgen))
    /\ DetachIfCurrent("reading", rgen)
    /\ rpc' = "snapshot"
    /\ UNCHANGED <<rgen, rframe, received, last, up, dropped, shut, dead, pipe, writerVars>>

ReadClosed ==
    /\ rpc = "snapshot" /\ "reading" \in shut
    /\ rpc' = "closed"
    /\ UNCHANGED <<rgen, rframe, received, endVars, dead, pipe, writerVars>>

-----------------------------------------------------------------------------
WriterNext(w) == Snapshot(w) \/ Recheck(w) \/ WritePart(w) \/ WriteError(w)
ReaderNext == ReadSnapshot \/ ReadPart \/ ReadError \/ ReadClosed

Next ==
    \/ \E e \in Ends : Attach(e) \/ LinkClose(e) \/ ReverseError(e)
    \/ \E e \in Ends, g \in Transports : CloseOld(e, g) \/ CloseEndpoint(e, g)
    \/ \E g \in Transports : Die(g)
    \/ \E w \in Writers : Begin(w) \/ GiveUp(w) \/ WriterNext(w)
    \/ ReaderNext

Spec == Init /\ [][Next]_vars

-----------------------------------------------------------------------------
(* Properties. *)

(* A read never combines bytes of two frames or of two transports: what      *)
(* follows the header is its own payload, although writers compete, give up  *)
(* half-way and transports are replaced under both sides (the package        *)
(* comment of link.go); and the frames that arrive do so in the order they   *)
(* were written and once each, across replacements and retries.              *)
FramesIntact ==
    /\ rpc \in Parts /\ pipe[rgen] # <<>> =>
          /\ Head(pipe[rgen]).part = rpc
          /\ rpc = "payload" => Head(pipe[rgen]).frame = rframe
    /\ \A i \in 1..Len(received) - 1 : received[i] < received[i + 1]

(* The failure of an attachment cannot detach its replacement: a Link loses  *)
(* its current transport only to Close or to a successor, or because that    *)
(* very transport has failed.                                                *)
StaleCannotDetach ==
    [][\A e \in Ends : (cur[e] # 0 /\ cur'[e] # cur[e]) =>
          \/ e \in shut' \/ last'[e] # last[e]
          \/ cur[e] \in dead \/ (\E d \in Ends : Left(d, cur[e]))]_vars

(* A writer that holds writeMu in a transport that is no longer current is   *)
(* not left there: its transport is broken, so that the write fails, or      *)
(* Attach is about to close it; or the other end has closed its endpoint and *)
(* this end's frame loop has detached it on noticing (link.go:82), after     *)
(* which Attach finds nothing to close and only the exit of the connector,   *)
(* which has lost that end, lets the write fail.                             *)
ReplacementUnblocks ==
    \A w \in Writers : wpc[w] \in Parts /\ cur["writing"] # wgen[w] =>
        Broken(wgen[w]) \/ wgen[w] \in dropped["writing"] \/ Left("reading", wgen[w])
=============================================================================
