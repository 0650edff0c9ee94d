---------------------------- MODULE UploadStream ----------------------------
(* The client-to-Windows direction of one established TCP stream:            *)
(* clientStream.Write takes credit and sends DATA, the server's frame reader *)
(* queues it, writeToRemote writes it to the Windows socket and returns the  *)
(* credit with WINDOW_UPDATE.  The transport between the two ends is         *)
(* reliable and ordered here; FramedLink models what happens when it is not. *)
(* The actors are the writing application, the client's dispatch loop, the   *)
(* server's frame reader, the stream's writeToRemote goroutine and the       *)
(* Windows socket.                                                           *)
EXTENDS FlowCredit

CONSTANT Total    \* bound: the bytes the application writes altogether

ASSUME TotalAssumption == Total \in Nat

VARIABLES
    want,       \* bytes of p that the current Write has still to send
    avail,      \* clientStream.sendWindow.available
    held,       \* credit taken for the chunk Write is about to send
    sent,       \* bytes put into DATA frames
    writeSide,  \* open, or half-closed once halfCloseOnce has run
    client,     \* open, failed (done closed, still registered) or closed
    clientErr,  \* terminalErr
    c2s,        \* frames on their way to the server
    s2c,        \* frames on their way to the client
    server,     \* open, removing (out of s.streams) or removed (conn closed)
    queue,      \* serverStream.incoming
    rcvd,       \* history: bytes queued so far
    worker,     \* where writeToRemote is
    cur,        \* what is left of the event writeToRemote is writing
    count,      \* bytes of the last conn.Write not yet returned as credit
    workerErr,  \* whether the last conn.Write returned an error with its count
    delivered,  \* bytes the Windows socket accepted
    remote,     \* open, or half-closed once CloseWrite ran on the Windows socket
    credited    \* history: bytes whose credit the client got back

clientVars == <<want, avail, held, sent, writeSide, client, clientErr, credited>>
serverVars == <<server, queue, rcvd, worker, cur, count, workerErr, delivered, remote>>
vars == <<clientVars, serverVars, c2s, s2c>>

FrameTypes == {"data", "half", "close", "update", "reset"}
Frames == [type : FrameTypes, from : Nat, to : Nat]

TypeOK ==
    /\ want \in Nat
    /\ avail \in 0..Window
    /\ held \in 0..MaxData
    /\ sent \in Nat
    /\ writeSide \in {"open", "half-closed"}
    /\ client \in {"open", "failed", "closed"}
    /\ clientErr \in {"none", "eof", "reset", "invalid-update"}
    /\ c2s \in Seq(Frames)
    /\ s2c \in Seq(Frames)
    /\ server \in {"open", "removing", "removed"}
    /\ queue \in Seq(Frames)
    /\ rcvd \in Nat
    /\ worker \in {"select", "write", "update", "exit"}
    /\ cur \in Frames
    /\ count \in 0..MaxData
    /\ workerErr \in {"none", "error"}
    /\ delivered \in Nat
    /\ remote \in {"open", "half-closed"}
    /\ credited \in Nat

Init ==
    /\ want = 0 /\ avail = Window /\ held = 0 /\ sent = 0
    /\ writeSide = "open" /\ client = "open" /\ clientErr = "none"
    /\ c2s = <<>> /\ s2c = <<>>
    /\ server = "open" /\ queue = <<>> /\ rcvd = 0
    /\ worker = "select" /\ cur = Frame("data", 0, 0) /\ count = 0 /\ workerErr = "none"
    /\ delivered = 0 /\ remote = "open" /\ credited = 0

-----------------------------------------------------------------------------
(* The client. *)

(* The application calls Write.  A copier half-closes only when it is done   *)
(* writing (bridge), so no Write follows CloseWrite.                         *)
Write(n) ==
    /\ want = 0 /\ writeSide = "open"
    /\ sent + n <= Total
    /\ want' = n
    /\ UNCHANGED <<avail, held, sent, writeSide, client, clientErr, credited,
                   serverVars, c2s, s2c>>

(* sendWindow.take: a positive window is used without looking at done.       *)
WriteTake ==
    /\ want > 0 /\ held = 0
    /\ avail > 0
    /\ LET n == TakeCount(Least(want, MaxData), avail)
       IN  held' = n /\ avail' = avail - n
    /\ UNCHANGED <<want, sent, writeSide, client, clientErr, credited,
                   serverVars, c2s, s2c>>

(* take returns io.ErrClosedPipe: no credit and the stream is done.          *)
WriteAbort ==
    /\ want > 0 /\ held = 0
    /\ avail = 0 /\ client # "open"
    /\ want' = 0
    /\ UNCHANGED <<avail, held, sent, writeSide, client, clientErr, credited,
                   serverVars, c2s, s2c>>

(* take returns a timeout: no credit before the write deadline.              *)
WriteTimeout ==
    /\ want > 0 /\ held = 0
    /\ avail = 0
    /\ want' = 0
    /\ UNCHANGED <<avail, held, sent, writeSide, client, clientErr, credited,
                   serverVars, c2s, s2c>>

(* Write sends exactly the bytes it took credit for.                         *)
WriteSend ==
    /\ held > 0
    /\ c2s' = Append(c2s, Frame("data", sent, sent + held))
    /\ sent' = sent + held
    /\ want' = want - held
    /\ held' = 0
    /\ UNCHANGED <<avail, writeSide, client, clientErr, credited, serverVars, s2c>>

CloseWrite ==
    /\ want = 0 /\ writeSide = "open"
    /\ writeSide' = "half-closed"
    /\ c2s' = Append(c2s, Frame("half", sent, sent))
    /\ UNCHANGED <<want, avail, held, sent, client, clientErr, credited, serverVars, s2c>>

(* clientStream.fail: only the first error is kept. *)
Failed(err) == IF clientErr = "none" THEN err ELSE clientErr

(* Close unregisters the stream, fails it and sends CLOSE; writeClose gives  *)
(* up after closeFrameTimeout, so the frame may never leave.                 *)
Close ==
    /\ client # "closed"
    /\ client' = "closed"
    /\ clientErr' = Failed("eof")
    /\ c2s' \in {c2s, Append(c2s, Frame("close", sent, sent))}
    /\ UNCHANGED <<want, avail, held, sent, writeSide, credited, serverVars, s2c>>

(* handle WINDOW_UPDATE in dispatch. *)
ClientUpdate ==
    /\ s2c # <<>> /\ Head(s2c).type = "update"
    /\ s2c' = Tail(s2c)
    /\ LET n == Bytes(Head(s2c)) IN
       \/ /\ client = "closed"
          /\ UNCHANGED <<avail, credited, client, clientErr>>
       \/ /\ client # "closed" /\ CanAdd(avail, n)
          /\ avail' = avail + n
          /\ credited' = credited + n
          /\ UNCHANGED <<client, clientErr>>
       \/ /\ client # "closed" /\ ~CanAdd(avail, n)
          /\ client' = "failed"
          /\ clientErr' = Failed("invalid-update")
          /\ UNCHANGED <<avail, credited>>
    /\ UNCHANGED <<want, held, sent, writeSide, serverVars, c2s>>

ClientReset ==
    /\ s2c # <<>> /\ Head(s2c).type = "reset"
    /\ s2c' = Tail(s2c)
    /\ \/ /\ client = "closed"
          /\ UNCHANGED <<client, clientErr>>
       \/ /\ client # "closed"
          /\ client' = "failed"
          /\ clientErr' = Failed("reset")
    /\ UNCHANGED <<want, avail, held, sent, writeSide, credited, serverVars, c2s>>

-----------------------------------------------------------------------------
(* The server's frame reader. *)

(* remove takes the stream out of s.streams before it closes the socket.     *)
Removed(state) == IF state = "open" THEN "removing" ELSE state

ServerData ==
    /\ c2s # <<>> /\ Head(c2s).type = "data"
    /\ c2s' = Tail(c2s)
    /\ \/ /\ server # "open"
          /\ UNCHANGED <<queue, rcvd, server, s2c>>
       \/ /\ server = "open" /\ Len(queue) < QueueCap
          /\ queue' = Append(queue, Head(c2s))
          /\ rcvd' = Head(c2s).to
          /\ UNCHANGED <<server, s2c>>
       \/ /\ server = "open" /\ ~(Len(queue) < QueueCap)
          /\ s2c' = Append(s2c, Frame("reset", delivered - count, delivered - count))
          /\ server' = "removing"
          /\ UNCHANGED <<queue, rcvd>>
    /\ UNCHANGED <<worker, cur, count, workerErr, delivered, remote, clientVars>>

(* HALF_CLOSE is queued with a blocking send: the frame reader stops here    *)
(* while the queue is full and the stream is not done.                       *)
ServerHalfClose ==
    /\ c2s # <<>> /\ Head(c2s).type = "half"
    /\ \/ /\ server # "open"
          /\ UNCHANGED queue
       \/ /\ server = "open" /\ Len(queue) < QueueCap
          /\ queue' = Append(queue, Head(c2s))
    /\ c2s' = Tail(c2s)
    /\ UNCHANGED <<server, rcvd, worker, cur, count, workerErr, delivered, remote, clientVars, s2c>>

ServerClose ==
    /\ c2s # <<>> /\ Head(c2s).type = "close"
    /\ c2s' = Tail(c2s)
    /\ server' = Removed(server)
    /\ UNCHANGED <<queue, rcvd, worker, cur, count, workerErr, delivered, remote, clientVars, s2c>>

(* The rest of remove: close(stream.done) and conn.Close. *)
CloseConn ==
    /\ server = "removing"
    /\ server' = "removed"
    /\ UNCHANGED <<queue, rcvd, worker, cur, count, workerErr, delivered, remote, clientVars, c2s, s2c>>

-----------------------------------------------------------------------------
(* writeToRemote. *)

(* The last thing writeToRemote does on an error: reset, then return.        *)
ResetAndExit(pending) ==
    /\ s2c' = Append(pending, Frame("reset", delivered, delivered))
    /\ server' = Removed(server)
    /\ worker' = "exit"

TakeEvent ==
    /\ worker = "select" /\ queue # <<>>
    /\ Head(queue).type = "data"
    /\ cur' = Head(queue)
    /\ worker' = "write"
    /\ queue' = Tail(queue)
    /\ UNCHANGED <<server, rcvd, count, workerErr, delivered, remote, clientVars, c2s, s2c>>

(* A half-close event: CloseWrite succeeds on a live socket or fails.        *)
RemoteCloseWrite ==
    /\ worker = "select" /\ queue # <<>>
    /\ Head(queue).type = "half"
    /\ queue' = Tail(queue)
    /\ \/ /\ server # "removed"
          /\ remote' = "half-closed"
          /\ UNCHANGED <<server, worker, s2c>>
       \/ /\ ResetAndExit(s2c)
          /\ UNCHANGED remote
    /\ UNCHANGED <<rcvd, cur, count, workerErr, delivered, clientVars, c2s>>

WorkerDone ==
    /\ worker = "select" /\ server = "removed"
    /\ worker' = "exit"
    /\ UNCHANGED <<server, queue, rcvd, cur, count, workerErr, delivered, remote, clientVars, c2s, s2c>>

(* Mutant: after a short write the whole event is written again. *)
RemoteWriteAgain(n) ==
    /\ worker = "write" /\ server # "removed"
    /\ n <= Bytes(cur)
    /\ cur' = IF n = Bytes(cur) THEN [cur EXCEPT !.from = cur.to] ELSE cur
    /\ delivered' = delivered + n
    /\ count' = n
    /\ workerErr' \in {"none", "error"}
    /\ worker' = "update"
    /\ UNCHANGED <<server, queue, rcvd, remote, clientVars, c2s, s2c>>

(* conn.Write accepts n of the remaining bytes, possibly with an error.      *)
RemoteWrite(n) ==
    /\ worker = "write" /\ server # "removed"
    /\ n <= Bytes(cur)
    /\ cur' = [cur EXCEPT !.from = cur.from + n]
    /\ delivered' = delivered + n
    /\ count' = n
    /\ workerErr' \in {"none", "error"}
    /\ worker' = "update"
    /\ UNCHANGED <<server, queue, rcvd, remote, clientVars, c2s, s2c>>

(* conn.Write accepts nothing: an error, or io.ErrShortWrite. *)
RemoteWriteError ==
    /\ worker = "write"
    /\ ResetAndExit(s2c)
    /\ UNCHANGED <<queue, rcvd, cur, count, workerErr, delivered, remote, clientVars, c2s>>

(* Mutant: a short write returns the credit of the whole event. *)
SendUpdateWhole ==
    /\ worker = "update" /\ workerErr = "none"
    /\ s2c' = Append(s2c, Frame("update", delivered - count, delivered + Bytes(cur)))
    /\ worker' = IF Bytes(cur) = 0 THEN "select" ELSE "write"
    /\ count' = 0
    /\ UNCHANGED <<server, queue, rcvd, cur, workerErr, delivered, remote, clientVars, c2s>>

(* Mutant: the credit of a short write is forgotten. *)
SendUpdateLost ==
    /\ worker = "update" /\ workerErr = "none"
    /\ s2c' = IF Bytes(cur) = 0 THEN Append(s2c, Frame("update", delivered - count, delivered)) ELSE s2c
    /\ worker' = IF Bytes(cur) = 0 THEN "select" ELSE "write"
    /\ count' = 0
    /\ UNCHANGED <<server, queue, rcvd, cur, workerErr, delivered, remote, clientVars, c2s>>

(* The credit of the bytes just written goes back, also before a reset.      *)
SendUpdate ==
    /\ worker = "update"
    /\ LET updated == Append(s2c, Frame("update", delivered - count, delivered)) IN
       \/ /\ workerErr = "error"
          /\ ResetAndExit(updated)
       \/ /\ workerErr = "none"
          /\ s2c' = updated
          /\ worker' = IF Bytes(cur) = 0 THEN "select" ELSE "write"
          /\ UNCHANGED server
    /\ count' = 0
    /\ UNCHANGED <<queue, rcvd, cur, workerErr, delivered, remote, clientVars, c2s>>

-----------------------------------------------------------------------------
WriterNext == (\E n \in 1..Total : Write(n)) \/ WriteTake \/ WriteAbort \/ WriteTimeout
              \/ WriteSend \/ CloseWrite \/ Close
DispatchNext == ClientUpdate \/ ClientReset
ReaderNext == ServerData \/ ServerHalfClose \/ ServerClose
WorkerNext == TakeEvent \/ RemoteCloseWrite \/ WorkerDone
              \/ (\E n \in 1..MaxData : RemoteWrite(n)) \/ RemoteWriteError \/ SendUpdate

Next == WriterNext \/ DispatchNext \/ ReaderNext \/ CloseConn \/ WorkerNext

Spec == Init /\ [][Next]_vars

(* Goroutines that can run do run, and the Windows socket accepts or fails a *)
(* pending write; the application need not write, close or half-close, and   *)
(* no write deadline is needed.                                              *)
Fairness ==
    /\ WF_vars(WriteTake) /\ WF_vars(WriteAbort) /\ WF_vars(WriteSend)
    /\ WF_vars(DispatchNext)
    /\ WF_vars(ReaderNext)
    /\ WF_vars(CloseConn)
    /\ WF_vars(WorkerNext)

FairSpec == Spec /\ Fairness

-----------------------------------------------------------------------------
(* Properties. *)

(* The client never sees a WINDOW_UPDATE that its window refuses: credit     *)
(* taken by Write, carried by DATA, queued, written by writeToRemote and     *)
(* returned adds up to the initial window, so "invalid stream window update" *)
(* (clientStream.handle) is unreachable in this direction.                   *)
NoInvalidUpdate == clientErr # "invalid-update"

(* What the server buffers for a stream never exceeds the advertised window  *)
(* (the memory bound ADR-0007 gives for serverStream.incoming).              *)
BufferedWithinWindow == rcvd - delivered <= Window

(* writeToRemote writes the bytes to the Windows socket in the order of      *)
(* Write, each once and without a gap: the next byte it offers is the next   *)
(* one the socket has not had.                                               *)
InOrder == worker = "write" => cur.from = delivered /\ cur.from < cur.to

(* The Windows socket is half-closed only after every byte of every Write.   *)
HalfCloseAfterData == remote = "half-closed" => delivered = sent

(* A Write ends: its bytes are sent or the stream is over.  Credit is never  *)
(* lost and the wake-up of a blocked Write never missed.                     *)
WriteEnds == want > 0 ~> want = 0

(* The upload direction implements a reliable byte stream of capacity        *)
(* Window.                                                                   *)
Stream == INSTANCE ByteStream
            WITH Capacity <- Window, accepted <- sent, delivered <- delivered,
                 finished <- (remote = "half-closed"), broken <- (server # "open")
StreamSpec == Stream!Spec
=============================================================================
