--------------------------- MODULE DownloadStream ---------------------------
(* The Windows-to-client direction of one established TCP stream:            *)
(* copyToClient reads the Windows socket, takes credit and sends DATA, the   *)
(* client's dispatch loop queues it, clientStream.Read hands it to the       *)
(* application and returns the credit with WINDOW_UPDATE.  The transport     *)
(* between the two ends is reliable and ordered here.                        *)
EXTENDS FlowCredit

CONSTANTS
    Total,    \* bound: the bytes the Windows socket delivers altogether
    Sizes     \* bound: the sizes of what conn.Read and clientStream.Read return

ASSUME TotalAssumption == Total \in Nat
ASSUME SizesAssumption == Sizes \subseteq 1..MaxData

VARIABLES
    copier,     \* where copyToClient is
    chunk,      \* bytes conn.Read returned and not yet sent
    lastChunk,  \* conn.Read returned an error along with or after these bytes
    avail,      \* serverStream.sendWindow.available
    sent,       \* bytes put into DATA frames
    server,     \* open, removing (out of s.streams) or removed (conn closed)
    loop,       \* Server.Serve: handling frames, or between the two calls of reset
    uploader,   \* writeToRemote: running, between the two calls of reset, or over
    s2c,        \* frames on their way to the client
    c2s,        \* frames on their way to the server
    incoming,   \* clientStream.incoming: data events and the error of fail
    client,     \* open, failed (done closed, still registered) or closed
    clientErr,  \* terminalErr
    readEOF,    \* clientStream.readEOF
    readBuf,    \* clientStream.readBuf
    reader,     \* reading, or the error Read returned last
    delivered,  \* bytes Read returned
    dropped     \* history: a DATA frame found the receive queue full

serverVars == <<copier, chunk, lastChunk, avail, sent, server, loop, uploader>>
clientVars == <<incoming, client, clientErr, readEOF, readBuf, reader, delivered, dropped>>
vars == <<serverVars, clientVars, s2c, c2s>>

FrameTypes == {"data", "half", "update", "reset", "close", "err"}
Frames == [type : FrameTypes, from : Nat, to : Nat]
Errors == {"none", "eof", "reset", "overflow"}

TypeOK ==
    /\ copier \in {"read", "lookup", "take", "send", "half", "exit"}
    /\ chunk \in 0..MaxData
    /\ lastChunk \in BOOLEAN
    /\ avail \in 0..Window
    /\ sent \in Nat
    /\ server \in {"open", "removing", "removed"}
    /\ loop \in {"handle", "resetting"}
    /\ uploader \in {"run", "resetting", "exit"}
    /\ s2c \in Seq(Frames)
    /\ c2s \in Seq(Frames)
    /\ incoming \in Seq(Frames)
    /\ client \in {"open", "failed", "closed"}
    /\ clientErr \in Errors
    /\ readEOF \in BOOLEAN
    /\ readBuf \in Frames
    /\ reader \in {"reading", "eof", "error"}
    /\ delivered \in Nat
    /\ dropped \in BOOLEAN

Init ==
    /\ copier = "read" /\ chunk = 0 /\ lastChunk = FALSE
    /\ avail = Window /\ sent = 0 /\ server = "open" /\ loop = "handle" /\ uploader = "run"
    /\ s2c = <<>> /\ c2s = <<>>
    /\ incoming = <<>> /\ client = "open" /\ clientErr = "none"
    /\ readEOF = FALSE /\ readBuf = Frame("data", 0, 0)
    /\ reader = "reading" /\ delivered = 0 /\ dropped = FALSE

-----------------------------------------------------------------------------
(* copyToClient. *)

(* conn.Read returns n bytes, or none and an error; an error may come with   *)
(* the last bytes.                                                           *)
CopyRead(n) ==
    /\ copier = "read" /\ server # "removed"
    /\ sent + n <= Total
    /\ chunk' = n
    /\ lastChunk' \in (IF n = 0 THEN {TRUE} ELSE BOOLEAN)
    /\ copier' = IF n = 0 THEN "half" ELSE "lookup"
    /\ UNCHANGED <<avail, sent, server, loop, uploader, clientVars, s2c, c2s>>

(* The socket was closed under the reader. *)
CopyReadClosed ==
    /\ copier = "read" /\ server = "removed"
    /\ copier' = "half"
    /\ UNCHANGED <<chunk, lastChunk, avail, sent, server, loop, uploader, clientVars, s2c, c2s>>

(* The stream is looked up in s.streams; if it is gone, the copier ends.     *)
CopyLookup ==
    /\ copier = "lookup"
    /\ copier' = IF server = "open" THEN "take" ELSE "exit"
    /\ chunk' = IF server = "open" THEN chunk ELSE 0
    /\ UNCHANGED <<lastChunk, avail, sent, server, loop, uploader, clientVars, s2c, c2s>>

(* stream.sendWindow.take: the window shrinks by what there is, and the      *)
(* count it returns is dropped.  It looks at done only when there is none.   *)
CopyTake ==
    /\ copier = "take"
    /\ avail > 0
    /\ avail' = avail - TakeCount(chunk, avail)
    /\ copier' = "send"
    /\ UNCHANGED <<chunk, lastChunk, sent, server, loop, uploader, clientVars, s2c, c2s>>

CopyAbort ==
    /\ copier = "take" /\ avail = 0 /\ server # "open"
    /\ copier' = "exit"
    /\ chunk' = 0
    /\ UNCHANGED <<lastChunk, avail, sent, server, loop, uploader, clientVars, s2c, c2s>>

CopySend ==
    /\ copier = "send"
    /\ s2c' = Append(s2c, Frame("data", sent, sent + chunk))
    /\ sent' = sent + chunk
    /\ chunk' = 0
    /\ copier' = IF lastChunk THEN "half" ELSE "read"
    /\ UNCHANGED <<lastChunk, avail, server, loop, uploader, clientVars, c2s>>

CopyHalfClose ==
    /\ copier = "half"
    /\ s2c' = Append(s2c, Frame("half", sent, sent))
    /\ copier' = "exit"
    /\ UNCHANGED <<chunk, lastChunk, avail, sent, server, loop, uploader, clientVars, c2s>>

-----------------------------------------------------------------------------
(* The server's frame reader, which handles one frame at a time.             *)

(* Server.reset sends RESET, and only then remove takes the stream out of    *)
(* s.streams: copyToClient goes on in between.                               *)
Remove == server' = IF server = "open" THEN "removing" ELSE server

ServerUpdate ==
    /\ loop = "handle"
    /\ c2s # <<>> /\ Head(c2s).type = "update"
    /\ c2s' = Tail(c2s)
    /\ LET n == Bytes(Head(c2s)) IN
       \/ /\ server # "open"
          /\ UNCHANGED <<avail, loop, s2c>>
       \/ /\ server = "open" /\ CanAdd(avail, n)
          /\ avail' = avail + n
          /\ UNCHANGED <<loop, s2c>>
       \/ /\ server = "open" /\ ~CanAdd(avail, n)
          /\ s2c' = Append(s2c, Frame("reset", sent, sent))
          /\ loop' = "resetting"
          /\ UNCHANGED avail
    /\ UNCHANGED <<copier, chunk, lastChunk, sent, server, uploader, clientVars>>

LoopRemove ==
    /\ loop = "resetting"
    /\ loop' = "handle"
    /\ Remove
    /\ UNCHANGED <<copier, chunk, lastChunk, avail, sent, uploader, clientVars, s2c, c2s>>

(* CLOSE and RESET remove the stream. *)
ServerClose ==
    /\ loop = "handle"
    /\ c2s # <<>> /\ Head(c2s).type \in {"close", "reset"}
    /\ c2s' = Tail(c2s)
    /\ Remove
    /\ UNCHANGED <<copier, chunk, lastChunk, avail, sent, loop, uploader, clientVars, s2c>>

(* The other direction's worker, writeToRemote, fails to write: also when    *)
(* the socket was closed under it.                                           *)
UploadReset ==
    /\ uploader = "run"
    /\ uploader' = "resetting"
    /\ s2c' = Append(s2c, Frame("reset", sent, sent))
    /\ UNCHANGED <<copier, chunk, lastChunk, avail, sent, server, loop, clientVars, c2s>>

UploadRemove ==
    /\ uploader = "resetting"
    /\ uploader' = "exit"
    /\ Remove
    /\ UNCHANGED <<copier, chunk, lastChunk, avail, sent, loop, clientVars, s2c, c2s>>

CloseConn ==
    /\ server = "removing"
    /\ server' = "removed"
    /\ UNCHANGED <<copier, chunk, lastChunk, avail, sent, loop, uploader, clientVars, s2c, c2s>>

-----------------------------------------------------------------------------
(* The client's dispatch loop; frames of an unregistered stream are dropped. *)

(* clientStream.fail: the first error is kept, and it is queued behind the   *)
(* data if there is room.                                                    *)
Fail(err) ==
    /\ clientErr' = IF clientErr = "none" THEN err ELSE clientErr
    /\ incoming' = IF client = "open" /\ Len(incoming) < QueueCap
                   THEN Append(incoming, Frame("err", 0, 0))
                   ELSE incoming

(* A full queue fails the stream but leaves it registered. *)
ClientData ==
    /\ s2c # <<>> /\ Head(s2c).type = "data"
    /\ s2c' = Tail(s2c)
    /\ \/ /\ client = "closed"
          /\ UNCHANGED <<incoming, client, clientErr, dropped, c2s>>
       \/ /\ client # "closed" /\ Len(incoming) < QueueCap
          /\ incoming' = Append(incoming, Head(s2c))
          /\ UNCHANGED <<client, clientErr, dropped, c2s>>
       \/ /\ client # "closed" /\ ~(Len(incoming) < QueueCap)
          /\ c2s' = Append(c2s, Frame("reset", 0, 0))
          /\ client' = "failed"
          /\ dropped' = TRUE
          /\ Fail("overflow")
    /\ UNCHANGED <<readEOF, readBuf, reader, delivered, serverVars>>

ClientHalfClose ==
    /\ s2c # <<>> /\ Head(s2c).type = "half"
    /\ s2c' = Tail(s2c)
    /\ readEOF' = (readEOF \/ client # "closed")
    /\ UNCHANGED <<incoming, client, clientErr, readBuf, reader, delivered, dropped, serverVars, c2s>>

ClientReset ==
    /\ s2c # <<>> /\ Head(s2c).type = "reset"
    /\ s2c' = Tail(s2c)
    /\ \/ /\ client = "closed"
          /\ UNCHANGED <<incoming, client, clientErr>>
       \/ /\ client # "closed"
          /\ client' = "failed"
          /\ Fail("reset")
    /\ UNCHANGED <<readEOF, readBuf, reader, delivered, dropped, serverVars, c2s>>

(* clientStream.Close; the CLOSE frame may not leave within its timeout.     *)
Close ==
    /\ client # "closed"
    /\ client' = "closed"
    /\ Fail("eof")
    /\ c2s' \in {c2s, Append(c2s, Frame("close", 0, 0))}
    /\ UNCHANGED <<readEOF, readBuf, reader, delivered, dropped, serverVars, s2c>>

-----------------------------------------------------------------------------
(* clientStream.Read, called until it returns an error. *)

(* Mutant: Read returns no credit for what it copied. *)
ReadCopySilent(n) ==
    /\ reader = "reading" /\ Bytes(readBuf) > 0
    /\ LET k == Least(n, Bytes(readBuf)) IN
       /\ readBuf' = [readBuf EXCEPT !.from = readBuf.from + k]
       /\ delivered' = delivered + k
    /\ UNCHANGED <<incoming, client, clientErr, readEOF, reader, dropped, serverVars, s2c, c2s>>

(* Up to n bytes of readBuf are copied out and their credit is returned.     *)
ReadCopy(n) ==
    /\ reader = "reading" /\ Bytes(readBuf) > 0
    /\ LET k == Least(n, Bytes(readBuf)) IN
       /\ readBuf' = [readBuf EXCEPT !.from = readBuf.from + k]
       /\ delivered' = delivered + k
       /\ c2s' = Append(c2s, Frame("update", readBuf.from, readBuf.from + k))
    /\ UNCHANGED <<incoming, client, clientErr, readEOF, reader, dropped, serverVars, s2c>>

(* The next event of incoming: data, or the error that fail queued.          *)
ReadEvent ==
    /\ reader = "reading" /\ Bytes(readBuf) = 0
    /\ incoming # <<>>
    /\ incoming' = Tail(incoming)
    /\ \/ /\ Head(incoming).type = "data"
          /\ readBuf' = Head(incoming)
          /\ UNCHANGED <<reader, readEOF>>
       \/ /\ Head(incoming).type = "err"
          /\ reader' = IF clientErr = "eof" THEN "eof" ELSE "error"
          /\ readEOF' = (readEOF \/ clientErr = "eof")
          /\ UNCHANGED readBuf
    /\ UNCHANGED <<client, clientErr, delivered, dropped, serverVars, s2c, c2s>>

(* Mutant: readEOF ends Read whatever is still queued. *)
ReadEndEarly ==
    /\ reader = "reading" /\ Bytes(readBuf) = 0
    /\ readEOF
    /\ reader' = "eof"
    /\ UNCHANGED <<incoming, client, clientErr, readEOF, readBuf, delivered, dropped, serverVars, s2c, c2s>>

(* After HALF_CLOSE an empty queue is the end of the stream. *)
ReadEnd ==
    /\ reader = "reading" /\ Bytes(readBuf) = 0
    /\ readEOF /\ incoming = <<>>
    /\ reader' = "eof"
    /\ UNCHANGED <<incoming, client, clientErr, readEOF, readBuf, delivered, dropped, serverVars, s2c, c2s>>

(* select may prefer done to a queued event, unless HALF_CLOSE was seen.     *)
ReadDone ==
    /\ reader = "reading" /\ Bytes(readBuf) = 0
    /\ ~readEOF /\ client # "open"
    /\ reader' = IF clientErr = "eof" THEN "eof" ELSE "error"
    /\ UNCHANGED <<incoming, client, clientErr, readEOF, readBuf, delivered, dropped, serverVars, s2c, c2s>>

-----------------------------------------------------------------------------
CopierNext == (\E n \in Sizes \cup {0} : CopyRead(n)) \/ CopyReadClosed \/ CopyLookup
              \/ CopyTake \/ CopyAbort \/ CopySend \/ CopyHalfClose
ServerReaderNext == ServerUpdate \/ LoopRemove \/ ServerClose
UploaderNext == UploadReset \/ UploadRemove
DispatchNext == ClientData \/ ClientHalfClose \/ ClientReset
ReadNext == (\E n \in Sizes : ReadCopy(n)) \/ ReadEvent \/ ReadEnd \/ ReadDone

Next == CopierNext \/ ServerReaderNext \/ UploaderNext \/ CloseConn \/ DispatchNext \/ Close \/ ReadNext

Spec == Init /\ [][Next]_vars

(* Goroutines that can run do run and the application keeps reading; the     *)
(* Windows socket need not deliver anything and nobody has to close.         *)
Fairness ==
    /\ WF_vars(CopyLookup \/ CopyTake \/ CopyAbort \/ CopySend \/ CopyHalfClose)
    /\ WF_vars(ServerReaderNext)
    /\ WF_vars(UploadRemove \/ CloseConn)
    /\ WF_vars(DispatchNext)
    /\ WF_vars(ReadNext)

FairSpec == Spec /\ Fairness

-----------------------------------------------------------------------------
(* Properties. *)

(* Read returns the bytes of the Windows socket in order and without a gap   *)
(* as long as no DATA frame found the receive queue full, also while the     *)
(* stream is being reset; a frame is dropped only on a stream that failed by *)
(* then; and on a stream that has not failed io.EOF means that the socket    *)
(* ended and that Read has returned all of its bytes: readEOF is set out of  *)
(* band, yet it does not overtake queued data.                               *)
ReadsWhole ==
    /\ ~dropped /\ Bytes(readBuf) > 0 => readBuf.from = delivered
    /\ dropped => clientErr # "none"
    /\ reader = "eof" /\ clientErr = "none" => lastChunk /\ delivered = sent

(* copyToClient, waiting for credit, gets it or learns that the stream is    *)
(* over, as long as the application reads and does not close (the CLOSE that *)
(* would release it then may be lost to closeFrameTimeout).                  *)
CopierEndsWait == copier = "take" ~> copier # "take" \/ client = "closed"

=============================================================================
