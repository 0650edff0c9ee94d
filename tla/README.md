# A TLA+ model of wsl-win-relay

`wsl-win-relay` lets programs in WSL use the network of the Windows host. A WSL
process (`wsl-proxy`) and a Windows process (`win-relay`, or a long-lived
`win-broker` reached through short-lived connectors) multiplex TCP streams,
reverse listeners and datagrams over one byte stream of frames. This directory
models the parts of it that are concurrent and stateful, checks them with TLC
and proves the central invariants with TLAPS.

- [1. The system](#1-the-system)
- [2. Modules](#2-modules)
- [3. Runs](#3-runs)
- [4. Proofs](#4-proofs)
- [5. Where the code and its documents differ](#5-where-the-code-and-its-documents-differ)
- [6. What is not modelled, and the plan](#6-what-is-not-modelled-and-the-plan)

## 1. The system

### Components

| component | code | state it keeps | operations |
|---|---|---|---|
| flow-control window | `internal/relay/window.go` | bytes available, a one-slot notify channel | `add` (frame reader), `take` (writers) |
| stream, client side | `internal/relay/client.go` `clientStream` | send window, receive queue, `readEOF`, `terminalErr`, `done`, half-close and close flags | `Read`, `Write`, `CloseWrite`, `Close`, `handle`, `fail` |
| stream, server side | `internal/relay/server.go` `serverStream` | event queue, send window, Windows socket | `startOpen`, `open`, `handle`, `writeToRemote`, `copyToClient`, `remove` |
| reverse listeners | both of the above | `listeners` maps, the commit channel, accept loops | `ReserveReverseForward`, `Commit`, `openListener`, `serveListener`, `handleInbound` |
| datagrams | both | UDP associations, reverse UDP mappings with a flow for each remote source, their queues | `OpenPacketContext`, `WriteTo`, `ReverseDatagramForward`, `getFlow`, `openDatagram`, `openReverseDatagram`, `Close`, `fail` |
| frame link | `internal/transport/framed/link.go` | current attachment, `readMu`, `writeMu` | `Attach`, `ReadFrame`, `WriteFrameContext`, `detachIfCurrent`, `Close` |
| broker | `internal/broker/broker.go`, `internal/transport/attach` | registry epoch and current generation, tracked connections, `installMu` | `ServeAttachedWith`, `serveAttachConnection`, `Registry.Attach`, `Detach` |
| strict-listen control | `internal/listencontrol/server.go` | leases with owners and reservations, pending slots | `RESERVE`, `COMMIT`, `ADOPT`, `RELEASE`, `CLOSE`, `Rebind`, `RetryMissing`, the reaper |
| sessions of wsl-proxy | `cmd/wsl-proxy` | current client, peer instance id, configured mappings, connector loop | `supervise`, `runPersistentConnector`, `registerMappings`, `sessionDialer.set` and `clear`, `ResetPeerState` |
| automatic forwarding | `internal/autoforward` | active mappings, the generation, rejections, the running attempt | `sync`, `openOne`, `Reset` |
| win-broker roles | `cmd/win-broker` | the processes supervisor, frontend, worker, socket host, socket owner; handles of children | election, `ensure`, `ensureWorker`, `ensureSocketOwner`, `ensureSocketHost`, monitors, deferred clean-up, STOP |
| proxies and forwards | `internal/socks5`, `httpproxy`, `forward`, `upstream` | per-connection only | accept, parse, copy |
| native interposer | `native/` | C library hooks for `bind` and `listen` | speaks the listen-control protocol |

### How they interact

The client and the server exchange frames (`OPEN`, `DATA`, `WINDOW_UPDATE`,
`HALF_CLOSE`, `RESET`, `CLOSE`, `LISTEN_*`, `INBOUND_*`). Each end has **one
frame reader** for all streams, which calls into stream state directly, starts a
goroutine for operations that can block (`open`, `openListener`), and must
therefore never block itself. Everything else runs in its own goroutines: a
`writeToRemote` and a `copyToClient` for each stream, an accept loop for each
listener, the callers of `Read` and `Write`. They share maps under one mutex per
end and signal through channels and contexts. In broker mode the byte stream is
a `framed.Link`, whose transport is replaced under both frame readers whenever
a new connector has completed its attach handshake. Above the relay, the lease
server of `listencontrol` holds reverse reservations for intercepted processes
and re-creates them whenever wsl-proxy has a new session; beside it the
automatic watcher opens a reverse mapping for every port that listens in WSL and
is told by a callback when the session is cleared. On Windows the broker is five
kinds of process that find each other through named endpoints.

### What is hard, and what has to hold

- *Credit.* Bytes are credited where they are consumed, on another goroutine and
  another machine than where credit is spent. Credit must add up exactly, or
  streams starve or are reset; what one end buffers must stay within the window.
- *Order.* Data, half-close, reset and close travel on different paths (a queue,
  a flag, a channel, a map removal). Bytes must arrive once and in order, and
  the end of file must not overtake them.
- *Agreement.* `OPEN` runs in a goroutine while `CLOSE` is handled at once, and
  both ends may drop a stream. A socket must never be left without an owner, and
  neither end may keep a stream the other has silently dropped.
- *Replacement.* A connector dies with frames in its buffers, a late error of an
  old transport arrives after its successor, a writer is stuck in a dead one.
- *Concurrent handshakes.* Generations are created in the registry and installed
  in the link; the two orders must be the same, and a failure must leave nothing.
- *Re-creation.* Leases are rebound from a snapshot while they are removed,
  committed and added, and the session may die again half-way.
- *Changed peer.* The Windows broker may be another process after a reconnect.
  What belonged to the old one has to be dropped and registered again while
  opens, closes and scans are under way, by whichever goroutine notices.
- *Replaced processes.* A role that crashes leaves orphans that serve the
  endpoints its replacement wants. They are reused, stopped by endpoint or killed
  by handle; the socket owner must survive and the roles must come to rest.
- *Shutdown.* Everything that is being opened, accepted or attached while the
  service stops must still be released, and nobody may wait for ever.

`PROJECT.json` lists the hazards one by one with the line at which each bites
and the properties that cover it.

## 2. Modules

| module | models | composed with |
|---|---|---|
| `FlowCredit` | the arithmetic of `flowWindow`, frames as byte ranges, the queue capacity | extended by the three below |
| `FlowWindow` | `add` and `take` step by step with the notify slot | |
| `UploadStream` | `Write` → `DATA` → server queue → `writeToRemote` → `WINDOW_UPDATE` | implements `ByteStream` |
| `DownloadStream` | `copyToClient` → `DATA` → client queue → `Read` → `WINDOW_UPDATE` | |
| `ByteStream` | abstract: a reliable byte stream of bounded capacity that may break, as counts of bytes (their order is `InOrder` of `UploadStream`) | |
| `StreamOpen` | `DialContext`, `startOpen`, `open`, `remove`, `shutdown` | |
| `ReverseForward` | reservations, commit, accept loops, inbound streams, shutdown | |
| `FramedLink` | `framed.Link` over connectors that buffer and die | |
| `BrokerAttach` | `ServeAttachedWith` and the attach registry | |
| `StrictLeases` | `listencontrol.Server` with the sessions of wsl-proxy around it | |
| `Datagrams` | UDP associations and mappings at both ends, over a link that breaks and a peer that restarts | |
| `RelaySession` | `runPersistentConnector`, connectors, the broker's listeners and the client's | extended by `AutoForward` |
| `AutoForward` | the `Watcher` over the session, with `Reset` called from the session's goroutine | `RelaySession` |
| `BrokerRoles` | the processes of win-broker | |
| `*Proofs` | theorems about the module of the same name (`DownloadStreamProofs` also about `FlowWindow`, `BrokerAttachProofs` also about `BrokerRoles`; `LinkSessionProofs` about `FramedLink` and about `AutoForward` over `RelaySession`) | extend it and `TLAPS` |
| `MC*` | the instance TLC checks | extend it |

In every module a goroutine is a small program counter, a section under a mutex
is one action, and an unlock followed by a channel operation is two. Data is
abstracted to what the properties can tell apart:

- **Bytes are positions.** A DATA frame is the range `from..to` of the stream, a
  WINDOW_UPDATE is the range it gives credit for. Order, loss and duplication
  then are statements about adjacent ranges, and contents need no model.
- **Ids are used once**, as `Client.nextID`, lease ids and attach epochs are; so
  the set of ids bounds how often an operation happens. In `RelaySession` and
  `BrokerRoles`, which run for ever, a name is used again once nothing refers to
  the listener or process it stood for, which nobody can tell from a new one.
- **The transport** is reliable and ordered in the stream modules, as a pipe is,
  and may go down; only `FramedLink` looks inside it.
- **Timeouts** (contexts, deadlines, handshake limits) are actions that are
  always possible; nothing but fairness says when they happen.
- **Limits** shared with things a module does not have (`StreamOpen`,
  `ReverseForward`) may refuse at any time; limits counted over what the module
  has (`StrictLeases`, `BrokerAttach`) are counted.

Notes on individual modules:

`FlowWindow`. `add` unlocks before it signals, and the signal is dropped when
the one-slot channel is full; `take` looks at the counter, unlocks and only then
waits. `writers` are the goroutines that write to the stream.

`UploadStream`. `want` is what the current `Write` has still to send, `held` the
credit it has taken for it. The server's reader queues DATA if there is room and
resets the stream otherwise (`ServerData`); `HALF_CLOSE` is a *blocking* send
(`ServerHalfClose`); `RemoteWrite` writes any part of an event, with or without
an error; `SendUpdate` returns exactly that part.

`DownloadStream`. `CopyTake` ignores how much credit `take` granted, as
`copyToClient` does, so `avail` and what is under way drift apart. The client's
`handle` drops a frame on a full queue, sends RESET and calls `fail`, but leaves
the stream registered; the error event of `fail` is dropped when the queue is
full. `Server.reset` sends RESET and removes the stream afterwards, so these are
two steps here (`ServerUpd` or `UploadRes`, then the removal) and `copyToClient`
may send several DATA frames in between; `dropped` records that one of them, or
an earlier one, found the client's queue full. In `UploadStream` and `StreamOpen`
the two are one step: if `writeToRemote` resets, it has ended and what the
reader queues before the removal is never taken out; if the reader does, it
handles no other frame before the removal.
`Read` is a choice among the ready branches of its select. `Sizes` are the sizes
of a read from the socket and of a `Read`.

`StreamOpen`. The opener is where the goroutine of `startOpen` is; `closing` are
streams that `remove` has taken out of the map and whose socket it is about to
close. Between `spawned` and `dialing` the stream is not registered, and a CLOSE
that arrives then finds nothing.

`ReverseForward`. Adds the commit channel, the accept loop with the connection
it has in hand, the client's inbound dial and bridge, and a shutdown in three
steps. The server is the attached one.

`FramedLink`. One direction with both ends: `cur` and `last` are what each end's
Link has installed, `dropped` the transports `Attach` has replaced and not yet
closed. A frame is written and read in two parts, so a failure can fall between
them. Writers snapshot, lock `writeMu`, recheck, write; they retry on
`ErrDetached`. Both ends have a frame loop that detaches a transport it cannot
read and closes nothing: `ReadError` at the reading end, `ReverseError` at the
writing end, whose own reader may so detach the transport a writer is in.

`BrokerAttach`. `Authenticate` is `Registry.Attach` under `installMu`, which is
held until the connection is installed or the handshake fails.

`StrictLeases`. `removing` are the leases taken out of the map whose reservation
has not been read yet. `Install` and `SetReservation` are separate because
`rebind` looks into the map under the server's mutex and sets the reservation
afterwards, still under the lease's: a removal can fall in between, and waits
(`Locked`). Owners are abstracted: `Remove` is `CLOSE`, `ABORT`, the last
`RELEASE` or the reaper, at any time. A commit on a session that has died may
fail or be swallowed by the pipe.

`Datagrams`. An association is opened in a goroutine and a mapping in the frame
reader, which is what `Reading` says. `shut` is how far the `closeOnce` of a
mapping has got, `won` whether it was `Close` or `fail` that got it: only the
former sends a frame. `flow` is the map of flows for one remote source; `using`
the flow the worker holds after it has left the mutex, `fclosing` flows out of
the map that somebody is about to close. A full queue drops the datagram.

`RelaySession`. `sess` is where `runPersistentConnector` is, from starting a
connector over HELLO_OK to the registered mapping. HELLO_OK with another
instance id leads through `ResetPeerState`, `sessionDialer.clear` and its hook,
which `AutoForward` supplies. LISTEN_OPEN starts a goroutine (`HandleListen`,
then `OpenListener`), which registers and binds in one step (`ReverseForward` has
these apart) and whose answer waits in `pending` while there is no connector;
COMMIT and LISTEN_CLOSE are handled at once and may overtake it (`overtaken`). An
accept loop may fail (`AcceptFails`, `failed`): the listener is removed and the
client passes over the LISTEN_CLOSE. A connector that exits takes what is in its
pipes with it. `sess = "ended"` is the exit of the proxy, which its service
restarts; nothing is said of the next one. One configured TCP mapping stands for
the configured mappings; configured UDP mappings, the rebinding of strict leases
(in `StrictLeases`) and the shutdown are left out.

`AutoForward`. `loop` is where `sync` is and `worker` where each `openOne` is.
The attempt's context is created before the generation is read; `Reset` takes
`attemptCancel` under the mutex (`taken`) and calls it later, when it may already
belong to an attempt that is over. `openOne` looks at the generation twice, and
records a failure or a success in between without looking. `closeAll`, the
status file, offsets and Windows-allocated ports are left out.

`BrokerRoles`. A handle is the slot of the process that was started, an endpoint
is whoever serves it: STOP goes to the latter, Kill to the former. Supervisors
hold an election endpoint, so only the elected one has a state. A role whose
context is cancelled closes its listeners at once, as `ServeWithLimit` does, and
answers no probe while it drains; this matters, since a host that kept answering
while it stops would be reused by the worker that is to replace it, and TLC then
finds a cycle in which stopping hosts and starting orphans chase each other.
Tokens that differ (`stopConflictingRole`) and the exit codes 0 and 2 of a
frontend, which end the supervisor, are left out.

Definitions whose comment begins with *Mutant* are not part of any
specification. Each is a plausible mistake in the operation that follows it, and
replacing the operation by it makes TLC report the property that `PROJECT.json`
names under `mutants`: the evidence that the property looks at the code.

## 3. Runs

| run | instance | distinct states | checks |
|---|---|---|---|
| `upload` | window 4, frames up to 4, 6 bytes | 148 000 | `NoInvalidUpdate`, refinement of `ByteStream`, `WriteEnds` |
| `download` | window 5, frames up to 5, sizes 1 and 5, 6 bytes | 1 760 000 | types, `ReadsWhole`, `CopierEndsWait` |
| `window` | window 4, takes up to 3, two writers | 5 000 | `NoLostWakeup`, `TakeReturns`, no deadlock |
| `open` | two dials, one open at a time | 7 600 | `NoOrphanConn`, `OpenAgreed`, `DialReturns`, `SocketsReleased` |
| `reverse` | two listeners, room for one, one inbound connection | 102 000 | types, `NoOrphanSocket`, `AcceptAfterCommit`, `InboundAgreed`, `ReserveReturns`, `InboundSettles`, `SocketsReleased` |
| `link` | two writers, two transports, two frames | 4 900 000 | types, `FramesIntact`, `ReplacementUnblocks`, `StaleCannotDetach` |
| `broker` | three connectors, two handshakes at a time | 14 000 | `AttachConsistent`, `ShutdownDrains`, `RequestAnswered` |
| `leases` | a TCP and a UDP lease, room for one, two sessions | 300 000 | `LeasesSound`, `LeaseRestored` |
| `datagrams` | an association or a mapping, two datagrams, two flows, queue of one | 96 000 | types, `SocketsOwned`, `FlowsOwned`, `OpenReturns`, `CloseReleases` |
| `autoforward` | one automatic port with two addresses and one configured port; one broker restart, one fault, one change of the WSL listener | 832 000 | types, `ActiveIsLive`, `ListenersOwned`, `MappingsSettle` |
| `session_hang` | the same without restarts | – | `ConnectorReplaced` is violated (section 5) |
| `roles` | two slots for each role, two faults of which one may hit an inner role, a probe or a deadline | 845 000 | types, `OwnerKept`, `Recovers` |

What the less obvious properties say:

- `ActiveIsLive`: what the watcher calls active is a listener the client knows
  and the running broker has bound, unless a `Reset` is still to come or the
  Windows listener failed to accept, which the client does not learn (`failed`).
  It is what the second look at the generation in `openOne` is for.
- `ListenersOwned`: no listener is forgotten on one side only, but for three cases
  that the code has and the model names: `lost` (a frame about it went down with
  a connector, or its LISTEN_CLOSE was given up), `overtaken` (its LISTEN_CLOSE
  was handled before the goroutine of its LISTEN_OPEN) and `severed`
  (`ResetPeerState` failed it although the new broker had just opened it).
- `MappingsSettle`: after the last change, fault and restart every listening WSL
  port is mapped where it listens and the others are released. It excepts a
  proxy that ended, a registration that hangs (section 5) and a Windows port that
  such an orphan holds; a mapping whose COMMIT was lost, or whose Windows
  listener failed, counts as served, since nothing in the code notices.
- `ReplacementUnblocks`: a writer that is still inside a transport which is no
  longer current has a broken transport, or `Attach` is about to close it, or the
  other end has left it and this end's reader detached it on noticing; in the
  last case only the connector's own failure ends the write (section 5).
- `TakeReturns` is about a writer that waits alone. With several, a token may go
  to one that takes all there is; `NoLostWakeup` says what holds then.
- `Recovers`: from any two faults the roles come to one process each and stay
  there. `OwnerKept`: no number of crashes of supervisors, frontends and workers
  ends the owner that holds the sockets. (`CrashInner` and the rest of what
  `upsets` counts are excluded; section 5 says why.)
- `AttachConsistent`, `LeasesSound`, `ReadsWhole` and `FramesIntact` are
  conjunctions of what the module states one by one.

### Why the bounds are enough

- *Streams.* The windows are smaller than the data, so credit has to come back;
  a frame may be one byte or fill the window, so several are queued and a take is
  sometimes granted in full and sometimes in part. The queue (window / frame size
  + 2 events) fills with one-byte frames, and in `download` there are enough of
  them for a frame to be dropped and a later one to be queued behind the gap. The
  upload theorems hold for all windows, so the instance there only has to be
  large enough to find mistakes in the statement.
- *Window.* Two writers are the least number for which one token may wake the
  wrong one; the theorem is for any number.
- *Open and reverse.* Streams interact only through the limits, the order of
  frames and shutdown: two of a kind give every order of one stream's frames
  relative to another's. One inbound connection meets every state of its
  listener, of which two exist to reuse the one place.
- *Link.* Two writers compete for `writeMu`; two transports give one replacement
  under each side, at any point of a frame; the pipe holds one frame.
- *Broker.* Three connectors are a pending one, one in its handshake and one
  that is installed; the limit of two turns the third away.
- *Leases.* Two sessions are one replacement, which may die again. Two leases
  with room for one are refused, and the second is registered while the first is
  still being removed or rebound. The safety theorems are for any number.

- *Datagrams.* Ids share only the link and the turn of the frame reader, so the
  run opens one id, of either kind; two flows are an older and a newer one of the
  same source; a queue of one is full after one datagram.
- *Sessions and automatic forwarding.* One restart gives the three kinds of
  mapping: made before it, under way during it, made after it. Ports share only
  the link, the generation and the attempt's context, and the configured port is
  a second user of the link. `PerPort` is how many listeners of one port may be
  alive at once, from their LISTEN_OPEN to their LISTEN_CLOSE: two are an orphan,
  or one that is being closed, beside its successor. The two addresses of a port
  are interchangeable, so a port that listens at first does so at `First`.
- *Roles.* Two slots are a process and its replacement. Two faults are a crash
  and one during the recovery from it; one upset among them keeps the state space
  within reach.

`CHECK_DEADLOCK FALSE` stands in the configurations of systems that may stop for
good: after a close, a shutdown or when all bytes are through. A `window` never
stops, and its run checks for deadlock.

### Fairness

Weak fairness is assumed of what a goroutine does when it is able to: the Go
scheduler runs it. Beyond that:

- `UploadStream`: the Windows socket accepts or fails a pending write. Without
  it a write may block for ever.
- `DownloadStream`: the application keeps reading; the socket need not deliver.
- `FlowWindow`: the peer returns the credit it owes.
- `StreamOpen`, `ReverseForward`: a dial ends one way or the other, as the
  contexts of `net.Dialer` make it; nobody has to close, connect or fail.
- `BrokerAttach`: reads of a closed connection fail, and an authenticated
  handshake ends by its deadline while the service runs; this deadline is what
  frees `installMu` from a silent connector. That the listener fails is assumed
  only once the service is cancelled, when it has been closed. A connector need never
  send its request: `RequestAnswered` is about the others. During shutdown the
  deadline is *not* relied on, since `ShutdownDrains` says that closing the
  connections is enough.
- `StrictLeases`: the rebinder runs and its ticker ticks. Strong fairness of
  `TakeOld` and `Rereserve` says that a lease is not cut off by the time-out in
  every pass (each has a fresh one and Go iterates maps in random order) and
  that a port that is free again and again is bound in the end.
- `Datagrams`: a dial returns and a server whose transport broke shuts down;
  nobody has to close, no datagram has to come.
- `AutoForward`: frames travel, each goroutine that opens a listener runs, and
  the timers that the code sets (scan interval,
  back-off, `OpenTimeout` where no answer will come, restart delay) expire.
  Faults, restarts and changes are never required.
- `BrokerRoles`: every live process goes on running. For `Bridge` this means that
  connectors keep coming, as wsl-proxy's reconnection does; without one a
  frontend does not notice that its worker is gone.

## 4. Proofs

All theorems but two are of the form `Spec => []Inv`; `StaleNeverDetaches` is an
action property and `Refinement` a refinement. They hold for every value of the
constants allowed by the modules' assumptions: positive windows and limits,
frames of at least one byte and at most a window, finite non-empty sets of
process slots, a configured port that is not an automatic one, and a `None`,
`NoHandle` or `NoWriter` that is not one of what it stands for the absence of. So
the bounds that TLC needs (ids, ports, writers, transports, flows, processes,
restarts, faults) are arbitrary here.

**`UploadStreamProofs`**. Neither exact credit nor order is inductive: both speak
of what is somewhere on its way. The invariant `UploadInv` says where everything
is. `Positions` is the ledger, `avail + held + sent = Window + credited`.
`Chains` says that the unwritten bytes lie as adjacent ranges in `cur`, `queue`
and `c2s`, and the bytes written and not yet credited in `count` and `s2c`.
`FramesOK` says which frames each sequence can hold, and that a half-close stands
at the end of all data. From it follow `TypeCorrect`, `CreditExact` (no
WINDOW_UPDATE is ever refused), `MemoryBound`, `DeliveryInOrder`, `HalfCloseLast`
and `Refinement`: every step of the upload direction is a step of `ByteStream` or
a stutter. The lemmas at the head of the module say what appending to, taking
from and splitting a chain of ranges does.

**`DownloadStreamProofs`**. First the send window (`FlowWindow`):
`WindowTypeCorrect` (the counter stays within the window) and `WakeupNotLost`,
which is `NoLostWakeup` as it stands, together with types: every action that
fills the window leaves its signal pending, and a taker that consumes the token
looks again. Then the direction itself: `WholeStreamRead` (`ReadsWhole`) and
`TypeCorrect`. `DownloadInv` says that the bytes from what `Read` has returned to
what the server has read from the socket lie as adjacent ranges in `readBuf`, in
the part of `incoming` before its first gap and in `s2c` (`Joined`, `ReadJoined`),
until a frame is dropped, however many chunks follow a RESET. `Failures` says
which errors a stream can fail with and that an end that has given the stream up
has told the other, and `Ends` that a HALF_CLOSE is preceded by the last chunk or
by a RESET, so that `io.EOF` on a stream that has not failed comes after the last
byte.

**`StreamOpenProofs`**. `SocketsOwned` (`NoOrphanConn`) needs that an id is
opened at most once (`Once`: at most one OPEN of it is under way, and none once
an opener exists) and that only an opener past its dial has a socket
(`Dialled`); otherwise a second OPEN could register a stream over the first.
`EstablishedAgreed` (`OpenAgreed`) adds what an answer says: OPEN_OK is under way
only for a stream that the server has registered or sent a RESET for afterwards,
and it reaches the client before that RESET does.

**`ReverseForwardProofs`**. `ListenersOwned` (`NoOrphanSocket`) rests on the same
two facts for listeners (`Once`, `Bound`). `AcceptedAfterCommit` follows from
`CommitInv`: a COMMIT under way, the server's set and an accept loop that got past
its wait all imply that the client committed. `InboundStreamsAgreed` follows an
inbound stream through the places it can be (`InHand` of its accept loop,
announced by the INBOUND_OPEN under way, at the client, ended): the announcement
is alone and before any RESET of the same stream, and no CLOSE can exist before
the client has seen it (`Stream`).

**`LinkSessionProofs`**. First the frame link. `WritersUnblocked`
(`ReplacementUnblocks`) and the action property `StaleNeverDetaches` need only
where the ends can be (`EndInv`) and who has `writeMu` (`LockInv`); a transport
that is no longer current was replaced, closed, or detached by a reader that
found its other end gone. `ReadsIntact` (`FramesIntact`) needs two more layers.
`Ahead` and `Numbered`: nothing is ever written to a successor of the transport
that is being written to, so that frames are numbered in the order they are
written across transports as well. `ReadInv`: in every transport that the frame
loop may still read there are whole frames, begun by the header it already has,
and at most one half frame at the end; that half is finished by the writer that
has `writeMu`, or the transport is broken and nothing follows it (`Framed`). What
has been received is older than all of this (`Older`).
The second half is about the automatic forwards over the session:
`ActiveMappingsLive` (`ActiveIsLive`), `NoListenerForgotten` (`ListenersOwned`)
and `WatchTypeCorrect`. `RelayInv` has a layer per party. `WatchInv`: a port is
opened only while it is not mapped, and what sync or Reset has yet to close is
nobody else's. `SessionInv`: every Reset had a broker of its own (`generation`
stays behind `peer`), nothing exists before the first registration, and nothing is
under way on a Link that is down. `HandsInv`: whatever the client has registered,
or has an answer for, somebody holds. `WireInv`: for a registered listener the
frames under way, and what its goroutine at the broker has still to do, agree
with what is bound (`Agreed`; `Kept` is bound or failed by itself), and every
LISTEN_OPEN under way or being worked on is of a listener that is registered, was
invalidated, or has its LISTEN_CLOSE behind it unless that was lost or has already
overtaken it (`Abandoned`), so that the broker binds nothing else that nobody will
close. `OpenersInv` is the argument for the watcher: an `openOne` of
the current generation has a listener that is registered and, once answered,
bound, or a Reset is still to come; `Publish` looks at the generation in the
critical section that Reset also takes, which makes the mapping live. Without that
second look the proof fails at `Publish`. That `severed` outlives a broker restart
came out of this proof: an `openOne` that was invalidated before it wrote its
LISTEN_OPEN writes it to whichever broker comes next.

**`DatagramsProofs`**. `FlowSocketsOwned` (`FlowsOwned`) needs that `closeOnce`
closes `done` before it takes the flows, so that no flow is added after. For
`ServerSocketsOwned` (`SocketsOwned`) `IdInv` says that nothing has happened to an
id that was not opened, that its OPEN is the first frame under way for it and
precedes its opener, and that a mapping whose CLOSE was handled is not opened any
more. `TypeCorrect` includes the queue depths.

**`BrokerAttachProofs`**. `GenerationsInOrder`, `RegistryAgrees` and
`NoPhantomGeneration` rest on who may be between authentication and
installation: only the holder of `installMu`, whose epoch is the newest; and
every epoch the link has had is older than one that is still to come.
`AttachSafe` is their conjunction, the `AttachConsistent` of the run.
The second half is about the roles: `OwnerSurvives` (`OwnerKept`) and
`RolesTypeCorrect`. `RolesInv` has two regimes. Before the first fault the
processes form a chain (`Chain`: one supervisor's frontend, its worker, that
worker's owner and host, each found by the one before), which is what makes the
roles that come up first also those with handles to each other. After that, while
only outer roles crash (`KeptUp`), nobody is told to stop, owner and host answer
every probe, and a worker with a handle serves with what it refers to; so every
later worker reuses them, has no handle, and its clean-up stops nobody
(`Calm`). The proof fails, as it should, when the clean-up also stops an owner
that was reused.

**`StrictLeasesProofs`**. `ListenersOwned`, `CommittedRebound`, `SlotAccounting`
and `TypeCorrect`; `LeasesSafe` is the `LeasesSound` of the run. `LeaseInv` adds
what each party may assume of the others: a request that has not registered its
lease is known to nobody (`EarlyInv`), a lease the rebinder is at holds nothing,
and one it is about to set is registered or has a removal waiting for its lock
(`RebInv`), which is exactly what fails when the removal reads the reservation
without the lock.

Some type invariants and single conjuncts that are proved (`TypeOK` of
`UploadStream`, `StreamOpen`, `BrokerAttach` and `StrictLeases`,
`BufferedWithinWindow`, `InOrder`, `LinkInOrder`, ...) are not listed in a run
again; the runs check what they are conjuncts of, or what is stronger.

**Only model-checked.** All liveness properties (`~>`, `<>[]`), which need
fairness and `ENABLED` and are out of the prover's reach. Every invariant and
every action property that a run checks is also a theorem.

## 5. Where the code and its documents differ

One of these has a run that ends in a counterexample:

- `session_hang`: `registerMappings` (`persistent.go:147`) runs under a context
  that ends only with the proxy and does not watch the connector. If the
  connector exits before LISTEN_OK arrives, the proxy waits for ever and never
  starts another, although `README.md:29` promises connector reconnect.

The others are facts of the code met while modelling. The models contain them,
except for the restarted proxy's ids, and the properties are stated so that they
hold beside them.

*Streams*

- `copyToClient` (`server.go:723`) drops the count that `take` returns and sends
  the whole chunk. The client returns credit for all of it, more than was taken;
  once the excess passes the initial window, `add` refuses an honest
  WINDOW_UPDATE (`server.go:239`) and the server resets a healthy stream.
  ADR 0007:29 asks for exact credit accounting. The upload direction has it.
- `HALF_CLOSE` is queued with a blocking send in the frame reader
  (`server.go:231`). With a stalled Windows socket and a full queue the reader
  stops for *all* streams, which ADR 0007:22 says cannot happen.
- LISTEN_CLOSE is handled at once and LISTEN_OPEN in a goroutine
  (`server.go:193`), so a CLOSE that overtakes the registration cancels nothing
  and the socket is published afterwards (the exception `overtaken` of
  `ListenersOwned`);
  `docs/plans/2026-09-12-wsl-win-relay.md:388` says such races cancel first. The
  same holds of OPEN and CLOSE of streams and of UDP associations (mappings are
  opened by the frame reader and are in order).
- The queues hold events and the window counts bytes, so a writer of small
  frames overflows a queue within its credit (`server.go:221`,
  `client.go:1152`) and is reset as an offender.
- After a queue overflow, and after a RESET from the server (which removes its
  stream only afterwards, `server.go:776`), frames still come and the client
  stream may still be registered: one that is queued behind a dropped one is
  returned by `Read` after the gap. This is why the order part of `ReadsWhole`
  stops at the first dropped frame.
- Once `readEOF` is set, `Read` answers an empty queue with `io.EOF` without
  looking at `terminalErr`, and `fail` drops its error event on a full queue: a
  truncated stream can end like a complete one (`client.go:1230`). This is why
  `ReadsWhole` stops at a failure.

*Datagrams*

- After a failure of a reverse UDP mapping (`client.go:972`) the `Close` of its
  owner sends no LISTEN_DATAGRAM_CLOSE, since `fail` has used up `closeOnce`: the
  Windows socket stays bound until the server notices by itself.
- A read error of an association's socket removes it on the server without a
  frame (`server.go:359`); the client goes on writing to nothing.

*Sessions, leases and automatic forwarding*

- `RetryMissing` passes over leases whose reservation is not nil
  (`listencontrol/server.go:629`), and a reservation of a dead session is not
  nil. A lease registered after the snapshot of `Rebind`, or reached after its
  time was up, stays dead until the next session; ADR 0010:26 says that live
  leases are rebound.
- `ResetPeerState` fails every listener of the client (`client.go:128`), though
  its comment speaks of state that belonged to the old broker. A listener opened
  through the new connector before HELLO_OK is processed is failed too, and its
  Windows port stays bound by nobody.
- A LISTEN_CLOSE is given up after 250 ms without a connector (`client.go:458`),
  and any frame may be lost with a connector: the broker keeps an orphan that
  refuses the port to its successor, or an active mapping never gets its COMMIT.
- `openOne` looks at the generation before it records a rejection, not while
  (`watcher.go:514`): a rejection of the old session can be recorded after a
  Reset and hold the port back on the new one, though ADR 0018:25 says
  stale-generation results are not recorded.
- A handshake that times out (`main.go:771`) and a connector with a nonzero exit
  status (`main.go:697`) end the proxy. A restarted proxy counts ids from 1
  again, and a broker that still has such a listener ignores the LISTEN_OPEN
  without an answer (`server.go:551`).

*Roles*

- A worker that started the owner stops it when its host exits
  (`roles.go:303`), so the crash of a socket host does close established sockets;
  ADR 0016:73 says it does not.
- A frontend that stops sends STOP to its worker and kills it at once, so that
  the worker may never pass the stop on (ADR 0016:40 describes a cascade).
- The deferred clean-up sends STOP by endpoint. A worker that lost the race for
  its endpoint can so end an owner or host that another worker started;
  ADR 0016:56 says reused processes are not terminated.

*Link and broker*

- Frames in the buffer of a connector that dies are lost, since nothing is
  acknowledged (`link.go:125`); what the link promises is that those that arrive
  are whole and in order.
- A Link whose reader meets an error detaches the transport and closes nothing
  (`link.go:82`), and `Attach` then finds no old transport to close
  (`link.go:50`, `link.go:58`): a writer inside it keeps `writeMu` until the
  transport itself fails. This is the third alternative of `ReplacementUnblocks`.
- The registry's current generation outlives its connector until the next attach
  (`registry.go:107`).
- `serveListener` reports an accept error with LISTEN_CLOSE (`server.go:604`),
  which the client drops (`client.go:578`): its mapping stays active without a
  Windows listener until the next broker (the exception `failed` of
  `ActiveIsLive` and `MappingsSettle`).

## 6. What is not modelled, and the plan

Not planned: the proxies, upstream dialer and forwards (sequential parsing and
copying per connection), configuration, status and diagnostics (formatting), the
local IPC and stdio wrappers, the native interposer (hooks into the C library of
another process; its protocol is seen from the server's side), scripts.

Left out of modelled components: `ReadFrom` and the wire form of datagrams; the
shutdown of the watcher and its status file; the proxy's start and shutdown
(`run`) and stdio sessions beyond what `StrictLeases` has of them; token
mismatches and credentials of roles; the registry's resource entries and the
plain `Serve` of the broker.

Planned, in this order:

1. `LeaseOwners`: ADOPT, RELEASE and the reaper with process identities that are
   read before the lock and used after it; refines the `Remove` of
   `StrictLeases`. Property: a reused pid never releases the lease of the new
   process.
2. Theorems about `LeaseOwners`.
