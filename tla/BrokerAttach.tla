---------------------------- MODULE BrokerAttach ----------------------------
(* Broker.ServeAttachedWith: how connectors attach to the broker.  An accept *)
(* loop hands every connection to a worker, which reads HELLO and ATTACH,    *)
(* then under installMu authenticates, creates a generation in the           *)
(* attach.Registry, completes the resume handshake and installs the          *)
(* connection into the framed.Link.  Cancelling the service closes the       *)
(* listener, the link and the connections still in their handshake.          *)
EXTENDS Naturals, Sequences, FiniteSets

CONSTANTS
    Conns,       \* connections connectors make; bounds the number of attaches
    MaxPending   \* MaxConcurrentAttachHandshakes

ASSUME MaxPendingAssumption == MaxPending \in Nat \ {0}

None == "none"
ASSUME NoneAssumption == None \notin Conns

VARIABLES
    loop,       \* the accept loop: accept, track, exit, wait (handlers.Wait) or done
    inHand,     \* the connection it has accepted and not yet tracked
    worker,     \* each connection: where serveAttachConnection is
    broken,     \* connections that are closed, by either side
    installMu,  \* the connection whose worker holds it, or None
    epoch,      \* Registry.epoch
    epochOf,    \* each connection: the epoch of its attach.Attachment, 0 without
    current,    \* Registry.current
    link,       \* Link.current
    linkOrder,  \* history: the epochs in the order the link installed them
    service,    \* running, cancelled, unlinked or swept: how far cancellation is
    linkShut    \* open, or shut once Link.Close ran

vars == <<loop, inHand, worker, broken, installMu, epoch, epochOf, current, link,
          linkOrder, service, linkShut>>

WorkerStates == {"none", "pending", "request", "attached", "install", "kept", "ended"}

TypeOK ==
    /\ loop \in {"accept", "track", "exit", "wait", "done"}
    /\ inHand \in Conns \cup {None}
    /\ worker \in [Conns -> WorkerStates]
    /\ broken \in SUBSET Conns
    /\ installMu \in Conns \cup {None}
    /\ epoch \in Nat
    /\ epochOf \in [Conns -> Nat]
    /\ current \in Conns \cup {None}
    /\ link \in Conns \cup {None}
    /\ linkOrder \in Seq(Nat)
    /\ service \in {"running", "cancelled", "unlinked", "swept"}
    /\ linkShut \in {"open", "shut"}

Init ==
    /\ loop = "accept" /\ inHand = None
    /\ worker = [c \in Conns |-> "none"] /\ broken = {}
    /\ installMu = None /\ epoch = 0 /\ epochOf = [c \in Conns |-> 0]
    /\ current = None /\ link = None /\ linkOrder = <<>>
    /\ service = "running" /\ linkShut = "open"

-----------------------------------------------------------------------------
(* The accept loop. *)

(* b.connections: tracked until ownership passes to the link. *)
Tracked == {c \in Conns : worker[c] \in {"pending", "request", "attached", "install"}}

Accept(c) ==
    /\ loop = "accept" /\ service \in {"running", "cancelled"}
    /\ worker[c] = "none"
    /\ loop' = "track" /\ inHand' = c
    /\ UNCHANGED <<worker, broken, installMu, epoch, epochOf, current, link, linkOrder, service, linkShut>>

(* trackConnection: start a worker, or close the connection at the limit.    *)
Track ==
    /\ loop = "track"
    /\ loop' = "accept" /\ inHand' = None
    /\ \/ /\ Cardinality(Tracked) < MaxPending
          /\ worker' = [worker EXCEPT ![inHand] = "pending"]
          /\ UNCHANGED broken
       \/ /\ ~(Cardinality(Tracked) < MaxPending)
          /\ worker' = [worker EXCEPT ![inHand] = "ended"]
          /\ broken' = broken \cup {inHand}
    /\ UNCHANGED <<installMu, epoch, epochOf, current, link, linkOrder, service, linkShut>>

(* The listener was closed, or failed by itself; the deferred clean-up of    *)
(* ServeAttachedWith begins with cancelling the service.                     *)
AcceptError ==
    /\ loop = "accept"
    /\ loop' = "exit"
    /\ service' = IF service = "running" THEN "cancelled" ELSE service
    /\ UNCHANGED <<inHand, worker, broken, installMu, epoch, epochOf, current, link, linkOrder, linkShut>>

(* Mutant: the clean-up relies on the sweep that cancellation did. *)
ExitSweepNot ==
    /\ loop = "exit"
    /\ loop' = "wait"
    /\ linkShut' = "shut" /\ link' = None
    /\ broken' = broken \cup ({link} \ {None})
    /\ UNCHANGED <<inHand, worker, installMu, epoch, epochOf, current, linkOrder, service>>

(* It goes on to close the link and what is still tracked.                   *)
ExitSweep ==
    /\ loop = "exit"
    /\ loop' = "wait"
    /\ linkShut' = "shut" /\ link' = None
    /\ broken' = broken \cup ({link} \ {None}) \cup Tracked
    /\ UNCHANGED <<inHand, worker, installMu, epoch, epochOf, current, linkOrder, service>>

HandlersDone ==
    /\ loop = "wait" /\ Tracked = {}
    /\ loop' = "done"
    /\ UNCHANGED <<inHand, worker, broken, installMu, epoch, epochOf, current, link, linkOrder, service, linkShut>>

-----------------------------------------------------------------------------
(* serveAttachConnection. *)

ReadRequest(c) ==
    /\ worker[c] = "pending" /\ c \notin broken
    /\ worker' = [worker EXCEPT ![c] = "request"]
    /\ UNCHANGED <<loop, inHand, broken, installMu, epoch, epochOf, current, link, linkOrder, service, linkShut>>

(* Its read fails, or its deadline passes. *)
RequestFails(c) ==
    /\ worker[c] = "pending"
    /\ worker' = [worker EXCEPT ![c] = "ended"]
    /\ broken' = broken \cup {c}
    /\ UNCHANGED <<loop, inHand, installMu, epoch, epochOf, current, link, linkOrder, service, linkShut>>

(* Mutant: installMu is released as soon as the generation exists. *)
AuthenticateUnlocked(c) ==
    /\ worker[c] = "request" /\ installMu = None
    /\ epoch' = epoch + 1
    /\ epochOf' = [epochOf EXCEPT ![c] = epoch + 1]
    /\ current' = c
    /\ worker' = [worker EXCEPT ![c] = "attached"]
    /\ UNCHANGED <<broken, installMu, loop, inHand, link, linkOrder, service, linkShut>>

(* Under installMu: Registry.Attach makes this the current generation, or    *)
(* refuses its token.                                                        *)
Authenticate(c) ==
    /\ worker[c] = "request" /\ installMu = None
    /\ \/ /\ installMu' = c
          /\ epoch' = epoch + 1
          /\ epochOf' = [epochOf EXCEPT ![c] = epoch + 1]
          /\ current' = c
          /\ worker' = [worker EXCEPT ![c] = "attached"]
          /\ UNCHANGED broken
       \/ /\ worker' = [worker EXCEPT ![c] = "ended"]
          /\ broken' = broken \cup {c}
          /\ UNCHANGED <<installMu, epoch, epochOf, current>>
    /\ UNCHANGED <<loop, inHand, link, linkOrder, service, linkShut>>

(* Attachment.Detach: only the current generation can be released.           *)
Detach(c) == current' = IF current = c THEN None ELSE current

(* ATTACH_OK, the summary and RESUME_ACK went through. *)
Acknowledge(c) ==
    /\ worker[c] = "attached" /\ c \notin broken
    /\ worker' = [worker EXCEPT ![c] = "install"]
    /\ UNCHANGED <<loop, inHand, broken, installMu, epoch, epochOf, current, link, linkOrder, service, linkShut>>

(* Mutant: there is no deadline, only a connection that breaks ends it. *)
ResumeFailsUntimed(c) ==
    /\ worker[c] = "attached" /\ c \in broken
    /\ Detach(c)
    /\ worker' = [worker EXCEPT ![c] = "ended"]
    /\ installMu' = None
    /\ UNCHANGED <<broken, loop, inHand, epoch, epochOf, link, linkOrder, service, linkShut>>

(* One of them failed or took longer than the deadline. *)
ResumeFails(c) ==
    /\ worker[c] = "attached"
    /\ Detach(c)
    /\ worker' = [worker EXCEPT ![c] = "ended"]
    /\ broken' = broken \cup {c}
    /\ installMu' = None
    /\ UNCHANGED <<loop, inHand, epoch, epochOf, link, linkOrder, service, linkShut>>

(* Link.Attach replaces and closes the previous transport, unless the link   *)
(* is closed: then the generation is released again.                         *)
Install(c) ==
    /\ worker[c] = "install"
    /\ \/ /\ linkShut = "open"
          /\ link' = c
          /\ linkOrder' = Append(linkOrder, epochOf[c])
          /\ broken' = broken \cup ({link} \ {None})
          /\ worker' = [worker EXCEPT ![c] = "kept"]
          /\ UNCHANGED current
       \/ /\ linkShut = "shut"
          /\ Detach(c)
          /\ worker' = [worker EXCEPT ![c] = "ended"]
          /\ broken' = broken \cup {c}
          /\ UNCHANGED <<link, linkOrder>>
    /\ installMu' = None
    /\ UNCHANGED <<loop, inHand, epoch, epochOf, service, linkShut>>

-----------------------------------------------------------------------------
(* The rest of the world. *)

(* The connector goes away, at any point of its life. *)
PeerCloses(c) ==
    /\ worker[c] \notin {"none", "ended"} /\ c \notin broken
    /\ broken' = broken \cup {c}
    /\ UNCHANGED <<loop, inHand, worker, installMu, epoch, epochOf, current, link, linkOrder, service, linkShut>>

(* The frame loop notices and detaches the link; nobody closes the Session.  *)
FrameError(c) ==
    /\ link = c /\ c \in broken
    /\ link' = None
    /\ UNCHANGED <<loop, inHand, worker, broken, installMu, epoch, epochOf, current, linkOrder, service, linkShut>>

Cancel ==
    /\ service = "running"
    /\ service' = "cancelled"
    /\ UNCHANGED <<loop, inHand, worker, broken, installMu, epoch, epochOf, current, link, linkOrder, linkShut>>

(* The goroutine that waits for the context: listener and link first. *)
CloseLink ==
    /\ service = "cancelled"
    /\ service' = "unlinked"
    /\ linkShut' = "shut"
    /\ link' = None
    /\ broken' = broken \cup ({link} \ {None})
    /\ UNCHANGED <<loop, inHand, worker, installMu, epoch, epochOf, current, linkOrder>>

Sweep ==
    /\ service = "unlinked"
    /\ service' = "swept"
    /\ broken' = broken \cup Tracked
    /\ UNCHANGED <<loop, inHand, worker, installMu, epoch, epochOf, current, link, linkOrder, linkShut>>

-----------------------------------------------------------------------------
LoopNext == Track \/ AcceptError \/ ExitSweep \/ HandlersDone

Next ==
    \/ \E c \in Conns : \/ Accept(c) \/ ReadRequest(c) \/ RequestFails(c) \/ Authenticate(c)
                        \/ Acknowledge(c) \/ ResumeFails(c) \/ Install(c)
                        \/ PeerCloses(c) \/ FrameError(c)
    \/ LoopNext
    \/ Cancel \/ CloseLink \/ Sweep

Spec == Init /\ [][Next]_vars

(* Goroutines run, and reads of a closed connection fail, as does Accept of  *)
(* a closed listener; that a listener fails by itself, or that the service   *)
(* is ever cancelled, is not assumed.  The handshake deadline ends an        *)
(* authenticated handshake that its connector leaves hanging; it is not      *)
(* relied on once the service is being cancelled.  No connector need send    *)
(* its request or answer.                                                    *)
Fairness ==
    /\ WF_vars(Track \/ ExitSweep \/ HandlersDone)
    /\ WF_vars(AcceptError /\ service \in {"unlinked", "swept"})
    /\ WF_vars(CloseLink) /\ WF_vars(Sweep)
    /\ \A c \in Conns :
          /\ WF_vars(RequestFails(c) /\ c \in broken)
          /\ WF_vars(Authenticate(c)) /\ WF_vars(Install(c))
          /\ WF_vars(ResumeFails(c) /\ c \in broken)
          /\ WF_vars(ResumeFails(c) /\ service = "running")

FairSpec == Spec /\ Fairness

-----------------------------------------------------------------------------
(* Properties. *)

(* "Registry generation order and active frame-link order remain identical": *)
(* concurrent handshakes never install an older generation over a newer one. *)
LinkInOrder == \A i, j \in 1..Len(linkOrder) : i < j => linkOrder[i] < linkOrder[j]

(* Between installations the registry's generation is the one whose          *)
(* transport the link has, if it has any.                                    *)
RegistryMatchesLink ==
    installMu = None /\ current # None /\ link # None => link = current

(* A handshake that did not end with an installed transport leaves no        *)
(* phantom generation behind, on any of its failure paths.                   *)
NoPhantom == \A c \in Conns : worker[c] = "ended" => current # c

(* However many handshakes overlap, fail and time out, the registry and the  *)
(* link agree: generations are installed in the order they were created,     *)
(* between installations the current one is the one whose transport the link *)
(* has, and no handshake that failed stays behind as the current generation. *)
AttachConsistent == LinkInOrder /\ RegistryMatchesLink /\ NoPhantom

(* Cancelling the service ends every handshake without waiting for a         *)
(* deadline, also one whose connection was accepted while the pending        *)
(* connections were being closed.                                            *)
ShutdownDrains == service = "cancelled" ~> loop = "done"

(* A connector that has sent its request is answered although other          *)
(* connections send nothing, in a service that goes on for ever: only        *)
(* installation is serialised, and the deadline frees installMu from a       *)
(* connector that stops half-way.                                            *)
RequestAnswered == \A c \in Conns : worker[c] = "request" ~> worker[c] # "request"
=============================================================================
