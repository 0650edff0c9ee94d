----------------------------- MODULE FlowWindow -----------------------------
(* flowWindow (internal/relay/window.go) step by step: the mutex-protected   *)
(* counter, the one-slot notify channel, add called by the frame reader and  *)
(* take called by the goroutines that write to the stream.  Writers share    *)
(* one window and one notify slot, and add signals after it has unlocked.    *)
EXTENDS FlowCredit

CONSTANT Takers    \* goroutines there are

VARIABLES
    writers,    \* the goroutines that write to this stream and so call take
    available,  \* flowWindow.available
    notify,     \* tokens in the notify channel, which has room for one
    stream,     \* live, or done when the stream's done channel is closed
    adder,      \* add: idle, or signal when it has unlocked and not yet signalled
    pc,         \* each taker: idle, check (about to lock) or wait (select)
    max         \* each taker: what it asked for

windowVars == <<writers, available, notify, stream, adder, pc, max>>

WindowTypeOK ==
    /\ writers \in SUBSET Takers
    /\ \A t \in Takers : pc[t] # "idle" => t \in writers
    /\ available \in 0..Window
    /\ notify \in 0..1
    /\ stream \in {"live", "done"}
    /\ adder \in {"idle", "signal"}
    /\ pc \in [Takers -> {"idle", "check", "wait"}]
    /\ max \in [Takers -> 1..MaxData]

(* newFlowWindow; copyToClient is the only writer of its stream, a client    *)
(* stream is a net.Conn that several goroutines may write to.                *)
WindowInit ==
    /\ writers \in SUBSET Takers
    /\ available = Window
    /\ notify = 0
    /\ stream = "live"
    /\ adder = "idle"
    /\ pc = [t \in Takers |-> "idle"]
    /\ max \in [Takers -> 1..MaxData]

(* A writer enters take asking for n bytes. *)
Take(t, n) ==
    /\ pc[t] = "idle" /\ t \in writers
    /\ pc' = [pc EXCEPT ![t] = "check"]
    /\ max' = [max EXCEPT ![t] = n]
    /\ UNCHANGED <<writers, available, notify, stream, adder>>

(* Under the mutex: take credit and return, or go and wait. *)
Check(t) ==
    /\ pc[t] = "check"
    /\ \/ /\ available > 0
          /\ available' = available - TakeCount(max[t], available)
          /\ pc' = [pc EXCEPT ![t] = "idle"]
       \/ /\ available = 0
          /\ pc' = [pc EXCEPT ![t] = "wait"]
          /\ UNCHANGED available
    /\ UNCHANGED <<writers, notify, stream, adder, max>>

(* The select of take: a token or a changed deadline sends it round the loop *)
(* again (Write calls take anew after errDeadlineChanged).                   *)
Notified(t) ==
    /\ pc[t] = "wait" /\ notify = 1
    /\ notify' = 0
    /\ pc' = [pc EXCEPT ![t] = "check"]
    /\ UNCHANGED <<writers, available, stream, adder, max>>

DeadlineChanged(t) ==
    /\ pc[t] = "wait"
    /\ pc' = [pc EXCEPT ![t] = "check"]
    /\ UNCHANGED <<writers, available, notify, stream, adder, max>>

(* done or the deadline ends take without credit. *)
Done(t) ==
    /\ pc[t] = "wait" /\ stream = "done"
    /\ pc' = [pc EXCEPT ![t] = "idle"]
    /\ UNCHANGED <<writers, available, notify, stream, adder, max>>

Timeout(t) ==
    /\ pc[t] = "wait"
    /\ pc' = [pc EXCEPT ![t] = "idle"]
    /\ UNCHANGED <<writers, available, notify, stream, adder, max>>

(* add, up to the unlock.  A refused count changes nothing here; its caller  *)
(* fails the stream.                                                         *)
Add(n) ==
    /\ adder = "idle"
    /\ \/ /\ CanAdd(available, n)
          /\ available' = available + n
          /\ adder' = "signal"
          /\ UNCHANGED stream
       \/ /\ ~CanAdd(available, n)
          /\ stream' = "done"
          /\ UNCHANGED <<available, adder>>
    /\ UNCHANGED <<writers, notify, pc, max>>

(* Mutant: the send on notify finds no receiver ready and is dropped. *)
SignalDropped ==
    /\ adder = "signal"
    /\ adder' = "idle"
    /\ UNCHANGED <<writers, available, notify, stream, pc, max>>

(* The rest of add: a signal that never blocks. *)
Signal ==
    /\ adder = "signal"
    /\ adder' = "idle"
    /\ notify' = 1
    /\ UNCHANGED <<writers, available, stream, pc, max>>

(* The stream ends for another reason. *)
CloseDone ==
    /\ stream = "live"
    /\ stream' = "done"
    /\ UNCHANGED <<writers, available, notify, adder, pc, max>>

TakerStep(t) == Check(t) \/ Notified(t) \/ Done(t)

WindowNext ==
    \/ \E t \in Takers : \/ \E n \in 1..MaxData : Take(t, n)
                         \/ Check(t) \/ Notified(t) \/ DeadlineChanged(t)
                         \/ Done(t) \/ Timeout(t)
    \/ \E n \in 1..Window : Add(n)
    \/ Signal
    \/ CloseDone

WindowSpec == WindowInit /\ [][WindowNext]_windowVars

(* Goroutines run, and the peer keeps returning the credit it owes; nothing  *)
(* is assumed of deadlines, of new writes or of the stream's end.            *)
WindowFairness ==
    /\ \A t \in Takers : WF_windowVars(TakerStep(t))
    /\ WF_windowVars(\E n \in 1..Window : Add(n) /\ available' > available)
    /\ WF_windowVars(Signal)

WindowFairSpec == WindowSpec /\ WindowFairness

-----------------------------------------------------------------------------
(* No writer waits beside a full window with nobody on the way to wake it,   *)
(* although a token can wake only one of several waiting writers and add     *)
(* signals after unlocking.                                                  *)
FullWindowWoken ==
    (available = Window /\ \E t \in Takers : pc[t] = "wait")
        => notify = 1 \/ adder = "signal" \/ \E t \in Takers : pc[t] = "check"

(* A lone writer never waits beside any credit at all without a wake-up on   *)
(* its way.                                                                  *)
LoneWaiterWoken ==
    \A t \in Takers :
        (writers = {t} /\ pc[t] = "wait" /\ available > 0) => notify = 1 \/ adder = "signal"

(* The one notify slot of flowWindow loses no wake-up that matters: a lone   *)
(* writer is woken for any credit, and of several one is woken at the latest *)
(* when the whole window is back.                                            *)
NoLostWakeup == FullWindowWoken /\ LoneWaiterWoken

(* A lone writer's take returns, with credit or because the stream is done.  *)
TakeReturns ==
    \A t \in Takers : (writers = {t} /\ pc[t] # "idle") ~> (pc[t] = "idle")
=============================================================================
