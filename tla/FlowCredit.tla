----------------------------- MODULE FlowCredit -----------------------------
(* The arithmetic of a stream's send window (internal/relay/window.go) and   *)
(* the frames that move between the two ends of one TCP stream.              *)
(*                                                                           *)
(* The bytes of one direction of a stream are numbered from 0.  A frame      *)
(* stands for the half-open range from..to of them: a DATA frame for the     *)
(* bytes it carries, a WINDOW_UPDATE for the bytes it returns credit for     *)
(* (the code transmits only the count, to - from), every other frame for the *)
(* empty range at the position where it was sent.                            *)
EXTENDS Naturals, Sequences

CONSTANTS
    Window,    \* protocol.InitialStreamWindow
    MaxData    \* protocol.MaxDataSize

ASSUME WindowAssumption == Window \in Nat \ {0}
ASSUME MaxDataAssumption == MaxData \in 1..Window

(* newClientStream, newServerStream: the receive queue holds this many       *)
(* events, whatever their sizes.                                             *)
QueueCap == (Window \div MaxData) + 2

Least(a, b) == IF a <= b THEN a ELSE b

(* Mutant: a bound that is off by one. *)
CanAddOneMore(available, count) == count > 0 /\ available + count <= Window + 1

(* flowWindow.add accepts a nonzero count that keeps the window within its   *)
(* initial size.                                                             *)
CanAdd(available, count) == count > 0 /\ available + count <= Window

(* flowWindow.take, once available > 0: as much of max as there is.          *)
TakeCount(max, available) == Least(max, available)

Frame(type, from, to) == [type |-> type, from |-> from, to |-> to]
Bytes(f) == f.to - f.from

(* s is a run of adjacent ranges that starts at a and ends at b.             *)
Chain(s, a, b) ==
    /\ a <= b
    /\ s = <<>> => a = b
    /\ s # <<>> => s[1].from = a /\ s[Len(s)].to = b
    /\ \A i \in 1..Len(s) : s[i].from <= s[i].to
    /\ \A i, j \in 1..Len(s) : i < j => s[i].to <= s[j].from
    /\ \A i \in 1..Len(s) : i + 1 <= Len(s) => s[i + 1].from = s[i].to
=============================================================================
