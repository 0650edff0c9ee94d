----------------------------- MODULE ByteStream -----------------------------
(* What one direction of a relayed TCP stream promises: the bytes accepted   *)
(* from the writing end come out at the reading end once each and in order,  *)
(* at most Capacity of them are under way at any time, and the reader sees   *)
(* the end of the stream only when it has everything that was accepted, after *)
(* which nothing more is accepted.                                           *)
EXTENDS Naturals

CONSTANT Capacity

VARIABLES
    accepted,    \* bytes taken from the writer
    delivered,   \* bytes handed to the reader
    finished,    \* the reader has seen the end of the stream
    broken       \* the stream was closed or reset

bvars == <<accepted, delivered, finished, broken>>

Init ==
    /\ accepted = 0
    /\ delivered = 0
    /\ finished = FALSE
    /\ broken = FALSE

Accept ==
    /\ accepted' > accepted
    /\ accepted' - delivered <= Capacity
    /\ ~finished
    /\ UNCHANGED <<delivered, finished, broken>>

Deliver ==
    /\ delivered' > delivered
    /\ delivered' <= accepted
    /\ ~finished
    /\ UNCHANGED <<accepted, finished, broken>>

Finish ==
    /\ delivered = accepted
    /\ ~finished
    /\ finished' = TRUE
    /\ UNCHANGED <<accepted, delivered, broken>>

Break ==
    /\ ~broken
    /\ broken' = TRUE
    /\ UNCHANGED <<accepted, delivered, finished>>

Next == Accept \/ Deliver \/ Finish \/ Break

Spec == Init /\ [][Next]_bvars
=============================================================================
