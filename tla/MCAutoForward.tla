---- MODULE MCAutoForward ----
(* One automatic port with two possible addresses, and the configured port.  *)
(* The addresses are interchangeable: a port that listens at first does so   *)
(* at the first one.                                                         *)
EXTENDS AutoForward

CONSTANT First

FirstInit == WatchInit /\ \A k \in Keys : host[k] \in {First, NoHost}
FirstSpec == FirstInit /\ [][WatchNext]_relayVars /\ WatchFairness
====
