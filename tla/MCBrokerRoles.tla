---------------------------- MODULE MCBrokerRoles ----------------------------
(* BrokerRoles with two slots for every role and two faults. *)
EXTENDS BrokerRoles
=============================================================================
