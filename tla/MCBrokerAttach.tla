--------------------------- MODULE MCBrokerAttach ---------------------------
(* BrokerAttach with three connections and room for two handshakes. *)
EXTENDS BrokerAttach
=============================================================================
