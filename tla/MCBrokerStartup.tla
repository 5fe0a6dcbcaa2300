--------------------------- MODULE MCBrokerStartup ---------------------------
(***************************************************************************)
(* BrokerStartup on small instances.                                       *)
(***************************************************************************)
EXTENDS BrokerStartup
=============================================================================
