------------------------------ MODULE MCPubsub ------------------------------
(* Pubsub with a few subscriptions. *)
EXTENDS Pubsub
=============================================================================
