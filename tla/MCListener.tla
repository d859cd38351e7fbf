----------------------------- MODULE MCListener -----------------------------
(***************************************************************************)
(* Instances of the order book with a listener.                            *)
(***************************************************************************)
EXTENDS Listener, MCOrderBook
=============================================================================
