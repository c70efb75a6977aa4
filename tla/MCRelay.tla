------------------------------ MODULE MCRelay ------------------------------
(***************************************************************************)
(* One link between two relays, model-checked.                             *)
(***************************************************************************)
EXTENDS Relay, TLC

CONSTANTS a, b, d1, d2

LinkPeer == (a :> b) @@ (b :> a)
=============================================================================
