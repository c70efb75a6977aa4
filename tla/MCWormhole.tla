----------------------------- MODULE MCWormhole -----------------------------
(***************************************************************************)
(* Wormhole switching on five channels: the local inputs i1 and i2 of one  *)
(* router, its output e1 to a processor, and its output m to a second      *)
(* router, whose processor reads e2.                                       *)
(***************************************************************************)
EXTENDS Wormhole, TLC

CONSTANTS i1, i2, m, e1, e2

TwoRouters == (i1 :> {m, e1}) @@ (i2 :> {m, e1}) @@ (m :> {e2}) @@ (e1 :> {}) @@ (e2 :> {})

\* Two packets of two flits.
TwoPackets == [pkt : {1, 2}, seq : {0, 1}, len : {2}]
=============================================================================
