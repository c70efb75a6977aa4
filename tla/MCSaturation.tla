---------------------------- MODULE MCSaturation ----------------------------
(***************************************************************************)
(* The corner, a border and the centre of a mesh of three by three:        *)
(* routers of three, four and five relays.                                 *)
(***************************************************************************)
EXTENDS Saturation, Topologies

MeshAdj == MeshGraph(3, 3, 1)
NoTable == <<>>         \* packets for the router itself are not routed
RoundRobin == <<>>      \* no UpdateSequence
=============================================================================
