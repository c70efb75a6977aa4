------------------------------- MODULE MCWalk -------------------------------
(***************************************************************************)
(* Walks on small graphs.  Meshes of three by three have corners, borders  *)
(* and a centre, even and odd columns.  A ring of the tori has an odd or   *)
(* an even number of nodes, and in each there is a way round both sides.   *)
(***************************************************************************)
EXTENDS Walk

Long == 2       \* packets that stretch over several buffers

Plain(alg, g) == [alg |-> alg, routing_table |-> "DIJKSTRA", strategy |-> "RANDOM", graph |-> g,
                  generator |-> "NONE", subnetwork |-> "NONE", depth |-> 1, length |-> Long]

OnMesh(alg, w, l) == [x |-> w, y |-> l] @@ Plain(alg, MeshGraph(w, l, 1))
On(table, g)      == [Plain("TABLE_BASED", g) EXCEPT !.routing_table = table]
Circulant(table, count, generators) == On(table, CirculantGraph(count, generators, 1))

MeshAlgorithms == {"MESH_XY", "MESH_XY_YX", "MESH_O1TURN", "MESH_WEST_FIRST",
                   "MESH_NORTH_LAST", "MESH_NEGATIVE_FIRST"}
MeshCases == {OnMesh(alg, 3, 3) : alg \in MeshAlgorithms} \cup {OnMesh("MESH_XY_YX", 3, 4)}

\* The adaptive channels of CLUE close to cycles, so its packets are single flits.
TorusCases ==
    {[x |-> w, y |-> 3, length |-> 1] @@ Plain("TORUS_CLUE", TorusGraph(w, 3, 1)) : w \in {3, 4}}

TreeOrMeshTables ==
    {On(table, MeshGraph(3, 3, 1)) : table \in {"MESH_XY", "UP_DOWN", "DIJKSTRA", "GREEDY_PROMOTION"}}
    \cup {On("UP_DOWN", TreeGraph(7, 2, 1)), On("DIJKSTRA", MeshGraph(3, 2, 2))}
    \cup {On("GREEDY_PROMOTION", g) :
             g \in {MeshGraph(3, 2, 1), TreeGraph(7, 2, 1), CirculantGraph(6, <<1>>, 1)}}
    \* A table written by hand: once round a ring of five.
    \cup {[rows |-> [n \in 0 .. 4 |-> [d \in 0 .. 4 |-> IF (d - n) % 5 \in {1, 2} THEN <<(n + 1) % 5>>
                                                                         ELSE <<(n - 1) % 5>>]]]
          @@ Circulant("IDS", 5, <<1>>)}

\* Circulants whose largest step is half the ring have two links between a pair.
Split(count, generators) ==
    [Circulant("DIJKSTRA", count, generators) EXCEPT !.strategy = "CIRCULANT_VIRTUAL_RING_SPLIT"]
RingTables ==
    {Split(n, <<1, s>>) : n \in {8, 9, 10}, s \in {3, 4}}
    \cup {Split(9, <<2, 3>>), Circulant("DIJKSTRA", 8, <<1, 4>>)}

CirculantTables ==
    {Circulant(table, n, <<1, s>>) :
        table \in {"CIRCULANT_CLOCKWISE", "CIRCULANT_ADAPTIVE"}, n \in {7, 8, 10}, s \in {2, 3}}
    \cup {Circulant("CIRCULANT_PAIR_EXCHANGE", 5, <<1, 2>>), Circulant("CIRCULANT_PAIR_EXCHANGE", 13, <<2, 3>>)}
    \cup {Circulant("CIRCULANT_MULTIPLICATIVE", 9, <<1, 3>>), Circulant("CIRCULANT_MULTIPLICATIVE", 8, <<1, 2, 4>>)}

\* Subnetworks.  The buffers are as small as the algorithm allows for its packets.
With(alg, g, generator, subnetwork, depth, length) ==
    [Plain(alg, g) EXCEPT !.generator = generator, !.subnetwork = subnetwork,
                          !.depth = depth, !.length = length]

Trees == {"TGEN_0", "TGEN_1", "TGEN_2", "TGEN_3", "TGEN_4", "TGEN_5"}
SubnetworkCases ==
    {With("FIXED_SUBNETWORK", MeshGraph(3, 3, 1), t, "PHYSICAL", 2, 2) : t \in Trees \cup {"TGEN_6"}}
    \cup {With("VIRTUAL_SUBNETWORK", CirculantGraph(7, <<1, 2>>, 1), t, "VIRTUAL", 1, 1) : t \in Trees}
    \cup {With("SUBNETWORK", MeshGraph(2, 2, 1), "TREE_RANDOM", "PHYSICAL", 1, 1),
          With("SUBNETWORK", MeshGraph(3, 2, 2), "TGEN_6", "PHYSICAL", 1, 1),
          With("FIT_SUBNETWORK", MeshGraph(3, 2, 1), "TGEN_4", "PHYSICAL", 3, 2),
          With("BYPASS", MeshGraph(3, 2, 1), "TGEN_3", "PHYSICAL", 7, 2),
          With("FIT_VIRTUAL_SUBNETWORK", MeshGraph(3, 2, 2), "TGEN_2", "VIRTUAL", 2, 2)}

AllCases == MeshCases \cup TorusCases \cup TreeOrMeshTables \cup RingTables \cup CirculantTables
            \cup SubnetworkCases

\* What the manual names and the code does not do.
OddEvenCases == {OnMesh("MESH_ODD_EVEN", 3, 3)}
=============================================================================
