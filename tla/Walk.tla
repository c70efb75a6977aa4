-------------------------------- MODULE Walk --------------------------------
(***************************************************************************)
(* The way of one packet through the network, under each routing           *)
(* algorithm, on the graphs it is meant for.  A step is the forwarding of  *)
(* the head flit by a router (Router::FindDestination, Router::Route) over *)
(* the wire that Network::InitBase has bound to the port, and its receipt  *)
(* (Relay::Receive).  What other packets do to this one is only that it    *)
(* may have to wait: that is what Deadlock is about.                       *)
(***************************************************************************)
EXTENDS Integers, FiniteSets, Subtrees

CONSTANT Cases      \* configurations: alg (routing_algorithm), routing_table, strategy
                    \* (selection_strategy), graph, generator (subtopology), subnetwork,
                    \* depth (of the buffers), length (of the packets), and x and y where
                    \* the algorithm measures a mesh or a torus

VARIABLES
    case,       \* the configuration
    net,        \* what Configuration makes of it: graph (network_graph), table, and sub and
                \* subtable (subgraph), which are empty without a subnetwork
    bound,      \* the relay that each relay is bound to
    h           \* the head flit with the router and the relay it is in, or Absent

vars == <<case, net, bound, h>>

Wires == INSTANCE Wiring WITH Adj <- net.graph
Mesh == INSTANCE MeshRouting WITH width <- case.x, height <- case.y, graph <- case.graph
Tables == INSTANCE Routing WITH RoutingAlgorithm <- case.alg, SelectionStrategy <- case.strategy,
    Table <- net.table, SubTable <- net.subtable, Size <- Cardinality(DOMAIN case.graph),
    Depth <- case.depth

Absent == [node |-> -1]
Nodes == DOMAIN case.graph

\* Configuration::ReadRoutingTableParams: the table that is loaded.
TableFor(c) ==
    CASE c.routing_table = "DIJKSTRA" -> LoadDijkstra(c.graph)
      [] c.routing_table = "UP_DOWN" -> LoadUpDown(c.graph)
      [] c.routing_table = "MESH_XY" -> LoadMeshXY(c.graph)
      [] c.routing_table = "CIRCULANT_PAIR_EXCHANGE" -> LoadCirculantPairExchange(c.graph)
      [] c.routing_table = "CIRCULANT_CLOCKWISE" -> LoadCirculantClockwise(c.graph)
      [] c.routing_table = "CIRCULANT_ADAPTIVE" -> LoadCirculantAdaptive(c.graph)
      [] c.routing_table = "CIRCULANT_MULTIPLICATIVE" -> LoadCirculantMultiplicative(c.graph)
      [] c.routing_table = "GREEDY_PROMOTION" -> LoadGreedyPromotion(c.graph)
      [] c.routing_table = "IDS" -> Custom(c.graph, c.rows, TRUE)

\* Configuration::ReadTopologyParams: a physical subnetwork has links of its own, a
\* virtual one uses those of the graph.  TREE_RANDOM leaves a choice.
Networks(c) ==
    IF c.generator = "NONE"
    THEN {[graph |-> c.graph, table |-> TableFor(c), sub |-> <<>>, subtable |-> <<>>]}
    ELSE {[graph    |-> IF c.subnetwork = "PHYSICAL" THEN Together(c.graph, sub) ELSE c.graph,
           table    |-> TableFor(c),
           sub      |-> sub,
           subtable |-> IF c.subnetwork = "PHYSICAL" THEN Promote(LoadDijkstra(sub), c.graph)
                        ELSE Adjust(LoadDijkstra(sub), sub, c.graph)]
             : sub \in Subgraphs(c.graph, c.generator)}

Init ==
    /\ case \in Cases
    /\ net \in Networks(case)
    /\ bound = Wires!Bound
    /\ h = Absent

----------------------------------------------------------------------------
\* What is offered when nothing but the connection con has room, and all of it:
\* an algorithm that looks at the free slots offers nothing more in any other
\* state of the buffers.
Offered(f, con) ==
    Tables!FindDestination(
        [node |-> f.node, port_in |-> f.port_in, port_out |-> f.port_out, vc |-> f.vc,
         src |-> f.src, dst |-> f.dst, len |-> case.length, local |-> Len(net.graph[f.node]) + 1],
        [c \in {con} |-> case.depth])

\* Where the packet may be sent, depending on what else is in the network.
Outputs(f) ==
    CASE case.alg = "MESH_XY"             -> Mesh!XY(f)
      [] case.alg = "MESH_XY_YX"          -> Mesh!XYYX(f)
      [] case.alg = "MESH_O1TURN"         -> Mesh!O1TURN(f)
      [] case.alg = "MESH_WEST_FIRST"     -> Mesh!WestFirst(f)
      [] case.alg = "MESH_NORTH_LAST"     -> Mesh!NorthLast(f)
      [] case.alg = "MESH_NEGATIVE_FIRST" -> Mesh!NegativeFirst(f)
      [] case.alg = "MESH_ODD_EVEN"       -> Mesh!OddEven(f)
      [] case.alg = "TORUS_CLUE"          -> Mesh!CLUE(f)
      [] OTHER -> (UNION {Offered(f, con) : con \in [port : DOMAIN net.graph[f.node], vc : {0, 1}]})
                  \ {[port |-> -1, vc |-> -1]}

\* Sent over a connection: the flit in the next router.
Sent(f, con) ==
    LET to == bound[<<f.node, con.port>>]
    IN  [f EXCEPT !.node = to[1], !.port_in = to[2], !.port_out = con.port, !.vc = con.vc]

\* A processor sends a packet to its router, on virtual channel 0.
Injected ==
    {[node |-> s, port_in |-> Len(net.graph[s]) + 1, port_out |-> -1, vc |-> 0, src |-> s, dst |-> d] :
        s, d \in Nodes}

OnItsWay(f) == f.node # f.dst

Inject ==
    /\ h = Absent
    /\ h' \in {f \in Injected : OnItsWay(f)}
    /\ UNCHANGED <<case, net, bound>>

Forward ==
    /\ h # Absent /\ OnItsWay(h)
    /\ \E con \in Outputs(h) : h' = Sent(h, con)
    /\ UNCHANGED <<case, net, bound>>

Next == Inject \/ Forward

Spec == Init /\ [][Next]_vars

\* A router that can forward the head flit does so in the next cycle.
FairSpec == Spec /\ WF_vars(Forward)

----------------------------------------------------------------------------
\* A packet is in a router of the network.  If it came over a link, it came by the
\* relay that is bound to the one it was sent by, and the link is one of the graph:
\* no relay was left unbound or bound twice (Network::InitBase).
TypeOK ==
    /\ case \in Cases
    /\ h # Absent =>
        /\ h.node \in Nodes
        /\ h.port_in \in 1 .. Len(net.graph[h.node]) + 1
        /\ h.vc \in {0, 1}
        /\ h.port_out # -1 =>
            LET from == bound[<<h.node, h.port_in>>]
            IN  from[2] = h.port_out /\ net.graph[from[1]][h.port_out] = h.node

\* A router has an output for every packet that is not where it is going, if only
\* the buffers behind it empty: Route never returns nothing for good, nor does it
\* ask for more room than a buffer has (the Route of every algorithm,
\* RoutingTable::Adjust and Promote).
SomeOutput == h # Absent /\ OnItsWay(h) => Outputs(h) # {}

\* The packet came over the subnetwork: by a relay of it, or on its virtual channel.
InSubnetwork(f) ==
    \/ case.subnetwork = "PHYSICAL"
       /\ f.port_in \in Len(case.graph[f.node]) + 1 .. Len(net.graph[f.node])
    \/ case.subnetwork = "VIRTUAL" /\ f.vc = 1

\* The subnetwork is a tree that spans the graph: it reaches every node and has not
\* a link too many, whichever way it was generated; its links are links of the
\* graph, and its ways to the root are shortest ways, but for TGEN_6 and
\* TREE_RANDOM (Graph::subgraph).
SpanningTree ==
    h = Absent /\ case.generator # "NONE" =>
        LET tree == net.sub
            links == UNION {{<<n, tree[n][p]>> : p \in DOMAIN tree[n]} : n \in Nodes}
            degrees == FoldLeft(LAMBDA sum, n : sum + Len(tree[n]), 0, NodeList(tree))
            levels(root) == Weights(tree, root) = Weights(case.graph, root)
        IN  /\ degrees = 2 * (NodeCount(tree) - 1)
            /\ \A n \in Nodes : Weights(tree, 0)[n] < Inf
            /\ \A l \in links : <<l[2], l[1]>> \in links
            /\ case.generator # "TGEN_6" =>
                  \A l \in links : l[2] \in Range(case.graph[l[1]])
            /\ case.generator \in {"TGEN_0", "TGEN_1", "TGEN_2", "TGEN_3", "TGEN_4"} => levels(0)
            /\ case.generator = "TGEN_5" => \E root \in Nodes : levels(root)

\* The ways reported for a table of shortest paths are all the shortest paths that
\* the graph has, in the same order (RoutingTable::GetPaths and LoadDijkstra against
\* Graph::get_simple_paths).
RoutesComplete ==
    h = Absent /\ case.routing_table = "DIJKSTRA" =>
        \A s \in Nodes : \A d \in Nodes \ {s} :
            GetPaths(net.table, case.graph, s, d) = SimplePaths(case.graph, s, d)

Detours == {"CIRCULANT_CLOCKWISE", "CIRCULANT_MULTIPLICATIVE"}

\* The algorithms that look for shortest paths take them: every hop brings the
\* packet one nearer to its destination, and a hop over the subnetwork does so along
\* the tree (the Route of the mesh and torus algorithms, RoutingTable::LoadDijkstra
\* and others, Adjust and Promote).
Minimal ==
    [][h # Absent /\ case.routing_table \notin Detours =>
          LET distance == Weights(IF InSubnetwork(h') THEN net.sub ELSE case.graph, h.dst)
          IN  distance[h'.node] = distance[h.node] - 1]_vars

\* With FIXED_SUBNETWORK a packet that has come over the subnetwork is sent on over
\* the subnetwork (RoutingFixedSubnetwork::Route), which takes that relays of the
\* subnetwork are bound to each other (Network::InitBase).
StaysInSubnetwork ==
    [][h # Absent /\ case.alg = "FIXED_SUBNETWORK" /\ InSubnetwork(h) => InSubnetwork(h')]_vars

\* Every packet arrives, by whichever of the outputs it is sent, unless it changes
\* between the network and the subnetwork for ever; so the algorithms that make
\* detours do not lead round in circles.
OnSubnetwork == h # Absent /\ InSubnetwork(h)
Arrives ==
    <>[]OnSubnetwork \/ <>[]~OnSubnetwork => ((h # Absent) ~> (h # Absent /\ h.node = h.dst))

----------------------------------------------------------------------------
\* The buffer the flit is in.
Buffer(f) == <<f.node, f.port_in, f.vc>>

\* The flits that can be on their way in the network.
Held ==
    LET step(fs) == fs \cup UNION {{Sent(f, con) : con \in Outputs(f)} : f \in {f \in fs : OnItsWay(f)}}
        held[fs \in SUBSET [node : Nodes, port_in : Nat, port_out : Int, vc : {0, 1},
                            src : Nodes, dst : Nodes]] ==
            LET more == step(fs) IN IF more = fs THEN fs ELSE held[more]
    IN  {f \in held[{f \in Injected : OnItsWay(f)}] : OnItsWay(f)}

\* The algorithms that forward a packet only if all of it fits into the next buffer.
Whole == {"FIXED_SUBNETWORK", "FIT_SUBNETWORK", "BYPASS", "FIT_VIRTUAL_SUBNETWORK"}

\* The flits that can be in front of full buffers for ever: the greatest set in
\* which each waits for full buffers.  A head flit waits only if all it could be
\* sent to are full.  In packets longer than a flit it may be any other flit,
\* which has to follow its head into one buffer, where the head may stand behind
\* another packet and not be asked for its outputs.
Deadlock ==
    LET next == [f \in Held |-> {Buffer(Sent(f, con)) : con \in Outputs(f)}]
        waits(f, full) == IF case.length = 1 \/ case.alg \in Whole
                          THEN next[f] \subseteq full ELSE next[f] \cap full # {}
        stuck[fs \in SUBSET Held] ==
            LET full == {Buffer(f) : f \in fs}
                less == {f \in fs : waits(f, full)}
            IN  IF less = fs THEN fs ELSE stuck[less]
    IN  stuck[Held]

\* Restricted turns, two virtual channels or the tree of a subnetwork are meant to
\* keep packets from deadlock; tables of shortest paths are not.
DeadlockFree ==
    IF case.alg # "TABLE_BASED" THEN case.alg # "MESH_ODD_EVEN"
    ELSE \/ case.routing_table \in {"MESH_XY", "UP_DOWN"}
         \/ case.strategy = "CIRCULANT_VIRTUAL_RING_SPLIT"

\* Packets cannot fill buffers so that each of them waits for a buffer that
\* another one holds, with the algorithms that restrict turns, change virtual
\* channels or fall back on a tree to prevent it.
NoCyclicWait == h = Absent /\ DeadlockFree => Deadlock = {}
=============================================================================
