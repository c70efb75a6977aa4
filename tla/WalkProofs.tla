----------------------------- MODULE WalkProofs -----------------------------
(***************************************************************************)
(* The walk of a packet, on networks of every size.                        *)
(*                                                                         *)
(* On a mesh, MeshInv says where the packet can be and that it keeps to    *)
(* the turns of its algorithm (MeshProofs); that no buffers wait for each  *)
(* other in a circle follows from an order of the buffers in which every   *)
(* hop goes down.  With a table, TableInv says that it is Dijkstra's, which*)
(* holds the distances (GraphProofs), so each port leads one nearer.  With *)
(* a physical subnetwork besides, PhysicalInv says that its relays are     *)
(* bound to each other and its table names its ports; when it is a tree    *)
(* (GraphProofs), a packet can always leave by it, and on it every hop     *)
(* goes down in an order of its buffers.                                   *)
(***************************************************************************)
EXTENDS Walk, GraphProofs

\* What is proved about meshes and about the binding of relays.
MP == INSTANCE MeshProofs WITH width <- case.x, height <- case.y, graph <- case.graph
WP == INSTANCE WiringProofs WITH Adj <- net.graph

MeshAlgs == {"MESH_XY", "MESH_XY_YX", "MESH_O1TURN", "MESH_WEST_FIRST",
             "MESH_NORTH_LAST", "MESH_NEGATIVE_FIRST"}

\* A configuration with one of the algorithms that restrict turns, on a mesh of any
\* size whose neighbours are joined by any number of channels.
IsMeshCase(c) ==
    /\ c.alg \in MeshAlgs /\ c.generator = "NONE" /\ c.subnetwork = "NONE"
    /\ c.x \in Nat /\ c.x > 0 /\ c.y \in Nat /\ c.y > 0
    /\ \E k \in Nat : k > 0 /\ c.graph = MeshGraph(c.x, c.y, k)

\* The two descriptions of the mesh say the same.
LEMMA SameGraph == \A w, l, k : MP!MeshGraph(w, l, k) = MeshGraph(w, l, k)
BY DEF MP!MeshGraph, MeshGraph, MP!Channels, Channels

LEMMA IsMeshThen == IsMeshCase(case) => MP!IsMesh /\ case.alg \in MP!MeshAlgorithms
BY SameGraph DEF IsMeshCase, MP!IsMesh, MeshAlgs, MP!MeshAlgorithms

LEMMA SameOutputs ==
  ASSUME IsMeshCase(case), NEW f
  PROVE  Outputs(f) = MP!Offers(case.alg, f)
<1>1. \A id : Mesh!X(id) = MP!X(id) /\ Mesh!Y(id) = MP!Y(id)
  BY DEF Mesh!X, MP!X, Mesh!Y, MP!Y
<1>2. Mesh!Dx(f) = MP!Dx(f) /\ Mesh!Dy(f) = MP!Dy(f)
  BY <1>1 DEF Mesh!Dx, MP!Dx, Mesh!Dy, MP!Dy
<1>3. \A sx, sy, vc : Mesh!Step(f, sx, sy, vc) = MP!Step(f, sx, sy, vc)
  BY DEF Mesh!Step, MP!Step, Mesh!IDFromXY, MP!IDFromXY, Mesh!LinksTo, MP!LinksTo,
         Mesh!X, MP!X, Mesh!Y, MP!Y
<1>4. \A vc : Mesh!AlongX(f, vc) = MP!AlongX(f, vc) /\ Mesh!AlongY(f, vc) = MP!AlongY(f, vc)
  BY <1>2, <1>3 DEF Mesh!AlongX, MP!AlongX, Mesh!AlongY, MP!AlongY, Mesh!Sign, MP!Sign
<1>5. \A vc : Mesh!XThenY(f, vc) = MP!XThenY(f, vc) /\ Mesh!YThenX(f, vc) = MP!YThenX(f, vc)
  BY <1>2, <1>4 DEF Mesh!XThenY, MP!XThenY, Mesh!YThenX, MP!YThenX
<1>6. Mesh!XY(f) = MP!XY(f)
  BY <1>5 DEF Mesh!XY, MP!XY
<1>7. Mesh!XYYX(f) = MP!XYYX(f)
  BY <1>1, <1>5 DEF Mesh!XYYX, MP!XYYX
<1>8. Mesh!O1TURN(f) = MP!O1TURN(f)
  BY <1>5, Zenon DEF Mesh!O1TURN, MP!O1TURN
<1>9. Mesh!WestFirst(f) = MP!WestFirst(f)
  BY <1>2, <1>4, Zenon DEF Mesh!WestFirst, MP!WestFirst
<1>10. Mesh!NorthLast(f) = MP!NorthLast(f)
  BY <1>2, <1>4 DEF Mesh!NorthLast, MP!NorthLast
<1>11. Mesh!NegativeFirst(f) = MP!NegativeFirst(f)
  BY <1>2, <1>4, Zenon DEF Mesh!NegativeFirst, MP!NegativeFirst
<1>12. case.alg \in MeshAlgs
  BY DEF IsMeshCase
<1> QED BY <1>6, <1>7, <1>8, <1>9, <1>10, <1>11, <1>12 DEF Outputs, MP!Offers, MeshAlgs
LEMMA SameSets == \A S : /\ WP!IsFiniteSet(S) = IsFiniteSet(S) /\ WP!Cardinality(S) = Cardinality(S)
                         /\ MP!Cardinality(S) = Cardinality(S)
BY Zenon DEF WP!IsFiniteSet, IsFiniteSet, WP!Cardinality, MP!Cardinality, Cardinality

LEMMA MeshIsGraph ==
  ASSUME IsMeshCase(case)
  PROVE  Nodes = MP!Nodes /\ IsGraph(case.graph)
<1>1. MP!IsMesh
  BY IsMeshThen
<1>2. Nodes = 0 .. case.x * case.y - 1 /\ Nodes = MP!Nodes
  BY DEF IsMeshCase, Nodes, MP!Nodes, MeshGraph
<1>3. case.x * case.y \in Nat
  BY DEF IsMeshCase
<1>4. IsFiniteSet(Nodes) /\ Cardinality(Nodes) = case.x * case.y
  <2>1. 0 \in Int /\ case.x * case.y - 1 \in Int
    BY <1>3
  <2>2. IsFiniteSet(0 .. case.x * case.y - 1)
        /\ Cardinality(0 .. case.x * case.y - 1) = IF 0 > case.x * case.y - 1 THEN 0
                                                  ELSE (case.x * case.y - 1) - 0 + 1
    BY <2>1, FS_Interval
  <2>3. Cardinality(0 .. case.x * case.y - 1) = case.x * case.y
    BY <1>3, <2>2
  <2> QED BY <1>2, <2>2, <2>3
<1>5. \A n \in Nodes : case.graph[n] \in Seq(Nodes)
  BY <1>1, <1>2, MP!MeshLinks
<1>6. ASSUME NEW n \in Nodes, NEW m \in Nodes
      PROVE  Cardinality(LinksTo(case.graph, n, m)) = Cardinality(LinksTo(case.graph, m, n))
  <2>1. Cardinality(MP!LinksTo(case.graph, n, m)) = Cardinality(MP!LinksTo(case.graph, m, n))
    BY <1>1, <1>2, SameSets, MP!LinksBalanced
  <2> QED BY <2>1 DEF LinksTo, MP!LinksTo
<1> QED BY <1>2, <1>4, <1>5, <1>6 DEF IsGraph, Nodes

\* InitBase wires such a graph completely.
LEMMA GraphWired ==
  ASSUME IsGraph(net.graph)
  PROVE  WP!WiringAssumption /\ WP!Balanced
<1>1. WP!Nodes = DOMAIN net.graph
  BY DEF WP!Nodes
<1>2. WP!WiringAssumption
  BY <1>1, SameSets DEF WP!WiringAssumption, IsGraph
<1>3. \A n, m : WP!Between(n, m) = LinksTo(net.graph, n, m)
  BY DEF WP!Between, LinksTo
<1>4. WP!Balanced
  BY <1>1, <1>3, SameSets DEF WP!Balanced, IsGraph
<1> QED BY <1>2, <1>4

LEMMA SameBound == WP!Bound = Wires!Bound
<1>1. WP!Nodes = Wires!Nodes /\ WP!Cardinality(WP!Nodes) = Wires!Cardinality(Wires!Nodes)
  BY Zenon DEF WP!Nodes, Wires!Nodes, WP!Cardinality, Wires!Cardinality, WP!IsFiniteSet, Wires!IsFiniteSet
<1>2. \A n : WP!LocalPort(n) = Wires!LocalPort(n)
  BY DEF WP!LocalPort, Wires!LocalPort
<1>3. WP!LinkRelays = Wires!LinkRelays /\ WP!Relays = Wires!Relays
  BY <1>1, <1>2 DEF WP!LinkRelays, Wires!LinkRelays, WP!Relays, Wires!Relays
<1>4. WP!Visits = Wires!Visits
  <2> DEFINE V(s, n) == s \o [p \in DOMAIN net.graph[n] |-> <<n, p>>]
  <2>1. ASSUME NEW q PROVE WP!FoldLeft(V, <<>>, q) = Wires!FoldLeft(V, <<>>, q)
    BY Zenon DEF WP!FoldLeft, Wires!FoldLeft, WP!MapThenFoldSet, Wires!MapThenFoldSet, WP!Max, Wires!Max
  <2>2. \A q : WP!FoldLeft(V, <<>>, q) = Wires!FoldLeft(V, <<>>, q)
    BY <2>1
  <2> DEFINE o == [i \in 1 .. WP!Cardinality(WP!Nodes) |-> i - 1]
             u == [i \in 1 .. Wires!Cardinality(Wires!Nodes) |-> i - 1]
  <2>3. o = u
    BY <1>1
  <2>4. WP!Visits = WP!FoldLeft(V, <<>>, o) /\ Wires!Visits = Wires!FoldLeft(V, <<>>, u)
    BY DEF WP!Visits, Wires!Visits
  <2> HIDE DEF o, u
  <2> QED BY <2>2, <2>3, <2>4
<1>5. WP!LinkBindings = Wires!LinkBindings
  <2>1. ASSUME NEW q PROVE WP!FoldLeft(WP!BindNext, <<>>, q) = Wires!FoldLeft(Wires!BindNext, <<>>, q)
    BY Zenon DEF WP!FoldLeft, Wires!FoldLeft,
         WP!MapThenFoldSet, Wires!MapThenFoldSet, WP!Max, Wires!Max, WP!BindNext, Wires!BindNext,
         WP!With, Wires!With, WP!Min, Wires!Min
  <2> QED BY <1>4, <2>1 DEF WP!LinkBindings, Wires!LinkBindings
<1> QED BY <1>2, <1>3, <1>5, Zenon DEF WP!Bound, Wires!Bound

\* The relay of every link is bound to a relay of the neighbour, which is bound to it.
Linked ==
    \A n \in Nodes : \A p \in DOMAIN net.graph[n] :
        LET to == bound[<<n, p>>]
        IN  /\ to[1] = net.graph[n][p] /\ to[1] \in Nodes
            /\ to[2] \in DOMAIN net.graph[to[1]] /\ net.graph[to[1]][to[2]] = n
            /\ bound[<<to[1], to[2]>>] = <<n, p>>

\* The network is wired from an undirected graph on the nodes.
Laid == IsGraph(net.graph) /\ DOMAIN net.graph = Nodes /\ Linked

LEMMA GraphLinked ==
  ASSUME IsGraph(net.graph), DOMAIN net.graph = Nodes, bound = Wires!Bound
  PROVE  Laid
<1>1. /\ Nodes = WP!Nodes /\ WP!WiringAssumption /\ WP!Balanced
  BY GraphWired DEF WP!Nodes
<1>2. \A r \in WP!Relays : /\ bound[r] \in WP!Relays /\ bound[bound[r]] = r
                           /\ r \in WP!LinkRelays => bound[r] \in WP!LinkRelays /\ bound[r][1] = net.graph[r[1]][r[2]]
  BY <1>1, SameBound, WP!BoundComplete, WP!BoundSymmetric
<1>3. \A r \in WP!LinkRelays : /\ r[1] \in Nodes /\ r[2] \in DOMAIN net.graph[r[1]] /\ r = <<r[1], r[2]>>
                               /\ r \in WP!Relays
  BY <1>1, WP!NodesAndLinks DEF WP!Relays
<1>4. ASSUME NEW n \in Nodes, NEW p \in DOMAIN net.graph[n]
      PROVE  LET to == bound[<<n, p>>]
             IN  /\ to[1] = net.graph[n][p] /\ to[1] \in Nodes
                 /\ to[2] \in DOMAIN net.graph[to[1]] /\ net.graph[to[1]][to[2]] = n
                 /\ bound[<<to[1], to[2]>>] = <<n, p>>
  <2> DEFINE r == <<n, p>>
             to == bound[r]
  <2>1. r \in WP!LinkRelays /\ r[1] = n /\ r[2] = p
    BY <1>1, WP!NodesAndLinks
  <2> HIDE DEF r
  <2>2. to \in WP!LinkRelays /\ to[1] = net.graph[n][p] /\ bound[to] = r
    BY <1>2, <1>3, <2>1
  <2> HIDE DEF to
  <2>3. to[1] \in Nodes /\ to[2] \in DOMAIN net.graph[to[1]] /\ to = <<to[1], to[2]>>
    BY <1>3, <2>2
  <2>4. bound[to][1] = net.graph[to[1]][to[2]]
    BY <1>2, <1>3, <2>2
  <2> QED BY <2>1, <2>2, <2>3, <2>4 DEF r, to
<1> QED BY <1>4 DEF Laid, Linked
-----------------------------------------------------------------------------
Flits == [node : Nodes, port_in : Nat, port_out : Int, vc : {0, 1}, src : Nodes, dst : Nodes]

\* Where a flit is: in its source, in the relay of the processor, or in a relay that
\* is bound to the one it was sent by.
Located(f) ==
    /\ f \in Flits
    /\ IF f.port_out = -1
       THEN f.port_in = Len(net.graph[f.node]) + 1 /\ f.node = f.src /\ f.vc = 0
       ELSE /\ f.port_in \in DOMAIN net.graph[f.node]
            /\ bound[<<f.node, f.port_in>>][2] = f.port_out
            /\ net.graph[bound[<<f.node, f.port_in>>][1]][f.port_out] = f.node

\* A flit that is sent over a link goes to the neighbour, into a relay that points
\* back.
LEMMA SentLocated ==
  ASSUME Laid, NEW f \in Flits, NEW con, con.port \in DOMAIN net.graph[f.node], con.vc \in {0, 1}
  PROVE  /\ Located(Sent(f, con)) /\ Sent(f, con) \in Flits
         /\ Sent(f, con).node = net.graph[f.node][con.port] /\ Sent(f, con).vc = con.vc
         /\ Sent(f, con).src = f.src /\ Sent(f, con).dst = f.dst
         /\ Sent(f, con).port_in \in DOMAIN net.graph[Sent(f, con).node]
         /\ net.graph[Sent(f, con).node][Sent(f, con).port_in] = f.node
<1> DEFINE to == bound[<<f.node, con.port>>]
           g == Sent(f, con)
<1>1. f.node \in Nodes
  BY DEF Flits
<1>2. /\ to[1] = net.graph[f.node][con.port] /\ to[1] \in Nodes
      /\ to[2] \in DOMAIN net.graph[to[1]] /\ net.graph[to[1]][to[2]] = f.node
      /\ bound[<<to[1], to[2]>>] = <<f.node, con.port>>
  BY <1>1 DEF Laid, Linked
<1>3. \A n \in Nodes : DOMAIN net.graph[n] \subseteq Nat \ {0}
  BY DEF Laid, IsGraph
<1>4. to[2] \in Nat /\ con.port \in Int /\ con.port # -1
  BY <1>1, <1>2, <1>3
<1>5. g = [f EXCEPT !.node = to[1], !.port_in = to[2], !.port_out = con.port, !.vc = con.vc]
  BY DEF Sent
<1> HIDE DEF to, g
<1>6. /\ g \in Flits /\ g.node = to[1] /\ g.port_in = to[2] /\ g.port_out = con.port
      /\ g.vc = con.vc /\ g.src = f.src /\ g.dst = f.dst
  BY <1>2, <1>4, <1>5 DEF Flits
<1>7. Located(g)
  BY <1>2, <1>4, <1>6 DEF Located
<1> QED BY <1>2, <1>6, <1>7 DEF g
LEMMA InjectedLocated ==
  ASSUME Laid, NEW f \in Injected
  PROVE  Located(f) /\ f.port_out = -1
<1>1. PICK s \in Nodes, d \in Nodes :
        f = [node |-> s, port_in |-> Len(net.graph[s]) + 1, port_out |-> -1, vc |-> 0, src |-> s, dst |-> d]
  BY DEF Injected
<1>2. Len(net.graph[s]) \in Nat
  BY DEF Laid, IsGraph
<1> QED BY <1>1, <1>2 DEF Located, Flits

LEMMA LaidNext ==
  ASSUME UNCHANGED <<case, net, bound>>, Laid
  PROVE  Laid' /\ \A g : Located(g) /\ h' = g => Located(h)'
BY DEF Laid, Linked, Located, Flits, Nodes, IsGraph

\* It has the graph's links and no others.
Wired == IsGraph(case.graph) /\ net.graph = case.graph /\ Linked

LEMMA WiredLaid == Wired => Laid
BY DEF Wired, Laid, Nodes

LEMMA WiredNext ==
  ASSUME UNCHANGED <<case, net, bound>>, Wired
  PROVE  Wired' /\ \A g : Located(g) /\ h' = g => Located(h)'
BY DEF Wired, Linked, Located, Flits, Nodes, IsGraph
-----------------------------------------------------------------------------
\* Meshes.
MeshInv == IsMeshCase(case) => Wired /\ (h # Absent => Located(h) /\ MP!Good(case.alg, h))

\* What is injected is on its way.
LEMMA InjectedGood ==
  ASSUME IsMeshCase(case), Wired, NEW f \in Injected
  PROVE  Located(f) /\ MP!Good(case.alg, f)
<1>1. Located(f) /\ f.port_out = -1
  BY InjectedLocated, WiredLaid
<1>2. Len(net.graph[f.node]) \in Nat /\ DOMAIN net.graph[f.node] = 1 .. Len(net.graph[f.node])
  BY <1>1 DEF Wired, IsGraph, Nodes, Located, Flits
<1>3. f.port_in \notin DOMAIN case.graph[f.node] /\ f.vc = 0 /\ f.node = f.src
  BY <1>1, <1>2 DEF Wired, Located
<1>4. f.node \in MP!Nodes /\ f.src \in MP!Nodes /\ f.dst \in MP!Nodes
  BY <1>1, MeshIsGraph DEF Located, Flits
<1> QED BY <1>1, <1>3, <1>4 DEF MP!Good, MP!Onward, MP!Local

\* Each hop that the algorithm may offer keeps a flit on its way, brings it nearer
\* and descends in the order of the buffers; and there is such a hop.
LEMMA MeshHop ==
  ASSUME IsMeshCase(case), Wired, NEW f, Located(f), MP!Good(case.alg, f), OnItsWay(f)
  PROVE  /\ Outputs(f) # {}
         /\ \A con \in Outputs(f) :
               /\ Located(Sent(f, con)) /\ MP!Good(case.alg, Sent(f, con)) /\ ~MP!Local(Sent(f, con))
               /\ MP!Gap(Sent(f, con).node, Sent(f, con).dst) = MP!Gap(f.node, f.dst) - 1
               /\ MP!RankOf(case.alg, Sent(f, con)) \in Nat /\ MP!RankOf(case.alg, f) \in Nat
               /\ MP!RankOf(case.alg, Sent(f, con)) < MP!RankOf(case.alg, f)
<1>1. MP!IsMesh /\ case.alg \in MP!MeshAlgorithms /\ Outputs(f) = MP!Offers(case.alg, f)
      /\ f \in Flits /\ Nodes = MP!Nodes /\ net.graph = case.graph
  BY IsMeshThen, SameOutputs, MeshIsGraph DEF Located, Wired
<1>2. MP!Choice(case.alg, f)
  BY <1>1, MP!HasChoice DEF OnItsWay
<1>3. ASSUME NEW con \in Outputs(f)
      PROVE  /\ Located(Sent(f, con)) /\ MP!Good(case.alg, Sent(f, con)) /\ ~MP!Local(Sent(f, con))
             /\ MP!Gap(Sent(f, con).node, Sent(f, con).dst) = MP!Gap(f.node, f.dst) - 1
             /\ MP!RankOf(case.alg, Sent(f, con)) \in Nat /\ MP!RankOf(case.alg, f) \in Nat
             /\ MP!RankOf(case.alg, Sent(f, con)) < MP!RankOf(case.alg, f)
  <2>1. PICK sx \in Int, sy \in Int : MP!Allowed(case.alg, f, con, sx, sy)
    BY <1>1, <1>2 DEF MP!Choice, MP!AllAllowed
  <2>2. con.port \in DOMAIN net.graph[f.node] /\ con.vc \in {0, 1}
    BY <1>1, <2>1 DEF MP!Allowed, MP!Leads
  <2> DEFINE g == Sent(f, con)
  <2>3. /\ Located(g)
        /\ g.node = net.graph[f.node][con.port] /\ g.vc = con.vc
        /\ g.src = f.src /\ g.dst = f.dst
        /\ g.port_in \in DOMAIN net.graph[g.node]
        /\ net.graph[g.node][g.port_in] = f.node
    BY <1>1, <2>2, SentLocated, WiredLaid
  <2> HIDE DEF g
  <2>4. MP!Becomes(f, con, g)
    BY <1>1, <2>3 DEF MP!Becomes
  <2>5. /\ MP!Good(case.alg, g) /\ ~MP!Local(g) /\ MP!Gap(g.node, g.dst) = MP!Gap(f.node, f.dst) - 1
        /\ MP!RankOf(case.alg, g) \in Nat /\ MP!RankOf(case.alg, f) \in Nat
        /\ MP!RankOf(case.alg, g) < MP!RankOf(case.alg, f)
    BY <1>1, <2>1, <2>4, MP!HopGood
  <2> QED BY <2>3, <2>5 DEF g
<1> QED BY <1>1, <1>2, <1>3 DEF MP!Choice

LEMMA GoodNext ==
  ASSUME case' = case, NEW g, MP!Good(case.alg, g), h' = g
  PROVE  MP!Good(case.alg, h)'
BY DEF MP!Good, MP!Onward, MP!Came, MP!Gap, MP!X, MP!Y, MP!Abs, MP!Dx, MP!Dy, MP!Sx, MP!Sy, MP!Keeps,
       MP!Local, MP!Nodes

LEMMA MeshInvHolds == Spec => []MeshInv
<1>1. Init => MeshInv
  <2> SUFFICES ASSUME Init, IsMeshCase(case) PROVE Wired /\ h = Absent
    BY DEF MeshInv
  <2>1. net.graph = case.graph
    BY DEF Init, IsMeshCase, Networks
  <2> QED BY <2>1, MeshIsGraph, GraphLinked DEF Init, Wired, Laid, Nodes
<1>2. MeshInv /\ [Next]_vars => MeshInv'
  <2> SUFFICES ASSUME MeshInv, [Next]_vars, IsMeshCase(case)'
               PROVE  Wired' /\ ((h # Absent)' => Located(h)' /\ MP!Good(case.alg, h)')
    BY DEF MeshInv
  <2>1. UNCHANGED <<case, net, bound>>
    BY DEF Next, Inject, Forward, vars
  <2>2. IsMeshCase(case) /\ Wired /\ (h # Absent => Located(h) /\ MP!Good(case.alg, h))
    BY <2>1 DEF MeshInv
  <2>3. CASE Inject
    <3>1. h' \in Injected
      BY <2>3 DEF Inject
    <3> QED BY <2>1, <2>2, <3>1, InjectedGood, GoodNext, WiredNext
  <2>4. CASE Forward
    <3>1. PICK con \in Outputs(h) : h' = Sent(h, con)
      BY <2>4 DEF Forward
    <3>2. Located(h) /\ MP!Good(case.alg, h) /\ OnItsWay(h)
      BY <2>2, <2>4 DEF Forward
    <3> QED BY <2>1, <2>2, <3>1, <3>2, MeshHop, GoodNext, WiredNext
  <2>5. CASE UNCHANGED vars
    <3>1. h' = h
      BY <2>5 DEF vars
    <3> QED BY <2>1, <2>2, <3>1, GoodNext, WiredNext
  <2> QED BY <2>3, <2>4, <2>5 DEF Next
<1> QED BY <1>1, <1>2, PTL DEF Spec

\* A packet that is where it should be satisfies the type invariant.
LEMMA LocatedType ==
  ASSUME case \in Cases, Laid, h # Absent => Located(h)
  PROVE  TypeOK
<1>1. ASSUME h # Absent, h.port_out # -1
      PROVE  LET from == bound[<<h.node, h.port_in>>]
             IN  from[2] = h.port_out /\ net.graph[from[1]][h.port_out] = h.node
  BY <1>1 DEF Located
<1>2. h # Absent => h.node \in Nodes /\ h.vc \in {0, 1}
  BY DEF Located, Flits
<1>3. h # Absent => h.port_in \in 1 .. Len(net.graph[h.node]) + 1
  <2> SUFFICES ASSUME h # Absent PROVE h.port_in \in 1 .. Len(net.graph[h.node]) + 1
    OBVIOUS
  <2>1. Len(net.graph[h.node]) \in Nat /\ DOMAIN net.graph[h.node] = 1 .. Len(net.graph[h.node])
    BY <1>2 DEF Laid, IsGraph
  <2> QED BY <2>1 DEF Located
<1> QED BY <1>1, <1>2, <1>3 DEF TypeOK

\* The configuration does not change.
LEMMA CaseKept == Spec => [](case \in Cases)
<1>1. Init => case \in Cases
  BY DEF Init
<1>2. case \in Cases /\ [Next]_vars => (case \in Cases)'
  BY DEF Next, Inject, Forward, vars
<1> QED BY <1>1, <1>2, PTL DEF Spec

\* On meshes of every size and for each of the algorithms that restrict turns, a packet
\* is in a router of the network, in the relay that is bound to the one it was sent by
\* (the Route of RoutingMeshXY, MeshXYYX, MeshO1TURN, MeshWestFirst, MeshNorthLast and
\* MeshNegativeFirst, Network::InitBase).
THEOREM MeshTyped == Spec => [](IsMeshCase(case) => TypeOK)
<1>1. MeshInv /\ case \in Cases => (IsMeshCase(case) => TypeOK)
  BY LocatedType, WiredLaid DEF MeshInv
<1> QED BY <1>1, CaseKept, MeshInvHolds, PTL

\* There, Route always finds an output for a packet on its way.
THEOREM MeshOutput == Spec => [](IsMeshCase(case) => SomeOutput)
<1>1. MeshInv => (IsMeshCase(case) => SomeOutput)
  BY MeshHop DEF MeshInv, SomeOutput
<1> QED BY <1>1, MeshInvHolds, PTL
-----------------------------------------------------------------------------
\* Held and Deadlock are the fixed points of two recursive functions.
Step == [fs \in SUBSET Flits |->
            fs \cup UNION {{Sent(f, con) : con \in Outputs(f)} : f \in {f \in fs : OnItsWay(f)}}]

LEMMA HeldIs ==
  Held = {f \in (CHOOSE k : IsIteration(k, Flits, Step))[{f \in Injected : OnItsWay(f)}] : OnItsWay(f)}
<1> DEFINE step(fs) == fs \cup UNION {{Sent(f, con) : con \in Outputs(f)} : f \in {f \in fs : OnItsWay(f)}}
           Eq(k) == k = [fs \in SUBSET Flits |-> LET more == step(fs) IN IF more = fs THEN fs ELSE k[more]]
<1>1. \A k : Eq(k) <=> IsIteration(k, Flits, Step)
  <2>1. \A fs \in SUBSET Flits : Step[fs] = step(fs)
    BY DEF Step
  <2> HIDE DEF step
  <2> QED BY <2>1 DEF IsIteration
<1>2. Held = {f \in (CHOOSE k : Eq(k))[{f \in Injected : OnItsWay(f)}] : OnItsWay(f)}
  BY DEF Held, Flits
<1> HIDE DEF Eq
<1>3. (CHOOSE k : Eq(k)) = (CHOOSE k : IsIteration(k, Flits, Step))
  BY <1>1
<1> QED BY <1>2, <1>3

\* There are finitely many places and ways for a flit.
LEMMA LocatedFinite ==
  ASSUME Laid
  PROVE  IsFiniteSet({f \in Flits : Located(f)})
<1> DEFINE R == {f \in Flits : Located(f)}
           ports == [n \in Nodes |-> 1 .. Len(net.graph[n]) + 1]
           U == UNION {ports[n] : n \in Nodes}
           P == (Nodes \X U) \X ({0, 1} \X (Nodes \X Nodes))
           code == [f \in R |-> <<<<f.node, f.port_in>>, <<f.vc, <<f.src, f.dst>>>>>>]
<1>1. IsFiniteSet(Nodes) /\ DOMAIN net.graph = Nodes
  BY DEF Laid, IsGraph
<1>2. \A n \in Nodes : Len(net.graph[n]) \in Nat /\ DOMAIN net.graph[n] = 1 .. Len(net.graph[n])
  BY DEF Laid, IsGraph
<1>3. IsFiniteSet(U)
  <2> DEFINE S == {ports[n] : n \in Nodes}
  <2>1. ports \in Surjection(Nodes, S)
    BY DEF Surjection
  <2>2. IsFiniteSet(S)
    <3> HIDE DEF ports, S
    <3> QED BY <1>1, <2>1, FS_Surjection
  <2>3. \A n \in Nodes : IsFiniteSet(1 .. Len(net.graph[n]) + 1)
    BY <1>2, FS_Interval
  <2>4. \A T \in S : IsFiniteSet(T)
    BY <2>3
  <2> HIDE DEF S
  <2> QED BY <2>2, <2>4, FS_UNION DEF S
<1>4. \A n \in Nodes : 1 .. Len(net.graph[n]) + 1 \subseteq U
  OBVIOUS
<1> HIDE DEF U, ports
<1>5. IsFiniteSet(P)
  <2>1. IsFiniteSet({0, 1})
    <3>1. IsFiniteSet({0})
      BY FS_Singleton
    <3>2. IsFiniteSet({0} \cup {1})
      BY <3>1, FS_AddElement
    <3>3. {0} \cup {1} = {0, 1}
      OBVIOUS
    <3> QED BY <3>2, <3>3
  <2>2. IsFiniteSet(Nodes \X U) /\ IsFiniteSet(Nodes \X Nodes)
    BY <1>1, <1>3, FS_Product
  <2>3. IsFiniteSet({0, 1} \X (Nodes \X Nodes))
    BY <2>1, <2>2, FS_Product
  <2> QED BY <2>2, <2>3, FS_Product
<1>6. ASSUME NEW f \in R
      PROVE  /\ f.node \in Nodes /\ f.vc \in {0, 1} /\ f.src \in Nodes /\ f.dst \in Nodes /\ f.port_in \in U
             /\ f = [node |-> f.node, port_in |-> f.port_in, port_out |-> f.port_out, vc |-> f.vc,
                     src |-> f.src, dst |-> f.dst]
             /\ f.port_out = IF f.port_in = Len(net.graph[f.node]) + 1 THEN -1 ELSE bound[<<f.node, f.port_in>>][2]
  <2>1. /\ f.node \in Nodes /\ f.vc \in {0, 1} /\ f.src \in Nodes /\ f.dst \in Nodes
        /\ f = [node |-> f.node, port_in |-> f.port_in, port_out |-> f.port_out, vc |-> f.vc,
                src |-> f.src, dst |-> f.dst]
    BY DEF Flits
  <2>2. Len(net.graph[f.node]) \in Nat /\ DOMAIN net.graph[f.node] = 1 .. Len(net.graph[f.node])
    BY <1>2, <2>1
  <2>3. \/ f.port_out = -1 /\ f.port_in = Len(net.graph[f.node]) + 1
        \/ f.port_in \in 1 .. Len(net.graph[f.node]) /\ f.port_out = bound[<<f.node, f.port_in>>][2]
    BY <2>2 DEF Located
  <2>4. f.port_in \in 1 .. Len(net.graph[f.node]) + 1
    BY <2>2, <2>3
  <2> QED BY <1>4, <2>1, <2>2, <2>3, <2>4
<1>7. code \in Injection(R, P)
  <2>1. code \in [R -> P]
    BY <1>6
  <2>2. ASSUME NEW e \in R, NEW f \in R, code[e] = code[f] PROVE e = f
    <3>1. /\ e.node = f.node /\ e.port_in = f.port_in /\ e.vc = f.vc /\ e.src = f.src /\ e.dst = f.dst
      BY <2>2
    <3>2. e.port_out = f.port_out
      BY <1>6, <3>1
    <3> QED BY <1>6, <3>1, <3>2
  <2> HIDE DEF code, R, P
  <2> QED BY <2>1, <2>2 DEF Injection, IsInjective
<1> HIDE DEF code, P
<1> QED BY <1>5, <1>7, FS_Injection

\* What can be held is found from the flits that are injected, after finitely many
\* steps if there are finitely many flits to find.
LEMMA HeldWithin ==
  ASSUME NEW Fine, Fine \subseteq Flits, IsFiniteSet(Fine),
         \A f \in Flits : OnItsWay(f) => \A con \in Outputs(f) : Sent(f, con) \in Flits,
         \A f \in Fine : OnItsWay(f) => \A con \in Outputs(f) : Sent(f, con) \in Fine,
         \A f \in Injected : OnItsWay(f) => f \in Fine
  PROVE  \A f \in Held : f \in Fine /\ OnItsWay(f)
<1> DEFINE k == CHOOSE k : IsIteration(k, Flits, Step)
           Start == {f \in Injected : OnItsWay(f)}
           left(A) == Cardinality(Fine \ A)
           T == {j \in Nat : \A fs \in SUBSET Fine : left(fs) <= j => k[fs] \subseteq Fine}
<1>1. Step \in [SUBSET Flits -> SUBSET Flits] /\ \A A \in SUBSET Flits : A \subseteq Step[A]
  BY DEF Step
<1>2. IsMonotone(Step, Flits)
  BY DEF IsMonotone, Step
<1>3. IsIteration(k, Flits, Step)
  BY <1>1, <1>2, GrowingExists
<1>4. \A fs \in SUBSET Fine : fs \in SUBSET Flits /\ fs \subseteq Step[fs] /\ Step[fs] \subseteq Fine
  BY <1>1 DEF Step
<1>5. \A fs \in SUBSET Fine : k[fs] = IF Step[fs] = fs THEN fs ELSE k[Step[fs]]
  BY <1>3, <1>4 DEF IsIteration
<1> HIDE DEF k
<1>6. \A A \in SUBSET Fine : Cardinality(Fine \ A) \in Nat /\ IsFiniteSet(Fine \ A)
  BY FS_Subset, FS_CardinalityType
<1>7. ASSUME NEW A \in SUBSET Fine, Step[A] # A
      PROVE  Cardinality(Fine \ Step[A]) < Cardinality(Fine \ A)
  <2>1. PICK x : x \in Step[A] /\ x \notin A /\ x \in Fine
    BY <1>4, <1>7
  <2>2. Fine \ Step[A] \in SUBSET ((Fine \ A) \ {x})
    BY <1>4, <2>1
  <2>3. IsFiniteSet((Fine \ A) \ {x}) /\ Cardinality((Fine \ A) \ {x}) = Cardinality(Fine \ A) - 1
    BY <1>6, <2>1, FS_RemoveElement
  <2>4. Cardinality(Fine \ Step[A]) <= Cardinality((Fine \ A) \ {x})
    BY <2>2, <2>3, FS_Subset
  <2>5. Cardinality(Fine \ Step[A]) \in Nat /\ Cardinality(Fine \ A) \in Nat
    BY <1>4, <1>6
  <2> QED BY <2>3, <2>4, <2>5
<1>7a. /\ \A A \in SUBSET Fine : left(A) \in Nat
       /\ \A A \in SUBSET Fine : Step[A] # A => left(Step[A]) < left(A)
  BY <1>6, <1>7
<1> HIDE DEF left
<1>8. 0 \in T
  <2> SUFFICES ASSUME NEW A \in SUBSET Fine, left(A) <= 0 PROVE k[A] \subseteq Fine
    OBVIOUS
  <2>1. Step[A] = A
    <3>1. left(A) \in Nat /\ left(Step[A]) \in Nat
      BY <1>4, <1>7a
    <3> QED BY <1>7a, <3>1
  <2> QED BY <1>5, <2>1
<1>9. ASSUME NEW j \in Nat, j \in T PROVE j + 1 \in T
  <2> SUFFICES ASSUME NEW A \in SUBSET Fine, left(A) <= j + 1 PROVE k[A] \subseteq Fine
    OBVIOUS
  <2>1. CASE Step[A] = A
    BY <1>5, <2>1
  <2>2. CASE Step[A] # A
    <3>1. left(A) \in Nat /\ left(Step[A]) \in Nat
      BY <1>4, <1>7a
    <3>2. left(Step[A]) <= j
      BY <1>7a, <2>2, <3>1
    <3>3. k[Step[A]] \subseteq Fine
      BY <1>4, <1>9, <3>2
    <3> QED BY <1>5, <2>2, <3>3
  <2> QED BY <2>1, <2>2
<1>10. \A j \in Nat : j \in T
  <2> HIDE DEF T
  <2> QED BY <1>8, <1>9, NoGraph, LP!SetInduction
<1>11. Start \in SUBSET Fine
  OBVIOUS
<1>12. k[Start] \subseteq Fine
  BY <1>7a, <1>10, <1>11
<1> HIDE DEF Start
<1>13. Held = {f \in k[Start] : OnItsWay(f)}
  BY HeldIs DEF k, Start
<1> QED BY <1>12, <1>13

\* The buffers a flit can be sent to, and whether it waits if these are full.
Ahead(f) == {Buffer(Sent(f, con)) : con \in Outputs(f)}
Waits(f, full) == IF case.length = 1 \/ case.alg \in Whole
                  THEN Ahead(f) \subseteq full ELSE Ahead(f) \cap full # {}
Buffers(fs) == {Buffer(f) : f \in fs}

\* If flits wait only for flits of a lower rank, then none waits for ever: after as
\* many steps as there are ranks no flit is stuck.
LEMMA RankedDeadlock ==
  ASSUME NEW rank, NEW top \in Nat, \A f \in Held : rank[f] \in 0 .. top,
         \A fs \in SUBSET Held : \A f \in fs : Waits(f, Buffers(fs)) => \E g \in fs : rank[g] < rank[f]
  PROVE  Deadlock = {}
<1> DEFINE next == [f \in Held |-> {Buffer(Sent(f, con)) : con \in Outputs(f)}]
           less(fs) == {f \in fs : Waits(f, Buffers(fs))}
           rest(fs) == {f \in fs : IF case.length = 1 \/ case.alg \in Whole
                                   THEN next[f] \subseteq {Buffer(g) : g \in fs}
                                   ELSE next[f] \cap {Buffer(g) : g \in fs} # {}}
           Less == [fs \in SUBSET Held |-> rest(fs)]
           Eq(k) == k = [fs \in SUBSET Held |-> IF rest(fs) = fs THEN fs ELSE k[rest(fs)]]
           k == CHOOSE k : Eq(k)
           Q(j, fs) == \A f \in fs : rank[f] + j > top
           T == {j \in Nat : \A fs \in SUBSET Held : Q(j, fs) => k[fs] = {}}
<1>1. Deadlock = k[Held]
  BY DEF Deadlock
<1>2. \A fs \in SUBSET Held : less(fs) = rest(fs)
  <2>1. \A f \in Held : next[f] = Ahead(f)
    BY DEF Ahead
  <2> HIDE DEF next
  <2> QED BY <2>1 DEF Waits, Buffers
<1>3. Less \in [SUBSET Held -> SUBSET Held] /\ \A A \in SUBSET Held : Less[A] = less(A) /\ Less[A] \subseteq A
  <2>1. \A A \in SUBSET Held : less(A) \subseteq A
    OBVIOUS
  <2> HIDE DEF rest, less
  <2> QED BY <1>2, <2>1
<1>4. IsMonotone(Less, Held)
  <2> SUFFICES ASSUME NEW A \in SUBSET Held, NEW B \in SUBSET Held, A \subseteq B PROVE less(A) \subseteq less(B)
    BY <1>3 DEF IsMonotone
  <2>1. Buffers(A) \subseteq Buffers(B)
    BY DEF Buffers
  <2>2. \A f : Waits(f, Buffers(A)) => Waits(f, Buffers(B))
    BY <2>1 DEF Waits
  <2> QED BY <2>2
<1>5. \A q : Eq(q) <=> IsIteration(q, Held, Less)
  <2> HIDE DEF rest
  <2> QED BY DEF IsIteration
<1> HIDE DEF Less, Eq
<1>6. PICK q : IsIteration(q, Held, Less)
  BY <1>3, <1>4, ShrinkingExists
<1>7. IsIteration(k, Held, Less)
  BY <1>5, <1>6
<1>8. \A fs \in SUBSET Held : \A f \in less(fs) : \E g \in fs : rank[g] < rank[f]
  OBVIOUS
<1> HIDE DEF k, less
<1>9. \A fs \in SUBSET Held : /\ k[fs] = IF less(fs) = fs THEN fs ELSE k[less(fs)]
                              /\ less(fs) \in SUBSET Held /\ less(fs) \subseteq fs
  BY <1>3, <1>7 DEF IsIteration
<1>10. ASSUME NEW fs \in SUBSET Held, Q(0, fs) PROVE fs = {}
  BY <1>10
<1>11. ASSUME NEW fs \in SUBSET Held, NEW j \in Nat, Q(j + 1, fs) PROVE Q(j, less(fs))
  <2> SUFFICES ASSUME NEW f \in less(fs) PROVE rank[f] + j > top
    OBVIOUS
  <2>1. PICK g \in fs : rank[g] < rank[f]
    BY <1>8, <1>9
  <2>2. rank[g] + (j + 1) > top
    BY <1>11
  <2>3. rank[g] \in Int /\ rank[f] \in Int
    BY <1>9
  <2> QED BY <2>1, <2>2, <2>3
<1>12. 0 \in T
  <2>1. \A fs \in SUBSET Held : Q(0, fs) => fs = {} /\ less(fs) = {}
    BY <1>9, <1>10
  <2> QED BY <1>9, <2>1
<1>13. ASSUME NEW j \in Nat, j \in T PROVE j + 1 \in T
  <2> SUFFICES ASSUME NEW fs \in SUBSET Held, Q(j + 1, fs) PROVE k[fs] = {}
    OBVIOUS
  <2>1. Q(j, less(fs)) /\ less(fs) \in SUBSET Held
    BY <1>9, <1>11
  <2> HIDE DEF Q
  <2>2. k[less(fs)] = {}
    BY <1>13, <2>1
  <2> QED BY <1>9, <2>2
<1>14. \A j \in Nat : j \in T
  <2> HIDE DEF T
  <2> QED BY <1>12, <1>13, NoGraph, LP!SetInduction
<1>15. Q(top + 1, Held) /\ top + 1 \in Nat
  OBVIOUS
<1> QED BY <1>1, <1>14, <1>15

-----------------------------------------------------------------------------
\* What can be held on a mesh is on its way and has kept to the turns.
LEMMA HeldGood ==
  ASSUME IsMeshCase(case), Wired
  PROVE  \A f \in Held : Located(f) /\ MP!Good(case.alg, f) /\ OnItsWay(f)
<1> DEFINE All == {f \in Flits : Located(f)}
           Fine == {f \in All : MP!Good(case.alg, f)}
<1>1. ASSUME NEW f \in Flits, OnItsWay(f), NEW con \in Outputs(f) PROVE Sent(f, con) \in Flits
  <2>1. MP!IsMesh /\ case.alg \in MP!MeshAlgorithms /\ Outputs(f) = MP!Offers(case.alg, f)
        /\ Nodes = MP!Nodes /\ net.graph = case.graph
    BY IsMeshThen, SameOutputs, MeshIsGraph DEF Wired
  <2>2. f.node \in Nodes /\ f.dst \in Nodes /\ f.vc \in {0, 1}
    BY DEF Flits
  <2>3. MP!Valid(f, MP!Offers(case.alg, f))
    BY <2>1, <2>2, MP!OffersValid
  <2>4. con.vc \in {0, 1} /\ con.port \in DOMAIN net.graph[f.node]
    BY <2>1, <2>3 DEF MP!Valid
  <2> QED BY <2>4, SentLocated, WiredLaid
<1>2. IsFiniteSet(Fine)
  <2>1. IsFiniteSet(All) /\ Fine \in SUBSET All
    BY LocatedFinite, WiredLaid
  <2> HIDE DEF All, Fine
  <2> QED BY <2>1, FS_Subset
<1>3. /\ \A f \in Fine : OnItsWay(f) => \A con \in Outputs(f) : Sent(f, con) \in Fine
      /\ \A f \in Injected : OnItsWay(f) => f \in Fine
      /\ Fine \subseteq Flits /\ \A f \in Fine : Located(f) /\ MP!Good(case.alg, f)
  BY MeshHop, InjectedGood DEF Located
<1> HIDE DEF Fine
<1>4. \A f \in Held : f \in Fine /\ OnItsWay(f)
  BY <1>1, <1>2, <1>3, HeldWithin
<1> QED BY <1>3, <1>4

\* No buffers of a mesh wait for each other: a flit waits for buffers that are lower
\* than its own.
LEMMA MeshDeadlock ==
  ASSUME IsMeshCase(case), Wired
  PROVE  Deadlock = {}
<1> DEFINE rank == [f \in Held |-> MP!RankOf(case.alg, f)]
           top == MP!Most * MP!Most
<1>1. \A f \in Held : Located(f) /\ MP!Good(case.alg, f) /\ OnItsWay(f) /\ Outputs(f) # {}
  BY HeldGood, MeshHop
<1>2. top \in Nat /\ \A f \in Held : rank[f] \in 0 .. top
  <2>1. MP!IsMesh /\ case.alg \in MP!MeshAlgorithms
    BY IsMeshThen
  <2>2. top \in Nat
    BY <2>1 DEF MP!Most, MP!IsMesh
  <2> QED BY <1>1, <2>1, <2>2, MP!RankBound
<1>3. ASSUME NEW fs \in SUBSET Held, NEW f \in fs, Waits(f, Buffers(fs))
      PROVE  \E g \in fs : rank[g] < rank[f]
  <2>1. PICK con \in Outputs(f), g \in fs : Buffer(Sent(f, con)) = Buffer(g)
    <3>1. Outputs(f) # {}
      BY <1>1
    <3>2. PICK b \in Ahead(f) : b \in Buffers(fs)
      BY <1>3, <3>1 DEF Waits, Ahead
    <3> QED BY <3>2 DEF Ahead, Buffers
  <2>2. MP!RankOf(case.alg, Sent(f, con)) < MP!RankOf(case.alg, f)
    BY <1>1, MeshHop
  <2>3. MP!RankOf(case.alg, Sent(f, con)) = MP!RankOf(case.alg, g)
    BY <2>1 DEF Buffer, MP!RankOf
  <2> QED BY <2>2, <2>3
<1> HIDE DEF rank, top
<1> QED BY <1>2, <1>3, RankedDeadlock

\* On meshes of every size, whose neighbours are joined by any number of channels, no
\* packets can fill buffers so that each of them waits for a buffer that another one
\* holds, whatever their length (the Route of RoutingMeshXY, MeshXYYX, MeshO1TURN,
\* MeshWestFirst, MeshNorthLast and MeshNegativeFirst with Network::InitBase).
THEOREM MeshNoCyclicWait == Spec => [](IsMeshCase(case) => NoCyclicWait)
<1>1. MeshInv => (IsMeshCase(case) => NoCyclicWait)
  BY MeshDeadlock DEF MeshInv, NoCyclicWait
<1> QED BY <1>1, MeshInvHolds, PTL
-----------------------------------------------------------------------------
\* Tables of shortest paths.

\* A table made by Dijkstra's algorithm for any connected graph, and any strategy.
IsTableCase(c) ==
    /\ c.alg = "TABLE_BASED" /\ c.routing_table = "DIJKSTRA"
    /\ c.generator = "NONE" /\ c.subnetwork = "NONE"
    /\ c.strategy \in Tables!Strategies
    /\ c.depth \in Nat /\ c.depth > 0
    /\ IsGraph(c.graph) /\ IsConnected(c.graph) /\ Cardinality(DOMAIN c.graph) < Inf

\* The ring split strategies answer one of the connections or none, and the highest
\* one if it can be taken.
LEMMA HighestPortIs ==
  ASSUME NEW S, NEW cons \in Seq(S), \A c \in S : c.port \in Nat, NEW room
  PROVE  LET best == Tables!HighestPort(cons, room)
         IN  /\ best \in Range(cons) \cup {Tables!NoConnection}
             /\ \A con \in Range(cons) :
                   con \in DOMAIN room /\ room[con] >= 1
                   /\ (\A c \in Range(cons) : c = con \/ c.port < con.port) => best = con
<1> DEFINE None == Tables!NoConnection
           next(best, c) == IF c.port <= best.port THEN best
                            ELSE IF c \in DOMAIN room /\ room[c] >= 1 THEN c ELSE None
           l == Len(cons)
           U == S \cup {None}
           Iter(H) == H = [s \in SUBSET DOMAIN cons |-> IF s = {} THEN None ELSE
                             LET x == Max(s) IN next(H[s \ {x}], cons[x])]
           f == CHOOSE H : Iter(H)
           step == [k \in 1 .. l |-> [u \in U |-> next(u, cons[k])]]
<1>1. l \in Nat /\ DOMAIN cons = 1 .. l /\ None \in U /\ None.port = -1 /\ \A k \in 1 .. l : cons[k] \in S
  BY DEF Tables!NoConnection
<1>2. Tables!HighestPort(cons, room) = f[1 .. l]
  <2>1. \A s : Tables!Max(s) = Max(s)
    BY Zenon DEF Tables!Max, Max
  <2> QED BY <1>1, <2>1 DEF Tables!HighestPort, Tables!FoldLeft, Tables!MapThenFoldSet
<1>3. step \in [1 .. l -> [U -> U]]
  <2> HIDE DEF None, l
  <2> QED BY <1>1
<1> HIDE DEF None, l, U, next
<1>4. PICK H : LP!IsLoop(H, l, U, None, step)
  <2> HIDE DEF step, f, Iter
  <2> QED BY <1>1, <1>3, NoGraph, LP!LoopExists
<1>5. Iter(H)
  <2>1. ASSUME NEW s \in SUBSET (1 .. l), s # {}
        PROVE  H[s] = next(H[s \ {Max(s)}], cons[Max(s)])
    <3>1. Max(s) \in s
      BY <1>1, <2>1, NoGraph, LP!MaxIn
    <3>2. Max(s) \in 1 .. l /\ H[s \ {Max(s)}] \in U
      BY <1>4, <3>1 DEF LP!IsLoop
    <3> QED BY <1>4, <2>1, <3>2, NoGraph DEF LP!IsLoop
  <2>2. H = [s \in SUBSET (1 .. l) |-> H[s]] /\ H[{}] = None
    BY <1>4 DEF LP!IsLoop
  <2> QED BY <1>1, <2>1, <2>2
<1>6. Iter(f)
  <2> HIDE DEF Iter
  <2> QED BY <1>5
<1> HIDE DEF f
<1>7. f[1 .. 0] = None
  BY <1>6, 1 .. 0 = {}
<1>8. ASSUME NEW k \in 1 .. l PROVE f[1 .. k] = next(f[1 .. (k - 1)], cons[k])
  <2>1. 1 .. k \in SUBSET (1 .. l) /\ 1 .. k # {} /\ Max(1 .. k) = k
        /\ (1 .. k) \ {k} = 1 .. (k - 1)
    BY <1>1, NoGraph, LP!FirstIndices
  <2> QED BY <1>1, <1>6, <2>1, Zenon
<1> DEFINE First(k) == {cons[j] : j \in 1 .. k}
           Top(con) == con \in DOMAIN room /\ room[con] >= 1 /\ \A c \in First(l) : c = con \/ c.port < con.port
           Fine(b, k) == b \in First(k) \cup {None} /\ \A con \in First(k) : Top(con) => b = con
           T == {k \in Nat : k <= l => Fine(f[1 .. k], k)}
<1>9. 0 \in T
  BY <1>7, 1 .. 0 = {}
<1>10. ASSUME NEW k \in Nat, k \in T PROVE k + 1 \in T
  <2> SUFFICES ASSUME k + 1 <= l PROVE Fine(f[1 .. (k + 1)], k + 1)
    OBVIOUS
  <2> DEFINE b == f[1 .. k]
             c == cons[k + 1]
  <2>1. k + 1 \in 1 .. l /\ (k + 1) - 1 = k /\ Fine(b, k)
    <3>1. l \in Nat
      BY <1>1
    <3> HIDE DEF Fine
    <3> QED BY <1>10, <3>1
  <2>2. f[1 .. (k + 1)] = next(b, c)
    BY <1>8, <2>1
  <2>3. First(k + 1) = First(k) \cup {c} /\ First(k + 1) \subseteq First(l) /\ First(l) \subseteq S
    <3>1. 1 .. (k + 1) = 1 .. k \cup {k + 1} /\ 1 .. (k + 1) \subseteq 1 .. l
      <4>1. l \in Nat /\ k + 1 <= l
        BY <1>1
      <4> HIDE DEF b, c
      <4> QED BY <4>1
    <3> QED BY <1>1, <3>1
  <2> HIDE DEF b, c, First
  <2>4. next(b, c) \in First(k + 1) \cup {None}
    BY <2>1, <2>3 DEF next
  <2>5. ASSUME NEW con \in First(k + 1), Top(con) PROVE next(b, c) = con
    <3>1. con.port \in Nat /\ b \in First(k + 1) \cup {None} /\ c \in S
      BY <2>1, <2>3
    <3>2. CASE con = b
      <4>1. c = con \/ c.port < con.port
        BY <2>3, <2>5
      <4>2. c.port <= b.port
        BY <2>3, <3>1, <3>2, <4>1
      <4> QED BY <3>2, <4>2 DEF next
    <3>3. CASE con # b
      <4>1. con = c
        BY <2>1, <2>3, <2>5, <3>3
      <4>2. b = None \/ b.port < con.port
        BY <2>3, <2>5, <3>1, <3>3
      <4>3. ~(c.port <= b.port)
        BY <1>1, <2>3, <3>1, <4>1, <4>2
      <4> QED BY <2>5, <4>1, <4>3 DEF next
    <3> QED BY <3>2, <3>3
  <2> HIDE DEF Top
  <2> QED BY <2>2, <2>4, <2>5
<1>11. l \in T
  <2> HIDE DEF T
  <2> QED BY <1>1, <1>9, <1>10, NoGraph, LP!SetInduction
<1>12. First(l) = Range(cons)
  BY <1>1 DEF Range
<1>13. Fine(f[1 .. l], l)
  BY <1>1, <1>11
<1> HIDE DEF First
<1> QED BY <1>2, <1>12, <1>13 DEF None

LEMMA TableThen ==
  ASSUME IsTableCase(case)
  PROVE  /\ case.alg = "TABLE_BASED" /\ case.depth \in Nat /\ case.depth >= 1
         /\ case.strategy \in Tables!Strategies
         /\ \A d \in Nodes : IsDistance(case.graph, d, Weights(case.graph, d))
BY DijkstraDistances DEF IsTableCase, Nodes

\* The flit as FindDestination sees it.
Seen(f) == [node |-> f.node, port_in |-> f.port_in, port_out |-> f.port_out, vc |-> f.vc,
            src |-> f.src, dst |-> f.dst, len |-> case.length, local |-> Len(net.graph[f.node]) + 1]
Room(con) == [c \in {con} |-> case.depth]

\* The connection that a ring split strategy on virtual channels makes of one.
Ring(f, con) == [port |-> con.port,
                 vc |-> IF case.strategy = "CIRCULANT_VIRTUAL_RING_SPLIT" THEN Tables!RingVC(Seen(f), con)
                        ELSE IF case.strategy = "CIRCULANT_VIRTUAL_DISTRIBUTION" THEN Tables!DistributedVC(Seen(f))
                        ELSE con.vc]

\* Of the connections cons, the strategy answers some, perhaps on another virtual
\* channel, or none; it answers one of the highest port if only that has room.
LEMMA Applied ==
  ASSUME IsTableCase(case), NEW f \in Flits, NEW S, NEW ports \in Seq(S), S \subseteq Nat
  PROVE  LET cons == Tables!Via(ports, 0)
             all == {Ring(f, [port |-> p, vc |-> 0]) : p \in Range(ports)}
         IN  /\ \A con : Tables!Apply(Seen(f), cons, Room(con)) \subseteq all \cup {Tables!NoConnection}
             /\ \A p \in Range(ports) : (\A q \in Range(ports) : q <= p) =>
                   LET con == Ring(f, [port |-> p, vc |-> 0])
                   IN  con \in Tables!Apply(Seen(f), cons, Room(con))
<1> DEFINE C == [port : S, vc : {0, 1}]
           cons == Tables!Via(ports, 0)
           con(p) == [port |-> p, vc |-> 0]
           ring(p) == Ring(f, con(p))
           all == {ring(p) : p \in Range(ports)}
           None == Tables!NoConnection
<1>1. /\ \A p \in S : ring(p) \in C /\ con(p) \in C /\ ring(p).port = p
      /\ Range(ports) \subseteq S /\ \A c \in C : c.port \in Nat
      /\ case.depth \in Nat /\ case.depth >= 1
  <2>1. f.vc \in {0, 1}
    BY DEF Flits
  <2>2. \A p \in S : ring(p) \in C /\ ring(p).port = p
    BY <2>1 DEF Ring, Tables!RingVC, Tables!DistributedVC, Seen
  <2>3. \A p \in S : con(p) \in C
    OBVIOUS
  <2>4. Range(ports) \subseteq S
    BY DEF Range
  <2>5. \A c \in C : c.port \in Nat
    OBVIOUS
  <2> QED BY <2>2, <2>3, <2>4, <2>5, TableThen
<1>2. /\ cons \in Seq(C) /\ Tables!Range(cons) = {con(p) : p \in Range(ports)}
      /\ DOMAIN cons = DOMAIN ports /\ \A i \in DOMAIN ports : cons[i] = con(ports[i])
  <2>1. cons = [i \in DOMAIN ports |-> con(ports[i])]
    BY DEF Tables!Via
  <2> HIDE DEF C, con, cons, ring
  <2>2. DOMAIN ports = 1 .. Len(ports) /\ Len(ports) \in Nat /\ \A i \in DOMAIN ports : ports[i] \in S
    OBVIOUS
  <2>3. cons \in Seq(C)
    <3>1. \A i \in 1 .. Len(ports) : con(ports[i]) \in C
      BY <1>1, <2>2
    <3>2. cons \in [1 .. Len(ports) -> C]
      BY <2>1, <2>2, <3>1
    <3> QED BY <2>2, <3>2
  <2>4. Tables!Range(cons) = {con(p) : p \in Range(ports)}
    BY <2>1 DEF Tables!Range, Range
  <2> QED BY <2>1, <2>3, <2>4 DEF con
<1>3. ASSUME NEW k PROVE DOMAIN Room(k) = {k} /\ Room(k)[k] = case.depth
  BY DEF Room
<1> HIDE DEF Ring
<1> DEFINE Right == /\ \A k : Tables!Apply(Seen(f), cons, Room(k)) \subseteq all \cup {None}
                    /\ \A p \in Range(ports) : (\A q \in Range(ports) : q <= p) =>
                          ring(p) \in Tables!Apply(Seen(f), cons, Room(ring(p)))
<1>4. ASSUME case.strategy \in {"RANDOM", "BUFFER_LEVEL", "KEEP_SPACE", "RANDOM_KEEP_SPACE"}
      PROVE  Right
  <2>1. \A p : ring(p) = con(p)
    BY <1>4 DEF Ring
  <2>2. all = Tables!Range(cons)
    BY <1>2, <2>1
  <2>3. ASSUME NEW k
        PROVE  /\ Tables!Apply(Seen(f), cons, Room(k)) \subseteq all \cup {None}
               /\ k \in all => k \in Tables!Apply(Seen(f), cons, Room(k))
    <3> DEFINE usable == Tables!Range(cons) \cap DOMAIN Room(k)
               whole == {c \in usable : Room(k)[c] >= case.depth}
               most == Tables!MostSlots(usable, Room(k))
    <3>1. usable \subseteq all /\ usable \subseteq {k} /\ (k \in all => usable = {k})
      BY <1>3, <2>2
    <3>2. whole = usable /\ most = usable
      <4>1. \A c \in usable : c = k /\ Room(k)[c] >= case.depth /\ \A e \in usable : Room(k)[c] >= Room(k)[e]
        <5>1. case.depth \in Nat /\ Room(k)[k] = case.depth
          BY <1>1, <1>3
        <5> HIDE DEF usable
        <5> QED BY <3>1, <5>1
      <4> HIDE DEF usable
      <4> QED BY <4>1 DEF Tables!MostSlots
    <3> HIDE DEF usable
    <3>3. Tables!Apply(Seen(f), cons, Room(k)) \in {Tables!OrNone(Tables!Range(cons)), Tables!OrNone(usable)}
      BY <1>4, <3>2 DEF Tables!Apply, usable
    <3> QED BY <2>2, <3>1, <3>3 DEF Tables!OrNone
  <2> QED BY <2>3
<1>5. ASSUME case.strategy = "CIRCULANT_VIRTUAL_DISTRIBUTION"
      PROVE  Right
  <2>1. \A p : [con(p) EXCEPT !.vc = Tables!DistributedVC(Seen(f))] = ring(p)
    BY <1>5 DEF Ring
  <2> DEFINE moved == {[c EXCEPT !.vc = Tables!DistributedVC(Seen(f))] : c \in Tables!Range(cons)}
  <2>3. moved = all
    <3> HIDE DEF ring, con, cons
    <3> QED BY <1>2, <2>1
  <2>2. \A k : Tables!Apply(Seen(f), cons, Room(k)) = Tables!OrNone(moved)
    BY <1>5 DEF Tables!Apply
  <2> HIDE DEF moved, all, cons
  <2>4. \A k : Tables!Apply(Seen(f), cons, Room(k)) \subseteq all \cup {None} /\ (all # {} => Tables!Apply(Seen(f), cons, Room(k)) = all)
    BY <2>2, <2>3 DEF Tables!OrNone
  <2>5. \A p \in Range(ports) : ring(p) \in all
    BY DEF all
  <2> HIDE DEF ring
  <2> QED BY <2>4, <2>5
<1>6. ASSUME case.strategy \in {"CIRCULANT_RING_SPLIT", "CIRCULANT_VIRTUAL_RING_SPLIT"}
      PROVE  Right
  <2> DEFINE rings == [i \in DOMAIN ports |-> ring(ports[i])]
  <2>1. rings \in Seq(C) /\ Range(rings) = all
    <3> HIDE DEF C, ring
    <3>1. DOMAIN ports = 1 .. Len(ports) /\ Len(ports) \in Nat /\ \A i \in DOMAIN ports : ports[i] \in S
      OBVIOUS
    <3>2. rings \in Seq(C)
      <4>1. \A i \in 1 .. Len(ports) : ring(ports[i]) \in C
        BY <1>1, <3>1
      <4>2. rings \in [1 .. Len(ports) -> C]
        BY <3>1, <4>1
      <4> QED BY <3>1, <4>2
    <3>3. Range(rings) = all
      BY DEF Range
    <3> QED BY <3>2, <3>3
  <2>2. \A k : Tables!Apply(Seen(f), cons, Room(k)) = {Tables!HighestPort(rings, Room(k))}
    <3>1. CASE case.strategy = "CIRCULANT_RING_SPLIT"
      <4>1. cons = rings
        BY <1>2, <3>1 DEF Tables!Via, Ring
      <4> QED BY <3>1, <4>1 DEF Tables!Apply
    <3>2. CASE case.strategy = "CIRCULANT_VIRTUAL_RING_SPLIT"
      <4>1. [i \in DOMAIN cons |-> [cons[i] EXCEPT !.vc = Tables!RingVC(Seen(f), cons[i])]] = rings
        BY <1>2, <3>2 DEF Ring
      <4> QED BY <3>2, <4>1 DEF Tables!Apply
    <3> QED BY <1>6, <3>1, <3>2
  <2> HIDE DEF rings, C
  <2>3. \A k : LET best == Tables!HighestPort(rings, Room(k))
               IN  /\ best \in Range(rings) \cup {None}
                   /\ \A c \in Range(rings) : c \in DOMAIN Room(k) /\ Room(k)[c] >= 1
                         /\ (\A e \in Range(rings) : e = c \/ e.port < c.port) => best = c
    BY <1>1, <2>1, HighestPortIs
  <2>4. ASSUME NEW p \in Range(ports), \A q \in Range(ports) : q <= p
        PROVE  \A e \in all : e = ring(p) \/ e.port < ring(p).port
    <3> SUFFICES ASSUME NEW q \in Range(ports) PROVE ring(q) = ring(p) \/ ring(q).port < ring(p).port
      OBVIOUS
    <3>1. ring(q).port = q /\ ring(p).port = p /\ q \in Nat /\ p \in Nat
      BY <1>1
    <3> HIDE DEF ring
    <3> QED BY <2>4, <3>1
  <2>5. ASSUME NEW p \in Range(ports), \A q \in Range(ports) : q <= p
        PROVE  Tables!HighestPort(rings, Room(ring(p))) = ring(p)
    <3>1. ring(p) \in all /\ ring(p) \in DOMAIN Room(ring(p)) /\ Room(ring(p))[ring(p)] >= 1
      BY <1>1, <1>3
    <3> HIDE DEF ring
    <3> QED BY <2>1, <2>3, <2>4, <2>5, <3>1
  <2>6. \A k : Tables!Apply(Seen(f), cons, Room(k)) \subseteq all \cup {None}
    BY <2>1, <2>2, <2>3
  <2>7. \A p \in Range(ports) : (\A q \in Range(ports) : q <= p) =>
           ring(p) \in Tables!Apply(Seen(f), cons, Room(ring(p)))
    BY <2>2, <2>5
  <2> QED BY <2>6, <2>7
<1>7. Right
  BY <1>4, <1>5, <1>6, TableThen DEF Tables!Strategies
<1> QED BY <1>7

LEMMA TableHop ==
  ASSUME IsTableCase(case), Wired, net.table = LoadDijkstra(case.graph), NEW f \in Flits, OnItsWay(f)
  PROVE  /\ Outputs(f) # {}
         /\ \A con \in Outputs(f) :
               /\ con.port \in DOMAIN net.graph[f.node] /\ con.vc \in {0, 1}
               /\ con.port \in Leading(case.graph, f.node, f.dst)
<1> DEFINE g == case.graph
           S == DOMAIN g[f.node]
           ports == LoadDijkstra(g)[f.node][f.dst]
           cons == Tables!Via(ports, 0)
           ring(p) == Ring(f, [port |-> p, vc |-> 0])
           None == Tables!NoConnection
<1>1. f.node \in Nodes /\ f.dst \in Nodes /\ f.node # f.dst /\ IsGraph(g) /\ net.graph = g
  BY DEF Flits, OnItsWay, Wired
<1>2. ports \in Seq(S) /\ Range(ports) = Leading(g, f.node, f.dst)
  BY <1>1, DijkstraPorts DEF Nodes
<1>3. S = 1 .. Len(g[f.node]) /\ Len(g[f.node]) \in Nat
  BY <1>1 DEF IsGraph, Nodes
<1>4. Leading(g, f.node, f.dst) \subseteq S
  BY DEF Leading
<1>5. \A p \in S : ring(p) = [port |-> p, vc |-> ring(p).vc] /\ ring(p).vc \in {0, 1} /\ ring(p) # None
  <2>1. f.vc \in {0, 1} /\ -1 \notin S
    BY <1>3 DEF Flits
  <2>2. \A p \in S : ring(p) = [port |-> p, vc |-> ring(p).vc] /\ ring(p).vc \in {0, 1}
    BY <2>1 DEF Ring, Tables!RingVC, Tables!DistributedVC, Seen
  <2>3. \A p \in S : ring(p) # None
    BY <2>1 DEF Ring, Tables!NoConnection
  <2> HIDE DEF ring, S
  <2> QED BY <2>2, <2>3
<1>6. \A con : Offered(f, con) = Tables!Apply(Seen(f), cons, Room(con))
  BY <1>1, TableThen DEF Offered, Tables!FindDestination, Tables!Route, Tables!SubAlgorithms, Seen, Room
<1>7. Outputs(f) = (UNION {Offered(f, con) : con \in [port : S, vc : {0, 1}]}) \ {None}
  BY <1>1, TableThen DEF Outputs, Tables!NoConnection
<1>8. /\ \A con : Tables!Apply(Seen(f), cons, Room(con)) \subseteq {ring(p) : p \in Range(ports)} \cup {None}
      /\ \A p \in Range(ports) : (\A q \in Range(ports) : q <= p) =>
            ring(p) \in Tables!Apply(Seen(f), cons, Room(ring(p)))
  <2>1. S \subseteq Nat
    BY <1>3
  <2> HIDE DEF S, ports
  <2> QED BY <1>2, <2>1, Applied
<1> HIDE DEF cons, ring, None, S, ports, g
<1>9. Outputs(f) # {}
  <2>1. Range(ports) # {}
    <3>1. IsDistance(g, f.dst, Weights(g, f.dst))
      BY <1>1, TableThen DEF g
    <3>2. PICK m \in DOMAIN g : m \in Range(g[f.node]) /\ Weights(g, f.dst)[m] = Weights(g, f.dst)[f.node] - 1
      BY <1>1, <3>1 DEF IsDistance, Nodes, g
    <3> QED BY <1>2, <3>2 DEF Leading, Range
  <2>2. IsFiniteSet(Range(ports)) /\ Range(ports) \subseteq Nat
    <3>1. IsFiniteSet(1 .. Len(g[f.node]))
      BY <1>3, FS_Interval
    <3> QED BY <1>2, <1>3, <1>4, <3>1, FS_Subset
  <2>3. PICK p \in Range(ports) : \A q \in Range(ports) : q <= p
    BY <2>1, <2>2, NoGraph, LP!MaxFinite, LPFinite
  <2>4. ring(p) \in Offered(f, ring(p)) /\ p \in S
    BY <1>2, <1>4, <1>6, <1>8, <2>3
  <2>5. ring(p) \in [port : S, vc : {0, 1}] /\ ring(p) # None
    BY <1>5, <2>4
  <2> QED BY <1>7, <2>4, <2>5
<1>10. ASSUME NEW con \in Outputs(f)
       PROVE  con.port \in S /\ con.vc \in {0, 1} /\ con.port \in Leading(g, f.node, f.dst)
  <2>1. PICK p \in Range(ports) : con = ring(p)
    <3>1. PICK c : con \in Offered(f, c) /\ con # None
      BY <1>7
    <3> QED BY <1>6, <1>8, <3>1
  <2>2. p \in S /\ p \in Leading(g, f.node, f.dst)
    BY <1>2, <1>4
  <2>3. con = [port |-> p, vc |-> con.vc] /\ con.vc \in {0, 1}
    BY <1>5, <2>1, <2>2
  <2> QED BY <2>2, <2>3
<1> QED BY <1>1, <1>9, <1>10 DEF S, g

TableInv == IsTableCase(case) => Wired /\ net.table = LoadDijkstra(case.graph) /\ (h # Absent => Located(h))

LEMMA TableInvHolds == Spec => []TableInv
<1>1. Init => TableInv
  <2> SUFFICES ASSUME Init, IsTableCase(case)
               PROVE  Wired /\ net.table = LoadDijkstra(case.graph) /\ h = Absent
    BY DEF TableInv
  <2>1. net.graph = case.graph /\ net.table = LoadDijkstra(case.graph) /\ IsGraph(case.graph)
    BY DEF Init, IsTableCase, Networks, TableFor
  <2> QED BY <2>1, GraphLinked DEF Init, Wired, Laid, Nodes
<1>2. TableInv /\ [Next]_vars => TableInv'
  <2> SUFFICES ASSUME TableInv, [Next]_vars, IsTableCase(case)'
               PROVE  Wired' /\ (net.table = LoadDijkstra(case.graph))' /\ ((h # Absent)' => Located(h)')
    BY DEF TableInv
  <2>1. UNCHANGED <<case, net, bound>>
    BY DEF Next, Inject, Forward, vars
  <2>2. IsTableCase(case)
    BY <2>1, Zenon DEF IsTableCase
  <2>3. Wired /\ net.table = LoadDijkstra(case.graph) /\ (h # Absent => Located(h))
    BY <2>2 DEF TableInv
  <2>4. (net.table = LoadDijkstra(case.graph))'
    BY <2>1, <2>3
  <2>5. CASE Inject
    <3>1. h' \in Injected
      BY <2>5 DEF Inject
    <3> QED BY <2>1, <2>3, <2>4, <3>1, InjectedLocated, WiredLaid, WiredNext
  <2>6. CASE Forward
    <3>1. PICK con \in Outputs(h) : h' = Sent(h, con)
      BY <2>6 DEF Forward
    <3>2. h \in Flits /\ OnItsWay(h)
      BY <2>3, <2>6 DEF Forward, Located
    <3>3. con.port \in DOMAIN net.graph[h.node] /\ con.vc \in {0, 1}
      BY <2>2, <2>3, <3>2, TableHop
    <3>4. Located(Sent(h, con))
      BY <2>3, <3>2, <3>3, SentLocated, WiredLaid
    <3> QED BY <2>1, <2>3, <2>4, <3>1, <3>4, WiredNext
  <2>7. CASE UNCHANGED vars
    <3>1. h' = h
      BY <2>7 DEF vars
    <3> QED BY <2>1, <2>3, <2>4, <3>1, WiredNext
  <2> QED BY <2>5, <2>6, <2>7 DEF Next
<1> QED BY <1>1, <1>2, PTL DEF Spec

\* On every connected graph, with a table of shortest paths and any strategy, the
\* packet is in a router of the network, in the relay that is bound to the one it was
\* sent by (RoutingTable::LoadDijkstra, RoutingTableBased::Route, the selection
\* strategies, Network::InitBase).
THEOREM TableTyped == Spec => [](IsTableCase(case) => TypeOK)
<1>1. TableInv /\ case \in Cases => (IsTableCase(case) => TypeOK)
  BY LocatedType, WiredLaid DEF TableInv
<1> QED BY <1>1, CaseKept, TableInvHolds, PTL

\* There, a router has an output for every packet on its way.
THEOREM TableOutput == Spec => [](IsTableCase(case) => SomeOutput)
<1>1. TableInv => (IsTableCase(case) => SomeOutput)
  BY TableHop DEF TableInv, SomeOutput, Located
<1> QED BY <1>1, TableInvHolds, PTL

\* The table cases are kept.
LEMMA TableKept == Spec => (IsTableCase(case) => []IsTableCase(case))
<1>1. IsTableCase(case) /\ [Next]_vars => IsTableCase(case)'
  <2> SUFFICES ASSUME IsTableCase(case), [Next]_vars PROVE IsTableCase(case)'
    OBVIOUS
  <2>1. UNCHANGED <<case, net>>
    BY DEF Next, Inject, Forward, vars
  <2> QED BY <2>1, Zenon DEF IsTableCase
<1> QED BY <1>1, PTL DEF Spec

\* A step of a packet that is on its way is a hop.
LEMMA HopIs ==
  ASSUME [Next]_vars, h # Absent, ~(UNCHANGED vars)
  PROVE  UNCHANGED <<case, net, bound>> /\ OnItsWay(h) /\ \E con \in Outputs(h) : h' = Sent(h, con)
BY DEF Next, Inject, Forward, vars

\* There, every hop brings the packet nearer to where it is going.
THEOREM TableMinimal == Spec => (IsTableCase(case) => Minimal)
<1> DEFINE A == h # Absent /\ case.routing_table \notin Detours =>
                  LET distance == Weights(IF InSubnetwork(h') THEN net.sub ELSE case.graph, h.dst)
                  IN  distance[h'.node] = distance[h.node] - 1
<1>1. TableInv /\ IsTableCase(case) /\ [Next]_vars => [A]_vars
  <2> SUFFICES ASSUME TableInv, IsTableCase(case), [Next]_vars, ~(UNCHANGED vars), h # Absent
               PROVE  LET distance == Weights(IF InSubnetwork(h') THEN net.sub ELSE case.graph, h.dst)
                      IN  distance[h'.node] = distance[h.node] - 1
    OBVIOUS
  <2>1. UNCHANGED <<case, net, bound>> /\ OnItsWay(h)
    BY HopIs
  <2>2. PICK con \in Outputs(h) : h' = Sent(h, con)
    BY HopIs
  <2>3. Wired /\ net.table = LoadDijkstra(case.graph) /\ h \in Flits
    BY DEF TableInv, Located
  <2>4. /\ con.port \in DOMAIN net.graph[h.node] /\ con.vc \in {0, 1}
        /\ con.port \in Leading(case.graph, h.node, h.dst)
    BY <2>1, <2>3, TableHop
  <2>5. h'.node = net.graph[h.node][con.port]
    BY <2>2, <2>3, <2>4, SentLocated, WiredLaid
  <2>6. ~InSubnetwork(h')
    BY DEF InSubnetwork, IsTableCase
  <2> QED BY <2>3, <2>4, <2>5, <2>6 DEF Leading, Wired
<1> HIDE DEF A
<1>2. Minimal <=> [][A]_vars
  BY DEF Minimal, A
<1> QED BY <1>1, <1>2, TableInvHolds, TableKept, PTL DEF Spec

-----------------------------------------------------------------------------
\* On a mesh, Dijkstra's algorithm counts rows and columns.
LEMMA MeshDistance ==
  ASSUME IsMeshCase(case), Cardinality(Nodes) < Inf, NEW d \in Nodes
  PROVE  Weights(case.graph, d) = [n \in Nodes |-> MP!Gap(n, d)]
<1>1. MP!IsMesh /\ Nodes = MP!Nodes /\ IsGraph(case.graph) /\ DOMAIN case.graph = Nodes
  BY IsMeshThen, MeshIsGraph DEF Nodes
<1>2. ASSUME NEW e \in Nodes PROVE IsDistance(case.graph, e, [n \in Nodes |-> MP!Gap(n, e)])
  <2> DEFINE w == [n \in Nodes |-> MP!Gap(n, e)]
  <2>1. w \in [Nodes -> Nat] /\ w[e] = 0
    BY <1>1, MP!GapOf
  <2>2. \A n \in Nodes : Range(case.graph[n]) \subseteq Nodes
                         /\ \A m \in Nodes : m \in Range(case.graph[n]) <=> MP!Gap(n, m) = 1
    <3> SUFFICES ASSUME NEW n \in Nodes
                 PROVE  Range(case.graph[n]) \subseteq Nodes
                        /\ \A m \in Nodes : m \in Range(case.graph[n]) <=> MP!Gap(n, m) = 1
      OBVIOUS
    <3>1. MP!Range(case.graph[n]) = Range(case.graph[n])
      BY DEF MP!Range, Range
    <3>2. Range(case.graph[n]) \subseteq Nodes
      BY <1>1 DEF IsGraph, Range
    <3> QED BY <1>1, <3>1, <3>2, MP!MeshRange
  <2>3. \A n \in Nodes : \A m \in Range(case.graph[n]) : w[m] <= w[n] + 1
    BY <1>1, <2>2, MP!GapSteps
  <2>4. \A n \in Nodes \ {e} : \E m \in Nodes : m \in Range(case.graph[n]) /\ w[m] = w[n] - 1
    BY <1>1, <2>2, MP!GapSteps
  <2> QED BY <1>1, <2>1, <2>3, <2>4 DEF IsDistance
<1>3. IsConnected(case.graph)
  BY <1>1, <1>2, DistanceConnects
<1>4. IsDistance(case.graph, d, Weights(case.graph, d))
  BY <1>1, <1>3, DijkstraDistances
<1> QED BY <1>1, <1>2, <1>4, OneDistance

LEMMA MeshKept == Spec => (IsMeshCase(case) /\ Cardinality(Nodes) < Inf
                               => [](IsMeshCase(case) /\ Cardinality(Nodes) < Inf))
<1>1. IsMeshCase(case) /\ Cardinality(Nodes) < Inf /\ [Next]_vars
        => (IsMeshCase(case) /\ Cardinality(Nodes) < Inf)'
  <2> SUFFICES ASSUME IsMeshCase(case), Cardinality(Nodes) < Inf, [Next]_vars
               PROVE  (IsMeshCase(case) /\ Cardinality(Nodes) < Inf)'
    OBVIOUS
  <2>1. UNCHANGED <<case, net>>
    BY DEF Next, Inject, Forward, vars
  <2> QED BY <2>1, Zenon DEF IsMeshCase, Nodes
<1> QED BY <1>1, PTL DEF Spec

\* On meshes of every size, the algorithms that restrict turns bring the packet nearer
\* to where it is going with every hop (the Route of RoutingMeshXY, MeshXYYX,
\* MeshO1TURN, MeshWestFirst, MeshNorthLast and MeshNegativeFirst).
THEOREM MeshMinimal == Spec => (IsMeshCase(case) /\ Cardinality(Nodes) < Inf => Minimal)
<1> DEFINE A == h # Absent /\ case.routing_table \notin Detours =>
                  LET distance == Weights(IF InSubnetwork(h') THEN net.sub ELSE case.graph, h.dst)
                  IN  distance[h'.node] = distance[h.node] - 1
           B == IsMeshCase(case) /\ Cardinality(Nodes) < Inf
<1>1. MeshInv /\ B /\ [Next]_vars => [A]_vars
  <2> SUFFICES ASSUME MeshInv, B, [Next]_vars, ~(UNCHANGED vars), h # Absent
               PROVE  LET distance == Weights(IF InSubnetwork(h') THEN net.sub ELSE case.graph, h.dst)
                      IN  distance[h'.node] = distance[h.node] - 1
    OBVIOUS
  <2>1. UNCHANGED <<case, net, bound>> /\ OnItsWay(h)
    BY HopIs
  <2>2. PICK con \in Outputs(h) : h' = Sent(h, con)
    BY HopIs
  <2>3. Wired /\ Located(h) /\ MP!Good(case.alg, h)
    BY DEF MeshInv
  <2>4. Located(h') /\ MP!Gap(h'.node, h'.dst) = MP!Gap(h.node, h.dst) - 1
    BY <2>1, <2>2, <2>3, MeshHop
  <2>5. h.node \in Nodes /\ h.dst \in Nodes /\ h'.node \in Nodes /\ h'.dst = h.dst
    BY <2>2, <2>3, <2>4 DEF Located, Flits, Sent
  <2>6. ~InSubnetwork(h')
    BY DEF InSubnetwork, IsMeshCase
  <2>7. Weights(case.graph, h.dst) = [n \in Nodes |-> MP!Gap(n, h.dst)]
    BY <2>5, MeshDistance
  <2>8. MP!Gap(h'.node, h.dst) = MP!Gap(h.node, h.dst) - 1
    BY <2>4, <2>5
  <2>9. Weights(case.graph, h.dst)[h'.node] = Weights(case.graph, h.dst)[h.node] - 1
    BY <2>5, <2>7, <2>8
  <2> QED BY <2>6, <2>9
<1> HIDE DEF A
<1>2. Minimal <=> [][A]_vars
  BY DEF Minimal, A
<1> QED BY <1>1, <1>2, MeshInvHolds, MeshKept, PTL DEF Spec

-----------------------------------------------------------------------------
\* Physical subnetworks.

\* A configuration with a physical subnetwork and tables made by Dijkstra's algorithm.
\* Of the strategies, the one that moves a packet to another virtual channel and
\* looks for room there is left out: Offered shows it one channel at a time.
IsPhysicalCase(c) ==
    /\ c.alg \in {"SUBNETWORK", "FIT_SUBNETWORK", "FIXED_SUBNETWORK", "BYPASS"}
    /\ c.routing_table = "DIJKSTRA" /\ c.generator # "NONE" /\ c.subnetwork = "PHYSICAL"
    /\ c.strategy \in Tables!Strategies \ {"CIRCULANT_VIRTUAL_RING_SPLIT"}
    /\ c.depth \in Nat /\ c.depth > 0 /\ c.length \in Nat
    /\ IsGraph(c.graph) /\ IsConnected(c.graph) /\ Cardinality(DOMAIN c.graph) < Inf

\* The links of the subnetwork and its table follow those of the graph.
Doubled ==
    /\ IsSubnetwork(net.sub, case.graph)
    /\ net.graph = Together(case.graph, net.sub)
    /\ net.table = LoadDijkstra(case.graph)
    /\ net.subtable = Promote(LoadDijkstra(net.sub), case.graph)

\* Relays of the graph are bound to relays of the graph, those of the subnetwork to
\* relays of the subnetwork.
Apart ==
    \A n \in Nodes : \A p \in DOMAIN net.graph[n] :
        LET to == bound[<<n, p>>]
        IN  p \in DOMAIN case.graph[n] <=> to[2] \in DOMAIN case.graph[to[1]]

LEMMA DoubledPorts ==
  ASSUME IsPhysicalCase(case), Doubled
  PROVE  /\ IsGraph(case.graph) /\ IsGraph(net.graph) /\ IsGraph(net.sub) /\ Cardinality(Nodes) < Inf
         /\ DOMAIN net.graph = Nodes /\ DOMAIN net.sub = Nodes
         /\ \A n \in Nodes :
               /\ Len(case.graph[n]) \in Nat /\ DOMAIN case.graph[n] = 1 .. Len(case.graph[n])
               /\ Len(net.sub[n]) \in Nat /\ DOMAIN net.sub[n] = 1 .. Len(net.sub[n])
               /\ Len(net.graph[n]) = Len(case.graph[n]) + Len(net.sub[n])
               /\ DOMAIN net.graph[n] = 1 .. Len(case.graph[n]) + Len(net.sub[n])
               /\ \A k \in 1 .. Len(case.graph[n]) : net.graph[n][k] = case.graph[n][k]
               /\ \A k \in 1 .. Len(net.sub[n]) : net.graph[n][Len(case.graph[n]) + k] = net.sub[n][k]
<1>1. IsGraph(case.graph) /\ IsGraph(net.sub) /\ DOMAIN net.sub = Nodes /\ Cardinality(Nodes) < Inf
  BY DEF IsPhysicalCase, Doubled, IsSubnetwork, Nodes
<1>2. IsGraph(net.graph) /\ DOMAIN net.graph = Nodes
  BY <1>1, TogetherIsGraph DEF Doubled, Nodes
<1>3. ASSUME NEW n \in Nodes
      PROVE  /\ Len(case.graph[n]) \in Nat /\ DOMAIN case.graph[n] = 1 .. Len(case.graph[n])
             /\ Len(net.sub[n]) \in Nat /\ DOMAIN net.sub[n] = 1 .. Len(net.sub[n])
             /\ net.graph[n] \in Seq(Nodes)
             /\ Len(net.graph[n]) = Len(case.graph[n]) + Len(net.sub[n])
             /\ \A k \in 1 .. Len(case.graph[n]) : net.graph[n][k] = case.graph[n][k]
             /\ \A k \in 1 .. Len(net.sub[n]) : net.graph[n][Len(case.graph[n]) + k] = net.sub[n][k]
  <2>1. case.graph[n] \in Seq(Nodes) /\ net.sub[n] \in Seq(Nodes)
    BY <1>1 DEF IsGraph, Nodes
  <2>2. /\ net.graph[n] \in Seq(Nodes)
        /\ Len(net.graph[n]) = Len(case.graph[n]) + Len(net.sub[n])
        /\ \A k \in 1 .. Len(case.graph[n]) : net.graph[n][k] = case.graph[n][k]
        /\ \A k \in 1 .. Len(net.sub[n]) : net.graph[n][Len(case.graph[n]) + k] = net.sub[n][k]
    <3> DEFINE g == case.graph
               sub == net.sub
    <3>1. IsGraph(g) /\ IsGraph(sub) /\ DOMAIN sub = DOMAIN g /\ n \in DOMAIN g /\ Nodes = DOMAIN g
      BY <1>1 DEF Nodes
    <3>2. net.graph = Together(g, sub)
      BY DEF Doubled
    <3> HIDE DEF g, sub
    <3>3. IsTogether(net.graph, g, sub, n)
      BY <3>1, <3>2, TogetherLinks
    <3> QED BY <3>1, <3>3 DEF IsTogether, g, sub
  <2> QED BY <2>1, <2>2
<1>4. \A n \in Nodes : DOMAIN net.graph[n] = 1 .. Len(net.graph[n])
  BY <1>3
<1> QED BY <1>1, <1>2, <1>3, <1>4

LEMMA DoubledApart ==
  ASSUME IsPhysicalCase(case), Doubled, bound = Wires!Bound
  PROVE  Laid /\ Apart
<1> DEFINE Side == {r \in WP!LinkRelays : r[2] \in DOMAIN case.graph[r[1]]}
<1>1. IsGraph(net.graph) /\ IsGraph(case.graph) /\ DOMAIN net.graph = Nodes /\ WP!Nodes = Nodes
      /\ DOMAIN case.graph = Nodes
  BY DoubledPorts DEF WP!Nodes, Nodes
<1>2. WP!WiringAssumption /\ WP!Balanced
  BY <1>1, GraphWired
<1>3. Laid
  BY <1>1, GraphLinked
<1>4. \A n \in Nodes : \A p \in DOMAIN net.graph[n] :
         <<n, p>> \in WP!LinkRelays /\ (<<n, p>> \in Side <=> p \in DOMAIN case.graph[n])
  BY <1>1, <1>2, WP!NodesAndLinks
<1>5. ASSUME NEW n \in Nodes, NEW m \in Nodes PROVE WP!On(Side, n, m) = LinksTo(case.graph, n, m)
  <2>1. \A p \in DOMAIN case.graph[n] : p \in DOMAIN net.graph[n] /\ net.graph[n][p] = case.graph[n][p]
    <3>1. /\ Len(case.graph[n]) \in Nat /\ Len(net.sub[n]) \in Nat
          /\ DOMAIN case.graph[n] = 1 .. Len(case.graph[n])
          /\ DOMAIN net.graph[n] = 1 .. Len(case.graph[n]) + Len(net.sub[n])
          /\ \A k \in 1 .. Len(case.graph[n]) : net.graph[n][k] = case.graph[n][k]
      BY DoubledPorts
    <3> DEFINE a == Len(case.graph[n])
               b == Len(net.sub[n])
    <3>2. a \in Nat /\ b \in Nat
      BY <3>1
    <3> HIDE DEF a, b
    <3>3. \A p \in 1 .. a : p \in 1 .. a + b
      BY <3>2
    <3> QED BY <3>1, <3>3 DEF a, b
  <2> HIDE DEF Side
  <2> QED BY <1>4, <2>1 DEF WP!On, WP!Between, LinksTo
<1>6. WP!BalancedOn(Side)
  <2> HIDE DEF Side
  <2> SUFFICES ASSUME NEW n \in Nodes, NEW m \in Nodes
               PROVE  WP!Cardinality(WP!On(Side, n, m)) = WP!Cardinality(WP!On(Side, m, n))
    BY <1>1 DEF WP!BalancedOn
  <2>1. Cardinality(LinksTo(case.graph, n, m)) = Cardinality(LinksTo(case.graph, m, n))
    BY <1>1 DEF IsGraph
  <2> QED BY <1>5, <2>1, SameSets
<1>7. WP!IsFront(Side)
  <2> SUFFICES ASSUME NEW n \in Nodes, NEW p \in DOMAIN net.graph[n], NEW q \in 1 .. p, <<n, p>> \in Side
               PROVE  <<n, q>> \in Side
    BY <1>1 DEF WP!IsFront
  <2>1. /\ Len(case.graph[n]) \in Nat /\ Len(net.sub[n]) \in Nat
        /\ DOMAIN case.graph[n] = 1 .. Len(case.graph[n])
        /\ DOMAIN net.graph[n] = 1 .. Len(case.graph[n]) + Len(net.sub[n])
    BY DoubledPorts
  <2>2. p \in 1 .. Len(case.graph[n])
    BY <1>4, <2>1
  <2>3. q \in DOMAIN net.graph[n] /\ q \in DOMAIN case.graph[n]
    <3> DEFINE a == Len(case.graph[n])
               b == Len(net.sub[n])
    <3>1. a \in Nat /\ b \in Nat /\ p \in 1 .. a
      BY <2>1, <2>2
    <3> HIDE DEF a, b
    <3>2. q \in 1 .. a /\ q \in 1 .. a + b
      BY <3>1
    <3> QED BY <2>1, <3>2 DEF a, b
  <2> HIDE DEF Side
  <2> QED BY <1>4, <2>3
<1> HIDE DEF Side
<1>8. WP!KeptBy(Side, WP!LinkBindings)
  BY <1>2, <1>6, <1>7, WP!BoundApart
<1>9. WP!LinkRelays \subseteq DOMAIN WP!LinkBindings /\ WP!Paired(WP!LinkBindings)
  BY <1>2, WP!BoundComplete, WP!BindingsPaired
<1>10. ASSUME NEW n \in Nodes, NEW p \in DOMAIN net.graph[n]
       PROVE  p \in DOMAIN case.graph[n] <=> bound[<<n, p>>][2] \in DOMAIN case.graph[bound[<<n, p>>][1]]
  <2> DEFINE r == <<n, p>>
             to == bound[r]
  <2>1. r \in WP!LinkRelays /\ r \in DOMAIN WP!LinkBindings /\ (r \in Side <=> p \in DOMAIN case.graph[n])
    BY <1>4, <1>9
  <2> HIDE DEF r
  <2>2. to = WP!LinkBindings[r]
    BY <1>2, <2>1, SameBound, WP!NodesAndLinks DEF WP!Bound, WP!Relays
  <2> HIDE DEF to
  <2>3. to \in WP!LinkRelays /\ (r \in Side <=> to \in Side)
    BY <1>8, <1>9, <2>1, <2>2 DEF WP!Paired, WP!KeptBy
  <2>4. to \in Side <=> to[2] \in DOMAIN case.graph[to[1]]
    BY <2>3 DEF Side
  <2> QED BY <2>1, <2>3, <2>4 DEF r, to
<1> QED BY <1>3, <1>10 DEF Apart

\* The connections of a list of ports for which there is room enough.
AreRoomy(cons, S, ports, need, room) ==
    LET all == {[port |-> p, vc |-> 0] : p \in Range(ports)}
    IN  /\ cons \in Seq([port : S, vc : {0, 1}])
        /\ Range(cons) = {c \in all : c \in DOMAIN room /\ room[c] >= need}

LEMMA WithRoomIs ==
  ASSUME NEW S, NEW ports \in Seq(S), NEW need, NEW room
  PROVE  AreRoomy(Tables!WithRoom(ports, 0, need, room), S, ports, need, room)
<1> DEFINE via == Tables!Via(ports, 0)
           C == [port : S, vc : {0, 1}]
           con(p) == [port |-> p, vc |-> 0]
           l == Len(ports)
           Good == {c \in DOMAIN room : room[c] >= need}
           Iter(H) == H = [s \in SUBSET DOMAIN via |-> IF s = {} THEN <<>> ELSE
                             LET x == Max(s)
                             IN  IF via[x] \in DOMAIN room /\ room[via[x]] >= need
                                 THEN Append(H[s \ {x}], via[x]) ELSE H[s \ {x}]]
           f == CHOOSE H : Iter(H)
<1>1. l \in Nat /\ DOMAIN ports = 1 .. l /\ \A k \in 1 .. l : ports[k] \in S
  OBVIOUS
<1>2. via \in [1 .. l -> C] /\ DOMAIN via = 1 .. l /\ Range(via) = {con(p) : p \in Range(ports)}
      /\ Len(via) = l
  <2>1. via = [i \in 1 .. l |-> con(ports[i])]
    BY <1>1 DEF Tables!Via
  <2> HIDE DEF via, l
  <2>2. \A p \in S : con(p) \in C
    OBVIOUS
  <2> HIDE DEF con, C
  <2>3. via \in [1 .. l -> C] /\ DOMAIN via = 1 .. l /\ \A i \in 1 .. l : via[i] = con(ports[i])
    BY <1>1, <2>1, <2>2
  <2>4. Range(via) = {con(p) : p \in Range(ports)}
    BY <1>1, <2>3 DEF Range
  <2>5. via \in Seq(C)
    BY <1>1, <2>3
  <2> QED BY <1>1, <2>3, <2>4, <2>5
<1>3. Tables!WithRoom(ports, 0, need, room) = f[1 .. l]
  <2>1. \A s : Tables!Max(s) = Max(s)
    BY Zenon DEF Tables!Max, Max
  <2> QED BY <1>2, <2>1 DEF Tables!WithRoom, Tables!FoldLeft, Tables!MapThenFoldSet
<1> HIDE DEF via, C, l
<1>4. \A q : Iter(q) <=> IsFilter(q, l, via, Good)
  <2>1. \A x : (via[x] \in DOMAIN room /\ room[via[x]] >= need) <=> via[x] \in Good
    OBVIOUS
  <2> HIDE DEF Good
  <2> QED BY <1>2, <2>1 DEF IsFilter
<1> HIDE DEF Iter, Good
<1>5. IsFilter(f, l, via, Good)
  BY <1>1, <1>2, <1>4, FilterIs
<1> HIDE DEF f
<1>6. f[1 .. l] \in Seq(C) /\ Range(f[1 .. l]) = Range(via) \cap Good
  <2>1. IsPart(f[1 .. l], C, via, Good)
    BY <1>1, <1>2, <1>5, FilterIs
  <2> QED BY <2>1 DEF IsPart
<1>7. Range(via) \cap Good = {c \in {con(p) : p \in Range(ports)} : c \in DOMAIN room /\ room[c] >= need}
  BY <1>2 DEF Good
<1>8. AreRoomy(f[1 .. l], S, ports, need, room)
  BY <1>6, <1>7 DEF AreRoomy, C
<1> QED BY <1>3, <1>8

\* Where a list has at most the connection that has room, the strategy answers it or
\* none, and it answers it if it is in the list.
LEMMA AppliedToOne ==
  ASSUME case.strategy \in Tables!Strategies \ {"CIRCULANT_VIRTUAL_RING_SPLIT"},
         case.depth \in Nat, case.depth > 0, NEW f \in Flits, NEW S, S \subseteq Nat,
         NEW cons \in Seq([port : S, vc : {0, 1}]), NEW con, Range(cons) \subseteq {con}
  PROVE  /\ Tables!Apply(Seen(f), cons, Room(con)) \subseteq {Ring(f, c) : c \in Range(cons)} \cup {Tables!NoConnection}
         /\ con \in Range(cons) => Ring(f, con) \in Tables!Apply(Seen(f), cons, Room(con))
<1> DEFINE C == [port : S, vc : {0, 1}]
           None == Tables!NoConnection
           R == Range(cons)
           usable == Tables!Range(cons) \cap DOMAIN Room(con)
<1>1. DOMAIN Room(con) = {con} /\ Room(con)[con] = case.depth /\ Tables!Range(cons) = R /\ usable = R
  BY DEF Room, Tables!Range, Range
<1>2. \A c \in C : c.port \in Nat
  OBVIOUS
<1>3. R = {} \/ R = {con}
  OBVIOUS
<1> HIDE DEF R
<1>4. ASSUME case.strategy \in {"RANDOM", "BUFFER_LEVEL", "KEEP_SPACE", "RANDOM_KEEP_SPACE"}
      PROVE  Tables!Apply(Seen(f), cons, Room(con)) = Tables!OrNone(R) /\ \A c \in R : Ring(f, c) = c
  <2> DEFINE whole == {c \in usable : Room(con)[c] >= case.depth}
             most == Tables!MostSlots(usable, Room(con))
  <2>1. \A c \in R : c = con
    BY <1>3
  <2>2. whole = usable /\ most = usable
    <3> HIDE DEF usable
    <3> QED BY <1>1, <2>1 DEF Tables!MostSlots
  <2> HIDE DEF usable
  <2>3. Tables!Apply(Seen(f), cons, Room(con)) = Tables!OrNone(R)
    <3>1. Tables!Apply(Seen(f), cons, Room(con)) \in {Tables!OrNone(Tables!Range(cons)), Tables!OrNone(usable)}
      BY <1>4, <2>2 DEF Tables!Apply, usable
    <3> QED BY <1>1, <3>1
  <2>4. ASSUME NEW c \in R PROVE Ring(f, c) = c
    <3>1. c \in C
      <4> cons \in Seq(C)
        OBVIOUS
      <4> HIDE DEF C
      <4> QED BY DEF R, Range
    <3> QED BY <1>4, <3>1 DEF Ring
  <2> QED BY <2>3, <2>4
<1>5. ASSUME case.strategy = "CIRCULANT_VIRTUAL_DISTRIBUTION"
      PROVE  Tables!Apply(Seen(f), cons, Room(con)) = Tables!OrNone({Ring(f, c) : c \in R})
  <2>1. \A c \in R : [c EXCEPT !.vc = Tables!DistributedVC(Seen(f))] = Ring(f, c)
    <3> SUFFICES ASSUME NEW c \in R PROVE [c EXCEPT !.vc = Tables!DistributedVC(Seen(f))] = Ring(f, c)
      OBVIOUS
    <3>1. c \in C
      <4> cons \in Seq(C)
        OBVIOUS
      <4> HIDE DEF C
      <4> QED BY DEF R, Range
    <3> QED BY <1>5, <3>1 DEF Ring
  <2> DEFINE moved == {[c EXCEPT !.vc = Tables!DistributedVC(Seen(f))] : c \in Tables!Range(cons)}
  <2>2. Tables!Apply(Seen(f), cons, Room(con)) = Tables!OrNone(moved)
    BY <1>5 DEF Tables!Apply
  <2>3. moved = {Ring(f, c) : c \in R}
    BY <1>1, <2>1
  <2> QED BY <2>2, <2>3
<1>6. ASSUME case.strategy = "CIRCULANT_RING_SPLIT"
      PROVE  /\ Tables!Apply(Seen(f), cons, Room(con)) \subseteq R \cup {None}
             /\ con \in R => con \in Tables!Apply(Seen(f), cons, Room(con))
             /\ \A c \in R : Ring(f, c) = c
  <2>1. Tables!Apply(Seen(f), cons, Room(con)) = {Tables!HighestPort(cons, Room(con))}
    BY <1>6 DEF Tables!Apply
  <2>2. cons \in Seq(C)
    OBVIOUS
  <2> HIDE DEF C
  <2>3. LET best == Tables!HighestPort(cons, Room(con))
        IN  /\ best \in Range(cons) \cup {None}
            /\ \A c \in Range(cons) :
                  c \in DOMAIN Room(con) /\ Room(con)[c] >= 1
                  /\ (\A e \in Range(cons) : e = c \/ e.port < c.port) => best = c
    BY <1>2, <2>2, HighestPortIs
  <2>4. con \in R => Tables!HighestPort(cons, Room(con)) = con
    BY <1>1, <1>3, <2>3 DEF R
  <2>5. \A c \in R : c \in C
    BY <2>2 DEF R, Range
  <2>6. \A c \in R : Ring(f, c) = c
    BY <1>6, <2>5 DEF Ring, C
  <2> QED BY <2>1, <2>3, <2>4, <2>6 DEF R
<1>7. case.strategy \in {"RANDOM", "BUFFER_LEVEL", "KEEP_SPACE", "RANDOM_KEEP_SPACE",
                         "CIRCULANT_VIRTUAL_DISTRIBUTION", "CIRCULANT_RING_SPLIT"}
  BY DEF Tables!Strategies
<1> QED BY <1>3, <1>4, <1>5, <1>6, <1>7 DEF R, Tables!OrNone

\* The ports of the two tables lead nearer to the destination, in the graph and in the
\* subnetwork, whose ports come behind those of the graph.
OnMain(f, p) == p \in Leading(case.graph, f.node, f.dst)
OnSub(f, p) == \E k \in Leading(net.sub, f.node, f.dst) : p = Len(case.graph[f.node]) + k

LEMMA PromotedPorts ==
  ASSUME IsPhysicalCase(case), Doubled, NEW n \in Nodes, NEW d \in Nodes, n # d
  PROVE  /\ net.subtable[n][d] \in Seq(DOMAIN net.graph[n])
         /\ \A p : p \in Range(net.subtable[n][d]) <=> \E k \in Leading(net.sub, n, d) : p = Len(case.graph[n]) + k
<1> DEFINE a == Len(case.graph[n])
           b == Len(net.sub[n])
           t == LoadDijkstra(net.sub)[n][d]
           u == net.subtable[n][d]
<1>1. /\ IsGraph(net.sub) /\ DOMAIN net.sub = Nodes /\ a \in Nat /\ b \in Nat
      /\ DOMAIN net.sub[n] = 1 .. b /\ DOMAIN net.graph[n] = 1 .. a + b
  BY DoubledPorts
<1>2. t \in Seq(1 .. b) /\ Range(t) = Leading(net.sub, n, d)
  BY <1>1, DijkstraPorts
<1>3. u = [k \in DOMAIN t |-> t[k] + a]
  <2>1. DOMAIN LoadDijkstra(net.sub) = Nodes /\ DOMAIN LoadDijkstra(net.sub)[n] = Nodes
    BY <1>1 DEF LoadDijkstra
  <2> QED BY <2>1 DEF Doubled, Promote
<1> HIDE DEF a, b, t, u
<1>4. \A k \in DOMAIN t : t[k] \in 1 .. b /\ t[k] + a \in 1 .. a + b /\ t[k] + a = a + t[k]
  BY <1>1, <1>2
<1>5. u \in Seq(1 .. a + b)
  <2> DEFINE l == Len(t)
             S == 1 .. a + b
  <2>1. DOMAIN t = 1 .. l /\ l \in Nat
    BY <1>2
  <2> HIDE DEF l
  <2>2. u \in [1 .. l -> S]
    BY <1>3, <1>4, <2>1
  <2> HIDE DEF S
  <2>3. u \in Seq(S)
    BY <2>1, <2>2
  <2> QED BY <2>3 DEF S
<1>6. \A p : p \in Range(u) <=> \E k \in Range(t) : p = a + k
  BY <1>3, <1>4 DEF Range
<1> QED BY <1>1, <1>2, <1>5, <1>6 DEF a, b, u

\* A packet that came over the subnetwork came by a port that its table names.
LEMMA FromSub ==
  ASSUME IsPhysicalCase(case), Doubled, NEW f \in Flits, InSubnetwork(f)
  PROVE  Tables!FromSubnetwork(Seen(f))
<1> DEFINE n == f.node
           a == Len(case.graph[n])
           b == Len(net.sub[n])
           k == f.port_in - a
           m == net.sub[n][k]
<1>1. n \in Nodes
  BY DEF Flits
<1>2. /\ IsGraph(net.sub) /\ DOMAIN net.sub = Nodes /\ a \in Nat /\ b \in Nat
      /\ DOMAIN net.sub[n] = 1 .. b /\ Len(net.graph[n]) = a + b /\ Cardinality(Nodes) < Inf
  BY <1>1, DoubledPorts
<1>3. f.port_in \in a + 1 .. a + b
  <2>1. f.port_in \in Len(case.graph[f.node]) + 1 .. Len(net.graph[f.node])
    BY DEF InSubnetwork, IsPhysicalCase
  <2> QED BY <1>2, <2>1
<1> HIDE DEF a, b
<1>4. k \in 1 .. b /\ a + k = f.port_in
  BY <1>2, <1>3
<1>5. m \in Nodes /\ m \in Range(net.sub[n])
  <2>1. net.sub[n] \in Seq(Nodes)
    BY <1>1, <1>2 DEF IsGraph
  <2> QED BY <1>2, <1>4, <2>1 DEF Range
<1>6. m # n /\ IsConnected(net.sub)
  BY <1>1, <1>2, <1>5 DEF Doubled, IsSubnetwork
<1>7. IsDistance(net.sub, m, Weights(net.sub, m))
  BY <1>2, <1>5, <1>6, DijkstraDistances
<1>8. Weights(net.sub, m)[n] = 1
  <2> DEFINE w == Weights(net.sub, m)
  <2>1. /\ w \in [Nodes -> Nat] /\ w[m] = 0
        /\ \A i \in Nodes : \A j \in Range(net.sub[i]) : w[j] <= w[i] + 1
        /\ \A i \in Nodes \ {m} : \E j \in Nodes : w[j] = w[i] - 1
    BY <1>2, <1>7 DEF IsDistance
  <2>2. n \in Range(net.sub[m])
    BY <1>1, <1>2, <1>5, LinkedBack
  <2>3. w[n] <= 1 /\ w[n] \in Nat
    BY <1>1, <1>5, <2>1, <2>2
  <2>4. w[n] # 0
    <3>1. PICK j \in Nodes : w[j] = w[n] - 1
      BY <1>1, <1>6, <2>1
    <3>2. w[j] \in Nat
      BY <2>1
    <3> QED BY <2>3, <3>1, <3>2
  <2> HIDE DEF w
  <2> QED BY <2>3, <2>4 DEF w
<1>9. k \in Leading(net.sub, n, m)
  <2>1. Weights(net.sub, m)[m] = 0
    BY <1>7 DEF IsDistance
  <2> QED BY <1>2, <1>4, <1>8, <2>1 DEF Leading
<1>10. f.port_in \in Range(net.subtable[n][m])
  BY <1>1, <1>4, <1>5, <1>6, <1>9, PromotedPorts DEF a
<1>11. m \in DOMAIN net.subtable[n]
  <2>1. DOMAIN net.subtable[n] = Nodes
    BY <1>1, <1>2 DEF Doubled, Promote, LoadDijkstra
  <2> QED BY <1>5, <2>1
<1>12. Seen(f).node = n /\ Seen(f).port_in = f.port_in
  BY DEF Seen
<1>13. Tables!Range(net.subtable[n][m]) = Range(net.subtable[n][m])
  BY DEF Tables!Range, Range
<1> QED BY <1>10, <1>11, <1>12, <1>13 DEF Tables!FromSubnetwork

\* The buffers have as much room as the algorithm asks for.
Fits == case.depth >= Tables!MainSlots([len |-> case.length])

\* Of the connections that ViaSubnetwork lists, there is at most the one that has
\* room; it leads on by one of the tables, and if the packet has to stay in the
\* subnetwork by that of the subnetwork, whose connections are listed if they fit.
LEMMA ViaIs ==
  ASSUME IsPhysicalCase(case), Doubled, NEW f \in Flits, OnItsWay(f), NEW con
  PROVE  LET cons == Tables!ViaSubnetwork(Seen(f), Room(con))
         IN  /\ cons \in Seq([port : DOMAIN net.graph[f.node], vc : {0, 1}])
             /\ Range(cons) \subseteq {con}
             /\ \A c \in Range(cons) : OnMain(f, c.port) \/ OnSub(f, c.port)
             /\ case.alg = "FIXED_SUBNETWORK" /\ InSubnetwork(f) => \A c \in Range(cons) : OnSub(f, c.port)
             /\ \A p : Fits /\ OnSub(f, p) /\ con = [port |-> p, vc |-> 0] => con \in Range(cons)
<1> DEFINE n == f.node
           d == f.dst
           a == Len(case.graph[n])
           b == Len(net.sub[n])
           S == DOMAIN net.graph[n]
           C == [port : S, vc : {0, 1}]
           ports == net.table[n][d]
           subports == net.subtable[n][d]
           need == Tables!MainSlots(Seen(f))
           subneed == Tables!SubSlots(Seen(f))
           con0(p) == [port |-> p, vc |-> 0]
           main == Tables!WithRoom(ports, 0, need, Room(con))
           sub == Tables!WithRoom(subports, 0, subneed, Room(con))
           fixed == case.alg = "FIXED_SUBNETWORK" /\ Tables!FromSubnetwork(Seen(f))
           cons == Tables!ViaSubnetwork(Seen(f), Room(con))
<1>1. n \in Nodes /\ d \in Nodes /\ n # d
  BY DEF Flits, OnItsWay
<1>2. /\ IsGraph(case.graph) /\ DOMAIN case.graph = Nodes /\ a \in Nat /\ b \in Nat
      /\ DOMAIN case.graph[n] = 1 .. a /\ DOMAIN net.sub[n] = 1 .. b /\ S = 1 .. a + b
  BY <1>1, DoubledPorts DEF Nodes
<1>3. Seen(f).node = n /\ Seen(f).dst = d /\ Seen(f).len = case.length
  BY DEF Seen
<1>4. Tables!SubVC = 0
  BY DEF IsPhysicalCase, Tables!SubVC
<1>5. cons = IF fixed \/ main = <<>> THEN sub ELSE main
  BY <1>3, <1>4 DEF Tables!ViaSubnetwork
<1>6. DOMAIN Room(con) = {con} /\ Room(con)[con] = case.depth
  BY DEF Room
<1>7. ports \in Seq(S) /\ \A p : p \in Range(ports) <=> OnMain(f, p)
  <2>1. ports \in Seq(1 .. a) /\ Range(ports) = Leading(case.graph, n, d)
    BY <1>1, <1>2, DijkstraPorts DEF Doubled
  <2> HIDE DEF a, b, ports
  <2>2. 1 .. a \subseteq 1 .. a + b
    BY <1>2
  <2>3. ports \in Seq(1 .. a + b)
    <3> DEFINE A == 1 .. a
               B == 1 .. a + b
    <3>1. ports \in Seq(A) /\ A \subseteq B
      BY <2>1, <2>2
    <3> HIDE DEF A, B
    <3>2. ports \in Seq(B)
      BY <3>1
    <3> QED BY <3>2 DEF B
  <2> QED BY <1>2, <2>1, <2>3 DEF OnMain
<1>8. subports \in Seq(S) /\ \A p : p \in Range(subports) <=> OnSub(f, p)
  BY <1>1, PromotedPorts DEF OnSub
<1> HIDE DEF S, ports, subports, a, b, n, d, need, subneed
<1>9. main \in Seq(C) /\ Range(main) = {c \in {con0(p) : p \in Range(ports)} : c \in DOMAIN Room(con) /\ Room(con)[c] >= need}
  <2>1. AreRoomy(main, S, ports, need, Room(con))
    BY <1>7, WithRoomIs
  <2> HIDE DEF main
  <2> QED BY <2>1 DEF AreRoomy
<1>10. sub \in Seq(C) /\ Range(sub) = {c \in {con0(p) : p \in Range(subports)} : c \in DOMAIN Room(con) /\ Room(con)[c] >= subneed}
  <2>1. AreRoomy(sub, S, subports, subneed, Room(con))
    BY <1>8, WithRoomIs
  <2> HIDE DEF sub
  <2> QED BY <2>1 DEF AreRoomy
<1> HIDE DEF main, sub, cons, C, fixed
<1>11. \A c \in Range(main) : c = con /\ OnMain(f, c.port)
  BY <1>6, <1>7, <1>9
<1>12. \A c \in Range(sub) : c = con /\ OnSub(f, c.port)
  BY <1>6, <1>8, <1>10
<1>13. cons \in Seq(C) /\ Range(cons) \subseteq {con} /\ \A c \in Range(cons) : OnMain(f, c.port) \/ OnSub(f, c.port)
  BY <1>5, <1>9, <1>10, <1>11, <1>12
<1>14. ASSUME case.alg = "FIXED_SUBNETWORK", InSubnetwork(f), NEW c \in Range(cons)
       PROVE  OnSub(f, c.port)
  <2>1. fixed
    BY <1>14, FromSub DEF fixed
  <2> QED BY <1>5, <1>12, <1>14, <2>1
<1>15. ASSUME NEW p, Fits, OnSub(f, p), con = [port |-> p, vc |-> 0]
       PROVE  con \in Range(cons)
  <2>1. PICK k \in Leading(net.sub, n, d) : p = a + k
    BY <1>15 DEF OnSub, n, d, a
  <2>2. k \in 1 .. b
    BY <1>2, <2>1 DEF Leading
  <2>3. ~OnMain(f, p)
    <3>1. Leading(case.graph, n, d) \subseteq 1 .. a
      BY <1>2 DEF Leading
    <3>2. p \notin 1 .. a
      BY <1>2, <2>1, <2>2
    <3> QED BY <3>1, <3>2 DEF OnMain, n, d
  <2>4. Range(main) = {}
    BY <1>11, <1>15, <2>3
  <2>5. main = <<>>
    BY <1>9, <2>4 DEF Range
  <2>6. case.depth >= subneed
    <3>1. need = Tables!MainSlots([len |-> case.length])
      BY <1>3 DEF need, Tables!MainSlots
    <3>2. case.alg = "BYPASS" => need = case.length + 5
      BY <1>3 DEF need, Tables!MainSlots
    <3>3. subneed \in {need, case.length} /\ (case.alg # "BYPASS" => subneed = need)
      BY <1>3 DEF need, subneed, Tables!SubSlots
    <3>4. case.depth \in Nat /\ case.length \in Nat /\ case.depth >= need
      BY <1>15, <3>1 DEF Fits, IsPhysicalCase
    <3> QED BY <3>2, <3>3, <3>4
  <2>7. con \in Range(sub)
    BY <1>6, <1>8, <1>10, <1>15, <2>6
  <2> QED BY <1>5, <2>5, <2>7
<1> QED BY <1>13, <1>14, <1>15 DEF cons, C, S, n

LEMMA PhysicalOutputs ==
  ASSUME IsPhysicalCase(case), NEW f \in Flits, OnItsWay(f)
  PROVE  \A out : out \in Outputs(f) <=>
            /\ out # Tables!NoConnection
            /\ \E con \in [port : DOMAIN net.graph[f.node], vc : {0, 1}] :
                  out \in Tables!Apply(Seen(f), Tables!ViaSubnetwork(Seen(f), Room(con)), Room(con))
<1>1. \A con : Offered(f, con) = Tables!Apply(Seen(f), Tables!ViaSubnetwork(Seen(f), Room(con)), Room(con))
  <2>1. case.alg \in Tables!SubAlgorithms /\ f.dst # f.node
    BY DEF IsPhysicalCase, Tables!SubAlgorithms, OnItsWay
  <2>2. Seen(f).dst = f.dst /\ Seen(f).node = f.node
    BY DEF Seen
  <2> QED BY <2>1, <2>2 DEF Offered, Tables!FindDestination, Tables!Route, Seen, Room
<1>2. Outputs(f) = (UNION {Offered(f, con) : con \in [port : DOMAIN net.graph[f.node], vc : {0, 1}]})
                   \ {Tables!NoConnection}
  BY DEF IsPhysicalCase, Outputs, Tables!NoConnection
<1> QED BY <1>1, <1>2

\* The packet is sent by a port of one of the tables, if it has to stay in the
\* subnetwork by one of the subnetwork's; and there is always one.
LEMMA PhysicalHop ==
  ASSUME IsPhysicalCase(case), Doubled, NEW f \in Flits, OnItsWay(f)
  PROVE  /\ \A out \in Outputs(f) :
               /\ out.port \in DOMAIN net.graph[f.node] /\ out.vc \in {0, 1}
               /\ OnMain(f, out.port) \/ OnSub(f, out.port)
               /\ case.alg = "FIXED_SUBNETWORK" /\ InSubnetwork(f) => OnSub(f, out.port)
         /\ Fits => \E out \in Outputs(f) : OnSub(f, out.port)
<1> DEFINE S == DOMAIN net.graph[f.node]
           None == Tables!NoConnection
<1>1. f.node \in Nodes /\ f.dst \in Nodes /\ f.node # f.dst /\ f.vc \in {0, 1}
  BY DEF Flits, OnItsWay
<1>2. S \subseteq Nat /\ -1 \notin S
  <2>1. Len(case.graph[f.node]) \in Nat /\ Len(net.sub[f.node]) \in Nat
        /\ S = 1 .. Len(case.graph[f.node]) + Len(net.sub[f.node])
    BY <1>1, DoubledPorts
  <2> DEFINE a == Len(case.graph[f.node])
             b == Len(net.sub[f.node])
             l == a + b
  <2>2. S = 1 .. l /\ l \in Nat
    <3>1. a \in Nat /\ b \in Nat /\ S = 1 .. a + b
      BY <2>1
    <3> HIDE DEF a, b, S
    <3> QED BY <3>1
  <2> HIDE DEF l, S
  <2> QED BY <2>2
<1>3. /\ case.strategy \in Tables!Strategies \ {"CIRCULANT_VIRTUAL_RING_SPLIT"}
      /\ case.depth \in Nat /\ case.depth > 0
  BY DEF IsPhysicalCase
<1>4. ASSUME NEW con
      PROVE  LET cons == Tables!ViaSubnetwork(Seen(f), Room(con))
             IN  /\ Tables!Apply(Seen(f), cons, Room(con)) \subseteq {Ring(f, c) : c \in Range(cons)} \cup {None}
                 /\ con \in Range(cons) => Ring(f, con) \in Tables!Apply(Seen(f), cons, Room(con))
  <2> DEFINE cons == Tables!ViaSubnetwork(Seen(f), Room(con))
  <2>1. cons \in Seq([port : S, vc : {0, 1}]) /\ Range(cons) \subseteq {con}
    BY ViaIs
  <2> HIDE DEF cons, S, None
  <2>2. /\ Tables!Apply(Seen(f), cons, Room(con)) \subseteq {Ring(f, c) : c \in Range(cons)} \cup {Tables!NoConnection}
        /\ con \in Range(cons) => Ring(f, con) \in Tables!Apply(Seen(f), cons, Room(con))
    BY <1>2, <1>3, <2>1, AppliedToOne
  <2> QED BY <2>2 DEF cons, None
<1>5. \A c \in [port : S, vc : {0, 1}] :
         Ring(f, c) = [port |-> c.port, vc |-> Ring(f, c).vc] /\ Ring(f, c).vc \in {0, 1} /\ Ring(f, c) # None
  <2> HIDE DEF S
  <2>1. \A c \in [port : S, vc : {0, 1}] : c.port # -1 /\ c.vc \in {0, 1}
    BY <1>2
  <2>2. Tables!DistributedVC(Seen(f)) \in {0, 1}
    BY <1>1 DEF Tables!DistributedVC, Seen
  <2>3. \A c \in [port : S, vc : {0, 1}] : Ring(f, c).port = c.port /\ Ring(f, c).vc \in {0, 1}
                                            /\ Ring(f, c) = [port |-> c.port, vc |-> Ring(f, c).vc]
    BY <1>3, <2>1, <2>2 DEF Ring
  <2>4. None.port = -1
    BY DEF Tables!NoConnection
  <2> HIDE DEF None
  <2> QED BY <2>1, <2>3, <2>4
<1>6. ASSUME NEW out \in Outputs(f)
      PROVE  /\ out.port \in S /\ out.vc \in {0, 1}
             /\ OnMain(f, out.port) \/ OnSub(f, out.port)
             /\ case.alg = "FIXED_SUBNETWORK" /\ InSubnetwork(f) => OnSub(f, out.port)
  <2>1. out # None /\ \E con : out \in Tables!Apply(Seen(f), Tables!ViaSubnetwork(Seen(f), Room(con)), Room(con))
    BY PhysicalOutputs
  <2>2. PICK con : out \in Tables!Apply(Seen(f), Tables!ViaSubnetwork(Seen(f), Room(con)), Room(con))
    BY <2>1
  <2> DEFINE cons == Tables!ViaSubnetwork(Seen(f), Room(con))
  <2>3. /\ cons \in Seq([port : S, vc : {0, 1}])
        /\ \A c \in Range(cons) : OnMain(f, c.port) \/ OnSub(f, c.port)
        /\ case.alg = "FIXED_SUBNETWORK" /\ InSubnetwork(f) => \A c \in Range(cons) : OnSub(f, c.port)
    BY ViaIs
  <2>4. PICK c \in Range(cons) : out = Ring(f, c)
    BY <1>4, <2>1, <2>2
  <2> HIDE DEF cons, S, None
  <2>5. c \in [port : S, vc : {0, 1}]
    <3> DEFINE C == [port : S, vc : {0, 1}]
    <3>1. cons \in Seq(C)
      BY <2>3
    <3> HIDE DEF C
    <3>2. c \in C
      BY <2>4, <3>1 DEF Range
    <3> QED BY <3>2 DEF C
  <2>6. out.port = c.port /\ c.port \in S /\ out.vc \in {0, 1}
    BY <1>5, <2>4, <2>5
  <2> QED BY <2>3, <2>4, <2>6
<1>7. ASSUME Fits PROVE \E out \in Outputs(f) : OnSub(f, out.port)
  <2>1. IsGraph(net.sub) /\ DOMAIN net.sub = Nodes /\ IsConnected(net.sub) /\ Cardinality(Nodes) < Inf
    BY DoubledPorts DEF Doubled, IsSubnetwork
  <2>2. IsDistance(net.sub, f.dst, Weights(net.sub, f.dst))
    BY <1>1, <2>1, DijkstraDistances
  <2>3. PICK k \in DOMAIN net.sub[f.node] :
           Weights(net.sub, f.dst)[net.sub[f.node][k]] = Weights(net.sub, f.dst)[f.node] - 1
    BY <1>1, <2>1, <2>2 DEF IsDistance, Range
  <2> DEFINE p == Len(case.graph[f.node]) + k
             con == [port |-> p, vc |-> 0]
             cons == Tables!ViaSubnetwork(Seen(f), Room(con))
  <2>4. OnSub(f, p)
    BY <2>3 DEF OnSub, Leading
  <2>5. con \in Range(cons)
    <3> HIDE DEF p
    <3> QED BY <1>7, <2>4, ViaIs
  <2>6. p \in S
    <3> DEFINE a == Len(case.graph[f.node])
               b == Len(net.sub[f.node])
    <3>1. a \in Nat /\ b \in Nat /\ DOMAIN net.sub[f.node] = 1 .. b /\ S = 1 .. a + b
      BY <1>1, DoubledPorts
    <3> HIDE DEF a, b, S
    <3>2. a + k \in 1 .. a + b
      BY <3>1
    <3> QED BY <3>1, <3>2 DEF a
  <2> HIDE DEF p, S
  <2>7. con \in [port : S, vc : {0, 1}]
    BY <2>6
  <2>8. Ring(f, con) # None /\ Ring(f, con).port = p
    BY <1>5, <2>7
  <2>9. Ring(f, con) \in Tables!Apply(Seen(f), cons, Room(con))
    BY <1>4, <2>5
  <2> HIDE DEF con
  <2>10. Ring(f, con) \in Outputs(f)
    BY <2>7, <2>8, <2>9, PhysicalOutputs DEF S
  <2> QED BY <2>4, <2>8, <2>10
<1> QED BY <1>6, <1>7 DEF S

\* A packet is in the subnetwork if it was sent by a port of the subnetwork.
LEMMA SentSide ==
  ASSUME IsPhysicalCase(case), Doubled, Laid, Apart, NEW f \in Flits,
         NEW con, con.port \in DOMAIN net.graph[f.node], con.vc \in {0, 1}
  PROVE  InSubnetwork(Sent(f, con)) <=> con.port \notin DOMAIN case.graph[f.node]
<1> DEFINE to == bound[<<f.node, con.port>>]
           g == Sent(f, con)
           a == Len(case.graph[to[1]])
           b == Len(net.sub[to[1]])
<1>1. f.node \in Nodes
  BY DEF Flits
<1>2. to[1] \in Nodes /\ to[2] \in DOMAIN net.graph[to[1]]
  BY <1>1 DEF Laid, Linked
<1>3. con.port \in DOMAIN case.graph[f.node] <=> to[2] \in DOMAIN case.graph[to[1]]
  BY <1>1 DEF Apart
<1>4. g.node = to[1] /\ g.port_in = to[2]
  <2>1. g = [f EXCEPT !.node = to[1], !.port_in = to[2], !.port_out = con.port, !.vc = con.vc]
    BY DEF Sent
  <2> HIDE DEF g, to
  <2> QED BY <2>1 DEF Flits
<1>5. InSubnetwork(g) <=> to[2] \in a + 1 .. Len(net.graph[to[1]])
  BY <1>4 DEF InSubnetwork, IsPhysicalCase
<1>6. /\ a \in Nat /\ b \in Nat /\ DOMAIN case.graph[to[1]] = 1 .. a /\ Len(net.graph[to[1]]) = a + b
      /\ DOMAIN net.graph[to[1]] = 1 .. a + b
  BY <1>2, DoubledPorts
<1> HIDE DEF a, b, g, to
<1>7. to[2] \in a + 1 .. a + b <=> to[2] \notin 1 .. a
  BY <1>2, <1>6
<1> QED BY <1>3, <1>5, <1>6, <1>7 DEF g

\* The configuration has a physical subnetwork, and what was generated is one.
Physical == IsPhysicalCase(case) /\ IsSubnetwork(net.sub, case.graph)

PhysicalInv == Physical => Doubled /\ Laid /\ Apart /\ (h # Absent => Located(h))

LEMMA PhysicalNext ==
  ASSUME UNCHANGED <<case, net, bound>>
  PROVE  (Physical' => Physical) /\ (Physical => Physical') /\ (Doubled => Doubled') /\ (Apart => Apart')
<1>1. Physical' => Physical
  BY Zenon DEF Physical, IsPhysicalCase
<1>2. Physical => Physical'
  BY Zenon DEF Physical, IsPhysicalCase
<1>3. Doubled => Doubled'
  BY Zenon DEF Doubled
<1>4. Apart => Apart'
  BY Zenon DEF Apart, Nodes
<1> QED BY <1>1, <1>2, <1>3, <1>4

LEMMA PhysicalInvHolds == Spec => []PhysicalInv
<1>1. Init => PhysicalInv
  <2> SUFFICES ASSUME Init, IsPhysicalCase(case), IsSubnetwork(net.sub, case.graph)
               PROVE  Doubled /\ Laid /\ Apart /\ h = Absent
    BY DEF PhysicalInv, Physical
  <2>1. Doubled
    <3>1. PICK sub \in Subgraphs(case.graph, case.generator) :
             net = [graph    |-> IF case.subnetwork = "PHYSICAL" THEN Together(case.graph, sub) ELSE case.graph,
                    table    |-> TableFor(case),
                    sub      |-> sub,
                    subtable |-> IF case.subnetwork = "PHYSICAL" THEN Promote(LoadDijkstra(sub), case.graph)
                                 ELSE Adjust(LoadDijkstra(sub), sub, case.graph)]
      BY DEF Init, IsPhysicalCase, Networks
    <3>2. TableFor(case) = LoadDijkstra(case.graph)
      BY DEF IsPhysicalCase, TableFor
    <3>3. net.graph = Together(case.graph, sub) /\ net.table = LoadDijkstra(case.graph) /\ net.sub = sub
          /\ net.subtable = Promote(LoadDijkstra(sub), case.graph)
      BY <3>1, <3>2 DEF IsPhysicalCase
    <3> QED BY <3>3 DEF Doubled
  <2> QED BY <2>1, DoubledApart DEF Init
<1>2. PhysicalInv /\ [Next]_vars => PhysicalInv'
  <2> SUFFICES ASSUME PhysicalInv, [Next]_vars, Physical'
               PROVE  Doubled' /\ Laid' /\ Apart' /\ ((h # Absent)' => Located(h)')
    BY DEF PhysicalInv
  <2>1. UNCHANGED <<case, net, bound>>
    BY DEF Next, Inject, Forward, vars
  <2>2. Physical /\ Doubled /\ Laid /\ Apart /\ (h # Absent => Located(h))
    BY <2>1, PhysicalNext DEF PhysicalInv
  <2>3. Doubled' /\ Laid' /\ Apart'
    BY <2>1, <2>2, PhysicalNext, LaidNext
  <2>4. CASE Inject
    <3>1. h' \in Injected
      BY <2>4 DEF Inject
    <3> QED BY <2>1, <2>2, <2>3, <3>1, InjectedLocated, LaidNext
  <2>5. CASE Forward
    <3>1. PICK con \in Outputs(h) : h' = Sent(h, con)
      BY <2>5 DEF Forward
    <3>2. h \in Flits /\ OnItsWay(h)
      BY <2>2, <2>5 DEF Forward, Located
    <3>3. con.port \in DOMAIN net.graph[h.node] /\ con.vc \in {0, 1}
      BY <2>2, <3>2, PhysicalHop DEF Physical
    <3>4. Located(Sent(h, con))
      BY <2>2, <3>2, <3>3, SentLocated
    <3> QED BY <2>1, <2>2, <2>3, <3>1, <3>4, LaidNext
  <2>6. CASE UNCHANGED vars
    <3>1. h' = h
      BY <2>6 DEF vars
    <3> QED BY <2>1, <2>2, <2>3, <3>1, LaidNext
  <2> QED BY <2>4, <2>5, <2>6 DEF Next
<1> QED BY <1>1, <1>2, PTL DEF Spec

LEMMA PhysicalKept == Spec => (Physical => []Physical)
<1>1. Physical /\ [Next]_vars => Physical'
  BY PhysicalNext DEF Next, Inject, Forward, vars
<1> QED BY <1>1, PTL DEF Spec

\* What a hop does: the packet comes nearer to where it is going in the graph or in the
\* subnetwork, by whose relay it is received.
LEMMA PhysicalStep ==
  ASSUME PhysicalInv, Physical, [Next]_vars, ~(UNCHANGED vars), h # Absent
  PROVE  /\ LET distance == Weights(IF InSubnetwork(h') THEN net.sub ELSE case.graph, h.dst)
            IN  distance[h'.node] = distance[h.node] - 1
         /\ case.alg = "FIXED_SUBNETWORK" /\ InSubnetwork(h) => InSubnetwork(h')
<1> DEFINE n == h.node
           d == h.dst
           a == Len(case.graph[n])
           b == Len(net.sub[n])
<1>1. UNCHANGED <<case, net, bound>> /\ OnItsWay(h)
  BY HopIs
<1>2. PICK con \in Outputs(h) : h' = Sent(h, con)
  BY HopIs
<1>3. IsPhysicalCase(case) /\ Doubled /\ Laid /\ Apart /\ h \in Flits /\ n \in Nodes
  BY DEF PhysicalInv, Physical, Located, Flits
<1>4. /\ con.port \in DOMAIN net.graph[n] /\ con.vc \in {0, 1}
      /\ OnMain(h, con.port) \/ OnSub(h, con.port)
      /\ case.alg = "FIXED_SUBNETWORK" /\ InSubnetwork(h) => OnSub(h, con.port)
  BY <1>1, <1>3, PhysicalHop
<1>5. h'.node = net.graph[n][con.port]
  BY <1>2, <1>3, <1>4, SentLocated
<1>6. InSubnetwork(h') <=> con.port \notin DOMAIN case.graph[n]
  <2>1. InSubnetwork(Sent(h, con)) <=> con.port \notin DOMAIN case.graph[n]
    BY <1>3, <1>4, SentSide
  <2> QED BY <1>2, <2>1
<1>7. /\ a \in Nat /\ b \in Nat /\ DOMAIN case.graph[n] = 1 .. a /\ DOMAIN net.sub[n] = 1 .. b
      /\ \A k \in 1 .. a : net.graph[n][k] = case.graph[n][k]
      /\ \A k \in 1 .. b : net.graph[n][a + k] = net.sub[n][k]
  BY <1>3, DoubledPorts
<1> HIDE DEF a, b
<1>8. ASSUME OnMain(h, con.port)
      PROVE  ~InSubnetwork(h') /\ Weights(case.graph, d)[h'.node] = Weights(case.graph, d)[n] - 1
  BY <1>5, <1>6, <1>7, <1>8 DEF OnMain, Leading
<1>9. ASSUME OnSub(h, con.port)
      PROVE  InSubnetwork(h') /\ Weights(net.sub, d)[h'.node] = Weights(net.sub, d)[n] - 1
  <2>1. PICK k \in Leading(net.sub, n, d) : con.port = a + k
    BY <1>9 DEF OnSub, a
  <2>2. k \in 1 .. b /\ Weights(net.sub, d)[net.sub[n][k]] = Weights(net.sub, d)[n] - 1
    BY <1>7, <2>1 DEF Leading
  <2>3. a + k \notin 1 .. a
    BY <1>7, <2>2
  <2> QED BY <1>5, <1>6, <1>7, <2>1, <2>2, <2>3
<1> QED BY <1>4, <1>8, <1>9

\* With a physical subnetwork of any kind next to any connected graph, a packet is in a
\* router of the network, in the relay that is bound to the one it was sent by, be it
\* one of the graph or one of the subnetwork (Route of RoutingSubnetwork,
\* FitSubnetwork, FixedSubnetwork and Bypass, RoutingTable::Promote,
\* Network::InitBase).
THEOREM SubnetworkTyped == Spec => [](Physical => TypeOK)
<1>1. PhysicalInv /\ case \in Cases => (Physical => TypeOK)
  BY LocatedType DEF PhysicalInv
<1> QED BY <1>1, CaseKept, PhysicalInvHolds, PTL

\* There, if the buffers have the room that the algorithm asks for, a router has an
\* output for every packet on its way, by the subnetwork if by nothing else.
THEOREM SubnetworkOutput == Spec => [](Physical /\ Fits => SomeOutput)
<1>1. PhysicalInv => (Physical /\ Fits => SomeOutput)
  BY PhysicalHop DEF PhysicalInv, Physical, SomeOutput, Located
<1> QED BY <1>1, PhysicalInvHolds, PTL

\* There, every hop over a link of the graph brings the packet nearer to where it is
\* going in the graph, every hop over the subnetwork does so in the subnetwork.
THEOREM SubnetworkMinimal == Spec => (Physical => Minimal)
<1> DEFINE A == h # Absent /\ case.routing_table \notin Detours =>
                  LET distance == Weights(IF InSubnetwork(h') THEN net.sub ELSE case.graph, h.dst)
                  IN  distance[h'.node] = distance[h.node] - 1
<1>1. PhysicalInv /\ Physical /\ [Next]_vars => [A]_vars
  BY PhysicalStep
<1> HIDE DEF A
<1>2. Minimal <=> [][A]_vars
  BY DEF Minimal, A
<1> QED BY <1>1, <1>2, PhysicalInvHolds, PhysicalKept, PTL DEF Spec

\* There, with FIXED_SUBNETWORK, a packet that has come over the subnetwork is sent on
\* over the subnetwork (RoutingFixedSubnetwork::Route): relays of the subnetwork are
\* bound to each other, on whatever graph, so that the router knows it by its port.
THEOREM SubnetworkKept == Spec => (Physical => StaysInSubnetwork)
<1> DEFINE A == h # Absent /\ case.alg = "FIXED_SUBNETWORK" /\ InSubnetwork(h) => InSubnetwork(h')
<1>1. PhysicalInv /\ Physical /\ [Next]_vars => [A]_vars
  BY PhysicalStep
<1> HIDE DEF A
<1>2. StaysInSubnetwork <=> [][A]_vars
  BY DEF StaysInSubnetwork, A
<1> QED BY <1>1, <1>2, PhysicalInvHolds, PhysicalKept, PTL DEF Spec

-----------------------------------------------------------------------------
\* What the configuration makes of a graph: paths and trees.
LEMMA NetworksKept == Spec => [](net \in Networks(case))
<1>1. Init => net \in Networks(case)
  BY DEF Init
<1>2. net \in Networks(case) /\ [Next]_vars => (net \in Networks(case))'
  <2> SUFFICES ASSUME net \in Networks(case), [Next]_vars PROVE (net \in Networks(case))'
    OBVIOUS
  <2>1. UNCHANGED <<case, net>>
    BY DEF Next, Inject, Forward, vars
  <2> QED BY <2>1 DEF Networks, Subgraphs, TableFor
<1> QED BY <1>1, <1>2, PTL DEF Spec

\* The ways reported for a table of shortest paths are all the shortest paths that
\* the graph has, in the same order, whatever the graph (RoutingTable::GetPaths and
\* LoadDijkstra against Graph::get_simple_paths).
THEOREM DijkstraRoutes == Spec => [](IsGraph(case.graph) => RoutesComplete)
<1>1. net \in Networks(case) /\ IsGraph(case.graph) => RoutesComplete
  <2> SUFFICES ASSUME net \in Networks(case), IsGraph(case.graph), case.routing_table = "DIJKSTRA",
                      NEW s \in Nodes, NEW d \in Nodes
               PROVE  GetPaths(net.table, case.graph, s, d) = SimplePaths(case.graph, s, d)
    BY DEF RoutesComplete
  <2>1. net.table = TableFor(case)
    BY DEF Networks
  <2>2. TableFor(case) = LoadDijkstra(case.graph)
    BY DEF TableFor
  <2> QED BY <2>1, <2>2, WaysArePaths DEF Nodes
<1> QED BY <1>1, NetworksKept, PTL

\* A configuration with a subnetwork that is a random tree, a tree of shortest paths or of
\* first hops, one found breadth first or level by level, or a row.
IsSpannedCase(c) ==
    /\ c.generator \in {"TREE_RANDOM", "TGEN_0", "TGEN_1", "TGEN_2", "TGEN_3", "TGEN_6"}
    /\ IsGraph(c.graph) /\ IsConnected(c.graph) /\ DOMAIN c.graph # {} /\ Cardinality(DOMAIN c.graph) < Inf

LEMMA TreeOf ==
  ASSUME net \in Networks(case), IsSpannedCase(case)
  PROVE  /\ IsTree(net.sub, Nodes, Nodes)
         /\ case.generator # "TGEN_6" => \A n \in Nodes : Range(net.sub[n]) \subseteq Range(case.graph[n])
         /\ case.generator \in {"TGEN_0", "TGEN_1", "TGEN_2", "TGEN_3"} => IsDistance(net.sub, 0, Weights(case.graph, 0))
<1> DEFINE g == case.graph
           t == net.sub
<1>1. t \in Subgraphs(g, case.generator)
  <2>1. PICK sub \in Subgraphs(g, case.generator) :
           net = [graph    |-> IF case.subnetwork = "PHYSICAL" THEN Together(g, sub) ELSE g,
                  table    |-> TableFor(case),
                  sub      |-> sub,
                  subtable |-> IF case.subnetwork = "PHYSICAL" THEN Promote(LoadDijkstra(sub), g)
                               ELSE Adjust(LoadDijkstra(sub), sub, g)]
    BY DEF IsSpannedCase, Networks
  <2>2. t = sub
    BY <2>1
  <2> QED BY <2>2
<1>2. IsGraph(g) /\ IsConnected(g) /\ Nodes # {} /\ Cardinality(Nodes) < Inf /\ DOMAIN g = Nodes
  BY DEF IsSpannedCase, Nodes
<1> HIDE DEF t, g
<1>3. AreNodes(Nodes) /\ 0 \in Nodes
  <2>1. AreNodes(Nodes) /\ Cardinality(Nodes) \in Nat /\ Cardinality(Nodes) # 0
    BY <1>2, GraphNodes, FS_CardinalityType, FS_EmptySet DEF AreNodes
  <2> QED BY <2>1 DEF AreNodes
<1>4. IsDistance(g, 0, Weights(g, 0))
  BY <1>2, <1>3, DijkstraDistances
<1>5. CASE case.generator = "TREE_RANDOM"
  <2>1. t \in RandomSubtrees(g)
    BY <1>1, <1>5 DEF Subgraphs
  <2>2. IsTree(t, DOMAIN g, DOMAIN g) /\ \A n \in DOMAIN g : Range(t[n]) \subseteq Range(g[n])
    BY <1>2, <2>1, RandomTrees
  <2> QED BY <1>2, <1>5, <2>2 DEF t, g
<1>6. CASE case.generator = "TGEN_1"
  <2>1. t = TGen1(g, 0)
    BY <1>1, <1>6 DEF Subgraphs
  <2>2. IsShortest(t, g, 0, Weights(g, 0))
    BY <1>2, <1>3, <1>4, <2>1, BreadthTree
  <2> QED BY <1>2, <1>6, <2>2 DEF IsShortest, t, g
<1>7. CASE case.generator = "TGEN_3"
  <2>1. t = TGen3(g, 0)
    BY <1>1, <1>7 DEF Subgraphs
  <2>2. IsShortest(t, g, 0, Weights(g, 0))
    BY <1>2, <1>3, <1>4, <2>1, LevelTree
  <2> QED BY <1>2, <1>7, <2>2 DEF IsShortest, t, g
<1>8. CASE case.generator = "TGEN_6"
  <2>1. t = TGen6(g)
    BY <1>1, <1>8 DEF Subgraphs
  <2>2. IsTree(t, Nodes, Nodes)
    BY <1>2, <1>3, <2>1, RowTree
  <2> QED BY <1>8, <2>2 DEF t
<1>9. CASE case.generator = "TGEN_0"
  <2>1. t = TGen0(g, 0)
    BY <1>1, <1>9 DEF Subgraphs
  <2>2. IsShortest(t, g, 0, Weights(g, 0))
    BY <1>2, <1>3, <2>1, PathTree
  <2> QED BY <1>2, <1>9, <2>2 DEF IsShortest, t, g
<1>10. CASE case.generator = "TGEN_2"
  <2>1. t = TGen2(g, 0)
    BY <1>1, <1>10 DEF Subgraphs
  <2>2. IsShortest(t, g, 0, Weights(g, 0))
    BY <1>2, <1>3, <2>1, HopTree
  <2> QED BY <1>2, <1>10, <2>2 DEF IsShortest, t, g
<1> QED BY <1>5, <1>6, <1>7, <1>8, <1>9, <1>10 DEF IsSpannedCase

LEMMA TreeIs ==
  ASSUME net \in Networks(case), IsSpannedCase(case)
  PROVE  SpanningTree /\ IsSubnetwork(net.sub, case.graph)
<1> DEFINE g == case.graph
           t == net.sub
<1>1. /\ IsTree(t, Nodes, Nodes)
      /\ case.generator # "TGEN_6" => \A n \in Nodes : Range(t[n]) \subseteq Range(g[n])
      /\ case.generator \in {"TGEN_0", "TGEN_1", "TGEN_2", "TGEN_3"} => IsDistance(t, 0, Weights(g, 0))
  BY TreeOf
<1>2. IsGraph(g) /\ IsConnected(g) /\ Nodes # {} /\ Cardinality(Nodes) < Inf /\ DOMAIN g = Nodes
  BY DEF IsSpannedCase, Nodes
<1> HIDE DEF t
<1>3. AreNodes(Nodes) /\ 0 \in Nodes
  <2>1. AreNodes(Nodes) /\ Cardinality(Nodes) \in Nat /\ Cardinality(Nodes) # 0
    BY <1>2, GraphNodes, FS_CardinalityType, FS_EmptySet DEF AreNodes
  <2> QED BY <2>1 DEF AreNodes
<1>4. IsSubnetwork(t, g) /\ Degrees(t) = 2 * (NodeCount(t) - 1)
  BY <1>1, <1>2, <1>3, TreeSpans
<1>5. IsGraph(t) /\ IsConnected(t) /\ DOMAIN t = Nodes
  BY <1>2, <1>4 DEF IsSubnetwork
<1>6. IsDistance(t, 0, Weights(t, 0)) /\ \A n \in Nodes : Weights(t, 0)[n] < Inf
  BY <1>2, <1>3, <1>5, DijkstraDistances
<1>7. case.generator \in {"TGEN_0", "TGEN_1", "TGEN_2", "TGEN_3"} => Weights(t, 0) = Weights(g, 0)
  BY <1>1, <1>3, <1>5, <1>6, OneDistance
<1> DEFINE links == UNION {{<<n, t[n][p]>> : p \in DOMAIN t[n]} : n \in Nodes}
<1>8. ASSUME NEW x \in links
      PROVE  x[1] \in Nodes /\ x[2] \in Nodes /\ x[2] \in Range(t[x[1]])
  <2>1. PICK n \in Nodes : x \in {<<n, t[n][p]>> : p \in DOMAIN t[n]}
    OBVIOUS
  <2>2. PICK p \in DOMAIN t[n] : x = <<n, t[n][p]>>
    BY <2>1
  <2>3. t[n] \in Seq(Nodes)
    BY <1>5, <2>1 DEF IsGraph
  <2>4. t[n][p] \in Nodes /\ t[n][p] \in Range(t[n])
    BY <2>2, <2>3 DEF Range
  <2> QED BY <2>1, <2>2, <2>4
<1>9. ASSUME NEW x \in links PROVE <<x[2], x[1]>> \in links
  <2>1. x[1] \in Range(t[x[2]])
    BY <1>5, <1>8, LinkedBack
  <2>2. PICK p \in DOMAIN t[x[2]] : t[x[2]][p] = x[1]
    BY <2>1 DEF Range
  <2> QED BY <1>8, <2>2
<1>10. case.generator # "TGEN_6" => \A x \in links : x[2] \in Range(g[x[1]])
  BY <1>1, <1>8
<1>11. Degrees(t) = FoldLeft(LAMBDA sum, n : sum + Len(t[n]), 0, NodeList(t))
  BY DEF Degrees
<1> HIDE DEF links
<1>12. SpanningTree
  <2>1. case.generator \in {"TGEN_0", "TGEN_1", "TGEN_2", "TGEN_3", "TGEN_4"} => Weights(t, 0) = Weights(g, 0)
    BY <1>7 DEF IsSpannedCase
  <2>2. case.generator # "TGEN_5"
    BY DEF IsSpannedCase
  <2> QED BY <1>4, <1>6, <1>9, <1>10, <1>11, <2>1, <2>2 DEF SpanningTree, links, t
<1> QED BY <1>4, <1>12 DEF t

\* On every connected graph, of every size, TREE_RANDOM, TGEN_0, TGEN_1, TGEN_2, TGEN_3 and
\* TGEN_6 make a tree: it reaches every node with a link less than nodes, its links have
\* both ends and, but for the row, are the graph's; except for the random tree and the row,
\* its ways to node 0 are as short as those of the graph (Graph::subgraph).
THEOREM Spans == Spec => [](IsSpannedCase(case) => SpanningTree)
<1>1. net \in Networks(case) => (IsSpannedCase(case) => SpanningTree)
  BY TreeIs
<1> QED BY <1>1, NetworksKept, PTL

\* There, what was generated is the subnetwork that the theorems on configurations with
\* a physical subnetwork ask for, and a tree (Configuration::ReadTopologyParams).
THEOREM SpansPhysical ==
  Spec => [](IsPhysicalCase(case) /\ IsSpannedCase(case) => Physical /\ IsTree(net.sub, Nodes, Nodes))
<1>1. net \in Networks(case) =>
         (IsPhysicalCase(case) /\ IsSpannedCase(case) => Physical /\ IsTree(net.sub, Nodes, Nodes))
  BY TreeIs, TreeOf DEF Physical
<1> QED BY <1>1, NetworksKept, PTL

-----------------------------------------------------------------------------
\* A tree as a way out: no buffers wait for each other.

\* The relays of the subnetwork alone, if it were a network by itself.
TP == INSTANCE WiringProofs WITH Adj <- net.sub

LEMMA SubPairing ==
  ASSUME IsGraph(net.sub)
  PROVE  \E b : IsPairing(b, net.sub)
<1> DEFINE t == net.sub
<1>1. \A S : TP!IsFiniteSet(S) = IsFiniteSet(S) /\ TP!Cardinality(S) = Cardinality(S)
  BY Zenon DEF TP!IsFiniteSet, IsFiniteSet, TP!Cardinality, Cardinality
<1>2. TP!Nodes = DOMAIN t
  BY DEF TP!Nodes
<1>3. TP!WiringAssumption
  BY <1>1, <1>2 DEF TP!WiringAssumption, IsGraph
<1>4. \A n, m : TP!Between(n, m) = LinksTo(t, n, m)
  BY DEF TP!Between, LinksTo
<1>5. TP!Balanced
  BY <1>1, <1>2, <1>4 DEF TP!Balanced, IsGraph
<1>6. \A r \in TP!Relays : /\ TP!Bound[r] \in TP!Relays /\ TP!Bound[TP!Bound[r]] = r
                           /\ r \in TP!LinkRelays => TP!Bound[r] \in TP!LinkRelays /\ TP!Bound[r][1] = t[r[1]][r[2]]
  BY <1>3, <1>5, TP!BoundComplete, TP!BoundSymmetric
<1>7. TP!LinkRelays \subseteq TP!Relays
  BY DEF TP!Relays
<1>8. TP!LinkRelays = Ends(t)
  <2>1. /\ \A n \in DOMAIN t : \A p \in DOMAIN t[n] : <<n, p>> \in TP!LinkRelays
        /\ \A r \in TP!LinkRelays : r[1] \in DOMAIN t /\ r[2] \in DOMAIN t[r[1]] /\ r = <<r[1], r[2]>>
    BY <1>2, <1>3, TP!NodesAndLinks
  <2>2. \A n \in DOMAIN t : DOMAIN t[n] \subseteq Nat
    BY DEF IsGraph
  <2> DEFINE P == (DOMAIN t) \X Nat
  <2>3. Ends(t) = {r \in P : r[2] \in DOMAIN t[r[1]]}
    BY DEF Ends
  <2>4. \A r \in P : r[1] \in DOMAIN t /\ r = <<r[1], r[2]>>
    OBVIOUS
  <2>5. \A n \in DOMAIN t : \A p \in Nat : <<n, p>> \in P /\ <<n, p>>[1] = n /\ <<n, p>>[2] = p
    OBVIOUS
  <2> HIDE DEF t, P
  <2> QED BY <2>1, <2>2, <2>3, <2>4, <2>5
<1> DEFINE b == [r \in TP!LinkRelays |-> TP!Bound[r]]
<1>9. IsPairing(b, t)
  <2>1. b \in [TP!LinkRelays -> TP!LinkRelays]
    BY <1>6, <1>7
  <2>2. \A r \in TP!LinkRelays : b[b[r]] = r /\ b[r][1] = t[r[1]][r[2]]
    BY <1>6, <1>7
  <2> HIDE DEF b, t
  <2> QED BY <1>8, <2>1, <2>2 DEF IsPairing
<1> QED BY <1>9

\* A packet on the subnetwork came by a link that is on its way.
CameBy(f) ==
    InSubnetwork(f) => Weights(net.sub, f.dst)[net.graph[f.node][f.port_in]] = Weights(net.sub, f.dst)[f.node] + 1

\* The buffers in the order in which the tree is used: those of the graph, those that
\* lead to the root, the lower first, and those that lead away from it.
TreeRank(f) ==
    LET w == Weights(net.sub, 0)
    IN  IF ~InSubnetwork(f) THEN 2 * Inf + 1
        ELSE IF w[net.graph[f.node][f.port_in]] = w[f.node] + 1 THEN Inf + w[f.node] ELSE Inf - w[f.node]

\* The port is one of the subnetwork.
SubLink(f) ==
    \E j \in DOMAIN net.sub[f.node] : /\ f.port_in = Len(case.graph[f.node]) + j
                                      /\ net.graph[f.node][f.port_in] = net.sub[f.node][j]

LEMMA SubRelay ==
  ASSUME IsPhysicalCase(case), Doubled, NEW f \in Flits, InSubnetwork(f)
  PROVE  SubLink(f)
<1> DEFINE n == f.node
           a == Len(case.graph[n])
           b == Len(net.sub[n])
           j == f.port_in - a
<1>1. n \in Nodes /\ f.port_in \in Nat
  BY DEF Flits
<1>2. f.port_in \in a + 1 .. Len(net.graph[n])
  BY DEF InSubnetwork, IsPhysicalCase
<1>3. /\ a \in Nat /\ b \in Nat /\ DOMAIN net.sub[n] = 1 .. b /\ Len(net.graph[n]) = a + b
      /\ \A k \in 1 .. b : net.graph[n][a + k] = net.sub[n][k]
  BY <1>1, DoubledPorts
<1> HIDE DEF a, b
<1>4. j \in 1 .. b /\ f.port_in = a + j
  BY <1>1, <1>2, <1>3
<1> HIDE DEF j
<1>5. net.graph[n][f.port_in] = net.sub[n][j] /\ j \in DOMAIN net.sub[n]
  BY <1>3, <1>4
<1> QED BY <1>4, <1>5 DEF SubLink, a

\* What a hop does with these: it keeps the first, and over the subnetwork it goes down.
LEMMA SubHop ==
  ASSUME IsPhysicalCase(case), Doubled, Laid, Apart, NEW f \in Flits,
         NEW con, con.port \in DOMAIN net.graph[f.node], con.vc \in {0, 1}, OnMain(f, con.port) \/ OnSub(f, con.port)
  PROVE  LET e == Sent(f, con)
         IN  /\ e \in Flits /\ Located(e) /\ CameBy(e)
             /\ OnSub(f, con.port) => /\ InSubnetwork(e) /\ net.graph[e.node][e.port_in] = f.node
                                      /\ \E k \in Leading(net.sub, f.node, f.dst) : e.node = net.sub[f.node][k]
<1> DEFINE n == f.node
           d == f.dst
           a == Len(case.graph[n])
           b == Len(net.sub[n])
           e == Sent(f, con)
<1>1. n \in Nodes /\ d \in Nodes
  BY DEF Flits
<1>2. /\ e \in Flits /\ Located(e) /\ e.node = net.graph[n][con.port] /\ e.dst = d
      /\ net.graph[e.node][e.port_in] = n
  BY SentLocated
<1>3. InSubnetwork(e) <=> con.port \notin DOMAIN case.graph[n]
  BY SentSide
<1>4. /\ a \in Nat /\ b \in Nat /\ DOMAIN case.graph[n] = 1 .. a /\ DOMAIN net.sub[n] = 1 .. b
      /\ \A k \in 1 .. b : net.graph[n][a + k] = net.sub[n][k]
  BY <1>1, DoubledPorts
<1> HIDE DEF a, b, e
<1>5. ASSUME OnSub(f, con.port)
      PROVE  InSubnetwork(e) /\ \E k \in Leading(net.sub, n, d) : e.node = net.sub[n][k]
  <2>1. PICK k \in Leading(net.sub, n, d) : con.port = a + k
    BY <1>5 DEF OnSub, a
  <2>2. k \in 1 .. b
    BY <1>4, <2>1 DEF Leading
  <2>3. a + k \notin 1 .. a
    BY <1>4, <2>2
  <2> QED BY <1>2, <1>3, <1>4, <2>1, <2>2, <2>3
<1>6. CameBy(e)
  <2> SUFFICES ASSUME InSubnetwork(e) PROVE Weights(net.sub, d)[n] = Weights(net.sub, d)[e.node] + 1
    BY <1>2 DEF CameBy
  <2>1. ~OnMain(f, con.port)
    BY <1>3 DEF OnMain, Leading
  <2>2. PICK k \in Leading(net.sub, n, d) : e.node = net.sub[n][k]
    BY <1>5, <2>1
  <2>3. Weights(net.sub, d)[e.node] = Weights(net.sub, d)[n] - 1
    BY <2>2 DEF Leading
  <2>4. Weights(net.sub, d) \in [Nodes -> Nat]
    <3>1. IsGraph(net.sub) /\ DOMAIN net.sub = Nodes /\ IsConnected(net.sub) /\ Cardinality(Nodes) < Inf
      BY DoubledPorts DEF Doubled, IsSubnetwork
    <3> QED BY <1>1, <3>1, DijkstraDistances DEF IsDistance
  <2> QED BY <1>1, <2>3, <2>4
<1> QED BY <1>2, <1>5, <1>6 DEF e

\* The subnetwork is a tree, and node 0 is its root.
IsTreed == IsTree(net.sub, Nodes, Nodes) /\ AreNodes(Nodes) /\ 0 \in Nodes

LEMMA RootOfTree == IsTree(net.sub, Nodes, Nodes) /\ IsGraph(case.graph) => IsTreed
<1> SUFFICES ASSUME IsTree(net.sub, Nodes, Nodes), IsGraph(case.graph) PROVE AreNodes(Nodes) /\ 0 \in Nodes
  BY DEF IsTreed
<1>1. AreNodes(Nodes) /\ Nodes # {}
  BY GraphNodes DEF IsTree, Nodes
<1>2. Cardinality(Nodes) \in Nat /\ Cardinality(Nodes) # 0
  BY <1>1, FS_CardinalityType, FS_EmptySet DEF AreNodes
<1> QED BY <1>1, <1>2 DEF AreNodes

LEMMA TreeRankFalls ==
  ASSUME IsPhysicalCase(case), Doubled, Laid, Apart, IsTreed, NEW f \in Flits, CameBy(f),
         NEW con, con.port \in DOMAIN net.graph[f.node], con.vc \in {0, 1}, OnSub(f, con.port)
  PROVE  TreeRank(Sent(f, con)) < TreeRank(f) /\ TreeRank(Sent(f, con)) \in Int
<1> DEFINE t == net.sub
           n == f.node
           d == f.dst
           e == Sent(f, con)
           x == e.node
           w == Weights(t, 0)
           wd == Weights(t, d)
<1>1. n \in Nodes /\ d \in Nodes /\ 0 \in Nodes /\ Inf \in Nat
  BY InfNat DEF Flits, IsTreed
<1>2. IsGraph(t) /\ IsConnected(t) /\ DOMAIN t = Nodes /\ Cardinality(Nodes) < Inf
  BY DoubledPorts DEF Doubled, IsSubnetwork
<1>3. PICK b : IsPairing(b, t)
  BY <1>2, SubPairing
<1>4. IsDistance(t, 0, w) /\ IsDistance(t, d, wd) /\ \A m \in Nodes : w[m] < Inf
  BY <1>1, <1>2, DijkstraDistances
<1>5. e \in Flits /\ InSubnetwork(e) /\ net.graph[x][e.port_in] = n
  BY SubHop
<1>6. PICK k \in Leading(t, n, d) : x = t[n][k]
  BY SubHop
<1> HIDE DEF t
<1>7. w \in [Nodes -> Nat] /\ wd \in [Nodes -> Nat]
  BY <1>2, <1>4 DEF IsDistance
<1>8. AreNodes(DOMAIN t) /\ IsTree(t, DOMAIN t, DOMAIN t)
  BY <1>2 DEF IsTreed, t
<1> HIDE DEF w, wd
<1>9. k \in DOMAIN t[n] /\ wd[x] = wd[n] - 1
  BY <1>6 DEF Leading, wd
<1>10. x \in Nodes
  BY <1>5 DEF Flits
<1>11. ASSUME NEW j \in DOMAIN t[n]
       PROVE  /\ w[t[n][j]] = w[n] - 1 \/ w[t[n][j]] = w[n] + 1
              /\ \A l \in DOMAIN t[n] : w[t[n][j]] = w[n] - 1 /\ w[t[n][l]] = w[n] - 1 => j = l
  BY <1>1, <1>2, <1>3, <1>4, <1>8, TreeLevels
<1>12. w[x] = w[n] - 1 \/ w[x] = w[n] + 1
  BY <1>6, <1>9, <1>11
<1>13. TreeRank(e) = IF w[n] = w[x] + 1 THEN Inf + w[x] ELSE Inf - w[x]
  BY <1>5 DEF TreeRank, w, t
<1>14. w[x] \in Nat /\ w[n] \in Nat /\ w[x] < Inf
  BY <1>1, <1>4, <1>7, <1>10
<1> HIDE DEF e
<1>15. ASSUME ~InSubnetwork(f) PROVE TreeRank(e) < TreeRank(f) /\ TreeRank(e) \in Int
  <2>1. TreeRank(f) = 2 * Inf + 1
    BY <1>15 DEF TreeRank
  <2> HIDE DEF x, n
  <2> QED BY <1>1, <1>13, <1>14, <2>1
<1>16. ASSUME InSubnetwork(f) PROVE TreeRank(e) < TreeRank(f) /\ TreeRank(e) \in Int
  <2>1. PICK j \in DOMAIN t[n] : f.port_in = Len(case.graph[n]) + j /\ net.graph[n][f.port_in] = t[n][j]
    BY <1>16, SubRelay DEF SubLink, t
  <2> DEFINE m == t[n][j]
  <2>2. wd[m] = wd[n] + 1
    BY <1>16, <2>1 DEF CameBy, wd, t
  <2>3. k # j
    BY <1>1, <1>6, <1>7, <1>9, <2>2
  <2>4. TreeRank(f) = IF w[m] = w[n] + 1 THEN Inf + w[n] ELSE Inf - w[n]
    BY <1>16, <2>1 DEF TreeRank, w, t
  <2>5. (w[m] = w[n] - 1 \/ w[m] = w[n] + 1) /\ ~(w[m] = w[n] - 1 /\ w[x] = w[n] - 1)
    BY <1>6, <1>9, <1>11, <2>3
  <2> HIDE DEF m, x, n
  <2> QED BY <1>1, <1>12, <1>13, <1>14, <2>4, <2>5
<1> QED BY <1>15, <1>16 DEF e

LEMMA TreeRankBound ==
  ASSUME IsPhysicalCase(case), Doubled, IsTreed, NEW f \in Flits
  PROVE  TreeRank(f) \in 0 .. 2 * Inf + 1
<1> DEFINE w == Weights(net.sub, 0)
<1>1. f.node \in Nodes /\ Inf \in Nat
  BY InfNat DEF Flits
<1>2. IsGraph(net.sub) /\ IsConnected(net.sub) /\ DOMAIN net.sub = Nodes /\ Cardinality(Nodes) < Inf /\ 0 \in Nodes
  BY DoubledPorts DEF Doubled, IsSubnetwork, IsTreed
<1>3. IsDistance(net.sub, 0, w) /\ \A m \in Nodes : w[m] < Inf
  BY <1>2, DijkstraDistances
<1>4. w[f.node] \in Nat /\ w[f.node] < Inf
  BY <1>1, <1>2, <1>3 DEF IsDistance
<1>5. TreeRank(f) \in {2 * Inf + 1, Inf + w[f.node], Inf - w[f.node]}
  BY DEF TreeRank
<1> DEFINE v == w[f.node]
           r == TreeRank(f)
<1>6. v \in Nat /\ v < Inf /\ r \in {2 * Inf + 1, Inf + v, Inf - v}
  BY <1>4, <1>5
<1> HIDE DEF v, r
<1>7. r \in 0 .. 2 * Inf + 1
  BY <1>1, <1>6
<1> QED BY <1>7 DEF r

\* Every packet that can be held came by such a link.
LEMMA PhysicalHeld ==
  ASSUME IsPhysicalCase(case), Doubled, Laid, Apart
  PROVE  \A f \in Held : f \in Flits /\ CameBy(f) /\ OnItsWay(f)
<1> DEFINE All == {f \in Flits : Located(f)}
           Fine == {f \in All : CameBy(f)}
<1>1. \A f \in Flits : OnItsWay(f) => \A con \in Outputs(f) :
         Sent(f, con) \in Flits /\ Located(Sent(f, con)) /\ CameBy(Sent(f, con))
  <2> SUFFICES ASSUME NEW f \in Flits, OnItsWay(f), NEW con \in Outputs(f)
               PROVE  Sent(f, con) \in Flits /\ Located(Sent(f, con)) /\ CameBy(Sent(f, con))
    OBVIOUS
  <2>1. con.port \in DOMAIN net.graph[f.node] /\ con.vc \in {0, 1} /\ (OnMain(f, con.port) \/ OnSub(f, con.port))
    BY PhysicalHop
  <2> QED BY <2>1, SubHop
<1>2. IsFiniteSet(All)
  BY LocatedFinite
<1>3. IsFiniteSet(Fine)
  <2>1. Fine \in SUBSET All
    OBVIOUS
  <2> HIDE DEF All, Fine
  <2> QED BY <1>2, <2>1, FS_Subset
<1>4. \A f \in Injected : Located(f) /\ f \in Flits /\ CameBy(f)
  <2> SUFFICES ASSUME NEW f \in Injected PROVE Located(f) /\ f \in Flits /\ CameBy(f)
    OBVIOUS
  <2>1. Located(f) /\ f \in Flits /\ f.port_in = Len(net.graph[f.node]) + 1 /\ f.node \in Nodes
    BY InjectedLocated DEF Located, Flits
  <2>2. Len(net.graph[f.node]) \in Nat /\ Len(case.graph[f.node]) \in Nat
    BY <2>1, DoubledPorts
  <2>3. ~InSubnetwork(f)
    <3>1. InSubnetwork(f) => f.port_in \in Len(case.graph[f.node]) + 1 .. Len(net.graph[f.node])
      BY DEF InSubnetwork, IsPhysicalCase
    <3> QED BY <2>1, <2>2, <3>1
  <2> QED BY <2>1, <2>3 DEF CameBy
<1>5. /\ \A f \in Fine : OnItsWay(f) => \A con \in Outputs(f) : Sent(f, con) \in Fine
      /\ \A f \in Injected : OnItsWay(f) => f \in Fine
      /\ Fine \subseteq Flits /\ \A f \in Fine : CameBy(f)
  BY <1>1, <1>4
<1> HIDE DEF Fine
<1>6. \A f \in Held : f \in Fine /\ OnItsWay(f)
  BY <1>1, <1>3, <1>5, HeldWithin
<1> QED BY <1>5, <1>6

\* Whether a flit is on the subnetwork, and its rank, depend on the buffer it is in.
LEMMA SameBuffer ==
  ASSUME IsPhysicalCase(case), NEW e, NEW f, Buffer(e) = Buffer(f)
  PROVE  TreeRank(e) = TreeRank(f)
<1>1. e.node = f.node /\ e.port_in = f.port_in
  BY DEF Buffer
<1>2. InSubnetwork(e) <=> InSubnetwork(f)
  BY <1>1 DEF InSubnetwork, IsPhysicalCase
<1> QED BY <1>1, <1>2 DEF TreeRank

LEMMA PhysicalDeadlock ==
  ASSUME IsPhysicalCase(case), Doubled, Laid, Apart, IsTreed, Fits, case.length = 1 \/ case.alg \in Whole,
         \A f \in Flits : OnItsWay(f) => \E con \in Outputs(f) : OnSub(f, con.port)
  PROVE  Deadlock = {}
<1> DEFINE rank == [f \in Held |-> TreeRank(f)]
<1>1. \A f \in Held : f \in Flits /\ CameBy(f) /\ OnItsWay(f)
  BY PhysicalHeld
<1>2. 2 * Inf + 1 \in Nat
  BY InfNat
<1>3. \A f \in Held : rank[f] \in 0 .. 2 * Inf + 1
  BY <1>1, TreeRankBound
<1>4. ASSUME NEW fs \in SUBSET Held, NEW f \in fs, Waits(f, Buffers(fs))
      PROVE  \E g \in fs : rank[g] < rank[f]
  <2>1. PICK con \in Outputs(f) : OnSub(f, con.port)
    BY <1>1
  <2>2. Buffer(Sent(f, con)) \in Buffers(fs)
    BY <1>4 DEF Waits, Ahead
  <2>3. PICK g \in fs : Buffer(Sent(f, con)) = Buffer(g)
    BY <2>2 DEF Buffers
  <2>4. con.port \in DOMAIN net.graph[f.node] /\ con.vc \in {0, 1}
    BY <1>1, PhysicalHop
  <2>5. TreeRank(Sent(f, con)) < TreeRank(f)
    BY <1>1, <2>1, <2>4, TreeRankFalls
  <2>6. TreeRank(Sent(f, con)) = TreeRank(g)
    BY <2>3, SameBuffer
  <2> QED BY <2>5, <2>6
<1> HIDE DEF rank
<1> QED BY <1>2, <1>3, <1>4, RankedDeadlock

\* A packet can always fall back on the tree, and on the tree buffers do not wait for
\* each other: with a physical subnetwork that is a tree, next to any connected graph,
\* no packets can fill buffers so that each of them waits for a buffer that another one
\* holds.  The packets are single flits, or forwarded only into a buffer that has room for
\* all of it (Route of RoutingSubnetwork, FitSubnetwork, FixedSubnetwork and Bypass).
THEOREM SubnetworkNoCyclicWait ==
  Spec => [](Physical /\ IsTree(net.sub, Nodes, Nodes) /\ Fits /\ (case.length = 1 \/ case.alg \in Whole)
             => NoCyclicWait)
<1>1. PhysicalInv => (Physical /\ IsTree(net.sub, Nodes, Nodes) /\ Fits /\ (case.length = 1 \/ case.alg \in Whole)
                      => NoCyclicWait)
  <2> SUFFICES ASSUME PhysicalInv, Physical, IsTree(net.sub, Nodes, Nodes), Fits, case.length = 1 \/ case.alg \in Whole
               PROVE  Deadlock = {}
    BY DEF NoCyclicWait
  <2>1. IsPhysicalCase(case) /\ Doubled /\ Laid /\ Apart
    BY DEF PhysicalInv, Physical
  <2>2. IsTreed
    BY <2>1, RootOfTree DEF IsPhysicalCase
  <2>3. \A f \in Flits : OnItsWay(f) => \E con \in Outputs(f) : OnSub(f, con.port)
    BY <2>1, PhysicalHop
  <2> QED BY <2>1, <2>2, <2>3, PhysicalDeadlock
<1> QED BY <1>1, PhysicalInvHolds, PTL
=============================================================================
