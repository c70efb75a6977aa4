------------------------------ MODULE Subtrees ------------------------------
(***************************************************************************)
(* The subnetworks a configuration can ask for (Graph::subgraph): spanning *)
(* trees of the graph, found in different ways.  A tree is a graph like    *)
(* any other; each link is listed by both its ends.                        *)
(***************************************************************************)
EXTENDS RoutingTables

NodeCount(graph) == Cardinality(DOMAIN graph)
NodeList(graph) == [i \in 1 .. NodeCount(graph) |-> i - 1]

NoLinks(graph) == [n \in DOMAIN graph |-> <<>>]
Link(tree, a, b) == [tree EXCEPT ![a] = Append(@, b), ![b] = Append(@, a)]

\* A search for a tree: the tree so far and the nodes in it (nodes_to_visit), in
\* the order in which they were found.
Search(graph, root) == [tree |-> NoLinks(graph), queue |-> <<root>>]

\* A mutation of Join: a node is linked again each time it is seen.
JoinAgain(graph, s, n, p) ==
    LET to == graph[n][p]
    IN  [tree |-> Link(s.tree, n, to),
         queue |-> IF to \in Range(s.queue) THEN s.queue ELSE Append(s.queue, to)]

\* The neighbour of n behind port p joins the tree, unless it is in it.
Join(graph, s, n, p) ==
    LET to == graph[n][p]
    IN  IF to \in Range(s.queue) THEN s
        ELSE [tree |-> Link(s.tree, n, to), queue |-> Append(s.queue, to)]

----------------------------------------------------------------------------
\* TREE_RANDOM: a node of the tree is drawn, and its neighbours join in an order
\* that is drawn.  To draw a node whose neighbours are all in the tree changes
\* nothing, and another one is drawn.
Grown(graph, s) ==
    LET open == {n \in Range(s.queue) : ~(Range(graph[n]) \subseteq Range(s.queue))}
    IN  UNION {{FoldLeft(LAMBDA t, p : Join(graph, t, n, p), s, order) :
                   order \in SetToSeqs(DOMAIN graph[n])} : n \in open}

RandomSubtrees(graph) ==
    LET done(s) == Len(s.queue) = NodeCount(graph)
        round(ss, k) == UNION {IF done(s) THEN {s} ELSE Grown(graph, s) : s \in ss}
        starts == {Search(graph, n) : n \in DOMAIN graph}
    IN  {s.tree : s \in FoldLeft(round, starts, NodeList(graph))}

\* TGEN_0: the first shortest path of every node to the root, as far as it meets
\* the tree.
TGen0(graph, root) ==
    LET add(s, n) ==
            LET path == SimplePaths(graph, n, root)[1]
                met  == Min({j \in DOMAIN path : j = Len(path) \/ path[j] \in s.visited})
            IN  [tree    |-> FoldLeft(LAMBDA t, j : Link(t, path[j], path[j + 1]), s.tree,
                                      [j \in 1 .. met - 1 |-> j]),
                 visited |-> s.visited \cup {path[j] : j \in 1 .. met - 1}]
    IN  FoldLeft(add, [tree |-> NoLinks(graph), visited |-> {}],
                 Among(NodeList(graph), DOMAIN graph \ {root})).tree

\* TGEN_1: breadth first.
BreadthFirst(graph, root) ==
    LET expand(s, k) == FoldLeft(LAMBDA t, p : Join(graph, t, s.queue[k], p), s,
                                 [p \in DOMAIN graph[s.queue[k]] |-> p])
    IN  FoldLeft(expand, Search(graph, root), [k \in DOMAIN NodeList(graph) |-> k])

TGen1(graph, root) == BreadthFirst(graph, root).tree

\* TGEN_2: the k-th node takes the first hop of the k-th of its shortest paths.  The
\* loop over the paths that follows changes nothing.
TGen2(graph, root) ==
    LET others == Tail(BreadthFirst(graph, root).queue)
        add(tree, k) ==
            LET paths == SimplePaths(graph, others[k], root)
            IN  Link(tree, others[k], paths[((k - 1) % Len(paths)) + 1][2])
    IN  FoldLeft(add, NoLinks(graph), [k \in DOMAIN others |-> k])

\* TGEN_3: level by level, and in a level first the first port of all its nodes,
\* then the second, and so on.
TGen3(graph, root) ==
    LET most == Max({Len(graph[n]) : n \in DOMAIN graph})
        level(s, k) ==
            LET nodes == SubSeq(s.queue, s.start, Len(s.queue))
                turns == FlattenSeq([p \in 1 .. most |-> [i \in DOMAIN nodes |-> <<nodes[i], p>>]])
                join(t, turn) == IF turn[2] \in DOMAIN graph[turn[1]]
                                 THEN Join(graph, t, turn[1], turn[2]) ELSE t
                after == FoldLeft(join, [tree |-> s.tree, queue |-> s.queue], turns)
            IN  [tree |-> after.tree, queue |-> after.queue, start |-> Len(s.queue) + 1]
        search == Search(graph, root)
    IN  FoldLeft(level, [tree |-> search.tree, queue |-> search.queue, start |-> 1],
                 NodeList(graph)).tree

----------------------------------------------------------------------------
\* Graph::tree_wiener_index: the sum of the distances from every node to every
\* node its part of the forest reaches.
TreeWienerIndex(tree) ==
    LET calls == [cur : DOMAIN tree, prev : DOMAIN tree \cup {-1}, w : Nat]
        index[c \in calls] ==
            FoldLeft(LAMBDA sum, n : IF n = c.prev THEN sum
                                     ELSE sum + index[[cur |-> n, prev |-> c.cur, w |-> c.w + 1]],
                     c.w, tree[c.cur])
    IN  FoldLeft(LAMBDA sum, n : sum + index[[cur |-> n, prev |-> -1, w |-> 0]], 0, NodeList(tree))

FirstLeast(trees) ==
    LET index == [k \in DOMAIN trees |-> TreeWienerIndex(trees[k])]
    IN  trees[Min({k \in DOMAIN trees : \A j \in DOMAIN trees : index[k] <= index[j]})]

\* TGEN_4: level by level every node is linked where the index grows least.
TGen4(graph, root) ==
    LET weights == Weights(graph, root)
        level(w) == Among(NodeList(graph), {n \in DOMAIN graph : weights[n] = w})
        add(tree, n) ==
            LET up == Nearer(graph, weights, n)
            IN  FirstLeast([k \in DOMAIN up |-> Link(tree, n, up[k])])
    IN  FoldLeft(add, NoLinks(graph),
                 FlattenSeq([w \in 1 .. NodeCount(graph) - 1 |-> level(w)]))

\* TGEN_5: the root for which that gives the least index.
TGen5(graph) == FirstLeast([k \in DOMAIN NodeList(graph) |-> TGen4(graph, k - 1)])

\* TGEN_6: all nodes in a row, whether the graph has the links or not.
TGen6(graph) ==
    FoldLeft(LAMBDA t, n : Link(t, n, n + 1), NoLinks(graph), Front(NodeList(graph)))

\* Graph::subgraph, as the set of the trees it can return.
Subgraphs(graph, generator) ==
    CASE generator = "TREE_RANDOM" -> RandomSubtrees(graph)
      [] generator = "TGEN_0" -> {TGen0(graph, 0)}
      [] generator = "TGEN_1" -> {TGen1(graph, 0)}
      [] generator = "TGEN_2" -> {TGen2(graph, 0)}
      [] generator = "TGEN_3" -> {TGen3(graph, 0)}
      [] generator = "TGEN_4" -> {TGen4(graph, 0)}
      [] generator = "TGEN_5" -> {TGen5(graph)}
      [] generator = "TGEN_6" -> {TGen6(graph)}

\* operator+ of two graphs: the links of the subnetwork follow those of the graph.
Together(graph, sub) == [n \in DOMAIN graph |-> graph[n] \o sub[n]]

\* RoutingTable::Promote: the ports of the subnetwork's table, behind the graph's.
Promote(table, graph) ==
    [n \in DOMAIN table |-> [d \in DOMAIN table |->
        [k \in DOMAIN table[n][d] |-> table[n][d][k] + Len(graph[n])]]]

\* A mutation of Adjust: the ports of the subnetwork's table as they are.
AdjustNot(table, sub, graph) == table

\* RoutingTable::Adjust: the same ways over the links of the graph.
Adjust(table, sub, graph) ==
    LET links(n, p) == IF p \in DOMAIN sub[n] THEN PortsTo(graph, n, sub[n][p]) ELSE Own(graph, n)
    IN  [n \in DOMAIN table |-> [d \in DOMAIN table |->
            FlattenSeq([k \in DOMAIN table[n][d] |-> links(n, table[n][d][k])])]]
=============================================================================
