--------------------------- MODULE RoutingTables ----------------------------
(***************************************************************************)
(* The routing tables a configuration can ask for (RoutingTable.cpp).      *)
(* Table[n][d] is the list of the ports by which node n sends what is for  *)
(* node d; towards itself it is the port of its processor.                 *)
(***************************************************************************)
EXTENDS Integers, FiniteSets, Topologies

Inf == 2147483647       \* std::numeric_limits<std::int32_t>::max()

\* One round of Dijkstra's algorithm: the nodes behind node index that are nearer
\* by way of it.
Relax(graph, s, index) ==
    LET nearer == {id \in Range(graph[index]) : s.weights[index] + 1 < s.weights[id]}
    IN  [visited |-> s.visited \cup {index},
         weights |-> [id \in DOMAIN graph |-> IF id \in nearer THEN s.weights[index] + 1
                                              ELSE s.weights[id]]]

\* The first of the nearest nodes that are reached and not visited.
Nearest(graph, s) ==
    LET open == {j \in DOMAIN graph : j \notin s.visited /\ s.weights[j] < Inf}
    IN  {j \in open : \A k \in open : s.weights[j] < s.weights[k]
                                      \/ (s.weights[j] = s.weights[k] /\ j <= k)}

Weights(graph, i) ==
    LET round(s, n) == IF Nearest(graph, s) = {} THEN s
                       ELSE Relax(graph, s, CHOOSE j \in Nearest(graph, s) : TRUE)
        start == [visited |-> {}, weights |-> [j \in DOMAIN graph |-> IF j = i THEN 0 ELSE Inf]]
    IN  FoldLeft(round, start, [n \in 1 .. Cardinality(DOMAIN graph) |-> n]).weights

\* The port of a node's own processor, the entry of every table for the node itself.
Own(graph, n) == <<Len(graph[n]) + 1>>

PortsTo(graph, n, to) == SetToSortSeq(LinksTo(graph, n, to), <)

LoadDijkstra(graph) ==
    LET weights == [d \in DOMAIN graph |-> Weights(graph, d)] IN
    [n \in DOMAIN graph |-> [d \in DOMAIN graph |->
            IF n = d THEN Own(graph, n)
            ELSE FoldLeft(LAMBDA relay, k : IF weights[d][graph[n][k]] = weights[d][n] - 1
                                            THEN Append(relay, k) ELSE relay,
                          <<>>, [k \in DOMAIN graph[n] |-> k])]]

\* The elements of a list that are in a set.
Among(list, set) ==
    FoldLeft(LAMBDA part, x : IF x \in set THEN Append(part, x) ELSE part, <<>>, list)

\* The neighbours of n that are nearer, in the order of its ports.
Nearer(graph, weights, n) == Among(graph[n], {m \in DOMAIN graph : weights[m] = weights[n] - 1})

\* Graph::get_simple_paths: the list of the shortest paths, as lists of nodes.
SimplePaths(graph, from, to) ==
    LET weights == Weights(graph, to)
        paths[n \in DOMAIN graph] ==
            IF n = to THEN <<<<to>>>>
            ELSE LET next == Nearer(graph, weights, n)
                     from_here(m) == [k \in DOMAIN paths[m] |-> <<n>> \o paths[m][k]]
                 IN  FlattenSeq([j \in DOMAIN next |-> from_here(next[j])])
    IN  paths[from]

\* A path that goes away from the root and then back to where it was.
\* mark_weights, which visits a node again when it is found nearer to the root,
\* ends with its distance.
DownUp(weights, path) ==
    \E p \in 2 .. Len(path) - 1 : /\ weights[path[p - 1]] = weights[path[p + 1]]
                                  /\ weights[path[p - 1]] + 1 = weights[path[p]]

\* Loading stops at the first pair all of whose shortest paths are ruled out,
\* and leaves the table as it is by then; the caller does not look at the result.
LoadUpDown(graph) ==
    LET levels == Weights(graph, 0)
        left(n, d) == SelectSeq(SimplePaths(graph, n, d), LAMBDA p : ~DownUp(levels, p))
        holes == {pair \in (DOMAIN graph) \X (DOMAIN graph) : left(pair[1], pair[2]) = <<>>}
        add(ports, p) == ports \o Among(PortsTo(graph, p[1], p[2]), Nat \ Range(ports))
        loaded(n, d) == \A hole \in holes : n < hole[1] \/ (n = hole[1] /\ d < hole[2])
    IN  [n \in DOMAIN graph |-> [d \in DOMAIN graph |->
            IF ~loaded(n, d) THEN <<>>
            ELSE IF n = d THEN Own(graph, n)
            ELSE FoldLeft(add, <<>>, left(n, d))]]

\* The mesh is measured along the numbers of its nodes, only the first link to
\* a neighbour is used.
LoadMeshXY(graph) ==
    LET size == Cardinality(DOMAIN graph)
        links(a, b) == IF b < size THEN LinksTo(graph, a, b) ELSE {}
        w == Min({i \in 1 .. size : links(i - 1, i) = {}})
        h == Min({i \in 1 .. size : links(w * (i - 1), w * i) = {}})
        first(n, to) == <<Min(LinksTo(graph, n, to))>>
    IN  [n \in DOMAIN graph |-> [d \in DOMAIN graph |->
            IF n = d THEN Own(graph, n)
            ELSE IF d % w > n % w THEN first(n, n + 1)
            ELSE IF d % w < n % w THEN first(n, n - 1)
            ELSE IF d > n THEN first(n, n + w) ELSE first(n, n - w)]]

----------------------------------------------------------------------------
\* The circulants.  The generators are read off the neighbours of node 0.
Smaller(a, b) == IF a < b THEN a ELSE b

Generators(graph) ==
    LET g == graph[0]
        next(s, n) == LET g1 == Smaller(s[1], n)
                      IN  <<g1, IF n > g1 THEN Smaller(s[2], n) ELSE s[2]>>
        start == IF g[1] < g[2] THEN <<g[1], g[2]>> ELSE <<g[2], g[1]>>
    IN  FoldLeft(next, start, SubSeq(g, 3, Len(g)))

\* The way from source to target: how many steps of the generator and of the next
\* larger one, negative if they go back.
PerformPairExchange(count, generator, source, target) ==
    LET far   == IF source > target THEN source - target ELSE target - source
        over  == far > count \div 2
        k     == IF over THEN count - far ELSE far
        sgn   == IF (target <= source) # over THEN -1 ELSE 1
        beta  == k % generator
        alpha == (k \div generator) - beta
    IN  IF beta - generator <= alpha /\ alpha <= generator THEN <<sgn * alpha, sgn * beta>>
        ELSE IF alpha < beta - generator
             THEN <<sgn * (alpha + generator + 1), sgn * (beta - generator)>>
             ELSE <<sgn * (alpha - (generator + 1)), sgn * (beta + generator)>>

LoadCirculantPairExchange(graph) ==
    LET count == Cardinality(DOMAIN graph)
        g == Min(Range(graph[0]))
        \* the ports of node n for the way from s to t
        ports(n, s, t) ==
            LET vec == PerformPairExchange(count, g, s, t)
                to(steps, by) == IF steps = 0 THEN <<>>
                    ELSE PortsTo(graph, n, (n + (IF steps > 0 THEN by ELSE -by)) % count)
            IN  to(vec[1], g) \o to(vec[2], g + 1)
    IN  [n \in DOMAIN graph |-> [d \in DOMAIN graph |->
            IF n = d THEN Own(graph, n)
            ELSE ports(n, n, d) \o ports(n, 0, (d - n) % count)]]

\* A mutation of PerformClockwise: the larger step is taken too eagerly.
PerformClockwiseEager(count, g1, g2, source, target) ==
    LET s == (target - source) % count
    IN  IF s <= count \div 2
        THEN (source + (IF s + 1 >= g2 THEN g2 ELSE g1)) % count
        ELSE (source - (IF count - s + 1 >= g2 THEN g2 ELSE g1)) % count

PerformClockwise(count, g1, g2, source, target) ==
    LET s == (target - source) % count
    IN  IF s <= count \div 2
        THEN (source + (IF s >= g2 THEN g2 ELSE g1)) % count
        ELSE (source - (IF count - s >= g2 THEN g2 ELSE g1)) % count

LoadCirculantClockwise(graph) ==
    LET count == Cardinality(DOMAIN graph)
        first(s, t) == PerformClockwise(count, Generators(graph)[1], Generators(graph)[2], s, t)
    IN  [n \in DOMAIN graph |-> [d \in DOMAIN graph |->
            IF n = d THEN Own(graph, n) \o Own(graph, n)
            ELSE PortsTo(graph, n, first(n, d)) \o
                 PortsTo(graph, n, (first(0, (d - n) % count) + n) % count)]]

\* Of the ways to go s nodes to the right by steps of g2, and of 1 for the rest,
\* the length of the one that stops short and of the one that goes too far.
Short(s, g2) == (s \div g2) + (s % g2)
Beyond(s, g2) == (s \div g2) - (s % g2) + g2 + 1

\* One side: the best of going there directly, once round and twice round.
BestWay(s, count, g1, g2) ==
    LET direct == IF s % g2 = 0 THEN <<Short(s, g2), g2>>
                  ELSE IF Short(s, g2) < Beyond(s, g2) THEN <<Short(s, g2), g1>>
                  ELSE <<Beyond(s, g2), g2>>
        better(best, way) == IF way < best[1] THEN <<way, g2>> ELSE best
    IN  FoldLeft(better, direct,
                 <<Short(s + count, g2), Beyond(s + count, g2),
                   Short(s + 2 * count, g2), Beyond(s + 2 * count, g2)>>)

PerformAdaptive(count, g1, g2, source, target) ==
    LET step(s, t) == LET right == BestWay(t - s, count, g1, g2)
                          left  == BestWay(s - t + count, count, g1, g2)
                      IN  IF right[1] < left[1] THEN right[2] ELSE -left[2]
        next == IF source > target THEN source - step(target, source)
                                   ELSE source + step(source, target)
    IN  IF next >= count THEN next - count ELSE IF next < 0 THEN next + count ELSE next

LoadCirculantAdaptive(graph) ==
    LET count == Cardinality(DOMAIN graph)
        first(s, t) == PerformAdaptive(count, Generators(graph)[1], Generators(graph)[2], s, t)
    IN  [n \in DOMAIN graph |-> [d \in DOMAIN graph |->
            IF n = d THEN Own(graph, n) \o Own(graph, n)
            ELSE PortsTo(graph, n, first(n, d)) \o
                 PortsTo(graph, n, (first(0, (d - n) % count) + n) % count)]]

PerformMultiplicative(count, generators, source, target) ==
    LET ahead == IF target > source THEN target - source ELSE target + count - source
        back  == ahead > count \div 2
        t     == IF back THEN count - ahead ELSE ahead
        i     == Max({j \in 1 .. Len(generators) - 1 : generators[j] <= t})
        far(g) == IF t > g THEN t - g ELSE g - t
        g     == IF far(generators[i]) > far(generators[i + 1]) THEN generators[i + 1]
                                                               ELSE generators[i]
    IN  (source + (IF back THEN -g ELSE g)) % count

LoadCirculantMultiplicative(graph) ==
    LET count == Cardinality(DOMAIN graph)
        all == SetToSortSeq(Range(graph[0]), <)
        generators == SubSeq(all, 1, Len(all) \div 2)
    IN  [n \in DOMAIN graph |-> [d \in DOMAIN graph |->
            IF n = d THEN Own(graph, n)
            ELSE PortsTo(graph, n, PerformMultiplicative(count, generators, n, d))]]
----------------------------------------------------------------------------
\* The greedy promotion.  mark_distances: how far the nodes are from node b.
MarkDistances(graph, b) ==
    LET mark(distance, d) ==
            [n \in DOMAIN graph |-> IF d < distance[n] /\ \E s \in Range(graph[n]) : distance[s] = d - 1
                                    THEN d ELSE distance[n]]
    IN  FoldLeft(mark, [n \in DOMAIN graph |-> IF n = b THEN 0 ELSE Inf],
                 [d \in 1 .. Cardinality(DOMAIN graph) - 1 |-> d])

\* The first node for which the pair key[n] is greatest.
FirstGreatest(key) ==
    LET beats(m, n) == key[m][1] > key[n][1] \/ (key[m][1] = key[n][1] /\ key[m][2] > key[n][2])
    IN  Min({n \in DOMAIN key : \A m \in DOMAIN key : ~beats(m, n)})

\* The distances from four nodes, each chosen far from those before it, are the
\* coordinates of a node.
Coordinates(graph) ==
    LET abs(x) == IF x < 0 THEN -x ELSE x
        a == MarkDistances(graph, 0)
        b == MarkDistances(graph, FirstGreatest([n \in DOMAIN graph |-> <<a[n], 0>>]))
        c == MarkDistances(graph, FirstGreatest([n \in DOMAIN graph |->
                                                    <<a[n] + b[n], -abs(a[n] - b[n])>>]))
        d == MarkDistances(graph, FirstGreatest([n \in DOMAIN graph |->
                                                    <<Min({a[n], b[n], c[n]}), 0>>]))
    IN  [n \in DOMAIN graph |-> <<a[n], b[n], c[n], d[n]>>]

\* A packet goes where the coordinates change most in the direction they have to.
LoadGreedyPromotion(graph) ==
    LET at == Coordinates(graph)
        towards(s, m, n) == FoldLeft(LAMBDA sum, b : sum + (at[m][b] - at[s][b]) * (at[n][b] - at[s][b]),
                                     0, <<1, 2, 3, 4>>)
    IN  [s \in DOMAIN graph |-> [d \in DOMAIN graph |->
            IF s = d THEN Own(graph, s)
            ELSE LET gain == [p \in DOMAIN graph[s] |-> towards(s, d, graph[s][p])]
                 IN  SelectSeq([p \in DOMAIN gain |-> p], LAMBDA p : gain[p] = Max(Range(gain)))]]

\* A table written in the configuration: rows[n][d] are the ports, or, where the
\* table is id based, the neighbours to send to.
Custom(graph, rows, id_based) ==
    IF ~id_based THEN rows
    ELSE [n \in DOMAIN rows |-> [d \in DOMAIN rows[n] |->
             IF n = d THEN Own(graph, n)
             ELSE FlattenSeq([k \in DOMAIN rows[n][d] |-> PortsTo(graph, n, rows[n][d][k])])]]

\* A mutation of GetPaths: only the first port of every node is followed.
GetPathsFirst(table, graph, s, d) ==
    LET path[n \in DOMAIN graph] == IF n = d THEN <<d>> ELSE <<n>> \o path[graph[n][table[n][d][1]]]
    IN  <<path[s]>>

\* RoutingTable::GetPaths: every way the table sends a packet, as lists of nodes.
\* The code comes to an end if no way leads back to where it was.
GetPaths(table, graph, s, d) ==
    LET paths[n \in DOMAIN graph] ==
            IF n = d THEN <<<<d>>>>
            ELSE LET onward(p) == [k \in DOMAIN paths[graph[n][p]] |-> <<n>> \o paths[graph[n][p]][k]]
                 IN  FlattenSeq([j \in DOMAIN table[n][d] |-> onward(table[n][d][j])])
    IN  paths[s]
=============================================================================
