----------------------------- MODULE Topologies -----------------------------
(***************************************************************************)
(* The graphs a configuration can name (Configuration/Graph/).  A graph    *)
(* gives every node, numbered from 0, the list of its neighbours: entry p  *)
(* is the node behind port p, where ports are numbered from 1.             *)
(***************************************************************************)
EXTENDS Integers, SequencesExt

\* GraphNode::push_back: a link of several channels is listed once for each.
Channels(id, channels) == [i \in 1 .. channels |-> id]

\* GraphNode::links_to.
LinksTo(graph, id, to) == {p \in DOMAIN graph[id] : graph[id][p] = to}

MeshGraph(w, h, channels) ==
    [id \in 0 .. w * h - 1 |->
        LET x == id % w
            y == id \div w
            link(there, to) == IF there THEN Channels(to, channels) ELSE <<>>
        IN  link(y + 1 < h, id + w) \o link(x >= 1, id - 1) \o
            link(y >= 1, id - w) \o link(x + 1 < w, id + 1)]

TorusGraph(w, h, channels) ==
    [id \in 0 .. w * h - 1 |->
        LET x == id % w
            y == id \div w
            at(u, v) == Channels(((v % h) * w) + (u % w), channels)
        IN  at(x, y + 1) \o at(x - 1, y) \o at(x, y - 1) \o at(x + 1, y)]

CirculantGraph(count, generators, channels) ==
    [j \in 0 .. count - 1 |->
        FlattenSeq([i \in DOMAIN generators |->
            Channels((j + generators[i]) % count, channels) \o
            Channels((j - generators[i]) % count, channels)])]

\* A node is listed by its parent when the parent lists its children, before
\* it lists its own.
TreeGraph(count, child, channels) ==
    [i \in 0 .. count - 1 |->
        (IF i = 0 THEN <<>> ELSE Channels((i - 1) \div child, channels)) \o
        FlattenSeq([j \in 1 .. child |->
            IF i * child + j < count THEN Channels(i * child + j, channels) ELSE <<>>])]
=============================================================================
