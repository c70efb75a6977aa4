---------------------------- MODULE MeshRouting -----------------------------
(***************************************************************************)
(* The routing algorithms for meshes and tori, which compute the way of a  *)
(* packet from the coordinates of the nodes: what each of them offers the  *)
(* head flit h that waits in router h.node and came by relay h.port_in on  *)
(* virtual channel h.vc.                                                   *)
(***************************************************************************)
EXTENDS Integers, Sequences, Topologies

CONSTANTS width, height, graph      \* mesh_w, mesh_h, torus_w, torus_h

X(id) == id % width
Y(id) == id \div width

\* A coordinate one beyond the border is the one of the opposite border.
IDFromXY(x, y) ==
    LET wrap(a, size) == IF a >= size THEN 0 ELSE IF a < 0 THEN size - 1 ELSE a
    IN  wrap(x, width) + wrap(y, height) * width

\* The connections to the neighbour a step of sx and sy away.
Step(h, sx, sy, vc) ==
    {[port |-> p, vc |-> vc] : p \in LinksTo(graph, h.node, IDFromXY(X(h.node) + sx, Y(h.node) + sy))}

Sign(a) == IF a > 0 THEN 1 ELSE IF a < 0 THEN -1 ELSE 0
Abs(a)  == IF a < 0 THEN -a ELSE a
Dx(h) == X(h.dst) - X(h.node)
Dy(h) == Y(h.dst) - Y(h.node)

AlongX(h, vc) == IF Dx(h) = 0 THEN {} ELSE Step(h, Sign(Dx(h)), 0, vc)
AlongY(h, vc) == IF Dy(h) = 0 THEN {} ELSE Step(h, 0, Sign(Dy(h)), vc)
XThenY(h, vc) == IF Dx(h) # 0 THEN AlongX(h, vc) ELSE AlongY(h, vc)
YThenX(h, vc) == IF Dy(h) # 0 THEN AlongY(h, vc) ELSE AlongX(h, vc)

XY(h) == XThenY(h, h.vc)

\* The source chooses the order, and with it the virtual channel, from the
\* quarter it lies in; the code compares x with half the height in one place.
XYYX(h) ==
    LET x  == X(h.node)
        y  == Y(h.node)
        vc == IF h.src # h.node THEN h.vc
              ELSE IF \/ x <= width \div 2 /\ y <= height \div 2
                      \/ x > height \div 2 /\ y > height \div 2 THEN 0 ELSE 1
    IN  IF vc = 0 THEN XThenY(h, vc) ELSE YThenX(h, vc)

\* The source chooses the order by lot, each time it is asked.
O1TURN(h) ==
    UNION {IF vc = 0 THEN XThenY(h, vc) ELSE YThenX(h, vc) :
              vc \in IF h.src = h.node THEN {0, 1} ELSE {h.vc}}

\* A mutation of WestFirst: west is not first.
WestAnytime(h) == AlongX(h, h.vc) \cup AlongY(h, h.vc)

WestFirst(h) ==
    IF Dx(h) < 0 THEN AlongX(h, h.vc) ELSE AlongX(h, h.vc) \cup AlongY(h, h.vc)

\* North is towards the larger y.
NorthLast(h) ==
    LET before == AlongX(h, h.vc) \cup (IF Dy(h) < 0 THEN AlongY(h, h.vc) ELSE {})
    IN  IF before = {} THEN AlongY(h, h.vc) ELSE before

\* A mutation of NegativeFirst: the positive directions wait for x only.
NegativeFirstInX(h) ==
    (IF Dx(h) < 0 THEN AlongX(h, h.vc) ELSE {}) \cup (IF Dy(h) < 0 THEN AlongY(h, h.vc) ELSE {})
    \cup (IF Dx(h) >= 0 /\ Dy(h) > 0 THEN AlongX(h, h.vc) ELSE {})

NegativeFirst(h) ==
    (IF Dx(h) < 0 THEN AlongX(h, h.vc) ELSE {}) \cup (IF Dy(h) < 0 THEN AlongY(h, h.vc) ELSE {})
    \cup (IF Dx(h) >= 0 /\ Dy(h) >= 0 THEN AlongX(h, h.vc) \cup AlongY(h, h.vc) ELSE {})

\* Whether the packet came from a router of the same column.  For a packet of
\* the router's own processor the code reads behind the end of the list of
\* neighbours: it may find anything.
SameColumn(h) == IF h.port_in \in DOMAIN graph[h.node]
                 THEN {X(graph[h.node][h.port_in]) = X(h.node)} ELSE BOOLEAN

OddEvenFrom(h, same) ==
    LET north == Step(h, 0, IF Dy(h) > 0 THEN 1 ELSE -1, h.vc)
        east  == Step(h, 1, 0, h.vc)
    IN  IF Dx(h) = 0 THEN north
        ELSE IF Dx(h) < 0 THEN (IF X(h.node) % 2 = 0 THEN north ELSE {})
        ELSE IF Dy(h) = 0 THEN east
        ELSE (IF X(h.node) % 2 # 0 \/ same THEN north ELSE {})
             \cup (IF X(h.dst) % 2 # 0 \/ Dx(h) # 1 THEN east ELSE {})

OddEven(h) == UNION {OddEvenFrom(h, same) : same \in SameColumn(h)}

----------------------------------------------------------------------------
\* Rule 1 of CLUE: in virtual channel 0 a packet may take any shortest way round
\* a dimension of this size.
ShortWay(d, size) ==
    IF d > size \div 2 \/ (d < 0 /\ d >= -(size \div 2)) THEN -1 ELSE IF d = 0 THEN 0 ELSE 1

Adaptive(h) ==
    (IF Dx(h) = 0 THEN {} ELSE Step(h, ShortWay(Dx(h), width), 0, 0)) \cup
    (IF Dy(h) = 0 THEN {} ELSE Step(h, 0, ShortWay(Dy(h), height), 0))

\* Rules 2 and 3: virtual channel 1 is for packets that are about to cross a
\* border of the torus or have none left to cross.
Crossing(a, size) == (IF a = 0 THEN {-1} ELSE {}) \cup (IF a = size - 1 THEN {1} ELSE {})

Escape(h) ==
    IF Abs(Dx(h)) > width \div 2 THEN UNION {Step(h, s, 0, 1) : s \in Crossing(X(h.node), width)}
    ELSE IF Abs(Dy(h)) > height \div 2 THEN UNION {Step(h, 0, s, 1) : s \in Crossing(Y(h.node), height)}
    ELSE XThenY(h, 1)

CLUE(h) == Adaptive(h) \cup Escape(h)
=============================================================================
