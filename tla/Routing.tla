------------------------------ MODULE Routing -------------------------------
(***************************************************************************)
(* Where a router wants to send the packet whose head flit it has: the     *)
(* routing algorithms (Routing/) list the connections the packet may take  *)
(* and the selection strategies (Selection/) choose one of them.           *)
(*                                                                         *)
(* A connection is an output port and a virtual channel.  Both layers look *)
(* at the links of the router through room: which connections have no      *)
(* reservation, the handshake and a credit (Router::CanSend), and how many *)
(* free slots they have (Router::DestinationFreeSlots).                    *)
(***************************************************************************)
EXTENDS Integers, SequencesExt

CONSTANTS
    RoutingAlgorithm,   \* config.RoutingAlgorithm()
    SelectionStrategy,  \* config.SelectionStrategy()
    Table,              \* Table[n][d]: the ports of n towards d, as a sequence
    SubTable,           \* the same in the subnetwork
    Size,               \* the number of nodes of the graph
    Depth               \* config.BufferDepth()

\* No port and no virtual channel: a default constructed Connection.
NoConnection == [port |-> -1, vc |-> -1]

\* What the two layers know of a head flit is a record h: the router it is in
\* (node) and its local port (local), the relay and virtual channel it came by
\* (port_in, vc), the port it left the previous router from (port_out), its
\* source and destination (src, dst) and the length of its packet (len).  room is
\* a function: the connections the router can send to, with their free slots
\* (Router::CanSend, Router::DestinationFreeSlots).

Via(ports, vc) == [i \in DOMAIN ports |-> [port |-> ports[i], vc |-> vc]]

-----------------------------------------------------------------------------
\* The algorithms that prefer the main network and fall back on a subnetwork,
\* physical (its own ports) or virtual (virtual channel 1), differ only in how
\* many free slots they ask for on either.
SubAlgorithms == {"SUBNETWORK", "FIT_SUBNETWORK", "FIXED_SUBNETWORK", "BYPASS",
                  "VIRTUAL_SUBNETWORK", "FIT_VIRTUAL_SUBNETWORK"}

\* A mutation of FromSubnetwork: the port a packet came by is not looked at.
FromNowhere(h) == FALSE

\* VectorContains: the packet came by a port the subnetwork table names.
FromSubnetwork(h) == \E d \in DOMAIN SubTable[h.node] :
                        h.port_in \in Range(SubTable[h.node][d])

MainSlots(h) ==
    CASE RoutingAlgorithm \in {"SUBNETWORK", "VIRTUAL_SUBNETWORK"} -> 1
      [] RoutingAlgorithm \in {"FIXED_SUBNETWORK", "FIT_VIRTUAL_SUBNETWORK"} -> h.len
      [] RoutingAlgorithm = "FIT_SUBNETWORK" -> h.len + 1
      [] RoutingAlgorithm = "BYPASS" -> h.len + 5

SubSlots(h) ==
    IF RoutingAlgorithm = "BYPASS" /\ FromSubnetwork(h) THEN h.len ELSE MainSlots(h)

SubVC == IF RoutingAlgorithm \in {"VIRTUAL_SUBNETWORK", "FIT_VIRTUAL_SUBNETWORK"}
         THEN 1 ELSE 0

WithRoom(ports, vc, need, room) ==
    FoldLeft(LAMBDA cons, con : IF con \in DOMAIN room /\ room[con] >= need
                                THEN Append(cons, con) ELSE cons,
             <<>>, Via(ports, vc))

ViaSubnetwork(h, room) ==
    LET main == IF RoutingAlgorithm = "FIXED_SUBNETWORK" /\ FromSubnetwork(h) THEN <<>>
                ELSE WithRoom(Table[h.node][h.dst], 0, MainSlots(h), room)
    IN  IF main # <<>> THEN main
        ELSE WithRoom(SubTable[h.node][h.dst], SubVC, SubSlots(h), room)

Route(h, room) ==
    IF RoutingAlgorithm \in SubAlgorithms THEN ViaSubnetwork(h, room)
    ELSE Via(Table[h.node][h.dst], 0)       \* TABLE_BASED

-----------------------------------------------------------------------------
Strategies == {"RANDOM", "BUFFER_LEVEL", "KEEP_SPACE", "RANDOM_KEEP_SPACE",
               "CIRCULANT_RING_SPLIT", "CIRCULANT_VIRTUAL_RING_SPLIT",
               "CIRCULANT_VIRTUAL_DISTRIBUTION"}

OrNone(cons) == IF cons = {} THEN {NoConnection} ELSE cons

MostSlots(cons, room) == {c \in cons : \A d \in cons : room[c] >= room[d]}

\* The two ring split strategies walk the list and keep the highest port, but
\* only if it can be taken at once.
HighestPort(cons, room) ==
    FoldLeft(LAMBDA best, c : IF c.port <= best.port THEN best
                              ELSE IF c \in DOMAIN room /\ room[c] >= 1 THEN c
                              ELSE NoConnection,
             NoConnection, cons)

\* A mutation of RingVC: a packet keeps its virtual channel all the way.
RingVCKept(h, c) == h.vc

\* On entering a ring the packet takes the virtual channel of its half of the
\* circulant, and keeps the one it has while it stays on the ring.
RingVC(h, c) == IF h.port_out # c.port THEN (IF h.node < Size \div 2 THEN 0 ELSE 1)
                                       ELSE h.vc

DistributedVC(h) == IF h.src # h.node /\ h.node % 2 # 0 THEN (IF h.vc = 0 THEN 1 ELSE 0)
                                                        ELSE h.vc

\* The connections the strategy can answer: rand() leaves it a choice.
Apply(h, cons, room) ==
    LET usable == Range(cons) \cap DOMAIN room
        whole  == {c \in usable : room[c] >= Depth}
    IN CASE SelectionStrategy = "RANDOM" -> OrNone(Range(cons))
         [] SelectionStrategy = "BUFFER_LEVEL" -> OrNone(MostSlots(usable, room))
         [] SelectionStrategy = "KEEP_SPACE" ->
                OrNone(IF h.port_in = h.local THEN whole ELSE MostSlots(usable, room))
         [] SelectionStrategy = "RANDOM_KEEP_SPACE" ->
                OrNone(IF h.port_in = h.local THEN whole ELSE usable)
         [] SelectionStrategy = "CIRCULANT_RING_SPLIT" -> {HighestPort(cons, room)}
         [] SelectionStrategy = "CIRCULANT_VIRTUAL_RING_SPLIT" ->
                {HighestPort([i \in DOMAIN cons |-> [cons[i] EXCEPT !.vc = RingVC(h, cons[i])]], room)}
         [] SelectionStrategy = "CIRCULANT_VIRTUAL_DISTRIBUTION" ->
                OrNone({[c EXCEPT !.vc = DistributedVC(h)] : c \in Range(cons)})

\* A mutation of FindDestination: a packet is delivered where it is in transit.
FindDestinationEarly(h, room) ==
    IF h.src # h.node THEN {[port |-> h.local, vc |-> 0]} ELSE Apply(h, Route(h, room), room)

\* Router::FindDestination.
FindDestination(h, room) ==
    IF h.dst = h.node THEN {[port |-> h.local, vc |-> 0]} ELSE Apply(h, Route(h, room), room)
=============================================================================
