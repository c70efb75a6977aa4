# TLA+ models of newxim

newxim is a cycle-accurate simulator of networks on chip, written in C++ with
SystemC. A configuration names a topology, a routing algorithm, a selection
strategy and a traffic distribution; the program builds routers and processors,
lets a clock tick for a number of cycles and reports throughput, delays and
losses. A wrong handshake, a reservation left behind or a miscounted delay does
not stop such a program: it quietly changes the numbers it is run for. These
modules state what must hold for the numbers to mean something, check it with
TLC on small networks and prove the foundations with TLAPS for all of them.

Paths below are relative to `src/src/`; documentation is in `src/documentation/`.

## 1. The system

### Components

| Component | Code | State | Operations |
|---|---|---|---|
| Relays and links | `Hardware/Relay`, `Buffer` | levels of the handshake, buffer per virtual channel, current channel, signals | `Reset`, `Send`, `Receive`, `Pop`, `Skip`, `Update` |
| Routers | `Hardware/Router`, `ReservationTable` | relays, reservation table, round robin start | `Update`: `TXProcess` (`Reservation`, `Route`), `RXProcess` |
| Processors | `Hardware/Processor`, `ProcessorQueue` | queue of packets, packet being sent, counters | `Update`: production, `TXProcess`, `RXProcess` |
| Network | `Hardware/Network`, `Tile` | tiles and the binding of relays | `InitBase`, clock and reset |
| Routing algorithms | `Routing/*` | none, they read tables or coordinates and the free slots | `Route` |
| Selection strategies | `Selection/*` | none | `Apply` |
| Routing tables | `Configuration/RoutingTable` | ports per pair of nodes | `Load...`, `Adjust`, `Promote`, `GetPaths` |
| Topologies | `Configuration/Graph/*` | adjacency lists | builders, subnetwork generators, shortest paths |
| Traffic managers | `Configuration/TrafficManagers/*` | random numbers or a table | `FirePacket`, `FindDestination` |
| Buffer statistics | `Metrics/Stats` | stuck timer and longest delay of each buffer, loads | `StartStuckTimer`, `StopStuckTimer`, getters |
| Flit tracer | `Metrics/FlitTracer` | stories and the offset of identifiers | `Register`, `Remember` |
| Global statistics | `Metrics/GlobalStats` | none, reads all counters at the end | getters, printing |
| Timer and main program | `Hardware/SimulationTimer`, `Main.cpp` | SystemC time | reset phase, simulation phase |
| Configuration, factory | `Configuration/*` | the parameters | reads YAML once, builds objects |
| Progress bar | `Metrics/ProgressBar` | output only | |

### How they interact

Every router and every processor is a SystemC process that runs `Update` at a
clock edge. What a relay writes to its signals (`sig_flit`, `sig_req`,
`sig_ack`, `sig_free_slots`) is seen by the relay bound to it one update phase
later; everything else a device changes is its own. The exceptions are the flit
tracer, which all devices call, and the timer, which all read. The order in
which the kernel runs the processes at an edge is unspecified.

A packet is produced in a processor's queue as a number only; its destination
and length are drawn when it reaches the front. Its head flit reserves, router
by router, the connection the routing algorithm offers and the selection
strategy picks; its other flits follow, its tail flit releases.

### What is hard about it

* Sender and receiver of a link decide on what the other wrote a cycle ago, and
  run in any order. Credits are old by the time they are used.
* A reservation is made in one cycle for flits that come many cycles later,
  inside a loop that makes and releases others.
* Packets hold channels while they wait for channels: deadlock depends on all
  of topology, algorithm, table and selection at once.
* A port without an output for some destination, a table with a hole or a port
  that is never visited only shows as lower throughput. So does an input that the
  round robin of a router passes over.
* A subnetwork is generated, given a table of its own, and both are joined to the
  main network by renumbering ports; a wrong number is a wrong link, not an error.
* The statistics are kept by counters that reconstruct what they do not store:
  time stamps between the oldest and the newest, timers whose negative values
  mean "off", identifiers relative to an offset that moves.

Nothing is persisted and nothing is sent over anything that loses messages, so
crashes, retries and duplicates do not occur. `PROJECT.json` lists each hazard
at its line.

### What makes each component correct

* Links: nothing sent is lost, duplicated, reordered or put into a full buffer;
  the link never falls silent.
* Routers: packets stay whole and are never interleaved on a channel; a
  reservation is exclusive and lives as long as its packet; a router implements
  wormhole switching whatever is configured. An output wanted is never idle, and
  which inputs get their share of it follows from the round robin.
* Network: no flit is lost or misdelivered; when production ends it runs empty.
* Routing, tables, topologies: always an output, shortest where it is meant to
  be, every packet arrives, no cycle of waiting buffers.
* Subnetworks: each is a spanning tree of the graph; packets of the "without
  permission to leave" kinds stay in it.
* Metrics: time stamps stay in order, flits are counted once, every wait and the
  longest way to a destination are reported, a story tells the path of its flit
  whatever other flits do.

## 2. The modules

    FlitChannel  <-implements-  Relay          (proved: RelayProofs)
                                  | CycleView: a clock cycle is one step
                                  v
    Wormhole     <-implements-  Network  EXTENDS Router EXTENDS Wiring, Routing
    (proved: NetworkProofs, on WormholeProofs)

    NetworkProofs  EXTENDS Network, WiringProofs; instantiates WormholeProofs

    Saturation  EXTENDS Router

    Walk  EXTENDS Subtrees EXTENDS RoutingTables EXTENDS Topologies;
          instantiates Wiring, MeshRouting, Routing
    GraphProofs  EXTENDS Subtrees; instantiates WiringProofs
    WalkProofs  EXTENDS Walk, GraphProofs; instantiates MeshProofs, WiringProofs

    Metrics  EXTENDS ProcessorQueue, BufferStats, FlitTracer, TrafficManagers
    MCNetwork  instantiates TrafficManagers

| Module | Models |
|---|---|
| `FlitChannel` | the promise of a link: bounded FIFO channels, one per virtual channel |
| `Relay` | `Relay.cpp` and `Buffer.cpp` under SystemC's evaluate and update phases. Every method that changes state is an action of one relay; `Delta` is the update phase; a relay takes part in an evaluation once (`ran`) |
| `Wormhole` | the promise of all routers together: flits move between channels, heads reserve, tails release. What moves where is left open |
| `Wiring` | `Network::InitBase`: which relay is bound to which |
| `Routing` | the algorithms that read tables (`TABLE_BASED` and the six with subnetworks) and the seven selection strategies, as functions of the head flit and of what the outputs offer |
| `Router` | `Router::Update` as a function from state and signals to the set of possible outcomes. Only selection is nondeterministic |
| `Network` | all routers and processors, a clock edge a step |
| `Saturation` | one router of `Router` between neighbours that always have a packet for the same output |
| `Topologies` | the four graph builders |
| `RoutingTables` | the eight table generators, tables written in a configuration, the ways a table gives (`GetPaths`) |
| `Subtrees` | the eight generators of subnetworks, and how graph and table of a subnetwork join those of the network (`operator+`, `Adjust`, `Promote`) |
| `MeshRouting` | the seven mesh algorithms and CLUE |
| `Walk` | what `Configuration` makes of a configuration, one packet from router to router, and the waiting of buffers |
| `TrafficManagers` | the three traffic managers: when a processor produces a packet, and for whom |
| `ProcessorQueue`, `BufferStats`, `FlitTracer` | those classes, as operators on a record each |
| `Metrics` | a processor, a router and a destination that use them together |
| `RelayProofs`, `WormholeProofs`, `MetricsProofs` | the theorems about those modules |
| `WiringProofs` | loops and folds as functions; the binding of relays is symmetric and, on undirected graphs, complete |
| `NetworkProofs` | what one `RouterUpdate` can do, whatever is configured; a cycle taken to pieces; the types of the network; `Network` implements `Wormhole`, and what follows from it; no misdelivery, no stale reservation, no flit lost |
| `MeshProofs` | coordinates and links of a mesh of any size; what the algorithms that restrict turns offer there |
| `GraphProofs` | what the algorithms of `RoutingTables` and `Subtrees` compute on any connected graph: distances, shortest paths, spanning trees; the levels of a tree |
| `WalkProofs` | `Walk` on meshes of any size, and with Dijkstra's table on any connected graph, with or without a physical subnetwork |
| `MC...` | the instances for TLC |

### How state and actions correspond

* A port is numbered from 1 (from 0 in the code), so that an adjacency list is a
  TLA+ sequence; the relay of a processor is port 0. Virtual channels are
  numbered as in the code.
* `Relay`: `txLevel`, `rxLevel`, `current`, `buffers` are the members of
  `Relay`; `flit`, `req`, `ack`, `free` are its signals, and the same names with
  `N` the values written and not shown yet. `Send` is any device calling
  `Relay::Send` after `CanSend`; `Skip` and `Pop` are `Relay::Skip` and `Pop`.
* `Router`: one record per router with `buf`, `table`, `start` and `vc`
  (`start_from_port`, `current_virtual_channel`). `RouterUpdate` runs the
  reservation loop, then the forwarding loop, then reception, as `Update` does;
  the loops are folds over the ports in the order of the code, and reservations
  made early in a loop are seen late in it.
* `Network`: `Cycle` runs every device once. That is only right because at an
  edge a device sees the true state of its links. `CycleView` of `Relay` says so
  and is proved for all relays. `hop` and `open` are history variables for the mapping to
  `Wormhole`; the reservation table of a router, its wires and its buffers are
  the channels of `Wormhole`.
* `Walk`: a state has a configuration (`case`) and what `Configuration` makes of it
  (`net`: the graph of the network with a physical subnetwork, the table, the
  subnetwork and its table; one state for each tree `TREE_RANDOM` can return). The
  packet is the record `h` that the routing algorithms see. `Inject` chooses source
  and destination, `Forward` any output the algorithm offers. Other packets appear in
  what is free: `Offered` asks a table based algorithm with each buffer in turn as the
  only one that has room. Nothing more is offered when more have, and a packet may be
  sent to any of them by some state of the network, but for selection by level and
  the algorithms' own order of preference, which take one of these.
* `Subtrees`: the generators keep the order in which nodes are found and links are
  listed, since ports are numbered by it. `TGen2` leaves out the loop of
  `tgen2_subtree` that assigns a local variable nothing reads.
* `TrafficManagers`: a random number between 0 and 1 is one of `Draws` values; an
  answer is a set of what can come out. A variable the constructor reads before it
  is written (`TableTrafficManager.cpp:45`, `:49`, `:57`) has any value of `Memory`.
* `Saturation`: the router is `RouterUpdate` of `Router`; a neighbour is a link that
  sends the next flit whenever `Relay::CanSend` would allow it. `Init` starts the
  round robin anywhere.
* `Metrics`: time stamps are integers in parts of 1/`Scale` of a cycle, for the
  code interpolates them as doubles. `made`, `births`, `seen`, `since`, `longest`, `worst`, `aged` are what
  really happened. `InReset` and `Ended` are the two calls of `sc_start` in
  `Main.cpp`, in nanoseconds, against clock edges every `ClockPeriod` picoseconds.

Not kept in the models: names, printing, loads and averages; the value of random
numbers (any outcome is allowed); the content of flits beyond what routing,
counting and order need.

## 3. The runs

| Run | Instance | What it shows |
|---|---|---|
| `relay` | one link, 1 virtual channel of 2 slots, 2 payloads | no flit is overrun or overwritten, no credit promises too much; a device sees the truth at an edge; a flit sent is received; a sender gets to send again when there is room; the link is a bounded FIFO, in which nothing is lost, doubled or reordered |
| `wormhole` | two routers, five channels, two packets of two flits | `Wormhole` itself keeps packets whole, holds paths exclusively, stays in bounds |
| `network` | ring of 4, packets of 2 flits, 2 virtual channels of 1 slot, `CIRCULANT_VIRTUAL_RING_SPLIT`; each node sends a packet to the opposite one, but the packet of one goes where a hotspot manager draws | no loss, misdelivery, overflow or stale reservation; everything is delivered, since the split keeps the ring from deadlock; `Network` implements `Wormhole` with two channels on a link |
| `net_fit` (violation) | three nodes in a row, `FIT_VIRTUAL_SUBNETWORK` | packets leave the subnetwork |
| `metrics` | packets of 2 flits, buffer of 2, up to 4 packets in 14 cycles, random, hotspot and table based traffic | stamps in order, timers and stories right |
| `metrics_delay` (violation) | the same | the maximum delay is not that of any packet |
| `metrics_produced` (violation) | the same | more flits are reported as produced than were |
| `metrics_max_time` (violation) | the same | the longest time in the network is that of a flit not delivered |
| `metrics_stuck` (violation) | the same, the router may change the virtual channel | a wait longer than the one reported |
| `walk` | every algorithm, table and generator of subnetworks on small graphs | see below |
| `walk_odd_even` (violation) | mesh of 3 by 3 | a packet going west has no output |
| `saturation` | a corner, a border and the centre of a mesh of 3 by 3, packets of 1 to 5 flits, any two or more neighbours sending | an output that is wanted never idles; every neighbour is served where the round robin comes to every port; where it moves in step with the packets, one starves |

Bounds. The link protocol has no counter but the buffers: one link, full and empty,
shows every state of it. Flits passing each other need two slots and two payloads; with
two virtual channels as well, the states are more than a run has time for, so it has one,
`network` has two, and the proofs are for any number. Two packets are the least that can
interleave. A ring of four with packets to the opposite node is the least in which
each packet waits for the next; packets of two flits in buffers of one stretch
over two routers, where packets that pass and those of the router's own processor can
want the same output. `MaxPackets` bounds production; a network that has to run empty
needs one. In `Metrics`, four packets are enough for a queue of three to be
interpolated twice; `SimulationTime` leaves time to empty it; the table of traffic
has a line for each of the ways its numbers can be missing; a `Scale`
of 144 leaves no remainder when four packets are interpolated, so the stamps are those of
the code: the i-th packet to join the queue can ask for a division by each length up to i, and
the product of the least common multiples, 1 · 2 · 6 · 12, is 144.
Meshes of three by three have
corners, borders and a centre, columns of both parities; circulants are chosen
with even and odd sizes, with and without a step of half the ring (which makes
two links between a pair).

`walk` runs all cases as initial states of one model. `Minimal` excepts
`CLOCKWISE` and `MULTIPLICATIVE`, which take detours by design, and measures a hop
over the subnetwork along the tree; `Arrives` speaks of detours too. A packet that
may leave the subnetwork can change between it and the main network for ever, which
`Arrives` excepts by its premise. The buffers are the smallest that the algorithm
needs for the packets; with smaller ones `SomeOutput` fails at once for those that ask
for room. `SpanningTree` and `RoutesComplete` look at what was generated.
`NoCyclicWait` is a statement about the initial state: it computes every flit that can
be on its way, and the greatest set of flits that can wait for the buffers of each
other. It is empty for the algorithms of `DeadlockFree`, those with a subnetwork
included. For packets longer than a flit every dependency counts, since a body flit waits
for the buffer its head has chosen even when the head stands behind another
packet there. CLUE is checked with packets of one flit only: with longer ones the
set is not empty, because buffers may hold flits of several packets and a head
that is not in front cannot take the escape channel.

In `saturation`, three, four and five relays against twice one to five cycles have
every common divisor that occurs on a mesh: the round robin stands at one port when
the output is free for the corner with packets of 3 flits, the border with 2 and 4 and
the centre with 5, at two for the border with the others, and otherwise at every port
in turn. The lengths cross the depth of the buffer.

Deadlock checking (TLC's) is off where the model stops: `Metrics` at the end of the
run, `Walk` at the destination. `Relay`, `Wormhole` and `Network` never stop.

### Fairness

* `Relay`: weak fairness of `Delta`, and of `Reset`, `Receive` and `Update` of
  every relay. The kernel runs every process at every edge and ends each
  evaluation with an update phase; `RXProcess` receives from every relay; all
  devices call `Update`. Nothing is assumed of `Send`, `Pop` and `Skip`.
* `Network`: the clock keeps ticking and reset ends, `[]<><<TRUE>>_netvars`.
  Outside reset every tick changes the round robin. Nothing is assumed of the
  production of packets or of random choices.
* `Saturation`: the clock keeps ticking, `[]<><<TRUE>>_vars`; every tick moves the round
  robin.
* `Walk`: weak fairness of `Forward`; that a router does forward in the end is
  what `Network` and `NoCyclicWait` are about.

## 4. The proofs

`RelayProofs` (any set of relays bound in pairs, any number of virtual channels
and slots, any payloads; assumption `RelayAssumption`): type correctness,
`NoOverflow`, `CreditSound`, `NoOverwrite`, `CycleView`, and that relays implement
`FlitChannel`. `NoOverflow` is not inductive: whether there is room when a flit
arrives was decided when it was sent, from a credit published before. `RInv`
follows the flit: of the sender's level, req, the receiver's level and ack at most
one differs from the one before (`Alternating`); a device that has run has
published its true room (`Published`); the credit is sound while the handshake is
idle (`CreditSound`); a flit under way has a slot kept for it (`Room`). Each action
has a lemma, `NextRInv` puts them together. The refinement maps `Send` to `Put`,
`Pop` to `Take` and every other action to a stutter.

`WormholeProofs` (any channels, any topology, packets of any length, any depth;
assumption `WormholeAssumption`): type correctness, `PacketsContiguous`, `PathHeld`,
`Bounded`. That what arrives on a channel continues what is there holds because of
the channel it comes from: `WInv` ties the two ends of a reservation to the same
packet (`Tied`), says that a channel without a reservation is between two packets
at its front (`BetweenOut`) and one nobody has reserved at its back (`BetweenIn`),
and that the back agrees with the front over what is stored (`EndsMatch`).

That a reservation does not outlive its packet (`NothingLeftReserved`: when the
channels are empty and no processor is in the middle of a packet, nothing is reserved)
needs more, because packets are longer than buffers and a chain of reservations could
close on itself with nothing in it. `HeldFor` says that a reserving channel is in the
middle of a packet or has one at its front. `Ranked` says that channels can be numbered
upwards along every stretch of a packet without its tail: a channel that has just sent
a head is the end of its stretch and takes a number above all others. When all is
empty, the channel that holds a reservation is in the middle of a packet, so it was
sent part of it by a channel with a smaller number that holds a reservation too. Going
back like this ends at a processor, which is not in the middle of a packet. It is an
invariant of its own, not checked by a run; `NoStaleReservation` of `Network` is.

### The network

The modules `WiringProofs` and `NetworkProofs` hold for every graph (any number of
nodes, several links between a pair), every table and every algorithm and strategy of
`Routing`, any number of virtual channels, any depth, lengths and traffic. What is
assumed are the assumptions of the modules: the nodes are numbered from 0 and lists
of neighbours name nodes (`WiringAssumption`), there is at least one channel and one
slot (`RouterAssumption`), and `NetworkAssumption`: `InitBase` binds every relay (the
graphs are undirected, so each list entry has its partner), traffic is for other
nodes, tables name links of their router, the subnetwork's channel exists, the
strategies that split channels have two, and `None` is not a flit. TLC evaluates them
on `network` and `net_fit`.

1. *Loops.* The code's loops are `FoldLeft` and `FoldSet` in the model. Their value is
   the last of a function from the sets of what has been done, or from what is
   still to do, to values (`IsLoop`, `IsWalk`). `LoopExists` and `WalkExists` show that
   such a function exists, `LoopKeeps` and `PickInduction` that what each turn keeps
   holds at the end. They take a set of values, not an operator, so the provers can
   use them. `BoundSymmetric` is the first result: whatever the lists of neighbours,
   `InitBase` binds relays in pairs across a link, also where a pair of nodes has several.
2. *A router.* Routing and selection answer nothing or a connection of the router, that
   of the processor exactly for packets that end there (`AnswersOnly`); the reservation
   loop only adds exclusive reservations, and only replaces those of packets whose head
   still waits (`ReservationsMake`); the forwarding loop sends at most one flit from each
   input to the output it has reserved, with acknowledgement and credit, and takes the
   reservation away with the tail (`ForwardingForwards`). `RouterUpdated` puts these
   together; nothing later looks into the loops.
3. *A cycle.* `CycleParts` takes `Cycle` to pieces: for some outcomes of the routers and
   the processors, `Parts`. `NextTyped` is type correctness in full.
4. *The refinement.* The channels of `Wormhole` are the virtual channels with the wire to
   each, a reservation is seen as the channel it leads to (`View`), and two connections
   never lead to the same channel (`DownstreamInjective`). One lemma per conjunct of a
   step of `Wormhole` (`StepForward`, `StepReserve`, `StepRelease`, `StepInject`,
   `StepMove`) shows that a cycle is one; a cycle of the reset is a stutter. Nothing but
   the tables' exclusiveness is needed to know which channel an arriving flit came from.
   `NetInv` is the types together with the invariant of `Wormhole` under the mapping,
   and with it `NetworkContiguous`, `NetworkNoOverflow` and `NetworkTypeOK` follow. The
   proofs use one instance of `Wormhole` (`SP`, with its proofs) and the model states
   the refinement with another (`Switching`); the lemmas `Same...` say that the two are
   the same formulas.
5. *Delivery.* `DInv` adds that the reservation of a packet leads to the processor just
   when the packet ends there (`Aimed`), for the packet a channel is in the middle of or
   has at its front, and that what is on the wire to a processor is for it. It needs
   contiguity: a body flit is delivered where its head was.
6. *No stale reservation.* If no flit is anywhere and no processor has a packet, the
   channels of `Wormhole` are empty and `NothingLeftReserved` applies.
7. *No flit lost.* `FlitsLost` is a difference of sums over nodes, buffers and wires. A
   sum is the value at the whole set of a function of its subsets (`Totals`), so that
   sums balance if they do element by element (`TotalsBalance`). For a router, what is
   buffered grows by what arrives less what leaves (`NodeBalance`); the wires are counted
   by the node they lead to before the cycle (`NodeArrivals`) and by the node that sends
   after it (`NodeDepartures`), which is the same number because `Bound` is one to one.

### The walk

What is about graphs and not about steps is in `GraphProofs` (`DijkstraDistances`,
`ShortestPaths` and the trees below). In `Walk` a configuration is part of the state
(`case`), and the theorems of `WalkProofs` say of `Spec`, for any set of configurations, what holds of those of a class. There are three
classes. `IsMeshCase`: one of the six algorithms that restrict turns, on a mesh of any
width and height with any number of links between neighbours. `IsTableCase`:
`TABLE_BASED` with the table of `LoadDijkstra`, any of the seven selection strategies,
any depth of buffers, on any graph that is undirected, connected and has fewer nodes
than the number `LoadDijkstra` takes for infinity (`Inf`, the greatest 32 bit integer).
`Physical`: such a graph with a physical subnetwork, under any of the four algorithms
that use one, with any strategy but `CIRCULANT_VIRTUAL_RING_SPLIT`; what was generated is
an undirected connected graph on the same nodes without links from a node to itself
(`IsSubnetwork`). All cases of `walk` with these algorithms and Dijkstra's table belong
to one of them.

1. *The binding.* `BoundSymmetric` says that what is bound is bound in pairs;
   `BoundComplete` adds that nothing is left over if every two nodes list each other
   equally often. `GraphLinked` puts them together for the graphs of both classes, and
   `LinksBalanced` counts the links of a mesh. So a flit that is sent over a link
   arrives in the relay of the neighbour that leads back (`Located`), which is
   `TypeOK`.
2. *Meshes.* `TypeOK`, `SomeOutput`, `Minimal` and `NoCyclicWait`. `NodeXY` and `XYNode`
   say that numbers and coordinates of nodes determine each other, `MeshLinks` how the
   builder, which appends four kinds of links in turn, lists the neighbours. `MeshInv`
   keeps besides `Located` what a packet has behind it (`Good`): the direction it came
   from and the turns its algorithm has ruled out (`Keeps`; for `WEST_FIRST`, say, a
   packet that has gone another way has no column left to go west). `MeshHop` then says
   that some output is offered, and that each of those offered leads to a neighbour
   that is nearer and keeps this.
3. *Deadlock.* No set of buffers can wait for each other since every hop goes down in
   an order of the buffers: `Rank` is the level of the turns that the algorithm still
   allows, and within a level the way to the border. `Held` and `Deadlock` are the
   least and the greatest fixed point of a recursive function over sets of flits, which
   exist because sets only grow or shrink (`GrowingExists`, `ShrinkingExists`). That
   nothing but `Good` flits is in the first is by counting those not yet found, of which
   there are finitely many (`LocatedFinite`, `HeldWithin`); that the second is empty, by
   going down the ranks (`RankedDeadlock`: if in every set of flits the one that waits
   for the set waits for one of a lower rank, none is stuck). On meshes nothing depends
   on the length of packets.
4. *Dijkstra.* `DijkstraDistances`: the weights are 0 at the start, differ by at most 1
   along each link, and every other node has a neighbour that is one nearer. The
   invariant of the rounds is `Settled`: visited nodes have the smallest weights, their
   links lead at most one further, every known node but the start is one further than a
   visited one that is linked to it, and a weight is at most the number of visited nodes
   or infinite, so that none of the known ones is taken for infinite. That the loop does
   not end while a node is left needs that the graph is connected. `OneDistance` says
   that such weights are unique, so the theorem determines them. `DijkstraPorts` reads
   the table: it lists the ports that lead one nearer, in order, and there is one.
5. *Tables.* `TypeOK`, `SomeOutput` and `Minimal` for every strategy. `Applied` says
   what each of the strategies answers when one buffer has room: nothing, or one of the
   connections it was given with the virtual channel of its rule; and if the room is
   behind the highest of the ports, that one, so that every packet gets an output.
   Weights on a mesh are rows and columns to go (`MeshDistance`), by uniqueness, which
   is how `Minimal` on meshes is stated in terms of Dijkstra's algorithm.
6. *Physical subnetworks.* `TypeOK`, `SomeOutput`, `Minimal` and `StaysInSubnetwork`.
   Two nodes can be linked in the graph and in the subnetwork, and `InitBase` looks for
   the first free relay of the neighbour, so it is not evident that it does not bind one
   of the graph to one of the subnetwork. It does not because nodes take their links in
   order: `BoundApart` says that for any part of the links that comes first in every
   list (`IsFront`) and in which every two nodes list each other equally often, relays
   inside are bound to relays inside. With it (`Apart`) a packet sent by a port behind
   those of the graph is in the subnetwork where it arrives (`SentSide`), and `FromSub`
   says that its port is then one that the subnetwork's table names, for the table names
   the port that leads back. `ViaIs` follows the two lists of `Route`. `SomeOutput`
   needs that the buffers have the room the algorithm asks for (`Fits`).
7. *Spanning trees.* `Spans` proves `SpanningTree` for the generators of
   `IsSpannedCase` (`TREE_RANDOM`, `TGEN_0`, `TGEN_1`, `TGEN_2`, `TGEN_3`, `TGEN_6`) on
   every connected graph, and `SpansPhysical` that what they make is the subnetwork that
   item 6 takes as a hypothesis; so for these it is one no longer. The searches
   (`TREE_RANDOM`, breadth first, level by level) keep that the tree so far has a link
   less than nodes and reaches each of them (`IsTree`), and the last two that the queue
   is in the order of the distances and what is before the place being worked on has all
   its neighbours in it (`IsLevelled`). `TGEN_0` and `TGEN_2` hang nodes on the tree in
   an order that need not keep it in one piece: `IsHung` says that every node dealt with
   is linked to one neighbour that is nearer to the root, and `AllHung` that when this
   is so for all, the links lead down to the root from everywhere, on a way as short as
   in the graph. `TGEN_2` takes the k-th of the shortest paths of the k-th node, modulo
   their number, so it needs that there is one, and that it has a second node.
8. *Paths.* `ShortestPaths` says what `get_simple_paths` lists: every way to the
   destination with as many links as the distance and nothing else. The recursive
   definition exists (`LP!LoopExists` builds it distance by distance), and
   `WaysArePaths` is by induction on the distance. `DijkstraRoutes` is `RoutesComplete`:
   the ways by the ports of the table obey the same recursion, so they are the same list.
9. *Deadlock with a subnetwork.* `SubnetworkNoCyclicWait` is `NoCyclicWait` with a
   physical subnetwork that is a tree (by `SpansPhysical` those of the six generators
   are), next to any graph, although the graph's own links may well make circles. The
   packets are single flits, or the algorithm forwards them whole (`Whole`); only then
   does a packet that stands in front of full buffers still choose among all its
   outputs. One of these is a link of the tree (`PhysicalHop`; it needs `Fits`), so a
   packet would wait for a buffer of the tree for ever. `TreeRank` numbers the buffers:
   those of the graph are the highest, then come those that lead towards the root, lower
   ones first, then those that lead away from it. A packet on the tree came by a link of
   its way (`CameBy`), so it does not turn back, and a hop goes down in the order unless
   the packet goes away from the root and then towards it. That cannot be: in a tree no
   node has two links that lead up, and none leads to a node that is as far
   (`TreeLevels`). This is by counting. The relays of the tree are paired by the binding
   (`SubPairing`), so as many ends lead up as down; every node but the root has one that
   leads up; and there are two ends for every node but one in all.

### The statistics

`MetricsProofs` holds for every packet size, depth, traffic, length of the run and
`Scale` (assumption `MetricsAssumption`). `MInv` says of the queue that the packet
being sent has been drawn and is not newer than those behind it (`QueueSound`), of the
flits under way that they are in order, older than anything in the queue and carry the
time they were sent at (`InOrder`, `Before`, `Labelled`), and of the counters what they
count (`Sent`, `Numbered`). From it follow the order of time stamps, what
is reported as produced and, with `Timed`, `Told` and `OnTime`, the reports. Some results
have a hypothesis, which is the condition under which the code is right: `Watched` and
`StuckDelayReported` need a router that keeps flits in their virtual channel
(`Outs = {0}`; otherwise `metrics_stuck` refutes the second), `TrueStories` an interval
of the tracer without end (`StoryEnd < 0`; otherwise it fails for flits that are
further on their way). Two theorems say how much the report is off where a
run refutes what the manual says of it: `MetricsHalfSentTwice`, that flits produced are
counted right but for those of the packet half sent, and `MetricsMaxTimeOfAll`, that the
longest time in the network is that of the flits delivered and of those left in
buffers together (with a clock of 1000 ps; otherwise the two are not measured alike).

### Only model-checked

* All liveness (`EveryFlitArrives`, `LinkRecovers`, `EverythingDelivered`, `Arrives`,
  and the shares of `Saturation`): it rests on fairness and ENABLED.
* Of `Walk`, the rest of the configurations: `MESH_ODD_EVEN`, the torus, the tables of
  `MESH_XY`, `UP_DOWN`, the greedy ones and those of circulants, `CLUE`, virtual
  subnetworks, and the freedom from deadlock of tables without a physical subnetwork. These tables are made by
  recursive definitions, and what those compute for every input would need induction
  over data; each would have to be set up by hand like Dijkstra's loop.
* `SpanningTree` for `TGEN_4` and `TGEN_5`, which choose links by the Wiener index of
  the forest so far.
* Everything of `Saturation`, for which no proof has been tried.

The proofs use `With`, not the `@@` of the TLC module, and the model's loops are folds
over sequences or sets, which the provers can expand.

## 5. What the code does and the documentation does not say

With a run:

* `FIT_VIRTUAL_SUBNETWORK` lets packets leave the subnetwork (`net_fit`).
* The interpolation of time stamps divides by one too many; delays are overstated
  (`metrics_delay`).
* `Router::Route` looks for the next flit of a buffer under the virtual channel of
  the output (`metrics_stuck`).
* `MESH_ODD_EVEN` never sends west (`walk_odd_even`). It also reads the neighbour
  behind the local port, one past the end of the list; the model allows any result.
* `Processor.cpp:174`: the flits already sent of a packet half sent are counted twice
  in the flits produced (`metrics_produced`).
* `GlobalStats.cpp:93`: the longest time a flit took to be delivered is also that of
  flits which were not (`metrics_max_time`). Flits on the wires when the simulation ends
  are left out.

Seen while modelling, without a run of their own:

* With a clock period other than 1000 ps reset and simulation last another number of
  cycles than configured (`Main.cpp:40`, `:48`; `InReset` and `Ended` of `Metrics`
  follow the code, and the manual says cycles). The runs have 1000 ps.
* `FlitTracer.cpp:19`: once the traced interval has ended, the offset moves under the
  flits of the interval still on their way, and their stories end there; `TrueStories`
  is about intervals without an end.
* `RoutingTable.cpp:322`: on graphs where all shortest paths of a pair go down and up
  (a ring of six, a torus) `UP_DOWN` stops loading, and `Configuration` ignores it:
  `SomeOutput` fails there. `walk` uses it on meshes and trees.
* `LoadCirculantClockwise` leads in circles when the smaller generator is not 1, for
  instance 2 and 3 of 13, where `Arrives` fails; so does `LoadCirculantAdaptive`.
* `RoutingFixedSubnetwork.hpp:32`: a packet of the router's own processor counts as
  coming from the subnetwork, since the table row names the local port, and is never
  offered the main network.
* `CIRCULANT_RING_SPLIT` and `DIJKSTRA` on a circulant have cycles of waiting buffers
  with one virtual channel, so neither is in `DeadlockFree`.
* `RoutingMeshXYYX.hpp:20` compares x with the height of the mesh; `walk` includes a
  mesh of three by four, on which nothing depends on it.
* `FIT_SUBNETWORK` and `BYPASS` ask for more free slots than the packet is long:
  packets nearly as long as the buffer are never routed.
* The round robin of a router is not fair under saturation. On a router of four
  relays (the border of a mesh) with packets of equal length, inputs that want the
  same output find it at only one or two of four places when the output is free, and
  if more want it than that, one is never served (`StarvesInStep`). With three or five
  relays this depends on the length. No document promises a share.
* The subnetwork `TREE` of `user_manual/topology_parameters.md:69` does not exist: like
  any unknown name it gives an empty graph without an error; `TGEN_6` used without physical links leaves rows of the table
  empty where the graph has no such link, so `walk` uses it with physical ones.
* `GREEDY_PROMOTION` sends packets to and fro on a mesh of four by three, a ring of nine
  and a torus of three by three; `walk` has it on meshes of three by three and three by
  two, a tree and a ring of six.
* `RoutingTable::GetPaths` does not come to an end on a table that leads in a circle.
* `HotspotTrafficManager.cpp:21` multiplies the random number, not the rate, by the
  send factor, which the manual calls a "send probability multiplier": a greater factor
  sends less, and 0 sends in every cycle.
* `TableTrafficManager` looks at one number of a line too early (`t_on` with the fourth
  number, though it is the fifth), so that a line of four to six numbers is read with a
  variable that was not; it fires strictly between `t_on` and `t_off`, and never looks
  at the destination.
* A traffic manager that can only draw the node itself draws for ever
  (`FindDestination`).

## 6. Not modelled

* The formats of topologies, tables and traffic in text; `RoutingTable::Load`,
  `Graph::get_paths`, `directed_subtree` and `wiener_index`, which nothing calls.
* Loads, averages and rates: arithmetic over counters that are modelled.
* Configuration parsing, printing, the progress bar.
* A reset in the middle of a simulation: the program raises it once.
* `Relay::Disable`, which nothing calls.

## 7. Plan

Done, in this order: `FlitChannel` and `Relay` with their proofs; `Wormhole` with its
proofs; `Wiring`, `Routing`, `Router`, `Network`; `ProcessorQueue`, `BufferStats`,
`FlitTracer`, `Metrics`; `Topologies`, `RoutingTables`, `MeshRouting`, `Walk`;
`Subtrees` and `Walk` over the combined network; `TrafficManagers`; the clock period and
the end of the run in `Metrics`; `Saturation`; `MetricsProofs`; `WiringProofs`,
`NetworkProofs`; `MeshProofs`, `GraphProofs`, `WalkProofs`.

Next:

1. An actual deadlock or its absence for CLUE with long packets in `Network`.
2. Proofs: virtual subnetworks; CLUE on tori; the tables other than Dijkstra's.
