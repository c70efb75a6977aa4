------------------------------ MODULE Network -------------------------------
(***************************************************************************)
(* The whole network, cycle by cycle (Hardware/Network.cpp, Router.cpp,    *)
(* Processor.cpp).                                                         *)
(*                                                                         *)
(* Every router and every processor runs its Update once per clock edge.   *)
(* They read signals as the last edge left them and otherwise touch only   *)
(* what is theirs, so one action, Cycle, runs them all.  At a clock edge   *)
(* the handshake and the credits of a link amount to this (CycleView of    *)
(* the Relay module): either a flit is on the wire, it is received in this *)
(* cycle and no other is sent, or the wire is empty and the sender sees    *)
(* the free slots the receiver has.                                        *)
(*                                                                         *)
(* A flit is a record of its packet pkt = <<source, number>>, destination, *)
(* place in the packet seq and length of the packet len.  The packet       *)
(* number is not in the code, which knows a packet by its source and time  *)
(* stamp.                                                                  *)
(***************************************************************************)
EXTENDS Router

CONSTANTS
    Traffic,     \* Traffic[n]: where the traffic manager lets n send packets
    Lengths,     \* config.MinPacketSize() .. config.MaxPacketSize()
    MaxPackets   \* MaxPackets[n]: bound on the packets processor n produces

WFlits  == [pkt : Nodes \X Nat, dst : Nodes, seq : Nat, len : Lengths]
Packets == [dst : Nodes, len : Lengths]

\* The graph is undirected, so that InitBase binds every relay; traffic is for other
\* nodes; the tables name links of their router towards every other node, and what
\* uses a second virtual channel has one.
ASSUME NetworkAssumption ==
    /\ \A r \in LinkRelays : r \in DOMAIN LinkBindings
    /\ \A n \in Nodes : Traffic[n] \subseteq Nodes \ {n}
    /\ Lengths \subseteq Nat \ {0} /\ IsFiniteSet(Lengths) /\ Lengths # {}
    /\ Size = Cardinality(Nodes)
    /\ \A n, d \in Nodes : n # d => {Table[n][d], SubTable[n][d]} \subseteq Seq(DOMAIN Adj[n])
    /\ SubVC \in VCs
    /\ SelectionStrategy \in {"CIRCULANT_VIRTUAL_RING_SPLIT", "CIRCULANT_VIRTUAL_DISTRIBUTION"}
          => NumVCs > 1
    /\ None \notin WFlits /\ None \notin [flit : WFlits, vc : VCs] /\ None \notin Packets
    /\ None \notin Seq(Nat)

VARIABLES
    reset,   \* Network.reset
    router,  \* the routers
    proc,    \* the processors: [waiting, packet, left, made], see below
    wire,    \* what is on the wire to each relay, or None
    sent,    \* TotalActualFlitsSent of each processor
    got,     \* TotalActualFlitsReceived of each processor
    tails,   \* TotalPacketsReceived of each processor, the warm-up left out
    hop,     \* history: where each router channel sent a flit in the last cycle
    open     \* history: the packet that has partly left a channel

netvars == <<reset, router, proc, wire, sent, got, tails, hop, open>>

(***************************************************************************)
(* The state of a processor:                                               *)
(*   waiting  the packets in its queue, the one being sent included        *)
(*   packet   None if the front packet has not been drawn (UpdateRequired),*)
(*            else its destination and length                              *)
(*   left     the flits of the front packet not yet sent (flit_left)       *)
(*   made     the packets produced so far                                  *)
(***************************************************************************)
Idle == [waiting |-> 0, packet |-> None, left |-> 0, made |-> 0]


\* A channel is a virtual channel of a relay together with the wire to it.  The
\* relay of a processor has one: everything for a processor goes to channel 0.
RouterChannels   == UNION {{<<n, p, v>> : p \in Ports(n), v \in VCs} : n \in Nodes}
DeliveryChannels == {<<n, 0, 0>> : n \in Nodes}
Channels         == RouterChannels \cup DeliveryChannels

\* The channel that connection con of router n sends to.
Downstream(n, con) == Append(Bound[<<n, con.port>>], con.vc)

Init ==
    /\ reset = TRUE
    /\ router = [n \in Nodes |-> NewRouter(n)]
    /\ proc = [n \in Nodes |-> Idle]
    /\ wire = [r \in Relays |-> None]
    /\ sent = [n \in Nodes |-> 0] /\ got = sent /\ tails = sent
    /\ hop = [n \in Nodes |-> <<>>]
    /\ open = [c \in Channels |-> None]

-----------------------------------------------------------------------------
\* A mutation of Credit: one slot too many is announced.
CreditPlusOne(r, v) ==
    1 + (IF r[2] = 0 THEN Depth ELSE Depth - Len(router[r[1]].buf[r[2]][v]))

\* The free slots that relay r has announced.  A processor empties its relay
\* in every cycle.
Credit(r, v) == IF r[2] = 0 THEN Depth ELSE Depth - Len(router[r[1]].buf[r[2]][v])

Signals(n) ==
    [idle    |-> [p \in Ports(n) |-> wire[Bound[<<n, p>>]] = None],
     credit  |-> [p \in Ports(n) |-> [v \in VCs |-> Credit(Bound[<<n, p>>], v)]],
     arrived |-> [p \in Ports(n) |-> wire[<<n, p>>]]]

-----------------------------------------------------------------------------
\* Processor::Update, first the production of a packet, then the draw of the
\* packet at the front of the queue, then TXProcess and RXProcess.
Produce(p, fires) == IF fires THEN [p EXCEPT !.waiting = @ + 1, !.made = @ + 1] ELSE p

NeedsDraw(p) == p.waiting > 0 /\ p.packet = None

Draw(p, packet) == [p EXCEPT !.packet = packet, !.left = packet.len]

NextFlit(n, p) == [pkt |-> <<n, p.made - p.waiting>>, dst |-> p.packet.dst,
                   seq |-> p.packet.len - p.left, len |-> p.packet.len]

PopFlit(p) == IF p.left = 1
              THEN [p EXCEPT !.left = 0, !.waiting = @ - 1, !.packet = None]
              ELSE [p EXCEPT !.left = @ - 1]

LocalRelay(n) == <<n, LocalPort(n)>>

Sends(n, p) == p.waiting > 0 /\ wire[LocalRelay(n)] = None /\ Credit(LocalRelay(n), 0) > 0

Receives(n) == wire[<<n, 0>>] # None

\* What becomes of an open packet when flit f leaves its channel.
OpenAfter(f) == IF IsTail(f) THEN None ELSE f

\* All ways to take one element of each set f[n].
OneOfEach(f) == FoldSet(LAMBDA n, gs : {With(g, n, x) : x \in f[n], g \in gs},
                        {<<>>}, DOMAIN f)

Count(b) == IF b THEN 1 ELSE 0

(***************************************************************************)
(* One clock edge: fires is the set of processors whose traffic manager    *)
(* fires a packet, draws the destinations and lengths drawn, routed the    *)
(* outcome of each router.                                                 *)
(***************************************************************************)
Cycle ==
    /\ ~reset
    /\ \E fires \in SUBSET {n \in Nodes : proc[n].made < MaxPackets[n]} :
       LET produced == [n \in Nodes |-> Produce(proc[n], n \in fires)]
           drawers  == {n \in Nodes : NeedsDraw(produced[n])}
       IN \E draws \in OneOfEach([n \in drawers |-> [dst : Traffic[n], len : Lengths]]),
             routed \in OneOfEach([n \in Nodes |-> RouterUpdate(n, router[n], Signals(n))]) :
          LET ready   == [n \in Nodes |-> IF n \in drawers THEN Draw(produced[n], draws[n])
                                                           ELSE produced[n]]
              sending == {n \in Nodes : Sends(n, ready[n])}
          IN /\ proc' = [n \in Nodes |-> IF n \in sending THEN PopFlit(ready[n]) ELSE ready[n]]
             /\ sent' = [n \in Nodes |-> sent[n] + Count(n \in sending)]
             /\ got' = [n \in Nodes |-> got[n] + Count(Receives(n))]
             /\ tails' = [n \in Nodes |->
                    tails[n] + Count(Receives(n) /\ IsTail(wire[<<n, 0>>].flit))]
             /\ router' = [n \in Nodes |-> routed[n].r]
             /\ wire' = [r \in Relays |->
                    LET s == Bound[r] IN
                    IF s[2] # 0 THEN routed[s[1]].out[s[2]]
                    ELSE IF s[1] \in sending THEN [flit |-> NextFlit(s[1], ready[s[1]]), vc |-> 0]
                    ELSE None]
             /\ hop' = [n \in Nodes |-> routed[n].hop]
             /\ open' = [c \in Channels |->
                    IF c[2] = 0
                    THEN IF Receives(c[1]) THEN OpenAfter(wire[<<c[1], 0>>].flit) ELSE open[c]
                    ELSE IF InConnection(c[2], c[3]) \in DOMAIN hop'[c[1]]
                         THEN OpenAfter(Head(router[c[1]].buf[c[2]][c[3]]))
                         ELSE open[c]]
    /\ UNCHANGED reset

\* A clock edge while reset is high.  The program lowers reset once.
ResetCycle ==
    /\ reset
    /\ reset' \in BOOLEAN
    /\ router' = [n \in Nodes |-> RouterReset(n, router[n])]
    /\ wire' = [r \in Relays |-> None]
    /\ sent' = [n \in Nodes |-> 0] /\ got' = sent' /\ tails' = sent'
    /\ UNCHANGED <<proc, hop, open>>

Next == ResetCycle \/ Cycle

Spec == Init /\ [][Next]_netvars

\* The clock keeps ticking, and the program lowers reset after ResetTime.
FairSpec == Spec /\ []<><<TRUE>>_netvars

-----------------------------------------------------------------------------
\* The round robin stays on the ports, buffers within their depth, and the queue
\* of a processor never counts more packets than it produced (Router::Update,
\* ProcessorQueue::Pop).
TypeOK ==
    /\ reset \in BOOLEAN
    /\ DOMAIN router = Nodes /\ DOMAIN wire = Relays /\ DOMAIN open = Channels
    /\ \A n \in Nodes :
          /\ router[n].start \in Ports(n) /\ router[n].vc \in VCs
          /\ \A p \in Ports(n), v \in VCs : Len(router[n].buf[p][v]) <= Depth
          /\ proc[n].waiting \in 0 .. proc[n].made
          /\ proc[n].left \in 0 .. Max(Lengths)

(***************************************************************************)
(* GlobalStats::GetFlitsLost is zero at every clock edge: every flit a     *)
(* processor has sent has been received, is in a buffer or is on a wire.   *)
(***************************************************************************)
Buffered(n) == FoldSet(LAMBDA pv, s : s + Len(router[n].buf[pv[1]][pv[2]]), 0,
                       Ports(n) \X VCs)
InTransmission == Cardinality({r \in Relays : wire[r] # None})

FlitsLost == SumFunction(sent) - SumFunction(got)
                - SumFunction([n \in Nodes |-> Buffered(n)]) - InTransmission

NoFlitLost == FlitsLost = 0

(***************************************************************************)
(* Processor::ReceiveFlit never throws: a flit that reaches a processor is *)
(* for that processor.                                                     *)
(***************************************************************************)
NoMisdelivery ==
    \A n \in Nodes : wire[<<n, 0>>] # None =>
        wire[<<n, 0>>].flit.dst = n /\ wire[<<n, 0>>].vc = 0

(***************************************************************************)
(* Relay::Receive never throws: what is on the wire has room where it is   *)
(* going, so a credit is never spent twice.                                *)
(***************************************************************************)
NoOverflow ==
    \A r \in Relays : r[2] # 0 /\ wire[r] # None =>
        /\ wire[r].vc \in VCs
        /\ Len(router[r[1]].buf[r[2]][wire[r].vc]) < Depth

(***************************************************************************)
(* No reservation outlives its packet: when nothing is left of any packet, *)
(* no connection is reserved.                                              *)
(***************************************************************************)
Quiet ==
    /\ \A r \in Relays : wire[r] = None
    /\ \A n \in Nodes : Buffered(n) = 0 /\ proc[n].waiting = 0

NoStaleReservation == Quiet => \A n \in Nodes : router[n].table = <<>>

-----------------------------------------------------------------------------
\* The network as channels, for the Wormhole module.
WireTo(c) == LET w == wire[<<c[1], c[2]>>] IN
             IF w # None /\ w.vc = c[3] THEN <<w.flit>> ELSE <<>>

WQueue == [c \in Channels |->
    IF c[2] = 0 THEN WireTo(c) ELSE router[c[1]].buf[c[2]][c[3]] \o WireTo(c)]

WTable == [c \in Channels |->
    IF InConnection(c[2], c[3]) \in DOMAIN router[c[1]].table
    THEN Downstream(c[1], router[c[1]].table[InConnection(c[2], c[3])]) ELSE None]

WHop == [c \in Channels |->
    IF InConnection(c[2], c[3]) \in DOMAIN hop[c[1]]
    THEN Downstream(c[1], hop[c[1]][InConnection(c[2], c[3])]) ELSE None]

WInjects == {<<n, LocalPort(n), v>> : n \in Nodes, v \in VCs}

WInjected == [c \in WInjects |->
    LET w == wire[<<c[1], c[2]>>] IN IF w # None /\ w.vc = c[3] THEN w.flit ELSE None]

WEntered == [c \in Channels |->
    IF c \in WInjects
    THEN LET p == proc[c[1]] IN
         IF c[3] = 0 /\ p.packet # None /\ p.left < p.packet.len
         THEN NextFlit(c[1], [p EXCEPT !.left = @ + 1]) ELSE None
    ELSE IF \E d \in RouterChannels : WTable[d] = c
         THEN open[CHOOSE d \in RouterChannels : WTable[d] = c] ELSE None]

WOut == [c \in Channels |->
    IF c[2] = 0 THEN {}
    ELSE {Downstream(c[1], [port |-> p, vc |-> v]) : p \in 1 .. Len(Adj[c[1]]), v \in VCs}
            \cup {<<c[1], 0, 0>>}]

Switching == INSTANCE Wormhole WITH
    Out <- WOut, Injects <- WInjects, Flits <- WFlits,
    q <- WQueue, table <- WTable, hop <- WHop, injected <- WInjected,
    left <- open, entered <- WEntered

(***************************************************************************)
(* The routers and processors, with their loops, their round robin and     *)
(* whatever routing algorithm and selection strategy are configured,       *)
(* implement wormhole switching.                                           *)
(***************************************************************************)
ImplementsWormhole == Switching!Spec

(***************************************************************************)
(* When the production of packets has ended, the network runs empty: every *)
(* packet is delivered and nothing waits for ever.                         *)
(***************************************************************************)
EverythingDelivered == <>[]Quiet

-----------------------------------------------------------------------------
\* The subnetwork: channel 1 of every link, or the links its table names.
InSubnetwork(n, con) ==
    IF SubVC = 1 THEN con.vc = 1
    ELSE con.port \in UNION {Range(SubTable[n][d]) : d \in DOMAIN SubTable[n] \ {n}}

(***************************************************************************)
(* A packet that has entered the subnetwork, physical or virtual, is not   *)
(* forwarded out of it before it reaches its processor: what the algorithms*)
(* FIXED_SUBNETWORK and FIT_VIRTUAL_SUBNETWORK are for.                    *)
(***************************************************************************)
StaysInSubnetwork ==
    [][\A n \in Nodes : \A src \in DOMAIN hop'[n] :
          src.port # LocalPort(n) /\ InSubnetwork(n, src)
             => hop'[n][src].port = LocalPort(n) \/ InSubnetwork(n, hop'[n][src])]_netvars
=============================================================================
