----------------------------- MODULE Saturation -----------------------------
(***************************************************************************)
(* One router whose neighbours always have another packet for its own      *)
(* processor: how the round robin of Router::TXProcess shares an output    *)
(* that several inputs want in every cycle.                                *)
(*                                                                         *)
(* The router, hub, is the Router module's.  A neighbour has nothing else  *)
(* to send to it: its router sends the next flit as soon as the link and   *)
(* the free slots allow it (Relay::CanSend), and the processor of the hub  *)
(* takes a flit in every cycle.  All packets have len flits.               *)
(***************************************************************************)
EXTENDS Router

CONSTANTS Hubs,     \* the routers to look at
          Lengths   \* the lengths of packets to look at

VARIABLES
    hub, len,   \* which router, and how long the packets are
    sources,    \* the link ports by which packets for the hub come
    router,     \* the router
    wire,       \* what is on the wire to each link port, or None
    exit,       \* what is on the wire to the processor, or None
    next        \* the place in its packet of the flit a source sends next

vars == <<hub, len, sources, router, wire, exit, next>>

Links == DOMAIN Adj[hub]

\* Traffic begins after the round robin has been moving for any time.
Init ==
    /\ hub \in Hubs /\ len \in Lengths
    /\ sources \in {s \in SUBSET Links : Cardinality(s) > 1}
    /\ \E start \in Ports(hub) : router = [NewRouter(hub) EXCEPT !.start = start]
    /\ wire = [p \in Links |-> None] /\ exit = None
    /\ next = [p \in sources |-> 0]

-----------------------------------------------------------------------------
Signals ==
    [idle    |-> [p \in Ports(hub) |-> p = LocalPort(hub) => exit = None],
     credit  |-> [p \in Ports(hub) |-> [v \in VCs |-> Depth]],
     arrived |-> [p \in Ports(hub) |-> IF p \in Links THEN wire[p] ELSE None]]

\* The neighbours whose links are idle and that see a free slot.
Sending == {p \in sources : wire[p] = None /\ Len(router.buf[p][0]) < Depth}

NextFlit(p) == [pkt |-> <<Adj[hub][p], 0>>, dst |-> hub, seq |-> next[p], len |-> len]

\* One clock edge.
Cycle ==
    \E routed \in RouterUpdate(hub, router, Signals) :
        /\ router' = routed.r
        /\ exit' = routed.out[LocalPort(hub)]
        /\ wire' = [p \in Links |-> IF p \in Sending THEN [flit |-> NextFlit(p), vc |-> 0] ELSE None]
        /\ next' = [p \in sources |-> IF p \in Sending THEN (next[p] + 1) % len ELSE next[p]]
        /\ UNCHANGED <<hub, len, sources>>

Spec == Init /\ [][Cycle]_vars /\ []<><<TRUE>>_vars

-----------------------------------------------------------------------------
\* The source whose packet has the output.
Served(p) == InConnection(p, 0) \in DOMAIN router.table

\* A packet keeps the output for two cycles a flit, and the round robin moves in
\* every cycle: between two reservations it moves by 2 * len, so that the ports
\* it can stand at when the output is free are this many.
Turns ==
    LET n == LocalPort(hub) IN
    n \div Max({d \in 1 .. n : n % d = 0 /\ (2 * len) % d = 0})

\* The output is never left idle while a flit waits for it: a source has it in
\* reserve by the time it is free, and the packet that has it is not held up by
\* its own link (Router::Reservation before the forwarding, Relay::CanSend).
NeverIdle == [][exit = None /\ (\E p \in sources : router.buf[p][0] # <<>>) => exit' # None]_vars

\* If the round robin comes to stand at every port, every source is served again
\* and again, however the others load their links (Router::TXProcess).
EveryFlowServed ==
    \A p \in UNION {DOMAIN Adj[n] : n \in Hubs} :
        [](Turns = LocalPort(hub) /\ p \in sources => <>(p \in sources /\ Served(p)))

\* If it stands at fewer ports than there are sources, it moves in step with the
\* packets, and there is a source that is never served again.
StarvesInStep ==
    Cardinality(sources) > Turns =>
        \E p \in UNION {DOMAIN Adj[n] : n \in Hubs} : <>[](p \in sources /\ ~Served(p))
=============================================================================
