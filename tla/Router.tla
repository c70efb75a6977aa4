------------------------------- MODULE Router -------------------------------
(***************************************************************************)
(* One router (Hardware/Router.cpp): what Router::Update makes of the      *)
(* state of the router and of the signals it reads at a clock edge.        *)
(*                                                                         *)
(* The state of a router is a record:                                      *)
(*   buf[p][v]  the buffer of virtual channel v of the relay on port p     *)
(*   table      reservation_table, a function from the connections that    *)
(*              hold a reservation to the connections reserved             *)
(*   start      start_from_port                                            *)
(*   vc         current_virtual_channel, the same in all its relays        *)
(* The signals it reads are a record too:                                  *)
(*   idle[p]      the peer on port p has acknowledged all that was sent    *)
(*   credit[p][v] the free slots the peer announced                        *)
(*   arrived[p]   None, or what has arrived on port p                      *)
(* What is on the wires is [flit |-> f, vc |-> v].                         *)
(***************************************************************************)
EXTENDS Wiring, Routing

CONSTANTS NumVCs,          \* config.VirtualChannels()
          UpdateSequence,  \* config.UpdateSequence()
          None             \* nothing

ASSUME RouterAssumption ==
    /\ NumVCs \in Nat \ {0} /\ Depth \in Nat \ {0}
    /\ UpdateSequence \in Seq(Nat)
    /\ SelectionStrategy \in Strategies

VCs == 0 .. NumVCs - 1

IsHead(f) == f.seq = 0
IsTail(f) == f.seq + 1 = f.len

-----------------------------------------------------------------------------
\* Relay::Front: the first virtual channel that holds a flit, from the current
\* one on.
Occupied(r, p) == {v \in VCs : r.buf[p][v] # <<>>}

FrontVC(r, p) == CHOOSE v \in Occupied(r, p) : \A w \in Occupied(r, p) :
                    (v + NumVCs - r.vc) % NumVCs <= (w + NumVCs - r.vc) % NumVCs

FrontFlit(r, p) == Head(r.buf[p][FrontVC(r, p)])

InConnection(p, v) == [port |-> p, vc |-> v]

-----------------------------------------------------------------------------
\* Router::CanSend, with the reservations as they are in the middle of the loop.
CanSend(sig, table, con) ==
    /\ con \notin Range(table)
    /\ sig.idle[con.port] /\ sig.credit[con.port][con.vc] > 0

\* Relay::Send sets port_out to the port it sends from.
PortOut(n, p) == Bound[<<n, p>>][2]

\* What routing and selection know of the head flit at the front of port p.
HeadAt(n, r, p) ==
    LET f == FrontFlit(r, p)
    IN [node |-> n, local |-> LocalPort(n), port_in |-> p, vc |-> FrontVC(r, p),
        port_out |-> PortOut(n, p), src |-> f.pkt[1], dst |-> f.dst, len |-> f.len]

\* The free slots of the connections that can be sent to.
Room(n, sig, table) ==
    LET open == {con \in [port : Ports(n), vc : VCs] : CanSend(sig, table, con)}
    IN  [con \in open |-> sig.credit[con.port][con.vc]]

Destinations(n, r, sig, table, p) == FindDestination(HeadAt(n, r, p), Room(n, sig, table))

\* A mutation of ReservePort: an output reserved by another packet is not refused.
ReservePortShared(n, r, sig, table, p) ==
    IF p \notin Ports(n) \/ Occupied(r, p) = {} \/ ~IsHead(FrontFlit(r, p)) THEN {table}
    ELSE {IF dst = NoConnection THEN table ELSE With(table, InConnection(p, FrontVC(r, p)), dst)
            : dst \in Destinations(n, r, sig, table, p)}

\* Router::Reservation for one port.  A packet whose head waits is routed again
\* in every cycle, and what it finds then replaces what it had reserved.
ReservePort(n, r, sig, table, p) ==
    IF p \notin Ports(n) \/ Occupied(r, p) = {} \/ ~IsHead(FrontFlit(r, p)) THEN {table}
    ELSE {IF dst = NoConnection \/ dst \in Range(table) THEN table
          ELSE With(table, InConnection(p, FrontVC(r, p)), dst)
            : dst \in Destinations(n, r, sig, table, p)}

\* A mutation of ReservationOrder: the local port is never visited.
ReservationOrderLinks(n, r) == [p \in 1 .. Len(Adj[n]) |-> p]

\* The order of the reservation loop: round robin, unless the configuration
\* gives a sequence of ports, of which those the router lacks are passed over.
ReservationOrder(n, r) ==
    IF UpdateSequence = <<>>
    THEN [j \in Ports(n) |-> ((r.start + j - 2) % LocalPort(n)) + 1]
    ELSE UpdateSequence

\* The reservation tables the reservation loop can end with.
Reservations(n, r, sig) ==
    FoldLeft(LAMBDA tables, p : UNION {ReservePort(n, r, sig, t, p) : t \in tables},
             {r.table}, ReservationOrder(n, r))

-----------------------------------------------------------------------------
\* A mutation of Refuses: whatever has been sent may be overwritten.
RefusesNothing(sig, x, dst) == FALSE

\* Relay::CanSend is false: the relay has sent in this cycle, or it awaits the
\* acknowledgement, or there is no free slot.
Refuses(sig, x, dst) ==
    \/ x.out[dst.port] # None \/ ~sig.idle[dst.port]
    \/ sig.credit[dst.port][dst.vc] = 0

\* A mutation of TableAfter: the tail flit does not release the reservation.
TableKept(table, src, f) == table

TableAfter(table, src, f) ==
    IF IsTail(f) THEN Restrict(table, DOMAIN table \ {src}) ELSE table

\* A mutation of ForwardPort: the flit that was sent is not popped.
ForwardPortKept(sig, x, p) ==
    IF Occupied(x.r, p) = {} THEN x
    ELSE LET v   == FrontVC(x.r, p)
             src == InConnection(p, v)
             dst == x.r.table[src]
         IN IF src \notin DOMAIN x.r.table \/ Refuses(sig, x, dst) THEN x
            ELSE [x EXCEPT !.out[dst.port] = [flit |-> FrontFlit(x.r, p), vc |-> dst.vc],
                           !.hop = With(@, src, dst)]

\* One turn of the forwarding loop, Router::Route included.  x is the router
\* in the middle of the loop together with what it has sent in this cycle.
ForwardPort(sig, x, p) ==
    IF Occupied(x.r, p) = {} THEN x
    ELSE LET v   == FrontVC(x.r, p)
             f   == FrontFlit(x.r, p)
             src == InConnection(p, v)
             dst == x.r.table[src]
         IN IF src \notin DOMAIN x.r.table \/ Refuses(sig, x, dst) THEN x
            ELSE [r   |-> [x.r EXCEPT !.buf[p][v] = Tail(@),
                                      !.table = TableAfter(@, src, f)],
                  out |-> [x.out EXCEPT ![dst.port] = [flit |-> f, vc |-> dst.vc]],
                  hop |-> With(x.hop, src, dst)]

Forwarding(n, r, sig, table) ==
    FoldLeft(LAMBDA x, p : ForwardPort(sig, x, p),
             [r |-> [r EXCEPT !.table = table], out |-> [p \in Ports(n) |-> None],
              hop |-> <<>>],
             [p \in Ports(n) |-> p])

\* Router::RXProcess: every relay takes what has arrived.
RXProcess(n, r, sig) ==
    [r EXCEPT !.buf = [p \in Ports(n) |-> [v \in VCs |->
        IF sig.arrived[p] # None /\ sig.arrived[p].vc = v
        THEN Append(@[p][v], sig.arrived[p].flit) ELSE @[p][v]]]]

\* A mutation of RouterUpdate: the round robin does not wrap around.
RouterUpdateUnwrapped(n, r, sig) ==
    {LET x == Forwarding(n, r, sig, table)
     IN [x EXCEPT !.r = [RXProcess(n, x.r, sig) EXCEPT
                            !.vc = (@ + 1) % NumVCs, !.start = @ + 1]]
       : table \in Reservations(n, r, sig)}

\* A mutation of RouterUpdate: the round robin stands still.
RouterUpdateStill(n, r, sig) ==
    {LET x == Forwarding(n, r, sig, table)
     IN [x EXCEPT !.r = [RXProcess(n, x.r, sig) EXCEPT !.vc = (@ + 1) % NumVCs]]
       : table \in Reservations(n, r, sig)}

\* A mutation of RouterUpdate: the reservations are made after the forwarding.
RouterUpdateLate(n, r, sig) ==
    LET x == Forwarding(n, r, sig, r.table)
    IN {[x EXCEPT !.r = [RXProcess(n, x.r, sig) EXCEPT
                            !.table = table, !.vc = (@ + 1) % NumVCs,
                            !.start = (@ % LocalPort(n)) + 1]]
         : table \in Reservations(n, x.r, sig)}

\* Router::Update outside reset: the outcomes [r, out, hop] it can have, hop
\* being the flits it forwarded, from input connection to output connection.
RouterUpdate(n, r, sig) ==
    {LET x == Forwarding(n, r, sig, table)
     IN [x EXCEPT !.r = [RXProcess(n, x.r, sig) EXCEPT
                            !.vc = (@ + 1) % NumVCs,
                            !.start = (@ % LocalPort(n)) + 1]]
       : table \in Reservations(n, r, sig)}

\* Router::Update while reset is high: the relays are reset, nothing else is.
RouterReset(n, r) ==
    [r EXCEPT !.buf = [p \in Ports(n) |-> [v \in VCs |-> <<>>]]]

\* A new router starts its round robin at the local relay.
NewRouter(n) ==
    [buf |-> [p \in Ports(n) |-> [v \in VCs |-> <<>>]], table |-> <<>>,
     start |-> LocalPort(n), vc |-> 0]
=============================================================================
