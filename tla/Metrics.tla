------------------------------ MODULE Metrics -------------------------------
(***************************************************************************)
(* What a simulation reports: a processor that produces packets            *)
(* (Hardware/Processor.cpp), the first router on their way, which buffers  *)
(* and times them (Router::Route, Router::RXProcess), the processor they   *)
(* are for, and the tracer they all share.  Every clock edge is one step:  *)
(* all three read what the edge before has left on the links.              *)
(*                                                                         *)
(* Times are counted in clock cycles; the time stamps, which the queue     *)
(* interpolates, in parts of 1/Scale of a cycle, so that no division of a  *)
(* bounded run has a remainder.  made, births, seen, since, longest, worst *)
(* and aged are history variables: what really happened, to compare the    *)
(* reports with.                                                           *)
(***************************************************************************)
EXTENDS ProcessorQueue, BufferStats, FlitTracer, TrafficManagers

CONSTANTS
    Scale,              \* parts of a cycle in a time stamp
    PacketSize,         \* the size of a packet (MinPacketSize = MaxPacketSize)
    Depth,              \* the capacity of the router's buffer
    Outs,               \* the virtual channels the router may assign to a flit
    Managers,           \* the traffic managers to look at
    ClockPeriod,        \* ClockPeriodPS, in ps
    ResetTime, WarmUpTime, SimulationTime, ProductionTime,
    MaxPackets          \* bound of the model

\* The reset ends on a clock edge.
ASSUME ResetOnEdge == (ResetTime * 1000) % ClockPeriod = 0

ASSUME MetricsAssumption ==
    /\ {Scale, PacketSize, Depth, ClockPeriod} \subseteq Nat \ {0}
    /\ {ResetTime, WarmUpTime, SimulationTime} \subseteq Nat
    /\ {StoryStart, StoryEnd} \subseteq Int

VARIABLES
    now,        \* SystemTime, in cycles
    traffic,    \* the traffic manager
    queue,      \* the ProcessorQueue of the source
    wire,       \* the flit sent to the router and not received yet, if any
    buffer,     \* the router's input buffer, virtual channel 0
    exit,       \* the flit the router has sent on and the destination not received
    stats,      \* the BufferStats of the router's buffer
    tracer,
    total,      \* the counters of the processors
    births,     \* when the packets waiting in the queue were produced
    made,       \* packets produced
    seen,       \* flits the router has received
    since,      \* since when the flit at the front of the buffer waits
    longest,    \* the longest such wait that is over
    worst,      \* the largest delay of a packet received
    aged        \* the longest time a flit received took from its sending

processor == <<queue, births, made>>
router == <<wire, buffer, exit, stats, seen, since, longest>>
vars == <<now, traffic, processor, router, tracer, total, worst, aged>>

StatisticsTime == now - ResetTime - WarmUpTime
Counting == StatisticsTime >= 0

\* Main runs for as many nanoseconds as the configuration gives cycles.  An edge
\* at the end of the reset sees it low; an edge at the end of the run is not run.
InReset == now * ClockPeriod < ResetTime * 1000
Ended == now * ClockPeriod >= (ResetTime + SimulationTime) * 1000

NoTotals == [sent |-> 0, actual |-> 0, flits |-> 0, packets |-> 0, delay |-> 0, max |-> 0,
             network |-> 0]

Init ==
    /\ now = 0 /\ traffic \in Managers
    /\ queue = NewQueue /\ births = <<>> /\ made = 0
    /\ wire = <<>> /\ buffer = <<>> /\ exit = <<>>
    /\ stats = NewStats({0}) /\ seen = 0 /\ since = -1 /\ longest = -1
    /\ tracer = NewTracer
    /\ total = NoTotals /\ worst = 0 /\ aged = 0

----------------------------------------------------------------------------
\* Processor::NextFlit: the next flit of the packet, with the identifier the
\* tracer gives it.  no, born and at are history: the number of the flit, when
\* its packet was produced, and when it is sent.
NextFlit(q, waiting) ==
    [stamp |-> q.stamp, accept |-> StatisticsTime, tail |-> q.left = 1,
     id |-> NewID(tracer, StatisticsTime),
     no |-> total.actual + 1, born |-> Head(waiting), at |-> now]

\* What Processor::TXProcess and Relay::CanSend ask for.
CanSend(q) == q.count > 0 /\ wire = <<>> /\ Len(buffer) < Depth

\* Processor::Update at the source.  A packet is drawn even when its flit
\* cannot be sent.
Source ==
    \E fire \in IF now - ResetTime < ProductionTime /\ made < MaxPackets
               THEN FirePacket(traffic, 0, now) ELSE {FALSE} :
        /\ made' = made + (IF fire THEN 1 ELSE 0)
        /\ \E q \in GetQueueFront(IF fire THEN Push(queue, now * Scale) ELSE queue, {PacketSize}) :
            LET waiting == IF fire THEN Append(births, now) ELSE births IN
            IF CanSend(q)
            THEN /\ queue' = PopFlit(q)
                 /\ births' = IF q.left = 1 THEN Tail(waiting) ELSE waiting
                 /\ wire' = <<NextFlit(q, waiting)>>
            ELSE queue' = q /\ births' = waiting /\ wire' = <<>>

Sends == wire' # <<>>

\* A mutation of Route: the timer is not started again for the next flit.
RouteUnwatched(out, s) == StopStuckTimer(s, 0, StatisticsTime)

\* Router::Route: the timers after a flit of virtual channel 0 was sent on in
\* virtual channel out.  Whether another flit waits is looked up under the
\* number the flit got, and only the buffer of channel 0 is ever filled here.
Route(out, s) ==
    LET stopped == StopStuckTimer(s, 0, StatisticsTime) IN
    IF out = 0 /\ Len(buffer) > 1 THEN StartStuckTimer(stopped, 0, StatisticsTime) ELSE stopped

\* Router::TXProcess: the front flit goes on, or stays, for what happens on its
\* way is not modelled here.
Forward(s) ==
    /\ buffer # <<>> /\ exit = <<>>
    /\ exit' = <<Head(buffer)>>
    /\ buffer' = Tail(buffer) \o wire
    /\ \E out \in Outs : s = Route(out, stats)
    /\ longest' = IF since >= 0 THEN Larger(longest, StatisticsTime - since) ELSE longest
    /\ since' = IF buffer' = <<>> THEN -1 ELSE StatisticsTime

Hold(s) ==
    /\ exit' = <<>>
    /\ buffer' = buffer \o wire
    /\ s = stats
    /\ since' = IF buffer = <<>> /\ wire # <<>> THEN StatisticsTime ELSE since
    /\ UNCHANGED longest

\* Router::Update, with Router::RXProcess after the sending.
Router ==
    /\ \E s \in {Route(out, stats) : out \in Outs} \cup {stats} :
        /\ Forward(s) \/ Hold(s)
        /\ stats' = IF wire = <<>> THEN s ELSE StartStuckTimer(s, 0, StatisticsTime)
    /\ seen' = seen + Len(wire)

\* FlitTracer::Register by the source and FlitTracer::Remember by the router,
\* in the order in which the kernel runs them.
Trace ==
    LET registered(t) == IF Sends THEN Register(t, wire'[1].no, StatisticsTime) ELSE t
        remembered(t) == IF wire = <<>> THEN t ELSE Remember(t, wire[1].id, "router")
    IN  tracer' \in {registered(remembered(tracer)), remembered(registered(tracer))}

\* Processor::SendFlit and Processor::ReceiveFlit, at the destination.
Counted ==
    LET f == exit[1]
        measured(yes) == IF Counting /\ yes THEN 1 ELSE 0
        delay == now * Scale - f.stamp
        arrives == exit # <<>>
        done == IF arrives THEN measured(f.tail) ELSE 0
    IN  /\ total' = [sent |-> total.sent + measured(Sends),
                     actual |-> total.actual + Len(wire'),
                     flits |-> total.flits + measured(arrives),
                     packets |-> total.packets + done,
                     delay |-> total.delay + (IF done = 1 THEN delay ELSE 0),
                     max |-> IF done = 1 THEN Larger(total.max, delay) ELSE total.max,
                     network |-> IF measured(arrives) = 1
                                 THEN Larger(total.network, StatisticsTime - f.accept)
                                 ELSE total.network]
        /\ worst' = IF done = 1 THEN Larger(worst, (now - f.born) * Scale) ELSE worst
        /\ aged' = IF measured(arrives) = 1 THEN Larger(aged, now - f.at) ELSE aged

\* Main: the processors and the router are held in reset.
Reset ==
    /\ InReset
    /\ now' = now + 1
    /\ total' = NoTotals
    /\ UNCHANGED <<traffic, processor, router, tracer, worst, aged>>

Clock ==
    /\ ~InReset /\ ~Ended
    /\ now' = now + 1
    /\ Source /\ Router /\ Trace /\ Counted
    /\ UNCHANGED traffic

Next == Reset \/ Clock

Spec == Init /\ [][Next]_vars

----------------------------------------------------------------------------
Flit == [stamp : Nat, accept : Int, tail : BOOLEAN, id : Nat, no : Nat, born : Nat, at : Nat]

\* The counter of the queue is the number of the packets in it, the flits fit
\* into the buffer, and every flit that was sent has an identifier.
TypeOK ==
    /\ now \in Nat
    /\ queue.count = Len(births)
    /\ queue.left \in 0..queue.size
    /\ queue.update \in BOOLEAN
    /\ \A link \in {wire, exit} : link \in Seq(Flit) /\ Len(link) <= 1
    /\ buffer \in Seq(Flit) /\ Len(buffer) <= Depth
    /\ tracer.offset + Len(tracer.history) = total.actual

\* The packets a destination receives carry time stamps in the order in which
\* they were sent, although the queue makes most of them up: none is older than
\* one sent before it, none is from the future, so that no delay is negative,
\* and the newest packet's is the time at which it was produced
\* (ProcessorQueue::Push, Pop and UpdateFrontPacket).
StampsOrdered ==
    LET underway == exit \o buffer \o wire
        stamps == [i \in DOMAIN underway |-> underway[i].stamp]
                  \o (IF queue.left > 0 THEN <<queue.stamp>> ELSE <<>>)
                  \o (IF queue.count > 0 THEN <<queue.oldest, queue.newest>> ELSE <<>>)
                  \o <<now * Scale>>
    IN  /\ \A i, j \in DOMAIN stamps : i <= j => stamps[i] <= stamps[j]
        /\ births # <<>> => queue.newest = births[Len(births)] * Scale

\* Processor::FlitsProduced, in the arithmetic of the code.
FlitsProduced(sent) == sent + (queue.count * (PacketSize + PacketSize)) \div 2

\* The flits reported at the end as produced by the processor are those of the
\* packets it has produced, but for the flits sent before the measurement began
\* (Processor::FlitsProduced, Processor::SendFlit).
ProducedExact ==
    Ended => FlitsProduced(total.sent) + (total.actual - total.sent) = made * PacketSize

\* While a flit waits at the front of the buffer the timer tells since when
\* (Stats::StartStuckTimer and StopStuckTimer, as Router::Route and RXProcess
\* call them).
Watched == since >= 0 => stats[0].stuck_timer = since

\* The delay reported at the end, when Stats::GetMaxBufferStuckDelay stops the
\* timers that still run, is at least any time that a flit has spent at the
\* front of the buffer while it was measured.
StuckDelayReported ==
    LET reported == StopStuckTimer(stats, 0, StatisticsTime)[0].max_suck_delay IN
    /\ longest >= 0 => reported >= longest
    /\ since >= 0 => reported >= StatisticsTime - since

\* A story of the report tells the path of the flit it is about: the routers
\* that have received that flit, and no other (FlitTracer::Register, Remember).
TrueStories ==
    \A i \in DOMAIN tracer.history :
        tracer.history[i].path =
            IF tracer.history[i].flit <= seen THEN <<"router">> ELSE <<>>

\* The largest packet delay reported is the largest delay of a packet, from its
\* production to the arrival of its last flit (Processor::MaxDelay).
MaxDelayExact == total.max = worst

\* GlobalStats::GetMaxTimeFlitInNetwork, with Buffer::GetOldestAccepted: the flits
\* received while it is measured, and those that are left in the buffers.
GetMaxTimeFlitInNetwork ==
    Max({total.network} \cup {SimulationTime - WarmUpTime - f.accept : f \in Range(buffer)})

\* The longest time in the network that is reported at the end is the longest time
\* that a flit took to be delivered (GlobalStats::GetMaxTimeFlitInNetwork).
MaxTimeDelivered == Ended => GetMaxTimeFlitInNetwork = aged
=============================================================================
