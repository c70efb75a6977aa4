--------------------------- MODULE TrafficManagers --------------------------
(***************************************************************************)
(* Which processor produces a packet when, and for whom                    *)
(* (Configuration/TrafficManagers/).                                       *)
(*                                                                         *)
(* A draw between 0 and 1 is one of 0 .. Draws - 1, each as likely as the  *)
(* next, and a rate counts the draws that are below it.  What a manager    *)
(* may answer is a set: of truth values for FirePacket, of nodes for       *)
(* FindDestination.                                                        *)
(***************************************************************************)
EXTENDS Integers, SequencesExt

CONSTANTS Draws,    \* how finely a draw is divided
          Memory    \* what a variable that was never written may hold

\* HotspotTrafficManager: hotspots is a sequence of [node, send, receive].
TrafficLoad(count, hotspots) ==
    FoldLeft(LAMBDA load, h : [load EXCEPT ![h.node] = [send |-> h.send, receive |-> h.receive]],
             [i \in 0 .. count - 1 |-> [send |-> 1, receive |-> 1]], hotspots)

Destinations(load) ==
    FlattenSeq([i \in 1 .. Cardinality(DOMAIN load) |->
                    [j \in 1 .. load[i - 1].receive |-> i - 1]])

\* A line of the table is a sequence of two to seven numbers: source,
\* destination, pir, por, t_on, t_off and t_period.  The constructor asks for one
\* number less than it needs for each of the last three, so that it may use one
\* that was not read; its assertions stop the program.
Communications(line, pir, total) ==
    LET n == Len(line)
        read(i) == IF n >= i THEN {line[i]} ELSE Memory
        asserted(on, off, period) ==
            /\ n >= 5 /\ off >= 0 => off > on
            /\ n >= 6 /\ period > 0 => period > off
    IN  {[src |-> line[1], dst |-> line[2],
          pir |-> IF n >= 3 /\ line[3] \in 0 .. Draws THEN line[3] ELSE pir,
          t_on |-> IF n >= 4 /\ t[1] >= 0 THEN t[1] ELSE 0,
          t_off |-> IF n >= 5 /\ t[2] >= 0 THEN t[2] ELSE total,
          t_period |-> IF n >= 6 /\ t[3] > 0 THEN t[3] ELSE total]
            : t \in {u \in read(5) \X read(6) \X read(7) : asserted(u[1], u[2], u[3])}}

----------------------------------------------------------------------------
\* The managers Factory::MakeTraffic makes, as records.
Random(count, pir) == [distribution |-> "TRAFFIC_RANDOM", count |-> count, pir |-> pir]

Hotspot(count, pir, hotspots) ==
    [distribution |-> "TRAFFIC_HOTSPOT", count |-> count, pir |-> pir,
     load |-> TrafficLoad(count, hotspots)]

\* With a table of one line.
TableBased(count, pir, line, total) ==
    [distribution : {"TRAFFIC_TABLE_BASED"}, count : {count},
     table : {<<c>> : c \in Communications(line, pir, total)}]

----------------------------------------------------------------------------
\* TableTrafficManager::FirePacket: the rates of the lines that are active add up.
Active(c, from, time) ==
    c.src = from /\ time % c.t_period > c.t_on /\ time % c.t_period < c.t_off

Threshold(table, from, time) ==
    FoldLeft(LAMBDA sum, c : IF Active(c, from, time) THEN sum + c.pir ELSE sum, 0, table)

FirePacket(m, from, time) ==
    {CASE m.distribution = "TRAFFIC_RANDOM"      -> draw < m.pir
       [] m.distribution = "TRAFFIC_HOTSPOT"     -> draw * m.load[from].send < m.pir
       [] m.distribution = "TRAFFIC_TABLE_BASED" -> draw < Threshold(m.table, from, time)
        : draw \in 0 .. Draws - 1}

\* A node is drawn until it is another one; with no other the loop does not end.
\* The destinations of the table are not looked at.
FindDestination(m, from) ==
    (IF m.distribution = "TRAFFIC_HOTSPOT" THEN Range(Destinations(m.load))
     ELSE 0 .. m.count - 1) \ {from}
=============================================================================
