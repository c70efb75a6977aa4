----------------------------- MODULE MCNetwork ------------------------------
(***************************************************************************)
(* Small networks.                                                         *)
(***************************************************************************)
EXTENDS Network

T == INSTANCE TrafficManagers WITH Draws <- 2, Memory <- {}

\* Three nodes in a row, 0 - 1 - 2.
LineAdj    == (0 :> <<1>>) @@ (1 :> <<2, 0>>) @@ (2 :> <<1>>)
LineTable  == (0 :> ((1 :> <<1>>) @@ (2 :> <<1>>)))
           @@ (1 :> ((0 :> <<2>>) @@ (2 :> <<1>>)))
           @@ (2 :> ((0 :> <<1>>) @@ (1 :> <<1>>)))
ToLast      == (0 :> {2}) @@ (1 :> {2}) @@ (2 :> {0})
TwoToLast   == (0 :> 2) @@ (1 :> 2) @@ (2 :> 0)
RoundRobin  == <<>>      \* no UpdateSequence

\* A ring of four, the circulant C(4; 1): CirculantGraph lists the next node,
\* then the previous one; the Dijkstra table gives every first hop of a
\* shortest path.
Ring4Adj   == [n \in 0 .. 3 |-> <<(n + 1) % 4, (n + 3) % 4>>]
Ring4Table == [n \in 0 .. 3 |-> [d \in 0 .. 3 |->
                 CASE d = n -> <<3>>
                   [] d = (n + 1) % 4 -> <<1>>
                   [] d = (n + 2) % 4 -> <<1, 2>>
                   [] d = (n + 3) % 4 -> <<2>>]]

\* Every packet goes to the opposite node, but that of node 0 goes to any node that
\* receives packets: node 3 does not.
Hotspot3   == T!Hotspot(4, 1, <<[node |-> 3, send |-> 1, receive |-> 0]>>)
RingTraffic == [n \in 0 .. 3 |-> IF n = 0 THEN T!FindDestination(Hotspot3, 0) ELSE {(n + 2) % 4}]
OneEach4   == [n \in 0 .. 3 |-> 1]
=============================================================================
