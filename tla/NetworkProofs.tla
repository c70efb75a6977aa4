--------------------------- MODULE NetworkProofs ----------------------------
(***************************************************************************)
(* What one router does in a cycle, whatever is configured: which          *)
(* connections routing and selection can answer, what the reservation loop *)
(* can make of the reservation table, and what the forwarding loop sends   *)
(* (RouterUpdated).                                                        *)
(*                                                                         *)
(* Then a clock cycle of the network taken to pieces: what processors,     *)
(* routers and wires each are after it, and the types that routers,        *)
(* processors, wires and history variables keep, whatever is configured.   *)
(*                                                                         *)
(* With these the network of routers and processors implements wormhole    *)
(* switching, whatever graph, tables, algorithm and strategy are           *)
(* configured, and so has the properties of wormhole switching.            *)
(*                                                                         *)
(* Then what the network owes its packets: they reach the processors they  *)
(* are for and no others, no flit is lost on the way, and no reservation   *)
(* is left of a packet that has gone. The statistics and the states Quiet  *)
(* speaks of are sums over buffers and nodes. A sum is treated as the      *)
(* value, at the whole set, of a function of its subsets (Totals).         *)
(***************************************************************************)
EXTENDS Network, WiringProofs, SequenceTheorems

Conns(n) == [port : Ports(n), vc : VCs]

\* The connections a router can send to: its processor has virtual channel 0 only.
OutConns(n) == {c \in Conns(n) : c.port = LocalPort(n) => c.vc = 0}

\* What routing and selection may answer for a packet to dst.
Answers(n, dst) == {c \in OutConns(n) : c.port = LocalPort(n) <=> dst = n}

Ways(n) == [port : DOMAIN Adj[n], vc : VCs]

-----------------------------------------------------------------------------
LEMMA Numbers ==
  /\ NumVCs \in Nat /\ NumVCs > 0 /\ 0 \in VCs /\ VCs \subseteq Nat /\ Depth \in Nat /\ Depth > 0
  /\ \A n \in Nodes : /\ LocalPort(n) \in Nat /\ LocalPort(n) = Len(Adj[n]) + 1
                     /\ LocalPort(n) \in Ports(n) /\ Ports(n) = 1 .. LocalPort(n)
                     /\ DOMAIN Adj[n] = Ports(n) \ {LocalPort(n)}
  BY RouterAssumption, NodesAndLinks DEF VCs, LocalPort, Ports

\* The connections of links, as routing lists them.
LEMMA WaysOut ==
  ASSUME NEW n \in Nodes, NEW d \in Nodes, d # n
  PROVE  Ways(n) \subseteq Answers(n, d)
  BY Numbers DEF Ways, Answers, OutConns, Conns

\* The list of the connections with room, by what it is drawn from.
LEMMA WithRoomLists ==
  ASSUME NEW C, NEW ports, NEW vc, NEW need, NEW room, Via(ports, vc) \in Seq(C)
  PROVE  WithRoom(ports, vc, need, room) \in Seq(C)
<1> DEFINE cons == Via(ports, vc)
           n == Len(cons)
           U == Seq(C)
           Turn(u, c) == IF c \in DOMAIN room /\ room[c] >= need THEN Append(u, c) ELSE u
           Iter(h) == h = [s \in SUBSET (1 .. n) |-> IF s = {} THEN <<>> ELSE
                             LET x == Max(s) IN Turn(h[s \ {x}], cons[x])]
           f == CHOOSE h : Iter(h)
           step == [i \in 1 .. n |-> [u \in U |-> Turn(u, cons[i])]]
<1>1. n \in Nat /\ DOMAIN cons = 1 .. n /\ (\A i \in 1 .. n : cons[i] \in C) /\ <<>> \in U
  <2> HIDE DEF cons
  <2>1. cons \in Seq(C)
    BY DEF cons
  <2> QED BY <2>1
<1>2. WithRoom(ports, vc, need, room) = f[1 .. n]
  <2>1. DOMAIN Via(ports, vc) = 1 .. n
    BY <1>1
  <2> HIDE DEF n
  <2> QED BY <2>1 DEF WithRoom, FoldLeft, MapThenFoldSet
<1> HIDE DEF cons, n
<1>3. \A i \in 1 .. n, u \in U : Turn(u, cons[i]) \in U
  BY <1>1
<1>4. step \in [1 .. n -> [U -> U]]
  <2> HIDE DEF Turn
  <2> QED BY <1>3
<1>5. PICK h : IsLoop(h, n, U, <<>>, step)
  <2> HIDE DEF U, step, f, Iter
  <2> QED BY <1>1, <1>4, LoopExists
<1>6. Iter(f)
  <2>1. ASSUME NEW s \in SUBSET (1 .. n), s # {}
        PROVE  h[s] = Turn(h[s \ {Max(s)}], cons[Max(s)])
    <3>1. Max(s) \in 1 .. n /\ h[s \ {Max(s)}] \in U
      BY <1>1, <1>5, <2>1, MaxIn DEF IsLoop
    <3> HIDE DEF Turn, U
    <3> QED BY <1>5, <2>1, <3>1 DEF IsLoop
  <2>2. Iter(h)
    <3> HIDE DEF Turn, U
    <3> QED BY <1>5, <2>1 DEF IsLoop
  <2> HIDE DEF Iter
  <2> QED BY <2>2
<1> HIDE DEF f, Turn
<1>7. f[{}] = <<>>
  BY <1>6
<1>8. ASSUME NEW k \in 1 .. n PROVE f[1 .. k] = Turn(f[1 .. (k - 1)], cons[k])
  <2>1. 1 .. k \in SUBSET (1 .. n) /\ 1 .. k # {} /\ Max(1 .. k) = k
        /\ (1 .. k) \ {k} = 1 .. (k - 1)
    BY <1>1, FirstIndices
  <2> QED BY <1>6, <2>1, Zenon
<1> HIDE DEF U, Iter
<1>9. ASSUME NEW k \in 1 .. n, f[1 .. (k - 1)] \in U PROVE f[1 .. k] \in U
  BY <1>3, <1>8, <1>9
<1>10. \A k \in 1 .. n : f[1 .. (k - 1)] \in U => f[1 .. k] \in U
  BY <1>9
<1>11. f[{}] \in U
  BY <1>1, <1>7
<1>12. f[1 .. n] \in U
  BY <1>1, <1>10, <1>11, LoopKeeps
<1> QED BY <1>2, <1>12 DEF U

\* The walk of the ring split strategies ends with a connection of the list or none.
LEMMA HighestPortIn ==
  ASSUME NEW C, NEW cons \in Seq(C), NEW room
  PROVE  HighestPort(cons, room) \in C \cup {NoConnection}
<1> DEFINE n == Len(cons)
           U == C \cup {NoConnection}
           Turn(u, c) == IF c.port <= u.port THEN u
                         ELSE IF c \in DOMAIN room /\ room[c] >= 1 THEN c ELSE NoConnection
           Iter(h) == h = [s \in SUBSET (1 .. n) |-> IF s = {} THEN NoConnection ELSE
                             LET x == Max(s) IN Turn(h[s \ {x}], cons[x])]
           f == CHOOSE h : Iter(h)
           step == [i \in 1 .. n |-> [u \in U |-> Turn(u, cons[i])]]
<1>1. n \in Nat /\ DOMAIN cons = 1 .. n /\ (\A i \in 1 .. n : cons[i] \in C) /\ NoConnection \in U
  OBVIOUS
<1>2. HighestPort(cons, room) = f[1 .. n]
  <2>1. DOMAIN cons = 1 .. n
    BY <1>1
  <2> HIDE DEF n
  <2> QED BY <2>1 DEF HighestPort, FoldLeft, MapThenFoldSet
<1> HIDE DEF n
<1>3. \A i \in 1 .. n, u \in U : Turn(u, cons[i]) \in U
  BY <1>1
<1>4. step \in [1 .. n -> [U -> U]]
  <2> HIDE DEF Turn
  <2> QED BY <1>3
<1>5. PICK h : IsLoop(h, n, U, NoConnection, step)
  <2> HIDE DEF U, step, f, Iter
  <2> QED BY <1>1, <1>4, LoopExists
<1>6. Iter(f)
  <2>1. ASSUME NEW s \in SUBSET (1 .. n), s # {}
        PROVE  h[s] = Turn(h[s \ {Max(s)}], cons[Max(s)])
    <3>1. Max(s) \in 1 .. n /\ h[s \ {Max(s)}] \in U
      BY <1>1, <1>5, <2>1, MaxIn DEF IsLoop
    <3> HIDE DEF Turn, U
    <3> QED BY <1>5, <2>1, <3>1 DEF IsLoop
  <2>2. Iter(h)
    <3> HIDE DEF Turn, U
    <3> QED BY <1>5, <2>1 DEF IsLoop
  <2> HIDE DEF Iter
  <2> QED BY <2>2
<1> HIDE DEF f, Turn
<1>7. f[{}] = NoConnection
  BY <1>6
<1>8. ASSUME NEW k \in 1 .. n PROVE f[1 .. k] = Turn(f[1 .. (k - 1)], cons[k])
  <2>1. 1 .. k \in SUBSET (1 .. n) /\ 1 .. k # {} /\ Max(1 .. k) = k
        /\ (1 .. k) \ {k} = 1 .. (k - 1)
    BY <1>1, FirstIndices
  <2> QED BY <1>6, <2>1, Zenon
<1> HIDE DEF U, Iter
<1>9. \A k \in 1 .. n : f[1 .. (k - 1)] \in U => f[1 .. k] \in U
  BY <1>3, <1>8
<1>10. f[{}] \in U
  BY <1>1, <1>7
<1>11. f[1 .. n] \in U
  BY <1>1, <1>9, <1>10, LoopKeeps
<1> QED BY <1>2, <1>11 DEF U

-----------------------------------------------------------------------------
\* What a selection strategy answers is one of the connections it was given, up to
\* the virtual channel, or none.
LEMMA ApplyChooses ==
  ASSUME NEW n \in Nodes, NEW cons \in Seq(Ways(n)), NEW h, h.vc \in VCs, NEW room
  PROVE  Apply(h, cons, room) \subseteq Ways(n) \cup {NoConnection}
<1>1. Range(cons) \subseteq Ways(n)
  BY DEF Range
<1>2. \A C : C \subseteq Ways(n) => OrNone(C) \subseteq Ways(n) \cup {NoConnection}
  BY DEF OrNone
<1>3. \A C : MostSlots(C, room) \subseteq C
  BY DEF MostSlots
<1>4. CASE SelectionStrategy \in {"RANDOM", "BUFFER_LEVEL", "KEEP_SPACE", "RANDOM_KEEP_SPACE"}
  <2> DEFINE usable == Range(cons) \cap DOMAIN room
             whole == {c \in usable : room[c] >= Depth}
  <2>1. usable \subseteq Ways(n) /\ whole \subseteq Ways(n) /\ MostSlots(usable, room) \subseteq Ways(n)
    BY <1>1, <1>3
  <2>2. Apply(h, cons, room) \in {OrNone(Range(cons)), OrNone(MostSlots(usable, room)),
                                  OrNone(whole), OrNone(usable)}
    <3> HIDE DEF whole
    <3> QED BY <1>4 DEF Apply, whole
  <2> QED BY <1>1, <1>2, <2>1, <2>2
<1>5. CASE SelectionStrategy = "CIRCULANT_RING_SPLIT"
  BY <1>5, HighestPortIn DEF Apply
<1>6. CASE SelectionStrategy = "CIRCULANT_VIRTUAL_RING_SPLIT"
  <2> DEFINE ring == [i \in DOMAIN cons |-> [cons[i] EXCEPT !.vc = RingVC(h, cons[i])]]
  <2>1. 0 \in VCs /\ 1 \in VCs
    BY <1>6, NetworkAssumption, Numbers DEF VCs
  <2>2. \A c : RingVC(h, c) \in VCs
    BY <2>1 DEF RingVC
  <2>3. \A i \in DOMAIN cons : ring[i] \in Ways(n)
    <3>1. \A c \in Ways(n), v \in VCs : [c EXCEPT !.vc = v] \in Ways(n)
      BY DEF Ways
    <3>2. \A i \in DOMAIN cons : cons[i] \in Ways(n)
      OBVIOUS
    <3> HIDE DEF Ways
    <3> QED BY <2>2, <3>1, <3>2
  <2>4. DOMAIN cons = 1 .. Len(cons) /\ Len(cons) \in Nat
    OBVIOUS
  <2>5. ring \in Seq(Ways(n))
    <3> HIDE DEF ring
    <3>1. DOMAIN ring = DOMAIN cons /\ ring = [i \in DOMAIN cons |-> ring[i]]
      BY DEF ring
    <3> QED BY <2>3, <2>4, <3>1
  <2>6. Apply(h, cons, room) = {HighestPort(ring, room)}
    BY <1>6 DEF Apply
  <2> HIDE DEF ring
  <2> QED BY <2>5, <2>6, HighestPortIn
<1>7. CASE SelectionStrategy = "CIRCULANT_VIRTUAL_DISTRIBUTION"
  <2>1. 0 \in VCs /\ 1 \in VCs
    BY <1>7, NetworkAssumption, Numbers DEF VCs
  <2>2. DistributedVC(h) \in VCs
    BY <2>1 DEF DistributedVC
  <2>3. {[c EXCEPT !.vc = DistributedVC(h)] : c \in Range(cons)} \subseteq Ways(n)
    BY <1>1, <2>2 DEF Ways
  <2> QED BY <1>2, <1>7, <2>3 DEF Apply
<1> QED BY <1>4, <1>5, <1>6, <1>7, RouterAssumption DEF Strategies

\* A router answers a packet for its own processor with the local relay, and any
\* other with a link, or not at all.
LEMMA AnswersOnly ==
  ASSUME NEW n \in Nodes, NEW h, h.node = n, h.local = LocalPort(n), h.dst \in Nodes,
         h.vc \in VCs, NEW room
  PROVE  FindDestination(h, room) \subseteq Answers(n, h.dst) \cup {NoConnection}
<1>1. CASE h.dst = n
  <2>1. FindDestination(h, room) = {[port |-> LocalPort(n), vc |-> 0]}
    BY <1>1 DEF FindDestination
  <2> QED BY <1>1, <2>1, Numbers DEF Answers, OutConns, Conns
<1>2. CASE h.dst # n
  <2>1. Table[n][h.dst] \in Seq(DOMAIN Adj[n]) /\ SubTable[n][h.dst] \in Seq(DOMAIN Adj[n])
    BY <1>2, NetworkAssumption
  <2>2. \A v \in VCs : Via(Table[n][h.dst], v) \in Seq(Ways(n))
                       /\ Via(SubTable[n][h.dst], v) \in Seq(Ways(n))
    <3>1. ASSUME NEW ports \in Seq(DOMAIN Adj[n]), NEW v \in VCs
          PROVE  Via(ports, v) \in Seq(Ways(n))
      <4>1. DOMAIN ports = 1 .. Len(ports) /\ Len(ports) \in Nat
            /\ \A i \in DOMAIN ports : ports[i] \in DOMAIN Adj[n]
        OBVIOUS
      <4>2. \A i \in DOMAIN ports : Via(ports, v)[i] \in Ways(n)
        BY <4>1 DEF Via, Ways
      <4>3. DOMAIN Via(ports, v) = 1 .. Len(ports)
            /\ Via(ports, v) = [i \in DOMAIN Via(ports, v) |-> Via(ports, v)[i]]
        BY <4>1 DEF Via
      <4> HIDE DEF Via
      <4> QED BY <4>1, <4>2, <4>3
    <3> QED BY <2>1, <3>1
  <2>3. 0 \in VCs /\ SubVC \in VCs
    BY NetworkAssumption, Numbers
  <2>4. Route(h, room) \in Seq(Ways(n))
    <3>1. ViaSubnetwork(h, room) \in Seq(Ways(n))
      <4>1. \A need : /\ WithRoom(Table[n][h.dst], 0, need, room) \in Seq(Ways(n))
                      /\ WithRoom(SubTable[n][h.dst], SubVC, need, room) \in Seq(Ways(n))
        BY <2>2, <2>3, WithRoomLists
      <4>2. <<>> \in Seq(Ways(n))
        OBVIOUS
      <4> QED BY <4>1, <4>2 DEF ViaSubnetwork
    <3> QED BY <3>1, <2>2, <2>3 DEF Route
  <2>5. FindDestination(h, room) \subseteq Ways(n) \cup {NoConnection}
    BY <1>2, <2>4, ApplyChooses DEF FindDestination
  <2> QED BY <1>2, <2>5, WaysOut
<1> QED BY <1>1, <1>2

-----------------------------------------------------------------------------
Wires     == [flit : WFlits, vc : VCs]
MaybeWire == Wires \cup {None}

Hops(n)    == UNION {[D -> OutConns(n)] : D \in SUBSET Conns(n)}
Buffers(n) == [Ports(n) -> [VCs -> Seq(WFlits)]]

\* The reservation tables of router n: no output is reserved twice.
Tables(n)  == {t \in Hops(n) : \A c, d \in DOMAIN t : t[c] = t[d] => c = d}

Routers(n) == [buf : Buffers(n), table : Tables(n), start : Ports(n), vc : VCs]

\* The flit at the front of connection c, if there is one.
Waits(r, c) == r.buf[c.port][c.vc] # <<>>
Foremost(r, c) == Head(r.buf[c.port][c.vc])

\* The relay gives the router a flit at the front of one of its virtual channels.
LEMMA FrontOccupied ==
  ASSUME NEW n \in Nodes, NEW r, r.buf \in Buffers(n), r.vc \in VCs,
         NEW p \in Ports(n), Occupied(r, p) # {}
  PROVE  /\ FrontVC(r, p) \in VCs /\ InConnection(p, FrontVC(r, p)) \in Conns(n)
         /\ Waits(r, InConnection(p, FrontVC(r, p)))
         /\ FrontFlit(r, p) = Foremost(r, InConnection(p, FrontVC(r, p)))
         /\ FrontFlit(r, p) \in WFlits
<1> DEFINE key(v) == (v + NumVCs - r.vc) % NumVCs
           keys == {key(v) : v \in Occupied(r, p)}
<1>1. \A v \in VCs : key(v) \in Nat
  BY Numbers DEF VCs
<1>2. keys \subseteq Nat /\ keys # {}
  BY <1>1 DEF Occupied
<1>3. Min(keys) \in keys /\ \A k \in keys : Min(keys) <= k
  <2> HIDE DEF keys
  <2> QED BY <1>2, MinIn
<1>4. \E v \in Occupied(r, p) : \A w \in Occupied(r, p) : key(v) <= key(w)
  <2> HIDE DEF key
  <2> QED BY <1>3
<1>5. FrontVC(r, p) \in Occupied(r, p)
  <2>1. FrontVC(r, p) = CHOOSE v \in Occupied(r, p) : \A w \in Occupied(r, p) : key(v) <= key(w)
    BY DEF FrontVC
  <2> HIDE DEF key
  <2> QED BY <1>4, <2>1
<1> DEFINE v == FrontVC(r, p)
<1>6. v \in VCs /\ r.buf[p][v] # <<>> /\ r.buf[p][v] \in Seq(WFlits)
  BY <1>5 DEF Occupied, Buffers
<1>7. Head(r.buf[p][v]) \in WFlits
  BY <1>6
<1> QED BY <1>6, <1>7 DEF InConnection, Conns, Waits, Foremost, FrontFlit

-----------------------------------------------------------------------------
\* c is what routing and selection may answer for the head flit at the front of x.
HeadTakes(n, r, x, c) ==
    Waits(r, x) /\ IsHead(Foremost(r, x)) /\ c \in Answers(n, Foremost(r, x).dst)

\* What the reservation loop can make of the table: what was reserved stays, unless
\* a head flit at the front has reserved something else.
Reserved(n, r, t) ==
    /\ DOMAIN r.table \subseteq DOMAIN t
    /\ \A x \in DOMAIN t : \/ x \in DOMAIN r.table /\ t[x] = r.table[x]
                           \/ HeadTakes(n, r, x, t[x])

\* One turn of the reservation loop.
LEMMA ReservePortMakes ==
  ASSUME NEW n \in Nodes, NEW r \in Routers(n), NEW sig, NEW p,
         NEW t \in Tables(n), Reserved(n, r, t), NEW u \in ReservePort(n, r, sig, t, p)
  PROVE  u \in Tables(n) /\ Reserved(n, r, u)
<1> DEFINE x == InConnection(p, FrontVC(r, p))
<1>1. CASE u = t
  BY <1>1
<1>2. CASE u # t
  <2>1. p \in Ports(n) /\ Occupied(r, p) # {} /\ IsHead(FrontFlit(r, p))
    BY <1>2 DEF ReservePort
  <2>2. PICK c \in Destinations(n, r, sig, t, p) :
               c # NoConnection /\ c \notin Range(t) /\ u = With(t, x, c)
    BY <1>2, <2>1 DEF ReservePort
  <2>3. r.buf \in Buffers(n) /\ r.vc \in VCs
    BY DEF Routers
  <2>4. /\ FrontVC(r, p) \in VCs /\ x \in Conns(n) /\ Waits(r, x)
        /\ FrontFlit(r, p) = Foremost(r, x) /\ FrontFlit(r, p) \in WFlits
    BY <2>1, <2>3, FrontOccupied
  <2>5. c \in Answers(n, Foremost(r, x).dst)
    <3> DEFINE h == HeadAt(n, r, p)
    <3>1. /\ h.node = n /\ h.local = LocalPort(n) /\ h.dst = FrontFlit(r, p).dst
          /\ h.vc = FrontVC(r, p)
      BY DEF HeadAt
    <3>2. h.dst \in Nodes
      BY <2>4, <3>1 DEF WFlits
    <3>3. c \in FindDestination(h, Room(n, sig, t))
      BY <2>2 DEF Destinations
    <3> HIDE DEF h
    <3>4. c \in Answers(n, h.dst) \cup {NoConnection}
      BY <2>4, <3>1, <3>2, <3>3, AnswersOnly
    <3> QED BY <2>2, <2>4, <3>1, <3>4
  <2>6. c \in OutConns(n)
    BY <2>5 DEF Answers
  <2>7. HeadTakes(n, r, x, c)
    BY <2>1, <2>4, <2>5 DEF HeadTakes
  <2> HIDE DEF x
  <2>8. DOMAIN u = DOMAIN t \cup {x} /\ u[x] = c /\ \A y \in DOMAIN t : y # x => u[y] = t[y]
    BY <2>2 DEF With
  <2>9. t \in [DOMAIN t -> OutConns(n)] /\ DOMAIN t \in SUBSET Conns(n)
        /\ \A y, z \in DOMAIN t : t[y] = t[z] => y = z
    BY DEF Tables, Hops
  <2>10. u \in [DOMAIN u -> OutConns(n)] /\ DOMAIN u \in SUBSET Conns(n)
    <3>1. u = [y \in DOMAIN u |-> u[y]]
      BY <2>2 DEF With
    <3> QED BY <2>4, <2>6, <2>8, <2>9, <3>1
  <2>11. \A y \in DOMAIN t : t[y] # c
    BY <2>2 DEF Range
  <2>12. \A y, z \in DOMAIN u : u[y] = u[z] => y = z
    BY <2>8, <2>9, <2>11
  <2>13. u \in Hops(n)
    BY <2>10 DEF Hops
  <2>14. u \in Tables(n)
    BY <2>12, <2>13 DEF Tables
  <2>15. Reserved(n, r, u)
    BY <2>7, <2>8 DEF Reserved
  <2> QED BY <2>14, <2>15
<1> QED BY <1>1, <1>2

\* The reservation loop.
LEMMA ReservationsMake ==
  ASSUME NEW n \in Nodes, NEW r \in Routers(n), NEW sig, NEW t \in Reservations(n, r, sig)
  PROVE  t \in Tables(n) /\ Reserved(n, r, t)
<1> DEFINE S == ReservationOrder(n, r)
           m == Len(S)
           base == {r.table}
           U == SUBSET {u \in Tables(n) : Reserved(n, r, u)}
           Turn(ts, p) == UNION {ReservePort(n, r, sig, u, p) : u \in ts}
           Iter(h) == h = [s \in SUBSET (1 .. m) |-> IF s = {} THEN base ELSE
                             LET x == Max(s) IN Turn(h[s \ {x}], S[x])]
           f == CHOOSE h : Iter(h)
           step == [i \in 1 .. m |-> [u \in U |-> Turn(u, S[i])]]
<1>1. m \in Nat /\ DOMAIN S = 1 .. m
  <2>1. CASE UpdateSequence = <<>>
    <3>1. S = [j \in 1 .. LocalPort(n) |-> ((r.start + j - 2) % LocalPort(n)) + 1]
          /\ LocalPort(n) \in Nat
      BY <2>1, Numbers DEF ReservationOrder
    <3> HIDE DEF S
    <3>2. DOMAIN S = 1 .. LocalPort(n)
      BY <3>1
    <3>3. Len(S) = LocalPort(n)
      BY <3>1, <3>2
    <3> QED BY <3>1, <3>2, <3>3
  <2>2. CASE UpdateSequence # <<>>
    BY <2>2, RouterAssumption DEF ReservationOrder
  <2> QED BY <2>1, <2>2
<1>2. Reservations(n, r, sig) = f[1 .. m]
  <2> HIDE DEF S, m
  <2> QED BY <1>1 DEF Reservations, FoldLeft, MapThenFoldSet, S
<1> HIDE DEF m, S
<1>3. base \in U
  <2>1. r.table \in Tables(n)
    BY DEF Routers
  <2>2. Reserved(n, r, r.table)
    BY DEF Reserved
  <2> QED BY <2>1, <2>2
<1>4. \A i \in 1 .. m, u \in U : Turn(u, S[i]) \in U
  BY ReservePortMakes
<1>5. step \in [1 .. m -> [U -> U]]
  <2> HIDE DEF Turn
  <2> QED BY <1>4
<1> HIDE DEF base
<1>6. PICK h : IsLoop(h, m, U, base, step)
  <2> HIDE DEF U, step, f, Iter
  <2> QED BY <1>1, <1>3, <1>5, LoopExists
<1>7. Iter(f)
  <2>1. ASSUME NEW s \in SUBSET (1 .. m), s # {}
        PROVE  h[s] = Turn(h[s \ {Max(s)}], S[Max(s)])
    <3>1. Max(s) \in 1 .. m /\ h[s \ {Max(s)}] \in U
      BY <1>1, <1>6, <2>1, MaxIn DEF IsLoop
    <3> HIDE DEF Turn, U
    <3> QED BY <1>6, <2>1, <3>1 DEF IsLoop
  <2>2. Iter(h)
    <3> HIDE DEF Turn, U
    <3> QED BY <1>6, <2>1 DEF IsLoop
  <2> HIDE DEF Iter
  <2> QED BY <2>2
<1> HIDE DEF f, Turn
<1>8. f[{}] = base
  BY <1>7
<1>9. ASSUME NEW k \in 1 .. m PROVE f[1 .. k] = Turn(f[1 .. (k - 1)], S[k])
  <2>1. 1 .. k \in SUBSET (1 .. m) /\ 1 .. k # {} /\ Max(1 .. k) = k
        /\ (1 .. k) \ {k} = 1 .. (k - 1)
    BY <1>1, FirstIndices
  <2> QED BY <1>7, <2>1, Zenon
<1> HIDE DEF U, Iter
<1>10. \A k \in 1 .. m : f[1 .. (k - 1)] \in U => f[1 .. k] \in U
  BY <1>4, <1>9
<1>11. f[{}] \in U
  BY <1>3, <1>8
<1>12. f[1 .. m] \in U
  BY <1>1, <1>10, <1>11, LoopKeeps
<1> QED BY <1>2, <1>12 DEF U

-----------------------------------------------------------------------------
\* The states of the forwarding loop.
Forwards(n) == [r : Routers(n), out : [Ports(n) -> MaybeWire], hop : Hops(n)]

\* The flit at the front of input x is sent to output c.
Sent(r, x, c) == [flit |-> Foremost(r, x), vc |-> c.vc]

(***************************************************************************)
(* What ports 1 to k have sent when table t was reserved: each at most one *)
(* flit, from the front of an input to the output it has reserved; an      *)
(* output takes at most one, with the handshake and a credit; a tail flit  *)
(* takes its reservation along.                                            *)
(***************************************************************************)
Forwarded(n, r, sig, t, k, x) ==
    /\ x \in Forwards(n) /\ x.r.start = r.start /\ x.r.vc = r.vc
    /\ DOMAIN x.hop \subseteq {c \in DOMAIN t : c.port <= k}
    /\ \A c \in DOMAIN x.hop :
          /\ x.hop[c] = t[c] /\ Waits(r, c)
          /\ sig.idle[t[c].port] /\ sig.credit[t[c].port][t[c].vc] # 0
          /\ x.out[t[c].port] = Sent(r, c, t[c])
    /\ \A c, d \in DOMAIN x.hop : c # d => c.port # d.port /\ t[c].port # t[d].port
    /\ \A p \in Ports(n) : x.out[p] # None => \E c \in DOMAIN x.hop : t[c].port = p
    /\ DOMAIN x.r.table = {c \in DOMAIN t : c \in DOMAIN x.hop => ~IsTail(Foremost(r, c))}
    /\ \A c \in DOMAIN x.r.table : x.r.table[c] = t[c]
    /\ \A c \in Conns(n) : x.r.buf[c.port][c.vc] =
                              IF c \in DOMAIN x.hop THEN Tail(r.buf[c.port][c.vc])
                                                    ELSE r.buf[c.port][c.vc]

\* A turn of the forwarding loop that sends, in full.
Sending(sig, x, p, c, d, y) ==
    /\ Occupied(x.r, p) # {} /\ c = InConnection(p, FrontVC(x.r, p))
    /\ c \in DOMAIN x.r.table /\ d = x.r.table[c] /\ ~Refuses(sig, x, d)
    /\ y = [r   |-> [x.r EXCEPT !.buf[p][FrontVC(x.r, p)] = Tail(@),
                                !.table = TableAfter(@, c, FrontFlit(x.r, p))],
            out |-> [x.out EXCEPT ![d.port] = [flit |-> FrontFlit(x.r, p), vc |-> d.vc]],
            hop |-> With(x.hop, c, d)]

LEMMA ForwardPortSends ==
  ASSUME NEW sig, NEW x, NEW p
  PROVE  \/ ForwardPort(sig, x, p) = x
         \/ \E c, d : Sending(sig, x, p, c, d, ForwardPort(sig, x, p))
  BY DEF ForwardPort, Sending

\* What a turn that sends makes of the state, field by field.
Fields(n, sig, x, p, c, d, y) ==
    /\ y \in Forwards(n)
    /\ c \in Conns(n) /\ c.port = p /\ c \in DOMAIN x.r.table /\ d = x.r.table[c]
    /\ d \in OutConns(n) /\ Waits(x.r, c) /\ Foremost(x.r, c) \in WFlits
    /\ x.out[d.port] = None /\ sig.idle[d.port] /\ sig.credit[d.port][d.vc] # 0
    /\ y.r.start = x.r.start /\ y.r.vc = x.r.vc
    /\ y.hop = With(x.hop, c, d)
    /\ y.out = [x.out EXCEPT ![d.port] = Sent(x.r, c, d)]
    /\ DOMAIN y.r.table = {e \in DOMAIN x.r.table : e = c => ~IsTail(Foremost(x.r, c))}
    /\ \A e \in DOMAIN y.r.table : y.r.table[e] = x.r.table[e]
    /\ \A e \in Conns(n) : y.r.buf[e.port][e.vc] =
          IF e = c THEN Tail(x.r.buf[e.port][e.vc]) ELSE x.r.buf[e.port][e.vc]

LEMMA SendingFields ==
  ASSUME NEW n \in Nodes, NEW sig, NEW x \in Forwards(n), NEW p \in Ports(n), NEW c, NEW d,
         NEW y, Sending(sig, x, p, c, d, y)
  PROVE  Fields(n, sig, x, p, c, d, y)
<1> DEFINE r == x.r
           v == FrontVC(r, p)
           f == FrontFlit(r, p)
           buf == [r.buf EXCEPT ![p][v] = Tail(@)]
           tab == TableAfter(r.table, c, f)
<1>1. r \in Routers(n) /\ x.out \in [Ports(n) -> MaybeWire] /\ x.hop \in Hops(n)
  BY DEF Forwards
<1>2. r.buf \in Buffers(n) /\ r.table \in Tables(n) /\ r.start \in Ports(n) /\ r.vc \in VCs
      /\ r = [buf |-> r.buf, table |-> r.table, start |-> r.start, vc |-> r.vc]
  BY <1>1 DEF Routers
<1>3. /\ v \in VCs /\ c \in Conns(n) /\ Waits(r, c) /\ f = Foremost(r, c) /\ f \in WFlits
  BY <1>2, FrontOccupied DEF Sending
<1>4. c.port = p /\ c.vc = v /\ c = InConnection(p, v)
  BY DEF Sending, InConnection
<1>5. /\ c \in DOMAIN r.table /\ d = r.table[c] /\ d \in OutConns(n)
  BY <1>2 DEF Sending, Tables, Hops
<1>6. d.port \in Ports(n) /\ d.vc \in VCs
  BY <1>5 DEF OutConns, Conns
<1>7. x.out[d.port] = None /\ sig.idle[d.port] /\ sig.credit[d.port][d.vc] # 0
  BY DEF Sending, Refuses
<1>8. y = [r   |-> [r EXCEPT !.buf = buf, !.table = tab],
           out |-> [x.out EXCEPT ![d.port] = [flit |-> f, vc |-> d.vc]],
           hop |-> With(x.hop, c, d)]
  BY <1>2 DEF Sending
<1>9. buf \in Buffers(n)
      /\ \A e \in Conns(n) : buf[e.port][e.vc] =
            IF e = c THEN Tail(r.buf[e.port][e.vc]) ELSE r.buf[e.port][e.vc]
  <2> HIDE DEF r, v
  <2>1. r.buf[p][v] \in Seq(WFlits) /\ r.buf[p][v] # <<>>
    BY <1>2, <1>3, <1>4 DEF Buffers, Waits
  <2>2. Tail(r.buf[p][v]) \in Seq(WFlits)
    BY <2>1
  <2>3. buf \in Buffers(n)
    BY <1>2, <1>3, <2>2 DEF Buffers
  <2>4. \A q \in Ports(n), w \in VCs : buf[q][w] =
            IF q = p /\ w = v THEN Tail(r.buf[q][w]) ELSE r.buf[q][w]
    BY <1>2, <1>3 DEF Buffers
  <2>5. \A e \in Conns(n) : e.port \in Ports(n) /\ e.vc \in VCs
                            /\ (e = c <=> e.port = p /\ e.vc = v)
    BY <1>3, <1>4 DEF Conns
  <2> QED BY <2>3, <2>4, <2>5
<1>10. /\ DOMAIN tab = {e \in DOMAIN r.table : e = c => ~IsTail(f)}
       /\ \A e \in DOMAIN tab : tab[e] = r.table[e]
  BY DEF TableAfter, Restrict
<1>11. tab \in Tables(n)
  <2>1. r.table \in [DOMAIN r.table -> OutConns(n)] /\ DOMAIN r.table \in SUBSET Conns(n)
        /\ \A e, g \in DOMAIN r.table : r.table[e] = r.table[g] => e = g
    BY <1>2 DEF Tables, Hops
  <2>2. tab = [e \in DOMAIN tab |-> tab[e]]
    BY <2>1 DEF TableAfter, Restrict
  <2> HIDE DEF tab
  <2>3. tab \in [DOMAIN tab -> OutConns(n)] /\ DOMAIN tab \in SUBSET Conns(n)
    BY <1>10, <2>1, <2>2
  <2>4. \A e, g \in DOMAIN tab : tab[e] = tab[g] => e = g
    BY <1>10, <2>1
  <2> QED BY <2>3, <2>4 DEF Tables, Hops
<1>12. With(x.hop, c, d) \in Hops(n)
  <2> DEFINE g == With(x.hop, c, d)
  <2>1. x.hop \in [DOMAIN x.hop -> OutConns(n)] /\ DOMAIN x.hop \in SUBSET Conns(n)
    BY <1>1 DEF Hops
  <2>2. g = [e \in DOMAIN g |-> g[e]] /\ DOMAIN g = DOMAIN x.hop \cup {c}
        /\ \A e \in DOMAIN g : g[e] = IF e = c THEN d ELSE x.hop[e]
    BY DEF With
  <2> HIDE DEF g
  <2>3. g \in [DOMAIN g -> OutConns(n)] /\ DOMAIN g \in SUBSET Conns(n)
    BY <1>3, <1>5, <2>1, <2>2
  <2> QED BY <2>3 DEF Hops, g
<1>13. [x.out EXCEPT ![d.port] = [flit |-> f, vc |-> d.vc]] \in [Ports(n) -> MaybeWire]
  <2>1. [flit |-> f, vc |-> d.vc] \in MaybeWire
    BY <1>3, <1>6 DEF MaybeWire, Wires
  <2> QED BY <1>1, <2>1
<1> HIDE DEF r, buf, tab, f, v
<1>14. /\ y.hop = With(x.hop, c, d) /\ y.out = [x.out EXCEPT ![d.port] = [flit |-> f, vc |-> d.vc]]
       /\ y.r = [buf |-> buf, table |-> tab, start |-> r.start, vc |-> r.vc]
       /\ y = [r |-> y.r, out |-> y.out, hop |-> y.hop]
  BY <1>2, <1>8
<1>15. y.r \in Routers(n)
  BY <1>2, <1>9, <1>11, <1>14 DEF Routers
<1>16. y \in Forwards(n)
  BY <1>12, <1>13, <1>14, <1>15 DEF Forwards
<1> QED BY <1>3, <1>4, <1>5, <1>7, <1>9, <1>10, <1>14, <1>16, SMTT(30) DEF Sent, r, Fields

\* One turn of the forwarding loop.
LEMMA ForwardPortForwards ==
  ASSUME NEW n \in Nodes, NEW r \in Routers(n), NEW sig, NEW t \in Tables(n), NEW k \in Ports(n),
         NEW x, Forwarded(n, r, sig, t, k - 1, x)
  PROVE  Forwarded(n, r, sig, t, k, ForwardPort(sig, x, k))
<1> DEFINE y == ForwardPort(sig, x, k)
<1>1. k \in Nat /\ \A c \in Conns(n) : c.port \in Nat /\ (c.port <= k - 1 => c.port <= k /\ c.port # k)
  BY Numbers DEF Conns
<1>2. DOMAIN t \subseteq Conns(n) /\ \A c \in DOMAIN t : t[c] \in OutConns(n)
  BY DEF Tables, Hops
<1>3. {c \in DOMAIN t : c.port <= k - 1} \subseteq {c \in DOMAIN t : c.port <= k}
  BY <1>1, <1>2
<1>4. CASE y = x
  BY <1>3, <1>4 DEF Forwarded
<1>5. CASE \E c, d : Sending(sig, x, k, c, d, y)
  <2>1. PICK c, d : Sending(sig, x, k, c, d, y)
    BY <1>5
  <2> HIDE DEF y
  <2>2. x \in Forwards(n)
    BY DEF Forwarded
  <2>3. /\ y \in Forwards(n)
        /\ c \in Conns(n) /\ c.port = k /\ c \in DOMAIN x.r.table /\ d = x.r.table[c]
        /\ d \in OutConns(n) /\ Waits(x.r, c) /\ Foremost(x.r, c) \in WFlits
        /\ x.out[d.port] = None /\ sig.idle[d.port] /\ sig.credit[d.port][d.vc] # 0
        /\ y.r.start = x.r.start /\ y.r.vc = x.r.vc
        /\ y.hop = With(x.hop, c, d)
        /\ y.out = [x.out EXCEPT ![d.port] = Sent(x.r, c, d)]
        /\ DOMAIN y.r.table = {e \in DOMAIN x.r.table : e = c => ~IsTail(Foremost(x.r, c))}
        /\ \A e \in DOMAIN y.r.table : y.r.table[e] = x.r.table[e]
        /\ \A e \in Conns(n) : y.r.buf[e.port][e.vc] =
              IF e = c THEN Tail(x.r.buf[e.port][e.vc]) ELSE x.r.buf[e.port][e.vc]
    <3> Fields(n, sig, x, k, c, d, y)
      BY <2>1, <2>2, SendingFields
    <3> QED BY DEF Fields
  <2>4. /\ \A e \in DOMAIN x.hop : e.port # k /\ e \in DOMAIN t /\ e \in Conns(n)
        /\ c \notin DOMAIN x.hop
    BY <1>1, <1>2, <2>3 DEF Forwarded
  <2>5. c \in DOMAIN t /\ d = t[c]
    BY <2>3 DEF Forwarded
  <2>6. Waits(r, c) /\ Foremost(x.r, c) = Foremost(r, c) /\ Sent(x.r, c, d) = Sent(r, c, d)
        /\ x.r.buf[c.port][c.vc] = r.buf[c.port][c.vc]
    BY <2>3, <2>4, Zenon DEF Forwarded, Waits, Foremost, Sent
  <2>7. DOMAIN y.hop = DOMAIN x.hop \cup {c} /\ y.hop[c] = d
        /\ \A e \in DOMAIN x.hop : y.hop[e] = x.hop[e]
    BY <2>3, <2>4 DEF With
  <2>8. x.out \in [Ports(n) -> MaybeWire] /\ d.port \in Ports(n)
    BY <2>2, <2>3 DEF Forwards, OutConns, Conns
  <2>9. y.out[d.port] = Sent(r, c, d) /\ \A p \in Ports(n) : p # d.port => y.out[p] = x.out[p]
    BY <2>3, <2>6, <2>8
  <2>10. None # Sent(r, c, d)
    <3>1. Sent(r, c, d) \in Wires
      BY <2>3, <2>6 DEF Sent, Wires, OutConns, Conns
    <3> QED BY <3>1, NetworkAssumption DEF Wires
  <2>11. \A e \in DOMAIN x.hop : t[e].port # d.port /\ t[e].port \in Ports(n)
    <3>1. SUFFICES ASSUME NEW e \in DOMAIN x.hop PROVE t[e].port # d.port /\ t[e].port \in Ports(n)
      OBVIOUS
    <3>2. x.out[t[e].port] = Sent(r, e, t[e]) /\ Waits(r, e) /\ e \in DOMAIN t
      BY <2>4 DEF Forwarded
    <3>3. e \in Conns(n) /\ t[e] \in OutConns(n)
      BY <1>2, <3>2
    <3>4. Foremost(r, e) \in WFlits
      <4>1. r.buf[e.port][e.vc] \in Seq(WFlits) /\ r.buf[e.port][e.vc] # <<>>
        BY <3>2, <3>3 DEF Routers, Buffers, Conns, Waits
      <4> QED BY <4>1 DEF Foremost
    <3>5. Sent(r, e, t[e]) \in Wires
      BY <3>3, <3>4 DEF Sent, Wires, OutConns, Conns
    <3>6. Sent(r, e, t[e]) # None
      BY <3>5, NetworkAssumption DEF Wires
    <3> QED BY <2>3, <3>2, <3>3, <3>6 DEF OutConns, Conns
  <2>12. y.r.start = r.start /\ y.r.vc = r.vc
    BY <2>3 DEF Forwarded
  <2>13. DOMAIN y.hop \subseteq {e \in DOMAIN t : e.port <= k}
    BY <1>1, <1>3, <2>3, <2>5, <2>7 DEF Forwarded
  <2>14. ASSUME NEW e \in DOMAIN y.hop
         PROVE  /\ y.hop[e] = t[e] /\ Waits(r, e)
                /\ sig.idle[t[e].port] /\ sig.credit[t[e].port][t[e].vc] # 0
                /\ y.out[t[e].port] = Sent(r, e, t[e])
    <3>1. CASE e = c
      BY <2>3, <2>5, <2>6, <2>7, <2>9, <3>1
    <3>2. CASE e \in DOMAIN x.hop
      BY <2>7, <2>9, <2>11, <3>2 DEF Forwarded
    <3> QED BY <2>7, <3>1, <3>2
  <2>15. \A e, g \in DOMAIN y.hop : e # g => e.port # g.port /\ t[e].port # t[g].port
    <3>1. \A e \in DOMAIN x.hop : e.port # c.port /\ t[e].port # t[c].port
      BY <2>3, <2>4, <2>5, <2>11
    <3> QED BY <2>7, <3>1 DEF Forwarded
  <2>16. \A p \in Ports(n) : y.out[p] # None => \E e \in DOMAIN y.hop : t[e].port = p
    <3>1. SUFFICES ASSUME NEW p \in Ports(n), y.out[p] # None
                   PROVE  \E e \in DOMAIN y.hop : t[e].port = p
      OBVIOUS
    <3>2. CASE p = d.port
      BY <2>5, <2>7, <3>2
    <3>3. CASE p # d.port
      BY <2>7, <2>9, <3>1, <3>3 DEF Forwarded
    <3> QED BY <3>2, <3>3
  <2>17. /\ DOMAIN y.r.table = {e \in DOMAIN t : e \in DOMAIN y.hop => ~IsTail(Foremost(r, e))}
         /\ \A e \in DOMAIN y.r.table : y.r.table[e] = t[e]
    <3>1. /\ DOMAIN x.r.table = {e \in DOMAIN t : e \in DOMAIN x.hop => ~IsTail(Foremost(r, e))}
          /\ \A e \in DOMAIN x.r.table : x.r.table[e] = t[e]
      BY DEF Forwarded
    <3> QED BY <2>3, <2>4, <2>6, <2>7, <3>1
  <2>18. \A e \in Conns(n) : y.r.buf[e.port][e.vc] =
               IF e \in DOMAIN y.hop THEN Tail(r.buf[e.port][e.vc]) ELSE r.buf[e.port][e.vc]
    <3>1. \A e \in Conns(n) : x.r.buf[e.port][e.vc] =
               IF e \in DOMAIN x.hop THEN Tail(r.buf[e.port][e.vc]) ELSE r.buf[e.port][e.vc]
      BY DEF Forwarded
    <3>2. SUFFICES ASSUME NEW e \in Conns(n)
                   PROVE  y.r.buf[e.port][e.vc] = IF e \in DOMAIN y.hop
                                                  THEN Tail(r.buf[e.port][e.vc])
                                                  ELSE r.buf[e.port][e.vc]
      OBVIOUS
    <3>3. CASE e = c
      <4>1. y.r.buf[c.port][c.vc] = Tail(x.r.buf[c.port][c.vc])
        BY <2>3
      <4> QED BY <2>6, <2>7, <3>3, <4>1
    <3>4. CASE e # c
      <4>1. y.r.buf[e.port][e.vc] = x.r.buf[e.port][e.vc]
        BY <2>3, <3>4
      <4>2. e \in DOMAIN y.hop <=> e \in DOMAIN x.hop
        BY <2>7, <3>4
      <4> QED BY <3>1, <4>1, <4>2
    <3> QED BY <3>3, <3>4
  <2>19. Forwarded(n, r, sig, t, k, y)
    BY <2>3, <2>12, <2>13, <2>14, <2>15, <2>16, <2>17, <2>18, Zenon DEF Forwarded
  <2> QED BY <2>19 DEF y
<1> QED BY <1>4, <1>5, ForwardPortSends

\* The forwarding loop.
LEMMA ForwardingForwards ==
  ASSUME NEW n \in Nodes, NEW r \in Routers(n), NEW sig, NEW t \in Tables(n)
  PROVE  Forwarded(n, r, sig, t, LocalPort(n), Forwarding(n, r, sig, t))
<1> DEFINE m == LocalPort(n)
           P == [p \in Ports(n) |-> p]
           base == [r |-> [r EXCEPT !.table = t], out |-> [p \in Ports(n) |-> None], hop |-> <<>>]
           U == Forwards(n)
           Iter(h) == h = [s \in SUBSET (1 .. m) |-> IF s = {} THEN base ELSE
                             LET x == Max(s) IN ForwardPort(sig, h[s \ {x}], P[x])]
           f == CHOOSE h : Iter(h)
           step == [i \in 1 .. m |-> [u \in U |-> ForwardPort(sig, u, i)]]
<1>1. m \in Nat /\ Ports(n) = 1 .. m /\ \A i \in 1 .. m : P[i] = i
  BY Numbers
<1>2. Forwarding(n, r, sig, t) = f[1 .. m]
  <2>1. DOMAIN [p \in Ports(n) |-> p] = 1 .. m
    BY <1>1
  <2> HIDE DEF m
  <2> QED BY <2>1 DEF Forwarding, FoldLeft, MapThenFoldSet
<1>3. Forwarded(n, r, sig, t, 0, base)
  <2>1. base.r = [buf |-> r.buf, table |-> t, start |-> r.start, vc |-> r.vc] /\ base.r \in Routers(n)
    BY DEF Routers
  <2>2. base.out = [p \in Ports(n) |-> None] /\ base.hop = <<>> /\ DOMAIN base.hop = {}
    OBVIOUS
  <2>3. base.hop \in Hops(n)
    <3>1. base.hop \in [{} -> OutConns(n)]
      BY <2>2
    <3> QED BY <3>1 DEF Hops
  <2>4. base.out \in [Ports(n) -> MaybeWire]
    BY <2>2 DEF MaybeWire
  <2>5. base \in Forwards(n)
    BY <2>1, <2>3, <2>4 DEF Forwards
  <2>6. base.r.start = r.start /\ base.r.vc = r.vc /\ base.r.table = t /\ base.r.buf = r.buf
        /\ \A p \in Ports(n) : base.out[p] = None
    BY <2>1, <2>2
  <2> HIDE DEF base
  <2> QED BY <2>2, <2>5, <2>6 DEF Forwarded
<1>4. base \in U
  BY <1>3 DEF Forwarded
<1>5. ASSUME NEW i \in 1 .. m, NEW u \in U PROVE ForwardPort(sig, u, i) \in U
  <2> DEFINE v == ForwardPort(sig, u, i)
  <2>1. SUFFICES ASSUME NEW c, NEW d, Sending(sig, u, i, c, d, v) PROVE v \in U
    BY ForwardPortSends
  <2> HIDE DEF v
  <2>2. Fields(n, sig, u, i, c, d, v)
    BY <1>1, <2>1, SendingFields
  <2> QED BY <2>2 DEF Fields
<1> HIDE DEF m, base, P
<1>6. step \in [1 .. m -> [U -> U]]
  BY <1>5
<1>7. PICK h : IsLoop(h, m, U, base, step)
  <2> HIDE DEF U, step, f, Iter
  <2> QED BY <1>1, <1>4, <1>6, LoopExists
<1>8. Iter(f)
  <2>1. ASSUME NEW s \in SUBSET (1 .. m), s # {}
        PROVE  h[s] = ForwardPort(sig, h[s \ {Max(s)}], P[Max(s)])
    <3>1. Max(s) \in 1 .. m /\ h[s \ {Max(s)}] \in U
      BY <1>1, <1>7, <2>1, MaxIn DEF IsLoop
    <3> HIDE DEF U
    <3> QED BY <1>1, <1>7, <2>1, <3>1 DEF IsLoop
  <2>2. Iter(h)
    <3> HIDE DEF U
    <3> QED BY <1>7, <2>1 DEF IsLoop
  <2> HIDE DEF Iter
  <2> QED BY <2>2
<1> HIDE DEF f
<1>9. f[{}] = base
  BY <1>8
<1>10. ASSUME NEW k \in 1 .. m PROVE f[1 .. k] = ForwardPort(sig, f[1 .. (k - 1)], k)
  <2>1. 1 .. k \in SUBSET (1 .. m) /\ 1 .. k # {} /\ Max(1 .. k) = k
        /\ (1 .. k) \ {k} = 1 .. (k - 1)
    BY <1>1, FirstIndices
  <2>2. P[k] = k
    BY <1>1
  <2> QED BY <1>8, <2>1, <2>2, Zenon
<1> HIDE DEF U, Iter
<1> DEFINE S == {k \in Nat : k <= m => Forwarded(n, r, sig, t, k, f[1 .. k])}
<1>11. 0 \in S
  BY <1>3, <1>9, 1 .. 0 = {}
<1>12. ASSUME NEW k \in Nat, k \in S PROVE k + 1 \in S
  <2> SUFFICES ASSUME k + 1 <= m PROVE Forwarded(n, r, sig, t, k + 1, f[1 .. (k + 1)])
    OBVIOUS
  <2>1. k + 1 \in 1 .. m /\ (k + 1) - 1 = k /\ Forwarded(n, r, sig, t, k, f[1 .. k])
    BY <1>1, <1>12
  <2> QED BY <1>1, <1>10, <2>1, ForwardPortForwards
<1>13. m \in S
  <2> HIDE DEF S
  <2> QED BY <1>1, <1>11, <1>12, SetInduction
<1> QED BY <1>1, <1>2, <1>13 DEF m

-----------------------------------------------------------------------------
\* Buffer b of connection c with what has arrived for it.
Arrived(sig, c, b) ==
    IF sig.arrived[c.port] # None /\ sig.arrived[c.port].vc = c.vc
    THEN Append(b, sig.arrived[c.port].flit) ELSE b

(***************************************************************************)
(* An outcome o of Router::Update when the reservation loop made table t:  *)
(* the flits that have been sent and the reservations that are left, with  *)
(* what has arrived in the buffers.                                        *)
(***************************************************************************)
Updated(n, r, sig, t, o) ==
    /\ t \in Tables(n) /\ Reserved(n, r, t)
    /\ o \in Forwards(n)
    /\ DOMAIN o.hop \subseteq DOMAIN t
    /\ \A c \in DOMAIN o.hop :
          /\ o.hop[c] = t[c] /\ Waits(r, c)
          /\ sig.idle[t[c].port] /\ sig.credit[t[c].port][t[c].vc] # 0
          /\ o.out[t[c].port] = Sent(r, c, t[c])
    /\ \A c, d \in DOMAIN o.hop : c # d => c.port # d.port /\ t[c].port # t[d].port
    /\ \A p \in Ports(n) : o.out[p] # None => \E c \in DOMAIN o.hop : t[c].port = p
    /\ DOMAIN o.r.table = {c \in DOMAIN t : c \in DOMAIN o.hop => ~IsTail(Foremost(r, c))}
    /\ \A c \in DOMAIN o.r.table : o.r.table[c] = t[c]
    /\ \A c \in Conns(n) : o.r.buf[c.port][c.vc] =
          Arrived(sig, c, IF c \in DOMAIN o.hop THEN Tail(r.buf[c.port][c.vc])
                                                ELSE r.buf[c.port][c.vc])

LEMMA RouterUpdated ==
  ASSUME NEW n \in Nodes, NEW r \in Routers(n), NEW sig, sig.arrived \in [Ports(n) -> MaybeWire],
         NEW o \in RouterUpdate(n, r, sig)
  PROVE  \E t : Updated(n, r, sig, t, o)
<1>1. PICK t \in Reservations(n, r, sig) :
         o = LET x == Forwarding(n, r, sig, t)
             IN [x EXCEPT !.r = [RXProcess(n, x.r, sig) EXCEPT
                                    !.vc = (@ + 1) % NumVCs,
                                    !.start = (@ % LocalPort(n)) + 1]]
  BY DEF RouterUpdate
<1>2. t \in Tables(n) /\ Reserved(n, r, t)
  BY ReservationsMake
<1> DEFINE x == Forwarding(n, r, sig, t)
           y == RXProcess(n, x.r, sig)
<1>3. Forwarded(n, r, sig, t, LocalPort(n), x)
  BY <1>2, ForwardingForwards
<1> HIDE DEF x
<1>4. x \in Forwards(n) /\ x.r \in Routers(n) /\ x.r.buf \in Buffers(n)
      /\ x = [r |-> x.r, out |-> x.out, hop |-> x.hop]
      /\ x.r = [buf |-> x.r.buf, table |-> x.r.table, start |-> x.r.start, vc |-> x.r.vc]
      /\ x.r.start \in Ports(n) /\ x.r.vc \in VCs /\ x.r.table \in Tables(n)
  BY <1>3 DEF Forwarded, Forwards, Routers
<1> DEFINE buf == [p \in Ports(n) |-> [v \in VCs |->
                     IF sig.arrived[p] # None /\ sig.arrived[p].vc = v
                     THEN Append(x.r.buf[p][v], sig.arrived[p].flit) ELSE x.r.buf[p][v]]]
<1>5. y = [buf |-> buf, table |-> x.r.table, start |-> x.r.start, vc |-> x.r.vc]
  <2> DEFINE u == x.r
  <2>1. y = [u EXCEPT !.buf = buf]
    BY DEF RXProcess
  <2>2. u \in [buf : Buffers(n), table : Tables(n), start : Ports(n), vc : VCs]
    BY <1>4 DEF Routers
  <2> HIDE DEF u, y, buf
  <2>3. y = [buf |-> buf, table |-> u.table, start |-> u.start, vc |-> u.vc]
    BY <2>1, <2>2
  <2> QED BY <2>3 DEF u
<1>6. o.r = [buf |-> buf, table |-> x.r.table, start |-> (x.r.start % LocalPort(n)) + 1,
             vc |-> (x.r.vc + 1) % NumVCs]
      /\ o.out = x.out /\ o.hop = x.hop /\ o = [r |-> o.r, out |-> x.out, hop |-> x.hop]
  <2>1. o = [x EXCEPT !.r = [y EXCEPT !.vc = (@ + 1) % NumVCs,
                                      !.start = (@ % LocalPort(n)) + 1]]
    BY <1>1 DEF x
  <2> HIDE DEF y, buf
  <2>2. [y EXCEPT !.vc = (@ + 1) % NumVCs, !.start = (@ % LocalPort(n)) + 1]
          = [buf |-> buf, table |-> x.r.table, start |-> (x.r.start % LocalPort(n)) + 1,
             vc |-> (x.r.vc + 1) % NumVCs]
    <3>1. y \in [buf : {buf}, table : {x.r.table}, start : {x.r.start}, vc : {x.r.vc}]
      BY <1>5
    <3>2. y.start = x.r.start /\ y.vc = x.r.vc /\ y.buf = buf /\ y.table = x.r.table
      BY <1>5
    <3>3. [y EXCEPT !.vc = (@ + 1) % NumVCs, !.start = (@ % LocalPort(n)) + 1]
            = [y EXCEPT !.vc = (y.vc + 1) % NumVCs, !.start = (y.start % LocalPort(n)) + 1]
      OBVIOUS
    <3>4. \A a, b : [y EXCEPT !.vc = a, !.start = b]
                    = [buf |-> buf, table |-> x.r.table, start |-> b, vc |-> a]
      <4>1. ASSUME NEW a, NEW b
            PROVE  [y EXCEPT !.vc = a, !.start = b]
                    = [buf |-> buf, table |-> x.r.table, start |-> b, vc |-> a]
        <5>1. [y EXCEPT !.vc = a]
                = [buf |-> buf, table |-> x.r.table, start |-> x.r.start, vc |-> a]
          BY <1>5
        <5> DEFINE z == [y EXCEPT !.vc = a]
        <5>2. [y EXCEPT !.vc = a, !.start = b] = [z EXCEPT !.start = b]
          OBVIOUS
        <5> HIDE DEF z
        <5>3. [z EXCEPT !.start = b]
                = [buf |-> buf, table |-> x.r.table, start |-> b, vc |-> a]
          <6>1. z = [buf |-> buf, table |-> x.r.table, start |-> x.r.start, vc |-> a]
            BY <5>1 DEF z
          <6> QED BY <6>1
        <5> QED BY <5>2, <5>3
      <4> QED BY <4>1
    <3> QED BY <3>2, <3>3, <3>4
  <2> QED BY <1>4, <2>1, <2>2
<1>7. buf \in Buffers(n)
      /\ \A c \in Conns(n) : buf[c.port][c.vc] = Arrived(sig, c, x.r.buf[c.port][c.vc])
  <2>1. ASSUME NEW p \in Ports(n), NEW v \in VCs PROVE buf[p][v] \in Seq(WFlits)
    <3>1. x.r.buf[p][v] \in Seq(WFlits) /\ sig.arrived[p] \in MaybeWire
      BY <1>4 DEF Buffers
    <3>2. sig.arrived[p] # None => sig.arrived[p].flit \in WFlits
      BY <3>1 DEF MaybeWire, Wires
    <3>3. buf[p][v] = IF sig.arrived[p] # None /\ sig.arrived[p].vc = v
                     THEN Append(x.r.buf[p][v], sig.arrived[p].flit) ELSE x.r.buf[p][v]
      OBVIOUS
    <3> QED BY <3>1, <3>2, <3>3
  <2>2. buf \in Buffers(n)
    BY <2>1 DEF Buffers
  <2>3. \A c \in Conns(n) : buf[c.port][c.vc] = Arrived(sig, c, x.r.buf[c.port][c.vc])
    BY DEF Conns, Arrived
  <2> QED BY <2>2, <2>3
<1>8. (x.r.start % LocalPort(n)) + 1 \in Ports(n) /\ (x.r.vc + 1) % NumVCs \in VCs
  <2>1. \A a, b \in Nat : b > 0 => (a % b) + 1 \in 1 .. b /\ (a + 1) % b \in 0 .. b - 1
    OBVIOUS
  <2>2. /\ LocalPort(n) \in Nat /\ LocalPort(n) > 0 /\ x.r.start \in Nat /\ x.r.vc \in Nat
        /\ NumVCs \in Nat /\ NumVCs > 0 /\ Ports(n) = 1 .. LocalPort(n)
    BY <1>4, Numbers
  <2> QED BY <2>1, <2>2 DEF VCs
<1> HIDE DEF buf, y
<1>9. o.r \in Routers(n)
  BY <1>4, <1>6, <1>7, <1>8 DEF Routers
<1>10. o \in Forwards(n)
  BY <1>4, <1>6, <1>9 DEF Forwards
<1>11. /\ DOMAIN o.r.table = {c \in DOMAIN t : c \in DOMAIN o.hop => ~IsTail(Foremost(r, c))}
       /\ \A c \in DOMAIN o.r.table : o.r.table[c] = t[c]
  BY <1>3, <1>6 DEF Forwarded
<1>12. \A c \in Conns(n) : o.r.buf[c.port][c.vc] =
          Arrived(sig, c, IF c \in DOMAIN o.hop THEN Tail(r.buf[c.port][c.vc])
                                                ELSE r.buf[c.port][c.vc])
  BY <1>3, <1>6, <1>7 DEF Forwarded
<1>13. DOMAIN o.hop \subseteq DOMAIN t
  BY <1>3, <1>6 DEF Forwarded
<1>14. /\ \A c \in DOMAIN o.hop :
             /\ o.hop[c] = t[c] /\ Waits(r, c)
             /\ sig.idle[t[c].port] /\ sig.credit[t[c].port][t[c].vc] # 0
             /\ o.out[t[c].port] = Sent(r, c, t[c])
       /\ \A c, d \in DOMAIN o.hop : c # d => c.port # d.port /\ t[c].port # t[d].port
       /\ \A p \in Ports(n) : o.out[p] # None => \E c \in DOMAIN o.hop : t[c].port = p
  BY <1>3, <1>6 DEF Forwarded
<1>15. Updated(n, r, sig, t, o)
  BY <1>2, <1>10, <1>11, <1>12, <1>13, <1>14 DEF Updated
<1> QED BY <1>15
-----------------------------------------------------------------------------

\* OneOfEach makes nothing but choices.
LEMMA OneOfEachPicks ==
  ASSUME NEW F, IsFiniteSet(DOMAIN F), NEW c \in OneOfEach(F)
  PROVE  DOMAIN c = DOMAIN F /\ \A n \in DOMAIN F : c[n] \in F[n]
<1> DEFINE S == DOMAIN F
           V == UNION {F[n] : n \in S}
           G == UNION {[D -> V] : D \in SUBSET S}
           U == SUBSET G
           base == {<<>>}
           Turn(n, gs) == {With(g, n, x) : x \in F[n], g \in gs}
           Iter(h) == h = [s \in SUBSET S |-> IF s = {} THEN base ELSE
                             LET x == CHOOSE x \in s : TRUE IN Turn(x, h[s \ {x}])]
           f == CHOOSE h : Iter(h)
           step == [n \in S |-> [u \in U |-> Turn(n, u)]]
<1>1. OneOfEach(F) = f[S]
  <2> HIDE DEF S
  <2> QED BY DEF OneOfEach, FoldSet, MapThenFoldSet, S
<1> HIDE DEF S
<1>2. base \in U
  <2> <<>> \in [{} -> V]
    OBVIOUS
  <2> QED OBVIOUS
<1>3. ASSUME NEW n \in S, NEW u \in U PROVE Turn(n, u) \in U
  <2> SUFFICES ASSUME NEW x \in F[n], NEW g \in u PROVE With(g, n, x) \in G
    OBVIOUS
  <2> DEFINE w == With(g, n, x)
  <2>1. PICK D \in SUBSET S : g \in [D -> V]
    OBVIOUS
  <2>2. w = [z \in DOMAIN w |-> w[z]] /\ DOMAIN w = D \cup {n}
        /\ \A z \in DOMAIN w : w[z] = IF z = n THEN x ELSE g[z]
    BY <2>1 DEF With
  <2> HIDE DEF w
  <2>3. x \in V
    OBVIOUS
  <2> HIDE DEF V
  <2>4. w \in [D \cup {n} -> V]
    BY <2>1, <2>2, <2>3
  <2> QED BY <2>4 DEF w
<1>4. step \in [S -> [U -> U]]
  <2> HIDE DEF Turn
  <2> QED BY <1>3
<1> HIDE DEF base
<1>5. PICK h : IsWalk(h, S, U, base, step)
  <2> HIDE DEF U, step, f, Iter
  <2> QED BY <1>2, <1>4, WalkExists DEF S
<1>6. Iter(f)
  <2>1. ASSUME NEW s \in SUBSET S, s # {}
        PROVE  h[s] = Turn(Pick(s), h[s \ {Pick(s)}])
    <3>1. Pick(s) \in S /\ h[s \ {Pick(s)}] \in U
      BY <1>5, <2>1 DEF IsWalk, Pick
    <3> HIDE DEF Turn, U
    <3> QED BY <1>5, <2>1, <3>1 DEF IsWalk
  <2>2. Iter(h)
    <3> HIDE DEF Turn, U
    <3>1. h = [s \in SUBSET S |-> IF s = {} THEN base ELSE Turn(Pick(s), h[s \ {Pick(s)}])]
      BY <1>5, <2>1 DEF IsWalk
    <3> QED BY <3>1 DEF Pick
  <2> HIDE DEF Iter
  <2> QED BY <2>2
<1> HIDE DEF f, Turn
<1>7. /\ f[{}] = base
      /\ \A s \in SUBSET S : s # {} => f[s] = Turn(Pick(s), f[s \ {Pick(s)}])
  BY <1>6 DEF Pick
<1> HIDE DEF Iter
<1> DEFINE P == {s \in SUBSET S : \A g \in f[s] : DOMAIN g = s /\ \A n \in s : g[n] \in F[n]}
<1>8. {} \in P
  BY <1>7 DEF base
<1>9. ASSUME NEW s \in SUBSET S, s # {}, s \ {Pick(s)} \in P PROVE s \in P
  <2> SUFFICES ASSUME NEW g \in f[s] PROVE DOMAIN g = s /\ \A n \in s : g[n] \in F[n]
    OBVIOUS
  <2> DEFINE x == Pick(s)
  <2>1. x \in s
    BY <1>9 DEF Pick
  <2>2. PICK y \in F[x], e \in f[s \ {x}] : g = With(e, x, y)
    <3>1. f[s] = Turn(x, f[s \ {x}])
      BY <1>7, <1>9
    <3> HIDE DEF x
    <3> QED BY <3>1 DEF Turn
  <2>3. DOMAIN e = s \ {x} /\ \A n \in s \ {x} : e[n] \in F[n]
    BY <1>9
  <2> HIDE DEF x
  <2> QED BY <2>1, <2>2, <2>3 DEF With
<1>10. S \in P
  <2> HIDE DEF P
  <2>1. \A s \in SUBSET S : s # {} /\ s \ {Pick(s)} \in P => s \in P
    BY <1>9
  <2> QED BY <1>8, <2>1, PickInduction DEF S
<1> QED BY <1>1, <1>10 DEF S
-----------------------------------------------------------------------------
Processors == [waiting : Nat, packet : Packets \cup {None}, left : Nat, made : Nat]

\* A processor that has drawn a packet has not sent all of it.
ProcessorOK(p) ==
    /\ p \in Processors /\ p.waiting <= p.made
    /\ p.packet # None => p.waiting > 0 /\ p.left > 0 /\ p.left <= p.packet.len
    /\ p.packet = None => p.left = 0

\* Nothing has been sent yet.
Fresh ==
    /\ wire = [r \in Relays |-> None]
    /\ \A n \in Nodes : router[n].buf = [p \in Ports(n) |-> [v \in VCs |-> <<>>]]

(***************************************************************************)
(* The type invariant of the network in full.                              *)
(***************************************************************************)
Typed ==
    /\ reset \in BOOLEAN /\ (reset => Fresh)
    /\ router = [n \in Nodes |-> router[n]] /\ \A n \in Nodes : router[n] \in Routers(n)
    /\ DOMAIN proc = Nodes /\ \A n \in Nodes : ProcessorOK(proc[n])
    /\ wire \in [Relays -> MaybeWire]
    /\ \A n \in Nodes : /\ wire[<<n, 0>>] # None => wire[<<n, 0>>].vc = 0
                        /\ wire[LocalRelay(n)] # None => wire[LocalRelay(n)].vc = 0
    /\ sent \in [Nodes -> Nat] /\ got \in [Nodes -> Nat] /\ tails \in [Nodes -> Nat]
    /\ DOMAIN hop = Nodes /\ \A n \in Nodes : hop[n] \in Hops(n)
    /\ open \in [Channels -> WFlits \cup {None}]

-----------------------------------------------------------------------------
\* What a processor p becomes before it sends.
Readied(p, r) ==
    /\ ProcessorOK(r) /\ (r.waiting > 0 => r.packet # None)
    /\ r.made - r.waiting = p.made - p.waiting
    /\ \/ r.packet = p.packet /\ r.left = p.left
       \/ p.packet = None /\ r.packet # None /\ r.left = r.packet.len

\* Production and draw.
LEMMA ProduceReadies ==
  ASSUME NEW p, ProcessorOK(p), NEW fires \in BOOLEAN, NEW d \in Packets
  PROVE  /\ NeedsDraw(Produce(p, fires)) => Readied(p, Draw(Produce(p, fires), d))
         /\ ~NeedsDraw(Produce(p, fires)) => Readied(p, Produce(p, fires))
<1> DEFINE c == Produce(p, fires)
           e == Draw(c, d)
<1>1. p \in Processors /\ p.waiting \in Nat /\ p.made \in Nat /\ p.waiting <= p.made
      /\ p.left \in Nat /\ p.packet \in Packets \cup {None}
  BY DEF ProcessorOK, Processors
<1>2. /\ c \in Processors /\ c.packet = p.packet /\ c.left = p.left
      /\ c.made - c.waiting = p.made - p.waiting /\ c.waiting <= c.made /\ c.waiting >= p.waiting
  <2>1. CASE fires
    <3>1. c = [p EXCEPT !.waiting = @ + 1, !.made = @ + 1]
      BY <2>1 DEF Produce
    <3>2. /\ c \in Processors /\ c.packet = p.packet /\ c.left = p.left
          /\ c.made = p.made + 1 /\ c.waiting = p.waiting + 1
      <4> DEFINE a == p.waiting + 1
                 b == p.made + 1
      <4>1. a \in Nat /\ b \in Nat
        BY <1>1
      <4>2. c = [p EXCEPT !.waiting = a, !.made = b]
        BY <3>1
      <4> HIDE DEF c, a, b
      <4>3. c \in Processors /\ c.packet = p.packet /\ c.left = p.left
            /\ c.made = b /\ c.waiting = a
        BY <1>1, <4>1, <4>2 DEF Processors
      <4> QED BY <4>3 DEF a, b
    <3> QED BY <1>1, <3>2
  <2>2. CASE ~fires
    BY <1>1, <2>2 DEF Produce
  <2> QED BY <2>1, <2>2
<1>3. d \in [dst : Nodes, len : Lengths] /\ d.len \in Nat /\ d.len > 0 /\ d # None
  BY NetworkAssumption DEF Packets
<1> HIDE DEF c
<1>4. c.waiting \in Nat /\ c.made \in Nat
  BY <1>2 DEF Processors
<1>5. /\ e \in Processors /\ e.packet = d /\ e.left = d.len
      /\ e.waiting = c.waiting /\ e.made = c.made
  BY <1>2, <1>3 DEF Draw, Processors
<1> HIDE DEF e
<1>6. ASSUME NeedsDraw(c) PROVE Readied(p, e)
  <2>1. c.waiting > 0 /\ p.packet = None
    BY <1>2, <1>6 DEF NeedsDraw
  <2>2. ProcessorOK(e)
    BY <1>2, <1>3, <1>4, <1>5, <2>1 DEF ProcessorOK
  <2> QED BY <1>2, <1>3, <1>5, <2>1, <2>2 DEF Readied
<1>7. ASSUME ~NeedsDraw(c) PROVE Readied(p, c)
  <2>1. c.waiting > 0 => c.packet # None
    BY <1>7 DEF NeedsDraw
  <2>2. ProcessorOK(c)
    BY <1>1, <1>2, <1>4 DEF ProcessorOK
  <2> QED BY <1>2, <2>1, <2>2 DEF Readied
<1> QED BY <1>6, <1>7 DEF c, e

\* The flit a processor sends, and what it is left with.
LEMMA PopFlitKeeps ==
  ASSUME NEW n \in Nodes, NEW p, ProcessorOK(p), p.packet # None
  PROVE  /\ ProcessorOK(PopFlit(p)) /\ NextFlit(n, p) \in WFlits
         /\ NextFlit(n, p).pkt = <<n, p.made - p.waiting>>
         /\ NextFlit(n, p).seq = p.packet.len - p.left
         /\ NextFlit(n, p).len = p.packet.len /\ NextFlit(n, p).dst = p.packet.dst
         /\ IsTail(NextFlit(n, p)) <=> p.left = 1
         /\ p.left = 1 => PopFlit(p).packet = None
         /\ p.left # 1 => /\ PopFlit(p).packet = p.packet /\ PopFlit(p).left = p.left - 1
                          /\ PopFlit(p).waiting = p.waiting /\ PopFlit(p).made = p.made
<1>1. p \in Processors /\ p.waiting \in Nat /\ p.made \in Nat /\ p.waiting <= p.made /\ p.waiting > 0
      /\ p.left \in Nat /\ p.left > 0 /\ p.left <= p.packet.len /\ p.packet \in Packets
  BY DEF ProcessorOK, Processors
<1>2. p.packet.dst \in Nodes /\ p.packet.len \in Lengths /\ p.packet.len \in Nat
  BY <1>1, NetworkAssumption DEF Packets
<1>3. /\ NextFlit(n, p).pkt = <<n, p.made - p.waiting>>
      /\ NextFlit(n, p).seq = p.packet.len - p.left
      /\ NextFlit(n, p).len = p.packet.len /\ NextFlit(n, p).dst = p.packet.dst
  BY DEF NextFlit
<1>4. NextFlit(n, p) \in WFlits
  <2>1. p.made - p.waiting \in Nat /\ p.packet.len - p.left \in Nat
    BY <1>1, <1>2
  <2> QED BY <1>2, <2>1 DEF NextFlit, WFlits
<1>5. IsTail(NextFlit(n, p)) <=> p.left = 1
  <2>1. \A a, b \in Nat : (a - b) + 1 = a <=> b = 1
    OBVIOUS
  <2> QED BY <1>1, <1>2, <1>3, <2>1 DEF IsTail
<1>6. CASE p.left = 1
  <2>1. PopFlit(p) = [p EXCEPT !.left = 0, !.waiting = @ - 1, !.packet = None]
    BY <1>6 DEF PopFlit
  <2> DEFINE c == PopFlit(p)
  <2>2. c.left = 0 /\ c.waiting = p.waiting - 1 /\ c.packet = None /\ c.made = p.made
        /\ c \in [waiting : Int, packet : Packets \cup {None}, left : Nat, made : Nat]
    <3>1. ASSUME NEW a \in Int, NEW z, z = [p EXCEPT !.left = 0, !.waiting = a, !.packet = None]
          PROVE  z.left = 0 /\ z.waiting = a /\ z.packet = None /\ z.made = p.made
                 /\ z \in [waiting : Int, packet : Packets \cup {None}, left : Nat, made : Nat]
      BY <1>1, <3>1 DEF Processors
    <3>2. p.waiting - 1 \in Int
      BY <1>1
    <3> HIDE DEF c
    <3> QED BY <2>1, <3>1, <3>2 DEF c
  <2> HIDE DEF c
  <2>3. c.waiting \in Nat /\ c.waiting <= c.made
    BY <1>1, <2>2
  <2>4. c \in Processors
    BY <2>2, <2>3 DEF Processors
  <2>5. ProcessorOK(c)
    BY <2>2, <2>3, <2>4 DEF ProcessorOK
  <2> QED BY <1>3, <1>4, <1>5, <1>6, <2>2, <2>5 DEF c
<1>7. CASE p.left # 1
  <2>1. PopFlit(p) = [p EXCEPT !.left = @ - 1]
    BY <1>7 DEF PopFlit
  <2> DEFINE c == PopFlit(p)
  <2>2. p.left - 1 \in Nat /\ p.left - 1 > 0 /\ p.left - 1 <= p.packet.len
    BY <1>1, <1>2, <1>7
  <2>3. c.left = p.left - 1 /\ c.waiting = p.waiting /\ c.packet = p.packet /\ c.made = p.made
        /\ c \in Processors
    BY <1>1, <2>1, <2>2 DEF Processors
  <2> HIDE DEF c
  <2>4. ProcessorOK(c)
    BY <1>1, <2>2, <2>3 DEF ProcessorOK
  <2> QED BY <1>3, <1>4, <1>5, <1>7, <2>3, <2>4 DEF c
<1> QED BY <1>6, <1>7
-----------------------------------------------------------------------------
(***************************************************************************)
(* The parts of a cycle: what the processors have become before they send, *)
(* the outcomes of the routers and the tables they made on the way.        *)
(***************************************************************************)
Parts(ready, routed, tabs) ==
    /\ \A n \in Nodes : Readied(proc[n], ready[n])
    /\ \A n \in Nodes : Updated(n, router[n], Signals(n), tabs[n], routed[n])
    /\ ~reset /\ reset' = reset
    /\ DOMAIN proc' = Nodes
    /\ \A n \in Nodes : proc'[n] = IF Sends(n, ready[n]) THEN PopFlit(ready[n]) ELSE ready[n]
    /\ sent' = [n \in Nodes |-> sent[n] + Count(Sends(n, ready[n]))]
    /\ got' = [n \in Nodes |-> got[n] + Count(Receives(n))]
    /\ tails' = [n \in Nodes |->
           tails[n] + Count(Receives(n) /\ IsTail(wire[<<n, 0>>].flit))]
    /\ router' = [n \in Nodes |-> routed[n].r]
    /\ wire' = [r \in Relays |->
           LET s == Bound[r] IN
           IF s[2] # 0 THEN routed[s[1]].out[s[2]]
           ELSE IF Sends(s[1], ready[s[1]])
                THEN [flit |-> NextFlit(s[1], ready[s[1]]), vc |-> 0]
           ELSE None]
    /\ DOMAIN hop' = Nodes /\ \A n \in Nodes : hop'[n] = routed[n].hop
    /\ open' = [c \in Channels |->
           IF c[2] = 0
           THEN IF Receives(c[1]) THEN OpenAfter(wire[<<c[1], 0>>].flit) ELSE open[c]
           ELSE IF InConnection(c[2], c[3]) \in DOMAIN hop'[c[1]]
                THEN OpenAfter(Head(router[c[1]].buf[c[2]][c[3]]))
                ELSE open[c]]

\* What Cycle makes of them, as it puts it.
Effects(ready, routed) ==
    LET sending == {n \in Nodes : Sends(n, ready[n])}
    IN /\ proc' = [n \in Nodes |-> IF n \in sending THEN PopFlit(ready[n]) ELSE ready[n]]
       /\ sent' = [n \in Nodes |-> sent[n] + Count(n \in sending)]
       /\ got' = [n \in Nodes |-> got[n] + Count(Receives(n))]
       /\ tails' = [n \in Nodes |->
              tails[n] + Count(Receives(n) /\ IsTail(wire[<<n, 0>>].flit))]
       /\ router' = [n \in Nodes |-> routed[n].r]
       /\ wire' = [r \in Relays |->
              LET s == Bound[r] IN
              IF s[2] # 0 THEN routed[s[1]].out[s[2]]
              ELSE IF s[1] \in sending THEN [flit |-> NextFlit(s[1], ready[s[1]]), vc |-> 0]
              ELSE None]
       /\ hop' = [n \in Nodes |-> routed[n].hop]
       /\ open' = [c \in Channels |->
              IF c[2] = 0
              THEN IF Receives(c[1]) THEN OpenAfter(wire[<<c[1], 0>>].flit) ELSE open[c]
              ELSE IF InConnection(c[2], c[3]) \in DOMAIN hop'[c[1]]
                   THEN OpenAfter(Head(router[c[1]].buf[c[2]][c[3]]))
                   ELSE open[c]]

LEMMA RelaysBound ==
  \A r \in Relays :
    /\ Bound[r] \in Relays /\ Bound[Bound[r]] = r /\ r = <<r[1], r[2]>> /\ r[1] \in Nodes
    /\ r \in LinkRelays => Bound[r] \in LinkRelays /\ Bound[r][1] = Adj[r[1]][r[2]]
    /\ r[2] = 0 \/ r[2] \in Ports(r[1])
    /\ r[2] = 0 => Bound[r] = <<r[1], LocalPort(r[1])>>
    /\ r[2] = LocalPort(r[1]) => Bound[r] = <<r[1], 0>>
    /\ r[2] # 0 /\ r[2] # LocalPort(r[1]) => r \in LinkRelays
<1> SUFFICES ASSUME NEW r \in Relays
             PROVE  /\ Bound[r] \in Relays /\ Bound[Bound[r]] = r /\ r = <<r[1], r[2]>> /\ r[1] \in Nodes
                    /\ r \in LinkRelays => Bound[r] \in LinkRelays /\ Bound[r][1] = Adj[r[1]][r[2]]
                    /\ r[2] = 0 \/ r[2] \in Ports(r[1])
                    /\ r[2] = 0 => Bound[r] = <<r[1], LocalPort(r[1])>>
                    /\ r[2] = LocalPort(r[1]) => Bound[r] = <<r[1], 0>>
                    /\ r[2] # 0 /\ r[2] # LocalPort(r[1]) => r \in LinkRelays
  OBVIOUS
<1>1. LinkRelays \subseteq DOMAIN LinkBindings
  BY NetworkAssumption
<1>2. /\ Bound[r] \in Relays /\ Bound[Bound[r]] = r
      /\ r \in LinkRelays => Bound[r] \in LinkRelays /\ Bound[r][1] = Adj[r[1]][r[2]]
  BY <1>1, BoundSymmetric
<1>3. CASE r \in LinkRelays
  <2>1. r[1] \in Nodes /\ r[2] \in DOMAIN Adj[r[1]] /\ r = <<r[1], r[2]>> /\ r[2] # 0 /\ r[2] # LocalPort(r[1])
    BY <1>3, NodesAndLinks
  <2>2. r[2] \in Ports(r[1])
    BY <2>1, Numbers
  <2> QED BY <1>2, <1>3, <2>1, <2>2
<1>4. CASE r \notin LinkRelays
  <2>1. PICK n \in Nodes : r = <<n, LocalPort(n)>> \/ r = <<n, 0>>
    BY <1>4 DEF Relays
  <2>2. LocalPort(n) # 0 /\ LocalPort(n) \in Ports(n)
    BY Numbers
  <2>3. r[2] = 0 => Bound[r] = <<r[1], LocalPort(r[1])>>
    BY DEF Bound
  <2>4. r[2] = LocalPort(r[1]) => Bound[r] = <<r[1], 0>>
    BY <2>1, <2>2 DEF Bound
  <2> QED BY <1>2, <1>4, <2>1, <2>2, <2>3, <2>4
<1> QED BY <1>3, <1>4

LEMMA CycleParts ==
  ASSUME Typed, Cycle
  PROVE  \E ready, routed, tabs : Parts(ready, routed, tabs)
<1> DEFINE Produced(fires) == [n \in Nodes |-> Produce(proc[n], n \in fires)]
           Drawers(fires)  == {n \in Nodes : NeedsDraw(Produced(fires)[n])}
           Drawn(fires) == [n \in Drawers(fires) |-> [dst : Traffic[n], len : Lengths]]
           Ready(fires, draws) ==
             [n \in Nodes |-> IF n \in Drawers(fires) THEN Draw(Produced(fires)[n], draws[n])
                                                      ELSE Produced(fires)[n]]
           R == [n \in Nodes |-> RouterUpdate(n, router[n], Signals(n))]
<1>1. \E fires : \E draws \in OneOfEach(Drawn(fires)), routed \in OneOfEach(R) :
         Effects(Ready(fires, draws), routed)
  BY Zenon DEF Cycle, Effects
<1>2. PICK fires : \E draws \in OneOfEach(Drawn(fires)), routed \in OneOfEach(R) :
         Effects(Ready(fires, draws), routed)
  BY <1>1
<1> DEFINE produced == Produced(fires)
           drawers == Drawers(fires)
           D == Drawn(fires)
<1>3. PICK draws \in OneOfEach(D), routed \in OneOfEach(R) : Effects(Ready(fires, draws), routed)
  BY <1>2
<1> DEFINE ready == Ready(fires, draws)
<1> HIDE DEF ready
<1>4. \A n \in drawers : draws[n] \in Packets
  <2>1. IsFiniteSet(DOMAIN D)
    BY WiringAssumption, FS_Subset
  <2>2. DOMAIN D = drawers /\ \A n \in drawers : D[n] = [dst : Traffic[n], len : Lengths]
    OBVIOUS
  <2> HIDE DEF D
  <2>3. \A n \in drawers : draws[n] \in [dst : Traffic[n], len : Lengths]
    BY <2>1, <2>2, OneOfEachPicks
  <2>4. \A n \in drawers : Traffic[n] \subseteq Nodes
    BY NetworkAssumption
  <2> HIDE DEF drawers
  <2> QED BY <2>3, <2>4 DEF Packets
<1>5. \A n \in Nodes : routed[n] \in RouterUpdate(n, router[n], Signals(n))
  <2>1. IsFiniteSet(DOMAIN R) /\ DOMAIN R = Nodes
        /\ \A n \in Nodes : R[n] = RouterUpdate(n, router[n], Signals(n))
    BY WiringAssumption
  <2> HIDE DEF R
  <2> QED BY <2>1, OneOfEachPicks
<1>6. ASSUME NEW n \in Nodes PROVE Readied(proc[n], ready[n])
  <2> DEFINE c == Produce(proc[n], n \in fires)
  <2>1. ProcessorOK(proc[n])
    BY DEF Typed
  <2>2. (n \in fires) \in BOOLEAN
    OBVIOUS
  <2>3. produced[n] = c /\ (n \in drawers <=> NeedsDraw(c))
    OBVIOUS
  <2>4. ready[n] = IF n \in drawers THEN Draw(c, draws[n]) ELSE c
    BY <2>3 DEF ready
  <2>5. CASE n \in drawers
    BY <1>4, <2>1, <2>2, <2>3, <2>4, <2>5, ProduceReadies
  <2>6. CASE n \notin drawers
    <3>1. \E d : d \in Packets
      <4>1. \E x : x \in Lengths
        BY NetworkAssumption
      <4>2. PICK x \in Lengths : TRUE
        BY <4>1
      <4>3. [dst |-> n, len |-> x] \in Packets
        BY DEF Packets
      <4> QED BY <4>3
    <3> QED BY <2>1, <2>2, <2>3, <2>4, <2>6, <3>1, ProduceReadies
  <2> QED BY <2>5, <2>6
<1>7. \A n \in Nodes : \E t : Updated(n, router[n], Signals(n), t, routed[n])
  <2> SUFFICES ASSUME NEW n \in Nodes PROVE \E t : Updated(n, router[n], Signals(n), t, routed[n])
    OBVIOUS
  <2>1. router[n] \in Routers(n)
    BY DEF Typed
  <2>2. Signals(n).arrived \in [Ports(n) -> MaybeWire]
    <3>1. \A p \in Ports(n) : <<n, p>> \in Relays
      BY Numbers DEF Relays, LinkRelays
    <3> QED BY <3>1 DEF Signals, Typed
  <2> QED BY <1>5, <2>1, <2>2, RouterUpdated
<1> DEFINE tabs == [n \in Nodes |-> CHOOSE t : Updated(n, router[n], Signals(n), t, routed[n])]
<1>8. \A n \in Nodes : Updated(n, router[n], Signals(n), tabs[n], routed[n])
  BY <1>7
<1> HIDE DEF tabs, drawers, produced, D, R
<1>9. Effects(ready, routed)
  BY <1>3 DEF ready
<1> DEFINE sending == {n \in Nodes : Sends(n, ready[n])}
<1>10. \A n \in Nodes : (n \in sending <=> Sends(n, ready[n]))
                       /\ Count(n \in sending) = Count(Sends(n, ready[n]))
  BY DEF Count
<1>11. /\ proc' = [n \in Nodes |-> IF n \in sending THEN PopFlit(ready[n]) ELSE ready[n]]
       /\ sent' = [n \in Nodes |-> sent[n] + Count(n \in sending)]
       /\ router' = [n \in Nodes |-> routed[n].r] /\ hop' = [n \in Nodes |-> routed[n].hop]
       /\ wire' = [r \in Relays |->
             LET s == Bound[r] IN
             IF s[2] # 0 THEN routed[s[1]].out[s[2]]
             ELSE IF s[1] \in sending THEN [flit |-> NextFlit(s[1], ready[s[1]]), vc |-> 0]
             ELSE None]
  BY <1>9 DEF Effects
<1> HIDE DEF sending
<1>12. \A r \in Relays : Bound[r][1] \in Nodes
  BY RelaysBound
<1>13. Parts(ready, routed, tabs)
  <2>1. ~reset /\ reset' = reset
    BY DEF Cycle
  <2>2. DOMAIN proc' = Nodes
        /\ \A n \in Nodes : proc'[n] = IF Sends(n, ready[n]) THEN PopFlit(ready[n]) ELSE ready[n]
    BY <1>10, <1>11
  <2>3. sent' = [n \in Nodes |-> sent[n] + Count(Sends(n, ready[n]))]
    BY <1>10, <1>11
  <2>4. /\ router' = [n \in Nodes |-> routed[n].r]
        /\ DOMAIN hop' = Nodes /\ \A n \in Nodes : hop'[n] = routed[n].hop
    BY <1>11
  <2>5. wire' = [r \in Relays |->
           LET s == Bound[r] IN
           IF s[2] # 0 THEN routed[s[1]].out[s[2]]
           ELSE IF Sends(s[1], ready[s[1]])
                THEN [flit |-> NextFlit(s[1], ready[s[1]]), vc |-> 0]
           ELSE None]
    BY <1>10, <1>11, <1>12
  <2>6. /\ got' = [n \in Nodes |-> got[n] + Count(Receives(n))]
        /\ tails' = [n \in Nodes |->
              tails[n] + Count(Receives(n) /\ IsTail(wire[<<n, 0>>].flit))]
        /\ open' = [c \in Channels |->
              IF c[2] = 0
              THEN IF Receives(c[1]) THEN OpenAfter(wire[<<c[1], 0>>].flit) ELSE open[c]
              ELSE IF InConnection(c[2], c[3]) \in DOMAIN hop'[c[1]]
                   THEN OpenAfter(Head(router[c[1]].buf[c[2]][c[3]]))
                   ELSE open[c]]
    BY <1>9 DEF Effects
  <2> QED BY <1>6, <1>8, <2>1, <2>2, <2>3, <2>4, <2>5, <2>6 DEF Parts
<1> QED BY <1>13
-----------------------------------------------------------------------------
LEMMA ChannelParts ==
  \A c \in Channels :
    /\ c = <<c[1], c[2], c[3]>> /\ c[1] \in Nodes /\ <<c[1], c[2]>> \in Relays
    /\ c[2] = 0 => c[3] = 0 /\ c \in DeliveryChannels
    /\ c[2] # 0 => /\ c[2] \in Ports(c[1]) /\ c[3] \in VCs /\ c \in RouterChannels
                   /\ InConnection(c[2], c[3]) \in Conns(c[1])
<1> SUFFICES ASSUME NEW c \in Channels
             PROVE  /\ c = <<c[1], c[2], c[3]>> /\ c[1] \in Nodes /\ <<c[1], c[2]>> \in Relays
                    /\ c[2] = 0 => c[3] = 0 /\ c \in DeliveryChannels
                    /\ c[2] # 0 => /\ c[2] \in Ports(c[1]) /\ c[3] \in VCs /\ c \in RouterChannels
                                   /\ InConnection(c[2], c[3]) \in Conns(c[1])
  OBVIOUS
<1>1. CASE c \in RouterChannels
  <2>1. PICK n \in Nodes : \E p \in Ports(n), v \in VCs : c = <<n, p, v>>
    BY <1>1 DEF RouterChannels
  <2>3. PICK p \in Ports(n), v \in VCs : c = <<n, p, v>>
    BY <2>1
  <2>2. p # 0 /\ <<n, p>> \in Relays
    BY <2>3, Numbers DEF Relays, LinkRelays
  <2> QED BY <1>1, <2>3, <2>2 DEF InConnection, Conns
<1>2. CASE c \in DeliveryChannels
  <2>1. PICK n \in Nodes : c = <<n, 0, 0>>
    BY <1>2 DEF DeliveryChannels
  <2> QED BY <1>2, <2>1 DEF Relays
<1> QED BY <1>1, <1>2 DEF Channels

\* The channel of connection x of router n.
LEMMA ConnectionChannel ==
  ASSUME NEW n \in Nodes, NEW x \in Conns(n)
  PROVE  /\ <<n, x.port, x.vc>> \in RouterChannels /\ <<n, x.port, x.vc>> \in Channels
         /\ InConnection(x.port, x.vc) = x /\ x.port # 0
         /\ <<n, x.port>> \in Relays
<1>1. x.port \in Ports(n) /\ x.vc \in VCs /\ x = [port |-> x.port, vc |-> x.vc]
  BY DEF Conns
<1>2. x.port # 0 /\ <<n, x.port>> \in Relays
  BY <1>1, Numbers DEF Relays, LinkRelays
<1> QED BY <1>1, <1>2 DEF RouterChannels, Channels, InConnection

\* What is at the front of a connection is a flit.
LEMMA FrontFlits ==
  ASSUME NEW n \in Nodes, NEW r \in Routers(n), NEW c \in Conns(n), Waits(r, c)
  PROVE  r.buf[c.port][c.vc] \in Seq(WFlits) /\ Foremost(r, c) \in WFlits
<1>1. r.buf[c.port][c.vc] \in Seq(WFlits)
  BY DEF Routers, Buffers, Conns
<1> QED BY <1>1 DEF Waits, Foremost

\* What is on a wire after a cycle.
LEMMA NextWire ==
  ASSUME Typed, NEW ready, NEW routed, NEW tabs, Parts(ready, routed, tabs), NEW r \in Relays
  PROVE  /\ wire'[r] \in MaybeWire
         /\ r[2] = LocalPort(r[1]) =>
               wire'[r] = IF Sends(r[1], ready[r[1]])
                          THEN [flit |-> NextFlit(r[1], ready[r[1]]), vc |-> 0] ELSE None
         /\ r[2] # LocalPort(r[1]) =>
               /\ Bound[r][1] \in Nodes /\ Bound[r][2] \in Ports(Bound[r][1])
               /\ wire'[r] = routed[Bound[r][1]].out[Bound[r][2]]
         /\ r[2] = 0 /\ wire'[r] # None => wire'[r].vc = 0
<1> DEFINE s == Bound[r]
<1>1. s \in Relays /\ s[1] \in Nodes /\ r[1] \in Nodes /\ (s[2] = 0 \/ s[2] \in Ports(s[1])) /\ Bound[s] = r
      /\ r = <<r[1], r[2]>>
  BY RelaysBound
<1>2. wire'[r] = IF s[2] # 0 THEN routed[s[1]].out[s[2]]
                 ELSE IF Sends(s[1], ready[s[1]])
                      THEN [flit |-> NextFlit(s[1], ready[s[1]]), vc |-> 0]
                 ELSE None
  BY DEF Parts
<1>3. s[2] = 0 <=> r[2] = LocalPort(r[1])
  <2>1. s[2] = 0 => r = <<s[1], LocalPort(s[1])>>
    BY <1>1, RelaysBound
  <2>2. r[2] = LocalPort(r[1]) => s = <<r[1], 0>>
    BY RelaysBound
  <2> QED BY <2>1, <2>2
<1>4. CASE s[2] = 0
  <2>1. s[1] = r[1]
    BY <1>3, <1>4, RelaysBound
  <2>2. ASSUME Sends(r[1], ready[r[1]])
        PROVE  [flit |-> NextFlit(r[1], ready[r[1]]), vc |-> 0] \in MaybeWire
    <3>1. ProcessorOK(ready[r[1]]) /\ ready[r[1]].packet # None
      BY <1>1, <2>2 DEF Parts, Readied, Sends
    <3>2. NextFlit(r[1], ready[r[1]]) \in WFlits
      BY <1>1, <3>1, PopFlitKeeps
    <3> QED BY <3>2, Numbers DEF MaybeWire, Wires
  <2>3. None \in MaybeWire
    BY DEF MaybeWire
  <2>4. LocalPort(r[1]) # 0
    BY <1>1, Numbers
  <2> QED BY <1>2, <1>3, <1>4, <2>1, <2>2, <2>3, <2>4
<1>5. CASE s[2] # 0
  <2>1. Updated(s[1], router[s[1]], Signals(s[1]), tabs[s[1]], routed[s[1]])
    BY <1>1 DEF Parts
  <2>2. s[2] \in Ports(s[1]) /\ routed[s[1]].out[s[2]] \in MaybeWire
    BY <1>1, <1>5, <2>1, Zenon DEF Updated, Forwards
  <2>3. ASSUME r[2] = 0, wire'[r] # None PROVE wire'[r].vc = 0
    <3>1. s[2] = LocalPort(s[1])
      BY <1>1, <2>3, RelaysBound
    <3>5. \A p \in Ports(s[1]) : routed[s[1]].out[p] # None =>
             \E c \in DOMAIN routed[s[1]].hop : tabs[s[1]][c].port = p
      BY <2>1, Zenon DEF Updated
    <3>6. routed[s[1]].out[s[2]] # None
      BY <1>2, <1>5, <2>3
    <3>2. PICK c \in DOMAIN routed[s[1]].hop : tabs[s[1]][c].port = s[2]
      BY <2>2, <3>5, <3>6, Zenon
    <3>3. /\ wire'[r] = Sent(router[s[1]], c, tabs[s[1]][c])
          /\ c \in DOMAIN tabs[s[1]] /\ tabs[s[1]] \in Tables(s[1])
      <4>1. routed[s[1]].out[tabs[s[1]][c].port] = Sent(router[s[1]], c, tabs[s[1]][c])
        BY <2>1, <3>2, Zenon DEF Updated
      <4>2. c \in DOMAIN tabs[s[1]] /\ tabs[s[1]] \in Tables(s[1])
        BY <2>1, <3>2, Zenon DEF Updated
      <4> QED BY <1>2, <1>5, <3>2, <4>1, <4>2
    <3>4. tabs[s[1]][c] \in OutConns(s[1])
      BY <3>3 DEF Tables, Hops
    <3> QED BY <3>1, <3>2, <3>3, <3>4 DEF Sent, OutConns
  <2> QED BY <1>1, <1>2, <1>3, <1>5, <2>2, <2>3
<1> QED BY <1>4, <1>5

LEMMA CycleTyped ==
  ASSUME Typed, Cycle
  PROVE  Typed'
<1>1. PICK ready, routed, tabs : Parts(ready, routed, tabs)
  BY CycleParts
<1>2. \A n \in Nodes : Updated(n, router[n], Signals(n), tabs[n], routed[n])
  BY <1>1 DEF Parts
<1>3. reset' \in BOOLEAN /\ (reset' => Fresh')
  BY <1>1 DEF Parts, Typed
<1>4. router' = [n \in Nodes |-> router'[n]] /\ \A n \in Nodes : router'[n] \in Routers(n)
  BY <1>1, <1>2 DEF Parts, Updated, Forwards
<1>5. DOMAIN proc' = Nodes /\ \A n \in Nodes : ProcessorOK(proc'[n])
  <2>1. ASSUME NEW n \in Nodes PROVE ProcessorOK(proc'[n])
    <3>1. Readied(proc[n], ready[n]) /\ ProcessorOK(ready[n])
      BY <1>1 DEF Parts, Readied
    <3>2. proc'[n] = IF Sends(n, ready[n]) THEN PopFlit(ready[n]) ELSE ready[n]
      BY <1>1 DEF Parts
    <3>3. Sends(n, ready[n]) => ready[n].packet # None
      BY <3>1 DEF Readied, Sends
    <3> QED BY <3>1, <3>2, <3>3, PopFlitKeeps
  <2> QED BY <1>1, <2>1 DEF Parts
<1>6. wire' \in [Relays -> MaybeWire]
  <2>1. \A r \in Relays : wire'[r] \in MaybeWire
    BY <1>1, NextWire
  <2>2. wire' = [r \in Relays |-> wire'[r]]
    BY <1>1 DEF Parts
  <2> QED BY <2>1, <2>2
<1>7. ASSUME NEW n \in Nodes
      PROVE  /\ wire'[<<n, 0>>] # None => wire'[<<n, 0>>].vc = 0
             /\ wire'[LocalRelay(n)] # None => wire'[LocalRelay(n)].vc = 0
  <2>1. <<n, 0>> \in Relays /\ LocalRelay(n) \in Relays
    BY DEF Relays, LocalRelay
  <2>2. wire'[<<n, 0>>] # None => wire'[<<n, 0>>].vc = 0
    BY <1>1, <2>1, NextWire
  <2>3. LocalRelay(n)[2] = LocalPort(LocalRelay(n)[1])
    BY DEF LocalRelay
  <2>4. \/ wire'[LocalRelay(n)] = None
        \/ \E f : wire'[LocalRelay(n)] = [flit |-> f, vc |-> 0]
    BY <1>1, <2>1, <2>3, NextWire
  <2>5. wire'[LocalRelay(n)] # None => wire'[LocalRelay(n)].vc = 0
    <3> DEFINE w == wire'[LocalRelay(n)]
    <3> HIDE DEF w
    <3>1. w = None \/ \E f : w = [flit |-> f, vc |-> 0]
      BY <2>4 DEF w
    <3>2. w # None => w.vc = 0
      BY <3>1
    <3> QED BY <3>2 DEF w
  <2> QED BY <2>2, <2>5
<1>8. sent' \in [Nodes -> Nat] /\ got' \in [Nodes -> Nat] /\ tails' \in [Nodes -> Nat]
  <2>1. \A b : Count(b) \in Nat
    BY DEF Count
  <2>2. sent \in [Nodes -> Nat] /\ got \in [Nodes -> Nat] /\ tails \in [Nodes -> Nat]
    BY DEF Typed
  <2>3. \A n \in Nodes : /\ sent[n] + Count(Sends(n, ready[n])) \in Nat
                         /\ got[n] + Count(Receives(n)) \in Nat
                         /\ tails[n] + Count(Receives(n) /\ IsTail(wire[<<n, 0>>].flit)) \in Nat
    BY <2>1, <2>2
  <2> QED BY <1>1, <2>3 DEF Parts
<1>9. DOMAIN hop' = Nodes /\ \A n \in Nodes : hop'[n] \in Hops(n)
  BY <1>1, <1>2 DEF Parts, Updated, Forwards
<1>10. open' \in [Channels -> WFlits \cup {None}]
  <2>1. ASSUME NEW c \in Channels PROVE open'[c] \in WFlits \cup {None}
    <3>1. open'[c] = IF c[2] = 0
                     THEN IF Receives(c[1]) THEN OpenAfter(wire[<<c[1], 0>>].flit) ELSE open[c]
                     ELSE IF InConnection(c[2], c[3]) \in DOMAIN hop'[c[1]]
                          THEN OpenAfter(Head(router[c[1]].buf[c[2]][c[3]]))
                          ELSE open[c]
      BY <1>1 DEF Parts
    <3>2. \A f \in WFlits : OpenAfter(f) \in WFlits \cup {None}
      BY DEF OpenAfter
    <3>3. open[c] \in WFlits \cup {None}
      BY DEF Typed
    <3>4. CASE c[2] = 0
      <4>1. Receives(c[1]) => wire[<<c[1], 0>>].flit \in WFlits
        BY <3>4, ChannelParts DEF Receives, Typed, MaybeWire, Wires
      <4> QED BY <3>1, <3>2, <3>3, <3>4, <4>1
    <3>5. CASE c[2] # 0
      <4> DEFINE x == InConnection(c[2], c[3])
                 n == c[1]
      <4>1. n \in Nodes /\ x \in Conns(n) /\ x.port = c[2] /\ x.vc = c[3]
        BY <3>5, ChannelParts DEF InConnection
      <4>2. x \in DOMAIN hop'[n] => Waits(router[n], x)
        BY <1>1, <1>2, <4>1, SMTT(30) DEF Parts, Updated
      <4>3. x \in DOMAIN hop'[n] => Head(router[n].buf[c[2]][c[3]]) \in WFlits
        <5>1. router[n] \in Routers(n)
          BY <4>1 DEF Typed
        <5> HIDE DEF x
        <5> QED BY <4>1, <4>2, <5>1, FrontFlits DEF Foremost
      <4> QED BY <3>1, <3>2, <3>3, <3>5, <4>3
    <3> QED BY <3>4, <3>5
  <2>2. open' = [c \in Channels |-> open'[c]]
    BY <1>1 DEF Parts
  <2> QED BY <2>1, <2>2
<1> QED BY <1>3, <1>4, <1>5, <1>6, <1>7, <1>8, <1>9, <1>10 DEF Typed

LEMMA ResetTyped ==
  ASSUME Typed, ResetCycle
  PROVE  Typed' /\ wire' = wire /\ router' = router
<1>1. wire = [r \in Relays |-> None] /\ wire' = wire
  BY DEF Typed, Fresh, ResetCycle
<1>2. router' = router
  <2>1. \A n \in Nodes : RouterReset(n, router[n]) = router[n]
    <3>1. ASSUME NEW n \in Nodes PROVE RouterReset(n, router[n]) = router[n]
      <4>1. router[n] \in Routers(n) /\ router[n].buf = [p \in Ports(n) |-> [v \in VCs |-> <<>>]]
        BY DEF Typed, Fresh, ResetCycle
      <4> QED BY <4>1 DEF RouterReset, Routers
    <3> QED BY <3>1
  <2>2. router = [n \in Nodes |-> router[n]]
    BY DEF Typed
  <2> QED BY <2>1, <2>2 DEF ResetCycle
<1>3. Fresh'
  BY <1>1, <1>2 DEF Typed, Fresh, ResetCycle
<1>4. reset' \in BOOLEAN /\ proc' = proc /\ hop' = hop /\ open' = open
      /\ sent' = [n \in Nodes |-> 0] /\ got' = sent' /\ tails' = sent'
  BY DEF ResetCycle
<1> QED BY <1>1, <1>2, <1>3, <1>4 DEF Typed

LEMMA InitTyped == Init => Typed
<1> SUFFICES ASSUME Init PROVE Typed
  OBVIOUS
<1>1. \A n \in Nodes : NewRouter(n) \in Routers(n)
  <2> SUFFICES ASSUME NEW n \in Nodes PROVE NewRouter(n) \in Routers(n)
    OBVIOUS
  <2>1. [p \in Ports(n) |-> [v \in VCs |-> <<>>]] \in Buffers(n)
    BY DEF Buffers
  <2>2. <<>> \in Tables(n)
    BY DEF Tables, Hops
  <2> QED BY <2>1, <2>2, Numbers DEF NewRouter, Routers
<1>2. ProcessorOK(Idle)
  BY DEF ProcessorOK, Processors, Idle
<1>3. \A n \in Nodes : <<>> \in Hops(n)
  BY DEF Hops
<1>4. Fresh
  BY DEF Init, Fresh, NewRouter
<1>5. \A n \in Nodes : <<n, 0>> \in Relays /\ LocalRelay(n) \in Relays
  BY DEF Relays, LocalRelay
<1> QED BY <1>1, <1>2, <1>3, <1>4, <1>5 DEF Init, Typed, MaybeWire

LEMMA NextTyped == Typed /\ [Next]_netvars => Typed'
<1> SUFFICES ASSUME Typed, [Next]_netvars PROVE Typed'
  OBVIOUS
<1>1. CASE ResetCycle
  BY <1>1, ResetTyped
<1>2. CASE Cycle
  BY <1>2, CycleTyped
<1>3. CASE UNCHANGED netvars
  BY <1>3 DEF netvars, Typed, Fresh
<1> QED BY <1>1, <1>2, <1>3 DEF Next
-----------------------------------------------------------------------------
\* The network implements wormhole switching.
\* Wormhole switching with what is proved about it, for the channels of the network.
SP == INSTANCE WormholeProofs WITH
    Out <- WOut, Injects <- WInjects, Flits <- WFlits,
    q <- WQueue, table <- WTable, hop <- WHop, injected <- WInjected,
    left <- open, entered <- WEntered

-----------------------------------------------------------------------------
LEMMA AppendPair == \A a, b, v : Append(<<a, b>>, v) = <<a, b, v>>
<1> SUFFICES ASSUME NEW a, NEW b, NEW v PROVE Append(<<a, b>>, v) = <<a, b, v>>
  OBVIOUS
<1> DEFINE S == {a, b, v}
           s == Append(<<a, b>>, v)
           t == <<a, b, v>>
<1>1. <<a, b>> \in Seq(S) /\ v \in S /\ Len(<<a, b>>) = 2 /\ <<a, b>>[1] = a /\ <<a, b>>[2] = b
  OBVIOUS
<1>2. s \in Seq(S) /\ Len(s) = 3 /\ s[1] = a /\ s[2] = b /\ s[3] = v
  <2> DEFINE u == <<a, b>>
  <2> HIDE DEF S, u
  <2> QED BY <1>1, AppendProperties DEF u
<1>3. t \in Seq(S) /\ Len(t) = 3 /\ t[1] = a /\ t[2] = b /\ t[3] = v
  OBVIOUS
<1> HIDE DEF s, t, S
<1>4. \A i \in 1 .. 3 : s[i] = t[i]
  BY <1>2, <1>3
<1>5. s = t
  BY <1>2, <1>3, <1>4, SeqEqual
<1> QED BY <1>5 DEF s, t

\* The channel a connection leads to.
LEMMA DownstreamParts ==
  ASSUME NEW n \in Nodes, NEW x \in OutConns(n)
  PROVE  /\ <<n, x.port>> \in Relays
         /\ Downstream(n, x) \in Channels /\ Downstream(n, x) \notin WInjects
         /\ Downstream(n, x)[3] = x.vc
         /\ <<Downstream(n, x)[1], Downstream(n, x)[2]>> = Bound[<<n, x.port>>]
         /\ Bound[<<Downstream(n, x)[1], Downstream(n, x)[2]>>] = <<n, x.port>>
         /\ \A c \in Channels : c[1] = n /\ c[2] # 0 => Downstream(n, x) \in WOut[c]
<1> DEFINE r == Bound[<<n, x.port>>]
           d == Downstream(n, x)
<1>1. x \in Conns(n) /\ x.port \in Ports(n) /\ x.vc \in VCs /\ x = [port |-> x.port, vc |-> x.vc]
  BY DEF OutConns, Conns
<1>2. <<n, x.port>> \in Relays
  BY <1>1, ConnectionChannel
<1>3. r \in Relays /\ Bound[r] = <<n, x.port>> /\ r = <<r[1], r[2]>> /\ r[1] \in Nodes
  BY <1>2, RelaysBound
<1>4. d = <<r[1], r[2], x.vc>>
  <2> HIDE DEF r
  <2>1. d = Append(r, x.vc)
    BY DEF Downstream, r
  <2> QED BY <1>3, <2>1, AppendPair
<1> HIDE DEF d
<1>5. CASE x.port = LocalPort(n)
  <2>1. r = <<n, 0>> /\ x.vc = 0
    BY <1>2, <1>5, RelaysBound DEF OutConns
  <2>2. d = <<n, 0, 0>>
    BY <1>4, <2>1
  <2>3. d \in Channels
    BY <2>2 DEF Channels, DeliveryChannels
  <2>4. d \notin WInjects
    BY <2>2, Numbers DEF WInjects
  <2>5. \A c \in Channels : c[1] = n /\ c[2] # 0 => d \in WOut[c]
    BY <2>2 DEF WOut
  <2> QED BY <1>2, <1>3, <1>4, <2>1, <2>2, <2>3, <2>4, <2>5 DEF d
<1>6. CASE x.port # LocalPort(n)
  <2>1. <<n, x.port>> \in LinkRelays
    <3>1. x.port # 0
      BY <1>1, Numbers
    <3> QED BY <1>2, <1>6, <3>1, RelaysBound
  <2>2. r \in LinkRelays
    BY <1>2, <2>1, RelaysBound
  <2>3. r[2] \in DOMAIN Adj[r[1]] /\ r[2] \in Ports(r[1]) /\ r[2] # LocalPort(r[1])
    BY <1>3, <2>2, NodesAndLinks, Numbers
  <2> HIDE DEF r
  <2>4. d \in Channels
    BY <1>1, <1>3, <1>4, <2>3 DEF Channels, RouterChannels
  <2>5. d \notin WInjects
    <3> SUFFICES ASSUME NEW m \in Nodes, NEW v \in VCs, d = <<m, LocalPort(m), v>> PROVE FALSE
      BY DEF WInjects
    <3> QED BY <1>4, <2>3
  <2>6. ASSUME NEW c \in Channels, c[1] = n, c[2] # 0 PROVE d \in WOut[c]
    <3>1. x.port \in 1 .. Len(Adj[n])
      BY <1>1, <1>6, Numbers, NodesAndLinks
    <3>2. d = Downstream(n, [port |-> x.port, vc |-> x.vc])
      BY <1>1 DEF d
    <3> QED BY <1>1, <2>6, <3>1, <3>2 DEF WOut
  <2> QED BY <1>2, <1>3, <1>4, <2>4, <2>5, <2>6 DEF d, r
<1> QED BY <1>5, <1>6

\* Different connections lead to different channels.
LEMMA DownstreamInjective ==
  ASSUME NEW n \in Nodes, NEW x \in OutConns(n), NEW m \in Nodes, NEW y \in OutConns(m),
         Downstream(n, x) = Downstream(m, y)
  PROVE  n = m /\ x = y
<1>1. /\ Downstream(n, x)[3] = x.vc /\ Downstream(m, y)[3] = y.vc
      /\ Bound[<<Downstream(n, x)[1], Downstream(n, x)[2]>>] = <<n, x.port>>
      /\ Bound[<<Downstream(m, y)[1], Downstream(m, y)[2]>>] = <<m, y.port>>
  BY DownstreamParts
<1>2. <<n, x.port>> = <<m, y.port>> /\ x.vc = y.vc
  BY <1>1
<1>3. x = [port |-> x.port, vc |-> x.vc] /\ y = [port |-> y.port, vc |-> y.vc]
  BY DEF OutConns, Conns
<1> QED BY <1>2, <1>3

\* A channel is something.
LEMMA ChannelsAreNot == None \notin Channels
<1> SUFFICES ASSUME NEW c \in Channels PROVE c # None
  OBVIOUS
<1>1. c = <<c[1], c[2], c[3]>> /\ c[1] \in Nat /\ c[2] \in Nat /\ c[3] \in Nat
  <2>1. c = <<c[1], c[2], c[3]>> /\ c[1] \in Nodes
        /\ \/ c[2] = 0 /\ c[3] = 0
           \/ c[2] \in Ports(c[1]) /\ c[3] \in VCs
    <3>1. c[2] # 0 => c[2] \in Ports(c[1]) /\ c[3] \in VCs
      BY ChannelParts
    <3>2. c[2] = 0 => c[3] = 0
      BY ChannelParts
    <3>3. c = <<c[1], c[2], c[3]>> /\ c[1] \in Nodes
      BY ChannelParts
    <3> QED BY <3>1, <3>2, <3>3
  <2>2. \A n \in Nodes : n \in Nat /\ Ports(n) \subseteq Nat
    BY WiringAssumption, NodesAndLinks, Numbers
  <2>3. c[1] \in Nat /\ c[2] \in Nat /\ c[3] \in Nat
    BY <2>1, <2>2, Numbers
  <2> QED BY <2>1, <2>3
<1>2. c \in Seq(Nat)
  <2>1. \A i, j, k \in Nat : <<i, j, k>> \in Seq(Nat)
    OBVIOUS
  <2> QED BY <1>1, <2>1
<1> QED BY <1>2, NetworkAssumption

LEMMA WormholeAssumed == SP!WormholeAssumption
<1>1. ASSUME NEW c \in WInjects PROVE c \in Channels
  <2>1. PICK n \in Nodes, v \in VCs : c = <<n, LocalPort(n), v>>
    BY DEF WInjects
  <2> QED BY <2>1, Numbers DEF Channels, RouterChannels
<1>2. ASSUME NEW c \in Channels PROVE WOut[c] \subseteq Channels \ WInjects
  <2>1. CASE c[2] = 0
    BY <2>1 DEF WOut
  <2>2. CASE c[2] # 0
    <3> DEFINE n == c[1]
    <3>1. n \in Nodes
      BY ChannelParts
    <3>2. ASSUME NEW p \in 1 .. Len(Adj[n]), NEW v \in VCs
          PROVE  Downstream(n, [port |-> p, vc |-> v]) \in Channels \ WInjects
      <4>1. [port |-> p, vc |-> v] \in OutConns(n)
        BY <3>1, Numbers, NodesAndLinks DEF OutConns, Conns
      <4> QED BY <3>1, <4>1, DownstreamParts
    <3>3. <<n, 0, 0>> \in Channels \ WInjects
      BY <3>1, Numbers DEF Channels, DeliveryChannels, WInjects
    <3> DEFINE D(p, v) == Downstream(n, [port |-> p, vc |-> v])
               A == 1 .. Len(Adj[n])
               links == {D(p, v) : p \in A, v \in VCs}
    <3>4. WOut[c] = links \cup {<<n, 0, 0>>}
      BY <2>2 DEF WOut
    <3>5. links \subseteq Channels \ WInjects
      <4>1. \A p \in A, v \in VCs : D(p, v) \in Channels \ WInjects
        BY <3>2
      <4> HIDE DEF A, D
      <4> QED BY <4>1
    <3> HIDE DEF n, links
    <3> QED BY <3>3, <3>4, <3>5
  <2> QED BY <2>1, <2>2
<1>3. WOut \in [Channels -> SUBSET (Channels \ WInjects)]
  <2>1. WOut = [c \in Channels |-> WOut[c]]
    BY DEF WOut
  <2> QED BY <1>2, <2>1
<1>4. \A f \in WFlits : f.seq \in Nat /\ f.len \in Nat \ {0}
  BY NetworkAssumption DEF WFlits
<1> QED BY <1>1, <1>3, <1>4, Numbers, ChannelsAreNot, NetworkAssumption DEF SP!WormholeAssumption
-----------------------------------------------------------------------------
\* Where table t of router n leads connection x.
View(n, t, x) == IF x \in DOMAIN t THEN Downstream(n, t[x]) ELSE None

\* The connection that reads channel c.
Con(c) == InConnection(c[2], c[3])

LEMMA ViewParts ==
  ASSUME NEW c \in Channels, NEW t \in Hops(c[1])
  PROVE  /\ Con(c) \notin DOMAIN t => View(c[1], t, Con(c)) = None
         /\ Con(c) \in DOMAIN t =>
               /\ View(c[1], t, Con(c)) = Downstream(c[1], t[Con(c)])
               /\ View(c[1], t, Con(c)) \in Channels /\ View(c[1], t, Con(c)) # None
               /\ View(c[1], t, Con(c)) \in WOut[c]
               /\ c[2] # 0 /\ Con(c) \in Conns(c[1]) /\ t[Con(c)] \in OutConns(c[1])
<1> DEFINE x == Con(c)
           n == c[1]
<1>1. x \notin DOMAIN t => View(n, t, x) = None
  BY DEF View
<1>2. ASSUME x \in DOMAIN t
      PROVE  /\ View(n, t, x) = Downstream(n, t[x])
             /\ View(n, t, x) \in Channels /\ View(n, t, x) # None
             /\ View(n, t, x) \in WOut[c]
             /\ c[2] # 0 /\ x \in Conns(n) /\ t[x] \in OutConns(n)
  <2>1. n \in Nodes
    BY ChannelParts
  <2>2. x \in Conns(n) /\ t[x] \in OutConns(n)
    BY <1>2 DEF Hops
  <2>3. c[2] # 0
    BY <2>1, <2>2, Numbers DEF Con, InConnection, Conns
  <2>4. View(n, t, x) = Downstream(n, t[x])
    BY <1>2 DEF View
  <2>5. Downstream(n, t[x]) \in Channels /\ Downstream(n, t[x]) \in WOut[c]
    BY <2>1, <2>2, <2>3, DownstreamParts
  <2> QED BY <2>2, <2>3, <2>4, <2>5, ChannelsAreNot
<1> QED BY <1>1, <1>2

\* Two views of tables that reserve no output twice are the same only where the
\* channels are.
LEMMA ViewsExclusive ==
  ASSUME NEW c \in Channels, NEW t \in Tables(c[1]), NEW d \in Channels, NEW u \in Tables(d[1]),
         c[1] = d[1] => t = u,
         View(c[1], t, Con(c)) # None, View(c[1], t, Con(c)) = View(d[1], u, Con(d))
  PROVE  c = d
<1>1. t \in Hops(c[1]) /\ u \in Hops(d[1]) /\ c[1] \in Nodes /\ d[1] \in Nodes
  BY ChannelParts DEF Tables
<1>2. Con(c) \in DOMAIN t /\ Con(d) \in DOMAIN u
  BY <1>1, ViewParts
<1>3. /\ Downstream(c[1], t[Con(c)]) = Downstream(d[1], u[Con(d)])
      /\ t[Con(c)] \in OutConns(c[1]) /\ u[Con(d)] \in OutConns(d[1])
  BY <1>1, <1>2, ViewParts
<1>4. c[1] = d[1] /\ t[Con(c)] = u[Con(d)]
  BY <1>1, <1>3, DownstreamInjective
<1>5. Con(c) = Con(d)
  BY <1>2, <1>4 DEF Tables
<1>6. c[2] = d[2] /\ c[3] = d[3]
  BY <1>5 DEF Con, InConnection
<1> QED BY <1>4, <1>6, ChannelParts

LEMMA NowViews ==
  ASSUME NEW c \in Channels
  PROVE  /\ WTable[c] = View(c[1], router[c[1]].table, Con(c))
         /\ WHop[c] = View(c[1], hop[c[1]], Con(c))
  BY DEF WTable, WHop, View, Con

LEMMA NextViews ==
  ASSUME NEW ready, NEW routed, NEW tabs, Parts(ready, routed, tabs), NEW c \in Channels
  PROVE  /\ WTable'[c] = View(c[1], routed[c[1]].r.table, Con(c))
         /\ WHop'[c] = View(c[1], routed[c[1]].hop, Con(c))
<1>1. c[1] \in Nodes
  BY ChannelParts
<1>2. router'[c[1]] = routed[c[1]].r /\ hop'[c[1]] = routed[c[1]].hop
  BY <1>1 DEF Parts
<1>3. /\ WTable' = [e \in Channels |-> IF InConnection(e[2], e[3]) \in DOMAIN router'[e[1]].table
                    THEN Downstream(e[1], router'[e[1]].table[InConnection(e[2], e[3])]) ELSE None]
      /\ WHop' = [e \in Channels |-> IF InConnection(e[2], e[3]) \in DOMAIN hop'[e[1]]
                    THEN Downstream(e[1], hop'[e[1]][InConnection(e[2], e[3])]) ELSE None]
  BY DEF WTable, WHop
<1> QED BY <1>2, <1>3 DEF View, Con

\* What Updated says of the tables of a router.
LEMMA UpdatedTables ==
  ASSUME NEW n \in Nodes, NEW r, NEW sig, NEW t, NEW o, Updated(n, r, sig, t, o)
  PROVE  /\ t \in Tables(n) /\ t \in Hops(n) /\ o.hop \in Hops(n)
         /\ o.r.table \in Tables(n) /\ o.r.table \in Hops(n)
         /\ DOMAIN o.hop \subseteq DOMAIN t /\ (\A x \in DOMAIN o.hop : o.hop[x] = t[x])
         /\ DOMAIN o.r.table = {x \in DOMAIN t : x \in DOMAIN o.hop => ~IsTail(Foremost(r, x))}
         /\ \A x \in DOMAIN o.r.table : o.r.table[x] = t[x]
  BY DEF Updated, Forwards, Routers, Tables

LEMMA HoppingViews ==
  ASSUME NEW ready, NEW routed, NEW tabs, Parts(ready, routed, tabs), NEW c \in Channels
  PROVE  /\ WHop'[c] # None => Con(c) \in DOMAIN routed[c[1]].hop /\ Con(c) \in DOMAIN tabs[c[1]]
                               /\ WHop'[c] = View(c[1], tabs[c[1]], Con(c)) /\ c[2] # 0
                               /\ Con(c) \in Conns(c[1]) /\ WHop'[c] \in Channels
                               /\ tabs[c[1]][Con(c)] \in OutConns(c[1])
                               /\ WHop'[c] = Downstream(c[1], tabs[c[1]][Con(c)])
         /\ WHop'[c] = None => Con(c) \notin DOMAIN routed[c[1]].hop
<1> DEFINE n == c[1]
           x == Con(c)
           h == routed[n].hop
           t == tabs[n]
<1>1. n \in Nodes /\ Updated(n, router[n], Signals(n), t, routed[n])
  BY ChannelParts DEF Parts
<1>2. t \in Hops(n) /\ h \in Hops(n) /\ DOMAIN h \subseteq DOMAIN t /\ \A y \in DOMAIN h : h[y] = t[y]
  BY <1>1, UpdatedTables
<1>3. WHop'[c] = View(n, h, x)
  BY NextViews
<1> HIDE DEF x, h, t
<1>4. CASE x \in DOMAIN h
  <2>1. View(n, h, x) = View(n, t, x) /\ x \in DOMAIN t
    BY <1>2, <1>4 DEF View
  <2>2. View(n, t, x) # None /\ View(n, t, x) \in Channels /\ c[2] # 0 /\ x \in Conns(n)
        /\ t[x] \in OutConns(n) /\ View(n, t, x) = Downstream(n, t[x])
    BY <1>2, <2>1, ViewParts DEF x
  <2> QED BY <1>3, <1>4, <2>1, <2>2 DEF x, h, t
<1>5. CASE x \notin DOMAIN h
  <2>1. WHop'[c] = None
    BY <1>3, <1>5 DEF View
  <2> QED BY <1>5, <2>1 DEF x, h
<1> QED BY <1>4, <1>5

LEMMA GrantedView ==
  ASSUME NEW ready, NEW routed, NEW tabs, Parts(ready, routed, tabs), NEW c \in Channels
  PROVE  SP!Granted(c) = View(c[1], tabs[c[1]], Con(c))
<1> DEFINE n == c[1]
           x == Con(c)
           o == routed[n]
           t == tabs[n]
<1>1. n \in Nodes /\ Updated(n, router[n], Signals(n), t, o)
  BY ChannelParts DEF Parts
<1>2. SP!Granted(c) = IF WHop'[c] # None THEN WHop'[c] ELSE WTable'[c]
  BY DEF SP!Granted
<1>3. CASE WHop'[c] # None
  BY <1>2, <1>3, HoppingViews
<1>4. CASE WHop'[c] = None
  <2>1. x \notin DOMAIN o.hop
    BY <1>4, HoppingViews
  <2>2. WTable'[c] = View(n, o.r.table, x)
    BY NextViews
  <2>3. /\ DOMAIN o.r.table = {y \in DOMAIN t : y \in DOMAIN o.hop => ~IsTail(Foremost(router[n], y))}
        /\ \A y \in DOMAIN o.r.table : o.r.table[y] = t[y]
    BY <1>1, UpdatedTables
  <2> HIDE DEF x, o, t
  <2>4. /\ x \in DOMAIN o.r.table <=> x \in DOMAIN t
        /\ x \in DOMAIN o.r.table => o.r.table[x] = t[x]
    BY <2>1, <2>3
  <2>5. View(n, o.r.table, x) = View(n, t, x)
    BY <2>4 DEF View
  <2> QED BY <1>2, <1>4, <2>2, <2>5 DEF x, o, t
<1> QED BY <1>3, <1>4

\* Reservations and hops lead where a router can send.
LEMMA ViewsRoute == Typed => WTable \in SP!Routes /\ WHop \in SP!Routes
<1> SUFFICES ASSUME Typed PROVE WTable \in SP!Routes /\ WHop \in SP!Routes
  OBVIOUS
<1>1. ASSUME NEW c \in Channels
      PROVE  /\ WTable[c] \in Channels \cup {None} /\ WTable[c] \in WOut[c] \cup {None}
             /\ WHop[c] \in Channels \cup {None} /\ WHop[c] \in WOut[c] \cup {None}
  <2>1. c[1] \in Nodes
    BY ChannelParts
  <2>2. router[c[1]].table \in Hops(c[1]) /\ hop[c[1]] \in Hops(c[1])
    BY <2>1 DEF Typed, Routers, Tables
  <2> QED BY <2>2, NowViews, ViewParts
<1>2. WTable = [c \in Channels |-> WTable[c]] /\ WHop = [c \in Channels |-> WHop[c]]
  BY DEF WTable, WHop
<1> HIDE DEF WTable, WHop
<1>3. WTable \in [Channels -> Channels \cup {None}] /\ WHop \in [Channels -> Channels \cup {None}]
  BY <1>1, <1>2
<1> QED BY <1>1, <1>3 DEF SP!Routes, SP!MaybeChannel

LEMMA NextViewsRoute == Typed' => WTable' \in SP!Routes /\ WHop' \in SP!Routes
<1>1. Typed' => (WTable \in SP!Routes /\ WHop \in SP!Routes)'
  BY ViewsRoute, PTL
<1> QED BY <1>1 DEF SP!Routes
-----------------------------------------------------------------------------
\* The buffer behind channel c.
Buf(c) == router[c[1]].buf[c[2]][c[3]]

LEMMA WireToParts ==
  ASSUME Typed, NEW c \in Channels
  PROVE  /\ WireTo(c) \in Seq(WFlits)
         /\ wire[<<c[1], c[2]>>] = None => WireTo(c) = <<>>
<1> DEFINE w == wire[<<c[1], c[2]>>]
<1>1. w \in MaybeWire
  BY ChannelParts DEF Typed
<1>2. WireTo(c) = IF w # None /\ w.vc = c[3] THEN <<w.flit>> ELSE <<>>
  BY DEF WireTo
<1> HIDE DEF w
<1>3. w # None => w.flit \in WFlits
  BY <1>1 DEF MaybeWire, Wires
<1>4. \A f \in WFlits : <<f>> \in Seq(WFlits)
  OBVIOUS
<1>5. WireTo(c) \in Seq(WFlits) /\ (w = None => WireTo(c) = <<>>)
  BY <1>2, <1>3, <1>4
<1> QED BY <1>5 DEF w

LEMMA HeadConcat ==
  ASSUME NEW S, NEW s \in Seq(S), NEW t \in Seq(S), s # <<>>
  PROVE  s \o t # <<>> /\ Head(s \o t) = Head(s) /\ Tail(s \o t) = Tail(s) \o t
<1> DEFINE u == s \o t
<1>1. u \in Seq(S) /\ Len(u) = Len(s) + Len(t) /\ Len(s) \in Nat /\ Len(t) \in Nat /\ Len(s) > 0
      /\ \A i \in 1 .. Len(u) : u[i] = IF i <= Len(s) THEN s[i] ELSE t[i - Len(s)]
  BY ConcatProperties, EmptySeq, LenProperties
<1> HIDE DEF u
<1>2. u # <<>> /\ Head(u) = u[1] /\ Head(s) = s[1] /\ u[1] = s[1]
  BY <1>1
<1>3. Tail(u) = Tail(s) \o t
  <2>1. Tail(u) \in Seq(S) /\ Len(Tail(u)) = Len(u) - 1 /\ \A i \in 1 .. Len(u) - 1 : Tail(u)[i] = u[i + 1]
    BY <1>1, <1>2
  <2>2. Tail(s) \in Seq(S) /\ Len(Tail(s)) = Len(s) - 1 /\ \A i \in 1 .. Len(s) - 1 : Tail(s)[i] = s[i + 1]
    BY <1>1
  <2> DEFINE v == Tail(s)
  <2>3. v \o t \in Seq(S) /\ Len(v \o t) = Len(v) + Len(t)
        /\ \A i \in 1 .. Len(v) + Len(t) : (v \o t)[i] = IF i <= Len(v) THEN v[i] ELSE t[i - Len(v)]
    <3> HIDE DEF v
    <3> QED BY <2>2, ConcatProperties DEF v
  <2> DEFINE a == Tail(u)
             b == v \o t
             m == Len(s)
  <2> HIDE DEF a, b, v, m
  <2>4. Len(a) = Len(b)
    BY <1>1, <2>1, <2>2, <2>3 DEF a, b, v, m
  <2>5. \A i \in 1 .. Len(a) : a[i] = b[i]
    <3> SUFFICES ASSUME NEW i \in 1 .. Len(a) PROVE a[i] = b[i]
      OBVIOUS
    <3>0. m \in Nat /\ Len(t) \in Nat /\ m > 0 /\ Len(u) = m + Len(t) /\ Len(v) = m - 1
          /\ Len(a) = Len(u) - 1
      BY <1>1, <2>1, <2>2 DEF m, v, a
    <3>1. a[i] = u[i + 1] /\ i + 1 \in 1 .. Len(u) /\ i \in 1 .. Len(v) + Len(t)
      BY <2>1, <3>0 DEF a
    <3>2. u[i + 1] = IF i + 1 <= m THEN s[i + 1] ELSE t[(i + 1) - m]
      BY <1>1, <3>1 DEF m
    <3>3. b[i] = IF i <= Len(v) THEN v[i] ELSE t[i - Len(v)]
      BY <2>3, <3>1 DEF b
    <3>4. i <= Len(v) => v[i] = s[i + 1]
      BY <2>2, <3>0, <3>1 DEF v, m
    <3>5. (i + 1 <= m <=> i <= Len(v)) /\ (i + 1) - m = i - Len(v)
      BY <3>0, <3>1
    <3> QED BY <3>1, <3>2, <3>3, <3>4, <3>5
  <2>6. a \in Seq(S) /\ b \in Seq(S)
    BY <2>1, <2>3 DEF a, b
  <2>7. a = b
    BY <2>4, <2>5, <2>6, SeqEqual
  <2> QED BY <2>7 DEF a, b, v
<1> QED BY <1>2, <1>3 DEF u

LEMMA QueueParts ==
  ASSUME Typed, NEW c \in Channels
  PROVE  /\ WQueue[c] \in Seq(WFlits)
         /\ c[2] = 0 => WQueue[c] = WireTo(c)
         /\ c[2] # 0 => /\ Buf(c) \in Seq(WFlits) /\ WQueue[c] = Buf(c) \o WireTo(c)
                        /\ wire[<<c[1], c[2]>>] = None => WQueue[c] = Buf(c)
                        /\ Buf(c) # <<>> => /\ WQueue[c] # <<>> /\ Head(WQueue[c]) = Head(Buf(c))
                                            /\ Tail(WQueue[c]) = Tail(Buf(c)) \o WireTo(c)
<1> DEFINE w == WireTo(c)
           b == Buf(c)
<1>1. w \in Seq(WFlits) /\ (wire[<<c[1], c[2]>>] = None => w = <<>>)
  BY WireToParts
<1>2. WQueue[c] = IF c[2] = 0 THEN w ELSE b \o w
  BY DEF WQueue, Buf
<1>3. c[2] # 0 => b \in Seq(WFlits)
  <2> SUFFICES ASSUME c[2] # 0 PROVE b \in Seq(WFlits)
    OBVIOUS
  <2>1. c[1] \in Nodes /\ c[2] \in Ports(c[1]) /\ c[3] \in VCs
    BY ChannelParts
  <2>2. router[c[1]].buf \in Buffers(c[1])
    BY <2>1 DEF Typed, Routers
  <2> QED BY <2>1, <2>2 DEF Buffers, Buf
<1> HIDE DEF w, b
<1>4. CASE c[2] = 0
  BY <1>1, <1>2, <1>4 DEF w
<1>5. CASE c[2] # 0
  <2>1. b \o w \in Seq(WFlits) /\ b \o <<>> = b
    BY <1>1, <1>3, <1>5
  <2>2. b # <<>> => b \o w # <<>> /\ Head(b \o w) = Head(b) /\ Tail(b \o w) = Tail(b) \o w
    BY <1>1, <1>3, <1>5, HeadConcat
  <2> QED BY <1>1, <1>2, <1>3, <1>5, <2>1, <2>2 DEF w, b
<1> QED BY <1>4, <1>5

\* What waits on connection Con(c) is at the front of channel c.
LEMMA WaitsQueued ==
  ASSUME Typed, NEW c \in Channels, c[2] # 0, Waits(router[c[1]], Con(c))
  PROVE  /\ WQueue[c] # <<>> /\ Head(WQueue[c]) = Foremost(router[c[1]], Con(c))
         /\ Head(WQueue[c]) = Head(Buf(c)) /\ Buf(c) # <<>>
         /\ Head(WQueue[c]) \in WFlits
<1>1. Con(c).port = c[2] /\ Con(c).vc = c[3]
  BY DEF Con, InConnection
<1>2. Buf(c) # <<>> /\ Foremost(router[c[1]], Con(c)) = Head(Buf(c))
  BY <1>1 DEF Waits, Foremost, Buf
<1>3. WQueue[c] # <<>> /\ Head(WQueue[c]) = Head(Buf(c)) /\ Buf(c) \in Seq(WFlits)
  BY <1>2, QueueParts
<1> QED BY <1>2, <1>3

\* The flit that hops from channel c has been sent.
HopSent(routed, tabs, c) ==
    routed[c[1]].out[tabs[c[1]][Con(c)].port] = [flit |-> Head(WQueue[c]), vc |-> WHop'[c][3]]

LEMMA HoppingFront ==
  ASSUME Typed, NEW ready, NEW routed, NEW tabs, Parts(ready, routed, tabs),
         NEW c \in Channels, WHop'[c] # None
  PROVE  /\ c[2] # 0 /\ Waits(router[c[1]], Con(c))
         /\ wire[<<WHop'[c][1], WHop'[c][2]>>] = None
         /\ Credit(<<WHop'[c][1], WHop'[c][2]>>, WHop'[c][3]) # 0
         /\ HopSent(routed, tabs, c)
<1> DEFINE n == c[1]
           x == Con(c)
           o == routed[n]
           t == tabs[n]
           y == t[x]
           d == WHop'[c]
<1>1. n \in Nodes /\ Updated(n, router[n], Signals(n), t, o)
  BY ChannelParts DEF Parts
<1>2. x \in DOMAIN o.hop /\ c[2] # 0 /\ y \in OutConns(n) /\ d = Downstream(n, y)
  BY HoppingViews
<1>3. /\ Waits(router[n], x)
      /\ Signals(n).idle[y.port] /\ Signals(n).credit[y.port][y.vc] # 0
      /\ o.out[y.port] = Sent(router[n], x, y)
  <2> HIDE DEF o, t, x
  <2> QED BY <1>1, <1>2, Zenon DEF Updated
<1>4. y.port \in Ports(n) /\ y.vc \in VCs
  BY <1>2 DEF OutConns, Conns
<1>5. wire[Bound[<<n, y.port>>]] = None /\ Credit(Bound[<<n, y.port>>], y.vc) # 0
  <2> HIDE DEF y
  <2> QED BY <1>3, <1>4 DEF Signals
<1>6. d[3] = y.vc /\ <<d[1], d[2]>> = Bound[<<n, y.port>>]
  BY <1>1, <1>2, DownstreamParts
<1>7. Head(WQueue[c]) = Foremost(router[n], x)
  BY <1>2, <1>3, WaitsQueued
<1>8. HopSent(routed, tabs, c)
  BY <1>3, <1>6, <1>7 DEF Sent, HopSent
<1> QED BY <1>2, <1>3, <1>5, <1>6, <1>8

LEMMA StepForward ==
  ASSUME Typed, SP!Bounded, NEW ready, NEW routed, NEW tabs, Parts(ready, routed, tabs)
  PROVE  SP!Forward
<1> SUFFICES ASSUME NEW c \in Channels, WHop'[c] # None
             PROVE  WQueue[c] # <<>> /\ Len(WQueue[WHop'[c]]) < Depth
  BY DEF SP!Forward
<1> DEFINE d == WHop'[c]
<1>1. WQueue[c] # <<>>
  BY HoppingFront, WaitsQueued
<1>2. d \in Channels /\ wire[<<d[1], d[2]>>] = None /\ Credit(<<d[1], d[2]>>, d[3]) # 0
  BY HoppingFront, HoppingViews
<1>3. Len(WQueue[d]) <= Depth
  BY <1>2 DEF SP!Bounded
<1> HIDE DEF d
<1>4. CASE d[2] = 0
  <2>1. WQueue[d] = <<>>
    BY <1>2, <1>4, QueueParts, WireToParts
  <2>2. Len(WQueue[d]) < Depth
    BY <2>1, Numbers
  <2> QED BY <1>1, <2>2 DEF d
<1>5. CASE d[2] # 0
  <2>1. WQueue[d] = Buf(d) /\ WQueue[d] \in Seq(WFlits)
    BY <1>2, <1>5, QueueParts
  <2>2. Credit(<<d[1], d[2]>>, d[3]) = Depth - Len(Buf(d))
    BY <1>5 DEF Credit, Buf
  <2>3. \A a, b \in Nat : a <= b /\ b - a # 0 => a < b
    OBVIOUS
  <2>4. Len(WQueue[d]) \in Nat /\ Depth - Len(WQueue[d]) # 0
    BY <1>2, <2>1, <2>2
  <2>5. Len(WQueue[d]) < Depth
    BY <1>3, <2>3, <2>4, Numbers
  <2> QED BY <1>1, <2>5 DEF d
<1> QED BY <1>4, <1>5

LEMMA StepReserve ==
  ASSUME Typed, NEW ready, NEW routed, NEW tabs, Parts(ready, routed, tabs)
  PROVE  SP!Reserve
<1>1. ASSUME NEW c \in Channels, SP!Granted(c) # WTable[c]
      PROVE  SP!Granted(c) # None /\ WQueue[c] # <<>> /\ SP!IsHead(Head(WQueue[c]))
  <2> DEFINE n == c[1]
             x == Con(c)
             t == tabs[n]
             u == router[n].table
  <2>1. n \in Nodes /\ Updated(n, router[n], Signals(n), t, routed[n])
    BY ChannelParts DEF Parts
  <2>2. SP!Granted(c) = View(n, t, x) /\ WTable[c] = View(n, u, x)
    BY GrantedView, NowViews
  <2>3. t \in Hops(n) /\ u \in Hops(n)
    BY <2>1, UpdatedTables DEF Typed, Routers, Tables
  <2>4. Reserved(n, router[n], t)
    BY <2>1 DEF Updated
  <2>5. x \in DOMAIN t
    <3> SUFFICES ASSUME x \notin DOMAIN t PROVE FALSE
      OBVIOUS
    <3>1. x \notin DOMAIN u
      BY <2>4 DEF Reserved
    <3> QED BY <1>1, <2>2, <3>1 DEF View
  <2>6. SP!Granted(c) # None /\ c[2] # 0
    BY <2>2, <2>3, <2>5, ViewParts
  <2>7. ~(x \in DOMAIN u /\ t[x] = u[x])
    BY <1>1, <2>2, <2>5 DEF View
  <2>8. HeadTakes(n, router[n], x, t[x])
    BY <2>4, <2>5, <2>7 DEF Reserved
  <2>9. Waits(router[n], x) /\ IsHead(Foremost(router[n], x))
    BY <2>8 DEF HeadTakes
  <2>10. WQueue[c] # <<>> /\ Head(WQueue[c]) = Foremost(router[n], x)
    BY <2>6, <2>9, WaitsQueued
  <2> QED BY <2>6, <2>9, <2>10 DEF SP!IsHead, IsHead
<1>2. ASSUME NEW c \in Channels, NEW d \in Channels, SP!Granted(c) # None,
             SP!Granted(c) = SP!Granted(d)
      PROVE  c = d
  <2>1. /\ c[1] \in Nodes /\ Updated(c[1], router[c[1]], Signals(c[1]), tabs[c[1]], routed[c[1]])
        /\ d[1] \in Nodes /\ Updated(d[1], router[d[1]], Signals(d[1]), tabs[d[1]], routed[d[1]])
    BY ChannelParts DEF Parts
  <2>2. tabs[c[1]] \in Tables(c[1]) /\ tabs[d[1]] \in Tables(d[1])
    BY <2>1, UpdatedTables
  <2>3. /\ SP!Granted(c) = View(c[1], tabs[c[1]], Con(c))
        /\ SP!Granted(d) = View(d[1], tabs[d[1]], Con(d))
    BY GrantedView
  <2> QED BY <1>2, <2>2, <2>3, ViewsExclusive
<1> QED BY <1>1, <1>2 DEF SP!Reserve

LEMMA StepRelease ==
  ASSUME Typed, NEW ready, NEW routed, NEW tabs, Parts(ready, routed, tabs)
  PROVE  SP!Release
<1> SUFFICES ASSUME NEW c \in Channels
             PROVE  WTable'[c] = IF WHop'[c] # None /\ SP!IsTail(Head(WQueue[c]))
                                 THEN None ELSE SP!Granted(c)
  BY DEF SP!Release
<1> DEFINE n == c[1]
           x == Con(c)
           t == tabs[n]
           o == routed[n]
<1>1. n \in Nodes /\ Updated(n, router[n], Signals(n), t, o)
  BY ChannelParts DEF Parts
<1>2. SP!Granted(c) = View(n, t, x) /\ WTable'[c] = View(n, o.r.table, x)
  BY GrantedView, NextViews
<1>3. /\ DOMAIN o.r.table = {y \in DOMAIN t : y \in DOMAIN o.hop => ~IsTail(Foremost(router[n], y))}
      /\ \A y \in DOMAIN o.r.table : o.r.table[y] = t[y]
      /\ DOMAIN o.hop \subseteq DOMAIN t
  BY <1>1, UpdatedTables
<1>4. CASE WHop'[c] # None
  <2>1. x \in DOMAIN o.hop /\ c[2] # 0
    BY <1>4, HoppingViews
  <2>2. Head(WQueue[c]) = Foremost(router[n], x)
    BY <1>4, <2>1, HoppingFront, WaitsQueued
  <2>3. IsTail(Foremost(router[n], x)) <=> SP!IsTail(Head(WQueue[c]))
    BY <2>2 DEF SP!IsTail, IsTail
  <2> HIDE DEF x, t, o
  <2>4. CASE IsTail(Foremost(router[n], x))
    <3>1. x \notin DOMAIN o.r.table
      BY <1>3, <2>1, <2>4
    <3> QED BY <1>2, <1>4, <2>3, <2>4, <3>1 DEF View
  <2>5. CASE ~IsTail(Foremost(router[n], x))
    <3>1. x \in DOMAIN o.r.table /\ x \in DOMAIN t /\ o.r.table[x] = t[x]
      BY <1>3, <2>1, <2>5
    <3>2. View(n, o.r.table, x) = View(n, t, x)
      BY <3>1 DEF View
    <3> QED BY <1>2, <2>3, <2>5, <3>2
  <2> QED BY <2>4, <2>5
<1>5. CASE WHop'[c] = None
  BY <1>5 DEF SP!Granted
<1> QED BY <1>4, <1>5
-----------------------------------------------------------------------------
\* What processor p of node n is in the middle of.
EnteredFlit(n, p) ==
    IF p.packet # None /\ p.left < p.packet.len
    THEN NextFlit(n, [p EXCEPT !.left = @ + 1]) ELSE None

\* The flit of the front packet of processor p when l flits are left of it.
FlitAt(n, p, l) == [pkt |-> <<n, p.made - p.waiting>>, dst |-> p.packet.dst,
                    seq |-> p.packet.len - l, len |-> p.packet.len]

LEMMA NextFlits ==
  ASSUME NEW n, NEW p \in Processors
  PROVE  /\ NextFlit(n, p) = FlitAt(n, p, p.left)
         /\ NextFlit(n, [p EXCEPT !.left = @ + 1]) = FlitAt(n, p, p.left + 1)
<1>1. NextFlit(n, p) = FlitAt(n, p, p.left)
  BY DEF NextFlit, FlitAt
<1> DEFINE a == p.left + 1
           z == [p EXCEPT !.left = a]
<1>2. z = [p EXCEPT !.left = @ + 1]
  OBVIOUS
<1> HIDE DEF a
<1>3. z.left = a /\ z.packet = p.packet /\ z.made = p.made /\ z.waiting = p.waiting
  BY DEF Processors
<1> HIDE DEF z
<1>4. NextFlit(n, z) = FlitAt(n, p, a)
  BY <1>3 DEF NextFlit, FlitAt
<1> QED BY <1>1, <1>2, <1>4 DEF z, a

\* A packet in the middle of being sent has a flit that went before.
LEMMA FlitAtTyped ==
  ASSUME NEW n \in Nodes, NEW p, ProcessorOK(p), p.packet # None, NEW l \in Nat, l > 0, l <= p.packet.len
  PROVE  FlitAt(n, p, l) \in WFlits /\ FlitAt(n, p, l) # None
<1>1. p.waiting \in Nat /\ p.made \in Nat /\ p.waiting <= p.made /\ p.packet \in Packets
  BY DEF ProcessorOK, Processors
<1>2. p.packet.dst \in Nodes /\ p.packet.len \in Lengths /\ p.packet.len \in Nat
  BY <1>1, NetworkAssumption DEF Packets
<1>3. p.made - p.waiting \in Nat /\ p.packet.len - l \in Nat
  BY <1>1, <1>2
<1>4. FlitAt(n, p, l) \in WFlits
  BY <1>2, <1>3 DEF FlitAt, WFlits
<1> QED BY <1>4, NetworkAssumption

LEMMA ReadiedEntered ==
  ASSUME NEW n \in Nodes, NEW p, ProcessorOK(p), NEW r, Readied(p, r)
  PROVE  EnteredFlit(n, r) = EnteredFlit(n, p)
<1>1. p \in Processors /\ r \in Processors /\ r.left \in Nat /\ r.packet \in Packets \cup {None}
  BY DEF Readied, ProcessorOK, Processors
<1>2. CASE r.packet = p.packet /\ r.left = p.left
  <2>1. FlitAt(n, r, r.left + 1) = FlitAt(n, p, p.left + 1)
    <3>1. r.made - r.waiting = p.made - p.waiting
      BY DEF Readied
    <3> QED BY <1>2, <3>1 DEF FlitAt
  <2>2. NextFlit(n, [r EXCEPT !.left = @ + 1]) = NextFlit(n, [p EXCEPT !.left = @ + 1])
    BY <1>1, <2>1, NextFlits
  <2> QED BY <1>2, <2>2 DEF EnteredFlit
<1>3. CASE p.packet = None /\ r.packet # None /\ r.left = r.packet.len
  <2>1. ~(r.left < r.packet.len)
    BY <1>1, <1>3
  <2> QED BY <1>3, <2>1 DEF EnteredFlit
<1> QED BY <1>2, <1>3 DEF Readied

LEMMA EnteredFollows ==
  ASSUME NEW n \in Nodes, NEW p, ProcessorOK(p), p.packet # None
  PROVE  SP!Follows(EnteredFlit(n, p), NextFlit(n, p))
<1>1. p \in Processors /\ p.left \in Nat /\ p.packet \in Packets /\ p.left <= p.packet.len /\ p.left > 0
  BY DEF ProcessorOK, Processors
<1>2. p.packet.len \in Nat
  BY <1>1, NetworkAssumption DEF Packets
<1>3. NextFlit(n, p) = FlitAt(n, p, p.left)
      /\ NextFlit(n, [p EXCEPT !.left = @ + 1]) = FlitAt(n, p, p.left + 1)
  BY <1>1, NextFlits
<1>4. CASE p.left = p.packet.len
  <2>1. EnteredFlit(n, p) = None
    BY <1>1, <1>2, <1>4 DEF EnteredFlit
  <2>2. NextFlit(n, p).seq = 0
    BY <1>2, <1>3, <1>4 DEF FlitAt
  <2> QED BY <2>1, <2>2 DEF SP!Follows, SP!IsHead
<1>5. CASE p.left # p.packet.len
  <2> DEFINE e == FlitAt(n, p, p.left + 1)
             f == FlitAt(n, p, p.left)
  <2>1. p.left < p.packet.len /\ p.left + 1 \in Nat /\ p.left + 1 > 0 /\ p.left + 1 <= p.packet.len
    BY <1>1, <1>2, <1>5
  <2>2. EnteredFlit(n, p) = e
    BY <1>3, <2>1 DEF EnteredFlit
  <2>3. e # None
    BY <2>1, FlitAtTyped
  <2>4. f.seq = e.seq + 1
    <3>1. \A a, b \in Nat : (a - (b + 1)) + 1 = a - b
      OBVIOUS
    <3> QED BY <1>1, <1>2, <3>1 DEF FlitAt
  <2>5. f = [e EXCEPT !.seq = f.seq]
    BY DEF FlitAt
  <2> QED BY <1>3, <2>2, <2>3, <2>4, <2>5 DEF SP!Follows
<1> QED BY <1>4, <1>5

LEMMA PopEntered ==
  ASSUME NEW n \in Nodes, NEW p, ProcessorOK(p), p.packet # None
  PROVE  EnteredFlit(n, PopFlit(p)) = SP!Open(NextFlit(n, p))
<1> DEFINE z == PopFlit(p)
<1>1. p \in Processors /\ p.left \in Nat /\ p.packet \in Packets /\ p.left <= p.packet.len /\ p.left > 0
  BY DEF ProcessorOK, Processors
<1>2. p.packet.len \in Nat
  BY <1>1, NetworkAssumption DEF Packets
<1>3. /\ ProcessorOK(z)
      /\ IsTail(NextFlit(n, p)) <=> p.left = 1
      /\ p.left = 1 => z.packet = None
      /\ p.left # 1 => z.packet = p.packet /\ z.left = p.left - 1
                       /\ z.waiting = p.waiting /\ z.made = p.made
  BY PopFlitKeeps
<1> HIDE DEF z
<1>4. SP!IsTail(NextFlit(n, p)) <=> p.left = 1
  BY <1>3 DEF SP!IsTail, IsTail
<1>5. CASE p.left = 1
  BY <1>3, <1>4, <1>5 DEF EnteredFlit, SP!Open, z
<1>6. CASE p.left # 1
  <2>1. z.left < z.packet.len /\ z.packet # None /\ z.left + 1 = p.left
    BY <1>1, <1>2, <1>3, <1>6
  <2>2. EnteredFlit(n, z) = NextFlit(n, [z EXCEPT !.left = @ + 1])
    BY <2>1 DEF EnteredFlit
  <2>3. z \in Processors
    BY <1>3 DEF ProcessorOK
  <2>4. NextFlit(n, [z EXCEPT !.left = @ + 1]) = FlitAt(n, z, z.left + 1)
        /\ NextFlit(n, p) = FlitAt(n, p, p.left)
    BY <1>1, <2>3, NextFlits
  <2>5. FlitAt(n, z, z.left + 1) = FlitAt(n, p, p.left)
    BY <1>3, <1>6, <2>1 DEF FlitAt
  <2> QED BY <1>4, <1>6, <2>2, <2>4, <2>5 DEF SP!Open, z
<1> QED BY <1>5, <1>6

\* The channel a processor feeds.
LEMMA InjectChannel ==
  ASSUME NEW c \in WInjects
  PROVE  /\ c \in Channels /\ c[1] \in Nodes /\ c[2] # 0 /\ c[3] \in VCs
         /\ c[2] = LocalPort(c[1]) /\ <<c[1], c[2]>> = LocalRelay(c[1]) /\ LocalRelay(c[1]) \in Relays
<1>1. PICK n \in Nodes, v \in VCs : c = <<n, LocalPort(n), v>>
  BY DEF WInjects
<1>2. c[1] = n /\ c[2] = LocalPort(n) /\ c[3] = v
  BY <1>1
<1>3. c \in Channels
  BY <1>1, Numbers DEF Channels, RouterChannels
<1> QED BY <1>2, <1>3, Numbers DEF LocalRelay, Relays

LEMMA InjectedNext ==
  ASSUME Typed, NEW ready, NEW routed, NEW tabs, Parts(ready, routed, tabs), NEW c \in WInjects
  PROVE  /\ WInjected'[c] = IF c[3] = 0 /\ Sends(c[1], ready[c[1]])
                            THEN NextFlit(c[1], ready[c[1]]) ELSE None
         /\ WEntered[c] = IF c[3] = 0 THEN EnteredFlit(c[1], proc[c[1]]) ELSE None
         /\ WEntered'[c] = IF c[3] = 0 THEN EnteredFlit(c[1], proc'[c[1]]) ELSE None
<1> DEFINE n == c[1]
           r == <<c[1], c[2]>>
<1>1. c \in Channels /\ n \in Nodes /\ r \in Relays /\ r[2] = LocalPort(r[1]) /\ r[1] = n
  BY InjectChannel
<1>2. wire'[r] = IF Sends(n, ready[n]) THEN [flit |-> NextFlit(n, ready[n]), vc |-> 0] ELSE None
  BY <1>1, NextWire
<1>3. WInjected'[c] = IF wire'[r] # None /\ wire'[r].vc = c[3] THEN wire'[r].flit ELSE None
  BY DEF WInjected
<1>4. Sends(n, ready[n]) => wire'[r] # None
  <2> SUFFICES ASSUME Sends(n, ready[n]) PROVE [flit |-> NextFlit(n, ready[n]), vc |-> 0] # None
    BY <1>2
  <2>1. ProcessorOK(ready[n]) /\ ready[n].packet # None
    BY <1>1 DEF Parts, Readied, Sends
  <2>2. NextFlit(n, ready[n]) \in WFlits
    BY <1>1, <2>1, PopFlitKeeps
  <2> QED BY <2>2, NetworkAssumption, Numbers
<1> DEFINE w == wire'[r]
           f == NextFlit(n, ready[n])
           S == Sends(n, ready[n])
<1> HIDE DEF w, f, r, S
<1>5. WInjected'[c] = IF c[3] = 0 /\ S THEN f ELSE None
  BY <1>2, <1>3, <1>4 DEF w, f, S
<1>6. /\ WEntered[c] = IF c[3] = 0 THEN EnteredFlit(n, proc[n]) ELSE None
      /\ WEntered'[c] = IF c[3] = 0 THEN EnteredFlit(n, proc'[n]) ELSE None
  BY <1>1 DEF WEntered, EnteredFlit
<1> QED BY <1>5, <1>6 DEF f, S

LEMMA StepInject ==
  ASSUME Typed, NEW ready, NEW routed, NEW tabs, Parts(ready, routed, tabs)
  PROVE  SP!Inject
<1> SUFFICES ASSUME NEW c \in WInjects, WInjected'[c] # None
             PROVE  Len(WQueue[c]) < Depth /\ SP!Follows(WEntered[c], WInjected'[c])
  BY DEF SP!Inject
<1> DEFINE n == c[1]
<1>1. c \in Channels /\ n \in Nodes /\ c[2] # 0 /\ <<c[1], c[2]>> = LocalRelay(n)
      /\ c[2] = LocalPort(n) /\ LocalRelay(n) = <<n, LocalPort(n)>>
  BY InjectChannel DEF LocalRelay
<1>2. /\ c[3] = 0 /\ Sends(n, ready[n]) /\ WInjected'[c] = NextFlit(n, ready[n])
      /\ WEntered[c] = EnteredFlit(n, proc[n])
  BY InjectedNext
<1>3. Len(WQueue[c]) < Depth
  <2>1. wire[LocalRelay(n)] = None /\ Credit(LocalRelay(n), 0) > 0
    BY <1>2 DEF Sends
  <2>2. WQueue[c] = Buf(c) /\ Buf(c) \in Seq(WFlits)
    BY <1>1, <2>1, QueueParts
  <2>3. Credit(LocalRelay(n), 0) = Depth - Len(Buf(c))
    BY <1>1, <1>2 DEF Credit, Buf
  <2>4. \A a, b \in Nat : b - a > 0 => a < b
    OBVIOUS
  <2>5. Len(Buf(c)) \in Nat
    BY <2>2
  <2> QED BY <2>1, <2>2, <2>3, <2>4, <2>5, Numbers
<1>4. SP!Follows(WEntered[c], WInjected'[c])
  <2>1. Readied(proc[n], ready[n]) /\ ProcessorOK(proc[n])
    BY <1>1 DEF Parts, Typed
  <2>2. ProcessorOK(ready[n]) /\ ready[n].packet # None
    BY <1>2, <2>1 DEF Readied, Sends
  <2>3. EnteredFlit(n, ready[n]) = EnteredFlit(n, proc[n])
    BY <1>1, <2>1, ReadiedEntered
  <2>4. SP!Follows(EnteredFlit(n, ready[n]), NextFlit(n, ready[n]))
    BY <1>1, <2>2, EnteredFollows
  <2> QED BY <1>2, <2>3, <2>4
<1> QED BY <1>3, <1>4
-----------------------------------------------------------------------------
\* What has been put on the wire of channel c.
Coming(c) == LET w == wire'[<<c[1], c[2]>>] IN IF w # None /\ w.vc = c[3] THEN w.flit ELSE None

LEMMA ComingTyped ==
  ASSUME Typed', NEW c \in Channels
  PROVE  /\ Coming(c) \in WFlits \cup {None}
         /\ Coming(c) # None <=> wire'[<<c[1], c[2]>>] # None /\ wire'[<<c[1], c[2]>>].vc = c[3]
         /\ Coming(c) # None => Coming(c) = wire'[<<c[1], c[2]>>].flit
         /\ (WireTo(c))' = IF Coming(c) # None THEN <<Coming(c)>> ELSE <<>>
<1> DEFINE w == wire'[<<c[1], c[2]>>]
<1>1. w \in MaybeWire
  <2>1. wire' \in [Relays -> MaybeWire]
    BY DEF Typed
  <2> QED BY <2>1, ChannelParts
<1>2. w # None => w.flit \in WFlits /\ w.flit # None
  BY <1>1, NetworkAssumption DEF MaybeWire, Wires
<1>3. Coming(c) = IF w # None /\ w.vc = c[3] THEN w.flit ELSE None
  BY DEF Coming
<1>4. (WireTo(c))' = IF w # None /\ w.vc = c[3] THEN <<w.flit>> ELSE <<>>
  BY DEF WireTo
<1> HIDE DEF w
<1>5. /\ Coming(c) \in WFlits \cup {None}
      /\ Coming(c) # None <=> w # None /\ w.vc = c[3]
      /\ Coming(c) # None => Coming(c) = w.flit
      /\ (WireTo(c))' = IF Coming(c) # None THEN <<Coming(c)>> ELSE <<>>
  BY <1>2, <1>3, <1>4
<1> QED BY <1>5 DEF w

\* A channel that no processor feeds is of another port than the local one.
LEMMA NotInjects ==
  ASSUME NEW c \in Channels, c \notin WInjects
  PROVE  c[2] # LocalPort(c[1])
<1> SUFFICES ASSUME c[2] = LocalPort(c[1]) PROVE FALSE
  OBVIOUS
<1>1. c[1] \in Nodes /\ c = <<c[1], c[2], c[3]>>
  BY ChannelParts
<1>2. c[3] \in VCs
  BY <1>1, ChannelParts, Numbers
<1> QED BY <1>1, <1>2 DEF WInjects

\* What hops is what comes.
LEMMA HopArrives ==
  ASSUME Typed, Typed', NEW ready, NEW routed, NEW tabs, Parts(ready, routed, tabs),
         NEW c \in Channels, NEW d \in Channels, WHop'[d] = c
  PROVE  c \notin WInjects /\ Coming(c) = Head(WQueue[d]) /\ Head(WQueue[d]) \in WFlits
<1> DEFINE n == d[1]
           y == tabs[n][Con(d)]
           r == <<c[1], c[2]>>
<1>1. WHop'[d] # None
  BY ChannelsAreNot
<1>2. n \in Nodes /\ y \in OutConns(n) /\ c = Downstream(n, y)
  <2>1. d[1] \in Nodes
    BY ChannelParts
  <2>2. tabs[d[1]][Con(d)] \in OutConns(d[1]) /\ WHop'[d] = Downstream(d[1], tabs[d[1]][Con(d)])
    BY <1>1, HoppingViews
  <2> QED BY <2>1, <2>2
<1>3. c \notin WInjects /\ Bound[r] = <<n, y.port>> /\ r \in Relays
  <2> HIDE DEF y
  <2>1. Downstream(n, y) \notin WInjects
        /\ Bound[<<Downstream(n, y)[1], Downstream(n, y)[2]>>] = <<n, y.port>>
    BY <1>2, DownstreamParts
  <2>2. r \in Relays
    BY ChannelParts
  <2> QED BY <1>2, <2>1, <2>2
<1>4. routed[n].out[y.port] = [flit |-> Head(WQueue[d]), vc |-> c[3]]
  <2>1. routed[d[1]].out[tabs[d[1]][Con(d)].port] = [flit |-> Head(WQueue[d]), vc |-> WHop'[d][3]]
    <3>1. HopSent(routed, tabs, d)
      BY <1>1, HoppingFront
    <3> QED BY <3>1 DEF HopSent
  <2> QED BY <2>1
<1>5. c[2] # LocalPort(c[1])
  BY <1>3, NotInjects
<1>6. wire'[r] = routed[n].out[y.port]
  <2>1. r[2] # LocalPort(r[1])
    BY <1>5
  <2>2. wire'[r] = routed[Bound[r][1]].out[Bound[r][2]]
    <3> HIDE DEF r
    <3> QED BY <1>3, <2>1, NextWire
  <2> QED BY <1>3, <2>2
<1>7. Head(WQueue[d]) \in WFlits /\ c[3] \in VCs
  <2>1. d[2] # 0 /\ Waits(router[d[1]], Con(d))
    BY <1>1, HoppingFront
  <2> QED BY <2>1, WaitsQueued, ChannelParts, Numbers
<1>8. wire'[r] # None /\ wire'[r].vc = c[3] /\ wire'[r].flit = Head(WQueue[d])
  BY <1>4, <1>6, <1>7, NetworkAssumption
<1> QED BY <1>3, <1>7, <1>8 DEF Coming

\* What comes on a channel between routers hops there.
LEMMA ComingHops ==
  ASSUME Typed, Typed', NEW ready, NEW routed, NEW tabs, Parts(ready, routed, tabs),
         NEW c \in Channels, c \notin WInjects, Coming(c) # None
  PROVE  \E d \in Channels : WHop'[d] = c
<1> DEFINE r == <<c[1], c[2]>>
           n == Bound[r][1]
           p == Bound[r][2]
           o == routed[n]
           t == tabs[n]
<1>1. r \in Relays /\ r[2] # LocalPort(r[1]) /\ c = <<c[1], c[2], c[3]>>
  BY ChannelParts, NotInjects
<1>2. n \in Nodes /\ p \in Ports(n) /\ wire'[r] = o.out[p]
  BY <1>1, NextWire
<1>3. wire'[r] # None /\ wire'[r].vc = c[3]
  BY ComingTyped
<1>4. Updated(n, router[n], Signals(n), t, o)
  BY <1>2, Zenon DEF Parts
<1> HIDE DEF n, p, o, t
<1>5. PICK x \in DOMAIN o.hop : t[x].port = p
  <2>1. \A a \in Ports(n) : o.out[a] # None => \E x \in DOMAIN o.hop : t[x].port = a
    BY <1>4, Zenon DEF Updated
  <2>2. o.out[p] # None
    BY <1>2, <1>3
  <2> QED BY <1>2, <2>1, <2>2, Zenon
<1>6. o.hop[x] = t[x] /\ o.out[t[x].port] = Sent(router[n], x, t[x])
  BY <1>4, <1>5, Zenon DEF Updated
<1>7. t[x].vc = c[3]
  BY <1>2, <1>3, <1>5, <1>6 DEF Sent
<1>8. x \in Conns(n) /\ t[x] \in OutConns(n)
  <2>1. o.hop \in Hops(n)
    BY <1>2, <1>4, UpdatedTables
  <2> QED BY <1>5, <1>6, <2>1 DEF Hops
<1> DEFINE d == <<n, x.port, x.vc>>
<1>9. d \in Channels /\ Con(d) = x
  BY <1>2, <1>8, ConnectionChannel DEF Con
<1>10. WHop'[d] = Downstream(n, t[x])
  <2>1. WHop'[d] = View(d[1], routed[d[1]].hop, Con(d))
    BY <1>9, NextViews
  <2>2. WHop'[d] = View(n, o.hop, x)
    BY <1>9, <2>1 DEF o
  <2> QED BY <1>5, <1>6, <2>2 DEF View
<1>11. Downstream(n, t[x]) = c
  <2>1. Bound[<<n, p>>] = r
    <3>1. Bound[r] = <<Bound[r][1], Bound[r][2]>> /\ Bound[Bound[r]] = r
      BY <1>1, RelaysBound
    <3> QED BY <3>1 DEF n, p
  <2>2. Downstream(n, t[x]) = Append(r, c[3])
    BY <1>5, <1>7, <2>1 DEF Downstream
  <2>3. Append(r, c[3]) = <<c[1], c[2], c[3]>>
    BY AppendPair
  <2> QED BY <1>1, <2>2, <2>3
<1> QED BY <1>9, <1>10, <1>11

LEMMA ArrivalComes ==
  ASSUME Typed, Typed', NEW ready, NEW routed, NEW tabs, Parts(ready, routed, tabs),
         NEW c \in Channels
  PROVE  SP!Arrival(c) = Coming(c)
<1>1. SP!Arrival(c) = IF c \in WInjects THEN WInjected'[c]
         ELSE IF \E d \in Channels : WHop'[d] = c
              THEN Head(WQueue[CHOOSE d \in Channels : WHop'[d] = c])
         ELSE None
  BY DEF SP!Arrival
<1>2. CASE c \in WInjects
  <2>1. WInjected'[c] = Coming(c)
    BY <1>2 DEF WInjected, Coming
  <2> QED BY <1>1, <1>2, <2>1
<1>3. CASE c \notin WInjects /\ \E d \in Channels : WHop'[d] = c
  <2> DEFINE d == CHOOSE d \in Channels : WHop'[d] = c
  <2>1. d \in Channels /\ WHop'[d] = c
    BY <1>3
  <2> HIDE DEF d
  <2>2. Coming(c) = Head(WQueue[d])
    BY <2>1, HopArrives
  <2> QED BY <1>1, <1>3, <2>2 DEF d
<1>4. CASE c \notin WInjects /\ ~\E d \in Channels : WHop'[d] = c
  <2>1. Coming(c) = None
    BY <1>4, ComingHops
  <2> QED BY <1>1, <1>4, <2>1
<1> QED BY <1>2, <1>3, <1>4
-----------------------------------------------------------------------------
\* The channels processors read are those of their relays.
LEMMA EjectsAre == \A c \in Channels : c \in SP!Ejects <=> c[2] = 0
<1> SUFFICES ASSUME NEW c \in Channels PROVE WOut[c] = {} <=> c[2] = 0
  BY DEF SP!Ejects
<1> DEFINE links == {Downstream(c[1], [port |-> p, vc |-> v]) : p \in 1 .. Len(Adj[c[1]]), v \in VCs}
<1>1. WOut[c] = IF c[2] = 0 THEN {} ELSE links \cup {<<c[1], 0, 0>>}
  BY DEF WOut
<1> HIDE DEF links
<1> QED BY <1>1

\* What leaves a channel and what remains there.
LEMMA LeavesAndRemains ==
  ASSUME Typed, Typed', NEW ready, NEW routed, NEW tabs, Parts(ready, routed, tabs),
         NEW c \in Channels
  PROVE  /\ SP!Leaves(c) <=> IF c[2] = 0 THEN Receives(c[1])
                             ELSE Con(c) \in DOMAIN routed[c[1]].hop
         /\ c[2] = 0 => SP!Remains(c) = <<>>
         /\ c[2] = 0 /\ Receives(c[1]) => Head(WQueue[c]) = wire[<<c[1], 0>>].flit
         /\ c[2] # 0 => SP!Remains(c) =
               (IF Con(c) \in DOMAIN routed[c[1]].hop THEN Tail(Buf(c)) ELSE Buf(c)) \o WireTo(c)
         /\ c[2] # 0 /\ Con(c) \in DOMAIN routed[c[1]].hop =>
               Head(WQueue[c]) = Head(Buf(c)) /\ Buf(c) # <<>>
<1>1. SP!Leaves(c) <=> WHop'[c] # None \/ (c[2] = 0 /\ WQueue[c] # <<>>)
  BY EjectsAre DEF SP!Leaves
<1>2. SP!Remains(c) = IF SP!Leaves(c) THEN Tail(WQueue[c]) ELSE WQueue[c]
  BY DEF SP!Remains
<1>3. CASE c[2] = 0
  <2> DEFINE w == wire[<<c[1], 0>>]
  <2>1. WHop'[c] = None
    BY <1>3, HoppingViews
  <2>2. c[3] = 0 /\ c[1] \in Nodes
    BY <1>3, ChannelParts
  <2>3. w # None => w.vc = 0
    BY <2>2 DEF Typed
  <2>4. WQueue[c] = IF w # None THEN <<w.flit>> ELSE <<>>
    <3>1. WQueue[c] = WireTo(c)
      BY <1>3, QueueParts
    <3> QED BY <1>3, <2>2, <2>3, <3>1 DEF WireTo
  <2>5. \A f : <<f>> # <<>> /\ Head(<<f>>) = f /\ Tail(<<f>>) = <<>>
    OBVIOUS
  <2>6. Receives(c[1]) <=> w # None
    BY DEF Receives
  <2> HIDE DEF w
  <2> QED BY <1>1, <1>2, <1>3, <2>1, <2>4, <2>5, <2>6 DEF w
<1>4. CASE c[2] # 0
  <2>1. WHop'[c] # None <=> Con(c) \in DOMAIN routed[c[1]].hop
    BY HoppingViews
  <2>2. SP!Leaves(c) <=> WHop'[c] # None
    BY <1>1, <1>4
  <2>3. ASSUME WHop'[c] # None
        PROVE  Head(WQueue[c]) = Head(Buf(c)) /\ Tail(WQueue[c]) = Tail(Buf(c)) \o WireTo(c) /\ Buf(c) # <<>>
    <3>1. Waits(router[c[1]], Con(c))
      BY <2>3, HoppingFront
    <3>2. Buf(c) # <<>>
      BY <1>4, <3>1, WaitsQueued
    <3> QED BY <1>4, <3>2, QueueParts
  <2>4. WQueue[c] = Buf(c) \o WireTo(c)
    BY <1>4, QueueParts
  <2> QED BY <1>2, <1>4, <2>1, <2>2, <2>3, <2>4
<1> QED BY <1>3, <1>4

\* What the buffer behind a channel has become.
LEMMA NextBuf ==
  ASSUME Typed, NEW ready, NEW routed, NEW tabs, Parts(ready, routed, tabs),
         NEW c \in Channels, c[2] # 0
  PROVE  (Buf(c))' = (IF Con(c) \in DOMAIN routed[c[1]].hop THEN Tail(Buf(c)) ELSE Buf(c)) \o WireTo(c)
<1> DEFINE n == c[1]
           x == Con(c)
           o == routed[n]
           b == IF x \in DOMAIN o.hop THEN Tail(Buf(c)) ELSE Buf(c)
           w == wire[<<c[1], c[2]>>]
<1>1. n \in Nodes /\ Updated(n, router[n], Signals(n), tabs[n], o) /\ c[2] \in Ports(n) /\ c[3] \in VCs
  BY ChannelParts DEF Parts
<1>2. x \in Conns(n) /\ x.port = c[2] /\ x.vc = c[3]
  BY <1>1, ChannelParts DEF Con, InConnection
<1>3. (Buf(c))' = o.r.buf[c[2]][c[3]]
  BY <1>1 DEF Buf, Parts
<1>4. o.r.buf[c[2]][c[3]] = Arrived(Signals(n), x, b)
  <2> HIDE DEF x, o
  <2>1. \A y \in Conns(n) : o.r.buf[y.port][y.vc] =
           Arrived(Signals(n), y, IF y \in DOMAIN o.hop THEN Tail(router[n].buf[y.port][y.vc])
                                                         ELSE router[n].buf[y.port][y.vc])
    BY <1>1, Zenon DEF Updated
  <2> QED BY <1>2, <2>1 DEF Buf
<1>5. Arrived(Signals(n), x, b) = IF w # None /\ w.vc = c[3] THEN Append(b, w.flit) ELSE b
  <2> HIDE DEF x, b, o
  <2>1. Signals(n).arrived[c[2]] = w
    BY <1>1 DEF Signals
  <2> QED BY <1>2, <2>1 DEF Arrived
<1>6. b \in Seq(WFlits)
  <2>1. Buf(c) \in Seq(WFlits)
    BY QueueParts
  <2>2. ASSUME x \in DOMAIN o.hop PROVE Buf(c) # <<>>
    <3>1. WHop'[c] # None
      BY <2>2, HoppingViews
    <3>2. Waits(router[n], x)
      BY <3>1, HoppingFront
    <3> QED BY <3>2, WaitsQueued
  <2> QED BY <2>1, <2>2
<1>7. w # None => w.flit \in WFlits
  BY ChannelParts DEF Typed, MaybeWire, Wires
<1>8. WireTo(c) = IF w # None /\ w.vc = c[3] THEN <<w.flit>> ELSE <<>>
  BY DEF WireTo
<1> HIDE DEF b, w
<1>9. b \o <<>> = b /\ \A f \in WFlits : Append(b, f) = b \o <<f>>
  BY <1>6
<1>10. Arrived(Signals(n), x, b) = b \o WireTo(c)
  BY <1>5, <1>7, <1>8, <1>9
<1> QED BY <1>3, <1>4, <1>10 DEF b

LEMMA StepQueue ==
  ASSUME Typed, Typed', NEW ready, NEW routed, NEW tabs, Parts(ready, routed, tabs),
         NEW c \in Channels
  PROVE  WQueue'[c] = IF SP!Arrival(c) = None THEN SP!Remains(c)
                      ELSE Append(SP!Remains(c), SP!Arrival(c))
<1> DEFINE R == SP!Remains(c)
           a == Coming(c)
<1>1. SP!Arrival(c) = a
  BY ArrivalComes
<1>2. (WireTo(c))' = IF a # None THEN <<a>> ELSE <<>>
  BY ComingTyped
<1>3. a # None => a \in WFlits
  BY ComingTyped
<1>4. WQueue'[c] = R \o (WireTo(c))' /\ R \in Seq(WFlits)
  <2>1. WQueue'[c] = IF c[2] = 0 THEN (WireTo(c))' ELSE (Buf(c))' \o (WireTo(c))'
    BY DEF WQueue, Buf
  <2>2. CASE c[2] = 0
    <3>1. R = <<>>
      BY <2>2, LeavesAndRemains
    <3>2. (WireTo(c))' \in Seq(WFlits)
      BY <1>2, <1>3
    <3> HIDE DEF R
    <3> QED BY <2>1, <2>2, <3>1, <3>2
  <2>3. CASE c[2] # 0
    <3>1. R = (Buf(c))'
      BY <2>3, LeavesAndRemains, NextBuf
    <3>2. (Buf(c))' \in Seq(WFlits)
      <4>1. c[1] \in Nodes /\ c[2] \in Ports(c[1]) /\ c[3] \in VCs
        BY <2>3, ChannelParts
      <4>2. (router[c[1]].buf)' \in Buffers(c[1])
        BY <4>1 DEF Typed, Routers
      <4> QED BY <4>1, <4>2 DEF Buf, Buffers
    <3> HIDE DEF R
    <3> QED BY <2>1, <2>3, <3>1, <3>2
  <2> QED BY <2>2, <2>3
<1> HIDE DEF R, a
<1>5. R \o <<>> = R /\ \A f \in WFlits : Append(R, f) = R \o <<f>>
  BY <1>4
<1>6. WQueue'[c] = IF a = None THEN R ELSE Append(R, a)
  BY <1>2, <1>3, <1>4, <1>5
<1> QED BY <1>1, <1>6 DEF R, a

LEMMA StepLeft ==
  ASSUME Typed, Typed', NEW ready, NEW routed, NEW tabs, Parts(ready, routed, tabs),
         NEW c \in Channels
  PROVE  open'[c] = IF SP!Leaves(c) THEN SP!Open(Head(WQueue[c])) ELSE open[c]
<1>1. open'[c] = IF c[2] = 0
                 THEN IF Receives(c[1]) THEN OpenAfter(wire[<<c[1], 0>>].flit) ELSE open[c]
                 ELSE IF Con(c) \in DOMAIN routed[c[1]].hop THEN OpenAfter(Head(Buf(c)))
                 ELSE open[c]
  <2>1. hop'[c[1]] = routed[c[1]].hop
    BY ChannelParts DEF Parts
  <2> QED BY <2>1 DEF Parts, Con, Buf
<1>2. \A f : OpenAfter(f) = SP!Open(f)
  BY DEF OpenAfter, SP!Open, IsTail, SP!IsTail
<1>3. CASE c[2] = 0
  <2>1. SP!Leaves(c) <=> Receives(c[1])
    BY <1>3, LeavesAndRemains
  <2>2. Receives(c[1]) => Head(WQueue[c]) = wire[<<c[1], 0>>].flit
    BY <1>3, LeavesAndRemains
  <2> QED BY <1>1, <1>2, <1>3, <2>1, <2>2
<1>4. CASE c[2] # 0
  <2>1. SP!Leaves(c) <=> Con(c) \in DOMAIN routed[c[1]].hop
    BY <1>4, LeavesAndRemains
  <2>2. Con(c) \in DOMAIN routed[c[1]].hop => Head(WQueue[c]) = Head(Buf(c))
    BY <1>4, LeavesAndRemains
  <2> QED BY <1>1, <1>2, <1>4, <2>1, <2>2
<1> QED BY <1>3, <1>4

LEMMA StepEnteredInjects ==
  ASSUME Typed, Typed', NEW ready, NEW routed, NEW tabs, Parts(ready, routed, tabs),
         NEW c \in WInjects
  PROVE  WEntered'[c] = IF SP!Arrival(c) = None THEN WEntered[c] ELSE SP!Open(SP!Arrival(c))
<1> DEFINE n == c[1]
           f == NextFlit(n, ready[n])
<1>1. SP!Arrival(c) = WInjected'[c] /\ n \in Nodes
  BY InjectChannel DEF SP!Arrival
<1>2. /\ WInjected'[c] = IF c[3] = 0 /\ Sends(n, ready[n]) THEN f ELSE None
      /\ WEntered[c] = IF c[3] = 0 THEN EnteredFlit(n, proc[n]) ELSE None
      /\ WEntered'[c] = IF c[3] = 0 THEN EnteredFlit(n, proc'[n]) ELSE None
  BY InjectedNext
<1>3. CASE c[3] # 0
  BY <1>1, <1>2, <1>3
<1>4. CASE c[3] = 0
  <2>1. Readied(proc[n], ready[n]) /\ ProcessorOK(proc[n]) /\ ProcessorOK(ready[n])
    BY <1>1, Zenon DEF Parts, Typed, Readied
  <2>2. proc'[n] = IF Sends(n, ready[n]) THEN PopFlit(ready[n]) ELSE ready[n]
    BY <1>1 DEF Parts
  <2>3. CASE Sends(n, ready[n])
    <3>1. ready[n].packet # None
      BY <2>1, <2>3 DEF Readied, Sends
    <3>2. f \in WFlits /\ f # None
      BY <1>1, <2>1, <3>1, PopFlitKeeps, NetworkAssumption
    <3>3. EnteredFlit(n, PopFlit(ready[n])) = SP!Open(f)
      BY <1>1, <2>1, <3>1, PopEntered
    <3> HIDE DEF f
    <3> QED BY <1>1, <1>2, <1>4, <2>2, <2>3, <3>2, <3>3
  <2>4. CASE ~Sends(n, ready[n])
    <3>1. EnteredFlit(n, ready[n]) = EnteredFlit(n, proc[n])
      BY <1>1, <2>1, ReadiedEntered
    <3> QED BY <1>1, <1>2, <1>4, <2>2, <2>4, <3>1
  <2> QED BY <2>3, <2>4
<1> QED BY <1>3, <1>4

LEMMA StepGrants ==
  ASSUME Typed, Typed', NEW ready, NEW routed, NEW tabs, Parts(ready, routed, tabs)
  PROVE  SP!Grants
  BY NextViewsRoute, StepReserve DEF SP!Grants

LEMMA StepEnteredOthers ==
  ASSUME Typed, Typed', SP!WInv, NEW ready, NEW routed, NEW tabs, Parts(ready, routed, tabs),
         NEW c \in Channels, c \notin WInjects
  PROVE  WEntered'[c] = IF SP!Arrival(c) = None THEN WEntered[c] ELSE SP!Open(SP!Arrival(c))
<1>1. SP!Arrival(c) = Coming(c) /\ c # None
  BY ArrivalComes, ChannelsAreNot
<1>2. WEntered'[c] = IF \E d \in RouterChannels : WTable'[d] = c
                     THEN open'[CHOOSE d \in RouterChannels : WTable'[d] = c] ELSE None
  BY DEF WEntered
<1>3. ASSUME NEW e \in Channels
      PROVE  WTable'[e] = IF WHop'[e] # None /\ SP!IsTail(Head(WQueue[e])) THEN None ELSE SP!Granted(e)
  BY StepRelease DEF SP!Release
<1>4. \A e \in Channels : WTable'[e] = c => SP!Granted(e) = c
  BY <1>1, <1>3
<1>5. \A d, e \in Channels : SP!Granted(d) = c /\ SP!Granted(e) = c => d = e
  BY <1>1, StepReserve DEF SP!Reserve
<1>6. ASSUME NEW e \in Channels, WTable'[e] = c PROVE e \in RouterChannels /\ WEntered'[c] = open'[e]
  <2>1. e[2] # 0
    <3>1. WTable'[e] = View(e[1], routed[e[1]].r.table, Con(e))
      BY NextViews
    <3>2. routed[e[1]].r.table \in Hops(e[1])
      <4>1. e[1] \in Nodes /\ Updated(e[1], router[e[1]], Signals(e[1]), tabs[e[1]], routed[e[1]])
        BY ChannelParts DEF Parts
      <4> QED BY <4>1, UpdatedTables
    <3> QED BY <1>1, <1>6, <3>1, <3>2, ViewParts
  <2>2. e \in RouterChannels
    BY <2>1, ChannelParts
  <2>3. \A d \in RouterChannels : WTable'[d] = c => d = e
    BY <1>4, <1>5, <1>6 DEF Channels
  <2>4. (CHOOSE d \in RouterChannels : WTable'[d] = c) = e
    BY <1>6, <2>2, <2>3
  <2> QED BY <1>2, <1>6, <2>2, <2>4
<1>7. CASE Coming(c) # None
  <2>1. PICK d \in Channels : WHop'[d] = c
    BY <1>7, ComingHops
  <2>2. SP!Granted(d) = c /\ WHop'[d] # None
    BY <1>1, <2>1 DEF SP!Granted
  <2>3. Coming(c) = Head(WQueue[d])
    BY <2>1, HopArrives
  <2>4. CASE SP!IsTail(Head(WQueue[d]))
    <3>1. WTable'[d] = None
      BY <1>3, <2>2, <2>4
    <3>2. ASSUME NEW e \in Channels PROVE WTable'[e] # c
      BY <1>1, <1>4, <1>5, <2>2, <3>1
    <3>3. WEntered'[c] = None
      BY <1>2, <3>2 DEF Channels
    <3> QED BY <1>1, <1>7, <2>3, <2>4, <3>3 DEF SP!Open
  <2>5. CASE ~SP!IsTail(Head(WQueue[d]))
    <3>1. WTable'[d] = c
      BY <1>3, <2>2, <2>5
    <3>2. WEntered'[c] = open'[d]
      BY <1>6, <3>1
    <3>3. SP!Leaves(d)
      BY <2>2 DEF SP!Leaves
    <3>4. open'[d] = SP!Open(Head(WQueue[d]))
      BY <3>3, StepLeft
    <3> QED BY <1>1, <1>7, <2>3, <3>2, <3>4
  <2> QED BY <2>4, <2>5
<1>8. CASE Coming(c) = None
  <2>1. ASSUME NEW e \in Channels PROVE WHop'[e] # c
    <3> SUFFICES ASSUME WHop'[e] = c PROVE FALSE
      OBVIOUS
    <3>1. Coming(c) \in WFlits
      BY HopArrives
    <3> QED BY <1>8, <3>1, NetworkAssumption
  <2>2. CASE \E e \in Channels : SP!Granted(e) = c
    <3>1. PICK e \in Channels : SP!Granted(e) = c
      BY <2>2
    <3>2. WHop'[e] = None
      BY <2>1, <3>1 DEF SP!Granted
    <3>3. WTable'[e] = c
      BY <1>3, <3>1, <3>2
    <3>4. e \in RouterChannels /\ WEntered'[c] = open'[e]
      BY <1>6, <3>3
    <3>5. e[2] # 0
      <4>1. SP!Granted(e) = View(e[1], tabs[e[1]], Con(e))
        BY GrantedView
      <4>2. tabs[e[1]] \in Hops(e[1])
        <5>1. e[1] \in Nodes /\ Updated(e[1], router[e[1]], Signals(e[1]), tabs[e[1]], routed[e[1]])
          BY ChannelParts DEF Parts
        <5> QED BY <5>1, UpdatedTables
      <4> QED BY <1>1, <3>1, <4>1, <4>2, ViewParts
    <3>6. ~SP!Leaves(e)
      BY <3>2, <3>5, EjectsAre DEF SP!Leaves
    <3>7. open'[e] = open[e]
      BY <3>6, StepLeft
    <3>8. WEntered[c] = open[e]
      <4>1. SP!Granted(e) # None
        BY <1>1, <3>1
      <4>2. WEntered[SP!Granted(e)] = open[e]
        BY <4>1, WormholeAssumed, StepGrants, SP!GrantedTied
      <4> QED BY <3>1, <4>2
    <3> QED BY <1>1, <1>8, <3>4, <3>7, <3>8
  <2>3. CASE \A e \in Channels : SP!Granted(e) # c
    <3>1. WEntered'[c] = None
      BY <1>2, <1>4, <2>3 DEF Channels
    <3>2. WEntered[c] = None
      <4>1. CASE \E d \in Channels : WTable[d] = c
        <5>1. PICK d \in Channels : WTable[d] = c
          BY <4>1
        <5>2. WQueue[d] # <<>> /\ SP!IsHead(Head(WQueue[d]))
          BY <2>3, <5>1, StepReserve DEF SP!Reserve
        <5>3. open[d] \in SP!MaybeFlit /\ WQueue[d] \in Seq(WFlits) /\ SP!Chain(open[d], WQueue[d])
          BY DEF SP!WInv, SP!WTypeOK, SP!PacketsContiguous
        <5>4. SP!Follows(open[d], Head(WQueue[d])) /\ Head(WQueue[d]) \in WFlits
          BY <5>2, <5>3, WormholeAssumed, SP!ChainTail
        <5>5. open[d] = None
          BY <5>2, <5>3, <5>4, WormholeAssumed, SP!HeadFollowsNothing
        <5>6. WEntered[WTable[d]] = open[d]
          BY <1>1, <5>1 DEF SP!WInv, SP!Tied
        <5> QED BY <5>1, <5>5, <5>6
      <4>2. CASE \A d \in Channels : WTable[d] # c
        BY <4>2 DEF WEntered, Channels
      <4> QED BY <4>1, <4>2
    <3> QED BY <1>1, <1>8, <3>1, <3>2
  <2> QED BY <2>2, <2>3
<1> QED BY <1>7, <1>8

LEMMA StepMove ==
  ASSUME Typed, Typed', SP!WInv, NEW ready, NEW routed, NEW tabs, Parts(ready, routed, tabs)
  PROVE  SP!Move
<1>1. WQueue' = [c \in Channels |-> IF SP!Arrival(c) = None THEN SP!Remains(c)
                                    ELSE Append(SP!Remains(c), SP!Arrival(c))]
  <2>1. WQueue' = [c \in Channels |-> WQueue'[c]]
    BY DEF WQueue
  <2> QED BY <2>1, StepQueue
<1>2. open' = [c \in Channels |-> IF SP!Leaves(c) THEN SP!Open(Head(WQueue[c])) ELSE open[c]]
  <2>1. open' = [c \in Channels |-> open'[c]]
    BY DEF Parts
  <2> QED BY <2>1, StepLeft
<1>3. WEntered' = [c \in Channels |-> IF SP!Arrival(c) = None THEN WEntered[c]
                                      ELSE SP!Open(SP!Arrival(c))]
  <2>1. WEntered' = [c \in Channels |-> WEntered'[c]]
    BY DEF WEntered
  <2> QED BY <2>1, StepEnteredInjects, StepEnteredOthers
<1> QED BY <1>1, <1>2, <1>3 DEF SP!Move
-----------------------------------------------------------------------------
\* What processors have sent is a flit or nothing.
LEMMA InjectedTyped == Typed => WInjected \in [WInjects -> SP!MaybeFlit]
<1> SUFFICES ASSUME Typed PROVE WInjected \in [WInjects -> SP!MaybeFlit]
  OBVIOUS
<1>1. ASSUME NEW c \in WInjects PROVE WInjected[c] \in WFlits \cup {None}
  <2> DEFINE w == wire[<<c[1], c[2]>>]
  <2>1. w \in MaybeWire
    BY InjectChannel DEF Typed
  <2>2. WInjected[c] = IF w # None /\ w.vc = c[3] THEN w.flit ELSE None
    BY DEF WInjected
  <2> HIDE DEF w
  <2> QED BY <2>1, <2>2 DEF MaybeWire, Wires
<1>2. WInjected = [c \in WInjects |-> WInjected[c]]
  BY DEF WInjected
<1> QED BY <1>1, <1>2 DEF SP!MaybeFlit

LEMMA NextInjectedTyped == Typed' => WInjected' \in [WInjects -> SP!MaybeFlit]
<1>1. Typed' => (WInjected \in [WInjects -> SP!MaybeFlit])'
  BY InjectedTyped, PTL
<1> QED BY <1>1 DEF SP!MaybeFlit

(***************************************************************************)
(* A cycle is a step of wormhole switching.                                *)
(***************************************************************************)
LEMMA CycleSwitches == Typed /\ SP!WInv /\ Cycle => SP!Next
<1> SUFFICES ASSUME Typed, SP!WInv, Cycle PROVE SP!Next
  OBVIOUS
<1>1. PICK ready, routed, tabs : Parts(ready, routed, tabs)
  BY CycleParts
<1>2. Typed'
  BY CycleTyped
<1>3. SP!Bounded
  BY DEF SP!WInv
<1>4. WHop' \in SP!Routes /\ WTable' \in SP!Routes /\ WInjected' \in [WInjects -> SP!MaybeFlit]
  BY <1>2, NextViewsRoute, NextInjectedTyped
<1>5. SP!Forward /\ SP!Reserve /\ SP!Release /\ SP!Inject
  BY <1>1, <1>3, StepForward, StepReserve, StepRelease, StepInject
<1>6. SP!Move
  BY <1>1, <1>2, StepMove
<1> QED BY <1>4, <1>5, <1>6 DEF SP!Next

\* A clock edge under reset, and a stutter of the network, are stutters.
LEMMA ResetStutters == Typed /\ ResetCycle => UNCHANGED SP!wvars
<1> SUFFICES ASSUME Typed, ResetCycle PROVE UNCHANGED SP!wvars
  OBVIOUS
<1>1. wire' = wire /\ router' = router /\ proc' = proc /\ hop' = hop /\ open' = open
  BY ResetTyped DEF ResetCycle
<1> QED BY <1>1 DEF SP!wvars, WQueue, WTable, WHop, WInjected, WEntered, WireTo

LEMMA NetworkStutters == UNCHANGED netvars => UNCHANGED SP!wvars
  BY DEF netvars, SP!wvars, WQueue, WTable, WHop, WInjected, WEntered, WireTo

LEMMA InitSwitches == Init => SP!Init
<1> SUFFICES ASSUME Init PROVE SP!Init
  OBVIOUS
<1>1. \A c \in Channels : WireTo(c) = <<>>
  BY ChannelParts DEF Init, WireTo
<1>2. WQueue = [c \in Channels |-> <<>>]
  <2>1. ASSUME NEW c \in Channels, c[2] # 0 PROVE router[c[1]].buf[c[2]][c[3]] = <<>>
    <3>1. c[1] \in Nodes /\ c[2] \in Ports(c[1]) /\ c[3] \in VCs
      BY <2>1, ChannelParts
    <3> QED BY <3>1 DEF Init, NewRouter
  <2> QED BY <1>1, <2>1 DEF WQueue
<1>3. WTable = [c \in Channels |-> None] /\ WHop = [c \in Channels |-> None]
  <2>1. ASSUME NEW c \in Channels PROVE router[c[1]].table = <<>> /\ hop[c[1]] = <<>>
    BY ChannelParts DEF Init, NewRouter
  <2>2. \A x : x \notin DOMAIN <<>>
    OBVIOUS
  <2> QED BY <2>1, <2>2 DEF WTable, WHop
<1>4. WInjected = [c \in WInjects |-> None]
  BY InjectChannel DEF Init, WInjected
<1>5. WEntered = [c \in Channels |-> None]
  <2>1. ASSUME NEW c \in WInjects PROVE proc[c[1]].packet = None
    BY InjectChannel DEF Init, Idle
  <2>2. \A c \in Channels, d \in RouterChannels : WTable[d] # c
    BY <1>3, ChannelsAreNot DEF Channels
  <2> QED BY <2>1, <2>2 DEF WEntered
<1>6. open = [c \in Channels |-> None]
  BY DEF Init
<1> QED BY <1>2, <1>3, <1>4, <1>5, <1>6 DEF SP!Init

(***************************************************************************)
(* The inductive invariant of the network: its types, and the invariant of *)
(* wormhole switching for its channels.                                    *)
(***************************************************************************)
NetInv == Typed /\ SP!RInv

LEMMA InitNetInv == Init => NetInv
<1>1. SP!Init => SP!RInv
  BY WormholeAssumed, SP!InitRInv
<1> QED BY <1>1, InitTyped, InitSwitches DEF NetInv

LEMMA NextSwitches == NetInv /\ [Next]_netvars => [SP!Next]_(SP!wvars)
<1>1. NetInv => Typed /\ SP!WInv
  BY DEF NetInv, SP!RInv
<1>2. [Next]_netvars => ResetCycle \/ Cycle \/ UNCHANGED netvars
  BY DEF Next
<1> QED BY <1>1, <1>2, CycleSwitches, ResetStutters, NetworkStutters

LEMMA NextNetInv == NetInv /\ [Next]_netvars => NetInv'
<1>1. SP!RInv /\ [SP!Next]_(SP!wvars) => SP!RInv'
  BY WormholeAssumed, SP!NextRInv
<1> QED BY <1>1, NextTyped, NextSwitches DEF NetInv

THEOREM NetworkInvariant == Spec => []NetInv
  BY InitNetInv, NextNetInv, PTL DEF Spec
-----------------------------------------------------------------------------
\* The formulas of the two instances of Wormhole, here and in Network, are the same.
LEMMA SameInit == SP!Init = Switching!Init
  BY DEF SP!Init, Switching!Init
LEMMA SameStutter == (UNCHANGED SP!wvars) = (UNCHANGED Switching!wvars)
  BY DEF SP!wvars, Switching!wvars
LEMMA SameRoutes == SP!Routes = Switching!Routes
  BY DEF SP!Routes, Switching!Routes, SP!MaybeChannel, Switching!MaybeChannel
LEMMA SameForward == SP!Forward = Switching!Forward
  BY DEF SP!Forward, Switching!Forward
LEMMA SameReserve == SP!Reserve = Switching!Reserve
  BY DEF SP!Reserve, Switching!Reserve, SP!Granted, Switching!Granted, SP!IsHead, Switching!IsHead
LEMMA SameRelease == SP!Release = Switching!Release
  BY DEF SP!Release, Switching!Release, SP!Granted, Switching!Granted, SP!IsTail, Switching!IsTail
LEMMA SameInject == SP!Inject = Switching!Inject
  BY DEF SP!Inject, Switching!Inject, SP!Follows, Switching!Follows, SP!IsHead, Switching!IsHead
LEMMA SameMove == SP!Move = Switching!Move
  BY DEF SP!Move, Switching!Move, SP!Leaves, Switching!Leaves, SP!Arrival, Switching!Arrival,
         SP!Remains, Switching!Remains, SP!Open, Switching!Open, SP!Ejects, Switching!Ejects,
         SP!IsTail, Switching!IsTail
LEMMA SameNext == SP!Next = Switching!Next
  BY SameRoutes, SameForward, SameReserve, SameRelease, SameInject, SameMove
     DEF SP!Next, Switching!Next, SP!MaybeFlit, Switching!MaybeFlit

(***************************************************************************)
(* The routers and processors implement wormhole switching, whatever the   *)
(* graph, the tables, the routing algorithm, the selection strategy, the   *)
(* virtual channels, the buffer depth and the packet lengths.              *)
(***************************************************************************)
THEOREM NetworkSwitches == Spec => ImplementsWormhole
<1>1. Init => Switching!Init
  BY InitSwitches, SameInit
<1>2. NetInv /\ [Next]_netvars => [Switching!Next]_(Switching!wvars)
  BY NextSwitches, SameNext, SameStutter
<1> QED BY <1>1, <1>2, NetworkInvariant, PTL DEF Spec, ImplementsWormhole, Switching!Spec

(***************************************************************************)
(* On every virtual channel of the network packets are whole, one after    *)
(* another, never interleaved, broken or reordered.                        *)
(***************************************************************************)
THEOREM NetworkContiguous == Spec => []Switching!PacketsContiguous
<1>1. NetInv => SP!PacketsContiguous
  BY DEF NetInv, SP!RInv, SP!WInv
<1>2. SP!PacketsContiguous = Switching!PacketsContiguous
  BY DEF SP!PacketsContiguous, Switching!PacketsContiguous, SP!Chain, Switching!Chain,
         SP!Follows, Switching!Follows, SP!Open, Switching!Open, SP!IsHead, Switching!IsHead,
         SP!IsTail, Switching!IsTail
<1>3. NetInv => Switching!PacketsContiguous
  BY <1>1, <1>2
<1> QED BY <1>3, NetworkInvariant, PTL

\* The buffer behind a channel is within its depth, with what is on the wire to it.
LEMMA BuffersWithin ==
  ASSUME NetInv, NEW n \in Nodes, NEW p \in Ports(n), NEW v \in VCs
  PROVE  /\ Len(router[n].buf[p][v]) <= Depth
         /\ wire[<<n, p>>] # None /\ wire[<<n, p>>].vc = v => Len(router[n].buf[p][v]) < Depth
<1> DEFINE c == <<n, p, v>>
           b == router[n].buf[p][v]
           w == WireTo(c)
<1>1. c \in Channels /\ c[2] # 0 /\ Buf(c) = b
  BY Numbers DEF Channels, RouterChannels, Buf
<1>2. Typed /\ SP!Bounded
  BY DEF NetInv, SP!RInv, SP!WInv
<1>3. b \in Seq(WFlits) /\ w \in Seq(WFlits) /\ WQueue[c] = b \o w
  BY <1>1, <1>2, QueueParts, WireToParts
<1>4. Len(WQueue[c]) <= Depth
  BY <1>1, <1>2 DEF SP!Bounded
<1>5. w = IF wire[<<n, p>>] # None /\ wire[<<n, p>>].vc = v THEN <<wire[<<n, p>>].flit>> ELSE <<>>
  BY DEF WireTo
<1> HIDE DEF c, b, w
<1>6. Len(b) \in Nat /\ Len(w) \in Nat /\ Len(b \o w) = Len(b) + Len(w)
  BY <1>3
<1>7. \A i, j, k \in Nat : i + j <= k => i <= k /\ (j = 1 => i < k)
  OBVIOUS
<1>8. Len(b) <= Depth /\ (Len(w) = 1 => Len(b) < Depth)
  BY <1>3, <1>4, <1>6, <1>7, Numbers
<1>9. wire[<<n, p>>] # None /\ wire[<<n, p>>].vc = v => Len(w) = 1
  BY <1>5
<1> QED BY <1>8, <1>9 DEF b

(***************************************************************************)
(* Relay::Receive never throws: a flit is only ever sent to where there is *)
(* room for it.                                                            *)
(***************************************************************************)
THEOREM NetworkNoOverflow == Spec => []NoOverflow
<1>1. NetInv => NoOverflow
  <2> SUFFICES ASSUME NetInv, NEW r \in Relays, r[2] # 0, wire[r] # None
               PROVE  wire[r].vc \in VCs /\ Len(router[r[1]].buf[r[2]][wire[r].vc]) < Depth
    BY DEF NoOverflow
  <2>1. r[1] \in Nodes /\ r[2] \in Ports(r[1]) /\ r = <<r[1], r[2]>>
    BY RelaysBound
  <2>2. wire[r].vc \in VCs
    BY DEF NetInv, Typed, MaybeWire, Wires
  <2> QED BY <2>1, <2>2, BuffersWithin
<1> QED BY <1>1, NetworkInvariant, PTL

(***************************************************************************)
(* The round robin stays on the ports, the buffers within their depth, and *)
(* the queue of a processor within what it produced.                       *)
(***************************************************************************)
THEOREM NetworkTypeOK == Spec => []TypeOK
<1>1. NetInv => TypeOK
  <2> SUFFICES ASSUME NetInv PROVE TypeOK
    OBVIOUS
  <2>1. Typed
    BY DEF NetInv
  <2>2. reset \in BOOLEAN /\ DOMAIN router = Nodes /\ DOMAIN wire = Relays /\ DOMAIN open = Channels
    BY <2>1 DEF Typed
  <2>3. ASSUME NEW n \in Nodes
        PROVE  /\ router[n].start \in Ports(n) /\ router[n].vc \in VCs
               /\ \A p \in Ports(n), v \in VCs : Len(router[n].buf[p][v]) <= Depth
               /\ proc[n].waiting \in 0 .. proc[n].made
               /\ proc[n].left \in 0 .. Max(Lengths)
    <3>1. router[n].start \in Ports(n) /\ router[n].vc \in VCs
      BY <2>1 DEF Typed, Routers
    <3>2. ProcessorOK(proc[n])
      BY <2>1 DEF Typed
    <3>3. proc[n].waiting \in 0 .. proc[n].made
      BY <3>2 DEF ProcessorOK, Processors
    <3>4. Max(Lengths) \in Lengths /\ (\A x \in Lengths : x <= Max(Lengths)) /\ Lengths \subseteq Nat
      BY NetworkAssumption, MaxFinite
    <3>5. proc[n].left \in 0 .. Max(Lengths)
      <4> DEFINE l == proc[n].left
                 m == Max(Lengths)
      <4>1. l \in Nat /\ proc[n].packet \in Packets \cup {None} /\ (proc[n].packet = None => l = 0)
            /\ (proc[n].packet # None => l <= proc[n].packet.len)
        BY <3>2 DEF ProcessorOK, Processors
      <4>2. \A d \in Packets : d.len \in Lengths
        BY DEF Packets
      <4> HIDE DEF l, m
      <4>3. l = 0 \/ \E x \in Lengths : l <= x
        BY <4>1, <4>2
      <4>4. m \in Nat /\ \A x \in Lengths : x \in Nat /\ x <= m
        BY <3>4 DEF m
      <4>5. l \in 0 .. m
        BY <4>1, <4>3, <4>4
      <4> QED BY <4>5 DEF l, m
    <3> QED BY <3>1, <3>3, <3>5, BuffersWithin
  <2> QED BY <2>2, <2>3 DEF TypeOK
<1> QED BY <1>1, NetworkInvariant, PTL
-----------------------------------------------------------------------------

\* The destination of the packet that channel c is sending, or would send next.
Aim(c) == IF open[c] # None THEN open[c].dst ELSE Head(WQueue[c]).dst

\* A reservation leads to the processor just for the packets that end there.
Aimed ==
    \A c \in Channels : Con(c) \in DOMAIN router[c[1]].table =>
        (router[c[1]].table[Con(c)].port = LocalPort(c[1]) <=> Aim(c) = c[1])

\* What is on the wire to a processor is for it.
Delivered == \A n \in Nodes : wire[<<n, 0>>] # None => wire[<<n, 0>>].flit.dst = n

DInv == NetInv /\ Aimed /\ Delivered
-----------------------------------------------------------------------------
\* The flits of a packet are for the same processor.
LEMMA HeadAims ==
  ASSUME NetInv, NEW c \in Channels, WQueue[c] # <<>>
  PROVE  Aim(c) = Head(WQueue[c]).dst
<1> DEFINE f == Head(WQueue[c])
           e == open[c]
<1>1. e \in SP!MaybeFlit /\ WQueue[c] \in Seq(WFlits) /\ SP!Chain(e, WQueue[c])
  BY DEF NetInv, SP!RInv, SP!WInv, SP!WTypeOK, SP!PacketsContiguous
<1>2. SP!Follows(e, f)
  BY <1>1, WormholeAssumed, SP!ChainTail
<1> HIDE DEF f
<1>3. e # None => f.dst = e.dst
  <2> SUFFICES ASSUME e # None PROVE f.dst = e.dst
    OBVIOUS
  <2>1. e \in WFlits
    BY <1>1 DEF SP!MaybeFlit
  <2> HIDE DEF e
  <2>2. f = [e EXCEPT !.seq = f.seq]
    BY <1>2 DEF SP!Follows
  <2> DEFINE s == f.seq
  <2> HIDE DEF s
  <2>3. f = [e EXCEPT !.seq = s]
    BY <2>2 DEF s
  <2> QED BY <2>1, <2>3 DEF WFlits
<1> QED BY <1>3 DEF Aim, f

\* The reservations as they are when flits move lead where the packets go, and
\* belong to a packet.
LEMMA GrantedAims ==
  ASSUME NetInv, Aimed, NEW ready, NEW routed, NEW tabs, Parts(ready, routed, tabs),
         NEW c \in Channels, Con(c) \in DOMAIN tabs[c[1]]
  PROVE  /\ tabs[c[1]][Con(c)].port = LocalPort(c[1]) <=> Aim(c) = c[1]
         /\ open[c] = None => WQueue[c] # <<>>
         /\ c[2] # 0
<1> DEFINE n == c[1]
           x == Con(c)
           t == tabs[n]
           u == router[n].table
<1>1. n \in Nodes /\ Updated(n, router[n], Signals(n), t, routed[n]) /\ Typed /\ SP!HeldFor
  BY ChannelParts DEF Parts, NetInv, SP!RInv
<1>2. t \in Hops(n) /\ u \in Hops(n)
  BY <1>1, UpdatedTables DEF Typed, Routers, Tables
<1>3. c[2] # 0
  BY <1>2, ViewParts
<1>4. \/ x \in DOMAIN u /\ t[x] = u[x]
      \/ HeadTakes(n, router[n], x, t[x])
  BY <1>1 DEF Updated, Reserved
<1>5. CASE x \in DOMAIN u /\ t[x] = u[x]
  <2>1. WTable[c] # None
    BY <1>2, <1>5, NowViews, ViewParts
  <2>2. open[c] = None => WQueue[c] # <<>>
    BY <1>1, <2>1 DEF SP!HeldFor
  <2> QED BY <1>3, <1>5, <2>2 DEF Aimed
<1>6. CASE HeadTakes(n, router[n], x, t[x])
  <2>1. Waits(router[n], x) /\ t[x] \in Answers(n, Foremost(router[n], x).dst)
    BY <1>6 DEF HeadTakes
  <2>2. WQueue[c] # <<>> /\ Head(WQueue[c]) = Foremost(router[n], x)
    BY <1>1, <1>3, <2>1, WaitsQueued
  <2>3. Aim(c) = Foremost(router[n], x).dst
    BY <2>2, HeadAims
  <2> QED BY <1>3, <2>1, <2>2, <2>3 DEF Answers
<1> QED BY <1>4, <1>5, <1>6

\* While a reservation stays, so does what it is for.
LEMMA AimStays ==
  ASSUME NetInv, Aimed, Typed', NEW ready, NEW routed, NEW tabs, Parts(ready, routed, tabs),
         NEW c \in Channels, Con(c) \in DOMAIN routed[c[1]].r.table
  PROVE  (Aim(c))' = Aim(c)
<1> DEFINE n == c[1]
           x == Con(c)
           o == routed[n]
<1>1. n \in Nodes /\ Updated(n, router[n], Signals(n), tabs[n], o) /\ Typed
  BY ChannelParts DEF Parts, NetInv
<1>2. x \in DOMAIN tabs[n] /\ (x \in DOMAIN o.hop => ~IsTail(Foremost(router[n], x)))
  <2>1. DOMAIN o.r.table = {y \in DOMAIN tabs[n] : y \in DOMAIN o.hop => ~IsTail(Foremost(router[n], y))}
    BY <1>1, UpdatedTables
  <2> HIDE DEF x, o, n
  <2> QED BY <2>1 DEF x, o, n
<1>3. c[2] # 0 /\ (open[c] = None => WQueue[c] # <<>>)
  BY <1>2, GrantedAims
<1>4. SP!Leaves(c) <=> x \in DOMAIN o.hop
  BY <1>1, <1>3, LeavesAndRemains
<1>5. open'[c] = IF SP!Leaves(c) THEN SP!Open(Head(WQueue[c])) ELSE open[c]
  BY <1>1, StepLeft
<1>6. (Aim(c))' = IF open'[c] # None THEN open'[c].dst ELSE Head(WQueue'[c]).dst
  BY DEF Aim
<1>7. CASE x \in DOMAIN o.hop
  <2>1. WHop'[c] # None
    BY <1>1, <1>7, HoppingViews
  <2>2. WQueue[c] # <<>> /\ Head(WQueue[c]) = Foremost(router[n], x) /\ Head(WQueue[c]) \in WFlits
    BY <1>1, <1>3, <2>1, HoppingFront, WaitsQueued
  <2>3. ~SP!IsTail(Head(WQueue[c]))
    BY <1>2, <1>7, <2>2 DEF SP!IsTail, IsTail
  <2>4. open'[c] = Head(WQueue[c]) /\ open'[c] # None
    BY <1>4, <1>5, <1>7, <2>2, <2>3, NetworkAssumption DEF SP!Open
  <2>5. Aim(c) = Head(WQueue[c]).dst
    BY <2>2, HeadAims
  <2> QED BY <1>6, <2>4, <2>5
<1>8. CASE x \notin DOMAIN o.hop
  <2>1. open'[c] = open[c]
    BY <1>4, <1>5, <1>8
  <2>2. ASSUME open[c] = None PROVE Head(WQueue'[c]) = Head(WQueue[c])
    <3>1. SP!Remains(c) = WQueue[c]
      BY <1>4, <1>8 DEF SP!Remains
    <3>2. WQueue'[c] = WQueue[c] \/ WQueue'[c] = Append(WQueue[c], SP!Arrival(c))
      BY <1>1, <3>1, StepQueue
    <3>3. WQueue[c] \in Seq(WFlits) /\ WQueue[c] # <<>>
      BY <1>1, <1>3, <2>2, QueueParts
    <3>4. \A f : Head(Append(WQueue[c], f)) = Head(WQueue[c])
      BY <3>3
    <3> QED BY <3>2, <3>4
  <2> QED BY <1>6, <2>1, <2>2 DEF Aim
<1> QED BY <1>7, <1>8

\* A cycle keeps reservations to where the packets go.
LEMMA CycleAimed ==
  ASSUME DInv, Typed', NEW ready, NEW routed, NEW tabs, Parts(ready, routed, tabs)
  PROVE  Aimed'
<1> SUFFICES ASSUME NEW c \in Channels, Con(c) \in DOMAIN router'[c[1]].table
             PROVE  router'[c[1]].table[Con(c)].port = LocalPort(c[1]) <=> (Aim(c))' = c[1]
  BY DEF Aimed, Con
<1> DEFINE n == c[1]
           o == routed[n]
<1>1. n \in Nodes /\ Updated(n, router[n], Signals(n), tabs[n], o) /\ router'[n] = o.r
  BY ChannelParts DEF Parts
<1>2. /\ Con(c) \in DOMAIN tabs[n] /\ o.r.table[Con(c)] = tabs[n][Con(c)]
  <2>1. /\ DOMAIN o.r.table = {y \in DOMAIN tabs[n] : y \in DOMAIN o.hop => ~IsTail(Foremost(router[n], y))}
        /\ \A y \in DOMAIN o.r.table : o.r.table[y] = tabs[n][y]
    BY <1>1, UpdatedTables
  <2> HIDE DEF o
  <2> QED BY <1>1, <2>1
<1>3. tabs[n][Con(c)].port = LocalPort(n) <=> Aim(c) = n
  BY <1>2, GrantedAims DEF DInv
<1>4. (Aim(c))' = Aim(c)
  BY <1>1, AimStays DEF DInv
<1> QED BY <1>1, <1>2, <1>3, <1>4

\* What a cycle puts on the wire to a processor is for it.
LEMMA CycleDelivered ==
  ASSUME DInv, Typed', NEW ready, NEW routed, NEW tabs, Parts(ready, routed, tabs)
  PROVE  Delivered'
<1> SUFFICES ASSUME NEW n \in Nodes, wire'[<<n, 0>>] # None
             PROVE  wire'[<<n, 0>>].flit.dst = n
  BY DEF Delivered
<1> DEFINE c == <<n, 0, 0>>
<1>1. c \in Channels /\ c \notin WInjects
  BY Numbers DEF Channels, DeliveryChannels, WInjects
<1>2. wire'[<<n, 0>>].vc = 0
  BY DEF Typed
<1>3. Coming(c) = wire'[<<n, 0>>].flit /\ Coming(c) # None
  BY <1>1, <1>2, ComingTyped
<1>4. Typed
  BY DEF DInv, NetInv
<1>5. PICK d \in Channels : WHop'[d] = c
  <2> HIDE DEF c
  <2> QED BY <1>1, <1>3, <1>4, ComingHops
<1>6. WHop'[d] # None /\ Coming(c) = Head(WQueue[d])
  <2> HIDE DEF c
  <2> QED BY <1>1, <1>4, <1>5, ChannelsAreNot, HopArrives
<1> DEFINE m == d[1]
           y == tabs[m][Con(d)]
<1>7. Con(d) \in DOMAIN tabs[m] /\ y \in OutConns(m) /\ c = Downstream(m, y) /\ m \in Nodes
  <2>1. /\ Con(d) \in DOMAIN tabs[d[1]] /\ tabs[d[1]][Con(d)] \in OutConns(d[1])
        /\ WHop'[d] = Downstream(d[1], tabs[d[1]][Con(d)])
    BY <1>6, HoppingViews
  <2> QED BY <1>5, <2>1, ChannelParts
<1>8. Bound[<<n, 0>>] = <<m, y.port>>
  <2>1. Bound[<<Downstream(m, y)[1], Downstream(m, y)[2]>>] = <<m, y.port>>
    BY <1>7, DownstreamParts
  <2> HIDE DEF m, y
  <2> QED BY <1>7, <2>1
<1>9. m = n /\ y.port = LocalPort(n)
  <2>1. Bound[<<n, 0>>] = <<n, LocalPort(n)>>
    <3>1. <<n, 0>> \in Relays
      BY DEF Relays
    <3> QED BY <3>1, RelaysBound
  <2> QED BY <1>8, <2>1
<1>10. Aim(d) = m
  BY <1>7, <1>9, GrantedAims DEF DInv
<1>11. WQueue[d] # <<>>
  BY <1>4, <1>6, HoppingFront, WaitsQueued
<1>12. Aim(d) = Head(WQueue[d]).dst
  BY <1>11, HeadAims DEF DInv
<1> QED BY <1>3, <1>6, <1>9, <1>10, <1>12

\* Every step keeps the invariant, which holds at the start.
LEMMA NextDInv == DInv /\ [Next]_netvars => DInv'
<1> SUFFICES ASSUME DInv, [Next]_netvars PROVE DInv'
  OBVIOUS
<1>1. NetInv' /\ Typed'
  BY NextNetInv DEF DInv, NetInv
<1>2. CASE Cycle
  <2>1. PICK ready, routed, tabs : Parts(ready, routed, tabs)
    BY <1>2, CycleParts DEF DInv, NetInv
  <2> QED BY <1>1, <2>1, CycleAimed, CycleDelivered DEF DInv
<1>3. CASE ResetCycle
  <2>1. wire' = wire /\ router' = router /\ open' = open
    BY <1>3, ResetTyped DEF DInv, NetInv, ResetCycle
  <2>2. WQueue' = WQueue
    BY <2>1 DEF WQueue, WireTo
  <2> QED BY <1>1, <2>1, <2>2 DEF DInv, Aimed, Aim, Delivered, Con
<1>4. CASE UNCHANGED netvars
  <2>1. WQueue' = WQueue
    BY <1>4 DEF netvars, WQueue, WireTo
  <2> QED BY <1>1, <1>4, <2>1 DEF netvars, DInv, Aimed, Aim, Delivered, Con
<1> QED BY <1>2, <1>3, <1>4 DEF Next

LEMMA InitDInv == Init => DInv
<1> SUFFICES ASSUME Init PROVE DInv
  OBVIOUS
<1>1. Aimed
  <2>1. \A c \in Channels : router[c[1]].table = <<>>
    BY ChannelParts DEF Init, NewRouter
  <2>2. \A x : x \notin DOMAIN <<>>
    OBVIOUS
  <2> QED BY <2>1, <2>2 DEF Aimed
<1>2. Delivered
  <2>1. \A n \in Nodes : <<n, 0>> \in Relays
    BY DEF Relays
  <2> QED BY <2>1 DEF Init, Delivered
<1> QED BY <1>1, <1>2, InitNetInv DEF DInv

(***************************************************************************)
(* Processor::ReceiveFlit never throws: whatever tables, algorithm and     *)
(* strategy are configured, a flit that reaches a processor is for it.     *)
(***************************************************************************)
THEOREM NetworkNoMisdelivery == Spec => []NoMisdelivery
<1>1. DInv => NoMisdelivery
  BY DEF DInv, NetInv, Typed, Delivered, NoMisdelivery
<1> QED BY <1>1, InitDInv, NextDInv, PTL DEF Spec
-----------------------------------------------------------------------------
\* k is the total of the numbers g[x], x in S: there is a function h of subsets that
\* adds them one by one.
IsTotal(h, S, g) ==
    /\ h \in [SUBSET S -> Nat]
    /\ \A s \in SUBSET S : h[s] = IF s = {} THEN 0 ELSE g[Pick(s)] + h[s \ {Pick(s)}]

Totals(S, g, k) ==
    IsFiniteSet(S) /\ g \in [S -> Nat] /\ \E h : IsTotal(h, S, g) /\ k = h[S]

\* Every function to numbers has a total.
LEMMA TotalExists ==
  ASSUME NEW S, IsFiniteSet(S), NEW g \in [S -> Nat]
  PROVE  \E h : IsTotal(h, S, g)
<1> DEFINE step == [x \in S |-> [u \in Nat |-> g[x] + u]]
<1>1. step \in [S -> [Nat -> Nat]]
  OBVIOUS
<1>2. PICK h : IsWalk(h, S, Nat, 0, step)
  <2> HIDE DEF step
  <2> QED BY <1>1, WalkExists
<1>3. ASSUME NEW s \in SUBSET S, s # {} PROVE h[s] = g[Pick(s)] + h[s \ {Pick(s)}]
  <2>1. Pick(s) \in S /\ h[s \ {Pick(s)}] \in Nat
    BY <1>2, <1>3 DEF IsWalk, Pick
  <2>2. h[s] = step[Pick(s)][h[s \ {Pick(s)}]]
    <3> HIDE DEF step
    <3> QED BY <1>2, <1>3 DEF IsWalk
  <2> QED BY <2>1, <2>2
<1>4. h \in [SUBSET S -> Nat] /\ h[{}] = 0
  <2> HIDE DEF step
  <2> QED BY <1>2 DEF IsWalk
<1> QED BY <1>3, <1>4 DEF IsTotal

\* Without its first element a total is less by that element's number.
LEMMA TotalStep ==
  ASSUME NEW S, NEW g \in [S -> Nat], NEW h, IsTotal(h, S, g)
  PROVE  \A s \in SUBSET S : s # {} =>
            /\ Pick(s) \in s /\ s \ {Pick(s)} \in SUBSET S
            /\ h[s] = g[Pick(s)] + h[s \ {Pick(s)}]
            /\ g[Pick(s)] \in Nat /\ h[s \ {Pick(s)}] \in Nat
<1> SUFFICES ASSUME NEW s \in SUBSET S, s # {}
             PROVE  /\ Pick(s) \in s /\ s \ {Pick(s)} \in SUBSET S
                    /\ h[s] = g[Pick(s)] + h[s \ {Pick(s)}]
                    /\ g[Pick(s)] \in Nat /\ h[s \ {Pick(s)}] \in Nat
  OBVIOUS
<1>1. Pick(s) \in s
  BY DEF Pick
<1> QED BY <1>1 DEF IsTotal

\* What balances element by element balances in total.
LEMMA TotalsBalance ==
  ASSUME NEW S, NEW a, NEW b, NEW c, NEW d, NEW A, NEW B, NEW C, NEW D,
         Totals(S, a, A), Totals(S, b, B), Totals(S, c, C), Totals(S, d, D),
         \A x \in S : a[x] + b[x] = c[x] + d[x]
  PROVE  A \in Nat /\ B \in Nat /\ C \in Nat /\ D \in Nat /\ A + B = C + D
<1>0. /\ \A s \in SUBSET S : s # {} => Pick(s) \in S /\ s \ {Pick(s)} \in SUBSET S
      /\ IsFiniteSet(S)
      /\ a \in [S -> Nat] /\ b \in [S -> Nat] /\ c \in [S -> Nat] /\ d \in [S -> Nat]
  BY DEF Pick, Totals
<1>1. PICK e : IsTotal(e, S, a) /\ A = e[S]
  BY DEF Totals
<1>2. PICK f : IsTotal(f, S, b) /\ B = f[S]
  BY DEF Totals
<1>3. PICK g : IsTotal(g, S, c) /\ C = g[S]
  BY DEF Totals
<1>4. PICK h : IsTotal(h, S, d) /\ D = h[S]
  BY DEF Totals
<1>5. e[{}] = 0 /\ f[{}] = 0 /\ g[{}] = 0 /\ h[{}] = 0
  BY <1>1, <1>2, <1>3, <1>4 DEF IsTotal
<1>6. \A s \in SUBSET S : s # {} => /\ e[s] = a[Pick(s)] + e[s \ {Pick(s)}]
                                    /\ a[Pick(s)] \in Nat /\ e[s \ {Pick(s)}] \in Nat
  BY <1>0, <1>1 DEF IsTotal
<1>7. \A s \in SUBSET S : s # {} => /\ f[s] = b[Pick(s)] + f[s \ {Pick(s)}]
                                    /\ b[Pick(s)] \in Nat /\ f[s \ {Pick(s)}] \in Nat
  BY <1>0, <1>2 DEF IsTotal
<1>8. \A s \in SUBSET S : s # {} => /\ g[s] = c[Pick(s)] + g[s \ {Pick(s)}]
                                    /\ c[Pick(s)] \in Nat /\ g[s \ {Pick(s)}] \in Nat
  BY <1>0, <1>3 DEF IsTotal
<1>9. \A s \in SUBSET S : s # {} => /\ h[s] = d[Pick(s)] + h[s \ {Pick(s)}]
                                    /\ d[Pick(s)] \in Nat /\ h[s \ {Pick(s)}] \in Nat
  BY <1>0, <1>4 DEF IsTotal
<1>10. ASSUME NEW s \in SUBSET S, s # {}, NEW t, t = s \ {Pick(s)}, e[t] + f[t] = g[t] + h[t]
      PROVE  e[s] + f[s] = g[s] + h[s]
  <2> DEFINE x == Pick(s)
  <2>1. x \in S
    BY <1>10 DEF Pick
  <2>2. e[s] = a[x] + e[t] /\ a[x] \in Nat /\ e[t] \in Nat
    BY <1>6, <1>10, Zenon
  <2>3. f[s] = b[x] + f[t] /\ b[x] \in Nat /\ f[t] \in Nat
    BY <1>7, <1>10, Zenon
  <2>4. g[s] = c[x] + g[t] /\ c[x] \in Nat /\ g[t] \in Nat
    BY <1>8, <1>10, Zenon
  <2>5. h[s] = d[x] + h[t] /\ d[x] \in Nat /\ h[t] \in Nat
    BY <1>9, <1>10, Zenon
  <2>6. a[x] + b[x] = c[x] + d[x]
    BY <2>1, Zenon
  <2> HIDE DEF x
  <2>7. (a[x] + e[t]) + (b[x] + f[t]) = (c[x] + g[t]) + (d[x] + h[t])
    <3>1. e[t] + f[t] = g[t] + h[t]
      BY <1>10, Zenon
    <3> DEFINE k1 == a[x]
               k2 == b[x]
               k3 == c[x]
               k4 == d[x]
               l1 == e[t]
               l2 == f[t]
               l3 == g[t]
               l4 == h[t]
    <3>2. /\ k1 \in Nat /\ k2 \in Nat /\ k3 \in Nat /\ k4 \in Nat
          /\ l1 \in Nat /\ l2 \in Nat /\ l3 \in Nat /\ l4 \in Nat
      BY <2>2, <2>3, <2>4, <2>5, Zenon
    <3>3. k1 + k2 = k3 + k4 /\ l1 + l2 = l3 + l4
      BY <2>6, <3>1, Zenon
    <3> HIDE DEF k1, k2, k3, k4, l1, l2, l3, l4
    <3>4. (k1 + l1) + (k2 + l2) = (k3 + l3) + (k4 + l4)
      BY <3>2, <3>3
    <3> QED BY <3>4 DEF k1, k2, k3, k4, l1, l2, l3, l4
  <2> QED BY <2>2, <2>3, <2>4, <2>5, <2>7, Zenon
<1> DEFINE P == {s \in SUBSET S : e[s] + f[s] = g[s] + h[s]}
<1>11. S \in P
  <2>1. {} \in P
    BY <1>5
  <2>2. \A s \in SUBSET S : s # {} /\ s \ {Pick(s)} \in P => s \in P
    BY <1>10
  <2> HIDE DEF P
  <2> QED BY <1>0, <2>1, <2>2, PickInduction
<1> QED BY <1>1, <1>2, <1>3, <1>4, <1>11 DEF IsTotal

\* A total is zero only if every number is.
LEMMA TotalsZero ==
  ASSUME NEW S, NEW g, Totals(S, g, 0)
  PROVE  \A x \in S : g[x] = 0
<1>0. IsFiniteSet(S) /\ g \in [S -> Nat]
  BY DEF Totals
<1>1. PICK h : IsTotal(h, S, g) /\ h[S] = 0
  BY DEF Totals
<1> DEFINE P == {s \in SUBSET S : h[s] = 0 => \A x \in s : g[x] = 0}
<1>2. {} \in P
  OBVIOUS
<1>3. ASSUME NEW s \in SUBSET S, s # {}, s \ {Pick(s)} \in P PROVE s \in P
  <2>1. /\ Pick(s) \in s /\ s \ {Pick(s)} \in SUBSET S
        /\ h[s] = g[Pick(s)] + h[s \ {Pick(s)}]
        /\ g[Pick(s)] \in Nat /\ h[s \ {Pick(s)}] \in Nat
    BY <1>0, <1>1, <1>3, TotalStep, Zenon
  <2>2. h[s] = 0 => g[Pick(s)] = 0 /\ h[s \ {Pick(s)}] = 0
    BY <2>1
  <2> QED BY <1>3, <2>1, <2>2
<1>4. S \in P
  <2> HIDE DEF P
  <2> QED BY <1>0, <1>2, <1>3, PickInduction
<1> QED BY <1>1, <1>4

\* A fold that adds numbers makes their total.
LEMMA FoldTotals ==
  ASSUME NEW S, IsFiniteSet(S), NEW g \in [S -> Nat], NEW f,
         f = [s \in SUBSET S |-> f[s]], f[{}] = 0,
         \A s \in SUBSET S : s # {} /\ f[s \ {Pick(s)}] \in Nat
                             => f[s] = g[Pick(s)] + f[s \ {Pick(s)}]
  PROVE  IsTotal(f, S, g)
<1>1. PICK h : IsTotal(h, S, g)
  BY TotalExists
<1> DEFINE P == {s \in SUBSET S : f[s] = h[s]}
<1>2. {} \in P
  BY <1>1 DEF IsTotal
<1>3. ASSUME NEW s \in SUBSET S, s # {}, s \ {Pick(s)} \in P PROVE s \in P
  <2>1. h[s] = g[Pick(s)] + h[s \ {Pick(s)}] /\ h[s \ {Pick(s)}] \in Nat
    <3>1. \A u \in SUBSET S : u # {} => h[u] = g[Pick(u)] + h[u \ {Pick(u)}] /\ h[u \ {Pick(u)}] \in Nat
      BY <1>1, TotalStep
    <3> QED BY <1>3, <3>1, Zenon
  <2>2. f[s \ {Pick(s)}] = h[s \ {Pick(s)}]
    BY <1>3
  <2> QED BY <1>3, <2>1, <2>2
<1>4. ASSUME NEW T \in SUBSET S PROVE f[T] \in Nat
  <2>1. IsFiniteSet(T)
    BY FS_Subset
  <2>2. T \in P
    <3>1. \A s \in SUBSET T : s # {} /\ s \ {Pick(s)} \in P => s \in P
      BY <1>3
    <3> HIDE DEF P
    <3> QED BY <1>2, <2>1, <3>1, PickInduction
  <2> QED BY <1>1, <2>2 DEF IsTotal
<1>5. f \in [SUBSET S -> Nat]
  BY <1>4
<1>6. \A s \in SUBSET S : f[s] = IF s = {} THEN 0 ELSE g[Pick(s)] + f[s \ {Pick(s)}]
  BY <1>4
<1> QED BY <1>5, <1>6 DEF IsTotal

\* SumFunction makes the total of a function.
LEMMA SumTotals ==
  ASSUME NEW S, IsFiniteSet(S), NEW g \in [S -> Nat]
  PROVE  Totals(S, g, SumFunction(g))
<1> DEFINE Iter(h) == h = [s \in SUBSET S |-> IF s = {} THEN 0 ELSE
                             LET x == CHOOSE x \in s : TRUE IN g[x] + h[s \ {x}]]
           f == CHOOSE h : Iter(h)
<1>1. SumFunction(g) = f[S]
  <2>1. DOMAIN g = S
    OBVIOUS
  <2> QED BY <2>1 DEF SumFunction, SumFunctionOnSet, FoldFunctionOnSet, MapThenFoldSet
<1>2. PICK h : IsTotal(h, S, g)
  BY TotalExists
<1>3. Iter(h)
  <2>1. h = [s \in SUBSET S |-> IF s = {} THEN 0 ELSE g[Pick(s)] + h[s \ {Pick(s)}]]
    BY <1>2 DEF IsTotal
  <2> QED BY <2>1 DEF Pick
<1>4. Iter(f)
  <2> HIDE DEF Iter
  <2> QED BY <1>3
<1> HIDE DEF f
<1>5. f = [s \in SUBSET S |-> IF s = {} THEN 0 ELSE g[Pick(s)] + f[s \ {Pick(s)}]]
  BY <1>4 DEF Pick
<1>6. IsTotal(f, S, g)
  <2> HIDE DEF Iter
  <2> QED BY <1>5, FoldTotals
<1> QED BY <1>1, <1>6 DEF Totals

\* The channels of the ports of router n, and the flits buffered behind one.
Places(n) == Ports(n) \X VCs
Held(n) == [pv \in Places(n) |-> Len(router[n].buf[pv[1]][pv[2]])]

\* There are finitely many places, and each holds a number of flits.
LEMMA BuffersCounted ==
  ASSUME Typed, NEW n \in Nodes
  PROVE  IsFiniteSet(Places(n)) /\ Held(n) \in [Places(n) -> Nat]
<1>1. \A p \in Ports(n), v \in VCs : Len(router[n].buf[p][v]) \in Nat
  <2>1. router[n].buf \in Buffers(n)
    BY DEF Typed, Routers
  <2>2. \A p \in Ports(n), v \in VCs : router[n].buf[p][v] \in Seq(WFlits)
    BY <2>1 DEF Buffers
  <2> QED BY <2>2
<1>2. Held(n) \in [Places(n) -> Nat]
  BY <1>1 DEF Held, Places
<1>3. IsFiniteSet(Ports(n)) /\ IsFiniteSet(VCs)
  <2>1. Ports(n) = 1 .. LocalPort(n) /\ LocalPort(n) \in Int
    BY Numbers
  <2>2. VCs = 0 .. (NumVCs - 1) /\ NumVCs - 1 \in Int
    BY Numbers DEF VCs
  <2> QED BY <2>1, <2>2, FS_Interval
<1>4. IsFiniteSet(Places(n))
  BY <1>3, FS_Product DEF Places
<1> QED BY <1>2, <1>4

\* Buffered is the total of what a router holds.
LEMMA BufferedTotals ==
  ASSUME Typed, NEW n \in Nodes
  PROVE  Totals(Places(n), Held(n), Buffered(n))
<1> DEFINE S == Places(n)
           Iter(h) == h = [s \in SUBSET S |-> IF s = {} THEN 0 ELSE
                             LET x == CHOOSE x \in s : TRUE
                             IN h[s \ {x}] + Len(router[n].buf[x[1]][x[2]])]
           f == CHOOSE h : Iter(h)
<1>1. Buffered(n) = f[S]
  BY DEF Buffered, FoldSet, MapThenFoldSet, Places
<1>2. IsFiniteSet(S) /\ Held(n) \in [S -> Nat]
  BY BuffersCounted
<1>3. \A x \in S : Len(router[n].buf[x[1]][x[2]]) = Held(n)[x]
  BY DEF Held
<1> HIDE DEF S
<1>4. PICK h : IsTotal(h, S, Held(n))
  BY <1>2, TotalExists
<1>5. \A s \in SUBSET S : s # {} => Pick(s) \in S
  BY DEF Pick
<1>6. Iter(h)
  <2>1. h = [s \in SUBSET S |-> IF s = {} THEN 0 ELSE Held(n)[Pick(s)] + h[s \ {Pick(s)}]]
    BY <1>4 DEF IsTotal
  <2>2. ASSUME NEW s \in SUBSET S, s # {}
        PROVE  Held(n)[Pick(s)] + h[s \ {Pick(s)}]
               = h[s \ {Pick(s)}] + Len(router[n].buf[Pick(s)[1]][Pick(s)[2]])
    <3>1. h[s \ {Pick(s)}] \in Nat /\ Held(n)[Pick(s)] \in Nat
      BY <1>2, <1>4, <2>2, TotalStep, Zenon
    <3>2. Len(router[n].buf[Pick(s)[1]][Pick(s)[2]]) = Held(n)[Pick(s)]
      BY <1>3, <1>5, <2>2
    <3> QED BY <3>1, <3>2
  <2> QED BY <2>1, <2>2, Zenon DEF Pick
<1>7. Iter(f)
  <2> HIDE DEF Iter
  <2> QED BY <1>6
<1> HIDE DEF f
<1>8. f = [s \in SUBSET S |-> IF s = {} THEN 0
              ELSE f[s \ {Pick(s)}] + Len(router[n].buf[Pick(s)[1]][Pick(s)[2]])]
  BY <1>7 DEF Pick
<1> HIDE DEF Iter
<1>9. \A s \in SUBSET S : s # {} /\ f[s \ {Pick(s)}] \in Nat
                          => f[s] = Held(n)[Pick(s)] + f[s \ {Pick(s)}]
  <2> SUFFICES ASSUME NEW s \in SUBSET S, s # {}, NEW t, t = s \ {Pick(s)}, f[t] \in Nat
               PROVE  f[s] = Held(n)[Pick(s)] + f[t]
    OBVIOUS
  <2>1. f[s] = f[t] + Len(router[n].buf[Pick(s)[1]][Pick(s)[2]])
    BY <1>8
  <2>2. Held(n)[Pick(s)] \in Nat /\ Len(router[n].buf[Pick(s)[1]][Pick(s)[2]]) = Held(n)[Pick(s)]
    BY <1>2, <1>3, <1>5
  <2> QED BY <2>1, <2>2
<1>10. f[{}] = 0 /\ f = [s \in SUBSET S |-> f[s]]
  BY <1>8
<1>11. IsTotal(f, S, Held(n))
  BY <1>2, <1>9, <1>10, FoldTotals
<1> QED BY <1>1, <1>2, <1>11 DEF Totals, S
-----------------------------------------------------------------------------
\* When the network is quiet, its channels are empty and no processor is in the middle
\* of a packet.
LEMMA QuietChannels ==
  ASSUME Typed, Quiet
  PROVE  /\ \A c \in Channels : WQueue[c] = <<>>
         /\ \A c \in WInjects : WEntered[c] = None
<1>1. ASSUME NEW c \in Channels PROVE WQueue[c] = <<>>
  <2>1. wire[<<c[1], c[2]>>] = None
    BY ChannelParts DEF Quiet
  <2>2. CASE c[2] = 0
    BY <2>1, <2>2, WireToParts, QueueParts
  <2>3. CASE c[2] # 0
    <3> DEFINE n == c[1]
               x == <<c[2], c[3]>>
    <3>1. n \in Nodes /\ x \in Places(n)
      BY <2>3, ChannelParts DEF Places
    <3>2. Totals(Places(n), Held(n), 0)
      BY <3>1, BufferedTotals DEF Quiet
    <3>3. Held(n)[x] = 0
      BY <3>1, <3>2, BuffersCounted, TotalsZero
    <3>4. Held(n)[x] = Len(Buf(c))
      BY <3>1 DEF Held, Buf
    <3>5. WQueue[c] = Buf(c) /\ Buf(c) \in Seq(WFlits)
      BY <2>1, <2>3, QueueParts
    <3> QED BY <3>3, <3>4, <3>5
  <2> QED BY <2>2, <2>3
<1>2. ASSUME NEW c \in WInjects PROVE WEntered[c] = None
  <2>1. proc[c[1]].packet = None
    BY InjectChannel DEF Typed, ProcessorOK, Quiet
  <2> QED BY <2>1, InjectChannel DEF WEntered
<1> QED BY <1>1, <1>2

(***************************************************************************)
(* The reservation tables are empty whenever nothing is left of any packet:*)
(* no reservation outlives its packet (Router::Route).                     *)
(***************************************************************************)
THEOREM NetworkNoStaleReservation == Spec => []NoStaleReservation
<1>1. NetInv => NoStaleReservation
  <2> SUFFICES ASSUME NetInv, Quiet, NEW n \in Nodes PROVE router[n].table = <<>>
    BY DEF NoStaleReservation
  <2>1. Typed /\ SP!NothingLeftReserved
    BY WormholeAssumed, SP!RInvReleases DEF NetInv
  <2>2. \A c \in Channels : WTable[c] = None
    BY <2>1, QuietChannels DEF SP!NothingLeftReserved
  <2> DEFINE t == router[n].table
  <2>3. t \in Hops(n)
    BY <2>1 DEF Typed, Routers, Tables
  <2>4. ASSUME NEW x \in DOMAIN t PROVE FALSE
    <3> DEFINE c == <<n, x.port, x.vc>>
    <3>1. x \in Conns(n)
      BY <2>3 DEF Hops
    <3>2. c \in Channels /\ Con(c) = x
      BY <3>1, ConnectionChannel DEF Con
    <3>3. View(c[1], t, Con(c)) # None
      <4>1. t \in Hops(c[1]) /\ Con(c) \in DOMAIN t
        BY <2>3, <3>2
      <4> HIDE DEF c, t
      <4> QED BY <3>2, <4>1, ViewParts
    <3> QED BY <2>2, <3>2, <3>3, NowViews
  <2> HIDE DEF t
  <2>5. t = <<>>
    BY <2>3, <2>4 DEF Hops
  <2> QED BY <2>5 DEF t
<1> QED BY <1>1, NetworkInvariant, PTL
-----------------------------------------------------------------------------
\* The total of zeros.
LEMMA ZeroTotals ==
  ASSUME NEW S, IsFiniteSet(S)
  PROVE  Totals(S, [x \in S |-> 0], 0)
<1> DEFINE z == [x \in S |-> 0]
           h == [s \in SUBSET S |-> 0]
<1>1. \A s \in SUBSET S : s # {} => Pick(s) \in S /\ s \ {Pick(s)} \in SUBSET S
  BY DEF Pick
<1>2. h \in [SUBSET S -> Nat] /\ h[S] = 0 /\ z \in [S -> Nat]
  OBVIOUS
<1>3. \A s \in SUBSET S : h[s] = IF s = {} THEN 0 ELSE z[Pick(s)] + h[s \ {Pick(s)}]
  <2> SUFFICES ASSUME NEW s \in SUBSET S, s # {} PROVE h[s] = z[Pick(s)] + h[s \ {Pick(s)}]
    OBVIOUS
  <2>1. z[Pick(s)] = 0 /\ h[s \ {Pick(s)}] = 0 /\ h[s] = 0
    BY <1>1
  <2> QED BY <2>1
<1> HIDE DEF h, z
<1>4. IsTotal(h, S, z)
  BY <1>2, <1>3 DEF IsTotal
<1>5. Totals(S, z, 0)
  BY <1>2, <1>4 DEF Totals
<1> QED BY <1>5 DEF z

\* A total of sums is the sum of the totals.
LEMMA TotalsAdd ==
  ASSUME NEW S, NEW a, NEW b, NEW c, NEW A, NEW B, NEW C,
         Totals(S, a, A), Totals(S, b, B), Totals(S, c, C),
         \A x \in S : c[x] = a[x] + b[x]
  PROVE  A \in Nat /\ B \in Nat /\ C \in Nat /\ C = A + B
<1> DEFINE z == [x \in S |-> 0]
<1>1. /\ Totals(S, z, 0)
      /\ a \in [S -> Nat] /\ b \in [S -> Nat] /\ c \in [S -> Nat]
  <2>1. IsFiniteSet(S)
    BY DEF Totals
  <2> QED BY <2>1, ZeroTotals DEF Totals
<1>2. \A x \in S : z[x] = 0
  OBVIOUS
<1> HIDE DEF z
<1>3. \A x \in S : a[x] + b[x] = c[x] + z[x]
  <2> SUFFICES ASSUME NEW x \in S PROVE a[x] + b[x] = c[x] + z[x]
    OBVIOUS
  <2>1. a[x] \in Nat /\ b[x] \in Nat /\ c[x] = a[x] + b[x] /\ z[x] = 0
    BY <1>1, <1>2
  <2> QED BY <2>1
<1> DEFINE o == 0
<1>4. Totals(S, a, A) /\ Totals(S, b, B) /\ Totals(S, c, C) /\ Totals(S, z, o)
  BY <1>1
<1> HIDE DEF o
<1>5. A \in Nat /\ B \in Nat /\ C \in Nat /\ A + B = C + o
  BY <1>3, <1>4, TotalsBalance
<1> QED BY <1>5 DEF o

\* The total is a number.
LEMMA TotalOf ==
  ASSUME NEW S, IsFiniteSet(S), NEW g \in [S -> Nat]
  PROVE  \E k \in Nat : Totals(S, g, k)
<1>1. PICK h : IsTotal(h, S, g)
  BY TotalExists
<1>2. h[S] \in Nat
  BY <1>1 DEF IsTotal
<1> QED BY <1>1, <1>2 DEF Totals

\* The elements of a subset, counted one by one.
LEMMA CountTotals ==
  ASSUME NEW S, IsFiniteSet(S), NEW T \in SUBSET S
  PROVE  Totals(S, [x \in S |-> Count(x \in T)], Cardinality(T))
<1> DEFINE g == [x \in S |-> Count(x \in T)]
           h == [s \in SUBSET S |-> Cardinality(s \cap T)]
<1>1. \A s \in SUBSET S : IsFiniteSet(s \cap T) /\ Cardinality(s \cap T) \in Nat
  <2> SUFFICES ASSUME NEW s \in SUBSET S PROVE IsFiniteSet(s \cap T) /\ Cardinality(s \cap T) \in Nat
    OBVIOUS
  <2>1. IsFiniteSet(s \cap T)
    <3>1. s \cap T \in SUBSET S
      OBVIOUS
    <3> QED BY <3>1, FS_Subset
  <2> QED BY <2>1, FS_CardinalityType
<1>2. h \in [SUBSET S -> Nat]
  BY <1>1
<1>3. ASSUME NEW s \in SUBSET S, s # {} PROVE h[s] = g[Pick(s)] + h[s \ {Pick(s)}]
  <2> DEFINE x == Pick(s)
             c == Cardinality(s \cap T)
  <2>1. x \in s
    BY <1>3 DEF Pick
  <2> HIDE DEF x
  <2>2. (s \ {x}) \cap T = (s \cap T) \ {x} /\ s \ {x} \in SUBSET S
    OBVIOUS
  <2>3. Cardinality((s \cap T) \ {x}) = IF x \in T THEN c - 1 ELSE c
    <3>1. x \in s \cap T <=> x \in T
      BY <2>1
    <3>2. Cardinality((s \cap T) \ {x}) = IF x \in s \cap T THEN c - 1 ELSE c
      BY <1>1, FS_RemoveElement
    <3> QED BY <3>1, <3>2
  <2>4. h[s] = c /\ h[s \ {x}] = Cardinality((s \cap T) \ {x}) /\ g[x] = Count(x \in T) /\ c \in Nat
    BY <1>1, <2>1, <2>2
  <2> HIDE DEF g, h, c
  <2>5. h[s] = g[x] + h[s \ {x}]
    BY <2>3, <2>4 DEF Count
  <2> QED BY <2>5 DEF x
<1>4. h[{}] = 0
  <2>1. {} \cap T = {}
    OBVIOUS
  <2> QED BY <2>1, FS_EmptySet
<1>5. h[S] = Cardinality(T) /\ g \in [S -> Nat]
  <2>1. S \cap T = T
    OBVIOUS
  <2> QED BY <2>1 DEF Count
<1> HIDE DEF h, g
<1>6. IsTotal(h, S, g)
  BY <1>2, <1>3, <1>4 DEF IsTotal
<1> QED BY <1>5, <1>6 DEF Totals, g

\* A finite set counted by the values of a function.
LEMMA FibreTotals ==
  ASSUME NEW U, IsFiniteSet(U), NEW N, IsFiniteSet(N), NEW f \in [U -> N]
  PROVE  Totals(N, [n \in N |-> Cardinality({u \in U : f[u] = n})], Cardinality(U))
<1> DEFINE F(s) == {u \in U : f[u] \in s}
           g == [n \in N |-> Cardinality({u \in U : f[u] = n})]
           h == [s \in SUBSET N |-> Cardinality(F(s))]
<1>1. \A s : IsFiniteSet(F(s)) /\ Cardinality(F(s)) \in Nat
  <2> SUFFICES ASSUME NEW s PROVE IsFiniteSet(F(s)) /\ Cardinality(F(s)) \in Nat
    OBVIOUS
  <2>1. IsFiniteSet(F(s))
    <3>1. F(s) \in SUBSET U
      OBVIOUS
    <3> HIDE DEF F
    <3> QED BY <3>1, FS_Subset
  <2> HIDE DEF F
  <2> QED BY <2>1, FS_CardinalityType
<1>2. h \in [SUBSET N -> Nat]
  <2> HIDE DEF F
  <2> QED BY <1>1
<1>3. ASSUME NEW s \in SUBSET N, s # {} PROVE h[s] = g[Pick(s)] + h[s \ {Pick(s)}]
  <2> DEFINE x == Pick(s)
             t == s \ {x}
             A == {u \in U : f[u] = x}
  <2>1. x \in s
    BY <1>3 DEF Pick
  <2> HIDE DEF x
  <2>2. A = F({x}) /\ F(s) = F({x}) \cup F(t) /\ F({x}) \cap F(t) = {} /\ t \in SUBSET N
    BY <2>1
  <2>3. h[s] = Cardinality(F(s)) /\ h[t] = Cardinality(F(t)) /\ g[x] = Cardinality(A)
    BY <2>1, <2>2
  <2> HIDE DEF F, A, g, h, t
  <2>4. Cardinality(F({x}) \cup F(t))
        = Cardinality(F({x})) + Cardinality(F(t)) - Cardinality(F({x}) \cap F(t))
    BY <1>1, FS_Union
  <2>5. Cardinality(F({x}) \cap F(t)) = 0
    BY <2>2, FS_EmptySet
  <2>6. Cardinality(F({x})) \in Nat /\ Cardinality(F(t)) \in Nat
    BY <1>1
  <2>7. h[s] = g[x] + h[t]
    BY <2>2, <2>3, <2>4, <2>5, <2>6
  <2> QED BY <2>7 DEF x, t
<1>4. h[{}] = 0
  <2>1. F({}) = {}
    OBVIOUS
  <2> HIDE DEF F
  <2> QED BY <2>1, FS_EmptySet
<1>5. h[N] = Cardinality(U) /\ g \in [N -> Nat]
  <2>1. F(N) = U /\ \A n \in N : {u \in U : f[u] = n} = F({n})
    OBVIOUS
  <2> HIDE DEF F
  <2> QED BY <1>1, <2>1
<1> HIDE DEF h, g
<1>6. IsTotal(h, N, g)
  BY <1>2, <1>3, <1>4 DEF IsTotal
<1> QED BY <1>5, <1>6 DEF Totals, g

\* Sets matched one to one have as many elements.
LEMMA SameCount ==
  ASSUME NEW S, IsFiniteSet(S), NEW T, NEW f \in [S -> T],
         \A x, y \in S : f[x] = f[y] => x = y,
         \A t \in T : \E x \in S : f[x] = t
  PROVE  IsFiniteSet(T) /\ Cardinality(T) = Cardinality(S)
<1>1. f \in Bijection(S, T)
  BY DEF Bijection, Injection, Surjection, IsInjective
<1>2. ExistsBijection(S, T)
  BY <1>1 DEF ExistsBijection
<1> QED BY <1>2, FS_Bijection
-----------------------------------------------------------------------------
\* The network has finitely many relays.
LEMMA RelaysFinite == IsFiniteSet(Nodes) /\ IsFiniteSet(Relays)
<1> DEFINE Of(s) == {r \in Relays : r[1] \in s}
           P == {s \in SUBSET Nodes : IsFiniteSet(Of(s))}
<1>1. IsFiniteSet(Nodes)
  BY WiringAssumption
<1>2. {} \in P
  <2>1. Of({}) = {}
    OBVIOUS
  <2> QED BY <2>1, FS_EmptySet
<1>3. ASSUME NEW s \in SUBSET Nodes, s # {}, s \ {Pick(s)} \in P PROVE s \in P
  <2> DEFINE n == Pick(s)
             t == s \ {n}
             I == 0 .. LocalPort(n)
  <2>1. n \in s /\ n \in Nodes
    BY <1>3 DEF Pick
  <2> HIDE DEF n
  <2>2. IsFiniteSet(I)
    BY <2>1, Numbers, FS_Interval
  <2>3. IsFiniteSet({n} \X I)
    BY <2>2, FS_Singleton, FS_Product
  <2>4. \A r \in Relays : r[1] = n => r = <<n, r[2]>> /\ r[2] \in I
    BY <2>1, RelaysBound, Numbers
  <2>5. Of({n}) \in SUBSET ({n} \X I)
    BY <2>4
  <2>6. IsFiniteSet(Of({n}))
    <3> HIDE DEF Of, I
    <3> QED BY <2>3, <2>5, FS_Subset
  <2>7. Of(s) = Of({n}) \cup Of(t)
    BY <2>1
  <2>8. IsFiniteSet(Of(t))
    BY <1>3 DEF n
  <2>9. IsFiniteSet(Of(s))
    <3> HIDE DEF Of, t
    <3> QED BY <2>6, <2>7, <2>8, FS_Union
  <2> QED BY <2>9
<1>4. Nodes \in P
  <2> HIDE DEF P
  <2> QED BY <1>1, <1>2, <1>3, PickInduction
<1>5. Of(Nodes) = Relays
  BY RelaysBound
<1> QED BY <1>1, <1>4, <1>5

\* The relays of a node that are in V: that of its processor, and those on the ports of
\* the router, matched one to one with the channels in M.
LEMMA NodeCount ==
  ASSUME NEW V \in SUBSET Relays, NEW n \in Nodes, NEW M, IsFiniteSet(M), NEW g \in [M -> Ports(n)],
         \A x, y \in M : g[x] = g[y] => x = y,
         \A x \in M : <<n, g[x]>> \in V,
         \A p \in Ports(n) : <<n, p>> \in V => \E x \in M : g[x] = p
  PROVE  Cardinality({r \in V : r[1] = n}) = Count(<<n, 0>> \in V) + Cardinality(M)
<1> DEFINE T == {r \in V : r[1] = n /\ r[2] # 0}
           f == [x \in M |-> <<n, g[x]>>]
<1>1. \A r \in V : r[1] = n => r = <<n, r[2]>> /\ (r[2] = 0 \/ r[2] \in Ports(n))
  BY RelaysBound
<1>2. \A p \in Ports(n) : p # 0
  BY Numbers
<1>3. f \in [M -> T]
  BY <1>2
<1>4. \A x, y \in M : f[x] = f[y] => x = y
  OBVIOUS
<1>5. \A t \in T : \E x \in M : f[x] = t
  BY <1>1
<1>6. IsFiniteSet(T) /\ Cardinality(T) = Cardinality(M)
  <2> HIDE DEF f, T
  <2> QED BY <1>3, <1>4, <1>5, SameCount
<1>7. Cardinality(M) \in Nat
  BY FS_CardinalityType
<1>8. CASE <<n, 0>> \in V
  <2>1. {r \in V : r[1] = n} = T \cup {<<n, 0>>} /\ <<n, 0>> \notin T
    BY <1>1, <1>8
  <2> HIDE DEF T
  <2>2. Cardinality(T \cup {<<n, 0>>}) = Cardinality(T) + 1
    BY <1>6, <2>1, FS_AddElement
  <2>3. Cardinality({r \in V : r[1] = n}) = Cardinality(M) + 1
    BY <1>6, <2>1, <2>2, Zenon
  <2>4. Count(<<n, 0>> \in V) = 1
    BY <1>8 DEF Count
  <2> DEFINE k == Count(<<n, 0>> \in V)
             m == Cardinality(M)
  <2> HIDE DEF k, m
  <2>5. m + 1 = k + m
    BY <1>7, <2>4 DEF k, m
  <2> QED BY <2>3, <2>5, Zenon DEF k, m
<1>9. CASE <<n, 0>> \notin V
  <2>1. {r \in V : r[1] = n} = T
    BY <1>1, <1>9
  <2> HIDE DEF T
  <2>2. Cardinality({r \in V : r[1] = n}) = Cardinality(M)
    BY <1>6, <2>1, Zenon
  <2>3. Count(<<n, 0>> \in V) = 0
    BY <1>9 DEF Count
  <2> DEFINE k == Count(<<n, 0>> \in V)
             m == Cardinality(M)
  <2> HIDE DEF k, m
  <2>4. m = k + m
    BY <1>7, <2>3 DEF k, m
  <2> QED BY <2>2, <2>4, Zenon DEF k, m
<1> QED BY <1>8, <1>9
-----------------------------------------------------------------------------
\* The channels of router n that a flit arrives in, and those a flit leaves.
Came(n) == {x \in Places(n) : wire[<<n, x[1]>>] # None /\ wire[<<n, x[1]>>].vc = x[2]}
Gone(n, o) == {x \in Places(n) : InConnection(x[1], x[2]) \in DOMAIN o.hop}

\* A place is a channel of the router.
LEMMA PlaceChannel ==
  ASSUME NEW n \in Nodes, NEW x \in Places(n)
  PROVE  /\ <<n, x[1], x[2]>> \in Channels /\ x[1] \in Ports(n) /\ x[1] # 0 /\ x[2] \in VCs
         /\ x = <<x[1], x[2]>> /\ InConnection(x[1], x[2]) \in Conns(n)
         /\ <<n, x[1]>> \in Relays
<1> DEFINE c == InConnection(x[1], x[2])
<1>1. x[1] \in Ports(n) /\ x[2] \in VCs /\ x = <<x[1], x[2]>>
  BY DEF Places
<1>2. c \in Conns(n) /\ c.port = x[1] /\ c.vc = x[2]
  BY <1>1 DEF Conns, InConnection
<1> HIDE DEF c
<1> QED BY <1>1, <1>2, ConnectionChannel DEF c

\* Buffered is a total before a step and after it.
LEMMA RoutersBuffered ==
  Typed => \A n \in Nodes : Held(n) \in [Places(n) -> Nat] /\ Totals(Places(n), Held(n), Buffered(n))
  BY BuffersCounted, BufferedTotals

LEMMA NextRoutersBuffered ==
  Typed' => \A n \in Nodes : /\ (Held(n))' \in [Places(n) -> Nat]
                             /\ Totals(Places(n), (Held(n))', (Buffered(n))')
<1>1. Typed' => (\A n \in Nodes : Held(n) \in [Places(n) -> Nat] /\ Totals(Places(n), Held(n), Buffered(n)))'
  BY RoutersBuffered, PTL
<1> QED BY <1>1 DEF Places, Totals, IsTotal

\* What is left, what arrives, what was there.
LEMMA PlaceBalance ==
  ASSUME Typed, NEW ready, NEW routed, NEW tabs, Parts(ready, routed, tabs),
         NEW n \in Nodes, NEW x \in Places(n)
  PROVE  Len(router'[n].buf[x[1]][x[2]]) + Count(x \in Gone(n, routed[n]))
           = Held(n)[x] + Count(x \in Came(n))
<1> DEFINE c == <<n, x[1], x[2]>>
           b == Buf(c)
           w == WireTo(c)
<1>1. c \in Channels /\ c[2] # 0 /\ c[1] = n /\ c[2] = x[1] /\ c[3] = x[2]
  BY PlaceChannel
<1>2. (Buf(c))' = (IF Con(c) \in DOMAIN routed[n].hop THEN Tail(b) ELSE b) \o w
  <2> HIDE DEF c
  <2> QED BY <1>1, NextBuf
<1>3. b \in Seq(WFlits) /\ w \in Seq(WFlits)
  <2> HIDE DEF c
  <2> QED BY <1>1, QueueParts, WireToParts
<1>4. x \in Gone(n, routed[n]) <=> Con(c) \in DOMAIN routed[n].hop
  BY DEF Gone, Con
<1>5. Len(w) = Count(x \in Came(n))
  BY DEF WireTo, Came, Count
<1>6. Con(c) \in DOMAIN routed[n].hop => b # <<>>
  <2> SUFFICES ASSUME Con(c) \in DOMAIN routed[n].hop PROVE b # <<>>
    OBVIOUS
  <2> HIDE DEF c
  <2>1. WHop'[c] # None
    BY <1>1, HoppingViews
  <2> QED BY <1>1, <2>1, HoppingFront, WaitsQueued
<1>7. Held(n)[x] = Len(b)
  BY DEF Held, Buf
<1>8. (Buf(c))' = router'[n].buf[x[1]][x[2]]
  BY DEF Buf
<1> HIDE DEF b, w, c
<1>9. Len((Buf(c))') = (IF Con(c) \in DOMAIN routed[n].hop THEN Len(b) - 1 ELSE Len(b)) + Len(w)
  <2>1. CASE Con(c) \in DOMAIN routed[n].hop
    <3>1. Tail(b) \in Seq(WFlits) /\ Len(Tail(b)) = Len(b) - 1
      BY <1>3, <1>6, <2>1
    <3> QED BY <1>2, <1>3, <2>1, <3>1
  <2>2. CASE Con(c) \notin DOMAIN routed[n].hop
    BY <1>2, <1>3, <2>2
  <2> QED BY <2>1, <2>2
<1>10. Len(b) \in Nat /\ Len(w) \in Nat
  BY <1>3
<1>11. Count(x \in Gone(n, routed[n])) = IF Con(c) \in DOMAIN routed[n].hop THEN 1 ELSE 0
  BY <1>4 DEF Count
<1> DEFINE k == Count(x \in Gone(n, routed[n]))
           l == Len(b)
           m == Len(w)
<1>12. Len((Buf(c))') + k = l + m
  <2>1. CASE Con(c) \in DOMAIN routed[n].hop
    <3>1. Len((Buf(c))') = (l - 1) + m /\ k = 1 /\ l \in Nat /\ m \in Nat
      BY <1>9, <1>10, <1>11, <2>1
    <3> HIDE DEF k, l, m
    <3> QED BY <3>1
  <2>2. CASE Con(c) \notin DOMAIN routed[n].hop
    <3>1. Len((Buf(c))') = l + m /\ k = 0 /\ l \in Nat /\ m \in Nat
      BY <1>9, <1>10, <1>11, <2>2
    <3> HIDE DEF k, l, m
    <3> QED BY <3>1
  <2> QED BY <2>1, <2>2
<1> QED BY <1>5, <1>7, <1>8, <1>12, Zenon

\* The buffers of a router grow by what arrives less what leaves.
LEMMA NodeBalance ==
  ASSUME Typed, Typed', NEW ready, NEW routed, NEW tabs, Parts(ready, routed, tabs), NEW n \in Nodes
  PROVE  /\ IsFiniteSet(Came(n)) /\ IsFiniteSet(Gone(n, routed[n]))
         /\ Buffered(n) \in Nat /\ (Buffered(n))' \in Nat
         /\ Cardinality(Came(n)) \in Nat /\ Cardinality(Gone(n, routed[n])) \in Nat
         /\ (Buffered(n))' + Cardinality(Gone(n, routed[n])) = Buffered(n) + Cardinality(Came(n))
<1> DEFINE S == Places(n)
           a == [x \in S |-> Len(router'[n].buf[x[1]][x[2]])]
           b == [x \in S |-> Count(x \in Gone(n, routed[n]))]
           c == Held(n)
           d == [x \in S |-> Count(x \in Came(n))]
<1>1. IsFiniteSet(S) /\ c \in [S -> Nat] /\ Totals(S, c, Buffered(n))
  BY BuffersCounted, BufferedTotals
<1>3. a \in [S -> Nat] /\ Totals(S, a, (Buffered(n))')
  <2>1. (Held(n))' = a
    BY DEF Held
  <2>2. (Held(n))' \in [S -> Nat] /\ Totals(S, (Held(n))', (Buffered(n))')
    BY NextRoutersBuffered
  <2> HIDE DEF a
  <2> QED BY <2>1, <2>2
<1>4. Gone(n, routed[n]) \in SUBSET S /\ Came(n) \in SUBSET S
  BY DEF Gone, Came
<1>5. b \in [S -> Nat] /\ d \in [S -> Nat]
  BY DEF Count
<1>6. Totals(S, b, Cardinality(Gone(n, routed[n]))) /\ Totals(S, d, Cardinality(Came(n)))
  BY <1>1, <1>4, CountTotals
<1>7. \A x \in S : a[x] + b[x] = c[x] + d[x]
  BY PlaceBalance
<1>8. IsFiniteSet(Came(n)) /\ IsFiniteSet(Gone(n, routed[n]))
  BY <1>1, <1>4, FS_Subset
<1> DEFINE A == (Buffered(n))'
           B == Cardinality(Gone(n, routed[n]))
           C == Buffered(n)
           D == Cardinality(Came(n))
<1> HIDE DEF a, b, c, d, S, A, B, C, D
<1>9. Totals(S, a, A) /\ Totals(S, b, B) /\ Totals(S, c, C) /\ Totals(S, d, D)
  BY <1>1, <1>3, <1>6 DEF A, B, C, D
<1>10. A \in Nat /\ B \in Nat /\ C \in Nat /\ D \in Nat /\ A + B = C + D
  BY <1>7, <1>9, TotalsBalance
<1> QED BY <1>8, <1>10 DEF A, B, C, D
-----------------------------------------------------------------------------
\* The relays with a flit on the wire.
OnWire == {r \in Relays : wire[r] # None}

\* The flits on the wires to a node are those its processor receives and those that
\* come into the buffers of its router.
LEMMA NodeArrivals ==
  ASSUME Typed, NEW n \in Nodes
  PROVE  Cardinality({r \in OnWire : r[1] = n}) = Count(Receives(n)) + Cardinality(Came(n))
<1> DEFINE M == Came(n)
           g == [x \in M |-> x[1]]
<1>1. IsFiniteSet(M)
  <2>1. IsFiniteSet(Places(n)) /\ M \in SUBSET Places(n)
    BY BuffersCounted DEF Came
  <2> QED BY <2>1, FS_Subset
<1>2. \A x \in M : /\ x[1] \in Ports(n) /\ x[2] = wire[<<n, x[1]>>].vc /\ x = <<x[1], x[2]>>
                   /\ <<n, x[1]>> \in OnWire
  <2> SUFFICES ASSUME NEW x \in M
               PROVE  /\ x[1] \in Ports(n) /\ x[2] = wire[<<n, x[1]>>].vc /\ x = <<x[1], x[2]>>
                      /\ <<n, x[1]>> \in OnWire
    OBVIOUS
  <2>1. x \in Places(n) /\ wire[<<n, x[1]>>] # None /\ wire[<<n, x[1]>>].vc = x[2]
    BY DEF Came
  <2> QED BY <2>1, PlaceChannel DEF OnWire
<1>3. \A p \in Ports(n) : <<n, p>> \in OnWire => \E x \in M : x[1] = p
  <2> SUFFICES ASSUME NEW p \in Ports(n), <<n, p>> \in OnWire PROVE \E x \in M : x[1] = p
    OBVIOUS
  <2> DEFINE x == <<p, wire[<<n, p>>].vc>>
  <2>1. wire[<<n, p>>].vc \in VCs /\ wire[<<n, p>>] # None
    BY DEF OnWire, Typed, MaybeWire, Wires
  <2>2. x \in M /\ x[1] = p
    BY <2>1 DEF Came, Places
  <2> QED BY <2>2
<1> HIDE DEF M
<1>4. /\ g \in [M -> Ports(n)] /\ \A x \in M : g[x] = x[1]
  BY <1>2
<1> HIDE DEF g
<1>5. \A x, y \in M : g[x] = g[y] => x = y
  <2> SUFFICES ASSUME NEW x \in M, NEW y \in M, g[x] = g[y] PROVE x = y
    OBVIOUS
  <2>1. x[1] = y[1]
    BY <1>4
  <2>2. x[2] = y[2]
    BY <1>2, <2>1, Zenon
  <2>3. x = <<x[1], x[2]>> /\ y = <<y[1], y[2]>>
    BY <1>2
  <2> QED BY <2>1, <2>2, <2>3, Zenon
<1>6. \A x \in M : <<n, g[x]>> \in OnWire
  BY <1>2, <1>4
<1>7. \A p \in Ports(n) : <<n, p>> \in OnWire => \E x \in M : g[x] = p
  BY <1>3, <1>4
<1>8. Cardinality({r \in OnWire : r[1] = n}) = Count(<<n, 0>> \in OnWire) + Cardinality(M)
  <2>1. OnWire \in SUBSET Relays
    BY DEF OnWire
  <2> QED BY <1>1, <1>4, <1>5, <1>6, <1>7, <2>1, NodeCount
<1>9. <<n, 0>> \in OnWire <=> Receives(n)
  BY DEF OnWire, Receives, Relays
<1>10. Count(<<n, 0>> \in OnWire) = Count(Receives(n))
  BY <1>9 DEF Count
<1> QED BY <1>8, <1>10, Zenon DEF M

\* The relays that send in this cycle.
Sources == {r \in Relays : wire'[Bound[r]] # None}

\* As many relays send as have a flit on their wire afterwards.
LEMMA SourcesCounted ==
  /\ IsFiniteSet(OnWire) /\ IsFiniteSet(Sources)
  /\ InTransmission = Cardinality(OnWire)
  /\ InTransmission' = Cardinality(Sources)
<1>1. OnWire \in SUBSET Relays /\ Sources \in SUBSET Relays
  BY DEF OnWire, Sources
<1>2. IsFiniteSet(OnWire) /\ IsFiniteSet(Sources)
  BY <1>1, RelaysFinite, FS_Subset
<1>3. InTransmission = Cardinality(OnWire)
  BY DEF InTransmission, OnWire
<1> DEFINE T == {r \in Relays : wire'[r] # None}
           f == [r \in Sources |-> Bound[r]]
<1>4. f \in [Sources -> T]
  BY RelaysBound DEF Sources
<1>5. \A r, s \in Sources : f[r] = f[s] => r = s
  BY RelaysBound DEF Sources
<1>6. \A t \in T : \E r \in Sources : f[r] = t
  BY RelaysBound DEF Sources
<1>7. Cardinality(T) = Cardinality(Sources)
  <2> HIDE DEF f, T
  <2> QED BY <1>2, <1>4, <1>5, <1>6, SameCount
<1>8. InTransmission' = Cardinality(T)
  BY DEF InTransmission
<1> QED BY <1>2, <1>3, <1>7, <1>8

\* The flits a node puts on wires are those its processor sends and those that leave
\* the buffers of its router.
LEMMA NodeDepartures ==
  ASSUME Typed, NEW ready, NEW routed, NEW tabs, Parts(ready, routed, tabs), NEW n \in Nodes
  PROVE  Cardinality({r \in Sources : r[1] = n})
           = Count(Sends(n, ready[n])) + Cardinality(Gone(n, routed[n]))
<1> DEFINE M == Gone(n, routed[n])
           o == routed[n]
           t == tabs[n]
           g == [x \in M |-> t[InConnection(x[1], x[2])].port]
<1>1. IsFiniteSet(M)
  <2>1. IsFiniteSet(Places(n)) /\ M \in SUBSET Places(n)
    BY BuffersCounted DEF Gone
  <2> QED BY <2>1, FS_Subset
<1>2. Updated(n, router[n], Signals(n), t, o) /\ router[n] \in Routers(n)
  BY DEF Parts, Typed
<1>3. \A p \in Ports(n) : /\ <<n, p>> \in Relays /\ Bound[<<n, p>>] \in Relays
                          /\ wire'[Bound[<<n, p>>]] = o.out[p]
  <2> SUFFICES ASSUME NEW p \in Ports(n)
               PROVE  /\ <<n, p>> \in Relays /\ Bound[<<n, p>>] \in Relays
                      /\ wire'[Bound[<<n, p>>]] = o.out[p]
    OBVIOUS
  <2>1. <<n, p>> \in Relays /\ p # 0
    <3>1. <<p, 0>> \in Places(n)
      BY Numbers DEF Places
    <3> QED BY <3>1, PlaceChannel
  <2>2. Bound[<<n, p>>] \in Relays /\ Bound[Bound[<<n, p>>]] = <<n, p>>
    BY <2>1, RelaysBound
  <2> DEFINE q == <<n, p>>
             r == Bound[q]
  <2>3. q[1] = n /\ q[2] = p
    OBVIOUS
  <2>4. r \in Relays /\ Bound[r] = q
    BY <2>2
  <2> HIDE DEF q, r
  <2>5. wire'[r] = LET s == Bound[r] IN
           IF s[2] # 0 THEN routed[s[1]].out[s[2]]
           ELSE IF Sends(s[1], ready[s[1]])
                THEN [flit |-> NextFlit(s[1], ready[s[1]]), vc |-> 0]
           ELSE None
    BY <2>4 DEF Parts
  <2>6. wire'[r] = routed[n].out[p]
    BY <2>1, <2>3, <2>4, <2>5
  <2> QED BY <2>1, <2>2, <2>6 DEF q, r
<1>4. \A x \in M : /\ x \in Places(n) /\ InConnection(x[1], x[2]) \in DOMAIN o.hop
  BY DEF Gone
<1>5. \A c \in DOMAIN o.hop : /\ c \in DOMAIN t /\ t[c] \in OutConns(n) /\ t[c].port \in Ports(n)
                              /\ c \in Conns(n) /\ o.out[t[c].port] = Sent(router[n], c, t[c])
                              /\ Waits(router[n], c)
  <2>1. DOMAIN o.hop \subseteq DOMAIN t /\ t \in Hops(n)
    BY <1>2, UpdatedTables
  <2> HIDE DEF o, t
  <2>2. \A c \in DOMAIN o.hop : Waits(router[n], c) /\ o.out[t[c].port] = Sent(router[n], c, t[c])
    BY <1>2 DEF Updated
  <2> QED BY <2>1, <2>2 DEF Hops, OutConns, Conns
<1>6. \A c \in DOMAIN o.hop : o.out[t[c].port] # None
  <2> HIDE DEF o, t
  <2> SUFFICES ASSUME NEW c \in DOMAIN o.hop PROVE o.out[t[c].port] # None
    OBVIOUS
  <2>1. Foremost(router[n], c) \in WFlits
    BY <1>2, <1>5, FrontFlits
  <2>2. t[c].vc \in VCs
    BY <1>5 DEF OutConns, Conns
  <2>3. Sent(router[n], c, t[c]) \in [flit : WFlits, vc : VCs]
    BY <2>1, <2>2 DEF Sent
  <2> QED BY <1>5, <2>3, NetworkAssumption
<1>7. \A c, d \in DOMAIN o.hop : t[c].port = t[d].port => c = d
  <2> HIDE DEF o, t
  <2> QED BY <1>2 DEF Updated
<1>8. \A p \in Ports(n) : o.out[p] # None => \E c \in DOMAIN o.hop : t[c].port = p
  <2> HIDE DEF o, t
  <2> QED BY <1>2 DEF Updated
<1> HIDE DEF o, t
<1>9. g \in [M -> Ports(n)]
  BY <1>4, <1>5
<1>10. \A x \in M : <<n, g[x]>> \in Sources
  BY <1>3, <1>4, <1>5, <1>6 DEF Sources
<1>11. \A x, y \in M : g[x] = g[y] => x = y
  <2> SUFFICES ASSUME NEW x \in M, NEW y \in M, g[x] = g[y] PROVE x = y
    OBVIOUS
  <2>1. InConnection(x[1], x[2]) = InConnection(y[1], y[2])
    BY <1>4, <1>7
  <2>2. x[1] = y[1] /\ x[2] = y[2]
    BY <2>1 DEF InConnection
  <2>3. x = <<x[1], x[2]>> /\ y = <<y[1], y[2]>>
    BY <1>4, PlaceChannel
  <2> QED BY <2>2, <2>3
<1>12. \A p \in Ports(n) : <<n, p>> \in Sources => \E x \in M : g[x] = p
  <2> SUFFICES ASSUME NEW p \in Ports(n), <<n, p>> \in Sources PROVE \E x \in M : g[x] = p
    OBVIOUS
  <2>1. PICK c \in DOMAIN o.hop : t[c].port = p
    BY <1>3, <1>8 DEF Sources
  <2> DEFINE x == <<c.port, c.vc>>
  <2>2. InConnection(x[1], x[2]) = c /\ x \in Places(n)
    BY <1>5, <2>1 DEF Conns, Places, InConnection
  <2>3. x \in M
    BY <2>2 DEF Gone, o
  <2>4. g[x] = p
    BY <2>1, <2>2, <2>3
  <2> QED BY <2>3, <2>4
<1>13. Cardinality({r \in Sources : r[1] = n}) = Count(<<n, 0>> \in Sources) + Cardinality(M)
  <2>1. Sources \in SUBSET Relays
    BY DEF Sources
  <2> HIDE DEF M, g
  <2> QED BY <1>1, <1>9, <1>10, <1>11, <1>12, <2>1, NodeCount
<1>14. <<n, 0>> \in Sources <=> Sends(n, ready[n])
  <2> DEFINE r == <<n, LocalPort(n)>>
             q == <<n, 0>>
  <2>1. q \in Relays /\ Bound[q] = r /\ r \in Relays /\ Bound[r] = q
    <3>1. q \in Relays /\ r \in Relays
      BY DEF Relays
    <3> QED BY <3>1, RelaysBound
  <2>2. wire'[r] = IF Sends(n, ready[n]) THEN [flit |-> NextFlit(n, ready[n]), vc |-> 0] ELSE None
    <3>1. r[2] = LocalPort(r[1]) /\ r[1] = n
      OBVIOUS
    <3> HIDE DEF r, q
    <3> QED BY <2>1, <3>1, NextWire
  <2>3. Sends(n, ready[n]) => [flit |-> NextFlit(n, ready[n]), vc |-> 0] # None
    <3> SUFFICES ASSUME Sends(n, ready[n]) PROVE [flit |-> NextFlit(n, ready[n]), vc |-> 0] # None
      OBVIOUS
    <3>1. ProcessorOK(ready[n]) /\ ready[n].packet # None
      BY DEF Parts, Readied, Sends
    <3>2. NextFlit(n, ready[n]) \in WFlits
      BY <3>1, PopFlitKeeps
    <3>3. [flit |-> NextFlit(n, ready[n]), vc |-> 0] \in [flit : WFlits, vc : VCs]
      BY <3>2, Numbers
    <3> QED BY <3>3, NetworkAssumption
  <2> HIDE DEF r, q
  <2>4. q \in Sources <=> Sends(n, ready[n])
    BY <2>1, <2>2, <2>3 DEF Sources
  <2> QED BY <2>4 DEF q
<1>15. Count(<<n, 0>> \in Sources) = Count(Sends(n, ready[n]))
  BY <1>14 DEF Count
<1> QED BY <1>13, <1>15, Zenon DEF M
-----------------------------------------------------------------------------
\* A cycle loses none: what all nodes together send, receive, take into their buffers
\* and put on the wires balances.
LEMMA CycleLosesNone ==
  ASSUME Typed, Typed', NEW ready, NEW routed, NEW tabs, Parts(ready, routed, tabs)
  PROVE  FlitsLost' = FlitsLost
<1> DEFINE N == Nodes
           s == sent
           t == sent'
           g == got
           h == got'
           b == [n \in N |-> Buffered(n)]
           c == [n \in N |-> (Buffered(n))']
           v == [n \in N |-> Cardinality({r \in OnWire : r[1] = n})]
           w == [n \in N |-> Cardinality({r \in Sources : r[1] = n})]
           o == [n \in N |-> Count(Sends(n, ready[n]))]
           e == [n \in N |-> Count(Receives(n))]
           d == [n \in N |-> Cardinality(Gone(n, routed[n]))]
           a == [n \in N |-> Cardinality(Came(n))]
<1>1. IsFiniteSet(N)
  BY RelaysFinite
<1>2. s \in [N -> Nat] /\ t \in [N -> Nat] /\ g \in [N -> Nat] /\ h \in [N -> Nat]
  BY DEF Typed
<1>3. o \in [N -> Nat] /\ e \in [N -> Nat]
  BY DEF Count
<1>4. /\ b \in [N -> Nat] /\ c \in [N -> Nat] /\ d \in [N -> Nat] /\ a \in [N -> Nat]
      /\ \A n \in N : c[n] + d[n] = b[n] + a[n]
  <2>1. \A n \in N : /\ Buffered(n) \in Nat /\ (Buffered(n))' \in Nat
                     /\ Cardinality(Came(n)) \in Nat /\ Cardinality(Gone(n, routed[n])) \in Nat
                     /\ (Buffered(n))' + Cardinality(Gone(n, routed[n])) = Buffered(n) + Cardinality(Came(n))
    BY NodeBalance
  <2> QED BY <2>1
<1>5. /\ \A n \in N : t[n] = s[n] + o[n]
      /\ \A n \in N : h[n] = g[n] + e[n]
  BY DEF Parts
<1>6. v \in [N -> Nat] /\ \A n \in N : v[n] = e[n] + a[n]
  <2>1. \A n \in N : v[n] = e[n] + a[n]
    BY NodeArrivals
  <2>2. \A n \in N : e[n] + a[n] \in Nat
    BY <1>3, <1>4
  <2> QED BY <2>1, <2>2
<1>7. w \in [N -> Nat] /\ \A n \in N : w[n] = o[n] + d[n]
  <2>1. \A n \in N : w[n] = o[n] + d[n]
    BY NodeDepartures
  <2>2. \A n \in N : o[n] + d[n] \in Nat
    BY <1>3, <1>4
  <2> QED BY <2>1, <2>2
<1>8. Totals(N, v, InTransmission) /\ Totals(N, w, InTransmission')
  <2>1. /\ IsFiniteSet(OnWire) /\ IsFiniteSet(Sources)
        /\ InTransmission = Cardinality(OnWire) /\ InTransmission' = Cardinality(Sources)
    BY SourcesCounted
  <2> DEFINE f == [r \in OnWire |-> r[1]]
             k == [r \in Sources |-> r[1]]
  <2>2. f \in [OnWire -> N] /\ k \in [Sources -> N]
    BY RelaysBound DEF OnWire, Sources
  <2>3. Totals(N, [n \in N |-> Cardinality({r \in OnWire : f[r] = n})], Cardinality(OnWire))
    <3> HIDE DEF f, N
    <3> QED BY <1>1, <2>1, <2>2, FibreTotals
  <2>4. Totals(N, [n \in N |-> Cardinality({r \in Sources : k[r] = n})], Cardinality(Sources))
    <3> HIDE DEF k, N
    <3> QED BY <1>1, <2>1, <2>2, FibreTotals
  <2>5. v = [n \in N |-> Cardinality({r \in OnWire : f[r] = n})]
    <3>1. \A n : {r \in OnWire : r[1] = n} = {r \in OnWire : f[r] = n}
      OBVIOUS
    <3> HIDE DEF f
    <3> QED BY <3>1
  <2>6. w = [n \in N |-> Cardinality({r \in Sources : k[r] = n})]
    <3>1. \A n : {r \in Sources : r[1] = n} = {r \in Sources : k[r] = n}
      OBVIOUS
    <3> HIDE DEF k
    <3> QED BY <3>1
  <2> HIDE DEF f, k, v, w, N
  <2> QED BY <2>1, <2>3, <2>4, <2>5, <2>6
<1> DEFINE S0 == SumFunction(s)
           S1 == SumFunction(t)
           G0 == SumFunction(g)
           G1 == SumFunction(h)
           B0 == SumFunction(b)
           B1 == SumFunction(c)
           W0 == InTransmission
           W1 == InTransmission'
<1> HIDE DEF N, s, t, g, h, b, c, v, w, o, e, d, a
<1>9. Totals(N, s, S0) /\ Totals(N, t, S1) /\ Totals(N, g, G0) /\ Totals(N, h, G1)
  BY <1>1, <1>2, SumTotals
<1>10. Totals(N, b, B0) /\ Totals(N, c, B1)
  BY <1>1, <1>4, SumTotals
<1>11. PICK O \in Nat : Totals(N, o, O)
  BY <1>1, <1>3, TotalOf
<1>12. PICK R \in Nat : Totals(N, e, R)
  BY <1>1, <1>3, TotalOf
<1>13. PICK H \in Nat : Totals(N, d, H)
  BY <1>1, <1>4, TotalOf
<1>14. PICK A \in Nat : Totals(N, a, A)
  BY <1>1, <1>4, TotalOf
<1>15. Totals(N, v, W0) /\ Totals(N, w, W1)
  BY <1>8
<1> HIDE DEF S0, S1, G0, G1, B0, B1, W0, W1
<1>16. S0 \in Nat /\ S1 \in Nat /\ S1 = S0 + O
  BY <1>5, <1>9, <1>11, TotalsAdd
<1>17. G0 \in Nat /\ G1 \in Nat /\ G1 = G0 + R
  BY <1>5, <1>9, <1>12, TotalsAdd
<1>18. B0 \in Nat /\ B1 \in Nat /\ B1 + H = B0 + A
  BY <1>4, <1>10, <1>13, <1>14, TotalsBalance
<1>19. W0 \in Nat /\ W0 = R + A
  BY <1>6, <1>12, <1>14, <1>15, TotalsAdd
<1>20. W1 \in Nat /\ W1 = O + H
  BY <1>7, <1>11, <1>13, <1>15, TotalsAdd
<1>21. S0 - G0 - B0 - W0 = S1 - G1 - B1 - W1
  BY <1>16, <1>17, <1>18, <1>19, <1>20
<1>22. FlitsLost = S0 - G0 - B0 - W0
  BY DEF FlitsLost, S0, G0, B0, W0, s, g, b, N
<1>23. FlitsLost' = S1 - G1 - B1 - W1
  BY DEF FlitsLost, S1, G1, B1, W1, t, h, c, N
<1> QED BY <1>21, <1>22, <1>23

\* What changes neither the counters nor the buffers nor the wires loses none.
LEMMA StillLosesNone ==
  ASSUME router' = router, wire' = wire, sent' = sent, got' = got
  PROVE  FlitsLost' = FlitsLost
<1>1. \A n : (Buffered(n))' = Buffered(n)
  BY DEF Buffered, FoldSet, MapThenFoldSet
<1>2. InTransmission' = InTransmission
  BY DEF InTransmission
<1>3. [n \in Nodes |-> (Buffered(n))'] = [n \in Nodes |-> Buffered(n)]
  BY <1>1
<1> QED BY <1>2, <1>3 DEF FlitsLost

\* While nothing has been sent nothing is lost.
LEMMA FreshLosesNone ==
  ASSUME Typed, Fresh, sent = [n \in Nodes |-> 0], got = sent
  PROVE  NoFlitLost
<1> DEFINE z == [n \in Nodes |-> 0]
<1>1. IsFiniteSet(Nodes) /\ z \in [Nodes -> Nat]
  BY RelaysFinite
<1>2. SumFunction(z) = 0
  <2>1. Totals(Nodes, z, SumFunction(z)) /\ Totals(Nodes, z, 0)
    BY <1>1, SumTotals, ZeroTotals
  <2>2. \A x \in Nodes : z[x] = z[x] + z[x]
    OBVIOUS
  <2> HIDE DEF z
  <2>3. SumFunction(z) = 0 + 0
    BY <2>1, <2>2, TotalsAdd
  <2> QED BY <2>3
<1>3. \A n \in Nodes : Buffered(n) = 0
  <2> SUFFICES ASSUME NEW n \in Nodes PROVE Buffered(n) = 0
    OBVIOUS
  <2> DEFINE S == Places(n)
             y == [x \in S |-> 0]
             k == Buffered(n)
  <2>1. Held(n) = y
    <3>1. \A x \in S : Len(router[n].buf[x[1]][x[2]]) = 0
      <4>1. router[n].buf = [p \in Ports(n) |-> [v \in VCs |-> <<>>]]
        BY DEF Fresh
      <4>2. \A p \in Ports(n), v \in VCs : router[n].buf[p][v] = <<>>
        BY <4>1
      <4>3. \A x \in S : x[1] \in Ports(n) /\ x[2] \in VCs
        BY DEF Places
      <4>4. \A x \in S : router[n].buf[x[1]][x[2]] = <<>>
        BY <4>2, <4>3
      <4> QED BY <4>4
    <3> QED BY <3>1 DEF Held
  <2>2. Totals(S, y, k) /\ Totals(S, y, 0) /\ IsFiniteSet(S) /\ y \in [S -> Nat]
    BY <2>1, BuffersCounted, BufferedTotals, ZeroTotals
  <2>3. \A x \in S : y[x] = y[x] + y[x]
    OBVIOUS
  <2> HIDE DEF S, y, k
  <2>4. k = 0 + 0
    BY <2>2, <2>3, TotalsAdd
  <2> QED BY <2>4 DEF k
<1>4. [n \in Nodes |-> Buffered(n)] = z
  BY <1>3
<1>5. InTransmission = 0
  <2>1. {r \in Relays : wire[r] # None} = {}
    BY DEF Fresh
  <2> QED BY <2>1, FS_EmptySet DEF InTransmission
<1> HIDE DEF z
<1>6. SumFunction(sent) = 0 /\ SumFunction(got) = 0 /\ SumFunction([n \in Nodes |-> Buffered(n)]) = 0
  BY <1>2, <1>4 DEF z
<1>7. FlitsLost = 0 - 0 - 0 - 0
  BY <1>5, <1>6, Zenon DEF FlitsLost
<1> QED BY <1>7 DEF NoFlitLost

(***************************************************************************)
(* GlobalStats::GetFlitsLost is zero at every clock edge, in every network:*)
(* what the processors have sent they have received, or it is in a buffer  *)
(* or on a wire.                                                           *)
(***************************************************************************)
THEOREM NetworkNoFlitLost == Spec => []NoFlitLost
<1> DEFINE LInv == NetInv /\ NoFlitLost /\ (reset => sent = [n \in Nodes |-> 0] /\ got = sent)
<1>1. Init => LInv
  <2> SUFFICES ASSUME Init PROVE LInv
    OBVIOUS
  <2>1. Typed /\ Fresh /\ NetInv
    BY InitNetInv DEF NetInv, Typed, Init
  <2>2. sent = [n \in Nodes |-> 0] /\ got = sent
    BY DEF Init
  <2> QED BY <2>1, <2>2, FreshLosesNone
<1>2. LInv /\ [Next]_netvars => LInv'
  <2> SUFFICES ASSUME LInv, [Next]_netvars PROVE LInv'
    OBVIOUS
  <2>1. NetInv' /\ Typed' /\ Typed
    BY NextNetInv DEF NetInv
  <2>2. CASE Cycle
    <3>1. PICK ready, routed, tabs : Parts(ready, routed, tabs)
      BY <2>1, <2>2, CycleParts
    <3>2. ~reset'
      BY <3>1 DEF Parts
    <3>3. NoFlitLost'
      BY <2>1, <3>1, CycleLosesNone DEF NoFlitLost
    <3> QED BY <2>1, <3>2, <3>3
  <2>3. CASE ResetCycle
    <3>1. wire' = wire /\ router' = router
      BY <2>1, <2>3, ResetTyped
    <3>2. sent' = sent /\ got' = got /\ reset
      BY <2>3 DEF ResetCycle
    <3>3. NoFlitLost'
      BY <3>1, <3>2, StillLosesNone DEF NoFlitLost
    <3> QED BY <2>1, <3>2, <3>3
  <2>4. CASE UNCHANGED netvars
    <3>1. NoFlitLost'
      BY <2>4, StillLosesNone DEF netvars, NoFlitLost
    <3> QED BY <2>1, <2>4, <3>1 DEF netvars
  <2> QED BY <2>2, <2>3, <2>4 DEF Next
<1> QED BY <1>1, <1>2, PTL DEF Spec
=============================================================================
