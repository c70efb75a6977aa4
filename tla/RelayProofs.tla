----------------------------- MODULE RelayProofs -----------------------------
(***************************************************************************)
(* The link protocol of the relays is safe for every set of relays bound   *)
(* in pairs, every number of virtual channels and every buffer depth.      *)
(*                                                                         *)
(* NoOverflow is not inductive: that the buffer has room when a flit       *)
(* arrives is decided when the flit is sent, from a credit published       *)
(* earlier still.  RInv follows that flit:  the four levels of the link    *)
(* (the sender's, req, the receiver's, ack) differ in at most one place,   *)
(* the credit is sound whenever the handshake is idle, and a flit under    *)
(* way has a slot kept for it.                                             *)
(***************************************************************************)
EXTENDS Relay, SequenceTheorems, TLAPS

\* A level is on its way to the signal that shows it.
Driven == \A r \in Relays : reqN[r] = txLevel[Peer[r]] /\ ackN[r] = rxLevel[r]

\* Of the sender's level, req, the receiver's level and ack, in this order, at
\* most one differs from the one before.
Alternating ==
    \A r \in Relays :
        /\ txLevel[Peer[r]] # req[r] => req[r] = rxLevel[r] /\ ack[r] = rxLevel[r]
        /\ req[r] # rxLevel[r] => ack[r] = rxLevel[r] /\ txLevel[Peer[r]] = req[r]

\* What has arrived is what was sent.
Carried == \A r \in Relays : CanReceive(r) => flit[r] = flitN[r]

\* A device that has run has received what had arrived and published its room.
Published ==
    \A r \in ran : /\ ~CanReceive(r)
                   /\ \A v \in VCs : freeN[Peer[r]][v] = Depth - Len(buffers[r][v])

\* A flit under way has a slot kept for it.
Room == \A r \in Relays : InFlight(r) => Len(buffers[r][flitN[r].vc]) < Depth

Fits == \A r \in Relays : \A v \in VCs : Len(buffers[r][v]) <= Depth

\* While reset is high nothing is under way or stored.
Quiet == reset => \A r \in Relays : /\ txLevel[r] = FALSE /\ rxLevel[r] = FALSE
                                    /\ req[r] = FALSE /\ ack[r] = FALSE
                                    /\ \A v \in VCs : buffers[r][v] = <<>>

RInv == /\ TypeOK /\ Driven /\ Alternating /\ Carried /\ CreditSound
        /\ Published /\ Room /\ Fits /\ Quiet

-----------------------------------------------------------------------------
\* Relays are bound in pairs.
LEMMA Paired ==
  /\ \A r \in Relays : Peer[r] \in Relays /\ Peer[r] # r /\ Peer[Peer[r]] = r
  /\ \A r, s \in Relays : Peer[r] = Peer[s] => r = s
  /\ VCs \subseteq Nat /\ 0 \in VCs /\ Depth \in Nat /\ Depth > 0
  BY RelayAssumption DEF VCs

LEMMA NoFlitType == NoFlit \in Flits
<1>1. \E f \in Flits : TRUE
  <2>1. PICK d \in Payloads : TRUE
    BY RelayAssumption
  <2>2. [data |-> d, vc |-> 0] \in Flits
    BY <2>1, Paired DEF Flits
  <2> QED BY <2>2
<1> QED BY <1>1 DEF NoFlit

\* What the prover needs of the types, one value at a time.
LEMMA Types ==
  ASSUME RInv, NEW r \in Relays, NEW v \in VCs
  PROVE  /\ txLevel[r] \in BOOLEAN /\ rxLevel[r] \in BOOLEAN
         /\ req[r] \in BOOLEAN /\ ack[r] \in BOOLEAN
         /\ buffers[r][v] \in Seq(Flits) /\ Len(buffers[r][v]) \in Nat
         /\ Len(buffers[r][v]) <= Depth
         /\ free[r][v] \in Nat /\ flit[r] \in Flits /\ flitN[r] \in Flits
         /\ flit[r].vc \in VCs /\ flitN[r].vc \in VCs
<1>1. flit[r] \in Flits /\ flitN[r] \in Flits /\ free[r][v] \in Nat
  BY Paired DEF RInv, TypeOK
<1>2. buffers[r][v] \in Seq(Flits)
  BY DEF RInv, TypeOK
<1>3. Len(buffers[r][v]) \in Nat
  BY <1>2
<1>4. Len(buffers[r][v]) <= Depth
  BY DEF RInv, Fits
<1> QED BY <1>1, <1>2, <1>3, <1>4 DEF RInv, TypeOK, Flits

LEMMA InitRInv == Init => RInv
<1> SUFFICES ASSUME Init PROVE RInv
  OBVIOUS
<1>1. TypeOK
  BY Paired, NoFlitType DEF Init, TypeOK
<1>2. Driven /\ Alternating /\ Carried
  BY Paired DEF Init, Driven, Alternating, Carried, CanReceive
<1>3. \A r \in Relays : \A v \in VCs : Len(buffers[r][v]) = 0 /\ free[r][v] = 0
  BY DEF Init
<1>4. CreditSound /\ Fits
  BY <1>3, Paired DEF CreditSound, Fits
<1>5. Published /\ Quiet
  BY DEF Init, Published, Quiet
<1>6. Room
  BY <1>3, Paired DEF Init, Room, InFlight
<1> QED BY <1>1, <1>2, <1>4, <1>5, <1>6 DEF RInv

-----------------------------------------------------------------------------
\* While reset is high, Reset changes no level and no buffer.
LEMMA ResetRInv == ASSUME RInv, NEW r \in Relays, Reset(r) PROVE RInv'
<1> USE Paired
<1>1. TypeOK'
  <2>1. /\ ran' \subseteq Relays /\ reset' \in BOOLEAN
        /\ txLevel' \in [Relays -> BOOLEAN] /\ rxLevel' \in [Relays -> BOOLEAN]
        /\ reqN' \in [Relays -> BOOLEAN] /\ ackN' \in [Relays -> BOOLEAN]
    BY DEF RInv, TypeOK, Reset
  <2>2. buffers' \in [Relays -> [VCs -> Seq(Flits)]]
    <3>1. [v \in VCs |-> <<>>] \in [VCs -> Seq(Flits)]
      OBVIOUS
    <3> QED BY <3>1 DEF RInv, TypeOK, Reset
  <2>3. freeN' \in [Relays -> [VCs -> 0 .. Depth]]
    <3>1. [v \in VCs |-> Depth] \in [VCs -> 0 .. Depth]
      OBVIOUS
    <3> QED BY <3>1 DEF RInv, TypeOK, Reset
  <2> QED BY <2>1, <2>2, <2>3 DEF RInv, TypeOK, Reset, signals
<1>2. /\ \A s \in Relays : txLevel[s] = FALSE /\ rxLevel[s] = FALSE
                           /\ req[s] = FALSE /\ ack[s] = FALSE
      /\ \A s \in Relays : \A v \in VCs : buffers[s][v] = <<>>
      /\ reset
  BY DEF RInv, Quiet, Reset
<1>3. txLevel' = txLevel /\ rxLevel' = rxLevel
  BY <1>2 DEF RInv, TypeOK, Reset
<1>4. \A s \in Relays : \A v \in VCs : buffers'[s][v] = <<>> /\ Len(buffers'[s][v]) = 0
  BY <1>2 DEF RInv, TypeOK, Reset
<1>5. Driven'
  <2>1. \A s \in Relays : reqN[s] = FALSE /\ ackN[s] = FALSE
    BY <1>2 DEF RInv, Driven
  <2>2. \A s \in Relays : reqN'[s] = FALSE /\ ackN'[s] = FALSE
    BY <2>1 DEF RInv, TypeOK, Reset
  <2> QED BY <1>2, <1>3, <2>2 DEF Driven
<1>6. UNCHANGED <<req, ack, reset>> /\ \A s \in Relays : ~CanReceive(s)'
  BY <1>2, <1>3 DEF CanReceive, Reset, signals
<1>10. Alternating' /\ Carried' /\ Quiet'
  BY <1>2, <1>3, <1>4, <1>6 DEF Alternating, Carried, Quiet
<1>7. CreditSound' /\ Fits'
  BY <1>1, <1>4 DEF TypeOK, CreditSound, Fits
<1>8. Published'
  <2>1. SUFFICES ASSUME NEW s \in ran' 
                 PROVE  /\ ~CanReceive(s)'
                        /\ \A v \in VCs : freeN'[Peer[s]][v] = Depth - Len(buffers'[s][v])
    BY DEF Published
  <2>2. s \in Relays
    BY DEF RInv, TypeOK, Reset
  <2>3. ~CanReceive(s)'
    BY <1>6, <2>2
  <2>4. CASE s = r
    BY <1>4, <2>2, <2>3, <2>4 DEF RInv, TypeOK, Reset
  <2>5. CASE s # r
    <3>1. s \in ran /\ Peer[s] # Peer[r]
      BY <2>2, <2>5 DEF Reset
    <3>2. freeN'[Peer[s]] = freeN[Peer[s]]
      BY <2>2, <3>1 DEF RInv, TypeOK, Reset
    <3>3. \A v \in VCs : buffers[s][v] = buffers'[s][v]
      BY <1>2, <1>4, <2>2
    <3>4. \A v \in VCs : freeN[Peer[s]][v] = Depth - Len(buffers[s][v])
      BY <3>1 DEF RInv, Published
    <3> QED BY <2>3, <3>2, <3>3, <3>4
  <2> QED BY <2>4, <2>5
<1>9. Room'
  BY <1>2, <1>3 DEF Room, InFlight
<1> QED BY <1>1, <1>5, <1>7, <1>8, <1>9, <1>10 DEF RInv

\* A flit is sent only on a link that is idle and to a buffer with room.
LEMMA SendRInv ==
  ASSUME RInv, NEW r \in Relays, NEW f \in Flits, Send(r, f) PROVE RInv'
<1> USE Paired
<1> DEFINE p == Peer[r]
<1>0. p \in Relays /\ Peer[p] = r /\ p # r /\ f.vc \in VCs
  BY DEF Flits
<1>1. TypeOK'
  <2>1. txLevel' \in [Relays -> BOOLEAN] /\ reqN' \in [Relays -> BOOLEAN]
    BY DEF RInv, TypeOK, Send
  <2>2. flitN' \in [Relays -> Flits]
    BY DEF RInv, TypeOK, Send
  <2> QED BY <2>1, <2>2 DEF RInv, TypeOK, Send, signals
<1>2. /\ txLevel[r] = ack[p] /\ free[r][f.vc] > 0 /\ r \notin ran /\ ~reset
      /\ txLevel' = [txLevel EXCEPT ![r] = ~txLevel[r]]
      /\ UNCHANGED <<reset, ran, rxLevel, buffers, flit, req, ack, free, ackN, freeN>>
  BY DEF Send, CanSend, Running, signals
<1>3. txLevel[r] = rxLevel[p] /\ req[p] = rxLevel[p] /\ ack[p] = rxLevel[p]
  BY <1>0, <1>2 DEF RInv, Alternating, TypeOK
<1>4. txLevel'[r] # txLevel[r] /\ \A s \in Relays : s # r => txLevel'[s] = txLevel[s]
  BY <1>2 DEF RInv, TypeOK
<1>5. \A s \in Relays : s # p => Peer[s] # r
  BY <1>0
<1>6. Driven'
  BY <1>0, <1>2, <1>4, <1>5 DEF RInv, Driven, TypeOK, Send
<1>7. Alternating'
  BY <1>0, <1>2, <1>3, <1>4, <1>5 DEF RInv, Alternating, TypeOK
<1>8. \A s \in Relays : s # p => flitN'[s] = flitN[s]
  BY <1>0 DEF RInv, TypeOK, Send
<1>9. Carried'
  BY <1>0, <1>2, <1>3, <1>8 DEF RInv, Carried, CanReceive
<1>10. CreditSound'
  BY <1>0, <1>2, <1>4 DEF RInv, CreditSound
<1>11. Published' /\ Fits' /\ Quiet'
  BY <1>2 DEF RInv, Published, CanReceive, Fits, Quiet
<1>12. Room'
  <2>1. SUFFICES ASSUME NEW s \in Relays, InFlight(s)'
                 PROVE  Len(buffers[s][flitN'[s].vc]) < Depth
    BY <1>2 DEF Room
  <2>2. CASE s = p
    <3>1. flitN'[p] = f
      BY <1>0 DEF RInv, TypeOK, Send
    <3>2. free[r][f.vc] + Len(buffers[p][f.vc]) <= Depth
      BY <1>0, <1>2 DEF RInv, CreditSound
    <3>3. free[r][f.vc] \in Nat /\ Len(buffers[p][f.vc]) \in Nat
      BY <1>0, Types
    <3> QED BY <1>2, <2>2, <3>1, <3>2, <3>3
  <2>3. CASE s # p
    <3>1. InFlight(s) /\ flitN'[s] = flitN[s]
      BY <1>2, <1>4, <1>5, <1>8, <2>1, <2>3 DEF InFlight
    <3> QED BY <3>1 DEF RInv, Room
  <2> QED BY <2>2, <2>3
<1> QED BY <1>1, <1>6, <1>7, <1>9, <1>10, <1>11, <1>12 DEF RInv

\* What is received fills the slot kept for it; no credit is trusted until the
\* acknowledgement has arrived.
LEMMA ReceiveRInv == ASSUME RInv, NEW r \in Relays, Receive(r) PROVE RInv'
<1> USE Paired
<1> DEFINE p == Peer[r]
<1> DEFINE v == flit[r].vc
<1>0. p \in Relays /\ Peer[p] = r /\ p # r
  OBVIOUS
<1>1. /\ req[r] # rxLevel[r] /\ r \notin ran /\ ~reset
      /\ UNCHANGED <<reset, ran, txLevel, current, flit, req, ack, free, flitN, reqN, freeN>>
      /\ buffers' = [buffers EXCEPT ![r][v] = Append(buffers[r][v], flit[r])]
      /\ rxLevel' = [rxLevel EXCEPT ![r] = ~rxLevel[r]]
      /\ ackN' = [ackN EXCEPT ![r] = ~rxLevel[r]]
  BY DEF Receive, CanReceive, Running, signals
<1>2. /\ ack[r] = rxLevel[r] /\ txLevel[p] = req[r] /\ flit[r] = flitN[r]
      /\ flit[r] \in Flits /\ v \in VCs
  BY <1>1 DEF RInv, Alternating, Carried, CanReceive, TypeOK, Flits
<1>3. Len(buffers[r][v]) < Depth /\ buffers[r][v] \in Seq(Flits)
  <2>1. InFlight(r)
    BY <1>1, <1>2 DEF InFlight
  <2> QED BY <1>2, <2>1, Types DEF RInv, Room
<1>4. /\ \A s \in Relays : s # r => buffers'[s] = buffers[s]
      /\ \A w \in VCs : w # v => buffers'[r][w] = buffers[r][w]
      /\ buffers'[r][v] = Append(buffers[r][v], flit[r])
  BY <1>1, <1>2 DEF RInv, TypeOK
<1>5. Len(buffers'[r][v]) = Len(buffers[r][v]) + 1
  BY <1>2, <1>3, <1>4
<1>6. rxLevel'[r] = req[r] /\ rxLevel'[r] = ~rxLevel[r]
      /\ \A s \in Relays : s # r => rxLevel'[s] = rxLevel[s]
  <2>1. rxLevel[r] \in BOOLEAN /\ req[r] \in BOOLEAN
    BY DEF RInv, TypeOK
  <2>2. /\ rxLevel'[r] = ~rxLevel[r]
        /\ \A s \in Relays : s # r => rxLevel'[s] = rxLevel[s]
    BY <1>1 DEF RInv, TypeOK
  <2> QED BY <1>1, <2>1, <2>2
<1>7. TypeOK'
  <2>1. buffers' \in [Relays -> [VCs -> Seq(Flits)]]
    BY <1>1, <1>2, <1>3 DEF RInv, TypeOK
  <2> QED BY <1>1, <2>1 DEF RInv, TypeOK
<1>8. Driven'
  BY <1>1, <1>6 DEF RInv, TypeOK, Driven
<1>9. Alternating'
  BY <1>1, <1>2, <1>6 DEF RInv, TypeOK, Alternating
<1>10. Carried'
  BY <1>1, <1>6 DEF RInv, Carried, CanReceive
<1>11. CreditSound'
  <2>1. SUFFICES ASSUME NEW s \in Relays, txLevel[s] = ack[Peer[s]], NEW w \in VCs
                 PROVE  free[s][w] + Len(buffers'[Peer[s]][w]) <= Depth
    BY <1>1 DEF CreditSound
  <2>2. s # p
    BY <1>0, <1>1, <1>2, <2>1
  <2>3. Peer[s] # r
    BY <1>0, <2>2
  <2> QED BY <1>4, <2>1, <2>3 DEF RInv, CreditSound
<1>12. Published'
  BY <1>1, <1>4, <1>6 DEF RInv, TypeOK, Published, CanReceive
<1>13. Room'
  <2>1. SUFFICES ASSUME NEW s \in Relays, InFlight(s)'
                 PROVE  Len(buffers'[s][flitN[s].vc]) < Depth
    BY <1>1 DEF Room
  <2>2. s # r
    BY <1>1, <1>2, <1>6, <2>1 DEF InFlight
  <2> QED BY <1>1, <1>4, <1>6, <2>1, <2>2 DEF RInv, Room, InFlight
<1>14. Fits'
  <2>1. SUFFICES ASSUME NEW s \in Relays, NEW w \in VCs
                 PROVE  Len(buffers'[s][w]) <= Depth
    BY DEF Fits
  <2>2. CASE s = r /\ w = v
    BY <1>3, <1>5, <2>2
  <2>3. CASE ~(s = r /\ w = v)
    BY <1>4, <2>3 DEF RInv, Fits
  <2> QED BY <2>2, <2>3
<1>15. Quiet'
  BY <1>1 DEF Quiet
<1> QED BY <1>7, <1>8, <1>9, <1>10, <1>11, <1>12, <1>13, <1>14, <1>15 DEF RInv

LEMMA LessStored ==
  ASSUME NEW credit \in Nat, NEW m \in Nat, NEW n \in Nat, NEW d \in Nat,
         credit + m <= d, n <= m
  PROVE  credit + n <= d
  OBVIOUS

\* A pop only makes room.
LEMMA PopRInv == ASSUME RInv, NEW r \in Relays, Pop(r) PROVE RInv'
<1> USE Paired
<1>1. PICK v \in VCs :
         /\ buffers[r][v] # <<>>
         /\ buffers' = [buffers EXCEPT ![r][v] = Tail(buffers[r][v])]
  BY DEF Pop, FrontVC, Occupied
<1>2. UNCHANGED <<reset, ran, txLevel, rxLevel, current, flit, req, ack, free,
                  flitN, reqN, ackN, freeN>> /\ r \notin ran /\ ~reset
  BY DEF Pop, signals, pending, Running
<1>3. buffers[r][v] \in Seq(Flits)
  BY DEF RInv, TypeOK
<1>4. /\ Tail(buffers[r][v]) \in Seq(Flits) /\ Len(Tail(buffers[r][v])) \in Nat
      /\ Len(Tail(buffers[r][v])) <= Len(buffers[r][v])
  BY <1>1, <1>3
<1>5. /\ \A s \in Relays : s # r => buffers'[s] = buffers[s]
      /\ \A w \in VCs : w # v => buffers'[r][w] = buffers[r][w]
      /\ buffers'[r][v] = Tail(buffers[r][v])
  BY <1>1 DEF RInv, TypeOK
<1>6. ASSUME NEW s \in Relays, NEW w \in VCs
      PROVE  Len(buffers'[s][w]) \in Nat /\ Len(buffers'[s][w]) <= Len(buffers[s][w])
  <2>1. CASE s = r /\ w = v
    BY <1>4, <1>5, <2>1
  <2>2. CASE ~(s = r /\ w = v)
    <3>1. Len(buffers[s][w]) \in Nat
      BY Types
    <3> QED BY <1>5, <2>2, <3>1
  <2> QED BY <2>1, <2>2
<1>7. TypeOK'
  <2>1. buffers' \in [Relays -> [VCs -> Seq(Flits)]]
    BY <1>1, <1>4 DEF RInv, TypeOK
  <2> QED BY <1>2, <2>1 DEF RInv, TypeOK
<1>8. CreditSound'
  <2>1. SUFFICES ASSUME NEW s \in Relays, txLevel[s] = ack[Peer[s]], NEW w \in VCs
                 PROVE  free[s][w] + Len(buffers'[Peer[s]][w]) <= Depth
    BY <1>2 DEF CreditSound
  <2>2. free[s][w] + Len(buffers[Peer[s]][w]) <= Depth
    BY <2>1 DEF RInv, CreditSound
  <2>3. free[s][w] \in Nat /\ Len(buffers[Peer[s]][w]) \in Nat
    BY Types
  <2>4. Len(buffers'[Peer[s]][w]) \in Nat /\ Len(buffers'[Peer[s]][w]) <= Len(buffers[Peer[s]][w])
    BY <1>6
  <2> QED BY <2>2, <2>3, <2>4, LessStored
<1>9. Fits'
  <2>1. SUFFICES ASSUME NEW s \in Relays, NEW w \in VCs
                 PROVE  Len(buffers'[s][w]) <= Depth
    BY DEF Fits
  <2>2. Len(buffers[s][w]) \in Nat /\ Len(buffers[s][w]) <= Depth
    BY Types
  <2> QED BY <1>6, <2>2
<1>10. Room'
  <2>1. SUFFICES ASSUME NEW s \in Relays, InFlight(s)
                 PROVE  Len(buffers'[s][flitN[s].vc]) < Depth
    BY <1>2 DEF Room, InFlight
  <2>2. flitN[s].vc \in VCs
    BY DEF RInv, TypeOK, Flits
  <2>3. Len(buffers[s][flitN[s].vc]) < Depth /\ Len(buffers[s][flitN[s].vc]) \in Nat
    BY <2>1, <2>2, Types DEF RInv, Room
  <2>4. /\ Len(buffers'[s][flitN[s].vc]) \in Nat
        /\ Len(buffers'[s][flitN[s].vc]) <= Len(buffers[s][flitN[s].vc])
    BY <1>6, <2>2
  <2> QED BY <2>3, <2>4
<1>11. Published'
  <2>1. \A s \in ran : s \in Relays /\ s # r
    BY <1>2 DEF RInv, TypeOK
  <2>2. \A s \in ran : buffers'[s] = buffers[s]
    BY <1>5, <2>1
  <2>3. SUFFICES ASSUME NEW s \in ran
                 PROVE  /\ ~CanReceive(s)'
                        /\ \A w \in VCs : freeN[Peer[s]][w] = Depth - Len(buffers'[s][w])
    BY <1>2 DEF Published
  <2>4. ~CanReceive(s) /\ \A w \in VCs : freeN[Peer[s]][w] = Depth - Len(buffers[s][w])
    BY DEF RInv, Published
  <2>5. ~CanReceive(s)'
    BY <1>2, <2>4 DEF CanReceive
  <2> QED BY <2>2, <2>4, <2>5
<1> QED BY <1>2, <1>7, <1>8, <1>9, <1>10, <1>11
        DEF RInv, Driven, Alternating, Carried, CanReceive, Quiet

LEMMA SkipRInv == ASSUME RInv, NEW r \in Relays, Skip(r) PROVE RInv'
<1>1. current' \in [Relays -> VCs]
  <2>1. current[r] \in Nat /\ NumVCs \in Nat /\ NumVCs > 0
    BY RelayAssumption DEF RInv, TypeOK, VCs
  <2>2. (current[r] + 1) % NumVCs \in VCs
    BY <2>1 DEF VCs
  <2> QED BY <2>2 DEF RInv, TypeOK, Skip
<1> QED BY <1>1 DEF RInv, TypeOK, Skip, signals, pending, Driven, Alternating, Carried,
                    CanReceive, CreditSound, Published, Room, InFlight, Fits, Quiet

\* Update publishes the room there is.
LEMMA UpdateRInv == ASSUME RInv, NEW r \in Relays, Update(r) PROVE RInv'
<1> USE Paired
<1>1. /\ UNCHANGED <<reset, txLevel, rxLevel, current, buffers, flit, req, ack, free,
                     flitN, reqN, ackN>>
      /\ ~CanReceive(r) /\ ~reset /\ ran' = ran \cup {r}
      /\ freeN' = [freeN EXCEPT ![Peer[r]] = FreeSlots(r)]
  BY DEF Update, local, signals, Running
<1>2. FreeSlots(r) \in [VCs -> 0 .. Depth]
  <2>1. \A v \in VCs : Len(buffers[r][v]) \in Nat /\ Len(buffers[r][v]) <= Depth
    BY DEF RInv, TypeOK, Fits
  <2> QED BY <2>1 DEF FreeSlots
<1>3. TypeOK'
  BY <1>1, <1>2 DEF RInv, TypeOK
<1>4. Published'
  BY <1>1 DEF RInv, TypeOK, Published, CanReceive, FreeSlots
<1> QED BY <1>1, <1>3, <1>4 DEF RInv, Driven, Alternating, Carried, CanReceive,
                                CreditSound, Room, InFlight, Fits, Quiet

\* The update phase shows what the devices have written.
LEMMA DeltaRInv == ASSUME RInv, Delta PROVE RInv'
<1> USE Paired
<1>1. /\ ran = Relays /\ ran' = {} /\ reset' \in {FALSE, reset}
      /\ flit' = flitN /\ req' = reqN /\ ack' = ackN /\ free' = freeN
      /\ UNCHANGED <<txLevel, rxLevel, current, buffers, flitN, reqN, ackN, freeN>>
  BY DEF Delta, local, pending
<1>2. TypeOK'
  BY <1>1 DEF RInv, TypeOK
<1>3. \A r \in Relays : req'[r] = txLevel[Peer[r]] /\ ack'[r] = rxLevel[r] /\ req[r] = rxLevel[r]
  BY <1>1 DEF RInv, Driven, Published, CanReceive
<1>4. Driven' /\ Carried' /\ Room' /\ Fits' /\ Published'
  BY <1>1 DEF RInv, Driven, Carried, CanReceive, Room, InFlight, Fits, Published
<1>5. Alternating'
  BY <1>1, <1>3 DEF Alternating
<1>6. CreditSound'
  <2>1. ASSUME NEW s \in Relays, NEW v \in VCs
        PROVE  freeN[s][v] = Depth - Len(buffers[Peer[s]][v])
    <3>1. Peer[s] \in Relays /\ Peer[Peer[s]] = s
      OBVIOUS
    <3>2. freeN[Peer[Peer[s]]][v] = Depth - Len(buffers[Peer[s]][v])
      BY <1>1, <3>1 DEF RInv, Published
    <3> QED BY <3>1, <3>2
  <2>2. \A s \in Relays : \A v \in VCs : Len(buffers[Peer[s]][v]) \in Nat
    BY DEF RInv, TypeOK
  <2> QED BY <1>1, <2>1, <2>2 DEF CreditSound
<1>7. Quiet'
  BY <1>1, <1>3 DEF RInv, Quiet
<1> QED BY <1>2, <1>4, <1>5, <1>6, <1>7 DEF RInv

\* Every step, and every step that changes nothing, keeps the invariant.
LEMMA NextRInv == RInv /\ [Next]_vars => RInv'
<1> SUFFICES ASSUME RInv, [Next]_vars PROVE RInv'
  OBVIOUS
<1>1. CASE Delta
  BY <1>1, DeltaRInv
<1>2. ASSUME NEW r \in Relays, RelayStep(r) PROVE RInv'
  BY <1>2, ResetRInv, SendRInv, ReceiveRInv, PopRInv, SkipRInv, UpdateRInv DEF RelayStep
<1>3. CASE UNCHANGED vars
  BY <1>3 DEF vars, local, signals, pending, RInv, TypeOK, Driven, Alternating, Carried,
              CanReceive, CreditSound, Published, Room, InFlight, Fits, Quiet
<1> QED BY <1>1, <1>2, <1>3 DEF Next

-----------------------------------------------------------------------------
(***************************************************************************)
(* The invariant holds in every reachable state.                           *)
(***************************************************************************)
THEOREM RelayInvariant == Spec => []RInv
  BY InitRInv, NextRInv, PTL DEF Spec

(***************************************************************************)
(* Every variable of the relays and every signal keeps its type; above all,*)
(* no announced credit exceeds the depth of a buffer.                      *)
(***************************************************************************)
THEOREM RelayTypeOK == Spec => []TypeOK
<1>1. RInv => TypeOK
  BY DEF RInv
<1> QED BY <1>1, RelayInvariant, PTL

(***************************************************************************)
(* Relay::Receive never throws, for every number of relays and virtual     *)
(* channels and every depth: whatever arrives finds a slot kept for it.    *)
(***************************************************************************)
THEOREM RelayNoOverflow == Spec => []NoOverflow
<1>1. RInv => NoOverflow
  <2>1. SUFFICES ASSUME RInv, NEW r \in Relays, CanReceive(r)
                 PROVE  flit[r].vc \in VCs /\ Len(buffers[r][flit[r].vc]) < Depth
    BY DEF NoOverflow
  <2>2. flit[r] = flitN[r] /\ InFlight(r)
    BY <2>1 DEF RInv, Carried, Alternating, CanReceive, InFlight
  <2> QED BY <2>1, <2>2 DEF RInv, Room, TypeOK, Flits
<1> QED BY <1>1, RelayInvariant, PTL

(***************************************************************************)
(* A credit is never more than the room of the buffer it stands for.       *)
(***************************************************************************)
THEOREM RelayCreditSound == Spec => []CreditSound
<1>1. RInv => CreditSound
  BY DEF RInv
<1> QED BY <1>1, RelayInvariant, PTL

(***************************************************************************)
(* A relay that may send has nothing under way that it would overwrite.    *)
(***************************************************************************)
THEOREM RelayNoOverwrite == Spec => []NoOverwrite
<1>1. RInv => NoOverwrite
  BY Paired DEF RInv, TypeOK, NoOverwrite, Alternating, InFlight
<1> QED BY <1>1, RelayInvariant, PTL

-----------------------------------------------------------------------------
\* The update phase leaves the signals showing what the devices have.
LEMMA DeltaShows ==
  ASSUME RInv, Delta, NEW r \in Relays
  PROVE  /\ req'[r] = txLevel'[Peer[r]] /\ ack'[r] = rxLevel'[r] /\ flit'[r] = flitN'[r]
         /\ \A v \in VCs : free'[r][v] = Depth - Len(buffers'[Peer[r]][v])
<1>1. /\ ran = Relays /\ flit' = flitN /\ req' = reqN /\ ack' = ackN /\ free' = freeN
      /\ UNCHANGED <<txLevel, rxLevel, buffers, flitN>>
  BY DEF Delta, local, pending
<1>2. req'[r] = txLevel'[Peer[r]] /\ ack'[r] = rxLevel'[r] /\ flit'[r] = flitN'[r]
  BY <1>1 DEF RInv, Driven
<1>3. Peer[r] \in ran /\ Peer[Peer[r]] = r
  BY <1>1, Paired
<1>4. \A v \in VCs : freeN[r][v] = Depth - Len(buffers[Peer[r]][v])
  BY <1>3 DEF RInv, Published
<1> QED BY <1>1, <1>2, <1>4

(***************************************************************************)
(* At a clock edge a device sees, through the signals, exactly when it may *)
(* send and what it can receive.                                           *)
(***************************************************************************)
THEOREM RelayCycleView == Spec => CycleView
<1>1. ASSUME RInv, Delta PROVE SeesTruth'
  <2>1. RInv'
    BY <1>1, DeltaRInv
  <2>2. SUFFICES ASSUME NEW r \in Relays
                 PROVE  /\ CanReceive(r)' <=> InFlight(r)'
                        /\ CanReceive(r)' => flit'[r] = flitN'[r]
                        /\ \A v \in VCs : CanSend(r, v)' <=>
                              ~InFlight(Peer[r])' /\ Len(buffers'[Peer[r]][v]) < Depth
    BY DEF SeesTruth
  <2>3. Peer[r] \in Relays /\ Peer[Peer[r]] = r
    BY Paired
  <2>4. CanReceive(r)' <=> InFlight(r)'
    BY <1>1, DeltaShows DEF CanReceive, InFlight
  <2>5. flit'[r] = flitN'[r]
    BY <1>1, DeltaShows
  <2>6. ASSUME NEW v \in VCs
        PROVE  CanSend(r, v)' <=> ~InFlight(Peer[r])' /\ Len(buffers'[Peer[r]][v]) < Depth
    <3>1. ack'[Peer[r]] = rxLevel'[Peer[r]]
          /\ free'[r][v] = Depth - Len(buffers'[Peer[r]][v])
      BY <1>1, <2>3, DeltaShows
    <3>2. Len(buffers'[Peer[r]][v]) \in Nat /\ Depth \in Nat
      <4>1. buffers'[Peer[r]][v] \in Seq(Flits)
        BY <2>1, <2>3 DEF RInv, TypeOK
      <4> QED BY <4>1, Paired
    <3>3. free'[r][v] > 0 <=> Len(buffers'[Peer[r]][v]) < Depth
      BY <3>1, <3>2
    <3> QED BY <2>3, <3>1, <3>3 DEF CanSend, InFlight
  <2> QED BY <2>4, <2>5, <2>6
<1>2. RInv /\ [Next]_vars => [Delta => SeesTruth']_vars
  BY <1>1
<1> QED BY <1>2, RelayInvariant, PTL DEF Spec, CycleView

-----------------------------------------------------------------------------
\* Taking the first element leaves what comes after a sequence alone.
LEMMA TailConcat ==
  ASSUME NEW S, NEW s \in Seq(S), NEW t \in Seq(S), s # <<>>
  PROVE  s \o t # <<>> /\ Tail(s \o t) = Tail(s) \o t
<1>1. /\ s \o t \in Seq(S) /\ Len(s \o t) = Len(s) + Len(t)
      /\ \A i \in 1 .. Len(s) + Len(t) :
            (s \o t)[i] = IF i <= Len(s) THEN s[i] ELSE t[i - Len(s)]
  BY ConcatProperties
<1>2. Len(s) \in Nat \ {0} /\ Len(t) \in Nat
  BY EmptySeq, LenProperties
<1>3. s \o t # <<>>
  BY <1>1, <1>2, EmptySeq
<1>4. /\ Tail(s) \in Seq(S) /\ Len(Tail(s)) = Len(s) - 1
      /\ \A i \in 1 .. Len(Tail(s)) : Tail(s)[i] = s[i + 1]
  BY HeadTailProperties
<1>5. /\ Tail(s \o t) \in Seq(S) /\ Len(Tail(s \o t)) = Len(s) + Len(t) - 1
      /\ \A i \in 1 .. Len(Tail(s \o t)) : Tail(s \o t)[i] = (s \o t)[i + 1]
  BY <1>1, <1>3, HeadTailProperties
<1>6. /\ Tail(s) \o t \in Seq(S) /\ Len(Tail(s) \o t) = Len(s) - 1 + Len(t)
      /\ \A i \in 1 .. Len(s) - 1 + Len(t) :
            (Tail(s) \o t)[i] = IF i <= Len(s) - 1 THEN Tail(s)[i] ELSE t[i - (Len(s) - 1)]
  BY <1>4, ConcatProperties
<1>7. ASSUME NEW i \in 1 .. Len(Tail(s \o t)) PROVE Tail(s \o t)[i] = (Tail(s) \o t)[i]
  <2>1. i + 1 \in 1 .. Len(s) + Len(t) /\ i \in 1 .. Len(s) - 1 + Len(t)
    BY <1>2, <1>5
  <2>2. CASE i <= Len(s) - 1
    <3>1. i + 1 <= Len(s) /\ i \in 1 .. Len(Tail(s))
      BY <1>2, <1>4, <2>2
    <3> QED BY <1>1, <1>4, <1>5, <1>6, <2>1, <2>2, <3>1
  <2>3. CASE ~(i <= Len(s) - 1)
    <3>1. ~(i + 1 <= Len(s)) /\ (i + 1) - Len(s) = i - (Len(s) - 1)
      BY <1>2, <2>3
    <3> QED BY <1>1, <1>5, <1>6, <2>1, <2>3, <3>1
  <2> QED BY <2>2, <2>3
<1>8. Len(Tail(s \o t)) = Len(Tail(s) \o t)
  BY <1>2, <1>5, <1>6
<1> QED BY <1>3, <1>5, <1>6, <1>7, <1>8, SeqEqual

\* The channel towards r on v: at most one flit more than its buffer.
LEMMA ChannelType ==
  ASSUME RInv, NEW r \in Relays, NEW v \in VCs
  PROVE  /\ buffers[r][v] \in Seq(Flits) /\ Wire(r, v) \in Seq(Flits)
         /\ Channel[r][v] = buffers[r][v] \o Wire(r, v)
         /\ ~InFlight(r) => Wire(r, v) = <<>> /\ Channel[r][v] = buffers[r][v]
<1>1. buffers[r][v] \in Seq(Flits) /\ flitN[r] \in Flits
  BY Types
<1>2. Wire(r, v) \in Seq(Flits)
  BY <1>1 DEF Wire
<1>3. Channel[r][v] = buffers[r][v] \o Wire(r, v)
  BY DEF Channel
<1>4. ~InFlight(r) => Wire(r, v) = <<>>
  BY DEF Wire
<1> QED BY <1>1, <1>2, <1>3, <1>4, ConcatEmptySeq

\* A step that changes no buffer and no wire changes no channel.
LEMMA ChannelUnchanged ==
  ASSUME \A r \in Relays : \A v \in VCs :
            buffers'[r][v] = buffers[r][v] /\ Wire(r, v)' = Wire(r, v)
  PROVE  Channel' = Channel
  BY DEF Channel

\* A step that changes one channel, told apart value by value.
LEMMA OneChannelChanges ==
  ASSUME NEW r \in Relays, NEW v \in VCs, NEW contents,
         \A s \in Relays : \A w \in VCs :
            Channel'[s][w] = IF s = r /\ w = v THEN contents ELSE Channel[s][w]
  PROVE  Channel' = [Channel EXCEPT ![r][v] = contents]
<1> DEFINE new == [Channel EXCEPT ![r][v] = contents]
<1>1. /\ Channel = [s \in Relays |-> [w \in VCs |-> Channel[s][w]]]
      /\ Channel' = [s \in Relays |-> [w \in VCs |-> Channel'[s][w]]]
  BY DEF Channel
<1> HIDE DEF Channel
<1>2. new = [s \in Relays |-> [w \in VCs |->
                IF s = r /\ w = v THEN contents ELSE Channel[s][w]]]
  BY <1>1
<1> QED BY <1>1, <1>2

LEMMA InitChannel == Init => Abstract!Init
<1> SUFFICES ASSUME Init PROVE Abstract!Init
  OBVIOUS
<1>1. RInv
  BY InitRInv
<1>2. ASSUME NEW r \in Relays, NEW v \in VCs PROVE Channel[r][v] = <<>>
  <2>1. ~InFlight(r) /\ buffers[r][v] = <<>>
    BY Paired DEF Init, InFlight
  <2> QED BY <1>1, <2>1, ChannelType
<1> QED BY <1>2 DEF Abstract!Init, Channel

\* Sending puts the flit on the channel, which had room for it.
LEMMA SendPuts ==
  ASSUME RInv, NEW r \in Relays, NEW f \in Flits, Send(r, f)
  PROVE  Abstract!Put(Peer[r], f)
<1> DEFINE p == Peer[r]
<1>1. p \in Relays /\ Peer[p] = r /\ p # r /\ f.vc \in VCs /\ f = f
      /\ \A s \in Relays : s # p => Peer[s] # r
  BY Paired DEF Flits
<1>2. /\ txLevel[r] = ack[p] /\ free[r][f.vc] > 0
      /\ txLevel' = [txLevel EXCEPT ![r] = ~txLevel[r]]
      /\ flitN' = [flitN EXCEPT ![p] = f]
      /\ UNCHANGED <<rxLevel, buffers>>
  BY DEF Send, CanSend
<1>3. txLevel[r] = rxLevel[p]
  BY <1>1, <1>2 DEF RInv, Alternating, TypeOK
<1>4. /\ txLevel'[r] # txLevel[r] /\ flitN'[p] = f
      /\ \A s \in Relays : s # r => txLevel'[s] = txLevel[s]
      /\ \A s \in Relays : s # p => flitN'[s] = flitN[s]
  BY <1>1, <1>2 DEF RInv, TypeOK
<1>5. InFlight(p)' /\ ~InFlight(p)
  BY <1>1, <1>2, <1>3, <1>4 DEF InFlight
<1>6. \A w \in VCs : Wire(p, w)' = IF w = f.vc THEN <<f>> ELSE <<>>
  BY <1>4, <1>5 DEF Wire
<1>7. \A s \in Relays : \A w \in VCs : s # p => Wire(s, w)' = Wire(s, w)
  BY <1>1, <1>2, <1>4 DEF Wire, InFlight
<1>8. \A w \in VCs : Channel[p][w] = buffers[p][w] /\ buffers[p][w] \in Seq(Flits)
  BY <1>1, <1>5, ChannelType
<1>9. \A s \in Relays : \A w \in VCs :
         Channel'[s][w] = IF s = p /\ w = f.vc THEN Append(Channel[s][w], f) ELSE Channel[s][w]
  <2>1. TAKE s \in Relays
  <2>2. TAKE w \in VCs
  <2>3. Channel'[s][w] = buffers[s][w] \o Wire(s, w)'
    BY <1>2 DEF Channel
  <2>4. CASE s = p /\ w = f.vc
    <3>1. Channel'[s][w] = buffers[s][w] \o <<f>>
      BY <1>6, <2>3, <2>4
    <3>2. Append(buffers[s][w], f) = buffers[s][w] \o <<f>>
      BY <1>8, <2>4, AppendIsConcat
    <3> QED BY <1>8, <2>4, <3>1, <3>2
  <2>5. CASE s = p /\ w # f.vc
    <3>1. Channel'[s][w] = buffers[s][w] \o <<>>
      BY <1>6, <2>3, <2>5
    <3>2. buffers[s][w] \o <<>> = buffers[s][w]
      BY <1>8, <2>5, ConcatEmptySeq
    <3> QED BY <1>8, <2>5, <3>1, <3>2
  <2>6. CASE s # p
    BY <1>7, <2>3, <2>6 DEF Channel
  <2> QED BY <2>4, <2>5, <2>6
<1>10. Channel' = [Channel EXCEPT ![p][f.vc] = Append(Channel[p][f.vc], f)]
  <2>1. \A s \in Relays : \A w \in VCs :
           Channel'[s][w] = IF s = p /\ w = f.vc THEN Append(Channel[p][f.vc], f) ELSE Channel[s][w]
    BY <1>9
  <2>2. p \in Relays /\ f.vc \in VCs
    BY <1>1
  <2> DEFINE u == f.vc
             contents == Append(Channel[p][u], f)
  <2>3. u \in VCs /\ \A s \in Relays : \A w \in VCs :
           Channel'[s][w] = IF s = p /\ w = u THEN contents ELSE Channel[s][w]
    BY <2>1, <2>2
  <2> HIDE DEF p, u, contents
  <2>4. Channel' = [Channel EXCEPT ![p][u] = contents]
    BY <2>2, <2>3, OneChannelChanges
  <2> QED BY <2>4 DEF u, contents
<1>11. Len(Channel[p][f.vc]) < Depth
  <2>1. free[r][f.vc] + Len(buffers[p][f.vc]) <= Depth
    BY <1>1, <1>2 DEF RInv, CreditSound
  <2>2. free[r][f.vc] \in Nat /\ Len(buffers[p][f.vc]) \in Nat /\ Depth \in Nat
    BY <1>1, Types, Paired
  <2> QED BY <1>1, <1>2, <1>8, <2>1, <2>2
<1> QED BY <1>10, <1>11 DEF Abstract!Put

\* Receiving moves a flit from the wire to the buffer: the channel is the same.
LEMMA ReceiveMoves ==
  ASSUME RInv, NEW r \in Relays, Receive(r)
  PROVE  Channel' = Channel
<1> DEFINE v == flit[r].vc
<1>1. /\ req[r] # rxLevel[r]
      /\ UNCHANGED <<txLevel, flitN>>
      /\ buffers' = [buffers EXCEPT ![r][v] = Append(buffers[r][v], flit[r])]
      /\ rxLevel' = [rxLevel EXCEPT ![r] = ~rxLevel[r]]
  BY DEF Receive, CanReceive
<1>2. txLevel[Peer[r]] = req[r] /\ flit[r] = flitN[r] /\ flit[r] \in Flits /\ v \in VCs
  BY <1>1 DEF RInv, Alternating, Carried, CanReceive, TypeOK, Flits
<1>3. req[r] \in BOOLEAN /\ rxLevel[r] \in BOOLEAN
  BY DEF RInv, TypeOK
<1>4. /\ rxLevel'[r] = ~rxLevel[r]
      /\ \A s \in Relays : s # r => rxLevel'[s] = rxLevel[s] /\ buffers'[s] = buffers[s]
      /\ \A w \in VCs : w # v => buffers'[r][w] = buffers[r][w]
      /\ buffers'[r][v] = Append(buffers[r][v], flit[r])
  BY <1>1, <1>2 DEF RInv, TypeOK
<1>5. InFlight(r) /\ ~InFlight(r)'
  BY <1>1, <1>2, <1>3, <1>4 DEF InFlight
<1>6. \A w \in VCs : Wire(r, w)' = <<>> /\ Wire(r, w) = IF w = v THEN <<flit[r]>> ELSE <<>>
  BY <1>2, <1>5 DEF Wire
<1>7. \A s \in Relays : \A w \in VCs : s # r => Wire(s, w)' = Wire(s, w)
  BY <1>1, <1>4 DEF Wire, InFlight
<1>8. \A s \in Relays : \A w \in VCs :
         buffers'[s][w] \o Wire(s, w)' = buffers[s][w] \o Wire(s, w)
  <2>1. TAKE s \in Relays
  <2>2. TAKE w \in VCs
  <2>3. buffers[s][w] \in Seq(Flits)
    BY Types
  <2>4. CASE s = r /\ w = v
    <3>1. Append(buffers[s][w], flit[r]) \in Seq(Flits)
      BY <1>2, <2>3, AppendProperties
    <3>2. Append(buffers[s][w], flit[r]) \o <<>> = Append(buffers[s][w], flit[r])
      BY <3>1, ConcatEmptySeq
    <3>3. Append(buffers[s][w], flit[r]) = buffers[s][w] \o <<flit[r]>>
      BY <1>2, <2>3, AppendIsConcat
    <3> QED BY <1>4, <1>6, <2>4, <3>2, <3>3
  <2>5. CASE s = r /\ w # v
    BY <1>4, <1>6, <2>5
  <2>6. CASE s # r
    BY <1>4, <1>7, <2>6
  <2> QED BY <2>4, <2>5, <2>6
<1> QED BY <1>8 DEF Channel

\* A pop takes the oldest flit of one virtual channel.
LEMMA PopTakes ==
  ASSUME RInv, NEW r \in Relays, Pop(r)
  PROVE  \E v \in VCs : Abstract!Take(r, v)
<1>1. PICK v \in VCs : /\ buffers[r][v] # <<>>
                       /\ buffers' = [buffers EXCEPT ![r][v] = Tail(buffers[r][v])]
  BY DEF Pop, FrontVC, Occupied
<1>2. UNCHANGED <<txLevel, rxLevel, flitN>>
  BY DEF Pop, pending
<1>3. /\ \A s \in Relays : s # r => buffers'[s] = buffers[s]
      /\ \A w \in VCs : w # v => buffers'[r][w] = buffers[r][w]
      /\ buffers'[r][v] = Tail(buffers[r][v])
  BY <1>1 DEF RInv, TypeOK
<1>4. \A s \in Relays : \A w \in VCs : Wire(s, w)' = Wire(s, w)
  BY <1>2 DEF Wire, InFlight
<1>5. /\ Channel[r][v] # <<>>
      /\ Tail(Channel[r][v]) = Tail(buffers[r][v]) \o Wire(r, v)
  <2>1. buffers[r][v] \in Seq(Flits) /\ Wire(r, v) \in Seq(Flits)
        /\ Channel[r][v] = buffers[r][v] \o Wire(r, v)
    BY ChannelType
  <2>2. /\ buffers[r][v] \o Wire(r, v) # <<>>
        /\ Tail(buffers[r][v] \o Wire(r, v)) = Tail(buffers[r][v]) \o Wire(r, v)
    BY <1>1, <2>1, TailConcat
  <2> QED BY <2>1, <2>2
<1>6. \A s \in Relays : \A w \in VCs :
         Channel'[s][w] = IF s = r /\ w = v THEN Tail(Channel[s][w]) ELSE Channel[s][w]
  BY <1>3, <1>4, <1>5 DEF Channel
<1>7. Channel' = [Channel EXCEPT ![r][v] = Tail(Channel[r][v])]
  <2>1. \A s \in Relays : \A w \in VCs :
           Channel'[s][w] = IF s = r /\ w = v THEN Tail(Channel[r][v]) ELSE Channel[s][w]
    BY <1>6
  <2> QED BY <2>1, OneChannelChanges
<1> QED BY <1>5, <1>7 DEF Abstract!Take

\* Reset finds nothing to clear.
LEMMA ResetClears ==
  ASSUME RInv, NEW r \in Relays, Reset(r)
  PROVE  Channel' = Channel
<1>1. RInv'
  BY ResetRInv
<1>2. reset /\ reset'
  BY DEF Reset
<1>3. \A s \in Relays : ~InFlight(s) /\ ~InFlight(s)'
  BY <1>1, <1>2, Paired DEF RInv, Quiet, InFlight
<1>4. \A s \in Relays : \A w \in VCs : buffers'[s][w] = buffers[s][w]
  BY <1>1, <1>2 DEF RInv, Quiet
<1> QED BY <1>3, <1>4, ChannelUnchanged DEF Wire

\* Every step of the relays is a step of the channels, or changes none.
LEMMA NextChannel == RInv /\ [Next]_vars => [Abstract!Next]_Channel
<1> SUFFICES ASSUME RInv, [Next]_vars PROVE [Abstract!Next]_Channel
  OBVIOUS
<1>1. ASSUME NEW r \in Relays, RelayStep(r) PROVE [Abstract!Next]_Channel
  <2>1. CASE Reset(r)
    BY <2>1, ResetClears
  <2>2. ASSUME NEW f \in Flits, Send(r, f) PROVE Abstract!Next
    <3>1. Abstract!Put(Peer[r], f) /\ Peer[r] \in Relays
      BY <2>2, SendPuts, Paired
    <3> QED BY <3>1 DEF Abstract!Next, Abstract!Flits, Flits
  <2>3. CASE Receive(r)
    BY <2>3, ReceiveMoves
  <2>4. CASE Pop(r)
    BY <2>4, PopTakes DEF Abstract!Next
  <2>5. CASE Skip(r) \/ Update(r)
    BY <2>5, ChannelUnchanged DEF Skip, Update, local, pending, Wire, InFlight
  <2> QED BY <1>1, <2>1, <2>2, <2>3, <2>4, <2>5 DEF RelayStep
<1>2. CASE Delta
  BY <1>2, ChannelUnchanged DEF Delta, local, pending, Wire, InFlight
<1>3. CASE UNCHANGED vars
  BY <1>3, ChannelUnchanged DEF vars, local, pending, Wire, InFlight
<1> QED BY <1>1, <1>2, <1>3 DEF Next

(***************************************************************************)
(* The relays implement bounded first-in first-out channels.               *)
(***************************************************************************)
THEOREM RelayImplementsChannel == Spec => ImplementsChannel
  BY InitChannel, NextChannel, RelayInvariant, PTL
     DEF Spec, ImplementsChannel, Abstract!Spec
=============================================================================
