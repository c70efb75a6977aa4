------------------------------- MODULE Relay -------------------------------
(***************************************************************************)
(* The relays of the network (Hardware/Relay.cpp) and the links that bind  *)
(* them in pairs, under the evaluate/update discipline of SystemC.         *)
(*                                                                         *)
(* A link is driven by an alternating bit protocol in each direction: the  *)
(* sender toggles req, the receiver answers by toggling ack, and next to   *)
(* it flows one credit counter per virtual channel, the free slots of the  *)
(* receiver's buffers.  All of these are sc_signals: what a device writes  *)
(* during an evaluation is seen by the others only after the update phase  *)
(* that ends it (Delta).  The devices of one evaluation run in any order.  *)
(*                                                                         *)
(* Signals are indexed by the relay that owns them (sig_flit, sig_req,     *)
(* sig_ack, sig_free_slots of Relay.hpp); a name ending in N is the value  *)
(* the signal takes at the next update phase.                              *)
(***************************************************************************)
EXTENDS Naturals, Sequences

CONSTANTS Relays,   \* all relays, of routers and processors
          Peer,     \* Peer[r] is r.bound
          NumVCs,   \* config.VirtualChannels()
          Depth,    \* config.BufferDepth()
          Payloads  \* what distinguishes two flits of one virtual channel

VCs == 0 .. NumVCs - 1

\* The part of a Flit a relay looks at: its virtual channel, and data that
\* stands for every other field.
Flits == [data : Payloads, vc : VCs]

\* Bind connects relays in pairs, both ends with the same number of virtual
\* channels; Buffer::Reserve asserts a positive depth.
ASSUME RelayAssumption ==
    /\ Peer \in [Relays -> Relays]
    /\ \A r \in Relays : Peer[r] # r /\ Peer[Peer[r]] = r
    /\ NumVCs \in Nat \ {0}
    /\ Depth \in Nat \ {0}
    /\ Payloads # {}

VARIABLES
    reset,     \* Network.reset
    ran,       \* the relays whose device finished its Update in this evaluation
    txLevel,   \* tx_current_level
    rxLevel,   \* rx_current_level
    current,   \* current_virtual_channel
    buffers,   \* buffers
    flit, flitN, req, reqN, ack, ackN, free, freeN

local   == <<txLevel, rxLevel, current, buffers>>
signals == <<flit, req, ack, free>>
pending == <<flitN, reqN, ackN, freeN>>
vars    == <<reset, ran, local, signals, pending>>

NoFlit == CHOOSE f \in Flits : TRUE     \* what an sc_signal<Flit> starts with

\* The levels and signals keep their types; an announced credit never exceeds the
\* depth of a buffer (Relay::Update).
TypeOK ==
    /\ reset \in BOOLEAN
    /\ ran \subseteq Relays
    /\ txLevel \in [Relays -> BOOLEAN] /\ rxLevel \in [Relays -> BOOLEAN]
    /\ current \in [Relays -> VCs]
    /\ buffers \in [Relays -> [VCs -> Seq(Flits)]]
    /\ flit \in [Relays -> Flits] /\ flitN \in [Relays -> Flits]
    /\ req \in [Relays -> BOOLEAN] /\ reqN \in [Relays -> BOOLEAN]
    /\ ack \in [Relays -> BOOLEAN] /\ ackN \in [Relays -> BOOLEAN]
    /\ free \in [Relays -> [VCs -> 0 .. Depth]]
    /\ freeN \in [Relays -> [VCs -> 0 .. Depth]]

\* The program starts with reset high and every signal at its default.
Init ==
    /\ reset = TRUE
    /\ ran = {}
    /\ txLevel = [r \in Relays |-> FALSE] /\ rxLevel = [r \in Relays |-> FALSE]
    /\ current = [r \in Relays |-> 0]
    /\ buffers = [r \in Relays |-> [v \in VCs |-> <<>>]]
    /\ flit = [r \in Relays |-> NoFlit] /\ flitN = flit
    /\ req = [r \in Relays |-> FALSE] /\ reqN = req
    /\ ack = [r \in Relays |-> FALSE] /\ ackN = ack
    /\ free = [r \in Relays |-> [v \in VCs |-> 0]] /\ freeN = free

-----------------------------------------------------------------------------
\* A mutation of FreeSlots: one slot too many.
FreeSlotsPlusOne(r) == [v \in VCs |-> Depth + 1 - Len(buffers[r][v])]

FreeSlots(r) == [v \in VCs |-> Depth - Len(buffers[r][v])]

\* A mutation of CanSend: the acknowledgement is not awaited.
CanSendAtOnce(r, v) == free[r][v] > 0

CanSend(r, v) == txLevel[r] = ack[Peer[r]] /\ free[r][v] > 0

\* A mutation of CanReceive: the level of req is taken for its edge.
CanReceiveHigh(r) == req[r]

CanReceive(r) == req[r] # rxLevel[r]

\* The virtual channels that hold a flit, and the first of them from
\* current_virtual_channel on: the one Front shows and Pop takes from.
Occupied(r) == {v \in VCs : buffers[r][v] # <<>>}

Offset(r, v) == IF v >= current[r] THEN v - current[r]
                                   ELSE v + NumVCs - current[r]

FrontVC(r, v) == v \in Occupied(r) /\ \A w \in Occupied(r) : Offset(r, v) <= Offset(r, w)

-----------------------------------------------------------------------------
\* A device touches its relay only while its Update runs.
Running(r) == ~reset /\ r \notin ran

\* Relay::Reset, all a device does with its relays while reset is high.
Reset(r) ==
    /\ reset /\ r \notin ran
    /\ txLevel' = [txLevel EXCEPT ![r] = FALSE]
    /\ rxLevel' = [rxLevel EXCEPT ![r] = FALSE]
    /\ buffers' = [buffers EXCEPT ![r] = [v \in VCs |-> <<>>]]
    /\ reqN' = [reqN EXCEPT ![Peer[r]] = FALSE]
    /\ ackN' = [ackN EXCEPT ![r] = FALSE]
    /\ freeN' = [freeN EXCEPT ![Peer[r]] = [v \in VCs |-> Depth]]
    /\ ran' = ran \cup {r}
    /\ UNCHANGED <<reset, current, flitN, signals>>

Send(r, f) ==
    /\ Running(r)
    /\ CanSend(r, f.vc)
    /\ flitN' = [flitN EXCEPT ![Peer[r]] = f]
    /\ txLevel' = [txLevel EXCEPT ![r] = ~@]
    /\ reqN' = [reqN EXCEPT ![Peer[r]] = ~txLevel[r]]
    /\ UNCHANGED <<reset, ran, rxLevel, current, buffers, signals, ackN, freeN>>

\* Mutations of Receive: the flit is put in front of those that wait, the flit is not
\* acknowledged.
ReceiveInFront(r) ==
    /\ Running(r) /\ CanReceive(r)
    /\ buffers' = [buffers EXCEPT ![r][flit[r].vc] = <<flit[r]>> \o @]
    /\ rxLevel' = [rxLevel EXCEPT ![r] = ~@]
    /\ ackN' = [ackN EXCEPT ![r] = ~rxLevel[r]]
    /\ UNCHANGED <<reset, ran, txLevel, current, signals, flitN, reqN, freeN>>

ReceiveSilently(r) ==
    /\ Running(r) /\ CanReceive(r)
    /\ buffers' = [buffers EXCEPT ![r][flit[r].vc] = Append(@, flit[r])]
    /\ rxLevel' = [rxLevel EXCEPT ![r] = ~@]
    /\ UNCHANGED <<reset, ran, txLevel, current, signals, pending>>

\* The overflow and bad-channel throws of Receive are stated as NoOverflow.
Receive(r) ==
    /\ Running(r)
    /\ CanReceive(r)
    /\ buffers' = [buffers EXCEPT ![r][flit[r].vc] = Append(@, flit[r])]
    /\ rxLevel' = [rxLevel EXCEPT ![r] = ~@]
    /\ ackN' = [ackN EXCEPT ![r] = ~rxLevel[r]]
    /\ UNCHANGED <<reset, ran, txLevel, current, signals, flitN, reqN, freeN>>

Pop(r) ==
    /\ Running(r)
    /\ \E v \in VCs :
          /\ FrontVC(r, v)
          /\ buffers' = [buffers EXCEPT ![r][v] = Tail(@)]
    /\ UNCHANGED <<reset, ran, txLevel, rxLevel, current, signals, pending>>

Skip(r) ==
    /\ Running(r)
    /\ current' = [current EXCEPT ![r] = (@ + 1) % NumVCs]
    /\ UNCHANGED <<reset, ran, txLevel, rxLevel, buffers, signals, pending>>

\* Relay::Update, the last call Router::Update and Processor::Update make on a
\* relay, after they have received what had arrived.
Update(r) ==
    /\ Running(r)
    /\ ~CanReceive(r)
    /\ freeN' = [freeN EXCEPT ![Peer[r]] = FreeSlots(r)]
    /\ ran' = ran \cup {r}
    /\ UNCHANGED <<reset, local, signals, flitN, reqN, ackN>>

\* The update phase, once every device has run.  Between two evaluations the
\* program may lower reset, and never raises it again.
Delta ==
    /\ ran = Relays
    /\ ran' = {}
    /\ reset' \in {FALSE, reset}
    /\ flit' = flitN /\ req' = reqN /\ ack' = ackN /\ free' = freeN
    /\ UNCHANGED <<local, pending>>

RelayStep(r) == Reset(r) \/ (\E f \in Flits : Send(r, f)) \/ Receive(r)
                         \/ Pop(r) \/ Skip(r) \/ Update(r)

Next == Delta \/ \E r \in Relays : RelayStep(r)

Spec == Init /\ [][Next]_vars

\* The simulator runs every device at every clock edge, and a device that finds
\* an arrived flit receives it before it calls Update.
Fairness == /\ WF_vars(Delta)
            /\ \A r \in Relays : /\ WF_vars(Reset(r))
                                 /\ WF_vars(Receive(r))
                                 /\ WF_vars(Update(r))

FairSpec == Spec /\ Fairness

-----------------------------------------------------------------------------
\* A flit has been sent towards r and r has not received it.
InFlight(r) == txLevel[Peer[r]] # rxLevel[r]

(***************************************************************************)
(* Receive never throws: the flit that has arrived names a virtual channel *)
(* of the relay and the buffer of that channel has room, although the      *)
(* sender decided on a credit that was counted a cycle or more before.     *)
(***************************************************************************)
NoOverflow ==
    \A r \in Relays : CanReceive(r) =>
        /\ flit[r].vc \in VCs
        /\ Len(buffers[r][flit[r].vc]) < Depth

(***************************************************************************)
(* The credit a sender acts on is never more than the receiver has: in a   *)
(* cycle in which the handshake lets r send, the free slots it reads are   *)
(* still free whatever the peer does in the same evaluation (the warning   *)
(* on Relay::GetFreeSlots).                                                *)
(***************************************************************************)
CreditSound ==
    \A r \in Relays : txLevel[r] = ack[Peer[r]] =>
        \A v \in VCs : free[r][v] + Len(buffers[Peer[r]][v]) <= Depth

(***************************************************************************)
(* A flit put on the wires is not overwritten before it is received:  the  *)
(* handshake lets a relay send only when all it sent has been received.    *)
(***************************************************************************)
NoOverwrite ==
    \A r \in Relays : txLevel[r] = ack[Peer[r]] => ~InFlight(Peer[r])

(***************************************************************************)
(* What a device sees at a clock edge, just after the update phase, is the *)
(* truth, although all of it went through signals: it may send exactly     *)
(* when nothing is under way and the peer has room, and receive exactly    *)
(* what was sent.  This is what lets the Network module model a whole cycle*)
(* as one step.                                                            *)
(***************************************************************************)
SeesTruth ==
    \A r \in Relays :
        /\ CanReceive(r) <=> InFlight(r)
        /\ CanReceive(r) => flit[r] = flitN[r]
        /\ \A v \in VCs :
              CanSend(r, v) <=> ~InFlight(Peer[r]) /\ Len(buffers[Peer[r]][v]) < Depth

CycleView == [][Delta => SeesTruth']_vars

\* The flits sent towards r and not popped, in the order they were sent.
Wire(r, v) == IF InFlight(r) /\ flitN[r].vc = v THEN <<flitN[r]>> ELSE <<>>

Channel == [r \in Relays |-> [v \in VCs |-> buffers[r][v] \o Wire(r, v)]]

(***************************************************************************)
(* The relays implement the channels of FlitChannel: nothing sent is lost, *)
(* duplicated or reordered on a virtual channel, and a channel never holds *)
(* more than Depth flits, those on the wires included.                     *)
(***************************************************************************)
Abstract == INSTANCE FlitChannel WITH chan <- Channel
ImplementsChannel == Abstract!Spec

(***************************************************************************)
(* A flit that is sent is received, whatever the other relay does.         *)
(***************************************************************************)
EveryFlitArrives == \A r \in Relays : InFlight(r) ~> ~InFlight(r)

(***************************************************************************)
(* The link recovers: if from some time on the peer's buffer always has    *)
(* room on v, then the sender is allowed to send on v again and again.     *)
(***************************************************************************)
LinkRecovers ==
    \A r \in Relays : \A v \in VCs :
        <>[](Len(Channel[Peer[r]][v]) < Depth) => []<>CanSend(r, v)
=============================================================================
