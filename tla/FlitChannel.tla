---------------------------- MODULE FlitChannel ----------------------------
(***************************************************************************)
(* What a pair of bound relays promises to the devices at its two ends: on *)
(* each virtual channel of each direction, a first-in first-out channel    *)
(* that holds at most Depth flits.  chan[r][v] is the flits sent towards   *)
(* relay r on virtual channel v that the device of r has not popped.       *)
(* Nothing is said here of signals, levels, credits or clock cycles.       *)
(***************************************************************************)
EXTENDS Naturals, Sequences

CONSTANTS Relays,   \* the receiving ends
          VCs,      \* the virtual channels of a link
          Payloads, \* what distinguishes two flits of one virtual channel
          Depth     \* config.BufferDepth()

Flits == [data : Payloads, vc : VCs]

VARIABLE chan

ChannelTypeOK == chan \in [Relays -> [VCs -> Seq(Flits)]]

Init == chan = [r \in Relays |-> [v \in VCs |-> <<>>]]

\* A flit enters the channel towards r: only while there is room for it.
Put(r, f) ==
    /\ Len(chan[r][f.vc]) < Depth
    /\ chan' = [chan EXCEPT ![r][f.vc] = Append(@, f)]

\* The device of r takes the oldest flit of virtual channel v.
Take(r, v) ==
    /\ chan[r][v] # <<>>
    /\ chan' = [chan EXCEPT ![r][v] = Tail(@)]

Next == \E r \in Relays : \/ \E f \in Flits : Put(r, f)
                          \/ \E v \in VCs : Take(r, v)

Spec == Init /\ [][Next]_chan
=============================================================================
