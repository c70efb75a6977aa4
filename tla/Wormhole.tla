------------------------------ MODULE Wormhole ------------------------------
(***************************************************************************)
(* What the routers of the network promise together: wormhole switching.   *)
(*                                                                         *)
(* A channel is one virtual channel of one link with the buffer behind it. *)
(* In a step any number of channels pass their oldest flit on to another   *)
(* channel.  The head flit of a packet reserves the channel it is going    *)
(* to, the other flits follow it there, and the tail flit releases the     *)
(* reservation.  Which channels move, and where to, is left open: that is  *)
(* the business of routing, selection and arbitration.  The Network module *)
(* implements this one, a clock cycle being one step.                      *)
(***************************************************************************)
EXTENDS Naturals, Sequences

CONSTANTS
    Channels,  \* all channels
    Out,       \* Out[c]: where the router that reads channel c can send
    Injects,   \* the channels that processors feed
    Flits,     \* records with the fields pkt, seq, len and what else a packet has
    Depth,     \* the flits a channel can hold
    None       \* no channel, no flit

Ejects == {c \in Channels : Out[c] = {}}    \* the channels processors read

ASSUME WormholeAssumption ==
    /\ Injects \subseteq Channels
    /\ Out \in [Channels -> SUBSET (Channels \ Injects)]
    /\ \A f \in Flits : f.seq \in Nat /\ f.len \in Nat \ {0}
    /\ Depth \in Nat \ {0}
    /\ None \notin Channels /\ None \notin Flits

VARIABLES
    q,         \* the flits of each channel, oldest first
    table,     \* the reservations: the channel a packet is being sent to
    hop,       \* where each channel sent a flit in the last step
    injected,  \* the flit each processor sent in the last step
    left,      \* the last flit to leave a channel, if it was not a tail flit
    entered    \* the last flit to enter a channel, if it was not a tail flit

wvars == <<q, table, hop, injected, left, entered>>

IsHead(f) == f.seq = 0
IsTail(f) == f.seq + 1 = f.len

\* What remains open after flit f: its packet, unless f ends it.
Open(f) == IF IsTail(f) THEN None ELSE f

\* f is the flit that must come after what is open: the next one of the same packet.
Follows(open, f) ==
    IF open = None THEN IsHead(f)
                   ELSE f.seq = open.seq + 1 /\ f = [open EXCEPT !.seq = f.seq]

MaybeChannel == Channels \cup {None}
MaybeFlit    == Flits \cup {None}

\* For each channel, somewhere its router can send to, or nowhere.
Routes == {r \in [Channels -> MaybeChannel] : \A c \in Channels : r[c] \in Out[c] \cup {None}}

\* Channels hold flits only, and reservations and hops lead only to where the
\* router of the channel can send (ReservationTable, Router::TXProcess).
WTypeOK ==
    /\ q \in [Channels -> Seq(Flits)]
    /\ table \in Routes /\ hop \in Routes
    /\ injected \in [Injects -> MaybeFlit]
    /\ left \in [Channels -> MaybeFlit]
    /\ entered \in [Channels -> MaybeFlit]

Init ==
    /\ q = [c \in Channels |-> <<>>]
    /\ table = [c \in Channels |-> None]
    /\ hop = [c \in Channels |-> None]
    /\ injected = [c \in Injects |-> None]
    /\ left = [c \in Channels |-> None]
    /\ entered = [c \in Channels |-> None]

-----------------------------------------------------------------------------
\* The reservations as they are when the flits of this step move.
Granted(c) == IF hop'[c] # None THEN hop'[c] ELSE table'[c]

\* A mutation of Forward: a full channel takes one more flit.
ForwardFull ==
    \A c \in Channels : hop'[c] # None => q[c] # <<>> /\ Len(q[hop'[c]]) <= Depth

\* A flit moves to where there is room.
Forward ==
    \A c \in Channels : hop'[c] # None => q[c] # <<>> /\ Len(q[hop'[c]]) < Depth

\* A mutation of Reserve: two packets may reserve the same channel.
ReserveShared ==
    \A c \in Channels : Granted(c) # table[c] =>
        Granted(c) # None /\ q[c] # <<>> /\ IsHead(Head(q[c]))

\* Only a head flit at the front of its channel reserves, or changes what it
\* has reserved, and no two channels hold the same reservation.
Reserve ==
    /\ \A c \in Channels : Granted(c) # table[c] =>
          Granted(c) # None /\ q[c] # <<>> /\ IsHead(Head(q[c]))
    /\ \A c, d \in {e \in Channels : Granted(e) # None} : Granted(c) = Granted(d) => c = d

\* A mutation of Release: the reservation goes with the head flit.
ReleaseAtHead ==
    \A c \in Channels :
        table'[c] = IF hop'[c] # None /\ IsHead(Head(q[c])) THEN None ELSE Granted(c)

\* The tail flit releases the reservation it moves along.
Release ==
    \A c \in Channels :
        table'[c] = IF hop'[c] # None /\ IsTail(Head(q[c])) THEN None ELSE Granted(c)

\* A processor sends its packets whole, one after another.
Inject ==
    \A c \in Injects : injected'[c] # None =>
        Len(q[c]) < Depth /\ Follows(entered[c], injected'[c])

\* A processor consumes what has arrived.
Leaves(c) == hop'[c] # None \/ (c \in Ejects /\ q[c] # <<>>)

\* The flit that enters channel c, or None.
Arrival(c) ==
    IF c \in Injects THEN injected'[c]
    ELSE IF \E d \in Channels : hop'[d] = c THEN Head(q[CHOOSE d \in Channels : hop'[d] = c])
    ELSE None

Remains(c) == IF Leaves(c) THEN Tail(q[c]) ELSE q[c]

\* A mutation of Move: the absence of a flit is queued.
MoveAlways ==
    /\ q' = [c \in Channels |-> Append(Remains(c), Arrival(c))]
    /\ left' = [c \in Channels |-> IF Leaves(c) THEN Open(Head(q[c])) ELSE left[c]]
    /\ entered' = entered

Move ==
    /\ q' = [c \in Channels |->
                IF Arrival(c) = None THEN Remains(c) ELSE Append(Remains(c), Arrival(c))]
    /\ left' = [c \in Channels |-> IF Leaves(c) THEN Open(Head(q[c])) ELSE left[c]]
    /\ entered' = [c \in Channels |->
                IF Arrival(c) = None THEN entered[c] ELSE Open(Arrival(c))]

Next ==
    /\ hop' \in Routes /\ Forward
    /\ table' \in Routes /\ Reserve /\ Release
    /\ injected' \in [Injects -> MaybeFlit] /\ Inject
    /\ Move

Spec == Init /\ [][Next]_wvars

-----------------------------------------------------------------------------
\* The flits of s continue, without a gap, a channel on which open is open.
Chain(open, s) ==
    \A i \in 1 .. Len(s) : Follows(IF i = 1 THEN open ELSE Open(s[i - 1]), s[i])

(***************************************************************************)
(* Packets are never interleaved, broken or reordered on a virtual channel:*)
(* every channel carries whole packets one after another, flit by flit, up *)
(* to and including the channels the processors read.                      *)
(***************************************************************************)
PacketsContiguous == \A c \in Channels : Chain(left[c], q[c])

(***************************************************************************)
(* A packet under way holds the channel it is being sent to until its tail *)
(* has passed, and holds it alone.                                         *)
(***************************************************************************)
PathHeld ==
    /\ \A c \in Channels \ Ejects : left[c] # None => table[c] # None
    /\ \A c, d \in {e \in Channels : table[e] # None} : table[c] = table[d] => c = d

(***************************************************************************)
(* No reservation outlives its packet: when the channels are empty and no  *)
(* processor is in the middle of a packet, nothing is reserved (the tail   *)
(* flit releases every reservation of its packet, Router::Route).          *)
(***************************************************************************)
NothingLeftReserved ==
    (\A c \in Channels : q[c] = <<>>) /\ (\A c \in Injects : entered[c] = None)
        => \A c \in Channels : table[c] = None

\* No channel holds more flits than its buffer has slots.
Bounded == \A c \in Channels : Len(q[c]) <= Depth
=============================================================================
