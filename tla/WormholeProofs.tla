--------------------------- MODULE WormholeProofs ---------------------------
(***************************************************************************)
(* Wormhole switching keeps packets whole, for every set of channels, every*)
(* topology, every packet length and every buffer depth.                   *)
(*                                                                         *)
(* That packets are contiguous is not inductive by itself: what arrives on *)
(* a channel continues what is there only because the channel it comes     *)
(* from holds a reservation, and because of what has left that channel     *)
(* before.  The invariant below ties the two ends of a reservation together*)
(* and says that a channel nobody has reserved is between two packets.     *)
(***************************************************************************)
EXTENDS Wormhole, SequenceTheorems, WellFoundedInduction, TLAPS

\* What is open at the end of the flits s, when open is open before them.
EndOf(open, s) == IF s = <<>> THEN open ELSE Open(s[Len(s)])

\* No two channels hold the same reservation.
Exclusive == \A c, d \in Channels : table[c] # None /\ table[c] = table[d] => c = d

\* The two ends of a reservation are in the same packet.
Tied == \A c \in Channels : table[c] # None => entered[table[c]] = left[c]

\* A channel without a reservation has not sent part of a packet.
BetweenOut == \A c \in Channels \ Ejects : table[c] = None => left[c] = None

\* A channel nobody has reserved has not been sent part of a packet.
BetweenIn == \A d \in Channels \ Injects :
                (\A c \in Channels : table[c] # d) => entered[d] = None

\* The last flit to enter is the last in the channel, or the last to leave.
EndsMatch == \A c \in Channels : entered[c] = EndOf(left[c], q[c])

WInv == /\ WTypeOK /\ Bounded /\ PacketsContiguous /\ EndsMatch
        /\ Exclusive /\ Tied /\ BetweenOut /\ BetweenIn

-----------------------------------------------------------------------------
\* What is open after a flit is nothing or the flit.
LEMMA OpenType == ASSUME NEW f \in Flits PROVE Open(f) \in MaybeFlit
  BY DEF Open, MaybeFlit

\* A head flit follows only when nothing is open.
LEMMA HeadFollowsNothing ==
  ASSUME NEW open \in MaybeFlit, NEW f \in Flits, Follows(open, f), IsHead(f)
  PROVE  open = None
  BY WormholeAssumption DEF Follows, IsHead, MaybeFlit

\* Taking the first flit of a chain leaves a chain with the same end.
LEMMA ChainTail ==
  ASSUME NEW open \in MaybeFlit, NEW s \in Seq(Flits), s # <<>>, Chain(open, s)
  PROVE  /\ Follows(open, Head(s))
         /\ Chain(Open(Head(s)), Tail(s))
         /\ EndOf(Open(Head(s)), Tail(s)) = EndOf(open, s)
<1>1. Len(s) \in Nat \ {0} /\ Head(s) = s[1] /\ Tail(s) \in Seq(Flits)
      /\ Len(Tail(s)) = Len(s) - 1
  OBVIOUS
<1>2. \A i \in 1 .. Len(Tail(s)) : Tail(s)[i] = s[i + 1]
  OBVIOUS
<1>3. Follows(open, Head(s))
  BY <1>1 DEF Chain
<1>4. Chain(Open(Head(s)), Tail(s))
  <2>1. SUFFICES ASSUME NEW i \in 1 .. Len(Tail(s))
                 PROVE  Follows(IF i = 1 THEN Open(Head(s)) ELSE Open(Tail(s)[i - 1]), Tail(s)[i])
    BY DEF Chain
  <2>2. i + 1 \in 1 .. Len(s) /\ i + 1 # 1 /\ (i + 1) - 1 = i
    BY <1>1
  <2>3. Follows(Open(s[i]), s[i + 1])
    BY <2>2 DEF Chain
  <2>4. CASE i = 1
    BY <2>3, <2>4, <1>1, <1>2
  <2>5. CASE i # 1
    <3>1. i - 1 \in 1 .. Len(Tail(s)) /\ (i - 1) + 1 = i
      BY <2>5, <1>1
    <3> QED BY <2>3, <2>5, <3>1, <1>2
  <2> QED BY <2>4, <2>5
<1>5. EndOf(Open(Head(s)), Tail(s)) = EndOf(open, s)
  <2>1. CASE Tail(s) = <<>>
    <3>1. Len(Tail(s)) = 0
      BY <2>1, <1>1, EmptySeq
    <3>2. Len(s) = 1
      BY <3>1, <1>1
    <3> QED BY <2>1, <3>2, <1>1 DEF EndOf
  <2>2. CASE Tail(s) # <<>>
    <3>1. Len(Tail(s)) \in 1 .. Len(Tail(s))
      BY <2>2, <1>1
    <3>2. Tail(s)[Len(Tail(s))] = s[Len(s)]
      BY <3>1, <1>1, <1>2
    <3> QED BY <2>2, <3>2 DEF EndOf
  <2> QED BY <2>1, <2>2
<1> QED BY <1>3, <1>4, <1>5

\* A flit that follows what is open at the end of a chain makes it longer.
LEMMA ChainAppend ==
  ASSUME NEW open \in MaybeFlit, NEW s \in Seq(Flits), NEW f \in Flits,
         Chain(open, s), Follows(EndOf(open, s), f)
  PROVE  /\ Chain(open, Append(s, f))
         /\ EndOf(open, Append(s, f)) = Open(f)
<1>1. Append(s, f) \in Seq(Flits) /\ Len(Append(s, f)) = Len(s) + 1 /\ Len(s) \in Nat
  OBVIOUS
<1>2. \A i \in 1 .. Len(s) : Append(s, f)[i] = s[i]
  OBVIOUS
<1>3. Append(s, f)[Len(s) + 1] = f
  OBVIOUS
<1>4. Chain(open, Append(s, f))
  <2>1. SUFFICES ASSUME NEW i \in 1 .. Len(Append(s, f))
                 PROVE  Follows(IF i = 1 THEN open ELSE Open(Append(s, f)[i - 1]), Append(s, f)[i])
    BY DEF Chain
  <2>2. CASE i \in 1 .. Len(s)
    <3>1. Follows(IF i = 1 THEN open ELSE Open(s[i - 1]), s[i])
      BY <2>2 DEF Chain
    <3>2. i # 1 => i - 1 \in 1 .. Len(s)
      BY <2>2, <1>1
    <3> QED BY <3>1, <3>2, <2>2, <1>2
  <2>3. CASE i = Len(s) + 1
    <3>1. CASE s = <<>>
      BY <3>1, <2>3, <1>3 DEF EndOf
    <3>2. CASE s # <<>>
      <4>1. Len(s) \in 1 .. Len(s) /\ i # 1 /\ i - 1 = Len(s)
        BY <3>2, <2>3, <1>1
      <4> QED BY <4>1, <3>2, <2>3, <1>2, <1>3 DEF EndOf
    <3> QED BY <3>1, <3>2
  <2> QED BY <2>2, <2>3, <1>1
<1>5. EndOf(open, Append(s, f)) = Open(f)
  BY <1>1, <1>3 DEF EndOf
<1> QED BY <1>4, <1>5
-----------------------------------------------------------------------------
\* The part of a step that makes reservations.
Grants == hop' \in Routes /\ table' \in Routes /\ Reserve

\* Reservations as they are when the flits move: still exclusive, and the two
\* ends of each are in the same packet.
LEMMA GrantedTied ==
  ASSUME WInv, Grants, NEW c \in Channels, Granted(c) # None
  PROVE  /\ Granted(c) \in Channels \ Injects
         /\ entered[Granted(c)] = left[c]
         /\ \A d \in Channels : Granted(d) = Granted(c) => d = c
<1> DEFINE e == Granted(c)
<1>1. Granted(c) \in Out[c] /\ Out[c] \subseteq Channels \ Injects
  BY WormholeAssumption DEF Grants, Granted, Routes, MaybeChannel
<1>2. \A d \in Channels : Granted(d) = Granted(c) => d = c
  BY DEF Grants, Reserve
<1>3. CASE table[c] = e
  BY <1>1, <1>2, <1>3 DEF WInv, Tied
<1>4. CASE table[c] # e
  <2>1. q[c] # <<>> /\ IsHead(Head(q[c]))
    BY <1>4 DEF Grants, Reserve
  <2>2. left[c] = None
    <3>1. Follows(left[c], Head(q[c])) /\ Head(q[c]) \in Flits
      BY <2>1, ChainTail DEF WInv, WTypeOK, PacketsContiguous
    <3> QED BY <3>1, <2>1, HeadFollowsNothing DEF WInv, WTypeOK
  <2>3. ASSUME NEW d \in Channels, table[d] = e
        PROVE  entered[e] = None
    <3>1. d # c /\ Granted(d) # table[d]
      BY <2>3, <1>2, <1>4
    <3>2. q[d] # <<>> /\ IsHead(Head(q[d]))
      BY <3>1 DEF Grants, Reserve
    <3>3. Follows(left[d], Head(q[d])) /\ Head(q[d]) \in Flits
      BY <3>2, ChainTail DEF WInv, WTypeOK, PacketsContiguous
    <3>4. left[d] = None
      BY <3>2, <3>3, HeadFollowsNothing DEF WInv, WTypeOK
    <3> QED BY <2>3, <3>4, <1>1 DEF WInv, Tied
  <2>4. entered[e] = None
    <3>1. CASE \E d \in Channels : table[d] = e
      BY <3>1, <2>3
    <3>2. CASE \A d \in Channels : table[d] # e
      BY <3>2, <1>1 DEF WInv, BetweenIn
    <3> QED BY <3>1, <3>2
  <2> QED BY <2>2, <2>4, <1>1, <1>2
<1> QED BY <1>3, <1>4

\* Whatever arrives on a channel follows what is open there, and finds room.
LEMMA ArrivalFollows ==
  ASSUME WInv, Next, NEW c \in Channels, Arrival(c) # None
  PROVE  Arrival(c) \in Flits /\ Follows(entered[c], Arrival(c)) /\ Len(q[c]) < Depth
<1>1. CASE c \in Injects
  BY <1>1 DEF Next, Inject, Arrival, MaybeFlit
<1>2. CASE c \notin Injects
  <2>1. PICK d \in Channels : hop'[d] = c /\ Arrival(c) = Head(q[d])
    BY <1>2 DEF Arrival
  <2>2. Granted(d) = c /\ c # None /\ hop'[d] # None
    BY <2>1, WormholeAssumption DEF Granted
  <2>3. q[d] # <<>> /\ Len(q[c]) < Depth
    BY <2>1, <2>2 DEF Next, Forward
  <2>4. Follows(left[d], Head(q[d])) /\ Head(q[d]) \in Flits
    BY <2>3, ChainTail DEF WInv, WTypeOK, PacketsContiguous
  <2>5. entered[c] = left[d]
    BY <2>2, GrantedTied DEF Next, Grants
  <2> QED BY <2>1, <2>3, <2>4, <2>5
<1> QED BY <1>1, <1>2

\* What remains in a channel after a step, before anything arrives.
LEMMA RemainsChain ==
  ASSUME WInv, Next, NEW c \in Channels
  PROVE  /\ Remains(c) \in Seq(Flits) /\ Len(Remains(c)) <= Len(q[c])
         /\ left'[c] \in MaybeFlit
         /\ Chain(left'[c], Remains(c))
         /\ EndOf(left'[c], Remains(c)) = entered[c]
<1>1. q[c] \in Seq(Flits) /\ left[c] \in MaybeFlit /\ Chain(left[c], q[c])
      /\ entered[c] = EndOf(left[c], q[c])
  BY DEF WInv, WTypeOK, PacketsContiguous, EndsMatch
<1>2. left'[c] = IF Leaves(c) THEN Open(Head(q[c])) ELSE left[c]
  BY DEF Next, Move
<1>3. CASE Leaves(c)
  <2>1. q[c] # <<>>
    BY <1>3 DEF Leaves, Next, Forward
  <2>2. Head(q[c]) \in Flits /\ Tail(q[c]) \in Seq(Flits) /\ Len(Tail(q[c])) <= Len(q[c])
    BY <2>1, <1>1
  <2> QED BY <2>1, <2>2, <1>1, <1>2, <1>3, ChainTail, OpenType DEF Remains
<1>4. CASE ~Leaves(c)
  BY <1>1, <1>2, <1>4 DEF Remains
<1> QED BY <1>3, <1>4

-----------------------------------------------------------------------------
\* Initially nothing is anywhere.
LEMMA InitWInv == Init => WInv
<1> SUFFICES ASSUME Init PROVE WInv
  OBVIOUS
<1>1. \A c \in Channels : Len(q[c]) = 0 /\ q[c] \in Seq(Flits)
  <2>1. \A c \in Channels : q[c] = <<>>
    BY DEF Init
  <2> QED BY <2>1, EmptySeq
<1>2. WTypeOK
  BY <1>1, WormholeAssumption DEF Init, WTypeOK, Routes, MaybeChannel, MaybeFlit
<1>3. Bounded
  <2>1. 0 <= Depth
    BY WormholeAssumption
  <2>2. SUFFICES ASSUME NEW c \in Channels PROVE Len(q[c]) <= Depth
    BY DEF Bounded
  <2>3. Len(q[c]) = 0
    BY <1>1
  <2> QED BY <2>1, <2>3
<1>4. PacketsContiguous
  BY <1>1 DEF PacketsContiguous, Chain
<1>5. EndsMatch
  BY DEF Init, EndsMatch, EndOf
<1>6. Exclusive /\ Tied /\ BetweenOut /\ BetweenIn
  BY DEF Init, Exclusive, Tied, BetweenOut, BetweenIn, Ejects
<1> QED BY <1>2, <1>3, <1>4, <1>5, <1>6 DEF WInv

\* Every step, and every step that changes nothing, keeps the invariant.
LEMMA NextWInv == WInv /\ [Next]_wvars => WInv'
<1> SUFFICES ASSUME WInv, [Next]_wvars PROVE WInv'
  OBVIOUS
<1>1. CASE Next
  <2> USE <1>1
  <2>1. ASSUME NEW c \in Channels
        PROVE  /\ q'[c] \in Seq(Flits) /\ Len(q'[c]) <= Depth
               /\ left'[c] \in MaybeFlit /\ entered'[c] \in MaybeFlit
               /\ Chain(left'[c], q'[c])
               /\ entered'[c] = EndOf(left'[c], q'[c])
    <3>1. Remains(c) \in Seq(Flits) /\ Len(Remains(c)) <= Len(q[c]) /\ left'[c] \in MaybeFlit
          /\ Chain(left'[c], Remains(c)) /\ EndOf(left'[c], Remains(c)) = entered[c]
      BY RemainsChain
    <3>2. Len(q[c]) \in Nat /\ Len(q[c]) <= Depth /\ Len(Remains(c)) \in Nat /\ Depth \in Nat
      BY <3>1, WormholeAssumption DEF WInv, WTypeOK, Bounded
    <3>3. CASE Arrival(c) = None
      <4>1. q'[c] = Remains(c) /\ entered'[c] = entered[c]
        BY <3>3 DEF Next, Move
      <4>2. entered[c] \in MaybeFlit
        BY DEF WInv, WTypeOK
      <4> QED BY <3>1, <3>2, <4>1, <4>2
    <3>4. CASE Arrival(c) # None
      <4>1. q'[c] = Append(Remains(c), Arrival(c)) /\ entered'[c] = Open(Arrival(c))
        BY <3>4 DEF Next, Move
      <4>2. Arrival(c) \in Flits /\ Follows(entered[c], Arrival(c)) /\ Len(q[c]) < Depth
        BY <3>4, ArrivalFollows
      <4>3. Chain(left'[c], q'[c]) /\ entered'[c] = EndOf(left'[c], q'[c])
        BY <3>1, <4>1, <4>2, ChainAppend
      <4>4. q'[c] \in Seq(Flits) /\ Len(q'[c]) <= Depth
        BY <3>1, <3>2, <4>1, <4>2
      <4>5. entered'[c] \in MaybeFlit
        BY <4>1, <4>2, OpenType
      <4> QED BY <3>1, <4>3, <4>4, <4>5
    <3> QED BY <3>3, <3>4
  <2>2. WTypeOK'
    <3>1. q' \in [Channels -> Seq(Flits)]
      BY <2>1 DEF Next, Move
    <3>2. left' \in [Channels -> MaybeFlit] /\ entered' \in [Channels -> MaybeFlit]
      BY <2>1 DEF Next, Move
    <3> QED BY <3>1, <3>2 DEF WTypeOK, Next
  <2>3. (Bounded /\ PacketsContiguous /\ EndsMatch)'
    BY <2>1 DEF Bounded, PacketsContiguous, EndsMatch
  <2>4. \A c \in Channels : table'[c] # None => table'[c] = Granted(c)
    BY DEF Next, Release
  <2>5. \A c, d \in Channels : hop'[c] = d => Granted(c) = d /\ Granted(c) # None
    BY WormholeAssumption DEF Granted
  <2>6. Exclusive'
    BY <2>4, GrantedTied DEF Exclusive, Next, Grants
  <2>7. Tied'
    <3>1. SUFFICES ASSUME NEW c \in Channels, table'[c] # None
                   PROVE  entered'[table'[c]] = left'[c]
      BY DEF Tied
    <3> DEFINE d == table'[c]
    <3>2. d = Granted(c) /\ d \in Channels \ Injects /\ entered[d] = left[c]
          /\ \A x \in Channels : Granted(x) = d => x = c
      BY <3>1, <2>4, GrantedTied DEF Next, Grants
    <3>3. c \notin Ejects
      BY <3>1, WormholeAssumption DEF Next, Routes, Ejects
    <3>4. CASE hop'[c] # None
      <4>1. hop'[c] = d
        BY <3>2, <3>4 DEF Granted
      <4>2. \A x \in Channels : hop'[x] = d => x = c
        BY <3>2, <2>5
      <4>3. Arrival(d) = Head(q[c])
        BY <4>1, <4>2, <3>2 DEF Arrival
      <4>4. Arrival(d) # None
        <5>1. q[c] # <<>> /\ q[c] \in Seq(Flits)
          BY <3>4 DEF Next, Forward, WInv, WTypeOK
        <5>2. Head(q[c]) \in Flits
          BY <5>1
        <5> QED BY <4>3, <5>2, WormholeAssumption
      <4>5. entered'[d] = Open(Head(q[c]))
        BY <3>2, <4>3, <4>4 DEF Next, Move
      <4>6. left'[c] = Open(Head(q[c]))
        BY <3>4 DEF Next, Move, Leaves
      <4> QED BY <4>5, <4>6
    <3>5. CASE hop'[c] = None
      <4>1. \A x \in Channels : hop'[x] # d
        BY <3>2, <3>5, <2>5
      <4>2. Arrival(d) = None
        BY <3>2, <4>1 DEF Arrival
      <4>3. entered'[d] = entered[d]
        BY <3>2, <4>2 DEF Next, Move
      <4>4. left'[c] = left[c]
        BY <3>3, <3>5 DEF Next, Move, Leaves
      <4> QED BY <3>2, <4>3, <4>4
    <3> QED BY <3>4, <3>5
  <2>8. BetweenOut'
    <3>1. SUFFICES ASSUME NEW c \in Channels \ Ejects, table'[c] = None
                   PROVE  left'[c] = None
      BY DEF BetweenOut
    <3>2. CASE hop'[c] # None
      <4>1. IsTail(Head(q[c]))
        BY <3>1, <3>2 DEF Next, Release, Granted
      <4> QED BY <3>2, <4>1 DEF Next, Move, Leaves, Open
    <3>3. CASE hop'[c] = None
      <4>1. Granted(c) = None
        BY <3>1, <3>3 DEF Granted
      <4>2. table[c] = None
        BY <4>1 DEF Next, Reserve
      <4>3. left'[c] = left[c]
        BY <3>1, <3>3 DEF Next, Move, Leaves
      <4> QED BY <4>2, <4>3 DEF WInv, BetweenOut
    <3> QED BY <3>2, <3>3
  <2>9. BetweenIn'
    <3>1. SUFFICES ASSUME NEW d \in Channels \ Injects, \A c \in Channels : table'[c] # d
                   PROVE  entered'[d] = None
      BY DEF BetweenIn
    <3>2. CASE Arrival(d) # None
      <4>1. PICK c \in Channels : hop'[c] = d /\ Arrival(d) = Head(q[c])
        BY <3>2 DEF Arrival
      <4>2. IsTail(Head(q[c]))
        BY <4>1, <3>1, <2>5 DEF Next, Release
      <4> QED BY <3>2, <4>1, <4>2 DEF Next, Move, Open
    <3>3. CASE Arrival(d) = None
      <4>1. entered'[d] = entered[d]
        BY <3>3 DEF Next, Move
      <4>2. CASE \A c \in Channels : table[c] # d
        BY <4>1, <4>2 DEF WInv, BetweenIn
      <4>3. ASSUME NEW c \in Channels, table[c] = d
            PROVE  entered[d] = None
        <5>1. d # None
          BY WormholeAssumption
        <5>2. Granted(c) # d
          <6>1. SUFFICES ASSUME Granted(c) = d PROVE FALSE
            OBVIOUS
          <6>2. hop'[c] # None
            BY <6>1, <3>1, <5>1 DEF Granted
          <6>3. hop'[c] = d
            BY <6>1, <6>2 DEF Granted
          <6>4. \A x \in Channels : hop'[x] = d => x = c
            BY <6>1, <5>1, <2>5, GrantedTied DEF Next, Grants
          <6>5. Arrival(d) = Head(q[c])
            BY <6>3, <6>4 DEF Arrival
          <6>6. Head(q[c]) \in Flits
            <7>1. q[c] # <<>> /\ q[c] \in Seq(Flits)
              BY <6>2 DEF Next, Forward, WInv, WTypeOK
            <7> QED BY <7>1
          <6> QED BY <6>5, <6>6, <3>3, WormholeAssumption
        <5>3. q[c] # <<>> /\ IsHead(Head(q[c]))
          BY <4>3, <5>2 DEF Next, Reserve
        <5>4. Follows(left[c], Head(q[c])) /\ Head(q[c]) \in Flits
          BY <5>3, ChainTail DEF WInv, WTypeOK, PacketsContiguous
        <5>5. left[c] = None
          BY <5>3, <5>4, HeadFollowsNothing DEF WInv, WTypeOK
        <5> QED BY <4>3, <5>1, <5>5 DEF WInv, Tied
      <4> QED BY <4>1, <4>2, <4>3
    <3> QED BY <3>2, <3>3
  <2> QED BY <2>2, <2>3, <2>6, <2>7, <2>8, <2>9 DEF WInv
<1>2. CASE UNCHANGED wvars
  BY <1>2 DEF wvars, WInv, WTypeOK, Bounded, PacketsContiguous, EndsMatch, Exclusive,
              Tied, BetweenOut, BetweenIn
<1> QED BY <1>1, <1>2

(***************************************************************************)
(* The invariant holds in every reachable state.                           *)
(***************************************************************************)
THEOREM WormholeInvariant == Spec => []WInv
  BY InitWInv, NextWInv, PTL DEF Spec

(***************************************************************************)
(* Channels hold flits only, and reservations lead only to channels the    *)
(* router that holds them can send to.                                     *)
(***************************************************************************)
THEOREM WormholeTypeOK == Spec => []WTypeOK
<1>1. WInv => WTypeOK
  BY DEF WInv
<1> QED BY <1>1, WormholeInvariant, PTL

(***************************************************************************)
(* On every channel of every network, packets are carried whole, one after *)
(* another: never interleaved, broken or reordered.                        *)
(***************************************************************************)
THEOREM WormholeContiguous == Spec => []PacketsContiguous
<1>1. WInv => PacketsContiguous
  BY DEF WInv
<1> QED BY <1>1, WormholeInvariant, PTL

(***************************************************************************)
(* A packet under way holds the channel it is being sent to, alone.        *)
(***************************************************************************)
THEOREM WormholePathHeld == Spec => []PathHeld
<1>1. WInv => PathHeld
  BY DEF WInv, PathHeld, BetweenOut, Exclusive
<1> QED BY <1>1, WormholeInvariant, PTL

(***************************************************************************)
(* No channel ever holds more flits than its buffer has slots.             *)
(***************************************************************************)
THEOREM WormholeBounded == Spec => []Bounded
<1>1. WInv => Bounded
  BY DEF WInv
<1> QED BY <1>1, WormholeInvariant, PTL
-----------------------------------------------------------------------------
(***************************************************************************)
(* That no reservation outlives its packet: a packet that holds a channel  *)
(* reaches back, channel by channel, to a channel that still has some of   *)
(* its flits or to a processor that has not sent all of it.  The way back  *)
(* ends because a packet only ever grows into channels it is not in yet.   *)
(***************************************************************************)

\* Whoever holds a reservation has sent part of the packet or waits to send it.
HeldFor == \A c \in Channels : table[c] # None /\ left[c] = None => q[c] # <<>>

\* No packet ends in the flits s.
Endless(s) == \A i \in 1 .. Len(s) : ~IsTail(s[i])

\* A packet reaches from channel c through channel d and further.
Taut(c, d) == table[c] = d /\ left[c] # None /\ left[d] # None /\ Endless(q[d])

\* The channels can be numbered upwards along every packet.
Ranked == \E rank \in [Channels -> Nat] :
             \A c, d \in Channels : Taut(c, d) => rank[c] < rank[d]

RInv == WInv /\ HeldFor /\ Ranked

\* After flits without a tail flit, what was open before them still is.
LEMMA EndlessEnd ==
  ASSUME NEW open \in Flits, NEW s \in Seq(Flits), Endless(s)
  PROVE  EndOf(open, s) # None
<1>1. CASE s = <<>>
  BY <1>1, WormholeAssumption DEF EndOf
<1>2. CASE s # <<>>
  <2>1. Len(s) \in 1 .. Len(s)
    BY <1>2
  <2>2. s[Len(s)] \in Flits /\ ~IsTail(s[Len(s)])
    BY <2>1 DEF Endless
  <2> QED BY <1>2, <2>2, WormholeAssumption DEF EndOf, Open
<1> QED BY <1>1, <1>2

\* A channel that has sent part of a packet keeps its reservation.
LEMMA MidPacketKeeps ==
  ASSUME WInv, Next, NEW c \in Channels, left[c] # None
  PROVE  Granted(c) = table[c]
<1> SUFFICES ASSUME Granted(c) # table[c] PROVE FALSE
  OBVIOUS
<1>1. q[c] # <<>> /\ IsHead(Head(q[c]))
  BY DEF Next, Reserve
<1>2. Follows(left[c], Head(q[c])) /\ Head(q[c]) \in Flits
  BY <1>1, ChainTail DEF WInv, WTypeOK, PacketsContiguous
<1> QED BY <1>1, <1>2, HeadFollowsNothing DEF WInv, WTypeOK

\* A reservation after a step is one the flits of that step have moved along.
LEMMA TableGranted ==
  ASSUME WInv, Next, NEW c \in Channels, table'[c] # None
  PROVE  /\ table'[c] = Granted(c) /\ table'[c] \in Channels \ Injects /\ c \notin Ejects
         /\ \A x \in Channels : Granted(x) = table'[c] => x = c
<1>1. table'[c] = Granted(c) /\ Granted(c) # None
  BY DEF Next, Release
<1>2. c \notin Ejects
  BY WormholeAssumption DEF Next, Routes, Ejects
<1>3. Grants
  BY DEF Grants, Next
<1> QED BY <1>1, <1>2, <1>3, GrantedTied

LEMMA NextHeldFor ==
  ASSUME WInv, HeldFor, Next
  PROVE  HeldFor'
<1> SUFFICES ASSUME NEW c \in Channels, table'[c] # None, left'[c] = None
             PROVE  q'[c] # <<>>
  BY DEF HeldFor
<1>1. table'[c] = Granted(c) /\ c \notin Ejects
  BY TableGranted
<1>2. q[c] \in Seq(Flits) /\ left[c] \in MaybeFlit
  BY DEF WInv, WTypeOK
<1>3. hop'[c] = None
  <2> SUFFICES ASSUME hop'[c] # None PROVE FALSE
    OBVIOUS
  <2>1. q[c] # <<>> /\ ~IsTail(Head(q[c]))
    BY DEF Next, Forward, Release
  <2>2. left'[c] = Head(q[c])
    BY <2>1 DEF Next, Move, Leaves, Open
  <2>3. Head(q[c]) \in Flits
    BY <1>2, <2>1
  <2> QED BY <2>2, <2>3, WormholeAssumption
<1>4. left'[c] = left[c] /\ Remains(c) = q[c]
  BY <1>1, <1>3 DEF Next, Move, Leaves, Remains
<1>5. q[c] # <<>>
  <2>1. CASE Granted(c) = table[c]
    BY <1>1, <1>4, <2>1 DEF HeldFor
  <2>2. CASE Granted(c) # table[c]
    BY <2>2 DEF Next, Reserve
  <2> QED BY <2>1, <2>2
<1>6. q'[c] = q[c] \/ q'[c] = Append(q[c], Arrival(c))
  BY <1>4 DEF Next, Move
<1>7. \A f : Append(q[c], f) # <<>>
  BY <1>2
<1> QED BY <1>5, <1>6, <1>7

\* A packet that reaches through d now and was in d before did so before.
LEMMA TautBefore ==
  ASSUME WInv, Next, NEW c \in Channels, NEW d \in Channels, Taut(c, d)', left[d] # None
  PROVE  Taut(c, d)
<1>1. table'[c] = d /\ table'[c] # None /\ left'[d] # None /\ Endless(q'[d])
  BY WormholeAssumption DEF Taut, Endless
<1>2. /\ d = Granted(c) /\ d \in Channels \ Injects
      /\ \A x \in Channels : Granted(x) = d => x = c
  BY <1>1, TableGranted
<1>3. q[d] \in Seq(Flits) /\ left[d] \in Flits /\ Remains(d) \in Seq(Flits)
  BY RemainsChain DEF WInv, WTypeOK, MaybeFlit
<1>4. Endless(Remains(d))
  <2>1. q'[d] = Remains(d) \/ q'[d] = Append(Remains(d), Arrival(d))
    BY DEF Next, Move
  <2>2. \A f : \A i \in 1 .. Len(Remains(d)) :
            i \in 1 .. Len(Append(Remains(d), f)) /\ Append(Remains(d), f)[i] = Remains(d)[i]
    BY <1>3
  <2>3. CASE q'[d] = Remains(d)
    BY <1>1, <2>3
  <2>4. CASE q'[d] = Append(Remains(d), Arrival(d))
    BY <1>1, <2>2, <2>4 DEF Endless
  <2> QED BY <2>1, <2>3, <2>4
<1>5. Endless(q[d])
  <2>1. CASE Leaves(d)
    <3>1. q[d] # <<>>
      BY <2>1 DEF Leaves, Next, Forward
    <3>2. left'[d] = Open(Head(q[d])) /\ Remains(d) = Tail(q[d])
      BY <2>1 DEF Next, Move, Remains
    <3>3. ~IsTail(q[d][1])
      BY <1>1, <1>3, <3>1, <3>2 DEF Open
    <3>4. \A i \in 1 .. Len(q[d]) : i # 1 => i - 1 \in 1 .. Len(Tail(q[d]))
                                            /\ Tail(q[d])[i - 1] = q[d][i]
      BY <1>3, <3>1
    <3> QED BY <1>4, <3>2, <3>3, <3>4 DEF Endless
  <2>2. CASE ~Leaves(d)
    BY <1>4, <2>2 DEF Remains
  <2> QED BY <2>1, <2>2
<1>6. entered[d] # None
  BY <1>3, <1>5, EndlessEnd DEF WInv, EndsMatch
<1>7. PICK z \in Channels : table[z] = d
  BY <1>2, <1>6 DEF WInv, BetweenIn
<1>8. left[z] # None
  BY <1>2, <1>6, <1>7, WormholeAssumption DEF WInv, Tied
<1>9. z = c
  BY <1>2, <1>7, <1>8, MidPacketKeeps
<1> QED BY <1>5, <1>7, <1>8, <1>9 DEF Taut

\* A packet whose head has just left a channel reaches no further than the next.
LEMMA FreshEnds ==
  ASSUME WInv, Next, NEW c \in Channels, NEW d \in Channels, Taut(c, d)'
  PROVE  left[c] # None
<1> SUFFICES ASSUME left[c] = None PROVE FALSE
  OBVIOUS
<1>1. table'[c] = d /\ table'[c] # None /\ left'[c] # None /\ left'[d] # None /\ Endless(q'[d])
  BY WormholeAssumption DEF Taut, Endless
<1>2. d = Granted(c) /\ c \notin Ejects /\ d \notin Injects
      /\ \A x \in Channels : Granted(x) = d => x = c
  BY <1>1, TableGranted
<1>3. hop'[c] # None /\ left'[c] = Open(Head(q[c])) /\ q[c] # <<>>
  BY <1>1, <1>2 DEF Next, Move, Leaves, Forward
<1>4. hop'[c] = d /\ \A x \in Channels : hop'[x] = d => x = c
  BY <1>2, <1>3, WormholeAssumption DEF Granted
<1>5. Arrival(d) = Head(q[c])
  BY <1>2, <1>4 DEF Arrival
<1>6. Head(q[c]) \in Flits /\ Follows(None, Head(q[c]))
  BY <1>3, ChainTail DEF WInv, WTypeOK, PacketsContiguous
<1>7. Arrival(d) # None /\ IsHead(Arrival(d))
  BY <1>5, <1>6, WormholeAssumption DEF Follows
<1>8. entered[d] = None
  <2>1. Arrival(d) \in Flits /\ Follows(entered[d], Arrival(d))
    BY <1>7, ArrivalFollows
  <2> QED BY <1>7, <2>1, HeadFollowsNothing DEF WInv, WTypeOK
<1>9. Remains(d) \in Seq(Flits) /\ left'[d] \in Flits /\ EndOf(left'[d], Remains(d)) = None
  BY <1>1, <1>8, RemainsChain DEF MaybeFlit
<1>10. Endless(Remains(d))
  <2>1. q'[d] = Append(Remains(d), Arrival(d))
    BY <1>7 DEF Next, Move
  <2>2. \A f : \A i \in 1 .. Len(Remains(d)) :
            i \in 1 .. Len(Append(Remains(d), f)) /\ Append(Remains(d), f)[i] = Remains(d)[i]
    BY <1>9
  <2> QED BY <1>1, <2>1, <2>2 DEF Endless
<1> QED BY <1>9, <1>10, EndlessEnd

LEMMA NextRanked ==
  ASSUME WInv, Ranked, Next
  PROVE  Ranked'
<1>1. PICK rank \in [Channels -> Nat] : \A c, d \in Channels : Taut(c, d) => rank[c] < rank[d]
  BY DEF Ranked
<1> DEFINE into(d) == CHOOSE c \in Channels : table'[c] = d
           fresh(d) == left[d] = None /\ \E c \in Channels : table'[c] = d
           new == [d \in Channels |-> IF fresh(d) THEN rank[into(d)] + 1 ELSE rank[d]]
<1>2. \A d \in Channels : (\E c \in Channels : table'[c] = d) => into(d) \in Channels
  OBVIOUS
<1>3. new \in [Channels -> Nat]
  <2> HIDE DEF into
  <2> QED BY <1>2
<1>4. ASSUME NEW c \in Channels, NEW d \in Channels, Taut(c, d)'
      PROVE  new[c] < new[d]
  <2>1. left[c] # None
    BY <1>4, FreshEnds
  <2>2. new[c] = rank[c] /\ rank[c] \in Nat
    BY <2>1
  <2>3. CASE left[d] # None
    <3>1. new[d] = rank[d]
      BY <2>3
    <3>2. rank[c] < rank[d]
      BY <1>1, <1>4, <2>3, TautBefore
    <3> QED BY <2>2, <3>1, <3>2
  <2>4. CASE left[d] = None
    <3>1. table'[c] = d /\ table'[c] # None
      BY <1>4, WormholeAssumption DEF Taut
    <3>2. \A x \in Channels : table'[x] = d => x = c
      BY <3>1, TableGranted, WormholeAssumption
    <3>3. into(d) = c
      BY <3>1, <3>2
    <3>4. new[d] = rank[c] + 1
      BY <2>4, <3>1, <3>3
    <3> HIDE DEF new
    <3> QED BY <2>2, <3>4
  <2> QED BY <2>3, <2>4
<1> HIDE DEF new
<1> QED BY <1>3, <1>4 DEF Ranked

LEMMA NextRInv == RInv /\ [Next]_wvars => RInv'
<1> SUFFICES ASSUME RInv, [Next]_wvars PROVE RInv'
  OBVIOUS
<1>1. WInv'
  BY NextWInv DEF RInv
<1>2. CASE Next
  BY <1>1, <1>2, NextHeldFor, NextRanked DEF RInv
<1>3. CASE UNCHANGED wvars
  BY <1>1, <1>3 DEF RInv, wvars, HeldFor, Ranked, Taut, Endless
<1> QED BY <1>2, <1>3

LEMMA InitRInv == Init => RInv
<1> SUFFICES ASSUME Init PROVE RInv
  OBVIOUS
<1>1. HeldFor
  BY DEF Init, HeldFor
<1>2. Ranked
  <2>1. [c \in Channels |-> 0] \in [Channels -> Nat]
    OBVIOUS
  <2>2. \A c, d \in Channels : ~Taut(c, d)
    BY DEF Init, Taut
  <2> QED BY <2>1, <2>2 DEF Ranked
<1> QED BY <1>1, <1>2, InitWInv DEF RInv

LEMMA RInvReleases == RInv => NothingLeftReserved
<1> SUFFICES ASSUME RInv, \A c \in Channels : q[c] = <<>>, \A c \in Injects : entered[c] = None,
                    NEW e \in Channels, table[e] # None
             PROVE  FALSE
  BY DEF NothingLeftReserved
<1>1. PICK rank \in [Channels -> Nat] : \A c, d \in Channels : Taut(c, d) => rank[c] < rank[d]
  BY DEF RInv, Ranked
<1> DEFINE S == {c \in Channels : table[c] # None}
           ranks == {rank[c] : c \in S}
           R == OpToRel(<, Nat)
<1>2. PICK k \in ranks : \A j \in ranks : ~ (<<j, k>> \in R)
  <2>1. IsWellFoundedOn(R, Nat)
    BY NatLessThanWellFounded
  <2>2. ranks \subseteq Nat /\ ranks # {}
    OBVIOUS
  <2> HIDE DEF R, ranks
  <2> QED BY <2>1, <2>2, WFMin
<1>3. PICK c \in S : k = rank[c]
  OBVIOUS
<1>4. left[c] # None
  BY <1>3 DEF RInv, HeldFor
<1>5. entered[c] = left[c]
  BY <1>3 DEF RInv, WInv, EndsMatch, EndOf
<1>6. PICK b \in Channels : table[b] = c
  BY <1>3, <1>4, <1>5 DEF RInv, WInv, BetweenIn
<1>7. b \in S /\ left[b] = entered[c]
  BY <1>3, <1>6, WormholeAssumption DEF RInv, WInv, Tied
<1>8. Taut(b, c)
  <2>1. Endless(q[c])
    <3>1. Len(q[c]) = 0
      BY <1>3
    <3> QED BY <3>1 DEF Endless
  <2> QED BY <1>4, <1>5, <1>6, <1>7, <2>1 DEF Taut
<1>9. rank[b] < rank[c] /\ rank[b] \in Nat /\ rank[c] \in Nat /\ rank[b] \in ranks
  BY <1>1, <1>3, <1>7, <1>8
<1>10. <<rank[b], rank[c]>> \in R
  BY <1>9 DEF OpToRel
<1> QED BY <1>2, <1>3, <1>9, <1>10

(***************************************************************************)
(* When the channels are empty and no processor is in the middle of a      *)
(* packet, nothing is reserved.                                            *)
(***************************************************************************)
THEOREM WormholeReleases == Spec => []NothingLeftReserved
  BY InitRInv, NextRInv, RInvReleases, PTL DEF Spec
=============================================================================
