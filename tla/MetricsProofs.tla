---------------------------- MODULE MetricsProofs ----------------------------
(***************************************************************************)
(* What a simulation reports is right for every packet size, buffer depth, *)
(* traffic, number of packets and length of the run.                       *)
(*                                                                         *)
(* None of the properties is inductive by itself.  The time stamps stay in *)
(* order because the queue draws its front packet before it sends a flit   *)
(* and because no packet is older than one drawn before; the reports are   *)
(* right because of what every flit under way carries.  MInv says both.    *)
(***************************************************************************)
EXTENDS Metrics, SequenceTheorems, TLAPS

Queue == [count : Nat, oldest : Nat, newest : Nat, update : BOOLEAN,
          stamp : Nat, size : Nat, left : Nat]
Timers == [{0} -> [stuck_timer : Int, max_suck_delay : Int]]
Tracer == [offset : Nat, history : Seq([flit : Nat, path : Seq({"router"})])]
Totals == [sent : Nat, actual : Nat, flits : Nat, packets : Nat, delay : Int,
           max : Nat, network : Nat]

\* The flits from the source to the destination, the first to be received first.
Underway == exit \o (buffer \o wire)

Typed ==
    /\ now \in Nat /\ queue \in Queue /\ births \in Seq(Nat)
    /\ wire \in Seq(Flit) /\ buffer \in Seq(Flit) /\ exit \in Seq(Flit)
    /\ Len(wire) <= 1 /\ Len(exit) <= 1 /\ Len(buffer) + Len(wire) <= Depth
    /\ stats \in Timers /\ since \in Int /\ longest \in Int
    /\ made \in Nat /\ seen \in Nat /\ worst \in Nat /\ aged \in Nat
    /\ total \in Totals /\ tracer \in Tracer

\* A queue q, when no time stamp is beyond t: the packet being sent has been
\* drawn, and it is not newer than those that wait.
QueueSound(q, t) ==
    /\ q.count > 0 => q.oldest <= q.newest /\ q.newest <= t
    /\ q.left > 0 => /\ q.count > 0 /\ ~q.update
                     /\ q.stamp <= q.oldest
                     /\ q.left <= q.size /\ q.size = PacketSize
    /\ q.count > 0 /\ q.left = 0 => q.update

\* The packets in the queue q were produced at the times b.
Waiting(q, b) == q.count = Len(b) /\ (q.count > 0 => q.newest = b[Len(b)] * Scale)

\* Flits in the order in which they were sent.
InOrder(s) == \A i, j \in DOMAIN s : i < j => /\ s[i].stamp <= s[j].stamp
                                              /\ s[i].at < s[j].at

\* No flit of s is newer than what the queue q sends next.
Before(s, q, t) ==
    \A i \in DOMAIN s : /\ s[i].stamp <= t
                        /\ q.count > 0 => s[i].stamp <= q.oldest
                        /\ q.left > 0 => s[i].stamp <= q.stamp

\* What a flit under way carries, when n flits were sent up to time t.
Labelled(s, n, t) ==
    \A i \in DOMAIN s : /\ s[i].at < t /\ s[i].no <= n
                        /\ s[i].accept = s[i].at - ResetTime - WarmUpTime

\* Every flit sent is of a packet produced, and all others are still to be sent.
Sent(q, n, packets) ==
    n + q.count * PacketSize = packets * PacketSize + (IF q.left > 0 THEN PacketSize - q.left ELSE 0)

\* The flits are received, and registered, in the order of their numbers.
Numbered ==
    /\ seen + Len(wire) = total.actual
    /\ tracer.offset + Len(tracer.history) = total.actual
    /\ wire # <<>> => wire[1].no = seen + 1

\* The processors count nothing during the reset.
Quiet == InReset => total = NoTotals

MInv ==
    /\ Typed
    /\ QueueSound(queue, now * Scale) /\ Waiting(queue, births)
    /\ InOrder(Underway) /\ Before(Underway, queue, now * Scale)
    /\ Labelled(Underway, total.actual, now)
    /\ Sent(queue, total.actual, made)
    /\ Numbered /\ Quiet /\ total.network = aged

\* The timer runs as long as a flit waits, if it was started after the warm-up.
Timed == /\ buffer = <<>> => stats[0].stuck_timer < 0 /\ since < 0
         /\ since >= 0 => stats[0].stuck_timer = since
         /\ stats[0].max_suck_delay >= longest

\* The stories of a tracer t are those of the last flits registered, and n of all
\* flits have been received.
Stories(t, n) ==
    \A i \in DOMAIN t.history :
        /\ t.history[i].flit = t.offset + i
        /\ t.history[i].path = IF t.offset + i <= n THEN <<"router">> ELSE <<>>

\* The identifier of a flit is the number of flits registered before it.
Told ==
    /\ Stories(tracer, seen)
    /\ tracer.history # <<>> => InInterval(StatisticsTime)
    /\ wire # <<>> => wire[1].id = seen

\* A clock of 1 ns does not tick after the configured end of the run.
OnTime == now <= ResetTime + SimulationTime

-----------------------------------------------------------------------------
LEMMA Constants ==
  /\ Scale \in Nat /\ Scale > 0 /\ PacketSize \in Nat /\ PacketSize > 0
  /\ Depth \in Nat /\ Depth > 0 /\ ClockPeriod \in Nat /\ ClockPeriod > 0
  /\ ResetTime \in Nat /\ WarmUpTime \in Nat /\ SimulationTime \in Nat
  /\ StoryStart \in Int /\ StoryEnd \in Int
  BY MetricsAssumption

LEMMA FlitsOf ==
  ASSUME NEW s \in Seq(Flit)
  PROVE  /\ DOMAIN s = 1 .. Len(s) /\ Len(s) \in Nat
         /\ \A i \in DOMAIN s : /\ s[i] \in Flit
                                /\ s[i].stamp \in Nat /\ s[i].accept \in Int
                                /\ s[i].no \in Nat /\ s[i].id \in Nat /\ s[i].at \in Nat
<1>1. DOMAIN s = 1 .. Len(s) /\ Len(s) \in Nat /\ \A i \in DOMAIN s : s[i] \in Flit
  OBVIOUS
<1> QED BY <1>1 DEF Flit

LEMMA OneFlit ==
  ASSUME NEW s \in Seq(Flit), Len(s) <= 1, s # <<>>
  PROVE  Len(s) = 1 /\ 1 \in DOMAIN s /\ s[1] \in Flit
<1>1. Len(s) \in Nat /\ DOMAIN s = 1 .. Len(s)
  OBVIOUS
<1>2. Len(s) # 0
  OBVIOUS
<1>3. Len(s) = 1 /\ 1 \in DOMAIN s
  BY <1>1, <1>2
<1> QED BY <1>3

LEMMA OneMore == ASSUME NEW a \in Nat, NEW b \in Nat
                 PROVE  /\ a * b \in Nat /\ (a + 1) * b = a * b + b
                        /\ a > 0 => (a - 1) * b = a * b - b
  OBVIOUS

LEMMA Monotone == ASSUME NEW a \in Nat, NEW b \in Nat, NEW c \in Nat, a <= b
                  PROVE  a * c <= b * c
  OBVIOUS

LEMMA Quotient == ASSUME NEW a \in Nat, NEW c \in Nat, c > 0
                  PROVE  a \div c \in Nat /\ a \div c <= a
<1>1. /\ a \div c \in Int /\ a % c \in 0 .. c - 1 /\ a = (c * (a \div c)) + (a % c)
  OBVIOUS
<1>2. a \div c >= 0
  BY <1>1
<1>3. a \div c <= c * (a \div c)
  BY <1>2, <1>1
<1> QED BY <1>1, <1>2, <1>3

LEMMA Half == ASSUME NEW a \in Nat, NEW b \in Nat PROVE (a * (b + b)) \div 2 = a * b
<1>1. a * b \in Nat /\ a * (b + b) = 2 * (a * b)
  OBVIOUS
<1> QED BY <1>1

-----------------------------------------------------------------------------
\* What the operations do to the fields of a queue.
LEMMA PushFields ==
  ASSUME NEW q \in Queue, NEW t \in Nat, q.count > 0 => q.oldest <= t /\ q.newest <= t
  PROVE  LET r == Push(q, t) IN
         /\ r \in Queue
         /\ r.count = q.count + 1 /\ r.newest = t
         /\ r.oldest = IF q.count = 0 THEN t ELSE q.oldest
         /\ r.update <=> (q.count = 0 \/ q.update)
         /\ r.stamp = q.stamp /\ r.size = q.size /\ r.left = q.left
<1>1. q.count \in Nat /\ q.oldest \in Nat /\ q.newest \in Nat
  BY DEF Queue
<1>2. CASE q.count = 0
  <2>1. /\ Push(q, t) \in Queue /\ Push(q, t).count = 1 /\ Push(q, t).newest = t
        /\ Push(q, t).oldest = t /\ Push(q, t).update /\ Push(q, t).stamp = q.stamp
        /\ Push(q, t).size = q.size /\ Push(q, t).left = q.left
    BY <1>2 DEF Push, Queue
  <2> QED BY <1>2, <2>1
<1>3. CASE q.count > 0
  <2> DEFINE oldest == IF t < q.oldest THEN t ELSE q.oldest
             newest == IF t > q.newest THEN t ELSE q.newest
  <2>1. Push(q, t) = [q EXCEPT !.count = q.count + 1, !.oldest = oldest, !.newest = newest]
    BY <1>3 DEF Push
  <2>2. oldest = q.oldest /\ newest = t
    BY <1>1, <1>3
  <2>3. Push(q, t) \in Queue
    <3>1. \A c \in Nat, o \in Nat, n \in Nat :
             [q EXCEPT !.count = c, !.oldest = o, !.newest = n] \in Queue
      BY DEF Queue
    <3>2. q.count + 1 \in Nat /\ oldest \in Nat /\ newest \in Nat
      BY <1>1, <2>2
    <3> HIDE DEF oldest, newest
    <3>3. [q EXCEPT !.count = q.count + 1, !.oldest = oldest, !.newest = newest] \in Queue
      BY <3>1, <3>2, Zenon
    <3> QED BY <2>1, <3>3
  <2>4. Push(q, t).update <=> q.update
    BY <1>3 DEF Push, Queue
  <2> QED BY <1>1, <1>3, <2>1, <2>2, <2>3, <2>4 DEF Queue
<1> QED BY <1>1, <1>2, <1>3

LEMMA DrawFields ==
  ASSUME NEW q \in Queue, NEW size \in Nat
  PROVE  LET r == UpdateFrontPacket(q, size) IN
         /\ r \in Queue /\ ~r.update
         /\ r.count = q.count /\ r.oldest = q.oldest /\ r.newest = q.newest
         /\ r.stamp = q.oldest /\ r.size = size /\ r.left = size
  BY DEF UpdateFrontPacket, Queue

LEMMA PopFields ==
  ASSUME NEW q \in Queue, q.count > 0, q.left > 0, q.oldest <= q.newest
  PROVE  LET r == PopFlit(q) IN
         /\ r \in Queue
         /\ r.left = q.left - 1 /\ r.newest = q.newest /\ r.stamp = q.stamp /\ r.size = q.size
         /\ q.left = 1 => /\ r.count = q.count - 1
                          /\ q.oldest <= r.oldest /\ r.oldest <= r.newest
                          /\ r.update <=> (q.count > 1 \/ q.update)
         /\ q.left > 1 => /\ r.count = q.count /\ r.oldest = q.oldest
                          /\ r.update <=> q.update
<1>1. /\ q.count \in Nat /\ q.oldest \in Nat /\ q.newest \in Nat /\ q.left \in Nat
      /\ q.count - 1 \in Nat /\ q.newest - q.oldest \in Nat
  BY DEF Queue
<1>2. CASE q.left = 1
  <2> DEFINE step == (q.newest - q.oldest) \div q.count
             oldest == q.oldest + step
             more == q.count > 1 \/ q.update
  <2>1. step \in Nat /\ step <= q.newest - q.oldest
    BY <1>1, Quotient
  <2>2. PopFlit(q) = [q EXCEPT !.left = 0, !.oldest = oldest, !.count = q.count - 1, !.update = more]
    BY <1>2 DEF PopFlit, Pop, Queue
  <2>3. oldest \in Nat /\ more \in BOOLEAN /\ q.oldest <= oldest /\ oldest <= q.newest
    BY <1>1, <2>1
  <2>4. PopFlit(q).update <=> more
    BY <1>2 DEF PopFlit, Pop, Queue
  <2> HIDE DEF oldest, more
  <2>5. PopFlit(q) \in Queue
    <3>1. \A o \in Nat, c \in Nat, u \in BOOLEAN :
             [q EXCEPT !.left = 0, !.oldest = o, !.count = c, !.update = u] \in Queue
      BY DEF Queue
    <3>2. [q EXCEPT !.left = 0, !.oldest = oldest, !.count = q.count - 1, !.update = more] \in Queue
      BY <3>1, <1>1, <2>3, Zenon
    <3> QED BY <2>2, <3>2
  <2>6. /\ PopFlit(q).left = 0 /\ PopFlit(q).newest = q.newest /\ PopFlit(q).stamp = q.stamp
        /\ PopFlit(q).size = q.size /\ PopFlit(q).count = q.count - 1
        /\ PopFlit(q).oldest = oldest
    BY <2>2 DEF Queue
  <2>7. PopFlit(q).update <=> (q.count > 1 \/ q.update)
    BY <2>4 DEF more
  <2> QED BY <1>1, <1>2, <2>3, <2>5, <2>6, <2>7
<1>3. CASE q.left > 1
  BY <1>1, <1>3 DEF PopFlit, Queue
<1> QED BY <1>1, <1>2, <1>3

\* The queue q after the flits s, when n flits were sent of the packets produced
\* and no time stamp is beyond t.
Going(q, s, n, packets, t) ==
    q \in Queue /\ QueueSound(q, t) /\ Before(s, q, t) /\ Sent(q, n, packets)

LEMMA QueueFields ==
  ASSUME NEW q \in Queue
  PROVE  /\ q.count \in Nat /\ q.oldest \in Nat /\ q.newest \in Nat /\ q.left \in Nat
         /\ q.stamp \in Nat /\ q.size \in Nat
  BY DEF Queue

\* A packet is produced.
LEMMA PushGoing ==
  ASSUME NEW q \in Queue, NEW s \in Seq(Flit), NEW n \in Nat,
         NEW packets \in Nat, NEW t \in Nat, Going(q, s, n, packets, t)
  PROVE  Going(Push(q, t), s, n, packets + 1, t)
<1> DEFINE r == Push(q, t)
           before == q.count * PacketSize
           after == r.count * PacketSize
           produced == packets * PacketSize
<1>1. r \in Queue
  BY PushFields, QueueFields DEF Going, QueueSound
<1>2. /\ r.count = q.count + 1 /\ r.newest = t
      /\ r.oldest = IF q.count = 0 THEN t ELSE q.oldest
      /\ r.update <=> (q.count = 0 \/ q.update)
      /\ r.stamp = q.stamp /\ r.size = q.size /\ r.left = q.left
  BY PushFields, QueueFields DEF Going, QueueSound
<1> HIDE DEF r
<1>3. QueueSound(r, t)
  BY <1>2, QueueFields DEF Going, QueueSound
<1>4. Before(s, r, t)
  <2>1. \A i \in DOMAIN s : s[i].stamp \in Nat
    BY FlitsOf
  <2> QED BY <2>1, <1>2, QueueFields DEF Going, Before
<1>5. Sent(r, n, packets + 1)
  <2>1. before \in Nat /\ produced \in Nat /\ after = before + PacketSize
        /\ (packets + 1) * PacketSize = produced + PacketSize
    <3>1. (q.count + 1) * PacketSize = q.count * PacketSize + PacketSize
          /\ (packets + 1) * PacketSize = packets * PacketSize + PacketSize
          /\ before \in Nat /\ produced \in Nat
      BY QueueFields, Constants, OneMore
    <3> QED BY <3>1, <1>2
  <2>2. n + before = produced + (IF q.left > 0 THEN PacketSize - q.left ELSE 0)
    BY DEF Going, Sent
  <2> HIDE DEF before, after, produced
  <2>3. n + after = (produced + PacketSize) + (IF r.left > 0 THEN PacketSize - r.left ELSE 0)
    <3>1. q.left \in Nat /\ PacketSize \in Nat /\ r.left = q.left
      BY <1>2, QueueFields, Constants
    <3>2. before \in Nat /\ produced \in Nat /\ after = before + PacketSize
      BY <2>1
    <3>3. CASE q.left > 0
      <4>1. n + before = produced + (PacketSize - q.left)
        BY <2>2, <3>3
      <4> QED BY <3>1, <3>2, <3>3, <4>1, SMTT(30)
    <3>4. CASE q.left = 0
      <4>1. n + before = produced
        BY <2>2, <3>1, <3>2, <3>4
      <4> QED BY <3>1, <3>2, <3>4, <4>1
    <3> QED BY <3>1, <3>3, <3>4
  <2> QED BY <2>1, <2>3 DEF Sent, after
<1> QED BY <1>1, <1>3, <1>4, <1>5 DEF Going, r

\* The packet to be sent is drawn.
LEMMA DrawGoing ==
  ASSUME NEW q \in Queue, NEW s \in Seq(Flit), NEW n \in Nat,
         NEW packets \in Nat, NEW t \in Nat, Going(q, s, n, packets, t),
         NEW r \in GetQueueFront(q, {PacketSize})
  PROVE  /\ Going(r, s, n, packets, t)
         /\ r.count = q.count /\ r.newest = q.newest
         /\ r.count > 0 => r.left > 0
<1>1. CASE q.count = 0 \/ ~q.update
  BY <1>1, QueueFields DEF GetQueueFront, Going, QueueSound
<1>2. CASE q.count > 0 /\ q.update
  <2>1. r = UpdateFrontPacket(q, PacketSize)
    BY <1>2 DEF GetQueueFront
  <2>2. /\ r \in Queue /\ ~r.update
        /\ r.count = q.count /\ r.oldest = q.oldest /\ r.newest = q.newest
        /\ r.stamp = q.oldest /\ r.size = PacketSize /\ r.left = PacketSize
    BY <2>1, Constants, DrawFields
  <2>3. QueueSound(r, t) /\ q.left = 0
    BY <2>2, <1>2, QueueFields, Constants DEF Going, QueueSound
  <2>4. Before(s, r, t)
    BY <2>2, <1>2, Constants DEF Going, Before
  <2>5. Sent(r, n, packets)
    BY <2>2, <2>3, Constants DEF Going, Sent
  <2> QED BY <2>2, <2>3, <2>4, <2>5, Constants DEF Going
<1> QED BY <1>1, <1>2, QueueFields

\* A flit of it is sent, and with the last flit the packet leaves the queue.
LEMMA PopGoing ==
  ASSUME NEW q \in Queue, NEW s \in Seq(Flit), NEW n \in Nat,
         NEW packets \in Nat, NEW t \in Nat, Going(q, s, n, packets, t),
         q.count > 0, q.left > 0,
         NEW f \in Flit, f.stamp = q.stamp
  PROVE  /\ Going(PopFlit(q), s, n + 1, packets, t)
         /\ Before(<<f>>, PopFlit(q), t)
         /\ \A i \in DOMAIN s : s[i].stamp <= f.stamp
         /\ PopFlit(q).count = IF q.left = 1 THEN q.count - 1 ELSE q.count
         /\ PopFlit(q).newest = q.newest
<1> DEFINE r == PopFlit(q)
           before == q.count * PacketSize
           after == r.count * PacketSize
           produced == packets * PacketSize
<1>1. /\ q.oldest <= q.newest /\ q.newest <= t /\ q.stamp <= q.oldest
      /\ ~q.update /\ q.left <= q.size /\ q.size = PacketSize
  BY QueueFields DEF Going, QueueSound
<1>2. \A i \in DOMAIN s : s[i].stamp <= f.stamp /\ s[i].stamp \in Nat /\ s[i].stamp <= t
  BY FlitsOf DEF Going, Before
<1>3. r \in Queue
  BY <1>1, PopFields
<1>4. /\ r.left = q.left - 1 /\ r.newest = q.newest /\ r.stamp = q.stamp /\ r.size = q.size
      /\ q.left = 1 => /\ r.count = q.count - 1
                       /\ q.oldest <= r.oldest /\ r.oldest <= r.newest
                       /\ r.update <=> (q.count > 1 \/ q.update)
      /\ q.left > 1 => /\ r.count = q.count /\ r.oldest = q.oldest
                       /\ r.update <=> q.update
  BY <1>1, PopFields
<1> HIDE DEF r
<1>5. q.left = 1 \/ q.left > 1
  BY QueueFields
<1>6. q.oldest <= r.oldest /\ r.oldest <= r.newest
  BY <1>1, <1>4, <1>5, QueueFields
<1>7. QueueSound(r, t)
  <2>1. q.left = 1 => QueueSound(r, t)
    BY <1>1, <1>3, <1>4, <1>6, QueueFields DEF QueueSound
  <2>2. q.left > 1 => QueueSound(r, t)
    BY <1>1, <1>3, <1>4, <1>6, QueueFields DEF QueueSound
  <2> QED BY <1>5, <2>1, <2>2
<1>8. Before(s, r, t)
  <2> SUFFICES ASSUME NEW i \in DOMAIN s
               PROVE  s[i].stamp <= t /\ s[i].stamp <= r.oldest /\ s[i].stamp <= r.stamp
    BY DEF Before
  <2> QED BY <1>1, <1>2, <1>3, <1>4, <1>6, QueueFields, SMTT(30)
<1>9. Before(<<f>>, r, t)
  <2>1. f.stamp <= t /\ f.stamp <= r.oldest /\ f.stamp <= r.stamp
    BY <1>1, <1>3, <1>4, <1>6, QueueFields
  <2> QED BY <2>1 DEF Before
<1>10. Sent(r, n + 1, packets)
  <2>1. before \in Nat /\ produced \in Nat
        /\ after = IF q.left = 1 THEN before - PacketSize ELSE before
    <3>1. (q.count - 1) * PacketSize = q.count * PacketSize - PacketSize
          /\ before \in Nat /\ produced \in Nat
      BY QueueFields, Constants, OneMore
    <3> QED BY <3>1, <1>4, <1>5
  <2>2. n + before = produced + (IF q.left > 0 THEN PacketSize - q.left ELSE 0)
    BY DEF Going, Sent
  <2> HIDE DEF before, after, produced
  <2>3. n + 1 + after = produced + (IF r.left > 0 THEN PacketSize - r.left ELSE 0)
    <3>1. q.left \in Nat /\ PacketSize \in Nat /\ r.left = q.left - 1
      BY <1>4, QueueFields, Constants
    <3>2. n + before = produced + (PacketSize - q.left)
      BY <2>2
    <3>3. CASE q.left = 1
      BY <2>1, <3>1, <3>2, <3>3
    <3>4. CASE q.left > 1
      BY <2>1, <3>1, <3>2, <3>4, SMTT(30)
    <3> QED BY <1>5, <3>3, <3>4
  <2> QED BY <2>3 DEF Sent, after, produced
<1> QED BY <1>2, <1>3, <1>4, <1>5, <1>7, <1>8, <1>9, <1>10 DEF Going, r

-----------------------------------------------------------------------------
\* What a step of the source does to its queue and sends.
LEMMA SourceStep ==
  ASSUME MInv, Source
  PROVE  /\ queue' \in Queue /\ births' \in Seq(Nat) /\ made' \in Nat
         /\ wire' \in Seq(Flit) /\ Len(wire') <= 1
         /\ Waiting(queue', births') /\ QueueSound(queue', now * Scale)
         /\ Sent(queue', total.actual + Len(wire'), made')
         /\ Before(Underway, queue', now * Scale) /\ Before(wire', queue', now * Scale)
         /\ wire' # <<>> => /\ wire = <<>> /\ Len(buffer) < Depth
                            /\ \A j \in DOMAIN Underway : Underway[j].stamp <= wire'[1].stamp
                            /\ wire'[1].no = total.actual + 1
                            /\ wire'[1].id = NewID(tracer, StatisticsTime)
                            /\ wire'[1].at = now /\ wire'[1].accept = StatisticsTime
<1> DEFINE t == now * Scale
<1>1. /\ t \in Nat /\ now \in Nat /\ queue \in Queue /\ births \in Seq(Nat) /\ made \in Nat
      /\ Underway \in Seq(Flit) /\ total.actual \in Nat
      /\ Waiting(queue, births) /\ Going(queue, Underway, total.actual, made, t)
  <2>1. total.actual \in Nat
    BY DEF MInv, Typed, Totals
  <2> QED BY <2>1, Constants, OneMore DEF MInv, Typed, Underway, Going
<1>2. PICK fire : 
        /\ made' = made + (IF fire THEN 1 ELSE 0)
        /\ \E q \in GetQueueFront(IF fire THEN Push(queue, now * Scale) ELSE queue, {PacketSize}) :
            LET waiting == IF fire THEN Append(births, now) ELSE births IN
            IF CanSend(q)
            THEN /\ queue' = PopFlit(q)
                 /\ births' = IF q.left = 1 THEN Tail(waiting) ELSE waiting
                 /\ wire' = <<NextFlit(q, waiting)>>
            ELSE queue' = q /\ births' = waiting /\ wire' = <<>>
  BY DEF Source
<1> DEFINE pushed == IF fire THEN Push(queue, t) ELSE queue
           waiting == IF fire THEN Append(births, now) ELSE births
<1>3. PICK q \in GetQueueFront(pushed, {PacketSize}) :
            IF CanSend(q)
            THEN /\ queue' = PopFlit(q)
                 /\ births' = IF q.left = 1 THEN Tail(waiting) ELSE waiting
                 /\ wire' = <<NextFlit(q, waiting)>>
            ELSE queue' = q /\ births' = waiting /\ wire' = <<>>
  BY <1>2
<1>4. /\ made' \in Nat /\ waiting \in Seq(Nat) /\ Waiting(pushed, waiting)
      /\ Going(pushed, Underway, total.actual, made', t)
  <2>1. CASE fire
    <3>1. Going(Push(queue, t), Underway, total.actual, made + 1, t)
      BY <1>1, PushGoing
    <3>2. Push(queue, t).count = queue.count + 1 /\ Push(queue, t).newest = t
      BY <1>1, PushFields, QueueFields, SMTT(30) DEF Going, QueueSound
    <3>3. Len(Append(births, now)) = Len(births) + 1 /\ Append(births, now)[Len(births) + 1] = now
          /\ Append(births, now) \in Seq(Nat)
      BY <1>1
    <3>4. Waiting(Push(queue, t), Append(births, now))
      BY <1>1, <3>2, <3>3 DEF Waiting
    <3> QED BY <1>1, <1>2, <2>1, <3>1, <3>3, <3>4
  <2>2. CASE ~fire
    BY <1>1, <1>2, <2>2
  <2> QED BY <2>1, <2>2
<1> HIDE DEF pushed, waiting, t
<1>5. pushed \in Queue
  BY <1>4 DEF Going
<1>6. /\ Going(q, Underway, total.actual, made', t)
      /\ q.count > 0 => q.left > 0
      /\ Waiting(q, waiting)
  <2>1. /\ Going(q, Underway, total.actual, made', t)
        /\ q.count = pushed.count /\ q.newest = pushed.newest
        /\ q.count > 0 => q.left > 0
    BY <1>1, <1>3, <1>4, <1>5, DrawGoing
  <2> QED BY <2>1, <1>4 DEF Waiting
<1>7. q \in Queue
  BY <1>6 DEF Going
<1>8. CASE ~CanSend(q)
  <2>1. queue' = q /\ births' = waiting /\ wire' = <<>>
    BY <1>3, <1>8
  <2> QED BY <2>1, <1>1, <1>4, <1>6, <1>7 DEF Going, Before, t
<1>9. CASE CanSend(q)
  <2> DEFINE f == NextFlit(q, waiting)
  <2>1. /\ queue' = PopFlit(q) /\ wire' = <<f>>
        /\ births' = IF q.left = 1 THEN Tail(waiting) ELSE waiting
        /\ q.count > 0 /\ wire = <<>> /\ Len(buffer) < Depth
    BY <1>3, <1>9 DEF CanSend
  <2>2. f \in Flit /\ f.stamp = q.stamp
        /\ f.no = total.actual + 1 /\ f.id = NewID(tracer, StatisticsTime)
        /\ f.at = now /\ f.accept = StatisticsTime
    <3>1. Head(waiting) \in Nat
      BY <1>4, <1>6, <1>7, <2>1 DEF Waiting
    <3>2. NewID(tracer, StatisticsTime) \in Nat
      <4>1. tracer.offset \in Nat /\ tracer.history \in Seq([flit : Nat, path : Seq({"router"})])
        BY DEF MInv, Typed, Tracer
      <4> QED BY <4>1 DEF NewID
    <3>3. StatisticsTime \in Int /\ q.stamp \in Nat /\ (q.left = 1) \in BOOLEAN
      BY <1>1, <1>7, Constants, QueueFields DEF StatisticsTime
    <3> QED BY <1>1, <3>1, <3>2, <3>3 DEF NextFlit, Flit
  <2> HIDE DEF f
  <2>3. /\ Going(PopFlit(q), Underway, total.actual + 1, made', t)
        /\ Before(<<f>>, PopFlit(q), t)
        /\ \A i \in DOMAIN Underway : Underway[i].stamp <= f.stamp
        /\ PopFlit(q).count = IF q.left = 1 THEN q.count - 1 ELSE q.count
        /\ PopFlit(q).newest = q.newest
    BY <1>1, <1>4, <1>6, <1>7, <2>1, <2>2, PopGoing
  <2>4. births' \in Seq(Nat) /\ Waiting(queue', births')
    <3>1. q.count \in Nat /\ q.count = Len(waiting) /\ q.newest = waiting[Len(waiting)] * Scale
      BY <1>6, <1>7, <2>1, QueueFields DEF Waiting
    <3>2. CASE q.left = 1
      <4>1. /\ Len(Tail(waiting)) = Len(waiting) - 1 /\ Tail(waiting) \in Seq(Nat)
            /\ Len(waiting) > 1 => Tail(waiting)[Len(waiting) - 1] = waiting[Len(waiting)]
        BY <1>4, <2>1, <3>1
      <4>2. births' = Tail(waiting) /\ queue'.count = q.count - 1 /\ queue'.newest = q.newest
        BY <2>1, <2>3, <3>2
      <4>3. Len(births') > 0 => births'[Len(births')] = waiting[Len(waiting)]
        BY <4>1, <4>2
      <4>4. queue'.count = Len(births')
        BY <3>1, <4>1, <4>2
      <4>5. queue'.count > 0 => queue'.newest = births'[Len(births')] * Scale
        BY <3>1, <4>2, <4>3, <4>4
      <4> QED BY <4>1, <4>2, <4>4, <4>5 DEF Waiting
    <3>3. CASE q.left # 1
      BY <1>4, <2>1, <2>3, <3>1, <3>3 DEF Waiting
    <3> QED BY <3>2, <3>3
  <2>5. Len(wire') = 1 /\ wire'[1] = f /\ wire' \in Seq(Flit)
    BY <2>1, <2>2
  <2> QED BY <1>1, <1>4, <2>1, <2>2, <2>3, <2>4, <2>5 DEF Going, t
<1> QED BY <1>8, <1>9

-----------------------------------------------------------------------------
LEMMA HeadAndTail ==
  ASSUME NEW s \in Seq(Flit), s # <<>>
  PROVE  /\ Head(s) \in Flit /\ Tail(s) \in Seq(Flit) /\ Len(Tail(s)) = Len(s) - 1
         /\ <<Head(s)>> \o Tail(s) = s
  OBVIOUS

LEMMA Associative ==
  ASSUME NEW a \in Seq(Flit), NEW b \in Seq(Flit), NEW c \in Seq(Flit)
  PROVE  a \o (b \o c) = (a \o b) \o c
  BY ConcatAssociative, SMTT(30)

\* What is under way leaves at the front and grows at the back.
LEMMA UnderwayStep ==
  ASSUME Typed, Router, wire' \in Seq(Flit), Len(wire') <= 1,
         wire' # <<>> => wire = <<>> /\ Len(buffer) < Depth
  PROVE  /\ buffer' \in Seq(Flit) /\ exit' \in Seq(Flit) /\ Len(exit') <= 1
         /\ Len(buffer') + Len(wire') <= Depth
         /\ Underway' = (buffer \o wire) \o wire'
         /\ seen' = seen + Len(wire) /\ seen' \in Nat
<1>1. /\ buffer \in Seq(Flit) /\ wire \in Seq(Flit) /\ Len(buffer) \in Nat
      /\ Len(wire) \in Nat /\ Len(wire') \in Nat /\ seen \in Nat
      /\ Len(buffer) + Len(wire) <= Depth /\ Depth \in Nat
  BY Constants DEF Typed
<1>2. seen' = seen + Len(wire) /\ seen' \in Nat
  BY <1>1 DEF Router
<1>3. CASE buffer # <<>> /\ exit' = <<Head(buffer)>> /\ buffer' = Tail(buffer) \o wire
  <2>1. /\ Head(buffer) \in Flit /\ Tail(buffer) \in Seq(Flit)
        /\ Len(Tail(buffer)) = Len(buffer) - 1 /\ <<Head(buffer)>> \o Tail(buffer) = buffer
    BY <1>1, <1>3, HeadAndTail
  <2>2. /\ exit' \in Seq(Flit) /\ Len(exit') = 1
        /\ buffer' \in Seq(Flit) /\ Len(buffer') = Len(buffer) - 1 + Len(wire)
    BY <1>1, <1>3, <2>1
  <2>3. Len(buffer') + Len(wire') <= Depth
    BY <1>1, <2>2
  <2>4. <<Head(buffer)>> \o ((Tail(buffer) \o wire) \o wire')
           = ((<<Head(buffer)>> \o Tail(buffer)) \o wire) \o wire'
    <3>1. <<Head(buffer)>> \in Seq(Flit) /\ Tail(buffer) \o wire \in Seq(Flit)
      BY <1>1, <2>1
    <3>2. <<Head(buffer)>> \o ((Tail(buffer) \o wire) \o wire')
             = (<<Head(buffer)>> \o (Tail(buffer) \o wire)) \o wire'
      BY <3>1, Associative
    <3>3. <<Head(buffer)>> \o (Tail(buffer) \o wire) = (<<Head(buffer)>> \o Tail(buffer)) \o wire
      BY <1>1, <2>1, <3>1, Associative
    <3> QED BY <3>2, <3>3
  <2>5. Underway' = (buffer \o wire) \o wire'
    BY <1>3, <2>1, <2>4 DEF Underway
  <2> QED BY <1>2, <2>2, <2>3, <2>5
<1>4. CASE exit' = <<>> /\ buffer' = buffer \o wire
  <2>1. exit' \in Seq(Flit) /\ Len(exit') = 0
    BY <1>4
  <2>2. buffer' \in Seq(Flit) /\ Len(buffer') = Len(buffer) + Len(wire)
    BY <1>1, <1>4
  <2>3. Len(buffer') + Len(wire') <= Depth
    BY <1>1, <2>2
  <2>4. Underway' = (buffer \o wire) \o wire'
    <3>1. Underway' = <<>> \o ((buffer \o wire) \o wire')
      BY <1>4 DEF Underway
    <3>2. (buffer \o wire) \o wire' \in Seq(Flit)
      BY <1>1
    <3> QED BY <3>1, <3>2, ConcatEmptySeq
  <2> QED BY <1>2, <2>1, <2>2, <2>3, <2>4
<1> QED BY <1>3, <1>4 DEF Router, Forward, Hold

\* What holds of all flits holds of the last of them, and of one more.
LEMMA Suffix ==
  ASSUME NEW a \in Seq(Flit), NEW b \in Seq(Flit), NEW q, NEW n, NEW t, NEW u
  PROVE  /\ InOrder(a \o b) => InOrder(b)
         /\ Before(a \o b, q, t) => Before(b, q, t)
         /\ Labelled(a \o b, n, u) => Labelled(b, n, u)
<1>1. /\ Len(a) \in Nat /\ Len(b) \in Nat /\ DOMAIN b = 1 .. Len(b)
      /\ DOMAIN (a \o b) = 1 .. Len(a) + Len(b)
      /\ \A i \in 1 .. Len(b) : (a \o b)[i + Len(a)] = b[i]
  OBVIOUS
<1>2. \A i \in DOMAIN b : i + Len(a) \in DOMAIN (a \o b) /\ (a \o b)[i + Len(a)] = b[i]
  BY <1>1
<1>3. \A i, j \in DOMAIN b : i < j => i + Len(a) < j + Len(a)
  BY <1>1
<1>4. ASSUME InOrder(a \o b) PROVE InOrder(b)
  <2> SUFFICES ASSUME NEW i \in DOMAIN b, NEW j \in DOMAIN b, i < j
               PROVE  b[i].stamp <= b[j].stamp /\ b[i].at < b[j].at
    BY DEF InOrder
  <2>1. /\ i + Len(a) \in DOMAIN (a \o b) /\ (a \o b)[i + Len(a)] = b[i]
        /\ j + Len(a) \in DOMAIN (a \o b) /\ (a \o b)[j + Len(a)] = b[j]
        /\ i + Len(a) < j + Len(a)
    BY <1>2, <1>3
  <2> HIDE <1>1, <1>2, <1>3
  <2>2. /\ (a \o b)[i + Len(a)].stamp <= (a \o b)[j + Len(a)].stamp
        /\ (a \o b)[i + Len(a)].at < (a \o b)[j + Len(a)].at
    BY <1>4, <2>1 DEF InOrder
  <2> QED BY <2>1, <2>2
<1>5. Before(a \o b, q, t) => Before(b, q, t)
  BY <1>2 DEF Before
<1>6. Labelled(a \o b, n, u) => Labelled(b, n, u)
  BY <1>2 DEF Labelled
<1> QED BY <1>4, <1>5, <1>6

LEMMA Joined ==
  ASSUME NEW a \in Seq(Flit), NEW e \in Seq(Flit), Len(e) <= 1, NEW q, NEW n, NEW t, NEW u
  PROVE  /\ a \o e \in Seq(Flit)
         /\ \A i \in DOMAIN (a \o e) :
              (i \in DOMAIN a /\ (a \o e)[i] = a[i]) \/ (e # <<>> /\ i = Len(a) + 1 /\ (a \o e)[i] = e[1])
         /\ Before(a, q, t) /\ Before(e, q, t) => Before(a \o e, q, t)
         /\ Labelled(a, n, u) /\ Labelled(e, n, u) => Labelled(a \o e, n, u)
         /\ InOrder(a) /\ (e # <<>> => \A i \in DOMAIN a : a[i].stamp <= e[1].stamp /\ a[i].at < e[1].at)
              => InOrder(a \o e)
<1>1. /\ Len(a) \in Nat /\ DOMAIN a = 1 .. Len(a) /\ a \o e \in Seq(Flit)
      /\ Len(e) \in Nat /\ DOMAIN e = 1 .. Len(e)
      /\ DOMAIN (a \o e) = 1 .. Len(a) + Len(e)
      /\ e # <<>> => Len(e) = 1
      /\ e = <<>> => Len(e) = 0
  OBVIOUS
<1>2. ASSUME NEW i \in DOMAIN (a \o e)
      PROVE  \/ i \in DOMAIN a /\ (a \o e)[i] = a[i]
             \/ e # <<>> /\ 1 \in DOMAIN e /\ i = Len(a) + 1 /\ (a \o e)[i] = e[1]
  <2>1. CASE i <= Len(a)
    BY <1>1, <1>2, <2>1
  <2>2. CASE i > Len(a)
    <3>1. i = Len(a) + 1 /\ Len(e) = 1
      BY <1>1, <1>2, <2>2
    <3>2. (a \o e)[i] = e[1]
      BY <1>1, <3>1
    <3> QED BY <1>1, <3>1, <3>2
  <2> QED BY <1>1, <1>2, <2>1, <2>2
<1>3. Before(a, q, t) /\ Before(e, q, t) => Before(a \o e, q, t)
  BY <1>2 DEF Before
<1>4. Labelled(a, n, u) /\ Labelled(e, n, u) => Labelled(a \o e, n, u)
  BY <1>2 DEF Labelled
<1>5. ASSUME InOrder(a),
             e # <<>> => \A i \in DOMAIN a : a[i].stamp <= e[1].stamp /\ a[i].at < e[1].at
      PROVE  InOrder(a \o e)
  <2> SUFFICES ASSUME NEW i \in DOMAIN (a \o e), NEW j \in DOMAIN (a \o e), i < j
               PROVE  (a \o e)[i].stamp <= (a \o e)[j].stamp /\ (a \o e)[i].at < (a \o e)[j].at
    BY DEF InOrder
  <2>1. i \in DOMAIN a /\ (a \o e)[i] = a[i]
    <3>1. i <= Len(a) /\ i \in 1 .. Len(a)
      BY <1>1
    <3> QED BY <1>1, <3>1
  <2>2. CASE j \in DOMAIN a /\ (a \o e)[j] = a[j]
    BY <1>5, <2>1, <2>2 DEF InOrder
  <2>3. CASE e # <<>> /\ (a \o e)[j] = e[1]
    BY <1>5, <2>1, <2>3
  <2> QED BY <1>2, <2>2, <2>3
<1> QED BY <1>1, <1>2, <1>3, <1>4, <1>5

-----------------------------------------------------------------------------
\* The timer of virtual channel 0 after it is started, or stopped.
LEMMA StartStep ==
  ASSUME NEW s \in Timers, NEW time \in Int
  PROVE  LET r == StartStuckTimer(s, 0, time) IN
         /\ r \in Timers
         /\ r[0].stuck_timer = IF s[0].stuck_timer >= 0 THEN s[0].stuck_timer ELSE time
         /\ r[0].max_suck_delay = s[0].max_suck_delay
<1>1. s[0].stuck_timer \in Int /\ s[0].max_suck_delay \in Int
  BY DEF Timers
<1>2. CASE s[0].stuck_timer >= 0
  BY <1>1, <1>2 DEF StartStuckTimer
<1>3. CASE s[0].stuck_timer < 0
  BY <1>1, <1>3 DEF StartStuckTimer, Timers
<1> QED BY <1>1, <1>2, <1>3

LEMMA StopStep ==
  ASSUME NEW s \in Timers, NEW time \in Int
  PROVE  LET r == StopStuckTimer(s, 0, time) IN
         /\ r \in Timers /\ r[0].stuck_timer < 0
         /\ r[0].max_suck_delay >= s[0].max_suck_delay
         /\ s[0].stuck_timer >= 0 => r[0].max_suck_delay >= time - s[0].stuck_timer
<1>1. s[0].stuck_timer \in Int /\ s[0].max_suck_delay \in Int
  BY DEF Timers
<1>2. CASE s[0].stuck_timer < 0
  BY <1>1, <1>2 DEF StopStuckTimer
<1>3. CASE s[0].stuck_timer >= 0
  <2> DEFINE delay == Larger(s[0].max_suck_delay, time - s[0].stuck_timer)
  <2>1. delay \in Int /\ delay >= s[0].max_suck_delay /\ delay >= time - s[0].stuck_timer
    BY <1>1 DEF Larger
  <2>2. StopStuckTimer(s, 0, time) = [s EXCEPT ![0] = [stuck_timer |-> -1, max_suck_delay |-> delay]]
    BY <1>1, <1>3 DEF StopStuckTimer
  <2> HIDE DEF delay
  <2> QED BY <1>1, <1>3, <2>1, <2>2 DEF Timers
<1> QED BY <1>1, <1>2, <1>3

LEMMA RouteStep ==
  ASSUME Typed, NEW out
  PROVE  LET r == Route(out, stats) IN
         /\ r \in Timers
         /\ r[0].max_suck_delay >= stats[0].max_suck_delay
         /\ stats[0].stuck_timer >= 0 =>
               r[0].max_suck_delay >= StatisticsTime - stats[0].stuck_timer
         /\ out = 0 /\ Len(buffer) > 1 => r[0].stuck_timer = StatisticsTime
         /\ ~(out = 0 /\ Len(buffer) > 1) => r[0].stuck_timer < 0
<1> DEFINE stopped == StopStuckTimer(stats, 0, StatisticsTime)
<1>1. stats \in Timers /\ StatisticsTime \in Int
  BY Constants DEF Typed, StatisticsTime
<1>2. /\ stopped \in Timers /\ stopped[0].stuck_timer < 0
      /\ stopped[0].max_suck_delay >= stats[0].max_suck_delay
      /\ stats[0].stuck_timer >= 0 =>
            stopped[0].max_suck_delay >= StatisticsTime - stats[0].stuck_timer
  BY <1>1, StopStep
<1> HIDE DEF stopped
<1>3. stopped[0].stuck_timer \in Int
  BY <1>2 DEF Timers
<1>4. CASE out = 0 /\ Len(buffer) > 1
  <2>1. Route(out, stats) = StartStuckTimer(stopped, 0, StatisticsTime)
    BY <1>4 DEF Route, stopped
  <2>2. /\ StartStuckTimer(stopped, 0, StatisticsTime) \in Timers
        /\ StartStuckTimer(stopped, 0, StatisticsTime)[0].stuck_timer = StatisticsTime
        /\ StartStuckTimer(stopped, 0, StatisticsTime)[0].max_suck_delay = stopped[0].max_suck_delay
    <3>1. ~(stopped[0].stuck_timer >= 0)
      BY <1>2, <1>3
    <3> QED BY <1>1, <1>2, <3>1, StartStep, Zenon
  <2> QED BY <1>2, <1>4, <2>1, <2>2
<1>5. CASE ~(out = 0 /\ Len(buffer) > 1)
  <2>1. Route(out, stats) = stopped
    BY <1>5 DEF Route, stopped
  <2> QED BY <1>2, <1>5, <2>1
<1> QED BY <1>4, <1>5

LEMMA TimersStep == ASSUME Typed, Router PROVE stats' \in Timers
<1>1. StatisticsTime \in Int /\ stats \in Timers
  BY Constants DEF Typed, StatisticsTime
<1>2. PICK s \in {Route(out, stats) : out \in Outs} \cup {stats} :
        stats' = IF wire = <<>> THEN s ELSE StartStuckTimer(s, 0, StatisticsTime)
  BY DEF Router
<1>3. s \in Timers
  BY <1>1, RouteStep
<1> QED BY <1>1, <1>2, <1>3, StartStep

-----------------------------------------------------------------------------
\* A flit is registered, one is remembered: neither changes what is registered.
LEMMA RegisterStep ==
  ASSUME NEW t \in Tracer, NEW no \in Nat, NEW time \in Int
  PROVE  LET r == Register(t, no, time) IN
         /\ r \in Tracer
         /\ r.offset + Len(r.history) = t.offset + Len(t.history) + 1
         /\ InInterval(time) =>
              /\ r.offset = t.offset /\ Len(r.history) = Len(t.history) + 1
              /\ r.history[Len(t.history) + 1] = [flit |-> no, path |-> <<>>]
              /\ \A i \in DOMAIN t.history : r.history[i] = t.history[i]
         /\ ~InInterval(time) => r.offset = t.offset + 1 /\ r.history = t.history
<1> DEFINE entry == [flit |-> no, path |-> <<>>]
           H == [flit : Nat, path : Seq({"router"})]
<1>1. t.offset \in Nat /\ t.history \in Seq(H) /\ entry \in H
  <2>1. <<>> \in Seq({"router"})
    OBVIOUS
  <2> QED BY <2>1 DEF Tracer
<1> HIDE DEF entry, H
<1>2. /\ Append(t.history, entry) \in Seq(H) /\ Len(Append(t.history, entry)) = Len(t.history) + 1
      /\ Append(t.history, entry)[Len(t.history) + 1] = entry /\ Len(t.history) \in Nat
      /\ \A i \in DOMAIN t.history : Append(t.history, entry)[i] = t.history[i]
  BY <1>1
<1>3. CASE InInterval(time)
  <2>1. Register(t, no, time) = [t EXCEPT !.history = Append(t.history, entry)]
    BY <1>3 DEF Register, entry
  <2>2. Register(t, no, time).history = Append(t.history, entry)
        /\ Register(t, no, time).offset = t.offset
    BY <2>1 DEF Tracer
  <2>3. Register(t, no, time) \in Tracer
    BY <1>2, <2>1 DEF Tracer, H
  <2>4. Register(t, no, time).offset + Len(Register(t, no, time).history)
           = t.offset + Len(t.history) + 1
    <3>1. Len(Register(t, no, time).history) = Len(t.history) + 1
      BY <1>2, <2>2
    <3>2. t.offset \in Nat /\ Len(t.history) \in Nat
      BY <1>1, <1>2
    <3>3. \A a, b \in Nat : a + (b + 1) = a + b + 1
      OBVIOUS
    <3>4. Register(t, no, time).offset + Len(Register(t, no, time).history)
             = t.offset + (Len(t.history) + 1)
      BY <2>2, <3>1, Zenon
    <3> QED BY <3>2, <3>3, <3>4, Zenon
  <2> QED BY <1>2, <1>3, <2>2, <2>3, <2>4 DEF entry
<1>4. CASE ~InInterval(time)
  <2>1. Register(t, no, time) = [t EXCEPT !.offset = t.offset + 1]
    BY <1>4 DEF Register
  <2>2. Register(t, no, time) \in Tracer /\ Register(t, no, time).offset = t.offset + 1
        /\ Register(t, no, time).history = t.history
    BY <1>1, <2>1 DEF Tracer
  <2> QED BY <1>1, <1>2, <1>4, <2>2
<1> QED BY <1>3, <1>4

LEMMA RememberStep ==
  ASSUME NEW t \in Tracer, NEW id \in Nat
  PROVE  LET r == Remember(t, id, "router") IN
         /\ r \in Tracer /\ r.offset = t.offset /\ Len(r.history) = Len(t.history)
         /\ \A i \in DOMAIN t.history :
              /\ r.history[i].flit = t.history[i].flit
              /\ r.history[i].path = IF t.offset + i = id + 1 THEN Append(t.history[i].path, "router")
                                                           ELSE t.history[i].path
<1> DEFINE H == [flit : Nat, path : Seq({"router"})]
           k == id - t.offset + 1
           r == Remember(t, id, "router")
<1>1. t.offset \in Nat /\ t.history \in Seq(H) /\ Len(t.history) \in Nat
      /\ DOMAIN t.history = 1 .. Len(t.history)
  <2>1. t.offset \in Nat /\ t.history \in Seq(H)
    BY DEF Tracer
  <2> QED BY <2>1
<1>2. CASE Story(t, id) = 0
  <2>1. r = t
    BY <1>2 DEF Remember
  <2>2. k - 1 >= Len(t.history) \/ k < 1
    BY <1>1, <1>2 DEF Story
  <2>3. \A i \in DOMAIN t.history : t.offset + i # id + 1
    BY <1>1, <2>2, SMTT(30)
  <2> QED BY <2>1, <2>3
<1>3. CASE Story(t, id) # 0
  <2>1. Story(t, id) = k /\ k \in 1 .. Len(t.history)
    BY <1>1, <1>3 DEF Story
  <2>2. r = [t EXCEPT !.history = [t.history EXCEPT ![k].path = Append(t.history[k].path, "router")]]
    BY <1>3, <2>1 DEF Remember
  <2> DEFINE h == [t.history EXCEPT ![k].path = Append(t.history[k].path, "router")]
  <2>3. t.history[k] \in H /\ Append(t.history[k].path, "router") \in Seq({"router"})
    <3> HIDE DEF H, k
    <3>1. t.history[k] \in H
      BY <1>1, <2>1
    <3> USE DEF H
    <3>2. t.history[k].path \in Seq({"router"})
      BY <3>1
    <3> QED BY <3>1, <3>2
  <2>4. h \in Seq(H) /\ Len(h) = Len(t.history)
    <3>1. [t.history[k] EXCEPT !.path = Append(t.history[k].path, "router")] \in H
      BY <2>3
    <3>2. h = [t.history EXCEPT ![k] = [t.history[k] EXCEPT !.path = Append(t.history[k].path, "router")]]
      OBVIOUS
    <3> HIDE DEF H, h
    <3> QED BY <1>1, <2>1, <3>1, <3>2, ExceptSeq
  <2>5. \A i \in DOMAIN t.history :
              /\ h[i].flit = t.history[i].flit
              /\ h[i].path = IF i = k THEN Append(t.history[i].path, "router") ELSE t.history[i].path
    BY <1>1, <2>1, <2>3
  <2>6. r \in Tracer /\ r.offset = t.offset /\ r.history = h
    <3> HIDE DEF h, r
    <3>1. r = [t EXCEPT !.history = h]
      BY <2>2 DEF h
    <3> QED BY <2>4, <3>1 DEF Tracer
  <2>7. \A i \in DOMAIN t.history : i = k <=> t.offset + i = id + 1
    BY <1>1
  <2> HIDE DEF h, r, k
  <2> QED BY <2>4, <2>5, <2>6, <2>7 DEF r
<1> QED BY <1>2, <1>3

LEMMA TraceStep ==
  ASSUME Typed, Trace, wire' \in Seq(Flit), Len(wire') <= 1,
         tracer.offset + Len(tracer.history) = total.actual
  PROVE  /\ tracer' \in Tracer
         /\ tracer'.offset + Len(tracer'.history) = total.actual + Len(wire')
<1> DEFINE registered(t) == IF wire' # <<>> THEN Register(t, wire'[1].no, StatisticsTime) ELSE t
           remembered(t) == IF wire = <<>> THEN t ELSE Remember(t, wire[1].id, "router")
<1>1. tracer \in Tracer /\ StatisticsTime \in Int
  BY Constants DEF Typed, StatisticsTime
<1>2. ASSUME NEW t \in Tracer
      PROVE  /\ registered(t) \in Tracer
             /\ registered(t).offset + Len(registered(t).history) = t.offset + Len(t.history) + Len(wire')
  <2>1. t.offset \in Nat /\ Len(t.history) \in Nat
    BY DEF Tracer
  <2>2. CASE wire' = <<>>
    BY <2>1, <2>2
  <2>3. CASE wire' # <<>>
    <3>1. Len(wire') = 1 /\ 1 \in DOMAIN wire'
      BY <2>3, OneFlit
    <3>2. wire'[1].no \in Nat
      BY <3>1, FlitsOf
    <3>3. registered(t) = Register(t, wire'[1].no, StatisticsTime)
      BY <2>3
    <3>4. \A no \in Nat :
            LET r == Register(t, no, StatisticsTime) IN
            r \in Tracer /\ r.offset + Len(r.history) = t.offset + Len(t.history) + 1
      BY <1>1, RegisterStep
    <3> HIDE DEF registered
    <3>5. /\ registered(t) \in Tracer
          /\ registered(t).offset + Len(registered(t).history) = t.offset + Len(t.history) + 1
      BY <3>2, <3>3, <3>4
    <3> QED BY <3>1, <3>5
  <2> QED BY <2>2, <2>3
<1>3. ASSUME NEW t \in Tracer
      PROVE  /\ remembered(t) \in Tracer
             /\ remembered(t).offset = t.offset /\ Len(remembered(t).history) = Len(t.history)
  <2>1. CASE wire = <<>>
    BY <2>1
  <2>2. CASE wire # <<>>
    <3>1. wire \in Seq(Flit) /\ 1 \in DOMAIN wire
      BY <2>2 DEF Typed
    <3>2. wire[1].id \in Nat
      BY <3>1, FlitsOf
    <3> QED BY <2>2, <3>2, RememberStep
  <2> QED BY <2>1, <2>2
<1>4. tracer' \in {registered(remembered(tracer)), remembered(registered(tracer))}
  BY DEF Trace, Sends
<1> HIDE DEF registered, remembered
<1>5. CASE tracer' = registered(remembered(tracer))
  BY <1>1, <1>2, <1>3, <1>5
<1>6. CASE tracer' = remembered(registered(tracer))
  BY <1>1, <1>2, <1>3, <1>6
<1> QED BY <1>4, <1>5, <1>6

LEMMA CountedStep ==
  ASSUME MInv, Counted, wire' \in Seq(Flit), Len(wire') <= 1
  PROVE  /\ total' \in Totals /\ total'.actual = total.actual + Len(wire')
         /\ total'.network = aged' /\ aged' \in Nat /\ worst' \in Nat
<1> DEFINE f == exit[1]
           measured(yes) == IF Counting /\ yes THEN 1 ELSE 0
           delay == now * Scale - f.stamp
           arrives == exit # <<>>
           done == IF arrives THEN measured(f.tail) ELSE 0
           flits == measured(arrives)
           longer == IF flits = 1 THEN Larger(total.network, StatisticsTime - f.accept) ELSE total.network
           later == IF done = 1 THEN Larger(total.max, delay) ELSE total.max
           sum == total.delay + (IF done = 1 THEN delay ELSE 0)
           sent == total.sent + measured(wire' # <<>>)
<1>1. /\ total.sent \in Nat /\ total.actual \in Nat /\ total.flits \in Nat /\ total.packets \in Nat
      /\ total.delay \in Int /\ total.max \in Nat /\ total.network \in Nat
      /\ aged \in Nat /\ worst \in Nat /\ now \in Nat /\ total.network = aged
      /\ Len(wire') \in Nat
  BY DEF MInv, Typed, Totals
<1>2. ASSUME exit # <<>>
      PROVE  /\ f \in Flit /\ f.at \in Nat /\ f.stamp \in Nat /\ f.born \in Nat /\ f.tail \in BOOLEAN
             /\ f.at < now /\ f.accept = f.at - ResetTime - WarmUpTime
  <2>1. /\ exit \in Seq(Flit) /\ buffer \o wire \in Seq(Flit) /\ Underway \in Seq(Flit)
        /\ Labelled(Underway, total.actual, now)
    BY DEF MInv, Typed, Underway
  <2>2. 1 \in DOMAIN exit /\ 1 \in DOMAIN Underway /\ Underway[1] = f
    BY <1>2, <2>1 DEF Underway
  <2>3. f.at < now /\ f.accept = f.at - ResetTime - WarmUpTime
    BY <2>1, <2>2 DEF Labelled
  <2>4. f \in Flit
    BY <2>1, <2>2
  <2> HIDE DEF f
  <2> QED BY <2>3, <2>4 DEF Flit
<1>3. /\ \A yes : measured(yes) \in Nat
      /\ flits = 1 => exit # <<>>
      /\ done = 1 => exit # <<>>
      /\ done \in Nat /\ flits \in Nat
  OBVIOUS
<1>4. longer \in Nat /\ aged' = longer
  <2>1. CASE flits = 1
    <3>1. StatisticsTime - f.accept = now - f.at
      BY <1>1, <1>2, <1>3, <2>1, Constants DEF StatisticsTime
    <3>2. longer = Larger(total.network, StatisticsTime - f.accept) /\ aged' = Larger(aged, now - f.at)
      BY <2>1 DEF Counted
    <3>3. now - f.at \in Nat
      BY <1>1, <1>2, <1>3, <2>1
    <3> HIDE DEF longer, f, flits
    <3> QED BY <1>1, <3>1, <3>2, <3>3 DEF Larger
  <2>2. CASE flits # 1
    BY <1>1, <2>2 DEF Counted
  <2> QED BY <2>1, <2>2
<1>5. sum \in Int /\ later \in Nat /\ worst' \in Nat
  <2>1. CASE done = 1
    <3>1. now * Scale \in Nat /\ (now - f.born) * Scale \in Int
      BY <1>1, <1>2, <1>3, <2>1, Constants, SMTT(30)
    <3>2. delay \in Int
      BY <1>2, <1>3, <2>1, <3>1
    <3>3. later = Larger(total.max, delay) /\ worst' = Larger(worst, (now - f.born) * Scale)
          /\ sum = total.delay + delay
      BY <2>1 DEF Counted
    <3> HIDE DEF later, sum, f, delay, done
    <3> QED BY <1>1, <3>1, <3>2, <3>3 DEF Larger
  <2>2. CASE done # 1
    BY <1>1, <2>2 DEF Counted
  <2> QED BY <2>1, <2>2
<1>6. total' = [sent |-> sent, actual |-> total.actual + Len(wire'),
                flits |-> total.flits + flits, packets |-> total.packets + done,
                delay |-> sum, max |-> later, network |-> longer]
  BY DEF Counted, Sends
<1>7. sent \in Nat
  BY <1>1
<1> HIDE DEF flits, done, sum, later, longer, sent
<1>8. total.actual + Len(wire') \in Nat /\ total.flits + flits \in Nat /\ total.packets + done \in Nat
  BY <1>1, <1>3, SMTT(30)
<1>9. total' \in Totals
  BY <1>4, <1>5, <1>6, <1>7, <1>8 DEF Totals
<1>10. total'.actual = total.actual + Len(wire') /\ total'.network = longer
  BY <1>6
<1> QED BY <1>4, <1>5, <1>9, <1>10

-----------------------------------------------------------------------------
\* What holds at a time holds later.
LEMMA Later ==
  ASSUME NEW q \in Queue, NEW s \in Seq(Flit), NEW n \in Nat, NEW m \in Nat, n <= m, NEW t \in Nat
  PROVE  /\ QueueSound(q, t * Scale) => QueueSound(q, (t + 1) * Scale)
         /\ Before(s, q, t * Scale) => Before(s, q, (t + 1) * Scale)
         /\ Labelled(s, n, t) => Labelled(s, m, t + 1)
<1> DEFINE early == t * Scale
           late == (t + 1) * Scale
<1>1. early \in Nat /\ late \in Nat /\ early <= late
  BY Constants, OneMore
<1>2. \A i \in DOMAIN s : s[i].stamp \in Nat /\ s[i].at \in Nat /\ s[i].no \in Nat
  BY FlitsOf
<1> HIDE DEF early, late
<1>3. QueueSound(q, early) => QueueSound(q, late)
  BY <1>1, QueueFields DEF QueueSound
<1>4. Before(s, q, early) => Before(s, q, late)
  <2> SUFFICES ASSUME Before(s, q, early), NEW i \in DOMAIN s PROVE s[i].stamp <= late
    BY DEF Before
  <2> QED BY <1>1, <1>2 DEF Before
<1>5. Labelled(s, n, t) => Labelled(s, m, t + 1)
  <2> SUFFICES ASSUME Labelled(s, n, t), NEW i \in DOMAIN s PROVE s[i].at < t + 1 /\ s[i].no <= m
    BY DEF Labelled
  <2> QED BY <1>2 DEF Labelled
<1> QED BY <1>3, <1>4, <1>5 DEF early, late

\* Once the reset is over it stays so.
LEMMA ResetEnds == ASSUME now \in Nat, now' = now + 1, ~InReset PROVE ~InReset'
<1>1. now * ClockPeriod \in Nat /\ (now + 1) * ClockPeriod = now * ClockPeriod + ClockPeriod
      /\ ResetTime * 1000 \in Nat
  BY Constants, OneMore
<1> QED BY <1>1, Constants DEF InReset

LEMMA MInit == Init => MInv
<1> SUFFICES ASSUME Init PROVE MInv
  OBVIOUS
<1>1. NewStats({0}) \in Timers
  BY DEF NewStats, Timers
<1>2. NewTracer \in Tracer /\ NewTracer.offset = 0 /\ NewTracer.history = <<>>
  BY DEF NewTracer, Tracer
<1>3. NewQueue \in Queue /\ NewQueue.count = 0 /\ NewQueue.left = 0
  BY DEF NewQueue, Queue
<1>4. NoTotals \in Totals /\ NoTotals.actual = 0 /\ NoTotals.network = 0
  BY DEF NoTotals, Totals
<1>5. Typed
  <2>1. <<>> \in Seq(Nat) /\ <<>> \in Seq(Flit) /\ Len(<<>>) = 0
    OBVIOUS
  <2> QED BY <1>1, <1>2, <1>3, <1>4, <2>1, Constants DEF Init, Typed
<1>6. Underway = <<>>
  BY DEF Init, Underway
<1>7. InOrder(Underway) /\ Before(Underway, queue, now * Scale) /\ Labelled(Underway, total.actual, now)
  BY <1>6 DEF InOrder, Before, Labelled
<1>8. QueueSound(queue, now * Scale) /\ Waiting(queue, births)
  BY <1>3 DEF Init, QueueSound, Waiting
<1>9. Sent(queue, total.actual, made)
  BY <1>3, <1>4, Constants DEF Init, Sent
<1>10. Numbered
  BY <1>2, <1>4 DEF Init, Numbered
<1>11. Quiet /\ total.network = aged
  BY <1>4 DEF Init, Quiet
<1> QED BY <1>5, <1>7, <1>8, <1>9, <1>10, <1>11 DEF MInv

LEMMA MReset == ASSUME MInv, Reset PROVE MInv'
<1>1. total' = total /\ now' = now + 1 /\ now \in Nat /\ now' \in Nat
  BY DEF MInv, Quiet, Reset, Typed
<1>2. /\ queue' = queue /\ births' = births /\ made' = made /\ wire' = wire /\ buffer' = buffer
      /\ exit' = exit /\ stats' = stats /\ seen' = seen /\ since' = since /\ longest' = longest
      /\ tracer' = tracer /\ worst' = worst /\ aged' = aged
  BY DEF Reset, processor, router
<1>3. Typed'
  BY <1>1, <1>2 DEF MInv, Typed
<1>4. Underway' = Underway /\ Underway \in Seq(Flit) /\ queue \in Queue /\ total.actual \in Nat
  <2>1. total.actual \in Nat
    BY DEF MInv, Typed, Totals
  <2> QED BY <1>2, <2>1 DEF MInv, Typed, Underway
<1>5. /\ QueueSound(queue, (now + 1) * Scale) /\ Before(Underway, queue, (now + 1) * Scale)
      /\ Labelled(Underway, total.actual, now + 1)
  BY <1>1, <1>4, Later DEF MInv
<1>6. /\ QueueSound(queue', now' * Scale) /\ Before(Underway', queue', now' * Scale)
      /\ Labelled(Underway', total'.actual, now') /\ InOrder(Underway')
      /\ Waiting(queue', births') /\ Sent(queue', total'.actual, made')
  BY <1>1, <1>2, <1>4, <1>5 DEF MInv
<1>7. Numbered' /\ total'.network = aged'
  BY <1>1, <1>2 DEF MInv, Numbered
<1>8. Quiet'
  BY <1>1 DEF Reset, Quiet
<1> QED BY <1>3, <1>6, <1>7, <1>8 DEF MInv

LEMMA MClock == ASSUME MInv, Clock PROVE MInv'
<1>1. /\ now' = now + 1 /\ now \in Nat /\ now' \in Nat /\ ~InReset
      /\ Source /\ Router /\ Trace /\ Counted
      /\ Typed /\ Underway \in Seq(Flit) /\ total.actual \in Nat
  <2>1. total.actual \in Nat
    BY DEF MInv, Typed, Totals
  <2> QED BY <2>1 DEF MInv, Typed, Underway, Clock
<1>2. /\ queue' \in Queue /\ births' \in Seq(Nat) /\ made' \in Nat
      /\ wire' \in Seq(Flit) /\ Len(wire') <= 1 /\ Len(wire') \in Nat
      /\ Waiting(queue', births') /\ QueueSound(queue', now * Scale)
      /\ Sent(queue', total.actual + Len(wire'), made')
      /\ Before(Underway, queue', now * Scale) /\ Before(wire', queue', now * Scale)
      /\ wire' # <<>> => /\ wire = <<>> /\ Len(buffer) < Depth
                         /\ \A j \in DOMAIN Underway : Underway[j].stamp <= wire'[1].stamp
                         /\ wire'[1].no = total.actual + 1
                         /\ wire'[1].at = now /\ wire'[1].accept = StatisticsTime
  BY <1>1, SourceStep
<1>3. /\ buffer' \in Seq(Flit) /\ exit' \in Seq(Flit) /\ Len(exit') <= 1
      /\ Len(buffer') + Len(wire') <= Depth
      /\ Underway' = (buffer \o wire) \o wire'
      /\ seen' = seen + Len(wire) /\ seen' \in Nat
  BY <1>1, <1>2, UnderwayStep
<1>4. /\ total' \in Totals /\ total'.actual = total.actual + Len(wire')
      /\ total'.network = aged' /\ aged' \in Nat /\ worst' \in Nat
  BY <1>1, <1>2, CountedStep
<1>5. /\ tracer' \in Tracer /\ tracer'.offset + Len(tracer'.history) = total'.actual
  BY <1>1, <1>2, <1>4, TraceStep DEF MInv, Numbered
<1>6. stats' \in Timers /\ since' \in Int /\ longest' \in Int
  <2>1. StatisticsTime \in Int /\ since \in Int /\ longest \in Int
    BY <1>1, Constants DEF StatisticsTime, Typed
  <2>2. since' \in Int /\ longest' \in Int
    BY <1>1, <2>1 DEF Router, Forward, Hold, Larger
  <2> QED BY <1>1, <2>2, TimersStep
<1>7. Typed'
  BY <1>1, <1>2, <1>3, <1>4, <1>5, <1>6 DEF Typed
<1>8. InOrder(Underway') /\ Before(Underway', queue', now' * Scale)
      /\ Labelled(Underway', total'.actual, now') /\ QueueSound(queue', now' * Scale)
  <2> DEFINE kept == buffer \o wire
  <2>1. kept \in Seq(Flit) /\ exit \in Seq(Flit) /\ Underway = exit \o kept
    BY <1>1 DEF Typed, Underway
  <2>2. total'.actual \in Nat /\ total.actual <= total'.actual
    BY <1>1, <1>2, <1>4
  <2>3. /\ Labelled(Underway, total'.actual, now + 1) /\ QueueSound(queue', (now + 1) * Scale)
        /\ Before(Underway, queue', (now + 1) * Scale) /\ Before(wire', queue', (now + 1) * Scale)
    BY <1>1, <1>2, <2>2, Later DEF MInv
  <2>4. Labelled(wire', total'.actual, now + 1)
    <3>1. CASE wire' = <<>>
      BY <3>1 DEF Labelled
    <3>2. CASE wire' # <<>>
      <4>1. Len(wire') = 1 /\ DOMAIN wire' = {1}
        BY <1>2, <3>2, OneFlit, FlitsOf
      <4>2. wire'[1].no <= total'.actual /\ wire'[1].at < now + 1
        BY <1>1, <1>2, <1>4, <3>2, <4>1
      <4> QED BY <1>1, <1>2, <3>2, <4>1, <4>2 DEF Labelled, StatisticsTime
    <3> QED BY <3>1, <3>2
  <2>5. /\ InOrder(kept) /\ Before(kept, queue', (now + 1) * Scale)
        /\ Labelled(kept, total'.actual, now + 1)
    BY <2>1, <2>3, Suffix DEF MInv
  <2>6. wire' # <<>> => \A i \in DOMAIN kept : kept[i].stamp <= wire'[1].stamp /\ kept[i].at < wire'[1].at
    <3> SUFFICES ASSUME wire' # <<>>, NEW i \in DOMAIN kept
                 PROVE  kept[i].stamp <= wire'[1].stamp /\ kept[i].at < wire'[1].at
      OBVIOUS
    <3>1. /\ Len(exit) + i \in DOMAIN Underway /\ Underway[Len(exit) + i] = kept[i]
      BY <2>1
    <3>2. Underway[Len(exit) + i].at < now
      BY <3>1 DEF MInv, Labelled
    <3> QED BY <1>2, <3>1, <3>2
  <2> HIDE DEF kept
  <2>7. /\ InOrder(kept \o wire') /\ Before(kept \o wire', queue', (now + 1) * Scale)
        /\ Labelled(kept \o wire', total'.actual, now + 1)
    BY <1>2, <2>1, <2>3, <2>4, <2>5, <2>6, Joined
  <2> QED BY <1>1, <1>3, <2>3, <2>7 DEF kept
<1>9. Numbered'
  <2>1. seen' + Len(wire') = total'.actual
    BY <1>1, <1>2, <1>3, <1>4 DEF MInv, Numbered
  <2>2. wire' # <<>> => wire'[1].no = seen' + 1
    <3>1. wire' # <<>> => Len(wire) = 0
      BY <1>2
    <3> QED BY <1>1, <1>2, <1>3, <3>1 DEF MInv, Numbered, Typed
  <2> QED BY <1>5, <2>1, <2>2 DEF Numbered
<1>10. Quiet'
  BY <1>1, ResetEnds DEF Quiet
<1>11. Sent(queue', total'.actual, made')
  BY <1>2, <1>4
<1> QED BY <1>2, <1>4, <1>7, <1>8, <1>9, <1>10, <1>11 DEF MInv

\* The invariant holds of every simulation.
THEOREM MetricsInvariant == Spec => []MInv
<1>1. ASSUME MInv, [Next]_vars PROVE MInv'
  <2>1. CASE Reset
    BY <1>1, <2>1, MReset
  <2>2. CASE Clock
    BY <1>1, <2>2, MClock
  <2>3. CASE UNCHANGED vars
    BY <1>1, <2>3 DEF vars, processor, router, MInv, Typed, Underway, Numbered, Quiet, InReset
  <2> QED BY <1>1, <2>1, <2>2, <2>3 DEF Next
<1> QED BY <1>1, MInit, PTL DEF Spec

\* Queue, links and buffer keep their types, and every flit sent has a number in
\* the tracer (FlitTracer::Register).
THEOREM MetricsTypeOK == Spec => []TypeOK
<1>1. MInv => TypeOK
  <2> SUFFICES ASSUME MInv PROVE TypeOK
    OBVIOUS
  <2>1. Typed /\ QueueSound(queue, now * Scale) /\ Waiting(queue, births) /\ Numbered
    BY DEF MInv
  <2>2. queue.left \in 0 .. queue.size /\ queue.update \in BOOLEAN
    <3>1. queue \in Queue /\ queue.update \in BOOLEAN
      BY <2>1 DEF Typed, Queue
    <3> QED BY <2>1, <3>1, QueueFields DEF QueueSound
  <2>3. Len(buffer) <= Depth
    <3>1. Len(buffer) \in Nat /\ Len(wire) \in Nat /\ Len(buffer) + Len(wire) <= Depth
      BY <2>1 DEF Typed
    <3> QED BY <3>1, Constants
  <2> QED BY <2>1, <2>2, <2>3 DEF TypeOK, Typed, Waiting, Numbered
<1> QED BY <1>1, MetricsInvariant, PTL

-----------------------------------------------------------------------------
\* A sequence of numbers that does not fall, with none beyond u.
Rising(s, u) == /\ s \in Seq(Nat)
                /\ \A i, j \in DOMAIN s : i <= j => s[i] <= s[j]
                /\ \A i \in DOMAIN s : s[i] <= u

LEMMA Rises ==
  ASSUME NEW s, NEW u \in Nat, NEW v \in Nat, Rising(s, u), u <= v
  PROVE  Rising(s \o <<v>>, v) /\ s \o <<>> = s
<1>1. /\ s \in Seq(Nat) /\ Len(s) \in Nat /\ DOMAIN s = 1 .. Len(s)
      /\ s \o <<v>> \in Seq(Nat) /\ DOMAIN (s \o <<v>>) = 1 .. Len(s) + 1
      /\ \A i \in DOMAIN s : (s \o <<v>>)[i] = s[i] /\ s[i] \in Nat
      /\ (s \o <<v>>)[Len(s) + 1] = v /\ s \o <<>> = s
  BY DEF Rising
<1>2. \A i \in DOMAIN (s \o <<v>>) : i \in DOMAIN s \/ i = Len(s) + 1
  BY <1>1
<1>3. \A i \in DOMAIN s : s[i] <= v
  BY <1>1 DEF Rising
<1>4. \A i \in DOMAIN (s \o <<v>>) : (s \o <<v>>)[i] <= v
  BY <1>1, <1>2, <1>3
<1>5. ASSUME NEW i \in DOMAIN (s \o <<v>>), NEW j \in DOMAIN (s \o <<v>>), i <= j
      PROVE  (s \o <<v>>)[i] <= (s \o <<v>>)[j]
  <2>1. CASE j = Len(s) + 1
    BY <1>1, <1>4, <2>1
  <2>2. CASE j \in DOMAIN s
    <3>1. i \in DOMAIN s
      BY <1>1, <1>2, <1>5, <2>2
    <3>2. s[i] <= s[j]
      BY <1>5, <2>2, <3>1 DEF Rising
    <3> QED BY <1>1, <2>2, <3>1, <3>2
  <2> QED BY <1>2, <2>1, <2>2
<1> QED BY <1>1, <1>4, <1>5 DEF Rising

LEMMA RisesTwice ==
  ASSUME NEW s, NEW u \in Nat, NEW v \in Nat, NEW w \in Nat, Rising(s, u), u <= v, v <= w
  PROVE  Rising(s \o <<v, w>>, w)
<1>1. Rising((s \o <<v>>) \o <<w>>, w)
  BY Rises
<1>2. (s \o <<v>>) \o <<w>> = s \o <<v, w>>
  <2>1. s \in Seq(Nat) /\ <<v>> \in Seq(Nat) /\ <<w>> \in Seq(Nat)
    BY DEF Rising
  <2>2. s \o (<<v>> \o <<w>>) = (s \o <<v>>) \o <<w>>
    BY <2>1, ConcatAssociative
  <2>3. <<v>> \o <<w>> = <<v, w>>
    <3> DEFINE p == <<v>> \o <<w>>
               r == <<v, w>>
    <3>1. p \in Seq(Nat) /\ r \in Seq(Nat) /\ Len(p) = 2 /\ Len(r) = 2
      BY <2>1
    <3>2. p[1] = r[1] /\ p[2] = r[2]
      BY <2>1
    <3> HIDE DEF p, r
    <3>3. \A i \in 1 .. Len(p) : p[i] = r[i]
      BY <3>1, <3>2
    <3>4. p = r
      BY <3>1, <3>3, SeqEqual
    <3> QED BY <3>4 DEF p, r
  <2> QED BY <2>2, <2>3
<1> QED BY <1>1, <1>2

LEMMA RisesNoFurther ==
  ASSUME NEW s, NEW u \in Nat, NEW v \in Nat, Rising(s, u), u <= v
  PROVE  Rising(s, v)
<1>1. \A i \in DOMAIN s : s[i] \in Nat
  BY DEF Rising
<1> QED BY <1>1 DEF Rising

\* Time stamps are in the order of sending, and none is from the future
\* (ProcessorQueue::Push, Pop and UpdateFrontPacket).
THEOREM MetricsStampsOrdered == Spec => []StampsOrdered
<1>1. MInv => StampsOrdered
  <2> SUFFICES ASSUME MInv PROVE StampsOrdered
    OBVIOUS
  <2> DEFINE underway == exit \o buffer \o wire
             sent == [i \in DOMAIN underway |-> underway[i].stamp]
             drawn == IF queue.left > 0 THEN <<queue.stamp>> ELSE <<>>
             stored == IF queue.count > 0 THEN <<queue.oldest, queue.newest>> ELSE <<>>
             stamps == sent \o drawn \o stored \o <<now * Scale>>
             t == now * Scale
             a == IF queue.left > 0 THEN queue.stamp ELSE IF queue.count > 0 THEN queue.oldest ELSE t
             b == IF queue.count > 0 THEN queue.oldest ELSE t
  <2>1. /\ underway = Underway /\ Underway \in Seq(Flit) /\ queue \in Queue
        /\ births \in Seq(Nat) /\ now \in Nat /\ t \in Nat
    <3>1. exit \in Seq(Flit) /\ buffer \in Seq(Flit) /\ wire \in Seq(Flit)
          /\ queue \in Queue /\ births \in Seq(Nat) /\ now \in Nat
      BY DEF MInv, Typed
    <3>2. underway = Underway
      BY <3>1, Associative DEF Underway
    <3> QED BY <3>1, <3>2, Constants, OneMore DEF Underway
  <2>2. QueueSound(queue, t) /\ InOrder(Underway) /\ Before(Underway, queue, t) /\ Waiting(queue, births)
    BY DEF MInv
  <2> HIDE DEF t, underway
  <2>3. queue.count \in Nat /\ queue.left \in Nat /\ queue.stamp \in Nat
        /\ queue.oldest \in Nat /\ queue.newest \in Nat
    BY <2>1, QueueFields
  <2>4. /\ a \in Nat /\ b \in Nat /\ a <= b /\ b <= t
        /\ queue.left > 0 => a = queue.stamp
        /\ queue.left = 0 => a = b
        /\ queue.count > 0 => b = queue.oldest /\ b <= queue.newest /\ queue.newest <= t
        /\ queue.count = 0 => b = t
    BY <2>1, <2>2, <2>3 DEF QueueSound
  <2>5. \A i \in DOMAIN Underway : Underway[i].stamp <= a
    BY <2>1, <2>2, <2>3, FlitsOf DEF Before
  <2> HIDE DEF a, b
  <2>6. Rising(sent, a)
    <3>1. /\ DOMAIN Underway = 1 .. Len(Underway) /\ Len(Underway) \in Nat
          /\ \A i \in DOMAIN Underway : Underway[i].stamp \in Nat
      BY <2>1, FlitsOf
    <3>2. /\ sent \in Seq(Nat) /\ DOMAIN sent = DOMAIN Underway
          /\ \A i \in DOMAIN Underway : sent[i] = Underway[i].stamp
      <4>1. sent \in [1 .. Len(Underway) -> Nat]
        BY <2>1, <3>1
      <4> QED BY <2>1, <3>1, <4>1
    <3>3. ASSUME NEW i \in DOMAIN Underway, NEW j \in DOMAIN Underway, i <= j
          PROVE  Underway[i].stamp <= Underway[j].stamp
      <4>1. CASE i < j
        BY <2>2, <4>1 DEF InOrder
      <4>2. CASE i = j
        BY <3>1, <4>2
      <4> QED BY <3>1, <3>3, <4>1, <4>2
    <3> HIDE DEF sent
    <3> QED BY <2>5, <3>2, <3>3 DEF Rising
  <2> HIDE DEF sent
  <2>7. Rising(sent \o drawn, b)
    <3>1. CASE queue.left > 0
      <4>1. Rising(sent \o <<a>>, a)
        BY <2>4, <2>6, Rises
      <4>2. drawn = <<a>>
        BY <2>4, <3>1
      <4>3. Rising(sent \o drawn, a)
        BY <4>1, <4>2
      <4> HIDE DEF drawn
      <4> QED BY <2>4, <4>3, RisesNoFurther
    <3>2. CASE queue.left = 0
      <4>1. drawn = <<>> /\ sent \o <<>> = sent /\ a = b
        BY <2>3, <2>4, <2>6, <3>2, Rises
      <4> QED BY <2>6, <4>1
    <3> QED BY <2>3, <3>1, <3>2
  <2> HIDE DEF drawn
  <2>8. Rising(sent \o drawn \o stored, t)
    <3>1. CASE queue.count > 0
      <4>1. stored = <<b, queue.newest>>
        BY <2>4, <3>1
      <4>2. Rising((sent \o drawn) \o <<b, queue.newest>>, queue.newest)
        BY <2>3, <2>4, <2>7, <3>1, RisesTwice
      <4>3. Rising(sent \o drawn \o stored, queue.newest)
        BY <4>1, <4>2
      <4> HIDE DEF stored
      <4> QED BY <2>1, <2>3, <2>4, <3>1, <4>3, RisesNoFurther
    <3>2. CASE queue.count = 0
      <4>1. stored = <<>> /\ (sent \o drawn) \o <<>> = sent \o drawn /\ b = t
        BY <2>1, <2>3, <2>4, <2>7, <3>2, Rises
      <4> QED BY <2>7, <4>1
    <3> QED BY <2>3, <3>1, <3>2
  <2> HIDE DEF stored
  <2>9. Rising(stamps, t)
    BY <2>1, <2>8, Rises DEF t
  <2> HIDE DEF stamps
  <2>10. \A i, j \in DOMAIN stamps : i <= j => stamps[i] <= stamps[j]
    BY <2>9 DEF Rising
  <2>11. births # <<>> => queue.newest = births[Len(births)] * Scale
    <3>1. births # <<>> => Len(births) \in Nat /\ Len(births) > 0
      BY <2>1
    <3> QED BY <2>2, <2>3, <3>1 DEF Waiting
  <2> QED BY <2>10, <2>11 DEF StampsOrdered, stamps, sent, drawn, stored, underway
<1> QED BY <1>1, MetricsInvariant, PTL

\* The flits reported as produced at any time: those of the packets produced, without
\* those sent before the measurement began, and with those of the packet half sent
\* twice.
HalfSentTwice ==
    FlitsProduced(total.sent) + (total.actual - total.sent)
        = made * PacketSize + (IF queue.left > 0 THEN queue.size - queue.left ELSE 0)

\* The report of the flits produced is wrong by the flits of the packet half sent, which
\* it counts twice, and by nothing else: it is right whenever no packet is half sent
\* (Processor::FlitsProduced).
THEOREM MetricsHalfSentTwice == Spec => []HalfSentTwice
<1>1. MInv => HalfSentTwice
  <2> SUFFICES ASSUME MInv PROVE HalfSentTwice
    OBVIOUS
  <2> DEFINE left == queue.count * PacketSize
             produced == made * PacketSize
  <2>1. /\ queue \in Queue /\ made \in Nat /\ total.sent \in Nat /\ total.actual \in Nat
        /\ QueueSound(queue, now * Scale) /\ Sent(queue, total.actual, made)
    BY DEF MInv, Typed, Totals
  <2>2. queue.count \in Nat /\ queue.left \in Nat /\ queue.size \in Nat
    BY <2>1, QueueFields
  <2>3. left \in Nat /\ produced \in Nat /\ (queue.count * (PacketSize + PacketSize)) \div 2 = left
    BY <2>1, <2>2, Constants, OneMore, Half
  <2>4. /\ total.actual + left = produced + (IF queue.left > 0 THEN PacketSize - queue.left ELSE 0)
        /\ FlitsProduced(total.sent) = total.sent + left
    BY <2>1, <2>3 DEF Sent, FlitsProduced
  <2> HIDE DEF left, produced
  <2>5. FlitsProduced(total.sent) + (total.actual - total.sent)
           = produced + (IF queue.left > 0 THEN queue.size - queue.left ELSE 0)
    <3>1. CASE queue.left > 0
      <4>1. queue.size = PacketSize /\ total.actual + left = produced + (PacketSize - queue.left)
        BY <2>1, <2>4, <3>1 DEF QueueSound
      <4> QED BY <2>1, <2>2, <2>3, <2>4, <3>1, <4>1, Constants
    <3>2. CASE queue.left = 0
      <4>1. total.actual + left = produced
        BY <2>2, <2>3, <2>4, <3>2
      <4> QED BY <2>1, <2>2, <2>3, <2>4, <3>2, <4>1
    <3> QED BY <2>2, <3>1, <3>2
  <2> QED BY <2>5 DEF HalfSentTwice, produced
<1> QED BY <1>1, MetricsInvariant, PTL

-----------------------------------------------------------------------------
\* The timers are looked up under the right number when flits stay in virtual
\* channel 0.
LEMMA TimedStep ==
  ASSUME Outs = {0}, MInv, Timed, Router PROVE Timed'
<1> DEFINE time == StatisticsTime
           s0 == Route(0, stats)
<1>1. /\ Typed /\ time \in Int /\ stats \in Timers /\ since \in Int /\ longest \in Int
      /\ buffer \in Seq(Flit) /\ wire \in Seq(Flit) /\ stats' \in Timers
  BY TimersStep, Constants DEF MInv, Typed, StatisticsTime
<1>2. /\ stats[0].stuck_timer \in Int /\ stats[0].max_suck_delay \in Int
      /\ stats'[0].stuck_timer \in Int /\ stats'[0].max_suck_delay \in Int
  BY <1>1 DEF Timers
<1>3. PICK s \in {Route(out, stats) : out \in Outs} \cup {stats} :
        /\ Forward(s) \/ Hold(s)
        /\ stats' = IF wire = <<>> THEN s ELSE StartStuckTimer(s, 0, time)
  BY DEF Router
<1>4. CASE Forward(s)
  <2>1. /\ buffer # <<>> /\ buffer' = Tail(buffer) \o wire /\ s = s0
        /\ longest' = IF since >= 0 THEN Larger(longest, time - since) ELSE longest
        /\ since' = IF buffer' = <<>> THEN -1 ELSE time
    BY <1>4 DEF Forward
  <2>2. /\ s \in Timers
        /\ s[0].max_suck_delay >= stats[0].max_suck_delay
        /\ stats[0].stuck_timer >= 0 => s[0].max_suck_delay >= time - stats[0].stuck_timer
        /\ Len(buffer) > 1 => s[0].stuck_timer = time
        /\ ~(Len(buffer) > 1) => s[0].stuck_timer < 0
    BY <1>1, <2>1, RouteStep
  <2> HIDE DEF time, s0
  <2>3. s[0].stuck_timer \in Int /\ s[0].max_suck_delay \in Int
    BY <2>2 DEF Timers
  <2>4. s[0].max_suck_delay >= longest'
    BY <1>1, <1>2, <2>1, <2>2, <2>3 DEF Timed, Larger
  <2>5. stats'[0].max_suck_delay = s[0].max_suck_delay
    BY <1>1, <1>3, <2>2, StartStep
  <2>6. /\ buffer' = <<>> => Len(buffer) = 1 /\ wire = <<>>
        /\ buffer' # <<>> => Len(buffer) > 1 \/ wire # <<>>
    <3>1. /\ Len(Tail(buffer)) = Len(buffer) - 1 /\ Tail(buffer) \in Seq(Flit)
          /\ Len(buffer) \in Nat /\ Len(buffer) > 0 /\ Len(wire) \in Nat
      BY <1>1, <2>1
    <3>2. buffer' \in Seq(Flit) /\ Len(buffer') = (Len(buffer) - 1) + Len(wire)
      BY <1>1, <2>1, <3>1
    <3>3. (buffer' = <<>> <=> Len(buffer') = 0) /\ (wire = <<>> <=> Len(wire) = 0)
      BY <1>1, <3>2
    <3> QED BY <3>1, <3>2, <3>3
  <2>7. CASE buffer' = <<>>
    <3>1. stats' = s /\ since' = -1 /\ Len(buffer) = 1
      BY <1>3, <2>1, <2>6, <2>7
    <3>2. stats'[0].stuck_timer < 0
      BY <2>2, <3>1
    <3> QED BY <2>4, <2>5, <3>1, <3>2 DEF Timed
  <2>8. CASE buffer' # <<>>
    <3>1. CASE wire = <<>>
      BY <1>3, <2>1, <2>2, <2>4, <2>5, <2>6, <2>8, <3>1 DEF Timed
    <3>2. CASE wire # <<>>
      <4>1. stats'[0].stuck_timer = IF s[0].stuck_timer >= 0 THEN s[0].stuck_timer ELSE time
        BY <1>1, <1>3, <2>2, <3>2, StartStep
      <4>2. stats'[0].stuck_timer = time
        BY <1>1, <2>2, <2>3, <4>1
      <4> QED BY <2>1, <2>4, <2>5, <2>8, <4>2 DEF Timed
    <3> QED BY <3>1, <3>2
  <2> QED BY <2>7, <2>8
<1>5. CASE Hold(s)
  <2>1. /\ buffer' = buffer \o wire /\ s = stats /\ longest' = longest
        /\ since' = IF buffer = <<>> /\ wire # <<>> THEN time ELSE since
    BY <1>5 DEF Hold
  <2> HIDE DEF time
  <2>2. buffer' = <<>> <=> buffer = <<>> /\ wire = <<>>
    BY <1>1, <2>1
  <2>3. CASE wire = <<>>
    BY <1>3, <2>1, <2>2, <2>3 DEF Timed
  <2>4. CASE wire # <<>>
    <3>1. /\ stats'[0].stuck_timer = IF stats[0].stuck_timer >= 0 THEN stats[0].stuck_timer ELSE time
          /\ stats'[0].max_suck_delay = stats[0].max_suck_delay
      BY <1>1, <1>3, <2>1, <2>4, StartStep
    <3>2. CASE buffer = <<>>
      BY <1>1, <1>2, <2>1, <2>2, <2>4, <3>1, <3>2 DEF Timed
    <3>3. CASE buffer # <<>>
      BY <1>1, <1>2, <2>1, <2>2, <2>4, <3>1, <3>3 DEF Timed
    <3> QED BY <3>2, <3>3
  <2> QED BY <2>3, <2>4
<1> QED BY <1>3, <1>4, <1>5

THEOREM MetricsTimed == ASSUME Outs = {0} PROVE Spec => []Timed
<1>1. Init => Timed
  <2>1. NewStats({0})[0].stuck_timer = -1 /\ NewStats({0})[0].max_suck_delay = -1
    BY DEF NewStats
  <2> QED BY <2>1 DEF Init, Timed
<1>2. ASSUME MInv, Timed, [Next]_vars PROVE Timed'
  <2>1. CASE Clock
    BY <1>2, <2>1, TimedStep DEF Clock
  <2>2. CASE Reset
    BY <1>2, <2>2 DEF Reset, router, Timed
  <2>3. CASE UNCHANGED vars
    BY <1>2, <2>3 DEF vars, router, Timed
  <2> QED BY <1>2, <2>1, <2>2, <2>3 DEF Next
<1> QED BY <1>1, <1>2, MetricsInvariant, PTL DEF Spec

\* While a flit waits the timer of its channel tells since when, in a router that
\* keeps flits in their virtual channel (Router::Route, Router::RXProcess).
THEOREM MetricsWatched == ASSUME Outs = {0} PROVE Spec => []Watched
<1>1. Timed => Watched
  BY DEF Timed, Watched
<1> QED BY <1>1, MetricsTimed, PTL

\* No measured wait at the front of the buffer is longer than the reported one
\* (Stats::GetMaxBufferStuckDelay), in such a router.
THEOREM MetricsStuckDelay == ASSUME Outs = {0} PROVE Spec => []StuckDelayReported
<1>1. MInv /\ Timed => StuckDelayReported
  <2> SUFFICES ASSUME MInv, Timed PROVE StuckDelayReported
    OBVIOUS
  <2> DEFINE r == StopStuckTimer(stats, 0, StatisticsTime)
  <2>1. stats \in Timers /\ StatisticsTime \in Int /\ longest \in Int /\ since \in Int
    BY Constants DEF MInv, Typed, StatisticsTime
  <2>2. /\ r \in Timers /\ r[0].max_suck_delay >= stats[0].max_suck_delay
        /\ stats[0].stuck_timer >= 0 =>
              r[0].max_suck_delay >= StatisticsTime - stats[0].stuck_timer
    BY <2>1, StopStep
  <2> HIDE DEF r
  <2>3. r[0].max_suck_delay \in Int /\ stats[0].max_suck_delay \in Int
    BY <2>1, <2>2 DEF Timers
  <2>4. r[0].max_suck_delay >= longest
        /\ (since >= 0 => r[0].max_suck_delay >= StatisticsTime - since)
    BY <2>1, <2>2, <2>3 DEF Timed
  <2> QED BY <2>4 DEF StuckDelayReported, r
<1> QED BY <1>1, MetricsInvariant, MetricsTimed, PTL

-----------------------------------------------------------------------------
LEMMA HistoryOf ==
  ASSUME NEW t \in Tracer
  PROVE  /\ t.offset \in Nat /\ Len(t.history) \in Nat /\ DOMAIN t.history = 1 .. Len(t.history)
         /\ t.history = <<>> <=> Len(t.history) = 0
<1>1. t.offset \in Nat /\ t.history \in Seq([flit : Nat, path : Seq({"router"})])
  BY DEF Tracer
<1> QED BY <1>1

LEMMA RegisterStories ==
  ASSUME NEW t \in Tracer, NEW n \in Nat, NEW time \in Int, Stories(t, n),
         t.history # <<>> => InInterval(time), n <= t.offset + Len(t.history)
  PROVE  LET r == Register(t, t.offset + Len(t.history) + 1, time) IN
         Stories(r, n) /\ (r.history # <<>> => InInterval(time))
<1> DEFINE no == t.offset + Len(t.history) + 1
           r == Register(t, no, time)
<1>1. /\ t.offset \in Nat /\ Len(t.history) \in Nat /\ DOMAIN t.history = 1 .. Len(t.history)
      /\ no \in Nat
  BY HistoryOf
<1> HIDE DEF no
<1>2. /\ r \in Tracer
      /\ InInterval(time) =>
           /\ r.offset = t.offset /\ Len(r.history) = Len(t.history) + 1
           /\ r.history[Len(t.history) + 1] = [flit |-> no, path |-> <<>>]
           /\ \A i \in DOMAIN t.history : r.history[i] = t.history[i]
      /\ ~InInterval(time) => r.offset = t.offset + 1 /\ r.history = t.history
  BY <1>1, RegisterStep
<1> HIDE DEF r
<1>3. CASE InInterval(time)
  <2>1. DOMAIN r.history = 1 .. Len(t.history) + 1
    BY <1>2, <1>3, HistoryOf
  <2>2. ASSUME NEW i \in DOMAIN r.history
        PROVE  /\ r.history[i].flit = r.offset + i
               /\ r.history[i].path = IF r.offset + i <= n THEN <<"router">> ELSE <<>>
    <3>1. CASE i \in DOMAIN t.history
      BY <1>2, <1>3, <3>1 DEF Stories
    <3>2. CASE i = Len(t.history) + 1
      <4>1. r.offset + i = no /\ no > n
        BY <1>1, <1>2, <1>3, <3>2 DEF no
      <4> QED BY <1>1, <1>2, <1>3, <3>2, <4>1
    <3> QED BY <1>1, <2>1, <3>1, <3>2
  <2> QED BY <1>3, <2>2 DEF Stories, r, no
<1>4. CASE ~InInterval(time)
  <2>1. r.history = <<>> /\ DOMAIN r.history = {}
    BY <1>2, <1>4
  <2> QED BY <2>1 DEF Stories, r, no
<1> QED BY <1>3, <1>4

LEMMA RememberStories ==
  ASSUME NEW t \in Tracer, NEW n \in Nat, Stories(t, n)
  PROVE  LET r == Remember(t, n, "router") IN
         r \in Tracer /\ r.offset = t.offset /\ Len(r.history) = Len(t.history) /\ Stories(r, n + 1)
<1> DEFINE r == Remember(t, n, "router")
<1>1. /\ r \in Tracer /\ r.offset = t.offset /\ Len(r.history) = Len(t.history)
      /\ \A i \in DOMAIN t.history :
           /\ r.history[i].flit = t.history[i].flit
           /\ r.history[i].path = IF t.offset + i = n + 1 THEN Append(t.history[i].path, "router")
                                                        ELSE t.history[i].path
  BY RememberStep
<1> HIDE DEF r
<1>2. /\ t.offset \in Nat /\ DOMAIN t.history = 1 .. Len(t.history) /\ Len(t.history) \in Nat
      /\ DOMAIN r.history = DOMAIN t.history
  BY <1>1, HistoryOf
<1>3. ASSUME NEW i \in DOMAIN r.history
      PROVE  /\ r.history[i].flit = r.offset + i
             /\ r.history[i].path = IF r.offset + i <= n + 1 THEN <<"router">> ELSE <<>>
  <2>1. /\ t.history[i].flit = t.offset + i
        /\ t.history[i].path = IF t.offset + i <= n THEN <<"router">> ELSE <<>>
    BY <1>2 DEF Stories
  <2>2. CASE t.offset + i = n + 1
    <3>1. t.history[i].path = <<>>
      BY <1>2, <2>1, <2>2
    <3>2. Append(<<>>, "router") = <<"router">>
      OBVIOUS
    <3>3. r.history[i].path = <<"router">>
      BY <1>1, <1>2, <2>2, <3>1, <3>2
    <3>4. r.offset + i <= n + 1
      BY <1>1, <1>2, <2>2
    <3> QED BY <1>1, <1>2, <2>1, <3>3, <3>4
  <2>3. CASE t.offset + i # n + 1
    BY <1>1, <1>2, <2>1, <2>3
  <2> QED BY <2>2, <2>3
<1> QED BY <1>1, <1>3 DEF Stories, r

LEMMA ToldStep ==
  ASSUME StoryEnd < 0, MInv, Told, Clock PROVE Told'
<1> DEFINE n == total.actual
           registered(t) == IF wire' # <<>> THEN Register(t, wire'[1].no, StatisticsTime) ELSE t
           remembered(t) == IF wire = <<>> THEN t ELSE Remember(t, wire[1].id, "router")
           Open(t) == t.history # <<>> => InInterval(StatisticsTime)
<1>1. /\ tracer \in Tracer /\ StatisticsTime \in Int /\ StatisticsTime' = StatisticsTime + 1
      /\ StatisticsTime' \in Int /\ n \in Nat /\ seen \in Nat /\ Len(wire) \in Nat
      /\ wire \in Seq(Flit) /\ Len(wire) <= 1
      /\ seen' = seen + Len(wire) /\ seen' = n /\ seen <= n
      /\ tracer.offset + Len(tracer.history) = n
      /\ wire # <<>> => Len(wire) = 1
  <2>1. now \in Nat /\ now' = now + 1 /\ n \in Nat
    BY DEF MInv, Typed, Totals, Clock
  <2>2. StatisticsTime \in Int /\ StatisticsTime' = StatisticsTime + 1
    BY <2>1, Constants DEF StatisticsTime
  <2>3. wire \in Seq(Flit) /\ Len(wire) <= 1 /\ seen \in Nat /\ tracer \in Tracer
        /\ seen + Len(wire) = n /\ tracer.offset + Len(tracer.history) = n
    BY DEF MInv, Typed, Numbered
  <2>4. Len(wire) \in Nat /\ seen' = seen + Len(wire) /\ (wire # <<>> => Len(wire) = 1)
    BY <2>3, OneFlit DEF Clock, Router
  <2> QED BY <2>1, <2>2, <2>3, <2>4
<1>2. /\ wire' # <<>> => wire'[1].no = n + 1 /\ wire'[1].id = NewID(tracer, StatisticsTime)
      /\ MInv'
  BY SourceStep, MClock DEF Clock
<1>3. ASSUME NEW t \in Tracer, NEW k \in Nat, Stories(t, k), Open(t), k <= n,
             t.offset + Len(t.history) = n
      PROVE  Stories(registered(t), k) /\ Open(registered(t))
  <2>1. CASE wire' = <<>>
    BY <1>3, <2>1
  <2>2. CASE wire' # <<>>
    <3>1. registered(t) = Register(t, t.offset + Len(t.history) + 1, StatisticsTime)
      BY <1>2, <1>3, <2>2
    <3>2. LET r == Register(t, t.offset + Len(t.history) + 1, StatisticsTime) IN
          Stories(r, k) /\ (r.history # <<>> => InInterval(StatisticsTime))
      BY <1>1, <1>3, RegisterStories
    <3> HIDE DEF registered
    <3> QED BY <3>1, <3>2
  <2> QED BY <2>1, <2>2
<1>4. ASSUME NEW t \in Tracer, Stories(t, seen), Open(t)
      PROVE  /\ remembered(t) \in Tracer /\ Stories(remembered(t), seen') /\ Open(remembered(t))
             /\ remembered(t).offset + Len(remembered(t).history) = t.offset + Len(t.history)
  <2>1. CASE wire = <<>>
    <3>1. seen' = seen
      BY <1>1, <2>1
    <3> QED BY <1>4, <2>1, <3>1
  <2>2. CASE wire # <<>>
    <3>1. remembered(t) = Remember(t, seen, "router") /\ seen' = seen + 1
      BY <1>1, <2>2 DEF Told
    <3>2. LET r == Remember(t, seen, "router") IN
          r \in Tracer /\ r.offset = t.offset /\ Len(r.history) = Len(t.history) /\ Stories(r, seen + 1)
      BY <1>1, <1>4, RememberStories
    <3> HIDE DEF remembered
    <3>3. remembered(t).history # <<>> => t.history # <<>>
      BY <3>1, <3>2, HistoryOf
    <3> QED BY <1>4, <3>1, <3>2, <3>3
  <2> QED BY <2>1, <2>2
<1>5. registered(tracer) \in Tracer
  <2>1. CASE wire' = <<>>
    BY <1>1, <2>1
  <2>2. CASE wire' # <<>>
    <3>1. n + 1 \in Nat /\ registered(tracer) = Register(tracer, n + 1, StatisticsTime)
      BY <1>1, <1>2, <2>2
    <3> HIDE DEF registered, n
    <3> QED BY <1>1, <3>1, RegisterStep
  <2> QED BY <2>1, <2>2
<1>6. Stories(tracer', seen') /\ Open(tracer')
  <2>1. Stories(tracer, seen) /\ Open(tracer)
    BY DEF Told
  <2>2. tracer' \in {registered(remembered(tracer)), remembered(registered(tracer))}
    BY DEF Clock, Trace, Sends
  <2> HIDE DEF registered, remembered, Open
  <2>3. CASE tracer' = registered(remembered(tracer))
    BY <1>1, <1>3, <1>4, <2>1, <2>3
  <2>4. CASE tracer' = remembered(registered(tracer))
    BY <1>1, <1>3, <1>4, <1>5, <2>1, <2>4
  <2> QED BY <2>2, <2>3, <2>4
<1>7. tracer'.history # <<>> => InInterval(StatisticsTime')
  BY <1>1, <1>6, Constants DEF InInterval
<1>8. wire' # <<>> => wire'[1].id = seen'
  <2>1. tracer.history = <<>> => Len(tracer.history) = 0 /\ tracer.offset = n
    BY <1>1, HistoryOf
  <2>2. NewID(tracer, StatisticsTime) = n
    BY <1>1, <2>1 DEF NewID, Told
  <2> QED BY <1>1, <1>2, <2>2
<1> QED BY <1>6, <1>7, <1>8 DEF Told

THEOREM MetricsTold == ASSUME StoryEnd < 0 PROVE Spec => []Told
<1>1. Init => Told
  BY DEF Init, Told, Stories, NewTracer
<1>2. ASSUME MInv, Told, [Next]_vars PROVE Told'
  <2>1. CASE Clock
    BY <1>2, <2>1, ToldStep
  <2>2. CASE Reset
    <3>1. now \in Nat /\ now' = now + 1 /\ tracer' = tracer /\ seen' = seen /\ wire' = wire
      BY <1>2, <2>2 DEF MInv, Typed, Reset, router
    <3>2. InInterval(StatisticsTime) => InInterval(StatisticsTime')
      BY <3>1, Constants DEF InInterval, StatisticsTime
    <3> QED BY <1>2, <3>1, <3>2 DEF Told
  <2>3. CASE UNCHANGED vars
    BY <1>2, <2>3 DEF vars, router, Told, StatisticsTime
  <2> QED BY <1>2, <2>1, <2>2, <2>3 DEF Next
<1> QED BY <1>1, <1>2, MetricsInvariant, PTL DEF Spec

\* The report tells the path of every flit it has a story of, and of no other,
\* when tracing does not end before the run (FlitTracer::Register, Remember).
THEOREM MetricsTrueStories == ASSUME StoryEnd < 0 PROVE Spec => []TrueStories
<1>1. Told => TrueStories
  BY DEF Told, Stories, TrueStories
<1> QED BY <1>1, MetricsTold, PTL

-----------------------------------------------------------------------------
LEMMA MetricsOnTime == ASSUME ClockPeriod = 1000 PROVE Spec => []OnTime
<1>1. Init => OnTime
  BY Constants DEF Init, OnTime
<1>2. ASSUME MInv, OnTime, [Next]_vars PROVE OnTime'
  <2>1. now \in Nat
    BY <1>2 DEF MInv, Typed
  <2>2. CASE Clock
    BY <2>1, <2>2, Constants DEF Clock, Ended, OnTime
  <2>3. CASE Reset
    BY <2>1, <2>3, Constants DEF Reset, InReset, OnTime
  <2>4. CASE UNCHANGED vars
    BY <1>2, <2>4 DEF vars, OnTime
  <2> QED BY <1>2, <2>2, <2>3, <2>4 DEF Next
<1> QED BY <1>1, <1>2, MetricsInvariant, PTL DEF Spec

\* At the end, the time reported is the longest that a flit delivered took or that a
\* flit left in a buffer has been in the network.
MaxTimeOfAll ==
    Ended =>
        LET ages == {aged} \cup {now - f.at : f \in Range(buffer)} IN
        /\ GetMaxTimeFlitInNetwork \in ages
        /\ \A age \in ages : GetMaxTimeFlitInNetwork >= age

\* With a clock of 1 ns the longest time in the network that is reported is that of a
\* flit, and no flit delivered or left in a buffer was longer there, although their
\* ages are taken from different clocks (GlobalStats::GetMaxTimeFlitInNetwork): it
\* differs from that of the flits delivered only by those left.
THEOREM MetricsMaxTimeOfAll == ASSUME ClockPeriod = 1000 PROVE Spec => []MaxTimeOfAll
<1>1. MInv /\ OnTime => MaxTimeOfAll
  <2> SUFFICES ASSUME MInv, OnTime, Ended PROVE MaxTimeOfAll
    BY DEF MaxTimeOfAll
  <2> DEFINE ages == {aged} \cup {now - f.at : f \in Range(buffer)}
             reported == {total.network} \cup {SimulationTime - WarmUpTime - f.accept : f \in Range(buffer)}
  <2>1. /\ now = ResetTime + SimulationTime /\ now \in Nat /\ aged \in Nat /\ total.network = aged
        /\ buffer \in Seq(Flit) /\ exit \in Seq(Flit) /\ wire \in Seq(Flit)
        /\ InOrder(Underway) /\ Labelled(Underway, total.actual, now)
    BY Constants DEF MInv, Typed, OnTime, Ended
  <2>2. \A i \in DOMAIN buffer : /\ Len(exit) + i \in DOMAIN Underway
                                 /\ Underway[Len(exit) + i] = buffer[i]
    BY <2>1 DEF Underway
  <2>3. \A i \in DOMAIN buffer : /\ buffer[i].at \in Nat
                                 /\ buffer[i].accept = buffer[i].at - ResetTime - WarmUpTime
    BY <2>1, <2>2, FlitsOf DEF Labelled
  <2>4. \A i, j \in DOMAIN buffer : i < j => buffer[i].at < buffer[j].at
    <3> SUFFICES ASSUME NEW i \in DOMAIN buffer, NEW j \in DOMAIN buffer, i < j
                 PROVE  buffer[i].at < buffer[j].at
      OBVIOUS
    <3>1. Len(exit) + i < Len(exit) + j
      BY <2>1
    <3> QED BY <2>1, <2>2, <3>1 DEF InOrder
  <2>5. \A i \in DOMAIN buffer : SimulationTime - WarmUpTime - buffer[i].accept = now - buffer[i].at
    BY <2>1, <2>3, Constants
  <2>6. reported = ages
    BY <2>1, <2>5 DEF Range
  <2>7. \A age \in ages : age \in Int
    BY <2>1, <2>3 DEF Range
  <2>8. \E m \in ages : \A age \in ages : m >= age
    <3>1. CASE buffer = <<>>
      <4>1. ages = {aged}
        BY <3>1 DEF Range
      <4> HIDE DEF ages
      <4>2. aged >= aged
        BY <2>1
      <4> QED BY <4>1, <4>2
    <3>2. CASE buffer # <<>>
      <4> DEFINE first == now - buffer[1].at
      <4>1. 1 \in DOMAIN buffer /\ \A i \in DOMAIN buffer : i \in Nat /\ (i = 1 \/ 1 < i)
        BY <2>1, <3>2
      <4>2. first \in ages /\ first \in Int /\ aged \in ages
        BY <2>1, <2>3, <4>1 DEF Range
      <4>3. \A i \in DOMAIN buffer : first >= now - buffer[i].at
        BY <2>1, <2>3, <2>4, <4>1, SMTT(30)
      <4>4. \A age \in ages : age = aged \/ first >= age
        BY <4>3 DEF Range
      <4> HIDE DEF ages, first
      <4>5. CASE first >= aged
        BY <4>2, <4>4, <4>5
      <4>6. CASE aged >= first
        <5>1. \A age \in ages : aged >= age
          BY <2>1, <2>7, <4>2, <4>4, <4>6
        <5> QED BY <4>2, <5>1
      <4> QED BY <2>1, <4>2, <4>5, <4>6
    <3> QED BY <3>1, <3>2
  <2> HIDE DEF ages, reported
  <2>9. Max(ages) \in ages /\ \A age \in ages : Max(ages) >= age
    BY <2>8 DEF Max
  <2>10. GetMaxTimeFlitInNetwork = Max(ages)
    BY <2>6 DEF GetMaxTimeFlitInNetwork, reported
  <2> QED BY <2>9, <2>10, Zenon DEF MaxTimeOfAll, ages
<1> QED BY <1>1, MetricsInvariant, MetricsOnTime, PTL

=============================================================================
