---------------------------- MODULE WiringProofs ----------------------------
(***************************************************************************)
(* Relays are bound in pairs, whatever the graph: what InitBase makes of   *)
(* its lists of neighbours is symmetric.  The first part is about loops:   *)
(* what FoldLeft and FoldSet make is the last value of a function from     *)
(* steps to values, or from what is left to do to values, so that what     *)
(* every step keeps holds at the end.                                      *)
(***************************************************************************)
EXTENDS Wiring, WellFoundedInduction, FiniteSetTheorems, TLAPS

LEMMA SetInduction ==
  ASSUME NEW S, 0 \in S, \A n \in Nat : n \in S => n + 1 \in S
  PROVE  \A n \in Nat : n \in S
<1> DEFINE R == OpToRel(<, Nat)
           T == Nat \ S
<1>1. IsWellFoundedOn(R, Nat)
  BY NatLessThanWellFounded
<1>2. SUFFICES ASSUME T # {} PROVE FALSE
  OBVIOUS
<1>3. PICK x \in T : \A y \in T : ~ (<<y, x>> \in R)
  <2> HIDE DEF R
  <2> QED BY <1>1, <1>2, WFMin
<1>4. x \in Nat /\ x # 0 /\ x - 1 \in Nat
  BY Z3
<1>5. x - 1 \in T
  <2> SUFFICES ASSUME x - 1 \in S PROVE FALSE BY <1>4
  <2> (x - 1) + 1 \in S BY <1>4, Z3
  <2> QED BY <1>4, Z3
<1>6. <<x - 1, x>> \in R
  BY <1>4 DEF OpToRel
<1> QED BY <1>3, <1>5, <1>6

\* The largest element of a set of numbers that are at most one more than m.
LEMMA MaxLast ==
  ASSUME NEW m \in Nat, NEW s, s \subseteq 1 .. (m + 1), m + 1 \in s
  PROVE  Max(s) = m + 1
<1>1. \A y \in s : y \in Nat /\ m + 1 >= y
  OBVIOUS
<1>2. Max(s) \in s /\ \A y \in s : Max(s) >= y
  BY <1>1 DEF Max
<1>3. Max(s) \in Nat /\ Max(s) >= m + 1 /\ m + 1 >= Max(s)
  BY <1>1, <1>2
<1> HIDE DEF Max
<1> QED BY <1>3

LEMMA MaxIn ==
  ASSUME NEW n \in Nat, NEW s, s \subseteq 1 .. n, s # {}
  PROVE  Max(s) \in s
<1> DEFINE S == {k \in Nat : \A u : u \subseteq 1 .. k /\ u # {} => Max(u) \in u}
<1>1. 0 \in S
  <2> \A u : u \subseteq 1 .. 0 => u = {}
    BY 1 .. 0 = {}
  <2> QED OBVIOUS
<1>2. ASSUME NEW k \in Nat, k \in S PROVE k + 1 \in S
  <2> SUFFICES ASSUME NEW u, u \subseteq 1 .. (k + 1), u # {} PROVE Max(u) \in u
    OBVIOUS
  <2>1. CASE k + 1 \in u
    BY <2>1, MaxLast
  <2>2. CASE k + 1 \notin u
    <3>1. u \subseteq 1 .. k
      BY <2>2
    <3> QED BY <3>1, <1>2
  <2> QED BY <2>1, <2>2
<1> HIDE DEF S
<1>3. n \in S
  BY <1>1, <1>2, SetInduction
<1> QED BY <1>3 DEF S

\* What a fold that takes the largest index first does with sets of indices.
LEMMA LastIndex ==
  ASSUME NEW m \in Nat, NEW s, s \subseteq 1 .. (m + 1)
  PROVE  /\ m + 1 \notin s => s \subseteq 1 .. m
         /\ m + 1 \in s => Max(s) = m + 1
         /\ s \ {Max(s)} \subseteq 1 .. (m + 1)
         /\ s # {} => m + 1 \notin s \ {Max(s)} /\ s \ {Max(s)} \subseteq 1 .. m
<1>1. m + 1 \notin s => s \subseteq 1 .. m
  OBVIOUS
<1>2. m + 1 \in s => Max(s) = m + 1
  BY MaxLast
<1>3. m + 1 \notin s \ {Max(s)}
  BY <1>2
<1>4. s \ {Max(s)} \subseteq 1 .. m
  <2> \A u : u \subseteq 1 .. (m + 1) /\ m + 1 \notin u => u \subseteq 1 .. m
    OBVIOUS
  <2> QED BY <1>3, Zenon
<1> QED BY <1>1, <1>2, <1>3, <1>4

LEMMA FirstIndices ==
  ASSUME NEW n \in Nat, NEW k \in 1 .. n
  PROVE  /\ 1 .. k \in SUBSET (1 .. n) /\ 1 .. k # {}
         /\ Max(1 .. k) = k /\ (1 .. k) \ {k} = 1 .. (k - 1)
<1>1. k - 1 \in Nat /\ (k - 1) + 1 = k
  OBVIOUS
<1>2. 1 .. k \subseteq 1 .. ((k - 1) + 1) /\ (k - 1) + 1 \in 1 .. k
  BY <1>1
<1>3. Max(1 .. k) = (k - 1) + 1
  BY <1>1, <1>2, MaxLast
<1>4. Max(1 .. k) = k
  BY <1>1, <1>3
<1>5. (1 .. k) \ {k} = 1 .. (k - 1)
  OBVIOUS
<1>6. 1 .. k \in SUBSET (1 .. n) /\ 1 .. k # {}
  OBVIOUS
<1> QED BY <1>4, <1>5, <1>6

\* The function of sets of indices by which a fold is defined (Folds): h says what
\* the turns step[i] of a loop, i in s, make of base.
IsLoop(h, n, U, base, step) ==
    /\ h \in [SUBSET (1 .. n) -> U]
    /\ \A s \in SUBSET (1 .. n) :
          h[s] = IF s = {} THEN base ELSE step[Max(s)][h[s \ {Max(s)}]]

\* A loop whose turns stay within U has such a function: it can be defined one
\* index at a time.
LEMMA LoopExists ==
  ASSUME NEW n \in Nat, NEW U, NEW base \in U, NEW step \in [1 .. n -> [U -> U]]
  PROVE  \E h : IsLoop(h, n, U, base, step)
<1> DEFINE Iter(h, m) ==
             /\ h \in [SUBSET (1 .. m) -> U]
             /\ \A s \in SUBSET (1 .. m) :
                   h[s] = IF s = {} THEN base ELSE step[Max(s)][h[s \ {Max(s)}]]
           S == {m \in Nat : m <= n => \E h : Iter(h, m)}
<1>1. 0 \in S
  <2> Iter([s \in SUBSET (1 .. 0) |-> base], 0)
    BY 1 .. 0 = {}
  <2> QED OBVIOUS
<1>2. ASSUME NEW m \in Nat, m \in S PROVE m + 1 \in S
  <2> SUFFICES ASSUME m + 1 <= n PROVE \E h : Iter(h, m + 1)
    <3> HIDE DEF Iter
    <3> QED OBVIOUS
  <2>1. PICK h : Iter(h, m)
    <3> HIDE DEF Iter
    <3> QED BY <1>2
  <2> DEFINE g == [s \in SUBSET (1 .. (m + 1)) |->
                     IF m + 1 \in s THEN step[m + 1][h[s \ {m + 1}]] ELSE h[s]]
  <2>2. ASSUME NEW s \in SUBSET (1 .. (m + 1))
        PROVE  g[s] = (IF s = {} THEN base ELSE step[Max(s)][g[s \ {Max(s)}]]) /\ g[s] \in U
    <3>1. s # {} => g[s \ {Max(s)}] = h[s \ {Max(s)}] /\ h[s \ {Max(s)}] \in U
      BY <2>1, LastIndex
    <3>2. CASE m + 1 \in s
      <4>1. m + 1 \in 1 .. n /\ s # {}
        BY <3>2
      <4>2. Max(s) = m + 1
        BY <3>2, LastIndex
      <4>3. g[s] = step[m + 1][h[s \ {m + 1}]]
        BY <3>2
      <4> HIDE DEF g, Iter
      <4>4. step[m + 1] \in [U -> U]
        BY <4>1
      <4> QED BY <3>1, <4>1, <4>2, <4>3, <4>4
    <3>3. CASE m + 1 \notin s
      <4>1. s \in SUBSET (1 .. m) /\ g[s] = h[s]
        BY <3>3, LastIndex
      <4>2. h[s] \in U
            /\ h[s] = IF s = {} THEN base ELSE step[Max(s)][h[s \ {Max(s)}]]
        BY <4>1, <2>1
      <4> HIDE DEF g, Iter
      <4> QED BY <4>1, <4>2, <3>1
    <3> QED BY <3>2, <3>3
  <2>3. Iter(g, m + 1)
    <3>1. g \in [SUBSET (1 .. (m + 1)) -> U]
      BY <2>2
    <3> HIDE DEF g
    <3> QED BY <2>2, <3>1
  <2> HIDE DEF Iter, g
  <2> QED BY <2>3
<1>3. n \in S
  <2> HIDE DEF S
  <2> QED BY <1>1, <1>2, SetInduction
<1>4. PICK h : Iter(h, n)
  <2> HIDE DEF Iter
  <2> QED BY <1>3
<1> QED BY <1>4 DEF IsLoop

\* What holds before a loop and is kept by each turn holds after it.
LEMMA LoopKeeps ==
  ASSUME NEW n \in Nat, NEW f, NEW U, f[{}] \in U,
         \A k \in 1 .. n : f[1 .. (k - 1)] \in U => f[1 .. k] \in U
  PROVE  f[1 .. n] \in U
<1> DEFINE S == {k \in Nat : k <= n => f[1 .. k] \in U}
<1>1. 0 \in S
  BY 1 .. 0 = {}
<1>2. ASSUME NEW k \in Nat, k \in S PROVE k + 1 \in S
  <2> SUFFICES ASSUME k + 1 <= n PROVE f[1 .. (k + 1)] \in U
    OBVIOUS
  <2>1. k + 1 \in 1 .. n /\ (k + 1) - 1 = k /\ f[1 .. k] \in U
    BY <1>2
  <2> QED BY <2>1
<1>3. n \in S
  <2> HIDE DEF S
  <2> QED BY <1>1, <1>2, SetInduction
<1> QED BY <1>3

\* The element a fold over a set takes next (Folds).
Pick(s) == CHOOSE x \in s : TRUE

\* What holds of the empty set, and of a set if it holds without one of its elements,
\* holds of every finite set.
LEMMA PickInduction ==
  ASSUME NEW S, IsFiniteSet(S), NEW P, {} \in P,
         \A s \in SUBSET S : s # {} /\ s \ {Pick(s)} \in P => s \in P
  PROVE  S \in P
<1> DEFINE T == {m \in Nat : \A s \in SUBSET S : Cardinality(s) = m => s \in P}
<1>1. \A s \in SUBSET S : IsFiniteSet(s) /\ Cardinality(s) \in Nat
                         /\ (Cardinality(s) = 0 <=> s = {})
  BY FS_Subset, FS_CardinalityType, FS_EmptySet
<1>2. 0 \in T
  BY <1>1
<1>3. ASSUME NEW m \in Nat, m \in T PROVE m + 1 \in T
  <2> SUFFICES ASSUME NEW s \in SUBSET S, Cardinality(s) = m + 1 PROVE s \in P
    OBVIOUS
  <2>1. s # {} /\ IsFiniteSet(s)
    BY <1>1
  <2>2. Pick(s) \in s
    BY <2>1 DEF Pick
  <2>3. Cardinality(s \ {Pick(s)}) = m
    <3>1. Cardinality(s \ {Pick(s)}) = Cardinality(s) - 1
      BY <2>1, <2>2, FS_RemoveElement
    <3> QED BY <3>1
  <2>4. s \ {Pick(s)} \in P
    BY <1>3, <2>3
  <2> QED BY <2>1, <2>4
<1>4. Cardinality(S) \in T
  <2> HIDE DEF T
  <2>1. \A m \in Nat : m \in T => m + 1 \in T
    BY <1>3
  <2> QED BY <1>1, <1>2, <2>1, SetInduction
<1> QED BY <1>4

\* The function of subsets by which a fold over a set is defined: h says what the
\* steps step[x], x in s, make of base.
IsWalk(h, S, U, base, step) ==
    /\ h \in [SUBSET S -> U]
    /\ \A s \in SUBSET S :
          h[s] = IF s = {} THEN base ELSE step[Pick(s)][h[s \ {Pick(s)}]]

LEMMA WalkExists ==
  ASSUME NEW S, IsFiniteSet(S), NEW U, NEW base \in U, NEW step \in [S -> [U -> U]]
  PROVE  \E h : IsWalk(h, S, U, base, step)
<1> DEFINE Small(m) == {s \in SUBSET S : Cardinality(s) <= m}
           Iter(h, m) ==
             /\ h \in [Small(m) -> U]
             /\ \A s \in Small(m) :
                   h[s] = IF s = {} THEN base ELSE step[Pick(s)][h[s \ {Pick(s)}]]
           T == {m \in Nat : \E h : Iter(h, m)}
<1>1. \A s \in SUBSET S : /\ IsFiniteSet(s) /\ Cardinality(s) \in Nat
                          /\ (Cardinality(s) = 0 <=> s = {})
                          /\ Cardinality(s) <= Cardinality(S)
  BY FS_Subset, FS_CardinalityType, FS_EmptySet
<1>2. ASSUME NEW s \in SUBSET S, s # {}
      PROVE  Pick(s) \in s /\ s \ {Pick(s)} \in SUBSET S
             /\ Cardinality(s \ {Pick(s)}) = Cardinality(s) - 1
  <2>1. Pick(s) \in s
    BY <1>2 DEF Pick
  <2> QED BY <1>1, <2>1, FS_RemoveElement
<1>3. 0 \in T
  <2>1. \A s \in Small(0) : s = {}
    BY <1>1
  <2>2. Iter([s \in Small(0) |-> base], 0)
    BY <2>1
  <2> QED BY <2>2
<1>4. ASSUME NEW m \in Nat, m \in T PROVE m + 1 \in T
  <2>1. PICK h : Iter(h, m)
    <3> HIDE DEF Iter
    <3> QED BY <1>4
  <2> DEFINE g == [s \in Small(m + 1) |->
                     IF s = {} THEN base ELSE step[Pick(s)][h[s \ {Pick(s)}]]]
  <2>2. \A s \in Small(m) : s \in Small(m + 1) /\ h[s] \in U /\ g[s] = h[s]
    <3>1. SUFFICES ASSUME NEW s \in Small(m) PROVE s \in Small(m + 1) /\ h[s] \in U /\ g[s] = h[s]
      OBVIOUS
    <3>2. s \in Small(m + 1)
      BY <1>1
    <3>3. h[s] \in U /\ h[s] = IF s = {} THEN base ELSE step[Pick(s)][h[s \ {Pick(s)}]]
      BY <2>1
    <3>4. g[s] = IF s = {} THEN base ELSE step[Pick(s)][h[s \ {Pick(s)}]]
      BY <3>2
    <3> HIDE DEF g, Small
    <3> QED BY <3>2, <3>3, <3>4
  <2>3. ASSUME NEW s \in Small(m + 1)
        PROVE  g[s] = (IF s = {} THEN base ELSE step[Pick(s)][g[s \ {Pick(s)}]]) /\ g[s] \in U
    <3>1. CASE s = {}
      BY <3>1
    <3>2. CASE s # {}
      <4>1. s \ {Pick(s)} \in Small(m) /\ Pick(s) \in S
        BY <1>1, <1>2, <3>2
      <4>2. g[s] = step[Pick(s)][h[s \ {Pick(s)}]]
        BY <3>2
      <4> HIDE DEF g, Small, Iter
      <4>3. g[s \ {Pick(s)}] = h[s \ {Pick(s)}] /\ h[s \ {Pick(s)}] \in U
        BY <2>2, <4>1
      <4>4. step[Pick(s)] \in [U -> U]
        BY <4>1
      <4> QED BY <3>2, <4>2, <4>3, <4>4
    <3> QED BY <3>1, <3>2
  <2>4. Iter(g, m + 1)
    <3>1. g \in [Small(m + 1) -> U]
      BY <2>3
    <3> HIDE DEF g, Small
    <3> QED BY <2>3, <3>1
  <2> HIDE DEF Iter, g
  <2> QED BY <2>4
<1>5. Cardinality(S) \in T
  <2> HIDE DEF T
  <2>1. \A m \in Nat : m \in T => m + 1 \in T
    BY <1>4
  <2> QED BY <1>1, <1>3, <2>1, SetInduction
<1>6. PICK h : Iter(h, Cardinality(S))
  <2> HIDE DEF Iter
  <2> QED BY <1>5
<1>7. Small(Cardinality(S)) = SUBSET S
  BY <1>1
<1> HIDE DEF Small
<1> QED BY <1>6, <1>7 DEF IsWalk

\* A finite set of numbers has a largest element.
LEMMA MaxFinite ==
  ASSUME NEW S, IsFiniteSet(S), S \subseteq Nat, S # {}
  PROVE  Max(S) \in S /\ \A x \in S : x <= Max(S)
<1> DEFINE P == {s \in SUBSET S : s = {} \/ \E m \in s : \A y \in s : m >= y}
<1>1. {} \in P
  OBVIOUS
<1>2. ASSUME NEW s \in SUBSET S, s # {}, s \ {Pick(s)} \in P PROVE s \in P
  <2>1. Pick(s) \in s
    BY <1>2 DEF Pick
  <2> DEFINE x == Pick(s)
  <2> HIDE DEF x
  <2>2. CASE s \ {x} = {}
    BY <2>1, <2>2 DEF x
  <2>3. CASE \E m \in s \ {x} : \A y \in s \ {x} : m >= y
    <3>1. PICK m \in s \ {x} : \A y \in s \ {x} : m >= y
      BY <2>3
    <3>2. m \in Nat /\ x \in Nat /\ \A y \in s : y \in Nat
      BY <2>1 DEF x
    <3>3. CASE m >= x
      BY <3>1, <3>3
    <3>4. CASE ~(m >= x)
      <4>1. \A y \in s : x >= y
        BY <3>1, <3>2, <3>4
      <4> QED BY <2>1, <4>1 DEF x
    <3> QED BY <3>3, <3>4
  <2> QED BY <1>2, <2>2, <2>3 DEF x
<1>3. S \in P
  <2> HIDE DEF P
  <2>1. \A s \in SUBSET S : s # {} /\ s \ {Pick(s)} \in P => s \in P
    BY <1>2
  <2> QED BY <1>1, <2>1, PickInduction
<1>4. \E m \in S : \A y \in S : m >= y
  BY <1>3
<1>5. Max(S) \in S /\ \A y \in S : Max(S) >= y
  BY <1>4 DEF Max
<1> QED BY <1>5

-----------------------------------------------------------------------------
LEMMA MinIn ==
  ASSUME NEW s, s \subseteq Nat, s # {}
  PROVE  Min(s) \in s /\ \A y \in s : Min(s) <= y
<1> DEFINE R == OpToRel(<, Nat)
<1>1. PICK x \in s : \A y \in s : ~ (<<y, x>> \in R)
  <2>1. IsWellFoundedOn(R, Nat)
    BY NatLessThanWellFounded
  <2> HIDE DEF R
  <2> QED BY <2>1, WFMin
<1>2. ASSUME NEW y \in s PROVE x <= y
  <2>1. x \in Nat /\ y \in Nat /\ <<y, x>> \notin R
    BY <1>1
  <2>2. ~ (y < x)
    BY <2>1 DEF OpToRel
  <2> HIDE DEF R
  <2> QED BY <2>1, <2>2
<1> QED BY <1>2 DEF Min

LEMMA NodesAndLinks ==
  /\ Cardinality(Nodes) \in Nat
  /\ \A n \in Nodes : Len(Adj[n]) \in Nat /\ DOMAIN Adj[n] = 1 .. Len(Adj[n])
                     /\ \A p \in DOMAIN Adj[n] : Adj[n][p] \in Nodes /\ <<n, p>> \in LinkRelays
  /\ \A r \in LinkRelays : /\ r[1] \in Nodes /\ r[2] \in DOMAIN Adj[r[1]] /\ r = <<r[1], r[2]>>
                           /\ r[2] # 0 /\ r[2] # LocalPort(r[1])
<1>1. Cardinality(Nodes) \in Nat
  BY WiringAssumption, FS_CardinalityType
<1> QED BY <1>1, WiringAssumption DEF LinkRelays, LocalPort

\* The relays of router n that are linked to other routers.
Links(n) == [p \in DOMAIN Adj[n] |-> <<n, p>>]

\* The order in which the routers are visited.
Order == [i \in 1 .. Cardinality(Nodes) |-> i - 1]

\* The visits are the last value of a loop over the routers.
AreVisits(f) ==
    /\ f[{}] = <<>> /\ Visits = f[1 .. Cardinality(Nodes)]
    /\ \A k \in 1 .. Cardinality(Nodes) : f[1 .. k] = f[1 .. (k - 1)] \o Links(Order[k])

LEMMA LinksType == ASSUME NEW i \in 1 .. Cardinality(Nodes) PROVE Links(Order[i]) \in Seq(LinkRelays)
<1>1. Cardinality(Nodes) \in Nat
  BY NodesAndLinks
<1>2. Order[i] \in Nodes
  BY <1>1, WiringAssumption DEF Order
<1> QED BY <1>2, NodesAndLinks DEF Links

LEMMA VisitsLoop == \E f : AreVisits(f)
<1> DEFINE n == Cardinality(Nodes)
           U == Seq(LinkRelays)
           Iter(h) == h = [s \in SUBSET (1 .. n) |-> IF s = {} THEN <<>> ELSE
                             LET x == Max(s) IN h[s \ {x}] \o Links(Order[x])]
           f == CHOOSE h : Iter(h)
           step == [i \in 1 .. n |-> [u \in U |-> u \o Links(Order[i])]]
<1>1. n \in Nat /\ <<>> \in U
  BY NodesAndLinks
<1>2. ASSUME NEW i \in 1 .. n PROVE Links(Order[i]) \in U
  BY LinksType
<1>3. Visits = f[1 .. n]
  BY DEF Visits, Order, FoldLeft, Links, MapThenFoldSet
<1> HIDE DEF n
<1>4. step \in [1 .. n -> [U -> U]]
  BY <1>2
<1>5. PICK h : IsLoop(h, n, U, <<>>, step)
  <2> HIDE DEF U, step, f, Iter
  <2> QED BY <1>1, <1>4, LoopExists
<1>6. Iter(f)
  <2>1. ASSUME NEW s \in SUBSET (1 .. n), s # {}
        PROVE  h[s] = h[s \ {Max(s)}] \o Links(Order[Max(s)])
    <3>1. Max(s) \in 1 .. n /\ h[s \ {Max(s)}] \in U
      BY <1>1, <1>5, <2>1, MaxIn DEF IsLoop
    <3> QED BY <1>5, <2>1, <3>1 DEF IsLoop
  <2>2. Iter(h)
    BY <1>5, <2>1 DEF IsLoop
  <2> HIDE DEF Iter
  <2> QED BY <2>2
<1> HIDE DEF f
<1>7. f[{}] = <<>>
  BY <1>6
<1>8. ASSUME NEW k \in 1 .. n PROVE f[1 .. k] = f[1 .. (k - 1)] \o Links(Order[k])
  <2>1. 1 .. k \in SUBSET (1 .. n) /\ 1 .. k # {} /\ Max(1 .. k) = k
        /\ (1 .. k) \ {k} = 1 .. (k - 1)
    BY <1>1, FirstIndices
  <2> QED BY <1>6, <2>1, Zenon
<1>9. AreVisits(f)
  BY <1>3, <1>7, <1>8, Zenon DEF AreVisits, n
<1> QED BY <1>9

\* Every visit is to a relay of a link.
LEMMA VisitsLinks == Visits \in Seq(LinkRelays)
<1> DEFINE n == Cardinality(Nodes)
           U == Seq(LinkRelays)
<1>1. n \in Nat /\ <<>> \in U
  BY NodesAndLinks
<1>2. PICK f : AreVisits(f)
  BY VisitsLoop
<1>3. f[{}] = <<>> /\ Visits = f[1 .. n] /\ \A k \in 1 .. n : f[1 .. k] = f[1 .. (k - 1)] \o Links(Order[k])
  BY <1>2 DEF AreVisits
<1>4. ASSUME NEW k \in 1 .. n, f[1 .. (k - 1)] \in U PROVE f[1 .. k] \in U
  <2>1. Links(Order[k]) \in U /\ f[1 .. k] = f[1 .. (k - 1)] \o Links(Order[k])
    BY <1>3, LinksType
  <2> QED BY <1>4, <2>1
<1> HIDE DEF U, n
<1> QED BY <1>1, <1>3, <1>4, LoopKeeps DEF U

\* Every relay of a link is visited.
Seen(s, x) == \E k \in 1 .. Len(s) : s[k] = x

LEMMA SeenJoined ==
  ASSUME NEW S, NEW a \in Seq(S), NEW b \in Seq(S), NEW x, Seen(a, x) \/ Seen(b, x)
  PROVE  Seen(a \o b, x)
<1>1. a \o b \in Seq(S) /\ Len(a \o b) = Len(a) + Len(b) /\ Len(a) \in Nat /\ Len(b) \in Nat
  OBVIOUS
<1>2. CASE Seen(a, x)
  <2>1. PICK k \in 1 .. Len(a) : a[k] = x
    BY <1>2 DEF Seen
  <2>2. k \in 1 .. Len(a \o b) /\ (a \o b)[k] = x
    BY <1>1, <2>1
  <2> QED BY <2>2 DEF Seen
<1>3. CASE Seen(b, x)
  <2>1. PICK k \in 1 .. Len(b) : b[k] = x
    BY <1>3 DEF Seen
  <2>2. Len(a) + k \in 1 .. Len(a \o b) /\ (a \o b)[Len(a) + k] = x
    BY <1>1, <2>1
  <2> QED BY <2>2 DEF Seen
<1> QED BY <1>2, <1>3

LEMMA VisitsAll == \A r \in LinkRelays : Seen(Visits, r)
<1> DEFINE n == Cardinality(Nodes)
           U == Seq(LinkRelays)
<1>1. PICK f : AreVisits(f)
  BY VisitsLoop
<1>2. n \in Nat /\ Nodes = 0 .. n - 1
  BY NodesAndLinks, WiringAssumption
<1> DEFINE All(m) == /\ f[1 .. m] \in U
                     /\ \A i \in 1 .. m : \A p \in DOMAIN Adj[i - 1] : Seen(f[1 .. m], <<i - 1, p>>)
           T == {m \in Nat : m <= n => All(m)}
<1>3. 0 \in T
  <2>1. 1 .. 0 = {} /\ f[1 .. 0] = <<>> /\ <<>> \in U
    BY <1>1 DEF AreVisits
  <2>2. All(0)
    <3> HIDE DEF U
    <3> QED BY <2>1
  <2> HIDE DEF All
  <2> QED BY <2>2
<1>4. ASSUME NEW m \in Nat, m \in T PROVE m + 1 \in T
  <2> SUFFICES ASSUME m + 1 <= n PROVE All(m + 1)
    <3> HIDE DEF All
    <3> QED OBVIOUS
  <2>1. All(m) /\ m + 1 \in 1 .. n /\ (m + 1) - 1 = m /\ m \in Nodes
    <3> HIDE DEF All, n
    <3> QED BY <1>2, <1>4
  <2>2. f[1 .. (m + 1)] = f[1 .. m] \o Links(Order[m + 1])
    BY <1>1, <2>1 DEF AreVisits
  <2>3. Links(Order[m + 1]) = Links(m)
    BY <2>1 DEF Order
  <2>4. Links(m) \in U
    BY <2>1, <2>3, LinksType
  <2>5. ASSUME NEW p \in DOMAIN Adj[m] PROVE Seen(Links(m), <<m, p>>)
    <3>1. Links(m)[p] = <<m, p>> /\ p \in 1 .. Len(Links(m))
      <4>1. Adj[m] \in Seq(Nodes)
        BY <2>1, WiringAssumption
      <4>2. DOMAIN Links(m) = DOMAIN Adj[m]
        BY DEF Links
      <4>3. DOMAIN Links(m) = 1 .. Len(Links(m))
        <5> HIDE DEF U
        <5> QED BY <2>4 DEF U
      <4> QED BY <4>2, <4>3 DEF Links
    <3> QED BY <3>1 DEF Seen
  <2>6. f[1 .. (m + 1)] \in U
    <3> DEFINE s == f[1 .. m]
               l == Links(m)
    <3>1. s \in U /\ l \in U
      BY <2>1, <2>4
    <3> HIDE DEF s, l
    <3>2. s \o l \in U
      BY <3>1
    <3> QED BY <2>2, <2>3, <3>2 DEF s, l
  <2>7. ASSUME NEW i \in 1 .. m + 1, NEW p \in DOMAIN Adj[i - 1]
        PROVE  Seen(f[1 .. (m + 1)], <<i - 1, p>>)
    <3>1. CASE i \in 1 .. m
      <4>1. Seen(f[1 .. m], <<i - 1, p>>) /\ f[1 .. m] \in U
        BY <2>1, <3>1
      <4> HIDE DEF All, U
      <4> QED BY <2>2, <2>3, <2>4, <4>1, SeenJoined DEF U
    <3>2. CASE i = m + 1
      <4>1. f[1 .. m] \in U /\ i - 1 = m
        BY <2>1, <3>2
      <4>2. Seen(Links(m), <<i - 1, p>>)
        BY <2>5, <4>1
      <4> HIDE DEF All, U
      <4> QED BY <2>2, <2>3, <2>4, <4>1, <4>2, SeenJoined DEF U
    <3> QED BY <3>1, <3>2
  <2> QED BY <2>6, <2>7
<1>5. n \in T
  <2> HIDE DEF T, n
  <2> QED BY <1>2, <1>3, <1>4, SetInduction
<1>6. Visits = f[1 .. n] /\ All(n)
  BY <1>1, <1>2, <1>5 DEF AreVisits
<1>7. ASSUME NEW r \in LinkRelays PROVE Seen(Visits, r)
  <2>1. r[1] \in Nodes /\ r[2] \in DOMAIN Adj[r[1]] /\ r = <<r[1], r[2]>>
    BY NodesAndLinks
  <2>2. r[1] + 1 \in 1 .. n /\ (r[1] + 1) - 1 = r[1]
    <3> HIDE DEF n
    <3> QED BY <1>2, <2>1
  <2> QED BY <1>6, <2>1, <2>2, Zenon
<1> QED BY <1>7

\* What is bound is bound in pairs, each the relay of a link of the other.
Paired(b) ==
    /\ DOMAIN b \subseteq LinkRelays
    /\ \A r \in DOMAIN b : b[r] \in DOMAIN b /\ b[b[r]] = r /\ b[r][1] = Adj[r[1]][r[2]]

LEMMA BindNextSound ==
  ASSUME NEW b, Paired(b), NEW r \in LinkRelays
  PROVE  Paired(BindNext(b, r))
<1> DEFINE m == Adj[r[1]][r[2]]
           back == {p \in DOMAIN Adj[m] : Adj[m][p] = r[1] /\ <<m, p>> \notin DOMAIN b}
           s == <<m, Min(back)>>
           c == With(With(b, s, r), r, s)
<1>1. CASE r \in DOMAIN b \/ back = {}
  BY <1>1 DEF BindNext
<1>2. CASE ~(r \in DOMAIN b \/ back = {})
  <2>1. m \in Nodes
    BY NodesAndLinks
  <2>2. Min(back) \in back
    <3>1. back \subseteq Nat
      BY <2>1, NodesAndLinks
    <3> HIDE DEF back
    <3> QED BY <1>2, <3>1, MinIn
  <2>3. s \in LinkRelays /\ s \notin DOMAIN b /\ s[1] = m /\ Adj[s[1]][s[2]] = r[1]
    BY <2>1, <2>2, NodesAndLinks
  <2>4. BindNext(b, r) = c
    BY <1>2 DEF BindNext
  <2> HIDE DEF s
  <2>5. DOMAIN c = {r, s} \cup DOMAIN b
    BY DEF With
  <2>6. c[r] = s /\ c[s] = r
    BY DEF With
  <2>7. \A x \in DOMAIN b : x # r /\ x # s /\ c[x] = b[x]
    BY <1>2, <2>3 DEF With
  <2> HIDE DEF c
  <2> QED BY <2>3, <2>4, <2>5, <2>6, <2>7 DEF Paired
<1> QED BY <1>1, <1>2

\* The bindings are the last value of a loop over the visits.
AreBindings(f) ==
    /\ f[{}] = <<>> /\ LinkBindings = f[1 .. Len(Visits)]
    /\ \A k \in 1 .. Len(Visits) : f[1 .. k] = BindNext(f[1 .. (k - 1)], Visits[k])
    /\ \A k \in 0 .. Len(Visits) : Paired(f[1 .. k])

LEMMA BindingsLoop == \E f : AreBindings(f)
<1> DEFINE n == Len(Visits)
           U == {b \in UNION {[D -> LinkRelays] : D \in SUBSET LinkRelays} : Paired(b)}
           Iter(h) == h = [s \in SUBSET (1 .. n) |-> IF s = {} THEN <<>> ELSE
                             LET x == Max(s) IN BindNext(h[s \ {x}], Visits[x])]
           f == CHOOSE h : Iter(h)
           step == [i \in 1 .. n |-> [u \in U |-> BindNext(u, Visits[i])]]
<1>1. n \in Nat /\ DOMAIN Visits = 1 .. n /\ \A k \in 1 .. n : Visits[k] \in LinkRelays
  BY VisitsLinks
<1>2. <<>> \in U
  <2>1. <<>> \in [{} -> LinkRelays]
    OBVIOUS
  <2> QED BY <2>1 DEF Paired
<1>3. ASSUME NEW i \in 1 .. n, NEW u \in U PROVE BindNext(u, Visits[i]) \in U
  <2> DEFINE c == BindNext(u, Visits[i])
  <2>1. Paired(c)
    BY <1>1, BindNextSound
  <2>2. c = [x \in DOMAIN c |-> c[x]]
    BY DEF BindNext, With
  <2> HIDE DEF c
  <2>3. c \in [DOMAIN c -> LinkRelays]
    BY <2>1, <2>2 DEF Paired
  <2> QED BY <2>1, <2>3 DEF c, Paired
<1>4. LinkBindings = f[1 .. n]
  <2> HIDE DEF n
  <2> QED BY <1>1 DEF LinkBindings, FoldLeft, MapThenFoldSet
<1> HIDE DEF n
<1>5. step \in [1 .. n -> [U -> U]]
  BY <1>3
<1>6. PICK h : IsLoop(h, n, U, <<>>, step)
  <2> HIDE DEF U, step, f, Iter
  <2> QED BY <1>1, <1>2, <1>5, LoopExists
<1>7. Iter(f)
  <2>1. ASSUME NEW s \in SUBSET (1 .. n), s # {}
        PROVE  h[s] = BindNext(h[s \ {Max(s)}], Visits[Max(s)])
    <3>1. Max(s) \in 1 .. n /\ h[s \ {Max(s)}] \in U
      BY <1>1, <1>6, <2>1, MaxIn DEF IsLoop
    <3> HIDE DEF U
    <3> QED BY <1>6, <2>1, <3>1 DEF IsLoop
  <2>2. Iter(h)
    <3> HIDE DEF U
    <3> QED BY <1>6, <2>1 DEF IsLoop
  <2> HIDE DEF Iter
  <2> QED BY <2>2
<1> HIDE DEF f
<1>8. f[{}] = <<>>
  BY <1>7
<1>9. ASSUME NEW k \in 1 .. n PROVE f[1 .. k] = BindNext(f[1 .. (k - 1)], Visits[k])
  <2>1. 1 .. k \in SUBSET (1 .. n) /\ 1 .. k # {} /\ Max(1 .. k) = k
        /\ (1 .. k) \ {k} = 1 .. (k - 1)
    BY <1>1, FirstIndices
  <2> QED BY <1>7, <2>1, Zenon
<1>10. ASSUME NEW k \in 0 .. n PROVE Paired(f[1 .. k])
  <2>1. \A i \in 1 .. k : f[1 .. (i - 1)] \in U => f[1 .. i] \in U
    <3> HIDE DEF U
    <3> QED BY <1>1, <1>3, <1>9
  <2>2. k \in Nat
    BY <1>1
  <2> HIDE DEF U
  <2>3. f[1 .. k] \in U
    BY <1>2, <1>8, <2>1, <2>2, LoopKeeps
  <2> QED BY <2>3 DEF U
<1>11. AreBindings(f)
  BY <1>4, <1>8, <1>9, <1>10, Zenon DEF AreBindings, n
<1> QED BY <1>11

\* InitBase binds relays in pairs only.
LEMMA BindingsPaired == Paired(LinkBindings)
<1>1. PICK f : AreBindings(f)
  BY BindingsLoop
<1>2. Len(Visits) \in 0 .. Len(Visits)
  BY VisitsLinks
<1> QED BY <1>1, <1>2 DEF AreBindings

\* The ports of router n that are linked to router m, and graphs in which every two
\* nodes list each other equally often.
Between(n, m) == {p \in DOMAIN Adj[n] : Adj[n][p] = m}
Balanced == \A n \in Nodes, m \in Nodes : Cardinality(Between(n, m)) = Cardinality(Between(m, n))

\* Of these, the ones in a set of relays, the same for each of the two nodes; and
\* relays that are not bound across the border of the set.
On(Side, n, m) == {p \in Between(n, m) : <<n, p>> \in Side}
BalancedOn(Side) ==
    \A n \in Nodes, m \in Nodes : Cardinality(On(Side, n, m)) = Cardinality(On(Side, m, n))
KeptBy(Side, b) == \A r \in DOMAIN b : r \in Side <=> b[r] \in Side

LEMMA BetweenFinite == \A i \in Nodes, j \in Nodes : IsFiniteSet(Between(i, j))
<1> SUFFICES ASSUME NEW i \in Nodes, NEW j \in Nodes PROVE IsFiniteSet(Between(i, j))
  OBVIOUS
<1>1. Len(Adj[i]) \in Int /\ DOMAIN Adj[i] = 1 .. Len(Adj[i])
  BY NodesAndLinks
<1>2. IsFiniteSet(1 .. Len(Adj[i])) /\ Between(i, j) \subseteq 1 .. Len(Adj[i])
  BY <1>1, FS_Interval DEF Between
<1> QED BY <1>2, FS_Subset

\* When all relays of a set that point from m to n are bound, they are bound to as many
\* that point from n to m: there are no more.
LEMMA BoundBothWays ==
  ASSUME NEW Side, BalancedOn(Side), NEW b, Paired(b), KeptBy(Side, b), NEW n \in Nodes, NEW m \in Nodes,
         \A p \in On(Side, m, n) : <<m, p>> \in DOMAIN b
  PROVE  \A p \in On(Side, n, m) : <<n, p>> \in DOMAIN b
<1> DEFINE S == On(Side, m, n)
           T == {p \in On(Side, n, m) : <<n, p>> \in DOMAIN b}
           g == [p \in S |-> b[<<m, p>>][2]]
<1>1. ASSUME NEW p \in S PROVE b[<<m, p>>][2] \in T /\ b[<<n, b[<<m, p>>][2]>>] = <<m, p>>
  <2> DEFINE r == <<m, p>>
  <2>1. r \in DOMAIN b /\ r[1] = m /\ Adj[r[1]][r[2]] = n /\ r \in Side
    BY DEF Between, On
  <2> HIDE DEF r
  <2>2. /\ b[r] \in DOMAIN b /\ b[b[r]] = r /\ b[r][1] = n
        /\ b[b[r]][1] = Adj[b[r][1]][b[r][2]] /\ b[r] \in LinkRelays /\ b[r] \in Side
    BY <2>1 DEF Paired, KeptBy
  <2>3. b[r] = <<n, b[r][2]>> /\ b[r][2] \in DOMAIN Adj[n] /\ Adj[n][b[r][2]] = m
    BY <2>1, <2>2, NodesAndLinks
  <2>4. b[r][2] \in T /\ b[<<n, b[r][2]>>] = r
    BY <2>2, <2>3 DEF Between, On
  <2> QED BY <2>4 DEF r
<1>2. g \in Injection(S, T)
  <2>1. g \in [S -> T]
    BY <1>1
  <2>2. \A p \in S : g[p] = b[<<m, p>>][2]
    OBVIOUS
  <2> HIDE DEF g, S, T
  <2>3. ASSUME NEW p \in S, NEW q \in S, g[p] = g[q] PROVE p = q
    <3>1. <<m, p>> = <<m, q>>
      BY <1>1, <2>2, <2>3
    <3> QED BY <3>1
  <2> QED BY <2>1, <2>3 DEF Injection, IsInjective
<1>3. IsFiniteSet(S) /\ IsFiniteSet(On(Side, n, m))
  <2>1. S \subseteq Between(m, n) /\ On(Side, n, m) \subseteq Between(n, m)
    BY DEF On
  <2> QED BY <2>1, BetweenFinite, FS_Subset
<1>4. IsFiniteSet(T) /\ T \subseteq On(Side, n, m) /\ Cardinality(T) <= Cardinality(On(Side, n, m))
  BY <1>3, FS_Subset
<1>5. Cardinality(S) <= Cardinality(T)
  <2> HIDE DEF S, T, g
  <2> QED BY <1>2, <1>4, FS_Injection
<1>6. Cardinality(S) = Cardinality(On(Side, n, m)) /\ Cardinality(S) \in Nat /\ Cardinality(T) \in Nat
  BY <1>3, <1>4, FS_CardinalityType DEF BalancedOn
<1>7. T = On(Side, n, m)
  <2> HIDE DEF S, T
  <2>1. Cardinality(T) = Cardinality(On(Side, n, m))
    BY <1>4, <1>5, <1>6
  <2> QED BY <1>3, <1>4, <2>1, FS_Subset
<1> QED BY <1>7

LEMMA AllBalanced ==
  ASSUME Balanced
  PROVE  BalancedOn(LinkRelays) /\ \A n \in Nodes, m \in Nodes : On(LinkRelays, n, m) = Between(n, m)
<1>1. ASSUME NEW n \in Nodes, NEW m \in Nodes PROVE On(LinkRelays, n, m) = Between(n, m)
  BY DEF On, Between, LinkRelays
<1> QED BY <1>1 DEF Balanced, BalancedOn

LEMMA BindNextBinds ==
  ASSUME Balanced, NEW b, Paired(b), NEW r \in LinkRelays
  PROVE  r \in DOMAIN BindNext(b, r) /\ DOMAIN b \subseteq DOMAIN BindNext(b, r)
<1> DEFINE m == Adj[r[1]][r[2]]
           back == {p \in DOMAIN Adj[m] : Adj[m][p] = r[1] /\ <<m, p>> \notin DOMAIN b}
           s == <<m, Min(back)>>
<1>1. r[1] \in Nodes /\ m \in Nodes /\ r[2] \in Between(r[1], m) /\ r = <<r[1], r[2]>>
  BY NodesAndLinks DEF Between
<1>2. back = {} => r \in DOMAIN b
  <2> SUFFICES ASSUME back = {} PROVE r \in DOMAIN b
    OBVIOUS
  <2>1. \A p \in Between(m, r[1]) : <<m, p>> \in DOMAIN b
    BY DEF Between
  <2> HIDE DEF m
  <2>2. KeptBy(LinkRelays, b)
    BY DEF Paired, KeptBy
  <2> QED BY <1>1, <2>1, <2>2, AllBalanced, BoundBothWays
<1>3. CASE r \in DOMAIN b \/ back = {}
  BY <1>2, <1>3 DEF BindNext
<1>4. CASE ~(r \in DOMAIN b \/ back = {})
  <2>1. BindNext(b, r) = With(With(b, s, r), r, s)
    BY <1>4 DEF BindNext
  <2> HIDE DEF s
  <2> QED BY <2>1 DEF With
<1> QED BY <1>3, <1>4

(***************************************************************************)
(* InitBase leaves no relay of a link unbound if every two nodes list each *)
(* other equally often, as the graphs of the undirected topologies do.     *)
(***************************************************************************)
THEOREM BoundComplete == ASSUME Balanced PROVE LinkRelays \subseteq DOMAIN LinkBindings
<1> DEFINE n == Len(Visits)
<1>1. PICK f : AreBindings(f)
  BY BindingsLoop
<1>2. n \in Nat /\ \A k \in 1 .. n : Visits[k] \in LinkRelays
  BY VisitsLinks
<1> DEFINE All(m) == \A k \in 1 .. m : Visits[k] \in DOMAIN f[1 .. m]
           T == {m \in Nat : m <= n => All(m)}
<1>3. 0 \in T
  BY 1 .. 0 = {}
<1>4. ASSUME NEW m \in Nat, m \in T PROVE m + 1 \in T
  <2> SUFFICES ASSUME m + 1 <= n PROVE All(m + 1)
    <3> HIDE DEF All
    <3> QED OBVIOUS
  <2>1. All(m) /\ m + 1 \in 1 .. n /\ (m + 1) - 1 = m /\ m \in 0 .. n
    <3> HIDE DEF All, n
    <3> QED BY <1>2, <1>4
  <2>2. Paired(f[1 .. m]) /\ f[1 .. (m + 1)] = BindNext(f[1 .. m], Visits[m + 1])
    BY <1>1, <2>1 DEF AreBindings
  <2>3. Visits[m + 1] \in DOMAIN f[1 .. (m + 1)] /\ DOMAIN f[1 .. m] \subseteq DOMAIN f[1 .. (m + 1)]
    BY <1>2, <2>1, <2>2, BindNextBinds
  <2>4. \A k \in 1 .. m + 1 : k \in 1 .. m \/ k = m + 1
    OBVIOUS
  <2> QED BY <2>1, <2>3, <2>4
<1>5. All(n)
  <2>1. n \in T
    <3> HIDE DEF T, n
    <3> QED BY <1>2, <1>3, <1>4, SetInduction
  <2> HIDE DEF All
  <2> QED BY <1>2, <2>1
<1>6. LinkBindings = f[1 .. n]
  BY <1>1 DEF AreBindings
<1> QED BY <1>5, <1>6, VisitsAll DEF Seen

\* The relays of a router are visited in the order of their ports.
InOrder(s) == \A k \in 1 .. Len(s) : \A q \in 1 .. s[k][2] - 1 : \E i \in 1 .. k - 1 : s[i] = <<s[k][1], q>>

LEMMA OrderJoined ==
  ASSUME NEW a \in Seq(LinkRelays), NEW b \in Seq(LinkRelays), InOrder(a), InOrder(b)
  PROVE  InOrder(a \o b)
<1> DEFINE c == a \o b
           l == Len(a)
<1>1. /\ Len(c) = l + Len(b) /\ l \in Nat /\ Len(b) \in Nat
      /\ \A k \in 1 .. l : c[k] = a[k]
      /\ \A k \in 1 .. Len(b) : c[l + k] = b[k]
  <2>1. Len(a \o b) = Len(a) + Len(b) /\ Len(a) \in Nat /\ Len(b) \in Nat
    OBVIOUS
  <2>2. ASSUME NEW k \in 1 .. Len(a) PROVE (a \o b)[k] = a[k]
    BY <2>1
  <2>3. ASSUME NEW k \in 1 .. Len(b) PROVE (a \o b)[Len(a) + k] = b[k]
    BY <2>1
  <2> QED BY <2>1, <2>2, <2>3
<1> HIDE DEF c, l
<1> SUFFICES ASSUME NEW k \in 1 .. Len(c), NEW q \in 1 .. c[k][2] - 1
             PROVE  \E i \in 1 .. k - 1 : c[i] = <<c[k][1], q>>
  BY DEF InOrder, c
<1>2. CASE k \in 1 .. l
  <2>1. PICK i \in 1 .. k - 1 : a[i] = <<a[k][1], q>>
    BY <1>1, <1>2 DEF InOrder, l
  <2>2. i \in 1 .. l
    BY <1>1, <1>2
  <2> QED BY <1>1, <1>2, <2>1, <2>2
<1>3. CASE k \notin 1 .. l
  <2>1. k - l \in 1 .. Len(b) /\ c[k] = b[k - l]
    <3>1. k - l \in 1 .. Len(b) /\ l + (k - l) = k
      BY <1>1, <1>3
    <3> QED BY <1>1, <3>1
  <2>2. PICK i \in 1 .. (k - l) - 1 : b[i] = <<b[k - l][1], q>>
    BY <2>1 DEF InOrder
  <2>3. i \in 1 .. Len(b) /\ l + i \in 1 .. k - 1
    BY <1>1, <2>1
  <2> QED BY <1>1, <2>1, <2>2, <2>3
<1> QED BY <1>2, <1>3

LEMMA VisitsInOrder == InOrder(Visits)
<1> DEFINE n == Cardinality(Nodes)
           U == {s \in Seq(LinkRelays) : InOrder(s)}
<1>1. n \in Nat
  BY NodesAndLinks
<1>2. <<>> \in U
  <2>1. 1 .. Len(<<>>) = {}
    OBVIOUS
  <2> QED BY <2>1 DEF InOrder
<1>3. PICK f : AreVisits(f)
  BY VisitsLoop
<1>4. f[{}] = <<>> /\ Visits = f[1 .. n] /\ \A k \in 1 .. n : f[1 .. k] = f[1 .. (k - 1)] \o Links(Order[k])
  BY <1>3 DEF AreVisits
<1>5. ASSUME NEW k \in 1 .. n PROVE Links(Order[k]) \in U
  <2> DEFINE m == Order[k]
             s == Links(m)
  <2>1. s \in Seq(LinkRelays)
    BY LinksType
  <2>2. DOMAIN s = 1 .. Len(s) /\ Len(s) \in Nat
    BY <2>1
  <2>3. \A i \in DOMAIN s : s[i] = <<m, i>>
    BY DEF Links
  <2> HIDE DEF s, m
  <2>4. InOrder(s)
    <3> SUFFICES ASSUME NEW i \in 1 .. Len(s), NEW q \in 1 .. s[i][2] - 1
                 PROVE  \E j \in 1 .. i - 1 : s[j] = <<s[i][1], q>>
      BY DEF InOrder
    <3>1. s[i] = <<m, i>>
      BY <2>2, <2>3
    <3>2. q \in 1 .. i - 1 /\ q \in 1 .. Len(s)
      BY <2>2, <3>1
    <3> QED BY <2>2, <2>3, <3>1, <3>2
  <2> QED BY <2>1, <2>4 DEF s, m
<1>6. ASSUME NEW k \in 1 .. n, f[1 .. (k - 1)] \in U PROVE f[1 .. k] \in U
  <2>1. Links(Order[k]) \in U /\ f[1 .. k] = f[1 .. (k - 1)] \o Links(Order[k])
    BY <1>4, <1>5
  <2>2. f[1 .. (k - 1)] \o Links(Order[k]) \in Seq(LinkRelays)
    BY <1>6, <2>1
  <2> QED BY <1>6, <2>1, <2>2, OrderJoined
<1> HIDE DEF U, n
<1>7. Visits \in U
  BY <1>1, <1>2, <1>4, <1>6, LoopKeeps
<1> QED BY <1>7 DEF U

\* A set of relays that is the front part of the ports of each router.
IsFront(Side) ==
    \A n \in Nodes : \A p \in DOMAIN Adj[n] : \A q \in 1 .. p : <<n, p>> \in Side => <<n, q>> \in Side

LEMMA BindNextApart ==
  ASSUME NEW Side, BalancedOn(Side), IsFront(Side), NEW b, Paired(b), KeptBy(Side, b), NEW r \in LinkRelays,
         \A q \in 1 .. r[2] - 1 : <<r[1], q>> \in DOMAIN b
  PROVE  KeptBy(Side, BindNext(b, r))
<1> DEFINE n == r[1]
           m == Adj[r[1]][r[2]]
           back == {p \in DOMAIN Adj[m] : Adj[m][p] = r[1] /\ <<m, p>> \notin DOMAIN b}
           first == Min(back)
           s == <<m, first>>
           c == With(With(b, s, r), r, s)
<1>1. CASE r \in DOMAIN b \/ back = {}
  BY <1>1 DEF BindNext
<1>2. CASE ~(r \in DOMAIN b \/ back = {})
  <2>1. /\ n \in Nodes /\ m \in Nodes /\ r = <<n, r[2]>> /\ r[2] \in Between(n, m)
        /\ DOMAIN Adj[m] \subseteq Nat \ {0} /\ r[2] \in Nat \ {0} /\ r[2] \in DOMAIN Adj[n]
    BY NodesAndLinks DEF Between
  <2>2. first \in back /\ \A p \in back : first <= p
    <3>1. back \subseteq Nat
      BY <2>1
    <3> HIDE DEF back
    <3> QED BY <1>2, <3>1, MinIn
  <2>3. s \in LinkRelays /\ s \notin DOMAIN b /\ first \in DOMAIN Adj[m] /\ first \in Between(m, n)
    BY <2>1, <2>2, NodesAndLinks DEF Between
  <2>4. BindNext(b, r) = c
    BY <1>2 DEF BindNext
  <2>5. r \in Side <=> s \in Side
    <3>1. ASSUME r \in Side PROVE s \in Side
      <4>1. r[2] \in On(Side, n, m)
        BY <2>1, <3>1 DEF On
      <4>2. PICK p \in On(Side, m, n) : <<m, p>> \notin DOMAIN b
        <5> HIDE DEF m, n
        <5> QED BY <1>2, <2>1, <4>1, BoundBothWays
      <4>3. p \in back /\ <<m, p>> \in Side /\ p \in DOMAIN Adj[m]
        BY <4>2 DEF On, Between
      <4>4. first \in 1 .. p
        <5> HIDE DEF first, back
        <5> QED BY <2>1, <2>2, <2>3, <4>3
      <4> HIDE DEF first
      <4> QED BY <2>1, <4>3, <4>4 DEF IsFront
    <3>2. ASSUME s \in Side PROVE r \in Side
      <4> SUFFICES ASSUME r \notin Side PROVE FALSE
        OBVIOUS
      <4>1. ASSUME NEW q \in On(Side, n, m) PROVE <<n, q>> \in DOMAIN b
        <5>1. q \in DOMAIN Adj[n] /\ <<n, q>> \in Side /\ q \in Nat \ {0}
          BY <2>1, NodesAndLinks DEF On, Between
        <5>2. ~(r[2] \in 1 .. q)
          <6> HIDE DEF n
          <6> QED BY <2>1, <5>1 DEF IsFront
        <5> HIDE DEF n
        <5> QED BY <2>1, <5>1, <5>2 DEF n
      <4>2. \A p \in On(Side, m, n) : <<m, p>> \in DOMAIN b
        <5> HIDE DEF m, n
        <5> QED BY <2>1, <4>1, BoundBothWays
      <4>3. first \in On(Side, m, n)
        <5> HIDE DEF first
        <5> QED BY <2>3, <3>2 DEF On
      <4> QED BY <2>3, <4>2, <4>3
    <3> QED BY <3>1, <3>2
  <2> HIDE DEF s
  <2>6. DOMAIN c = {r, s} \cup DOMAIN b
    BY DEF With
  <2>7. c[r] = s /\ c[s] = r
    BY DEF With
  <2>8. \A x \in DOMAIN b : x # r /\ x # s /\ c[x] = b[x]
    BY <1>2, <2>3 DEF With
  <2> HIDE DEF c
  <2> QED BY <2>4, <2>5, <2>6, <2>7, <2>8 DEF KeptBy
<1> QED BY <1>1, <1>2

(***************************************************************************)
(* Where the links of one graph are listed before those of another, the    *)
(* relays of the one are bound to relays of the one, those of the other to *)
(* those of the other (Network::InitBase, for a physical subnetwork).      *)
(***************************************************************************)
THEOREM BoundApart ==
  ASSUME Balanced, NEW Side, BalancedOn(Side), IsFront(Side)
  PROVE  KeptBy(Side, LinkBindings)
<1> DEFINE n == Len(Visits)
<1>1. PICK f : AreBindings(f)
  BY BindingsLoop
<1>2. n \in Nat /\ \A k \in 1 .. n : Visits[k] \in LinkRelays
  BY VisitsLinks
<1> DEFINE All(m) == KeptBy(Side, f[1 .. m]) /\ \A k \in 1 .. m : Visits[k] \in DOMAIN f[1 .. m]
           T == {m \in Nat : m <= n => All(m)}
<1>3. 0 \in T
  <2>1. 1 .. 0 = {} /\ f[1 .. 0] = <<>> /\ DOMAIN f[1 .. 0] = {}
    BY <1>1 DEF AreBindings
  <2>2. All(0)
    BY <2>1 DEF KeptBy
  <2> HIDE DEF All
  <2> QED BY <2>2
<1>4. ASSUME NEW m \in Nat, m \in T PROVE m + 1 \in T
  <2> SUFFICES ASSUME m + 1 <= n PROVE All(m + 1)
    <3> HIDE DEF All
    <3> QED OBVIOUS
  <2>1. All(m) /\ m + 1 \in 1 .. n /\ (m + 1) - 1 = m /\ m \in 0 .. n
    <3> HIDE DEF All, n
    <3> QED BY <1>2, <1>4
  <2>2. Paired(f[1 .. m]) /\ f[1 .. (m + 1)] = BindNext(f[1 .. m], Visits[m + 1])
    BY <1>1, <2>1 DEF AreBindings
  <2>3. Visits[m + 1] \in DOMAIN f[1 .. (m + 1)] /\ DOMAIN f[1 .. m] \subseteq DOMAIN f[1 .. (m + 1)]
    BY <1>2, <2>1, <2>2, BindNextBinds
  <2>4. \A k \in 1 .. m + 1 : k \in 1 .. m \/ k = m + 1
    OBVIOUS
  <2>5. \A q \in 1 .. Visits[m + 1][2] - 1 : <<Visits[m + 1][1], q>> \in DOMAIN f[1 .. m]
    <3> SUFFICES ASSUME NEW q \in 1 .. Visits[m + 1][2] - 1
                 PROVE  <<Visits[m + 1][1], q>> \in DOMAIN f[1 .. m]
      OBVIOUS
    <3>1. PICK i \in 1 .. (m + 1) - 1 : Visits[i] = <<Visits[m + 1][1], q>>
      <4> HIDE DEF All
      <4> QED BY <2>1, VisitsInOrder DEF InOrder
    <3> QED BY <2>1, <3>1
  <2>6. KeptBy(Side, f[1 .. (m + 1)])
    <3>1. Visits[m + 1] \in LinkRelays
      BY <1>2, <2>1
    <3> QED BY <2>1, <2>2, <2>5, <3>1, BindNextApart
  <2> QED BY <2>1, <2>3, <2>4, <2>6
<1>5. All(n)
  <2>1. n \in T
    <3> HIDE DEF T, n
    <3> QED BY <1>2, <1>3, <1>4, SetInduction
  <2> HIDE DEF All
  <2> QED BY <1>2, <2>1
<1>6. LinkBindings = f[1 .. n]
  BY <1>1 DEF AreBindings
<1> QED BY <1>5, <1>6

(***************************************************************************)
(* InitBase binds relays in pairs: if it leaves no relay of a link unbound,*)
(* every relay is bound to a relay that is bound to it, the relays of links*)
(* to relays of the neighbour, those of routers and their processors to    *)
(* each other.                                                             *)
(***************************************************************************)
THEOREM BoundSymmetric ==
  ASSUME LinkRelays \subseteq DOMAIN LinkBindings
  PROVE  \A r \in Relays :
            /\ Bound[r] \in Relays /\ Bound[Bound[r]] = r
            /\ r \in LinkRelays => Bound[r] \in LinkRelays /\ Bound[r][1] = Adj[r[1]][r[2]]
<1>1. Paired(LinkBindings)
  BY BindingsPaired
<1>2. ASSUME NEW r \in LinkRelays
      PROVE  /\ r \in Relays /\ Bound[r] = LinkBindings[r] /\ Bound[r] \in LinkRelays
             /\ Bound[r][1] = Adj[r[1]][r[2]] /\ LinkBindings[LinkBindings[r]] = r
  BY <1>1, NodesAndLinks DEF Bound, Relays, Paired
<1>3. ASSUME NEW r \in LinkRelays PROVE Bound[Bound[r]] = r
  BY <1>2
<1>4. ASSUME NEW n \in Nodes
      PROVE  /\ <<n, 0>> \in Relays /\ <<n, LocalPort(n)>> \in Relays
             /\ Bound[<<n, 0>>] = <<n, LocalPort(n)>> /\ Bound[<<n, LocalPort(n)>>] = <<n, 0>>
             /\ <<n, 0>> \notin LinkRelays /\ <<n, LocalPort(n)>> \notin LinkRelays
  <2>1. LocalPort(n) \in Nat /\ LocalPort(n) # 0
    BY NodesAndLinks DEF LocalPort
  <2> QED BY <2>1, NodesAndLinks DEF Bound, Relays
<1>5. ASSUME NEW r \in Relays
      PROVE  /\ Bound[r] \in Relays /\ Bound[Bound[r]] = r
             /\ r \in LinkRelays => Bound[r] \in LinkRelays /\ Bound[r][1] = Adj[r[1]][r[2]]
  <2>1. CASE r \in LinkRelays
    BY <1>2, <1>3, <2>1
  <2>2. CASE r \notin LinkRelays
    <3>1. PICK n \in Nodes : r = <<n, LocalPort(n)>> \/ r = <<n, 0>>
      BY <2>2 DEF Relays
    <3> QED BY <1>4, <2>2, <3>1
  <2> QED BY <2>1, <2>2
<1> QED BY <1>5
=============================================================================
