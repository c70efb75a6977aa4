---------------------------- MODULE GraphProofs -----------------------------
(***************************************************************************)
(* What the algorithms on graphs compute, for every connected graph.       *)
(*                                                                         *)
(* Dijkstra's loop finds the distances (DijkstraDistances): an invariant   *)
(* of its rounds says what is settled.  The lists of paths made from them  *)
(* are all the shortest paths (ShortestPaths).  A tree is told by its      *)
(* links: it has as few as reach every node (IsTree), which linking one    *)
(* more node keeps (LinkTree); the searches and the orders in which        *)
(* Graph::subgraph links the nodes keep it too, each with its own          *)
(* invariant.  In a tree every node but the root has one link that leads   *)
(* up, and none leads to a node that is as far (TreeLevels).               *)
(***************************************************************************)
EXTENDS Subtrees, FiniteSetTheorems, TLAPS

\* What is proved about loops and counting in Wiring.
LP == INSTANCE WiringProofs WITH Adj <- <<>>

\* The lemmas about loops hold for any graph, so for one without nodes.
LEMMA NoGraph == LP!WiringAssumption /\ \A S : LP!Max(S) = Max(S) /\ LP!Min(S) = Min(S)
<1>1. LP!Nodes = {}
  BY DEF LP!Nodes
<1>2. LP!IsFiniteSet({}) /\ LP!Cardinality({}) = 0
  <2>1. \A S : LP!IsFiniteSet(S) = IsFiniteSet(S) /\ LP!Cardinality(S) = Cardinality(S)
    BY Zenon DEF LP!IsFiniteSet, IsFiniteSet, LP!Cardinality, Cardinality
  <2> QED BY <2>1, FS_EmptySet
<1>3. LP!WiringAssumption
  BY <1>1, <1>2 DEF LP!WiringAssumption
<1>4. \A S : LP!Max(S) = Max(S) /\ LP!Min(S) = Min(S)
  BY Zenon DEF LP!Max, Max, LP!Min, Min
<1> QED BY <1>3, <1>4

\* A graph whose nodes list each other equally often: an undirected one, whose links
\* may have several channels.
IsGraph(g) ==
    /\ IsFiniteSet(DOMAIN g) /\ DOMAIN g = 0 .. Cardinality(DOMAIN g) - 1
    /\ \A n \in DOMAIN g : g[n] \in Seq(DOMAIN g)
    /\ \A n \in DOMAIN g, m \in DOMAIN g :
          Cardinality(LinksTo(g, n, m)) = Cardinality(LinksTo(g, m, n))
-----------------------------------------------------------------------------
\* Sets that grow or shrink step by step until they do not change: k[A] is what
\* becomes of A.
IsIteration(k, S, step) ==
    k = [A \in SUBSET S |-> IF step[A] = A THEN A ELSE k[step[A]]]

IsMonotone(step, S) == \A A \in SUBSET S : \A B \in SUBSET S : A \subseteq B => step[A] \subseteq step[B]

\* A set that grows becomes the least set that it is part of and that does not grow.
LEMMA GrowingExists ==
  ASSUME NEW S, NEW step \in [SUBSET S -> SUBSET S], IsMonotone(step, S),
         \A A \in SUBSET S : A \subseteq step[A]
  PROVE  \E k : IsIteration(k, S, step)
<1> DEFINE Closed(A, B) == A \subseteq B /\ step[B] = B
           k == [A \in SUBSET S |-> {x \in S : \A B \in SUBSET S : Closed(A, B) => x \in B}]
<1>1. ASSUME NEW A \in SUBSET S PROVE k[A] = IF step[A] = A THEN A ELSE k[step[A]]
  <2>1. CASE step[A] = A
    <3>1. \A x \in S : (\A B \in SUBSET S : Closed(A, B) => x \in B) <=> x \in A
      BY <2>1
    <3> QED BY <2>1, <3>1
  <2>2. CASE step[A] # A
    <3>1. ASSUME NEW B \in SUBSET S PROVE Closed(A, B) <=> Closed(step[A], B)
      <4>1. A \subseteq step[A]
        OBVIOUS
      <4>2. Closed(A, B) => step[A] \subseteq step[B]
        BY DEF IsMonotone
      <4> QED BY <4>1, <4>2
    <3>2. step[A] \in SUBSET S
      OBVIOUS
    <3> HIDE DEF Closed
    <3>3. k[A] = k[step[A]]
      BY <3>1, <3>2
    <3> QED BY <2>2, <3>3
  <2> QED BY <2>1, <2>2
<1>2. k = [A \in SUBSET S |-> IF step[A] = A THEN A ELSE k[step[A]]]
  <2>1. k = [A \in SUBSET S |-> k[A]]
    OBVIOUS
  <2> HIDE DEF k
  <2> QED BY <1>1, <2>1, Zenon
<1> HIDE DEF k
<1> QED BY <1>2 DEF IsIteration

\* A set that shrinks becomes the greatest part of it that does not shrink.
LEMMA ShrinkingExists ==
  ASSUME NEW S, NEW step \in [SUBSET S -> SUBSET S], IsMonotone(step, S),
         \A A \in SUBSET S : step[A] \subseteq A
  PROVE  \E k : IsIteration(k, S, step)
<1> DEFINE Part(A, B) == B \subseteq A /\ step[B] = B
           k == [A \in SUBSET S |-> {x \in S : \E B \in SUBSET S : Part(A, B) /\ x \in B}]
<1>1. ASSUME NEW A \in SUBSET S PROVE k[A] = IF step[A] = A THEN A ELSE k[step[A]]
  <2>1. CASE step[A] = A
    <3>1. \A x \in S : (\E B \in SUBSET S : Part(A, B) /\ x \in B) <=> x \in A
      BY <2>1
    <3> QED BY <2>1, <3>1
  <2>2. CASE step[A] # A
    <3>1. ASSUME NEW B \in SUBSET S PROVE Part(A, B) <=> Part(step[A], B)
      <4>1. step[A] \subseteq A
        OBVIOUS
      <4>2. Part(A, B) => step[B] \subseteq step[A]
        BY DEF IsMonotone
      <4> QED BY <4>1, <4>2
    <3>2. step[A] \in SUBSET S
      OBVIOUS
    <3> HIDE DEF Part
    <3>3. k[A] = k[step[A]]
      BY <3>1, <3>2
    <3> QED BY <2>2, <3>3
  <2> QED BY <2>1, <2>2
<1>2. k = [A \in SUBSET S |-> IF step[A] = A THEN A ELSE k[step[A]]]
  <2>1. k = [A \in SUBSET S |-> k[A]]
    OBVIOUS
  <2> HIDE DEF k
  <2> QED BY <1>1, <2>1, Zenon
<1> HIDE DEF k
<1> QED BY <1>2 DEF IsIteration
-----------------------------------------------------------------------------
\* Dijkstra's algorithm finds the distances.

States(g) == [visited : SUBSET DOMAIN g, weights : [DOMAIN g -> Nat]]
Started(g, i) == [visited |-> {}, weights |-> [j \in DOMAIN g |-> IF j = i THEN 0 ELSE Inf]]
Round(g, s) == IF Nearest(g, s) = {} THEN s ELSE Relax(g, s, CHOOSE j \in Nearest(g, s) : TRUE)

\* f gives what the rounds make of the start: f[1 .. k] after k of them.
AreRounds(f, g, i) ==
    /\ f[{}] = Started(g, i)
    /\ \A k \in 1 .. Cardinality(DOMAIN g) : f[1 .. k] = Round(g, f[1 .. (k - 1)])
    /\ Weights(g, i) = f[1 .. Cardinality(DOMAIN g)].weights

LEMMA RoundType ==
  ASSUME NEW g, NEW s \in States(g)
  PROVE  Round(g, s) \in States(g)
<1>1. CASE Nearest(g, s) = {}
  BY <1>1 DEF Round
<1>2. CASE Nearest(g, s) # {}
  <2> DEFINE index == CHOOSE j \in Nearest(g, s) : TRUE
  <2>1. index \in Nearest(g, s)
    BY <1>2
  <2> HIDE DEF index
  <2>2. index \in DOMAIN g
    BY <2>1 DEF Nearest
  <2>3. Relax(g, s, index) \in States(g)
    BY <2>2 DEF Relax, States
  <2> QED BY <1>2, <2>3 DEF Round, index
<1> QED BY <1>1, <1>2

LEMMA RoundsExist ==
  ASSUME NEW g, IsGraph(g), NEW i \in DOMAIN g
  PROVE  \E f : AreRounds(f, g, i)
<1> DEFINE n == Cardinality(DOMAIN g)
           U == States(g)
           start == Started(g, i)
           Iter(H) == H = [s \in SUBSET (1 .. n) |-> IF s = {} THEN start ELSE
                             LET x == Max(s) IN Round(g, H[s \ {x}])]
           f == CHOOSE H : Iter(H)
           step == [k \in 1 .. n |-> [u \in U |-> Round(g, u)]]
<1>1. n \in Nat /\ start \in U
  BY FS_CardinalityType DEF IsGraph, Started, States, Inf
<1>2. Weights(g, i) = f[1 .. n].weights
  BY DEF Weights, FoldLeft, MapThenFoldSet, Round, Started
<1> HIDE DEF n, start, U
<1>3. step \in [1 .. n -> [U -> U]]
  BY RoundType DEF U
<1>4. PICK H : LP!IsLoop(H, n, U, start, step)
  <2> HIDE DEF step, f, Iter
  <2> QED BY <1>1, <1>3, NoGraph, LP!LoopExists
<1>5. Iter(f)
  <2>1. ASSUME NEW s \in SUBSET (1 .. n), s # {}
        PROVE  H[s] = Round(g, H[s \ {Max(s)}])
    <3>1. Max(s) \in 1 .. n /\ H[s \ {Max(s)}] \in U
      <4>1. Max(s) \in s
        BY <1>1, <2>1, NoGraph, LP!MaxIn
      <4> QED BY <1>4, <4>1 DEF LP!IsLoop
    <3> QED BY <1>4, <2>1, <3>1, NoGraph DEF LP!IsLoop
  <2>2. H = [s \in SUBSET (1 .. n) |-> H[s]] /\ H[{}] = start
    BY <1>4 DEF LP!IsLoop
  <2>3. Iter(H)
    BY <2>1, <2>2
  <2> HIDE DEF Iter
  <2> QED BY <2>3
<1> HIDE DEF f
<1>6. f[{}] = start
  BY <1>5
<1>7. ASSUME NEW k \in 1 .. n PROVE f[1 .. k] = Round(g, f[1 .. (k - 1)])
  <2>1. 1 .. k \in SUBSET (1 .. n) /\ 1 .. k # {} /\ Max(1 .. k) = k
        /\ (1 .. k) \ {k} = 1 .. (k - 1)
    BY <1>1, NoGraph, LP!FirstIndices
  <2> QED BY <1>5, <2>1, Zenon
<1>8. AreRounds(f, g, i)
  BY <1>2, <1>6, <1>7, Zenon DEF AreRounds, n, start
<1> QED BY <1>8

\* The nodes that are reached and not visited.
Open(g, s) == {j \in DOMAIN g : j \notin s.visited /\ s.weights[j] < Inf}

LEMMA NearestFound ==
  ASSUME NEW g, IsGraph(g), NEW s \in States(g), Open(g, s) # {}
  PROVE  Nearest(g, s) # {}
<1> DEFINE W == {s.weights[j] : j \in Open(g, s)}
           J == {j \in Open(g, s) : s.weights[j] = Min(W)}
<1>1. Open(g, s) \subseteq Nat /\ W \subseteq Nat /\ W # {}
  <2>1. DOMAIN g \subseteq Nat
    BY FS_CardinalityType DEF IsGraph
  <2>2. Open(g, s) \subseteq DOMAIN g /\ s.weights \in [DOMAIN g -> Nat]
    BY DEF States, Open
  <2> QED BY <2>1, <2>2
<1>2. Min(W) \in W /\ \A y \in W : Min(W) <= y
  <2> HIDE DEF W
  <2> QED BY <1>1, NoGraph, LP!MinIn
<1>3. J # {} /\ J \subseteq Nat
  BY <1>1, <1>2
<1>4. Min(J) \in J /\ \A y \in J : Min(J) <= y
  <2> HIDE DEF J
  <2> QED BY <1>3, NoGraph, LP!MinIn
<1> DEFINE j == Min(J)
<1>5. \A k \in Open(g, s) : s.weights[j] < s.weights[k] \/ (s.weights[j] = s.weights[k] /\ j <= k)
  <2> SUFFICES ASSUME NEW k \in Open(g, s)
               PROVE  s.weights[j] < s.weights[k] \/ (s.weights[j] = s.weights[k] /\ j <= k)
    OBVIOUS
  <2>1. j \in J /\ \A y \in J : j <= y
    BY <1>4
  <2> HIDE DEF j
  <2>2. s.weights[j] = Min(W) /\ s.weights[k] \in W
    BY <2>1
  <2>3. s.weights[j] \in Nat /\ s.weights[k] \in Nat /\ s.weights[j] <= s.weights[k]
    BY <1>1, <1>2, <2>2
  <2>4. s.weights[k] = s.weights[j] => j <= k
    BY <2>1, <2>2
  <2> QED BY <2>3, <2>4
<1>6. j \in Open(g, s)
  BY <1>4
<1> HIDE DEF j
<1> QED BY <1>5, <1>6 DEF Nearest, Open

\* What holds after every round: the visited nodes are the nearest ones, their links
\* have been looked at, every node that is reached is reached from one of them.
Settled(g, i, s) ==
    LET w == s.weights
    IN  /\ s \in States(g) /\ w[i] = 0
        /\ \A n \in DOMAIN g : w[n] <= Cardinality(s.visited) \/ w[n] = Inf
        /\ \A v \in s.visited : w[v] < Inf /\ \A u \in DOMAIN g \ s.visited : w[v] <= w[u]
        /\ \A v \in s.visited : \A u \in Range(g[v]) : w[u] <= w[v] + 1
        /\ \A n \in DOMAIN g \ {i} :
              w[n] < Inf => \E m \in s.visited : n \in Range(g[m]) /\ w[n] = w[m] + 1

LEMMA InfNat == Inf \in Nat /\ Inf > 0
BY SMT DEF Inf

LEMMA StartSettled ==
  ASSUME NEW g, IsGraph(g), NEW i \in DOMAIN g
  PROVE  Settled(g, i, Started(g, i))
BY FS_EmptySet, InfNat DEF Settled, Started, States

LEMMA RelaxKeeps ==
  ASSUME NEW g, IsGraph(g), Cardinality(DOMAIN g) < Inf, NEW i \in DOMAIN g,
         NEW s, Settled(g, i, s), NEW index \in Nearest(g, s)
  PROVE  /\ Settled(g, i, Relax(g, s, index))
         /\ Cardinality(Relax(g, s, index).visited) = Cardinality(s.visited) + 1
<1> DEFINE w == s.weights
           t == Relax(g, s, index)
           x == t.weights
           c == Cardinality(s.visited)
<1>1. s.visited \in SUBSET DOMAIN g /\ w \in [DOMAIN g -> Nat] /\ s \in States(g) /\ Inf \in Nat
  BY InfNat DEF Settled, States
<1>2. /\ index \in DOMAIN g /\ index \notin s.visited /\ w[index] < Inf
      /\ \A u \in DOMAIN g : u \notin s.visited => w[index] <= w[u]
  <2>1. /\ index \in DOMAIN g /\ index \notin s.visited /\ w[index] < Inf
        /\ \A u \in DOMAIN g : u \notin s.visited /\ w[u] < Inf => w[index] < w[u] \/ w[index] = w[u]
    BY DEF Nearest
  <2> HIDE DEF w
  <2> QED BY <1>1, <2>1
<1>3. IsFiniteSet(s.visited) /\ c \in Nat /\ c + 1 < Inf + 1 /\ Cardinality(s.visited \cup {index}) = c + 1
  <2>1. IsFiniteSet(DOMAIN g)
    BY DEF IsGraph
  <2>2. IsFiniteSet(s.visited) /\ c <= Cardinality(DOMAIN g)
    BY <1>1, <2>1, FS_Subset
  <2>3. c \in Nat /\ Cardinality(DOMAIN g) \in Nat /\ Cardinality(s.visited \cup {index}) = c + 1
    BY <1>2, <2>1, <2>2, FS_CardinalityType, FS_AddElement
  <2> QED BY <1>1, <2>2, <2>3
<1>4. t.visited = s.visited \cup {index}
  BY DEF Relax
<1>5. \A id \in DOMAIN g : x[id] = IF id \in Range(g[index]) /\ w[index] + 1 < w[id]
                                  THEN w[index] + 1 ELSE w[id]
  BY DEF Relax
<1>6. t \in States(g)
  BY <1>1, <1>2 DEF Relax, States
<1>7. x \in [DOMAIN g -> Nat]
  BY <1>6 DEF States
<1> HIDE DEF t, x
<1>16. \A id \in DOMAIN g : x[id] <= w[id]
  <2> HIDE DEF w
  <2> QED BY <1>1, <1>2, <1>5
<1>8. w[index] <= c
  BY <1>1, <1>2, <1>3 DEF Settled
<1>9. \A v \in t.visited : v \in DOMAIN g /\ x[v] = w[v] /\ w[v] < Inf /\ w[v] <= w[index]
  <2>1. ASSUME NEW v \in t.visited PROVE v \in DOMAIN g /\ w[v] < Inf /\ w[v] <= w[index]
    BY <1>1, <1>2, <1>4 DEF Settled
  <2> QED BY <1>1, <1>2, <1>5, <2>1
<1>10. x[i] = 0
  BY <1>1, <1>7, <1>16 DEF Settled
<1>11. \A n \in DOMAIN g : x[n] <= c + 1 \/ x[n] = Inf
  <2>1. \A n \in DOMAIN g : w[n] <= c \/ w[n] = Inf
    BY DEF Settled
  <2> HIDE DEF w, c
  <2> QED BY <1>1, <1>2, <1>3, <1>5, <1>8, <2>1
<1>12. ASSUME NEW v \in t.visited, NEW u \in DOMAIN g \ t.visited PROVE x[v] <= x[u]
  <2>1. w[index] <= w[u] /\ x[v] = w[v] /\ w[v] <= w[index] /\ v \in DOMAIN g
    BY <1>2, <1>4, <1>9
  <2> HIDE DEF w
  <2> QED BY <1>1, <1>2, <1>5, <2>1
<1>13. ASSUME NEW v \in t.visited, NEW u \in Range(g[v]) PROVE x[u] <= x[v] + 1
  <2>1. u \in DOMAIN g /\ v \in DOMAIN g
    BY <1>9 DEF Range, IsGraph
  <2>2. CASE v = index
    <3> HIDE DEF w
    <3> QED BY <1>1, <1>2, <1>5, <1>9, <2>1, <2>2
  <2>3. CASE v # index
    <3>1. w[u] <= w[v] + 1
      BY <1>4, <2>3 DEF Settled
    <3>2. x[v] = w[v] /\ x[u] <= w[u]
      BY <1>7, <1>9, <1>16, <2>1
    <3> HIDE DEF w
    <3> QED BY <1>1, <1>7, <2>1, <3>1, <3>2
  <2> QED BY <2>2, <2>3
<1>14. ASSUME NEW n \in DOMAIN g \ {i}, x[n] < Inf
       PROVE  \E m \in t.visited : n \in Range(g[m]) /\ x[n] = x[m] + 1
  <2>1. CASE n \in Range(g[index]) /\ w[index] + 1 < w[n]
    <3>1. x[n] = w[index] + 1
      BY <1>5, <2>1
    <3>2. index \in t.visited /\ x[index] = w[index]
      BY <1>4, <1>9
    <3> QED BY <2>1, <3>1, <3>2
  <2>2. CASE ~ (n \in Range(g[index]) /\ w[index] + 1 < w[n])
    <3>1. x[n] = w[n]
      BY <1>5, <2>2
    <3>2. PICK m \in s.visited : n \in Range(g[m]) /\ w[n] = w[m] + 1
      BY <1>14, <3>1 DEF Settled
    <3>3. m \in t.visited /\ x[m] = w[m]
      BY <1>4, <1>9
    <3> QED BY <3>1, <3>2, <3>3
  <2> QED BY <2>1, <2>2
<1>15. Settled(g, i, t)
  <2>1. Cardinality(t.visited) = c + 1
    BY <1>3, <1>4
  <2>2. \A v \in t.visited : x[v] < Inf
    BY <1>9
  <2> QED BY <1>6, <1>10, <1>11, <1>12, <1>13, <1>14, <2>1, <2>2 DEF Settled, x
<1> QED BY <1>3, <1>4, <1>15 DEF t

\* There is a way from every node to every other one: no part of the graph is closed.
IsConnected(g) ==
    \A S \in SUBSET DOMAIN g : S # {} /\ (\A n \in S : Range(g[n]) \subseteq S) => S = DOMAIN g

\* w are the distances from node i: no link leads more than one further, and from
\* every other node there is one that leads back.
IsDistance(g, i, w) ==
    /\ w \in [DOMAIN g -> Nat] /\ w[i] = 0
    /\ \A n \in DOMAIN g : \A m \in Range(g[n]) : w[m] <= w[n] + 1
    /\ \A n \in DOMAIN g \ {i} : \E m \in DOMAIN g : m \in Range(g[n]) /\ w[m] = w[n] - 1

LEMMA LinkedBack ==
  ASSUME NEW g, IsGraph(g), NEW n \in DOMAIN g, NEW m \in DOMAIN g, n \in Range(g[m])
  PROVE  m \in Range(g[n])
<1>1. g[n] \in Seq(DOMAIN g) /\ g[m] \in Seq(DOMAIN g)
      /\ Cardinality(LinksTo(g, n, m)) = Cardinality(LinksTo(g, m, n))
  BY DEF IsGraph
<1>2. \A b : \A a \in DOMAIN g : g[a] \in Seq(DOMAIN g) => IsFiniteSet(LinksTo(g, a, b))
  <2> SUFFICES ASSUME NEW a \in DOMAIN g, NEW b, g[a] \in Seq(DOMAIN g) PROVE IsFiniteSet(LinksTo(g, a, b))
    OBVIOUS
  <2>1. IsFiniteSet(1 .. Len(g[a]))
    BY FS_Interval
  <2>2. LinksTo(g, a, b) \subseteq 1 .. Len(g[a])
    BY DEF LinksTo
  <2> QED BY <2>1, <2>2, FS_Subset
<1>3. LinksTo(g, m, n) # {}
  BY DEF LinksTo, Range
<1>4. Cardinality(LinksTo(g, n, m)) # 0
  BY <1>1, <1>2, <1>3, FS_EmptySet
<1>5. LinksTo(g, n, m) # {}
  BY <1>4, FS_EmptySet
<1> QED BY <1>5 DEF LinksTo, Range

LEMMA LastRound ==
  ASSUME NEW g, IsGraph(g), Cardinality(DOMAIN g) < Inf, NEW i \in DOMAIN g
  PROVE  \E s : Settled(g, i, s) /\ Open(g, s) = {} /\ Weights(g, i) = s.weights
<1> DEFINE n == Cardinality(DOMAIN g)
           Fine(s, k) == Settled(g, i, s) /\ (Nearest(g, s) = {} \/ Cardinality(s.visited) = k)
<1>1. n \in Nat /\ IsFiniteSet(DOMAIN g)
  BY FS_CardinalityType DEF IsGraph
<1>2. PICK f : AreRounds(f, g, i)
  BY RoundsExist
<1> DEFINE S == {k \in Nat : k <= n => Fine(f[1 .. k], k)}
<1>3. 0 \in S
  <2>1. f[1 .. 0] = Started(g, i)
    BY <1>2, 1 .. 0 = {} DEF AreRounds
  <2>2. Started(g, i).visited = {}
    BY DEF Started
  <2> QED BY <2>1, <2>2, StartSettled, FS_EmptySet
<1>4. ASSUME NEW k \in Nat, k \in S PROVE k + 1 \in S
  <2> SUFFICES ASSUME k + 1 <= n PROVE Fine(f[1 .. (k + 1)], k + 1)
    OBVIOUS
  <2>1. k + 1 \in 1 .. n /\ (k + 1) - 1 = k /\ k <= n
    BY <1>1
  <2>2. f[1 .. (k + 1)] = Round(g, f[1 .. k])
    BY <1>2, <2>1 DEF AreRounds
  <2> DEFINE s == f[1 .. k]
  <2>3. Fine(s, k)
    BY <1>4, <2>1
  <2> HIDE DEF s, n
  <2>4. CASE Nearest(g, s) = {}
    BY <2>2, <2>3, <2>4 DEF Round, s
  <2>5. CASE Nearest(g, s) # {}
    <3> DEFINE index == CHOOSE j \in Nearest(g, s) : TRUE
    <3>1. index \in Nearest(g, s)
      BY <2>5
    <3> HIDE DEF index
    <3>2. Settled(g, i, Relax(g, s, index)) /\ Cardinality(Relax(g, s, index).visited) = Cardinality(s.visited) + 1
      BY <2>3, <3>1, RelaxKeeps DEF n
    <3>3. f[1 .. (k + 1)] = Relax(g, s, index)
      BY <2>2, <2>5 DEF Round, s, index
    <3> QED BY <2>3, <2>5, <3>2, <3>3
  <2> QED BY <2>4, <2>5
<1>5. \A k \in Nat : k \in S
  <2> HIDE DEF S
  <2> QED BY <1>3, <1>4, NoGraph, LP!SetInduction
<1> DEFINE s == f[1 .. n]
<1>6. Fine(s, n) /\ Weights(g, i) = s.weights
  <2>1. n \in S /\ n <= n
    BY <1>1, <1>5
  <2>2. Fine(f[1 .. n], n)
    <3> HIDE DEF Fine, n
    <3> QED BY <2>1
  <2> QED BY <1>2, <2>2 DEF AreRounds
<1> HIDE DEF s
<1>7. s \in States(g) /\ s.visited \in SUBSET DOMAIN g
  BY <1>6 DEF Settled, States
<1>8. Open(g, s) = {}
  <2>1. CASE Nearest(g, s) = {}
    BY <1>7, <2>1, NearestFound
  <2>2. CASE Cardinality(s.visited) = n
    <3>1. s.visited = DOMAIN g
      BY <1>1, <1>7, <2>2, FS_Subset
    <3> QED BY <3>1 DEF Open
  <2> QED BY <1>6, <2>1, <2>2
<1> QED BY <1>6, <1>8

\* Dijkstra's algorithm finds the distances in every connected graph, if there are
\* fewer nodes than the number that stands for infinity (RoutingTable::LoadDijkstra).
THEOREM DijkstraDistances ==
  ASSUME NEW g, IsGraph(g), IsConnected(g), Cardinality(DOMAIN g) < Inf, NEW i \in DOMAIN g
  PROVE  IsDistance(g, i, Weights(g, i)) /\ \A n \in DOMAIN g : Weights(g, i)[n] < Inf
<1>1. PICK s : Settled(g, i, s) /\ Open(g, s) = {} /\ Weights(g, i) = s.weights
  BY LastRound
<1> DEFINE w == s.weights
<1>2. s.visited \in SUBSET DOMAIN g /\ w \in [DOMAIN g -> Nat] /\ Inf \in Nat /\ w[i] = 0
  BY <1>1, InfNat DEF Settled, States
<1>3. \A n \in DOMAIN g : n \in s.visited <=> w[n] < Inf
  BY <1>1 DEF Open, Settled
<1>4. IsFiniteSet(DOMAIN g) /\ Cardinality(DOMAIN g) \in Nat
  BY FS_CardinalityType DEF IsGraph
<1>5. Cardinality(s.visited) \in Nat /\ Cardinality(s.visited) <= Cardinality(DOMAIN g)
  BY <1>2, <1>4, FS_Subset, FS_CardinalityType
<1>6. \A v \in s.visited : Range(g[v]) \subseteq s.visited
  <2> SUFFICES ASSUME NEW v \in s.visited, NEW u \in Range(g[v]), ~(w[u] < Inf) PROVE FALSE
    <3>1. \A v \in DOMAIN g : Range(g[v]) \subseteq DOMAIN g
      BY DEF IsGraph, Range
    <3> QED BY <1>2, <1>3, <3>1
  <2>1. v \in DOMAIN g /\ u \in DOMAIN g
    BY <1>2 DEF IsGraph, Range
  <2>2. w[u] <= w[v] + 1 /\ (w[v] <= Cardinality(s.visited) \/ w[v] = Inf) /\ w[v] < Inf
        /\ (w[u] <= Cardinality(s.visited) \/ w[u] = Inf)
    BY <1>1, <2>1 DEF Settled
  <2>3. CASE s.visited = DOMAIN g
    BY <1>3, <2>1, <2>3
  <2>4. CASE s.visited # DOMAIN g
    <3>1. Cardinality(s.visited) < Cardinality(DOMAIN g)
      BY <1>2, <1>4, <1>5, <2>4, FS_Subset
    <3> HIDE DEF w
    <3> QED BY <1>2, <1>4, <1>5, <2>1, <2>2, <3>1
  <2> QED BY <2>3, <2>4
<1>7. s.visited = DOMAIN g
  <2>1. i \in s.visited
    BY <1>2, <1>3, InfNat
  <2> QED BY <1>2, <1>6, <2>1 DEF IsConnected
<1>8. \A n \in DOMAIN g : \A m \in Range(g[n]) : w[m] <= w[n] + 1
  BY <1>1, <1>7 DEF Settled
<1>9. ASSUME NEW n \in DOMAIN g \ {i} PROVE \E m \in DOMAIN g : m \in Range(g[n]) /\ w[m] = w[n] - 1
  <2>1. PICK m \in DOMAIN g : n \in Range(g[m]) /\ w[n] = w[m] + 1
    BY <1>1, <1>3, <1>7 DEF Settled
  <2>2. m \in Range(g[n])
    BY <2>1, LinkedBack
  <2> QED BY <1>2, <2>1, <2>2
<1> QED BY <1>1, <1>2, <1>3, <1>7, <1>8, <1>9 DEF IsDistance

\* There is one such function.
LEMMA OneDistance ==
  ASSUME NEW g, IsGraph(g), NEW i \in DOMAIN g, NEW v, IsDistance(g, i, v), NEW w, IsDistance(g, i, w)
  PROVE  v = w
<1>1. ASSUME NEW a, IsDistance(g, i, a), NEW b, IsDistance(g, i, b)
      PROVE  \A n \in DOMAIN g : a[n] <= b[n]
  <2> DEFINE S == {k \in Nat : \A n \in DOMAIN g : b[n] = k => a[n] <= k}
  <2>1. a \in [DOMAIN g -> Nat] /\ b \in [DOMAIN g -> Nat] /\ a[i] = 0
    BY <1>1 DEF IsDistance
  <2>2. \A n \in DOMAIN g \ {i} : \E m \in DOMAIN g : n \in Range(g[m]) /\ b[m] = b[n] - 1
    <3> SUFFICES ASSUME NEW n \in DOMAIN g \ {i}
                 PROVE  \E m \in DOMAIN g : n \in Range(g[m]) /\ b[m] = b[n] - 1
      OBVIOUS
    <3>1. PICK m \in DOMAIN g : m \in Range(g[n]) /\ b[m] = b[n] - 1
      BY <1>1 DEF IsDistance
    <3> QED BY <3>1, LinkedBack
  <2>3. 0 \in S
    <3> SUFFICES ASSUME NEW n \in DOMAIN g, b[n] = 0 PROVE a[n] <= 0
      OBVIOUS
    <3>1. n = i
      BY <2>1, <2>2
    <3> QED BY <2>1, <3>1
  <2>4. ASSUME NEW k \in Nat, k \in S PROVE k + 1 \in S
    <3> SUFFICES ASSUME NEW n \in DOMAIN g, b[n] = k + 1 PROVE a[n] <= k + 1
      OBVIOUS
    <3>1. CASE n = i
      BY <2>1, <3>1
    <3>2. CASE n # i
      <4>1. PICK m \in DOMAIN g : n \in Range(g[m]) /\ b[m] = k
        BY <2>2, <3>2
      <4>2. a[m] <= k
        BY <2>4, <4>1
      <4>3. a[n] <= a[m] + 1
        BY <1>1, <4>1 DEF IsDistance
      <4> QED BY <2>1, <4>2, <4>3
    <3> QED BY <3>1, <3>2
  <2>5. \A k \in Nat : k \in S
    <3> HIDE DEF S
    <3> QED BY <2>3, <2>4, NoGraph, LP!SetInduction
  <2> QED BY <2>1, <2>5
<1>2. v \in [DOMAIN g -> Nat] /\ w \in [DOMAIN g -> Nat]
  BY DEF IsDistance
<1>3. \A n \in DOMAIN g : v[n] <= w[n] /\ w[n] <= v[n]
  BY <1>1
<1> QED BY <1>2, <1>3

\* A loop that makes a list of the elements of s that are in Good.
IsFilter(H, l, s, Good) ==
    H = [u \in SUBSET (1 .. l) |-> IF u = {} THEN <<>> ELSE
            IF s[Max(u)] \in Good THEN Append(H[u \ {Max(u)}], s[Max(u)]) ELSE H[u \ {Max(u)}]]

IsPart(q, S, s, Good) == q \in Seq(S) /\ Range(q) = Range(s) \cap Good

LEMMA RangeAppend ==
  ASSUME NEW S, NEW s \in Seq(S), NEW x \in S
  PROVE  Append(s, x) \in Seq(S) /\ Range(Append(s, x)) = Range(s) \cup {x}
<1> DEFINE t == Append(s, x)
           m == Len(s)
<1>1. t \in Seq(S) /\ m \in Nat /\ DOMAIN t = 1 .. m + 1 /\ DOMAIN s = 1 .. m
  OBVIOUS
<1>2. \A j \in 1 .. m + 1 : t[j] = IF j <= m THEN s[j] ELSE x
  OBVIOUS
<1>3. Range(t) = {t[j] : j \in 1 .. m + 1} /\ Range(s) = {s[j] : j \in 1 .. m}
  BY <1>1 DEF Range
<1> HIDE DEF t, m
<1>4. /\ \A j \in 1 .. m : t[j] = s[j] /\ j \in 1 .. m + 1
      /\ t[m + 1] = x /\ m + 1 \in 1 .. m + 1
      /\ \A j \in 1 .. m + 1 : j \in 1 .. m \/ j = m + 1
  BY <1>1, <1>2
<1>5. ASSUME NEW y \in Range(t) PROVE y \in Range(s) \/ y = x
  <2>1. PICK j \in 1 .. m + 1 : y = t[j]
    BY <1>3
  <2> QED BY <1>3, <1>4, <2>1
<1>6. ASSUME NEW y \in Range(s) PROVE y \in Range(t)
  <2>1. PICK j \in 1 .. m : y = s[j]
    BY <1>3
  <2> QED BY <1>3, <1>4, <2>1
<1>7. x \in Range(t)
  BY <1>3, <1>4
<1> QED BY <1>1, <1>5, <1>6, <1>7 DEF t

LEMMA FilterIs ==
  ASSUME NEW l \in Nat, NEW S, NEW s \in [1 .. l -> S], NEW Good
  PROVE  /\ \E H : IsFilter(H, l, s, Good)
         /\ \A H : IsFilter(H, l, s, Good) => IsPart(H[1 .. l], S, s, Good)
<1> DEFINE U == Seq(S)
           step == [k \in 1 .. l |-> [u \in U |-> IF s[k] \in Good THEN Append(u, s[k]) ELSE u]]
<1>1. <<>> \in U /\ \A k \in 1 .. l : s[k] \in S
  OBVIOUS
<1>2. step \in [1 .. l -> [U -> U]]
  <2>1. \A k \in 1 .. l, u \in U : Append(u, s[k]) \in U
    BY <1>1
  <2> HIDE DEF U
  <2> QED BY <2>1
<1> HIDE DEF U
<1>3. PICK H : LP!IsLoop(H, l, U, <<>>, step)
  <2> HIDE DEF step
  <2> QED BY <1>1, <1>2, NoGraph, LP!LoopExists
<1>4. IsFilter(H, l, s, Good)
  <2>1. ASSUME NEW u \in SUBSET (1 .. l), u # {}
        PROVE  H[u] = IF s[Max(u)] \in Good THEN Append(H[u \ {Max(u)}], s[Max(u)]) ELSE H[u \ {Max(u)}]
    <3>1. Max(u) \in u
      BY <2>1, NoGraph, LP!MaxIn
    <3>2. Max(u) \in 1 .. l /\ H[u \ {Max(u)}] \in U
      BY <1>3, <3>1 DEF LP!IsLoop
    <3> QED BY <1>3, <2>1, <3>2, NoGraph DEF LP!IsLoop
  <2>2. H = [u \in SUBSET (1 .. l) |-> H[u]] /\ H[{}] = <<>>
    BY <1>3 DEF LP!IsLoop
  <2> QED BY <2>1, <2>2 DEF IsFilter
<1>5. ASSUME NEW f, IsFilter(f, l, s, Good)
      PROVE  f[1 .. l] \in U /\ Range(f[1 .. l]) = Range(s) \cap Good
  <2> DEFINE T == {k \in Nat : k <= l => f[1 .. k] \in U /\ Range(f[1 .. k]) = {s[j] : j \in 1 .. k} \cap Good}
  <2>1. 0 \in T
    <3>1. f[1 .. 0] = <<>>
      BY <1>5, 1 .. 0 = {} DEF IsFilter
    <3>2. Range(<<>>) = {}
      BY DEF Range
    <3> QED BY <1>1, <3>1, <3>2, 1 .. 0 = {}
  <2>2. ASSUME NEW k \in Nat, k \in T PROVE k + 1 \in T
    <3> SUFFICES ASSUME k + 1 <= l
                 PROVE  f[1 .. (k + 1)] \in U /\ Range(f[1 .. (k + 1)]) = {s[j] : j \in 1 .. (k + 1)} \cap Good
      OBVIOUS
    <3> DEFINE q == f[1 .. k]
               x == s[k + 1]
    <3>1. k + 1 \in 1 .. l /\ (k + 1) - 1 = k /\ q \in U /\ Range(q) = {s[j] : j \in 1 .. k} \cap Good
      BY <2>2
    <3>2. f[1 .. (k + 1)] = IF x \in Good THEN Append(q, x) ELSE q
      <4>1. 1 .. k + 1 \in SUBSET (1 .. l) /\ 1 .. k + 1 # {} /\ Max(1 .. k + 1) = k + 1
            /\ (1 .. k + 1) \ {k + 1} = 1 .. ((k + 1) - 1)
        BY <3>1, NoGraph, LP!FirstIndices
      <4>2. (1 .. k + 1) \ {k + 1} = 1 .. k
        BY <3>1, <4>1
      <4> QED BY <1>5, <4>1, <4>2, Zenon DEF IsFilter
    <3>3. {s[j] : j \in 1 .. (k + 1)} = {s[j] : j \in 1 .. k} \cup {x}
      <4>1. 1 .. (k + 1) = 1 .. k \cup {k + 1}
        OBVIOUS
      <4> QED BY <4>1
    <3>4. x \in S
      BY <1>1, <3>1
    <3> HIDE DEF q, x
    <3>5. Append(q, x) \in U /\ Range(Append(q, x)) = Range(q) \cup {x}
      BY <3>1, <3>4, RangeAppend DEF U
    <3> QED BY <3>1, <3>2, <3>3, <3>5
  <2>3. \A k \in Nat : k \in T
    <3> HIDE DEF T
    <3> QED BY <2>1, <2>2, NoGraph, LP!SetInduction
  <2>4. Range(s) = {s[j] : j \in 1 .. l}
    BY DEF Range
  <2>5. l \in T
    BY <2>3
  <2>6. f[1 .. l] \in U /\ Range(f[1 .. l]) = {s[j] : j \in 1 .. l} \cap Good
    BY <2>5
  <2> QED BY <2>4, <2>6, Zenon
<1> QED BY <1>4, <1>5 DEF U, IsPart

\* The table names, for each node and destination, all the ports with a neighbour
\* that is nearer to the destination.
Leading(g, n, d) == {k \in DOMAIN g[n] : Weights(g, d)[g[n][k]] = Weights(g, d)[n] - 1}

LEMMA DijkstraPorts ==
  ASSUME NEW g, IsGraph(g), NEW n \in DOMAIN g, NEW d \in DOMAIN g, n # d
  PROVE  /\ LoadDijkstra(g)[n][d] \in Seq(DOMAIN g[n])
         /\ Range(LoadDijkstra(g)[n][d]) = Leading(g, n, d)
<1> DEFINE weights == [e \in DOMAIN g |-> Weights(g, e)]
           test(k) == weights[d][g[n][k]] = weights[d][n] - 1
           l == Len(g[n])
           ports == [k \in DOMAIN g[n] |-> k]
           Iter(H) == H = [s \in SUBSET DOMAIN ports |-> IF s = {} THEN <<>> ELSE
                             LET x == Max(s)
                             IN  IF test(ports[x]) THEN Append(H[s \ {x}], ports[x]) ELSE H[s \ {x}]]
           f == CHOOSE H : Iter(H)
           Good == {k \in 1 .. l : test(k)}
<1>1. l \in Nat /\ DOMAIN g[n] = 1 .. l
  BY DEF IsGraph
<1>2. LoadDijkstra(g)[n][d] = f[1 .. l]
  BY <1>1 DEF LoadDijkstra, FoldLeft, MapThenFoldSet
<1>3. ports \in [1 .. l -> 1 .. l] /\ DOMAIN ports = 1 .. l /\ {ports[j] : j \in 1 .. l} = 1 .. l
  BY <1>1
<1> HIDE DEF l, test, ports
<1>4. \A q : Iter(q) <=> IsFilter(q, l, ports, Good)
  <2>1. \A s \in SUBSET (1 .. l) : s # {} => (test(ports[Max(s)]) <=> ports[Max(s)] \in Good)
    <3> SUFFICES ASSUME NEW s \in SUBSET (1 .. l), s # {}
                 PROVE  test(ports[Max(s)]) <=> ports[Max(s)] \in Good
      OBVIOUS
    <3>1. Max(s) \in s
      BY <1>1, NoGraph, LP!MaxIn
    <3> QED BY <1>3, <3>1
  <2> HIDE DEF Good
  <2> QED BY <1>3, <2>1 DEF IsFilter
<1> HIDE DEF Iter
<1>5. IsFilter(f, l, ports, Good)
  BY <1>1, <1>3, <1>4, FilterIs
<1> HIDE DEF f
<1>6. f[1 .. l] \in Seq(1 .. l) /\ Range(f[1 .. l]) = Range(ports) \cap Good
  <2> HIDE DEF Good
  <2>1. IsPart(f[1 .. l], 1 .. l, ports, Good)
    BY <1>1, <1>3, <1>5, FilterIs
  <2> QED BY <2>1 DEF IsPart
<1>7. Range(ports) \cap Good = Good
  BY <1>3 DEF Range
<1> QED BY <1>1, <1>2, <1>3, <1>6, <1>7 DEF Leading, test

LEMMA LPFinite == \A S : LP!IsFiniteSet(S) = IsFiniteSet(S)
BY Zenon DEF LP!IsFiniteSet, IsFiniteSet
-----------------------------------------------------------------------------
\* A graph in which every node has distances is connected: from any node there is a
\* way that gets nearer and nearer to any other one.
LEMMA DistanceConnects ==
  ASSUME NEW g, IsGraph(g), \A d \in DOMAIN g : \E w : IsDistance(g, d, w)
  PROVE  IsConnected(g)
<1> SUFFICES ASSUME NEW S \in SUBSET DOMAIN g, S # {}, \A n \in S : Range(g[n]) \subseteq S,
                    NEW d \in DOMAIN g
             PROVE  d \in S
  BY DEF IsConnected
<1>1. PICK w : IsDistance(g, d, w)
  OBVIOUS
<1>2. /\ w \in [DOMAIN g -> Nat]
      /\ \A n \in DOMAIN g \ {d} : \E m \in DOMAIN g : m \in Range(g[n]) /\ w[m] = w[n] - 1
  BY <1>1 DEF IsDistance
<1> DEFINE T == {k \in Nat : \A n \in S : w[n] = k => d \in S}
<1>3. 0 \in T
  <2> SUFFICES ASSUME NEW n \in S, w[n] = 0 PROVE d \in S
    OBVIOUS
  <2>1. n = d
    BY <1>2
  <2> QED BY <2>1
<1>4. ASSUME NEW k \in Nat, k \in T PROVE k + 1 \in T
  <2> SUFFICES ASSUME NEW n \in S, w[n] = k + 1, n # d PROVE d \in S
    OBVIOUS
  <2>1. PICK m \in DOMAIN g : m \in Range(g[n]) /\ w[m] = w[n] - 1
    BY <1>2
  <2> QED BY <1>4, <2>1
<1>5. \A k \in Nat : k \in T
  <2> HIDE DEF T
  <2> QED BY <1>3, <1>4, NoGraph, LP!SetInduction
<1>6. PICK n \in S : TRUE
  OBVIOUS
<1> QED BY <1>2, <1>5, <1>6
-----------------------------------------------------------------------------
\* The links of a graph followed by those of another on the same nodes.
LEMMA LinksFinite ==
  ASSUME NEW g, IsGraph(g), NEW n \in DOMAIN g, NEW m
  PROVE  IsFiniteSet(LinksTo(g, n, m)) /\ LinksTo(g, n, m) \subseteq 1 .. Len(g[n])
<1>1. IsFiniteSet(1 .. Len(g[n])) /\ DOMAIN g[n] = 1 .. Len(g[n])
  BY FS_Interval DEF IsGraph
<1>2. LinksTo(g, n, m) \subseteq 1 .. Len(g[n])
  BY <1>1 DEF LinksTo
<1> QED BY <1>1, <1>2, FS_Subset

IsTogether(t, g, sub, n) ==
    /\ DOMAIN t = DOMAIN g /\ t[n] \in Seq(DOMAIN g) /\ Len(t[n]) = Len(g[n]) + Len(sub[n])
    /\ \A k \in 1 .. Len(g[n]) : t[n][k] = g[n][k]
    /\ \A k \in 1 .. Len(sub[n]) : t[n][Len(g[n]) + k] = sub[n][k]

LEMMA TogetherLinks ==
  ASSUME NEW g, IsGraph(g), NEW sub, IsGraph(sub), DOMAIN sub = DOMAIN g, NEW n \in DOMAIN g
  PROVE  IsTogether(Together(g, sub), g, sub, n)
<1> DEFINE a == g[n]
           b == sub[n]
<1>1. a \in Seq(DOMAIN g) /\ b \in Seq(DOMAIN g)
  BY DEF IsGraph
<1>2. DOMAIN Together(g, sub) = DOMAIN g /\ Together(g, sub)[n] = a \o b
  BY DEF Together
<1> HIDE DEF a, b
<1>3. a \o b \in Seq(DOMAIN g) /\ Len(a \o b) = Len(a) + Len(b) /\ Len(a) \in Nat /\ Len(b) \in Nat
  BY <1>1
<1>4. ASSUME NEW k \in 1 .. Len(a) PROVE (a \o b)[k] = a[k]
  BY <1>1, <1>3
<1>5. ASSUME NEW k \in 1 .. Len(b) PROVE (a \o b)[Len(a) + k] = b[k]
  BY <1>1, <1>3
<1> QED BY <1>2, <1>3, <1>4, <1>5 DEF IsTogether, a, b

LEMMA TogetherCount ==
  ASSUME NEW g, IsGraph(g), NEW sub, IsGraph(sub), DOMAIN sub = DOMAIN g, NEW n \in DOMAIN g, NEW m
  PROVE  Cardinality(LinksTo(Together(g, sub), n, m)) = Cardinality(LinksTo(g, n, m)) + Cardinality(LinksTo(sub, n, m))
<1> DEFINE t == Together(g, sub)
           l == Len(g[n])
           A == LinksTo(g, n, m)
           B == LinksTo(sub, n, m)
           C == {l + k : k \in B}
           f == [k \in B |-> l + k]
<1>1. /\ DOMAIN t = DOMAIN g /\ t[n] \in Seq(DOMAIN g) /\ Len(t[n]) = l + Len(sub[n])
      /\ \A k \in 1 .. l : t[n][k] = g[n][k]
      /\ \A k \in 1 .. Len(sub[n]) : t[n][l + k] = sub[n][k]
  <2>1. IsTogether(t, g, sub, n)
    BY TogetherLinks
  <2> HIDE DEF t
  <2> QED BY <2>1 DEF IsTogether
<1>2. /\ l \in Nat /\ Len(sub[n]) \in Nat /\ DOMAIN g[n] = 1 .. l /\ DOMAIN sub[n] = 1 .. Len(sub[n])
      /\ DOMAIN t[n] = 1 .. l + Len(sub[n])
  BY <1>1 DEF IsGraph
<1>3. IsFiniteSet(A) /\ A \subseteq 1 .. l /\ IsFiniteSet(B) /\ B \subseteq 1 .. Len(sub[n])
  BY LinksFinite
<1> HIDE DEF t, l
<1>4. f \in Bijection(B, C)
  <2>1. f \in Injection(B, C)
    <3>1. f \in [B -> C]
      OBVIOUS
    <3>2. \A i \in B, j \in B : f[i] = f[j] => i = j
      BY <1>2, <1>3
    <3> QED BY <3>1, <3>2 DEF Injection, IsInjective
  <2>2. f \in Surjection(B, C)
    BY DEF Surjection
  <2> QED BY <2>1, <2>2 DEF Bijection
<1>5. IsFiniteSet(C) /\ Cardinality(C) = Cardinality(B)
  <2> HIDE DEF B, C, f
  <2> QED BY <1>3, <1>4, FS_Bijection DEF ExistsBijection
<1>6. A \cap C = {}
  BY <1>2, <1>3
<1>7. LinksTo(t, n, m) = A \cup C
  <2>1. ASSUME NEW p \in LinksTo(t, n, m) PROVE p \in A \cup C
    <3>1. p \in 1 .. l + Len(sub[n]) /\ t[n][p] = m
      BY <1>2 DEF LinksTo
    <3>2. CASE p \in 1 .. l
      BY <1>1, <1>2, <3>1, <3>2 DEF LinksTo
    <3>3. CASE p \notin 1 .. l
      <4>1. p - l \in 1 .. Len(sub[n]) /\ l + (p - l) = p
        BY <1>2, <3>1, <3>3
      <4>2. p - l \in B
        BY <1>1, <1>2, <3>1, <4>1 DEF LinksTo
      <4> QED BY <4>1, <4>2
    <3> QED BY <3>2, <3>3
  <2>2. ASSUME NEW p \in A PROVE p \in LinksTo(t, n, m)
    <3>1. p \in 1 .. l /\ p \in 1 .. l + Len(sub[n]) /\ g[n][p] = m
      BY <1>2, <1>3 DEF LinksTo
    <3> QED BY <1>1, <1>2, <3>1 DEF LinksTo
  <2>3. ASSUME NEW k \in B PROVE l + k \in LinksTo(t, n, m)
    <3>1. k \in 1 .. Len(sub[n]) /\ l + k \in 1 .. l + Len(sub[n]) /\ sub[n][k] = m
      BY <1>2, <1>3 DEF LinksTo
    <3> QED BY <1>1, <1>2, <3>1 DEF LinksTo
  <2> QED BY <2>1, <2>2, <2>3
<1> HIDE DEF A, B, C
<1>8. Cardinality(A) \in Nat /\ Cardinality(C) \in Nat /\ Cardinality(A \cap C) = 0
  BY <1>3, <1>5, <1>6, FS_CardinalityType, FS_EmptySet
<1>9. Cardinality(A \cup C) = Cardinality(A) + Cardinality(C) - Cardinality(A \cap C)
  BY <1>3, <1>5, FS_Union
<1>10. Cardinality(A \cup C) = Cardinality(A) + Cardinality(C)
  BY <1>8, <1>9
<1> QED BY <1>5, <1>7, <1>10 DEF A, B, t

LEMMA TogetherIsGraph ==
  ASSUME NEW g, IsGraph(g), NEW sub, IsGraph(sub), DOMAIN sub = DOMAIN g
  PROVE  IsGraph(Together(g, sub)) /\ DOMAIN Together(g, sub) = DOMAIN g
<1>1. DOMAIN Together(g, sub) = DOMAIN g
  BY DEF Together
<1>2. \A n \in DOMAIN g : Together(g, sub)[n] \in Seq(DOMAIN g)
  BY TogetherLinks DEF IsTogether
<1>3. \A n \in DOMAIN g, m \in DOMAIN g :
         Cardinality(LinksTo(Together(g, sub), n, m)) = Cardinality(LinksTo(Together(g, sub), m, n))
  <2> SUFFICES ASSUME NEW n \in DOMAIN g, NEW m \in DOMAIN g
               PROVE  Cardinality(LinksTo(Together(g, sub), n, m)) = Cardinality(LinksTo(Together(g, sub), m, n))
    OBVIOUS
  <2>1. Cardinality(LinksTo(g, n, m)) = Cardinality(LinksTo(g, m, n))
        /\ Cardinality(LinksTo(sub, n, m)) = Cardinality(LinksTo(sub, m, n))
    BY DEF IsGraph
  <2> QED BY <2>1, TogetherCount
<1> QED BY <1>1, <1>2, <1>3 DEF IsGraph

\* A subnetwork of a graph has the same nodes, a way between any two of them, and no
\* link from a node to itself.
IsSubnetwork(sub, g) ==
    /\ IsGraph(sub) /\ DOMAIN sub = DOMAIN g /\ IsConnected(sub)
    /\ \A n \in DOMAIN sub : n \notin Range(sub[n])
-----------------------------------------------------------------------------
\* The trees of Graph::subgraph.

\* The lengths of the lists of the first N nodes add up to c.
HasTotal(t, N, c) ==
    \E s \in [0 .. N -> Nat] : s[0] = 0 /\ s[N] = c /\ \A k \in 1 .. N : s[k] = s[k - 1] + Len(t[k - 1])

\* A tree on the nodes V among the nodes D: of the nodes of V no part but the whole is
\* closed, and there are as many links as it takes for that.
IsTree(t, D, V) ==
    /\ t \in [D -> Seq(D)] /\ V \subseteq D /\ V # {}
    /\ \A n \in D : Range(t[n]) \subseteq V /\ n \notin Range(t[n])
    /\ \A n \in D : n \notin V => t[n] = <<>>
    /\ \A n \in D, m \in D : Cardinality(LinksTo(t, n, m)) = Cardinality(LinksTo(t, m, n))
    /\ \A S \in SUBSET V : S # {} /\ (\A n \in S : Range(t[n]) \subseteq S) => S = V
    /\ HasTotal(t, Cardinality(D), 2 * Cardinality(V) - 2)

\* What the nodes are in a graph.
AreNodes(D) == IsFiniteSet(D) /\ D = 0 .. Cardinality(D) - 1

LEMMA NoLinksTree ==
  ASSUME NEW g, AreNodes(DOMAIN g), NEW r \in DOMAIN g
  PROVE  IsTree(NoLinks(g), DOMAIN g, {r})
<1> DEFINE t == NoLinks(g)
           D == DOMAIN g
           N == Cardinality(D)
<1>1. N \in Nat /\ D = 0 .. N - 1
  BY FS_CardinalityType DEF AreNodes
<1>2. t \in [D -> Seq(D)] /\ \A n \in D : t[n] = <<>> /\ Range(t[n]) = {}
  BY DEF NoLinks, Range
<1>3. \A n \in D : \A m : LinksTo(t, n, m) = {}
  BY <1>2 DEF LinksTo
<1>4. HasTotal(t, N, 0)
  <2> DEFINE s == [k \in 0 .. N |-> 0]
  <2>1. s \in [0 .. N -> Nat] /\ s[0] = 0 /\ s[N] = 0
    BY <1>1
  <2>2. ASSUME NEW k \in 1 .. N PROVE s[k] = s[k - 1] + Len(t[k - 1])
    <3>1. k - 1 \in D /\ k \in 0 .. N /\ k - 1 \in 0 .. N
      BY <1>1
    <3>2. Len(t[k - 1]) = 0
      BY <1>2, <3>1
    <3> QED BY <3>1, <3>2
  <2> HIDE DEF s, t
  <2> QED BY <2>1, <2>2 DEF HasTotal
<1>5. 2 * Cardinality({r}) - 2 = 0
  BY FS_Singleton
<1> QED BY <1>2, <1>3, <1>4, <1>5 DEF IsTree

\* What a link adds to the lists.
IsLinked(u, D, t, n, m) ==
    /\ u \in [D -> Seq(D)]
    /\ u[n] = Append(t[n], m) /\ Range(u[n]) = Range(t[n]) \cup {m}
    /\ u[m] = Append(t[m], n) /\ Range(u[m]) = Range(t[m]) \cup {n}
    /\ \A x \in D \ {n, m} : u[x] = t[x]

LEMMA LinkAdds ==
  ASSUME NEW D, NEW t \in [D -> Seq(D)], NEW n \in D, NEW m \in D, n # m
  PROVE  IsLinked(Link(t, n, m), D, t, n, m)
<1> DEFINE u == Link(t, n, m)
<1>1. t[n] \in Seq(D) /\ t[m] \in Seq(D)
  OBVIOUS
<1>2. Append(t[n], m) \in Seq(D) /\ Range(Append(t[n], m)) = Range(t[n]) \cup {m}
  BY <1>1, RangeAppend
<1>3. Append(t[m], n) \in Seq(D) /\ Range(Append(t[m], n)) = Range(t[m]) \cup {n}
  BY <1>1, RangeAppend
<1>4. u = [x \in D |-> IF x = m THEN Append(t[m], n) ELSE IF x = n THEN Append(t[n], m) ELSE t[x]]
  BY DEF Link
<1>5. u \in [D -> Seq(D)]
  BY <1>2, <1>3, <1>4
<1> HIDE DEF u
<1> QED BY <1>2, <1>3, <1>4, <1>5 DEF IsLinked, u

LEMMA LinkTotal ==
  ASSUME NEW D, AreNodes(D), NEW t \in [D -> Seq(D)], NEW n \in D, NEW m \in D, n # m,
         NEW c \in Nat, HasTotal(t, Cardinality(D), c)
  PROVE  HasTotal(Link(t, n, m), Cardinality(D), c + 2)
<1> DEFINE N == Cardinality(D)
           u == Link(t, n, m)
<1>1. N \in Nat /\ D = 0 .. N - 1
  BY FS_CardinalityType DEF AreNodes
<1>2. PICK s \in [0 .. N -> Nat] : s[0] = 0 /\ s[N] = c /\ \A k \in 1 .. N : s[k] = s[k - 1] + Len(t[k - 1])
  BY DEF HasTotal
<1> HIDE DEF N
<1> DEFINE more(k) == (IF n < k THEN 1 ELSE 0) + (IF m < k THEN 1 ELSE 0)
           v == [k \in 0 .. N |-> s[k] + more(k)]
<1>3. \A k \in 0 .. N : more(k) \in Nat
  OBVIOUS
<1>4. v \in [0 .. N -> Nat]
  BY <1>3
<1>5. v[0] = 0 /\ v[N] = c + 2
  <2>1. n \in Nat /\ m \in Nat /\ n < N /\ m < N
    BY <1>1
  <2> QED BY <1>1, <1>2, <2>1
<1>6. /\ u[n] = Append(t[n], m) /\ u[m] = Append(t[m], n)
      /\ \A x \in D \ {n, m} : u[x] = t[x]
  <2>1. IsLinked(u, D, t, n, m)
    BY LinkAdds
  <2> HIDE DEF u
  <2> QED BY <2>1 DEF IsLinked
<1> HIDE DEF u
<1>7. ASSUME NEW k \in 1 .. N PROVE v[k] = v[k - 1] + Len(u[k - 1])
  <2> DEFINE x == k - 1
             e == IF x \in {n, m} THEN 1 ELSE 0
  <2>1. x \in D /\ k \in 0 .. N /\ x \in 0 .. N /\ s[k] = s[x] + Len(t[x]) /\ s[x] \in Nat
    BY <1>1, <1>2
  <2>2. more(k) = more(x) + e /\ more(x) \in Nat /\ e \in Nat
    BY <1>1
  <2>3. v[k] = s[k] + more(k) /\ v[x] = s[x] + more(x)
    BY <2>1
  <2> HIDE DEF x, v, more
  <2>4. Len(t[x]) \in Nat /\ Len(u[x]) = Len(t[x]) + e
    <3>1. t[x] \in Seq(D)
      BY <2>1
    <3>2. \A y : Len(Append(t[x], y)) = Len(t[x]) + 1
      BY <3>1
    <3>3. CASE x \in {n, m}
      BY <1>6, <3>1, <3>2, <3>3 DEF e
    <3>4. CASE x \notin {n, m}
      BY <1>6, <2>1, <3>1, <3>4 DEF e
    <3> QED BY <3>3, <3>4
  <2> HIDE DEF e
  <2>5. v[k] = v[x] + Len(u[x])
    BY <2>1, <2>2, <2>3, <2>4
  <2> QED BY <2>5 DEF x
<1> HIDE DEF v
<1>8. \E w \in [0 .. N -> Nat] : w[0] = 0 /\ w[N] = c + 2 /\ \A k \in 1 .. N : w[k] = w[k - 1] + Len(u[k - 1])
  BY <1>4, <1>5, <1>7
<1> QED BY <1>8 DEF HasTotal, N, u

\* A node that is linked to one of the tree joins it.
LEMMA LinkTree ==
  ASSUME NEW D, AreNodes(D), NEW t, NEW V, IsTree(t, D, V), NEW n \in V, NEW m \in D \ V
  PROVE  IsTree(Link(t, n, m), D, V \cup {m})
<1> DEFINE u == Link(t, n, m)
           W == V \cup {m}
<1>1. /\ t \in [D -> Seq(D)] /\ V \subseteq D /\ n \in D /\ n # m
      /\ \A x \in D : Range(t[x]) \subseteq V /\ x \notin Range(t[x])
      /\ \A x \in D : x \notin V => t[x] = <<>>
  BY DEF IsTree
<1>2. IsLinked(u, D, t, n, m)
  BY <1>1, LinkAdds
<1> HIDE DEF u
<1>3. /\ u \in [D -> Seq(D)]
      /\ u[n] = Append(t[n], m) /\ Range(u[n]) = Range(t[n]) \cup {m}
      /\ u[m] = Append(t[m], n) /\ Range(u[m]) = Range(t[m]) \cup {n}
      /\ \A x \in D \ {n, m} : u[x] = t[x]
  BY <1>2 DEF IsLinked
<1>4. t[m] = <<>> /\ u[m] = <<n>> /\ Range(t[m]) = {}
  <2>1. t[m] = <<>>
    BY <1>1
  <2>2. Range(<<>>) = {} /\ Append(<<>>, n) = <<n>>
    BY DEF Range
  <2> QED BY <1>3, <2>1, <2>2
<1>5. \A x \in D : Range(u[x]) \subseteq W /\ x \notin Range(u[x])
  BY <1>1, <1>3, <1>4
<1>6. \A x \in D : x \notin W => u[x] = <<>>
  BY <1>1, <1>3
<1>7. ASSUME NEW x \in D, NEW y \in D PROVE Cardinality(LinksTo(u, x, y)) = Cardinality(LinksTo(u, y, x))
  <2>1. LinksTo(u, n, m) = {Len(t[n]) + 1} /\ LinksTo(u, m, n) = {1}
    <3>1. t[n] \in Seq(D) /\ \A k \in DOMAIN t[n] : t[n][k] # m
      BY <1>1 DEF Range
    <3>2. DOMAIN u[n] = 1 .. Len(t[n]) + 1 /\ u[n][Len(t[n]) + 1] = m
          /\ \A k \in 1 .. Len(t[n]) : u[n][k] # m
      BY <1>3, <3>1
    <3>3. Len(t[n]) \in Nat
      BY <3>1
    <3>4. LinksTo(u, n, m) = {Len(t[n]) + 1}
      BY <3>2, <3>3 DEF LinksTo
    <3>5. DOMAIN u[m] = {1} /\ u[m][1] = n
      BY <1>4
    <3> QED BY <3>4, <3>5 DEF LinksTo
  <2>2. \A a \in D, b \in D : ~(a = n /\ b = m) /\ ~(a = m /\ b = n) => LinksTo(u, a, b) = LinksTo(t, a, b)
    <3> SUFFICES ASSUME NEW a \in D, NEW b \in D, ~(a = n /\ b = m), ~(a = m /\ b = n)
                 PROVE  LinksTo(u, a, b) = LinksTo(t, a, b)
      OBVIOUS
    <3>1. CASE a \notin {n, m}
      BY <1>3, <3>1 DEF LinksTo
    <3>2. CASE a = n
      <4>1. t[n] \in Seq(D) /\ b # m
        BY <1>1, <3>2
      <4>2. DOMAIN u[n] = 1 .. Len(t[n]) + 1 /\ u[n][Len(t[n]) + 1] = m
            /\ \A k \in 1 .. Len(t[n]) : u[n][k] = t[n][k]
        BY <1>3, <4>1
      <4>3. DOMAIN t[n] = 1 .. Len(t[n]) /\ Len(t[n]) \in Nat
        BY <4>1
      <4> QED BY <3>2, <4>1, <4>2, <4>3 DEF LinksTo
    <3>3. CASE a = m
      <4>1. DOMAIN u[m] = {1} /\ u[m][1] = n /\ DOMAIN t[m] = {} /\ b # n
        BY <1>4, <3>3
      <4> QED BY <3>3, <4>1 DEF LinksTo
    <3> QED BY <3>1, <3>2, <3>3
  <2>3. Cardinality(LinksTo(t, x, y)) = Cardinality(LinksTo(t, y, x))
    BY DEF IsTree
  <2>4. CASE x = n /\ y = m
    BY <2>1, <2>4, FS_Singleton
  <2>5. CASE x = m /\ y = n
    BY <2>1, <2>5, FS_Singleton
  <2>6. CASE ~(x = n /\ y = m) /\ ~(x = m /\ y = n)
    BY <2>2, <2>3, <2>6
  <2> QED BY <2>4, <2>5, <2>6
<1>8. ASSUME NEW S \in SUBSET W, S # {}, \A x \in S : Range(u[x]) \subseteq S PROVE S = W
  <2>1. \A T \in SUBSET V : T # {} /\ (\A x \in T : Range(t[x]) \subseteq T) => T = V
    BY DEF IsTree
  <2>2. \A x \in S \cap V : Range(t[x]) \subseteq S \cap V
    BY <1>1, <1>3, <1>8
  <2>3. m \in S => n \in S
    BY <1>3, <1>8
  <2>4. S \cap V # {}
    BY <1>8, <2>3
  <2>5. S \cap V = V
    BY <2>1, <2>2, <2>4
  <2>6. m \in S
    BY <1>3, <1>8, <2>5
  <2> QED BY <2>5, <2>6
<1>9. HasTotal(u, Cardinality(D), 2 * Cardinality(W) - 2)
  <2> DEFINE c == Cardinality(V)
  <2>1. IsFiniteSet(V) /\ c \in Nat /\ Cardinality(W) = c + 1
    BY <1>1, FS_Subset, FS_CardinalityType, FS_AddElement DEF AreNodes
  <2>2. c # 0 /\ HasTotal(t, Cardinality(D), 2 * c - 2)
    BY <2>1, FS_EmptySet DEF IsTree
  <2> HIDE DEF c, W
  <2>3. 2 * c - 2 \in Nat /\ 2 * Cardinality(W) - 2 = (2 * c - 2) + 2
    BY <2>1, <2>2
  <2>4. HasTotal(u, Cardinality(D), (2 * c - 2) + 2)
    <3> HIDE DEF HasTotal
    <3> QED BY <1>1, <2>2, <2>3, LinkTotal DEF u
  <2> QED BY <2>3, <2>4
<1>10. W \subseteq D /\ W # {}
  BY <1>1
<1> QED BY <1>3, <1>5, <1>6, <1>7, <1>8, <1>9, <1>10 DEF IsTree, u

\* SpanningTree counts the links by the lengths of the lists.
Degrees(tree) == FoldLeft(LAMBDA sum, n : sum + Len(tree[n]), 0, NodeList(tree))

LEMMA DegreesAre ==
  ASSUME NEW t, AreNodes(DOMAIN t), t \in [DOMAIN t -> Seq(DOMAIN t)],
         NEW c, HasTotal(t, Cardinality(DOMAIN t), c)
  PROVE  Degrees(t) = c
<1> DEFINE D == DOMAIN t
           l == Cardinality(D)
           list == NodeList(t)
           Iter(H) == H = [s \in SUBSET DOMAIN list |-> IF s = {} THEN 0 ELSE
                             LET x == Max(s) IN H[s \ {x}] + Len(t[list[x]])]
           f == CHOOSE H : Iter(H)
           step == [k \in 1 .. l |-> [u \in Nat |-> u + Len(t[k - 1])]]
<1>1. l \in Nat /\ D = 0 .. l - 1
  BY FS_CardinalityType DEF AreNodes
<1>2. DOMAIN list = 1 .. l /\ (\A k \in 1 .. l : list[k] = k - 1) /\ Len(list) = l
  BY <1>1 DEF NodeList, NodeCount
<1>3. Degrees(t) = f[1 .. l]
  BY <1>2 DEF Degrees, FoldLeft, MapThenFoldSet
<1>4. \A k \in 1 .. l : Len(t[k - 1]) \in Nat
  <2> SUFFICES ASSUME NEW k \in 1 .. l PROVE Len(t[k - 1]) \in Nat
    OBVIOUS
  <2>1. k - 1 \in D
    BY <1>1
  <2>2. t[k - 1] \in Seq(D)
    BY <2>1
  <2> QED BY <2>2
<1>5. PICK s \in [0 .. l -> Nat] : s[0] = 0 /\ s[l] = c /\ \A k \in 1 .. l : s[k] = s[k - 1] + Len(t[k - 1])
  BY DEF HasTotal
<1> HIDE DEF l, list, D
<1>6. step \in [1 .. l -> [Nat -> Nat]]
  BY <1>4
<1>7. PICK H : LP!IsLoop(H, l, Nat, 0, step)
  <2> HIDE DEF step, f, Iter
  <2> QED BY <1>1, <1>6, NoGraph, LP!LoopExists
<1>8. Iter(f)
  <2>1. ASSUME NEW u \in SUBSET (1 .. l), u # {}
        PROVE  H[u] = H[u \ {Max(u)}] + Len(t[list[Max(u)]])
    <3>1. Max(u) \in 1 .. l /\ H[u \ {Max(u)}] \in Nat
      <4>1. Max(u) \in u
        BY <1>1, <2>1, NoGraph, LP!MaxIn
      <4> QED BY <1>7, <4>1 DEF LP!IsLoop
    <3>2. H[u] = step[Max(u)][H[u \ {Max(u)}]]
      BY <1>7, <2>1, NoGraph DEF LP!IsLoop
    <3>3. list[Max(u)] = Max(u) - 1
      BY <1>2, <3>1
    <3> QED BY <3>1, <3>2, <3>3
  <2>2. H = [u \in SUBSET (1 .. l) |-> H[u]] /\ H[{}] = 0
    BY <1>7 DEF LP!IsLoop
  <2>3. Iter(H)
    BY <1>2, <2>1, <2>2
  <2> HIDE DEF Iter
  <2> QED BY <2>3
<1> HIDE DEF f
<1>9. f[{}] = 0 /\ \A k \in 1 .. l : f[1 .. k] = f[1 .. (k - 1)] + Len(t[k - 1])
  <2>1. f[{}] = 0
    BY <1>8
  <2>2. ASSUME NEW k \in 1 .. l PROVE f[1 .. k] = f[1 .. (k - 1)] + Len(t[k - 1])
    <3>1. 1 .. k \in SUBSET (1 .. l) /\ 1 .. k # {} /\ Max(1 .. k) = k
          /\ (1 .. k) \ {k} = 1 .. (k - 1)
      BY <1>1, NoGraph, LP!FirstIndices
    <3>2. f[1 .. k] = f[1 .. (k - 1)] + Len(t[list[k]])
      BY <1>2, <1>8, <3>1, Zenon
    <3> QED BY <1>2, <3>2
  <2> QED BY <2>1, <2>2
<1> HIDE DEF Iter
<1> DEFINE S == {k \in Nat : k <= l => f[1 .. k] = s[k]}
<1>10. 0 \in S
  BY <1>5, <1>9, 1 .. 0 = {}
<1>11. ASSUME NEW k \in Nat, k \in S PROVE k + 1 \in S
  <2> SUFFICES ASSUME k + 1 <= l PROVE f[1 .. (k + 1)] = s[k + 1]
    OBVIOUS
  <2>1. k + 1 \in 1 .. l /\ (k + 1) - 1 = k /\ f[1 .. k] = s[k]
    BY <1>1, <1>11
  <2> QED BY <1>5, <1>9, <2>1
<1>12. \A k \in Nat : k \in S
  <2> HIDE DEF S
  <2> QED BY <1>10, <1>11, NoGraph, LP!SetInduction
<1> QED BY <1>1, <1>3, <1>5, <1>12

\* A tree on all the nodes is a subnetwork, with a link less than nodes.
LEMMA TreeSpans ==
  ASSUME NEW g, AreNodes(DOMAIN g), NEW t, IsTree(t, DOMAIN g, DOMAIN g)
  PROVE  IsSubnetwork(t, g) /\ Degrees(t) = 2 * (NodeCount(t) - 1)
<1>1. /\ t \in [DOMAIN g -> Seq(DOMAIN g)] /\ DOMAIN t = DOMAIN g
      /\ \A n \in DOMAIN g : n \notin Range(t[n])
      /\ \A n \in DOMAIN g, m \in DOMAIN g : Cardinality(LinksTo(t, n, m)) = Cardinality(LinksTo(t, m, n))
      /\ \A S \in SUBSET DOMAIN g : S # {} /\ (\A n \in S : Range(t[n]) \subseteq S) => S = DOMAIN g
      /\ HasTotal(t, Cardinality(DOMAIN g), 2 * Cardinality(DOMAIN g) - 2)
  BY DEF IsTree
<1>2. IsGraph(t) /\ IsConnected(t)
  BY <1>1 DEF IsGraph, IsConnected, AreNodes
<1>3. Degrees(t) = 2 * Cardinality(DOMAIN g) - 2
  BY <1>1, DegreesAre
<1>4. Cardinality(DOMAIN g) \in Nat
  BY FS_CardinalityType DEF AreNodes
<1> QED BY <1>1, <1>2, <1>3, <1>4 DEF IsSubnetwork, NodeCount

-----------------------------------------------------------------------------
\* TGEN_6: a row.
LEMMA RowTree ==
  ASSUME NEW g, AreNodes(DOMAIN g), DOMAIN g # {}
  PROVE  IsTree(TGen6(g), DOMAIN g, DOMAIN g)
<1> DEFINE D == DOMAIN g
           N == Cardinality(D)
           l == N - 1
           list == Front(NodeList(g))
           start == NoLinks(g)
           U == [D -> Seq(D)]
           Iter(H) == H = [s \in SUBSET DOMAIN list |-> IF s = {} THEN start ELSE
                             LET x == Max(s) IN Link(H[s \ {x}], list[x], list[x] + 1)]
           f == CHOOSE H : Iter(H)
           step == [k \in 1 .. l |-> [u \in U |-> Link(u, k - 1, k)]]
<1>1. N \in Nat /\ N # 0 /\ l \in Nat /\ D = 0 .. N - 1 /\ D = 0 .. l /\ IsFiniteSet(D)
  BY FS_CardinalityType, FS_EmptySet DEF AreNodes
<1>2. DOMAIN list = 1 .. l /\ (\A k \in 1 .. l : list[k] = k - 1) /\ Len(list) = l
  <2>1. NodeList(g) = [i \in 1 .. N |-> i - 1] /\ Len(NodeList(g)) = N
    BY <1>1 DEF NodeList, NodeCount
  <2> HIDE DEF N, D
  <2>2. NodeList(g) \in Seq(Int)
    BY <1>1, <2>1
  <2>3. list = SubSeq(NodeList(g), 1, l)
    BY <2>1 DEF Front
  <2> HIDE DEF list
  <2> QED BY <1>1, <2>1, <2>2, <2>3
<1>3. TGen6(g) = f[1 .. l]
  BY <1>2 DEF TGen6, FoldLeft, MapThenFoldSet
<1>4. start \in U
  BY DEF NoLinks
<1> HIDE DEF list, start, N, l
<1>5. ASSUME NEW k \in 1 .. l, NEW u \in U PROVE Link(u, k - 1, k) \in U
  <2>1. k - 1 \in D /\ k \in D /\ k - 1 # k
    BY <1>1
  <2> HIDE DEF D
  <2> QED BY <2>1, LinkAdds DEF IsLinked
<1> HIDE DEF U
<1>6. step \in [1 .. l -> [U -> U]]
  BY <1>5
<1>7. PICK H : LP!IsLoop(H, l, U, start, step)
  <2> HIDE DEF step, f, Iter
  <2> QED BY <1>1, <1>4, <1>6, NoGraph, LP!LoopExists
<1>8. Iter(f)
  <2>1. ASSUME NEW u \in SUBSET (1 .. l), u # {}
        PROVE  H[u] = Link(H[u \ {Max(u)}], list[Max(u)], list[Max(u)] + 1)
    <3>1. Max(u) \in 1 .. l /\ H[u \ {Max(u)}] \in U
      <4>1. Max(u) \in u
        BY <1>1, <2>1, NoGraph, LP!MaxIn
      <4> QED BY <1>7, <4>1 DEF LP!IsLoop
    <3>2. H[u] = step[Max(u)][H[u \ {Max(u)}]]
      BY <1>7, <2>1, NoGraph DEF LP!IsLoop
    <3>3. list[Max(u)] = Max(u) - 1 /\ list[Max(u)] + 1 = Max(u)
      BY <1>2, <3>1
    <3> QED BY <3>1, <3>2, <3>3
  <2>2. H = [u \in SUBSET (1 .. l) |-> H[u]] /\ H[{}] = start
    BY <1>7 DEF LP!IsLoop
  <2>3. Iter(H)
    BY <1>2, <2>1, <2>2
  <2> HIDE DEF Iter
  <2> QED BY <2>3
<1> HIDE DEF f
<1>9. f[{}] = start /\ \A k \in 1 .. l : f[1 .. k] = Link(f[1 .. (k - 1)], k - 1, k)
  <2>1. f[{}] = start
    BY <1>8
  <2>2. ASSUME NEW k \in 1 .. l PROVE f[1 .. k] = Link(f[1 .. (k - 1)], k - 1, k)
    <3>1. 1 .. k \in SUBSET (1 .. l) /\ 1 .. k # {} /\ Max(1 .. k) = k
          /\ (1 .. k) \ {k} = 1 .. (k - 1)
      BY <1>1, NoGraph, LP!FirstIndices
    <3>2. f[1 .. k] = Link(f[1 .. (k - 1)], list[k], list[k] + 1)
      BY <1>2, <1>8, <3>1, Zenon
    <3>3. list[k] = k - 1 /\ list[k] + 1 = k
      BY <1>2
    <3> QED BY <3>2, <3>3
  <2> QED BY <2>1, <2>2
<1> HIDE DEF Iter
<1> DEFINE S == {k \in Nat : k <= l => IsTree(f[1 .. k], D, 0 .. k)}
<1>10. 0 \in S
  <2>1. IsTree(start, D, {0})
    <3>1. 0 \in DOMAIN g
      BY <1>1
    <3>2. IsTree(NoLinks(g), DOMAIN g, {0})
      BY <3>1, NoLinksTree, Zenon
    <3> QED BY <3>2 DEF start
  <2>2. f[1 .. 0] = start /\ 0 .. 0 = {0}
    BY <1>9, 1 .. 0 = {}
  <2> QED BY <2>1, <2>2
<1>11. ASSUME NEW k \in Nat, k \in S PROVE k + 1 \in S
  <2> SUFFICES ASSUME k + 1 <= l PROVE IsTree(f[1 .. (k + 1)], D, 0 .. (k + 1))
    OBVIOUS
  <2>1. k + 1 \in 1 .. l /\ (k + 1) - 1 = k /\ IsTree(f[1 .. k], D, 0 .. k)
    BY <1>1, <1>11
  <2>2. k \in 0 .. k /\ k + 1 \in D \ (0 .. k) /\ 0 .. (k + 1) = (0 .. k) \cup {k + 1}
    BY <1>1, <2>1
  <2> HIDE DEF D
  <2>3. IsTree(Link(f[1 .. k], k, k + 1), D, (0 .. k) \cup {k + 1})
    BY <2>1, <2>2, LinkTree DEF D
  <2>4. f[1 .. (k + 1)] = Link(f[1 .. k], k, k + 1)
    BY <1>9, <2>1
  <2> QED BY <2>2, <2>3, <2>4
<1>12. \A k \in Nat : k \in S
  <2> HIDE DEF S
  <2> QED BY <1>10, <1>11, NoGraph, LP!SetInduction
<1>13. IsTree(f[1 .. l], D, 0 .. l)
  BY <1>1, <1>12
<1> QED BY <1>1, <1>3, <1>13
-----------------------------------------------------------------------------
\* Searches: the queue names each node of the tree once, and the links of the tree are
\* links of the graph.
IsSearch(g, s) ==
    /\ s \in [tree : [DOMAIN g -> Seq(DOMAIN g)], queue : Seq(DOMAIN g)]
    /\ \A i \in DOMAIN s.queue, j \in DOMAIN s.queue : s.queue[i] = s.queue[j] => i = j
    /\ IsTree(s.tree, DOMAIN g, Range(s.queue))
    /\ \A n \in DOMAIN g : Range(s.tree[n]) \subseteq Range(g[n])

\* In a breadth first search the queue is in the order of the distances w from the
\* root, and the tree has a shortest way to it.  With the k-th node to be expanded, the
\* links of those before it have been looked at and no node is further than those behind it.
IsLevelled(g, root, w, s, k) ==
    LET q == s.queue
    IN  /\ IsDistance(g, root, w) /\ root \in Range(q)
        /\ \A i \in DOMAIN q, j \in DOMAIN q : i <= j => w[q[i]] <= w[q[j]]
        /\ \A n \in DOMAIN g : \A m \in Range(s.tree[n]) : w[m] <= w[n] + 1
        /\ \A n \in Range(q) \ {root} : \E m \in DOMAIN g : m \in Range(s.tree[n]) /\ w[m] = w[n] - 1
        /\ \A j \in DOMAIN q : j < k => Range(g[q[j]]) \subseteq Range(q)
        /\ \A j \in DOMAIN q : k \in DOMAIN q => w[q[j]] <= w[q[k]] + 1

\* The search has gone on.
GoesOn(s, t) ==
    /\ DOMAIN s.queue \subseteq DOMAIN t.queue
    /\ \A i \in DOMAIN s.queue : t.queue[i] = s.queue[i]

LEMMA GoesOnRange == \A s, t : GoesOn(s, t) => Range(s.queue) \subseteq Range(t.queue)
BY DEF GoesOn, Range

LEMMA GraphNodes == \A g : IsGraph(g) => AreNodes(DOMAIN g)
BY DEF IsGraph, AreNodes

LEMMA QueueAppend ==
  ASSUME NEW D, NEW q \in Seq(D), NEW x \in D
  PROVE  /\ Append(q, x) \in Seq(D) /\ Range(Append(q, x)) = Range(q) \cup {x}
         /\ Len(q) \in Nat /\ DOMAIN q = 1 .. Len(q) /\ DOMAIN Append(q, x) = 1 .. Len(q) + 1
         /\ \A i \in 1 .. Len(q) : Append(q, x)[i] = q[i]
         /\ Append(q, x)[Len(q) + 1] = x
<1>1. Append(q, x) \in Seq(D) /\ Range(Append(q, x)) = Range(q) \cup {x}
  BY RangeAppend
<1> QED BY <1>1

\* A node that joins is linked to the tree and is the last in the queue.
IsJoined(g, s, t, n, to) ==
    /\ t.queue \in Seq(DOMAIN g) /\ Range(t.queue) = Range(s.queue) \cup {to}
    /\ Len(s.queue) \in Nat /\ DOMAIN s.queue = 1 .. Len(s.queue)
    /\ DOMAIN t.queue = 1 .. Len(s.queue) + 1
    /\ \A i \in 1 .. Len(s.queue) : t.queue[i] = s.queue[i]
    /\ t.queue[Len(s.queue) + 1] = to
    /\ t.tree = Link(s.tree, n, to) /\ n # to
    /\ IsLinked(t.tree, DOMAIN g, s.tree, n, to)
    /\ t = [tree |-> t.tree, queue |-> t.queue]

LEMMA JoinedIs ==
  ASSUME NEW g, NEW s, IsSearch(g, s), NEW n \in Range(s.queue), NEW p,
         g[n][p] \in DOMAIN g, g[n][p] \notin Range(s.queue)
  PROVE  IsJoined(g, s, Join(g, s, n, p), n, g[n][p])
<1> DEFINE to == g[n][p]
           t == Join(g, s, n, p)
           q == s.queue
<1>1. q \in Seq(DOMAIN g) /\ s.tree \in [DOMAIN g -> Seq(DOMAIN g)] /\ to \in DOMAIN g /\ to \notin Range(q)
  BY DEF IsSearch
<1>2. n \in DOMAIN g /\ n # to
  BY <1>1 DEF Range
<1>3. t = [tree |-> Link(s.tree, n, to), queue |-> Append(q, to)]
  BY <1>1 DEF Join
<1>4. IsLinked(Link(s.tree, n, to), DOMAIN g, s.tree, n, to)
  BY <1>1, <1>2, LinkAdds
<1> HIDE DEF to
<1>5. /\ Append(q, to) \in Seq(DOMAIN g) /\ Range(Append(q, to)) = Range(q) \cup {to}
      /\ Len(q) \in Nat /\ DOMAIN q = 1 .. Len(q) /\ DOMAIN Append(q, to) = 1 .. Len(q) + 1
      /\ \A i \in 1 .. Len(q) : Append(q, to)[i] = q[i]
      /\ Append(q, to)[Len(q) + 1] = to
  BY <1>1, QueueAppend
<1> HIDE DEF t
<1> QED BY <1>2, <1>3, <1>4, <1>5 DEF IsJoined, to, t

LEMMA JoinKeeps ==
  ASSUME NEW g, IsGraph(g), NEW s, IsSearch(g, s), NEW n \in Range(s.queue), NEW p \in DOMAIN g[n]
  PROVE  /\ IsSearch(g, Join(g, s, n, p)) /\ GoesOn(s, Join(g, s, n, p))
         /\ g[n][p] \in Range(Join(g, s, n, p).queue)
<1> DEFINE to == g[n][p]
           t == Join(g, s, n, p)
           D == DOMAIN g
<1>1. n \in D
  BY DEF IsSearch, Range
<1>2. to \in D /\ to \in Range(g[n])
  <2>1. g[n] \in Seq(D)
    BY <1>1 DEF IsGraph
  <2> QED BY <2>1 DEF Range
<1>3. CASE to \in Range(s.queue)
  <2>1. t = s
    BY <1>3 DEF Join
  <2> QED BY <1>3, <2>1 DEF GoesOn
<1>4. CASE to \notin Range(s.queue)
  <2>1. IsJoined(g, s, t, n, to)
    BY <1>2, <1>4, JoinedIs
  <2> HIDE DEF t, to
  <2>2. IsTree(t.tree, D, Range(s.queue) \cup {to})
    <3>1. IsTree(s.tree, D, Range(s.queue)) /\ to \in D \ Range(s.queue) /\ AreNodes(D)
      BY <1>2, <1>4, GraphNodes DEF IsSearch
    <3>2. t.tree = Link(s.tree, n, to)
      BY <2>1 DEF IsJoined
    <3> HIDE DEF D
    <3> QED BY <3>1, <3>2, LinkTree
  <2>3. /\ t.queue \in Seq(D) /\ Range(t.queue) = Range(s.queue) \cup {to}
        /\ Len(s.queue) \in Nat /\ DOMAIN s.queue = 1 .. Len(s.queue)
        /\ DOMAIN t.queue = 1 .. Len(s.queue) + 1
        /\ \A i \in 1 .. Len(s.queue) : t.queue[i] = s.queue[i]
        /\ t.queue[Len(s.queue) + 1] = to
        /\ t = [tree |-> t.tree, queue |-> t.queue]
    BY <2>1 DEF IsJoined
  <2>4. ASSUME NEW i \in DOMAIN t.queue, NEW j \in DOMAIN t.queue, t.queue[i] = t.queue[j] PROVE i = j
    <3>1. \A k \in 1 .. Len(s.queue) : t.queue[k] # to
      BY <1>4, <2>3 DEF Range
    <3>2. \A a \in 1 .. Len(s.queue), b \in 1 .. Len(s.queue) : s.queue[a] = s.queue[b] => a = b
      BY <2>3 DEF IsSearch
    <3> QED BY <2>3, <2>4, <3>1, <3>2
  <2>5. ASSUME NEW x \in D PROVE Range(t.tree[x]) \subseteq Range(g[x])
    <3>1. Range(s.tree[x]) \subseteq Range(g[x])
      BY DEF IsSearch
    <3>2. /\ Range(t.tree[n]) = Range(s.tree[n]) \cup {to} /\ Range(t.tree[to]) = Range(s.tree[to]) \cup {n}
          /\ x \notin {n, to} => t.tree[x] = s.tree[x]
      BY <2>1 DEF IsJoined, IsLinked
    <3>3. n \in Range(g[to])
      BY <1>1, <1>2, LinkedBack
    <3> QED BY <1>2, <3>1, <3>2, <3>3
  <2>6. t.tree \in [D -> Seq(D)]
    BY <2>1 DEF IsJoined, IsLinked
  <2>7. IsSearch(g, t)
    BY <2>2, <2>3, <2>4, <2>5, <2>6 DEF IsSearch
  <2>8. GoesOn(s, t) /\ to \in Range(t.queue)
    BY <2>3 DEF GoesOn
  <2> QED BY <2>7, <2>8 DEF t, to
<1> QED BY <1>3, <1>4

\* All nodes that are as near as the one that is expanded have been found.
LEMMA NearFound ==
  ASSUME NEW g, IsGraph(g), NEW s, IsSearch(g, s), NEW root, NEW w, NEW k \in DOMAIN s.queue,
         IsLevelled(g, root, w, s, k), NEW x \in DOMAIN g, w[x] <= w[s.queue[k]]
  PROVE  x \in Range(s.queue)
<1> DEFINE q == s.queue
           D == DOMAIN g
           T == {c \in Nat : \A y \in D : w[y] = c /\ c <= w[q[k]] => y \in Range(q)}
<1>1. /\ w \in [D -> Nat] /\ w[root] = 0
      /\ \A n \in D \ {root} : \E m \in D : m \in Range(g[n]) /\ w[m] = w[n] - 1
  BY DEF IsLevelled, IsDistance
<1>2. q \in Seq(D) /\ DOMAIN q = 1 .. Len(q) /\ Len(q) \in Nat
  BY DEF IsSearch
<1>3. q[k] \in D
  BY <1>2
<1>4. 0 \in T
  <2> SUFFICES ASSUME NEW y \in D, w[y] = 0 PROVE y \in Range(q)
    OBVIOUS
  <2>1. y = root
    BY <1>1
  <2> QED BY <2>1 DEF IsLevelled
<1>5. ASSUME NEW c \in Nat, c \in T PROVE c + 1 \in T
  <2> SUFFICES ASSUME NEW y \in D, w[y] = c + 1, c + 1 <= w[q[k]] PROVE y \in Range(q)
    OBVIOUS
  <2>1. PICK m \in D : m \in Range(g[y]) /\ w[m] = w[y] - 1
    BY <1>1
  <2>2. w[m] = c /\ c <= w[q[k]] /\ c < w[q[k]]
    BY <1>1, <1>3, <2>1
  <2>3. m \in Range(q)
    BY <1>5, <2>2
  <2>4. PICK i \in DOMAIN q : m = q[i]
    BY <2>3 DEF Range
  <2>5. i < k
    <3>1. k <= i => w[q[k]] <= w[q[i]]
      BY DEF IsLevelled
    <3> QED BY <1>1, <1>2, <1>3, <2>2, <2>4, <3>1
  <2>6. Range(g[m]) \subseteq Range(q)
    BY <2>4, <2>5 DEF IsLevelled
  <2>7. y \in Range(g[m])
    BY <2>1, LinkedBack
  <2> QED BY <2>6, <2>7
<1>6. \A c \in Nat : c \in T
  <2> HIDE DEF T
  <2> QED BY <1>4, <1>5, NoGraph, LP!SetInduction
<1> QED BY <1>1, <1>6

\* A node that joins is one further than the one it is linked to, if that is as far as
\* the one whose turn it is.
LEMMA NewWeight ==
  ASSUME NEW g, IsGraph(g), NEW s, IsSearch(g, s), NEW root, NEW w, NEW k \in DOMAIN s.queue,
         IsLevelled(g, root, w, s, k), NEW n \in Range(s.queue), w[n] = w[s.queue[k]],
         NEW p \in DOMAIN g[n]
  PROVE  /\ n \in DOMAIN g /\ g[n][p] \in DOMAIN g /\ g[n][p] \in Range(g[n])
         /\ w[n] \in Nat /\ w[g[n][p]] \in Nat
         /\ g[n][p] \notin Range(s.queue) => w[g[n][p]] = w[n] + 1
<1> DEFINE D == DOMAIN g
           to == g[n][p]
<1>1. n \in D
  BY DEF IsSearch, Range
<1>2. to \in D /\ to \in Range(g[n])
  <2>1. g[n] \in Seq(D)
    BY <1>1 DEF IsGraph
  <2> QED BY <2>1 DEF Range
<1>3. w \in [D -> Nat] /\ w[to] <= w[n] + 1
  BY <1>1, <1>2 DEF IsLevelled, IsDistance
<1>4. to \notin Range(s.queue) => ~(w[to] <= w[s.queue[k]])
  BY <1>2, NearFound
<1>5. w[n] \in Nat /\ w[to] \in Nat
  BY <1>1, <1>2, <1>3
<1> QED BY <1>1, <1>2, <1>3, <1>4, <1>5

LEMMA JoinLevels ==
  ASSUME NEW g, IsGraph(g), NEW s, IsSearch(g, s), NEW root, NEW w, NEW k \in DOMAIN s.queue,
         IsLevelled(g, root, w, s, k), NEW n \in Range(s.queue), w[n] = w[s.queue[k]],
         NEW p \in DOMAIN g[n]
  PROVE  IsLevelled(g, root, w, Join(g, s, n, p), k)
<1> DEFINE q == s.queue
           to == g[n][p]
           t == Join(g, s, n, p)
           D == DOMAIN g
<1>1. n \in Range(q) /\ n \in D /\ q \in Seq(D) /\ Range(q) \subseteq D
  BY DEF IsSearch, Range
<1>2. /\ to \in D /\ to \in Range(g[n]) /\ w[n] \in Nat /\ w[to] \in Nat
      /\ to \notin Range(q) => w[to] = w[n] + 1
  BY NewWeight
<1>3. CASE to \in Range(q)
  <2>1. t = s
    BY <1>3 DEF Join
  <2> QED BY <2>1
<1>4. CASE to \notin Range(q)
  <2>1. IsJoined(g, s, t, n, to)
    BY <1>1, <1>2, <1>4, JoinedIs
  <2>4. w[to] = w[n] + 1 /\ w[n] \in Nat /\ w[to] \in Nat
    BY <1>2, <1>4
  <2> HIDE DEF t, to
  <2>5. /\ Range(t.queue) = Range(q) \cup {to}
        /\ Len(q) \in Nat /\ DOMAIN q = 1 .. Len(q) /\ DOMAIN t.queue = 1 .. Len(q) + 1
        /\ \A i \in 1 .. Len(q) : t.queue[i] = q[i]
        /\ t.queue[Len(q) + 1] = to
    BY <2>1 DEF IsJoined
  <2>6. /\ Range(t.tree[n]) = Range(s.tree[n]) \cup {to} /\ Range(t.tree[to]) = Range(s.tree[to]) \cup {n}
        /\ \A x \in D : x \notin {n, to} => t.tree[x] = s.tree[x]
    BY <2>1 DEF IsJoined, IsLinked
  <2>7. /\ IsDistance(g, root, w) /\ root \in Range(q)
        /\ \A i \in DOMAIN q, j \in DOMAIN q : i <= j => w[q[i]] <= w[q[j]]
        /\ \A x \in D : \A m \in Range(s.tree[x]) : w[m] <= w[x] + 1
        /\ \A x \in Range(q) \ {root} : \E m \in D : m \in Range(s.tree[x]) /\ w[m] = w[x] - 1
        /\ \A j \in DOMAIN q : j < k => Range(g[q[j]]) \subseteq Range(q)
        /\ \A j \in DOMAIN q : w[q[j]] <= w[q[k]] + 1
    BY DEF IsLevelled
  <2>8. k \in 1 .. Len(q) /\ t.queue[k] = q[k] /\ w[t.queue[k]] = w[n]
    BY <2>5
  <2>9. ASSUME NEW j \in DOMAIN t.queue
        PROVE  t.queue[j] \in D /\ w[t.queue[j]] <= w[t.queue[k]] + 1
    <3>1. CASE j \in 1 .. Len(q)
      <4>1. t.queue[j] = q[j] /\ q[j] \in D
        BY <1>1, <2>5, <3>1
      <4> QED BY <2>5, <2>7, <2>8, <3>1, <4>1
    <3>2. CASE j = Len(q) + 1
      BY <1>2, <2>4, <2>5, <2>8, <3>2
    <3> QED BY <2>5, <3>1, <3>2
  <2>10. ASSUME NEW i \in DOMAIN t.queue, NEW j \in DOMAIN t.queue, i <= j
         PROVE  w[t.queue[i]] <= w[t.queue[j]]
    <3>1. CASE j \in 1 .. Len(q)
      <4>1. i \in 1 .. Len(q)
        BY <2>5, <2>10, <3>1
      <4> QED BY <2>5, <2>7, <2>10, <3>1, <4>1
    <3>2. CASE j = Len(q) + 1
      BY <2>4, <2>5, <2>8, <2>9, <3>2
    <3> QED BY <2>5, <3>1, <3>2
  <2>11. ASSUME NEW x \in D, NEW m \in Range(t.tree[x]) PROVE w[m] <= w[x] + 1
    <3>1. CASE m \in Range(s.tree[x])
      BY <2>7, <3>1
    <3>2. CASE m \notin Range(s.tree[x])
      <4>1. (x = n /\ m = to) \/ (x = to /\ m = n)
        BY <2>6, <2>11, <3>2
      <4> QED BY <2>4, <4>1
    <3> QED BY <3>1, <3>2
  <2>12. ASSUME NEW x \in Range(t.queue) \ {root}
         PROVE  \E m \in D : m \in Range(t.tree[x]) /\ w[m] = w[x] - 1
    <3>1. CASE x = to
      BY <1>1, <2>4, <2>6, <3>1
    <3>2. CASE x # to
      <4>1. x \in Range(q) \ {root} /\ x \in D
        BY <1>1, <2>5, <3>2
      <4>2. Range(s.tree[x]) \subseteq Range(t.tree[x])
        BY <2>6, <3>2, <4>1
      <4> QED BY <2>7, <4>1, <4>2
    <3> QED BY <3>1, <3>2
  <2>13. ASSUME NEW j \in DOMAIN t.queue, j < k PROVE Range(g[t.queue[j]]) \subseteq Range(t.queue)
    <3>1. j \in 1 .. Len(q)
      BY <2>5, <2>8, <2>13
    <3> QED BY <2>5, <2>7, <2>13, <3>1
  <2> QED BY <2>5, <2>7, <2>9, <2>10, <2>11, <2>12, <2>13 DEF IsLevelled, t
<1> QED BY <1>3, <1>4

\* Nodes join by the ports of n in the list.
Joins(g, s, n, list) == FoldLeft(LAMBDA t, p : Join(g, t, n, p), s, list)

\* What every turn keeps is so in the end, and every neighbour in the list has joined.
LEMMA JoinsAll ==
  ASSUME NEW g, NEW n, NEW list, NEW l \in Nat, DOMAIN list = 1 .. l, Len(list) = l,
         NEW U, NEW s \in U,
         \A u \in U : \A j \in 1 .. l :
            LET t == Join(g, u, n, list[j])
            IN  t \in U /\ g[n][list[j]] \in Range(t.queue) /\ GoesOn(u, t)
  PROVE  LET t == Joins(g, s, n, list)
         IN  t \in U /\ \A j \in 1 .. l : g[n][list[j]] \in Range(t.queue)
<1> DEFINE Iter(H) == H = [a \in SUBSET DOMAIN list |-> IF a = {} THEN s ELSE
                             LET x == Max(a) IN Join(g, H[a \ {x}], n, list[x])]
           f == CHOOSE H : Iter(H)
           step == [j \in 1 .. l |-> [u \in U |-> Join(g, u, n, list[j])]]
<1>3. Joins(g, s, n, list) = f[1 .. l]
  BY DEF Joins, FoldLeft, MapThenFoldSet
<1>6. step \in [1 .. l -> [U -> U]]
  OBVIOUS
<1>7. PICK H : LP!IsLoop(H, l, U, s, step)
  <2> HIDE DEF step, f, Iter
  <2> QED BY <1>6, NoGraph, LP!LoopExists
<1>8. Iter(f)
  <2>1. ASSUME NEW u \in SUBSET (1 .. l), u # {}
        PROVE  H[u] = Join(g, H[u \ {Max(u)}], n, list[Max(u)])
    <3>1. Max(u) \in 1 .. l /\ H[u \ {Max(u)}] \in U
      <4>1. Max(u) \in u
        BY <2>1, NoGraph, LP!MaxIn
      <4> QED BY <1>7, <4>1 DEF LP!IsLoop
    <3>2. H[u] = step[Max(u)][H[u \ {Max(u)}]]
      BY <1>7, <2>1, NoGraph DEF LP!IsLoop
    <3> QED BY <3>1, <3>2
  <2>2. H = [u \in SUBSET (1 .. l) |-> H[u]] /\ H[{}] = s
    BY <1>7 DEF LP!IsLoop
  <2>3. Iter(H)
    BY <2>1, <2>2
  <2> HIDE DEF Iter
  <2> QED BY <2>3
<1>9. \A a \in SUBSET (1 .. l) : f[a] = IF a = {} THEN s ELSE Join(g, f[a \ {Max(a)}], n, list[Max(a)])
  BY <1>8
<1> HIDE DEF f
<1>10. f[{}] = s /\ \A j \in 1 .. l : f[1 .. j] = Join(g, f[1 .. (j - 1)], n, list[j])
  <2>1. f[{}] = s
    BY <1>9
  <2>2. ASSUME NEW j \in 1 .. l PROVE f[1 .. j] = Join(g, f[1 .. (j - 1)], n, list[j])
    <3>1. 1 .. j \in SUBSET (1 .. l) /\ 1 .. j # {} /\ Max(1 .. j) = j
          /\ (1 .. j) \ {j} = 1 .. (j - 1)
      BY NoGraph, LP!FirstIndices
    <3> QED BY <1>9, <3>1, Zenon
  <2> QED BY <2>1, <2>2
<1> HIDE DEF Iter
<1> DEFINE S == {j \in Nat : j <= l => /\ f[1 .. j] \in U
                                       /\ \A i \in 1 .. j : g[n][list[i]] \in Range(f[1 .. j].queue)}
<1>11. 0 \in S
  BY <1>10, 1 .. 0 = {}
<1>12. ASSUME NEW j \in Nat, j \in S PROVE j + 1 \in S
  <2> SUFFICES ASSUME j + 1 <= l
               PROVE  /\ f[1 .. (j + 1)] \in U
                      /\ \A i \in 1 .. j + 1 : g[n][list[i]] \in Range(f[1 .. (j + 1)].queue)
    OBVIOUS
  <2> DEFINE u == f[1 .. j]
             t == Join(g, u, n, list[j + 1])
  <2>1. j + 1 \in 1 .. l /\ (j + 1) - 1 = j /\ u \in U /\ \A i \in 1 .. j : g[n][list[i]] \in Range(u.queue)
    BY <1>12
  <2>2. f[1 .. (j + 1)] = t
    BY <1>10, <2>1
  <2> HIDE DEF u
  <2>3. t \in U /\ g[n][list[j + 1]] \in Range(t.queue) /\ GoesOn(u, t)
    BY <2>1
  <2> HIDE DEF t
  <2>4. Range(u.queue) \subseteq Range(t.queue)
    BY <2>3, GoesOnRange
  <2>5. ASSUME NEW i \in 1 .. j + 1 PROVE g[n][list[i]] \in Range(t.queue)
    <3>1. CASE i \in 1 .. j
      BY <2>1, <2>4, <3>1
    <3>2. CASE i = j + 1
      BY <2>3, <3>2
    <3> QED BY <3>1, <3>2
  <2>6. t \in U /\ \A i \in 1 .. j + 1 : g[n][list[i]] \in Range(t.queue)
    BY <2>3, <2>5
  <2> QED BY <2>2, <2>6, Zenon
<1>13. \A j \in Nat : j \in S
  <2> HIDE DEF S
  <2> QED BY <1>11, <1>12, NoGraph, LP!SetInduction
<1> QED BY <1>3, <1>13

\* The k-th node is expanded: the turns of BreadthFirst.
Expand(g, s, k) == Joins(g, s, s.queue[k], [p \in DOMAIN g[s.queue[k]] |-> p])

\* What a search is between two turns.
IsTurn(g, root, w, s, k) == IsSearch(g, s) /\ IsLevelled(g, root, w, s, k)

LEMMA GoesOnBoth == \A r, s, t : GoesOn(r, s) /\ GoesOn(s, t) => GoesOn(r, t)
BY DEF GoesOn

LEMMA ExpandKeeps ==
  ASSUME NEW g, IsGraph(g), NEW root, NEW w, NEW s, NEW k \in DOMAIN s.queue, IsTurn(g, root, w, s, k)
  PROVE  GoesOn(s, Expand(g, s, k)) /\ IsTurn(g, root, w, Expand(g, s, k), k + 1)
<1> DEFINE D == DOMAIN g
           n == s.queue[k]
           list == [p \in DOMAIN g[n] |-> p]
           l == Len(g[n])
           U == {t \in [tree : [D -> Seq(D)], queue : Seq(D)] :
                    IsTurn(g, root, w, t, k) /\ GoesOn(s, t)}
           t == Expand(g, s, k)
<1>1. n \in D /\ n \in Range(s.queue) /\ g[n] \in Seq(D) /\ k \in Nat
  <2>1. s.queue \in Seq(D)
    BY DEF IsTurn, IsSearch
  <2> QED BY <2>1 DEF IsGraph, Range
<1>2. l \in Nat /\ DOMAIN g[n] = 1 .. l /\ DOMAIN list = 1 .. l /\ \A p \in 1 .. l : list[p] = p
  BY <1>1
<1>3. t = Joins(g, s, n, list) /\ Len(list) = l
  <2>1. list = [p \in 1 .. l |-> p]
    BY <1>2
  <2> QED BY <1>2, <2>1 DEF Expand
<1> HIDE DEF t, list, l, n
<1>4. s \in U
  BY DEF IsTurn, IsSearch, GoesOn
<1>5. ASSUME NEW u \in U, NEW p \in 1 .. l
      PROVE  Join(g, u, n, p) \in U /\ g[n][p] \in Range(Join(g, u, n, p).queue) /\ GoesOn(u, Join(g, u, n, p))
  <2>1. k \in DOMAIN u.queue /\ u.queue[k] = n /\ IsSearch(g, u) /\ IsLevelled(g, root, w, u, k)
    BY DEF GoesOn, IsTurn, n
  <2>2. n \in Range(u.queue) /\ p \in DOMAIN g[n]
    BY <1>2, <2>1 DEF Range
  <2> DEFINE v == Join(g, u, n, p)
  <2>3. IsSearch(g, v) /\ GoesOn(u, v) /\ g[n][p] \in Range(v.queue)
    BY <2>1, <2>2, JoinKeeps
  <2>4. IsLevelled(g, root, w, v, k)
    BY <2>1, <2>2, JoinLevels
  <2> HIDE DEF v
  <2>5. GoesOn(s, v)
    BY <2>3, GoesOnBoth
  <2>6. v \in [tree : [D -> Seq(D)], queue : Seq(D)]
    BY <2>3 DEF IsSearch
  <2> QED BY <2>3, <2>4, <2>5, <2>6 DEF IsTurn, v
<1> HIDE DEF U
<1>13. t \in U /\ \A i \in 1 .. l : g[n][i] \in Range(t.queue)
  <2>1. /\ Joins(g, s, n, list) \in U
        /\ \A j \in 1 .. l : g[n][list[j]] \in Range(Joins(g, s, n, list).queue)
    <3>1. \A u \in U : \A j \in 1 .. l :
             LET v == Join(g, u, n, list[j])
             IN  v \in U /\ g[n][list[j]] \in Range(v.queue) /\ GoesOn(u, v)
      BY <1>2, <1>5
    <3> HIDE DEF D
    <3> QED BY <1>2, <1>3, <1>4, <3>1, JoinsAll
  <2> QED BY <1>2, <1>3, <2>1
<1>14. IsSearch(g, t) /\ IsLevelled(g, root, w, t, k) /\ GoesOn(s, t)
  BY <1>13 DEF U, IsTurn
<1>15. k \in DOMAIN t.queue /\ t.queue[k] = n /\ DOMAIN t.queue = 1 .. Len(t.queue) /\ Len(t.queue) \in Nat
       /\ \A j \in DOMAIN t.queue : t.queue[j] \in D
  <2>1. t.queue \in Seq(D)
    BY <1>14 DEF IsSearch
  <2>2. k \in DOMAIN t.queue /\ t.queue[k] = n
    BY <1>14 DEF GoesOn, n
  <2> QED BY <2>1, <2>2
<1>16. Range(g[n]) \subseteq Range(t.queue)
  BY <1>2, <1>13 DEF Range
<1>17. IsLevelled(g, root, w, t, k + 1)
  <2> DEFINE q == t.queue
  <2>1. /\ IsDistance(g, root, w) /\ root \in Range(q)
        /\ \A i \in DOMAIN q, j \in DOMAIN q : i <= j => w[q[i]] <= w[q[j]]
        /\ \A x \in D : \A m \in Range(t.tree[x]) : w[m] <= w[x] + 1
        /\ \A x \in Range(q) \ {root} : \E m \in D : m \in Range(t.tree[x]) /\ w[m] = w[x] - 1
        /\ \A j \in DOMAIN q : j < k => Range(g[q[j]]) \subseteq Range(q)
        /\ \A j \in DOMAIN q : w[q[j]] <= w[q[k]] + 1
    BY <1>14, <1>15 DEF IsLevelled
  <2>2. \A j \in DOMAIN q : j < k + 1 => Range(g[q[j]]) \subseteq Range(q)
    <3> SUFFICES ASSUME NEW j \in DOMAIN q, j < k + 1 PROVE Range(g[q[j]]) \subseteq Range(q)
      OBVIOUS
    <3>1. j < k \/ j = k
      BY <1>1, <1>15
    <3> QED BY <1>15, <1>16, <2>1, <3>1
  <2>3. ASSUME NEW j \in DOMAIN q, k + 1 \in DOMAIN q PROVE w[q[j]] <= w[q[k + 1]] + 1
    <3>1. w[q[k]] <= w[q[k + 1]] /\ w[q[j]] <= w[q[k]] + 1
      BY <1>1, <1>15, <2>1, <2>3
    <3>2. w \in [D -> Nat]
      BY <2>1 DEF IsDistance
    <3>3. w[q[j]] \in Nat /\ w[q[k]] \in Nat /\ w[q[k + 1]] \in Nat
      BY <1>15, <2>3, <3>2
    <3> QED BY <3>1, <3>3
  <2> QED BY <2>1, <2>2, <2>3 DEF IsLevelled
<1> QED BY <1>14, <1>17 DEF IsTurn, t

\* The function of sets of indices by which BreadthFirst is defined.
IsExpansion(H, g, base, m) ==
    H = [a \in SUBSET (1 .. m) |-> IF a = {} THEN base ELSE Expand(g, H[a \ {Max(a)}], Max(a))]

LEMMA ExpansionExists ==
  ASSUME NEW n \in Nat, NEW g, NEW base
  PROVE  \E H : IsExpansion(H, g, base, n)
<1> DEFINE S == {m \in Nat : \E H : IsExpansion(H, g, base, m)}
<1>1. 0 \in S
  <2> DEFINE H == [a \in SUBSET (1 .. 0) |-> base]
  <2>1. H = [a \in SUBSET (1 .. 0) |-> IF a = {} THEN base ELSE Expand(g, H[a \ {Max(a)}], Max(a))]
    BY 1 .. 0 = {}
  <2>2. IsExpansion(H, g, base, 0)
    <3> HIDE DEF H
    <3> QED BY <2>1 DEF IsExpansion
  <2> QED BY <2>2
<1>2. ASSUME NEW m \in Nat, m \in S PROVE m + 1 \in S
  <2>1. PICK e : IsExpansion(e, g, base, m)
    BY <1>2
  <2> DEFINE H == [a \in SUBSET (1 .. (m + 1)) |->
                     IF m + 1 \in a THEN Expand(g, e[a \ {m + 1}], m + 1) ELSE e[a]]
  <2>2. ASSUME NEW a \in SUBSET (1 .. (m + 1))
        PROVE  H[a] = (IF a = {} THEN base ELSE Expand(g, H[a \ {Max(a)}], Max(a)))
    <3>1. a # {} => H[a \ {Max(a)}] = e[a \ {Max(a)}]
      BY <2>1, NoGraph, LP!LastIndex
    <3>2. CASE m + 1 \in a
      <4>1. a # {} /\ Max(a) = m + 1
        BY <3>2, NoGraph, LP!LastIndex
      <4>2. H[a] = Expand(g, e[a \ {m + 1}], m + 1)
        BY <3>2
      <4> HIDE DEF H
      <4> QED BY <3>1, <4>1, <4>2
    <3>3. CASE m + 1 \notin a
      <4>1. a \in SUBSET (1 .. m) /\ H[a] = e[a]
        BY <3>3, NoGraph, LP!LastIndex
      <4>2. e[a] = IF a = {} THEN base ELSE Expand(g, e[a \ {Max(a)}], Max(a))
        BY <4>1, <2>1 DEF IsExpansion
      <4> HIDE DEF H
      <4> QED BY <4>1, <4>2, <3>1
    <3> QED BY <3>2, <3>3
  <2>3. H = [a \in SUBSET (1 .. (m + 1)) |-> H[a]]
    OBVIOUS
  <2> HIDE DEF H
  <2>4. H = [a \in SUBSET (1 .. (m + 1)) |->
               IF a = {} THEN base ELSE Expand(g, H[a \ {Max(a)}], Max(a))]
    BY <2>2, <2>3
  <2>5. IsExpansion(H, g, base, m + 1)
    BY <2>4 DEF IsExpansion
  <2> QED BY <2>5
<1>3. \A m \in Nat : m \in S
  <2> HIDE DEF S
  <2> QED BY <1>1, <1>2, NoGraph, LP!SetInduction
<1> QED BY <1>3

LEMMA BreadthFirstIs ==
  ASSUME NEW g, AreNodes(DOMAIN g), NEW root
  PROVE  \E H : /\ BreadthFirst(g, root) = H[1 .. Cardinality(DOMAIN g)]
                /\ IsExpansion(H, g, Search(g, root), Cardinality(DOMAIN g))
<1> DEFINE l == Cardinality(DOMAIN g)
           list == [k \in DOMAIN NodeList(g) |-> k]
           base == Search(g, root)
           Iter(H) == H = [a \in SUBSET DOMAIN list |-> IF a = {} THEN base ELSE
                             LET x == Max(a) IN Expand(g, H[a \ {x}], list[x])]
           f == CHOOSE H : Iter(H)
<1>1. l \in Nat
  BY FS_CardinalityType DEF AreNodes
<1>2. DOMAIN list = 1 .. l /\ (\A k \in 1 .. l : list[k] = k) /\ Len(list) = l
  BY <1>1 DEF NodeList, NodeCount
<1>3. BreadthFirst(g, root) = f[1 .. l]
  BY <1>2 DEF BreadthFirst, Expand, Joins, FoldLeft, MapThenFoldSet
<1> HIDE DEF list, l, base
<1>4. PICK H : IsExpansion(H, g, base, l)
  BY <1>1, ExpansionExists
<1>5. \A F : Iter(F) <=> IsExpansion(F, g, base, l)
  <2> SUFFICES ASSUME NEW F PROVE Iter(F) <=> IsExpansion(F, g, base, l)
    OBVIOUS
  <2>1. ASSUME NEW a \in SUBSET (1 .. l), a # {} PROVE list[Max(a)] = Max(a)
    <3>1. Max(a) \in a
      BY <1>1, <2>1, NoGraph, LP!MaxIn
    <3> QED BY <1>2, <3>1
  <2>2. [a \in SUBSET DOMAIN list |-> IF a = {} THEN base ELSE
                             LET x == Max(a) IN Expand(g, F[a \ {x}], list[x])]
        = [a \in SUBSET (1 .. l) |-> IF a = {} THEN base ELSE Expand(g, F[a \ {Max(a)}], Max(a))]
    BY <1>2, <2>1
  <2> QED BY <2>2 DEF IsExpansion
<1>6. IsExpansion(f, g, base, l)
  <2> HIDE DEF Iter
  <2> QED BY <1>4, <1>5
<1> QED BY <1>3, <1>6 DEF l, base

LEMMA StartSearch ==
  ASSUME NEW g, IsGraph(g), NEW root \in DOMAIN g
  PROVE  IsSearch(g, Search(g, root))
<1> DEFINE s == Search(g, root)
           D == DOMAIN g
<1>1. s = [tree |-> NoLinks(g), queue |-> <<root>>]
  BY DEF Search
<1>2. IsTree(NoLinks(g), D, {root})
  BY GraphNodes, NoLinksTree
<1>3. /\ <<root>> \in Seq(D) /\ DOMAIN <<root>> = {1} /\ <<root>>[1] = root
      /\ Range(<<root>>) = {root}
  <2>1. <<root>> \in Seq(D) /\ DOMAIN <<root>> = {1} /\ <<root>>[1] = root
    OBVIOUS
  <2> QED BY <2>1 DEF Range
<1>4. NoLinks(g) \in [D -> Seq(D)] /\ \A n \in D : Range(NoLinks(g)[n]) = {}
  BY DEF NoLinks, Range
<1>5. IsSearch(g, s)
  <2>1. s.tree = NoLinks(g) /\ s.queue = <<root>>
    BY <1>1
  <2>2. s \in [tree : [D -> Seq(D)], queue : Seq(D)]
    BY <1>1, <1>3, <1>4
  <2> HIDE DEF s
  <2>3. \A i \in DOMAIN s.queue, j \in DOMAIN s.queue : s.queue[i] = s.queue[j] => i = j
    BY <1>3, <2>1
  <2>4. IsTree(s.tree, D, Range(s.queue))
    BY <1>2, <1>3, <2>1
  <2>5. \A n \in D : Range(s.tree[n]) \subseteq Range(g[n])
    BY <1>4, <2>1
  <2> QED BY <2>2, <2>3, <2>4, <2>5 DEF IsSearch
<1> QED BY <1>5 DEF s

LEMMA StartTurn ==
  ASSUME NEW g, IsGraph(g), NEW root \in DOMAIN g, NEW w, IsDistance(g, root, w)
  PROVE  IsTurn(g, root, w, Search(g, root), 1)
<1> DEFINE s == Search(g, root)
           D == DOMAIN g
<1>1. s = [tree |-> NoLinks(g), queue |-> <<root>>]
  BY DEF Search
<1>2. IsSearch(g, s)
  BY StartSearch
<1>3. DOMAIN <<root>> = {1} /\ <<root>>[1] = root /\ Range(<<root>>) = {root}
  BY DEF Range
<1>4. \A n \in D : Range(NoLinks(g)[n]) = {}
  BY DEF NoLinks, Range
<1>5. w \in [D -> Nat]
  BY DEF IsDistance
<1>6. IsLevelled(g, root, w, s, 1)
  BY <1>1, <1>3, <1>4, <1>5 DEF IsLevelled
<1> QED BY <1>2, <1>6 DEF IsTurn, s

\* The queue is as long as there are nodes in the tree.
LEMMA QueueLength ==
  ASSUME NEW g, IsGraph(g), NEW s, IsSearch(g, s)
  PROVE  /\ Len(s.queue) \in Nat /\ DOMAIN s.queue = 1 .. Len(s.queue)
         /\ Range(s.queue) \subseteq DOMAIN g
         /\ Cardinality(Range(s.queue)) = Len(s.queue) /\ Len(s.queue) <= Cardinality(DOMAIN g)
<1> DEFINE q == s.queue
           R == Range(q)
           f == [i \in 1 .. Len(q) |-> q[i]]
<1>1. /\ q \in Seq(DOMAIN g)
      /\ \A i \in DOMAIN q, j \in DOMAIN q : q[i] = q[j] => i = j
  BY DEF IsSearch
<1>2. Len(q) \in Nat /\ DOMAIN q = 1 .. Len(q) /\ IsFiniteSet(DOMAIN g) /\ R \subseteq DOMAIN g
  BY <1>1 DEF IsGraph, Range
<1>3. IsFiniteSet(1 .. Len(q)) /\ Cardinality(1 .. Len(q)) = Len(q)
  BY <1>2, FS_Interval
<1>4. f \in Bijection(1 .. Len(q), R)
  <2>1. \A i \in 1 .. Len(q) : q[i] \in R
    BY <1>2 DEF Range
  <2>2. f \in [1 .. Len(q) -> R]
    BY <2>1
  <2>3. f \in Injection(1 .. Len(q), R)
    BY <1>1, <1>2, <2>2 DEF Injection, IsInjective
  <2>4. f \in Surjection(1 .. Len(q), R)
    BY <1>2, <2>2 DEF Surjection, Range
  <2> QED BY <2>3, <2>4 DEF Bijection
<1> HIDE DEF f, R
<1>5. Cardinality(R) = Len(q)
  BY <1>3, <1>4, FS_Bijection DEF ExistsBijection
<1>6. Cardinality(R) <= Cardinality(DOMAIN g)
  BY <1>2, FS_Subset
<1> QED BY <1>2, <1>5, <1>6 DEF R

\* When all nodes found are expanded, all are found.
LEMMA QueueFull ==
  ASSUME NEW g, IsGraph(g), IsConnected(g), NEW root, NEW w, NEW s, NEW k,
         IsTurn(g, root, w, s, k), k \notin DOMAIN s.queue, k \in Nat, k > 0
  PROVE  Range(s.queue) = DOMAIN g
<1> DEFINE q == s.queue
<1>1. IsSearch(g, s) /\ root \in Range(q) /\ \A j \in DOMAIN q : j < k => Range(g[q[j]]) \subseteq Range(q)
  BY DEF IsTurn, IsLevelled
<1>2. Len(q) \in Nat /\ DOMAIN q = 1 .. Len(q) /\ Range(q) \subseteq DOMAIN g
  BY <1>1, QueueLength
<1>3. \A n \in Range(q) : Range(g[n]) \subseteq Range(q)
  <2> SUFFICES ASSUME NEW n \in Range(q) PROVE Range(g[n]) \subseteq Range(q)
    OBVIOUS
  <2>1. PICK j \in DOMAIN q : n = q[j]
    BY DEF Range
  <2>2. j < k
    BY <1>2
  <2> QED BY <1>1, <2>1, <2>2
<1> QED BY <1>1, <1>2, <1>3 DEF IsConnected

\* The tree t spans the graph g by shortest ways from the root.
IsShortest(t, g, root, w) ==
    /\ IsTree(t, DOMAIN g, DOMAIN g) /\ IsDistance(t, root, w)
    /\ \A n \in DOMAIN g : Range(t[n]) \subseteq Range(g[n])

\* The tree of a search that has found all nodes.
LEMMA SearchShortest ==
  ASSUME NEW g, NEW root, NEW w, NEW s, NEW k, IsSearch(g, s), IsLevelled(g, root, w, s, k),
         Range(s.queue) = DOMAIN g
  PROVE  IsShortest(s.tree, g, root, w)
<1> DEFINE D == DOMAIN g
<1>1. IsTree(s.tree, D, D) /\ s.tree \in [D -> Seq(D)] /\ \A n \in D : Range(s.tree[n]) \subseteq Range(g[n])
  BY DEF IsSearch
<1>2. /\ \A n \in D : \A m \in Range(s.tree[n]) : w[m] <= w[n] + 1
      /\ \A n \in D \ {root} : \E m \in D : m \in Range(s.tree[n]) /\ w[m] = w[n] - 1
      /\ w \in [D -> Nat] /\ w[root] = 0
  BY DEF IsLevelled, IsDistance
<1>3. IsDistance(s.tree, root, w)
  <2>1. DOMAIN s.tree = D
    BY <1>1
  <2> QED BY <1>2, <2>1 DEF IsDistance
<1> QED BY <1>1, <1>3 DEF IsShortest

\* A breadth first search finds all nodes, in the order of their distances.
LEMMA BreadthSearch ==
  ASSUME NEW g, IsGraph(g), IsConnected(g), NEW root \in DOMAIN g, NEW w, IsDistance(g, root, w)
  PROVE  LET s == BreadthFirst(g, root)
         IN  IsSearch(g, s) /\ Range(s.queue) = DOMAIN g /\ \E k : IsLevelled(g, root, w, s, k)
<1> DEFINE D == DOMAIN g
           N == Cardinality(D)
           base == Search(g, root)
<1>1. N \in Nat /\ N # 0 /\ AreNodes(D) /\ IsFiniteSet(D)
  BY GraphNodes, FS_CardinalityType, FS_EmptySet DEF AreNodes
<1>2. PICK f : BreadthFirst(g, root) = f[1 .. N] /\ IsExpansion(f, g, base, N)
  BY <1>1, BreadthFirstIs
<1>3. f[{}] = base /\ \A k \in 1 .. N : f[1 .. k] = Expand(g, f[1 .. (k - 1)], k)
  <2>1. \A a \in SUBSET (1 .. N) : f[a] = IF a = {} THEN base ELSE Expand(g, f[a \ {Max(a)}], Max(a))
    BY <1>2 DEF IsExpansion
  <2> HIDE DEF base, N
  <2>2. f[{}] = base
    BY <2>1
  <2>3. ASSUME NEW k \in 1 .. N PROVE f[1 .. k] = Expand(g, f[1 .. (k - 1)], k)
    <3>1. 1 .. k \in SUBSET (1 .. N) /\ 1 .. k # {} /\ Max(1 .. k) = k
          /\ (1 .. k) \ {k} = 1 .. (k - 1)
      BY <1>1, NoGraph, LP!FirstIndices
    <3> QED BY <2>1, <3>1, Zenon
  <2> QED BY <2>2, <2>3
<1> HIDE DEF N, base
<1> DEFINE S == {k \in Nat : k <= N => IsTurn(g, root, w, f[1 .. k], k + 1)}
<1>4. 0 \in S
  <2>1. IsTurn(g, root, w, base, 1)
    BY StartTurn DEF base
  <2> QED BY <1>3, <2>1, 1 .. 0 = {}
<1>5. ASSUME NEW k \in Nat, k \in S PROVE k + 1 \in S
  <2> SUFFICES ASSUME k + 1 <= N PROVE IsTurn(g, root, w, f[1 .. (k + 1)], (k + 1) + 1)
    OBVIOUS
  <2> DEFINE s == f[1 .. k]
             m == k + 1
  <2>1. m \in 1 .. N /\ m - 1 = k /\ m \in Nat /\ m > 0 /\ IsTurn(g, root, w, s, m)
    BY <1>1, <1>5
  <2>2. f[1 .. m] = Expand(g, s, m)
    BY <1>3, <2>1
  <2> HIDE DEF s, m
  <2>3. m \in DOMAIN s.queue
    <3> SUFFICES ASSUME m \notin DOMAIN s.queue PROVE FALSE
      OBVIOUS
    <3>1. Range(s.queue) = D
      BY <2>1, QueueFull
    <3>2. Len(s.queue) = N /\ DOMAIN s.queue = 1 .. Len(s.queue)
      BY <2>1, <3>1, QueueLength DEF IsTurn, N
    <3> QED BY <2>1, <3>2
  <2>4. IsTurn(g, root, w, Expand(g, s, m), m + 1)
    BY <2>1, <2>3, ExpandKeeps
  <2> QED BY <2>2, <2>4 DEF m
<1>6. \A k \in Nat : k \in S
  <2> HIDE DEF S
  <2> QED BY <1>4, <1>5, NoGraph, LP!SetInduction
<1> DEFINE t == f[1 .. N]
<1>7. IsTurn(g, root, w, t, N + 1) /\ N + 1 \in Nat /\ N + 1 > 0
  BY <1>1, <1>6
<1>8. BreadthFirst(g, root) = t
  BY <1>2
<1> HIDE DEF S, t
<1>9. IsSearch(g, t) /\ IsLevelled(g, root, w, t, N + 1)
  BY <1>7 DEF IsTurn
<1>10. Range(t.queue) = D
  <2>1. Len(t.queue) \in Nat /\ Len(t.queue) <= N /\ DOMAIN t.queue = 1 .. Len(t.queue)
    BY <1>9, QueueLength DEF N
  <2>2. N + 1 \notin DOMAIN t.queue
    BY <1>1, <2>1
  <2> QED BY <1>7, <2>2, QueueFull
<1> QED BY <1>8, <1>9, <1>10

LEMMA BreadthTree ==
  ASSUME NEW g, IsGraph(g), IsConnected(g), NEW root \in DOMAIN g, NEW w, IsDistance(g, root, w)
  PROVE  IsShortest(TGen1(g, root), g, root, w)
BY BreadthSearch, SearchShortest DEF TGen1

Searches(g) == {s \in [tree : [DOMAIN g -> Seq(DOMAIN g)], queue : Seq(DOMAIN g)] : IsSearch(g, s)}

\* When neighbours of n join in any order, the tree grows if one of them was not in it.
LEMMA JoinsGrow ==
  ASSUME NEW g, IsGraph(g), NEW s, IsSearch(g, s), NEW n \in Range(s.queue),
         ~(Range(g[n]) \subseteq Range(s.queue)), NEW order \in SetToSeqs(DOMAIN g[n])
  PROVE  IsSearch(g, Joins(g, s, n, order)) /\ Len(s.queue) < Len(Joins(g, s, n, order).queue)
<1> DEFINE D == DOMAIN g
           P == DOMAIN g[n]
           l == Len(g[n])
           U == {t \in Searches(g) : GoesOn(s, t)}
           t == Joins(g, s, n, order)
<1>1. s.queue \in Seq(D) /\ n \in D /\ g[n] \in Seq(D)
  <2>1. s.queue \in Seq(D)
    BY DEF IsSearch
  <2>2. n \in D
    BY <2>1 DEF Range
  <2> QED BY <2>1, <2>2 DEF IsGraph
<1>2. l \in Nat /\ P = 1 .. l /\ IsFiniteSet(P) /\ Cardinality(P) = l
  <2>1. l \in Nat /\ P = 1 .. l
    BY <1>1
  <2> HIDE DEF l, P
  <2> QED BY <2>1, FS_Interval
<1>3. order \in [1 .. l -> P] /\ \A i \in 1 .. l, j \in 1 .. l : i # j => order[i] # order[j]
  BY <1>2 DEF SetToSeqs
<1> HIDE DEF P, l, t
<1>4. order \in Surjection(1 .. l, P)
  <2>1. order \in Injection(1 .. l, P)
    BY <1>3 DEF Injection, IsInjective
  <2>2. Cardinality(1 .. l) = Cardinality(P)
    BY <1>2
  <2> QED BY <1>2, <2>1, <2>2, FS_Injection
<1>5. DOMAIN order = 1 .. l /\ Len(order) = l
  BY <1>2, <1>3
<1>6. s \in U
  BY DEF Searches, IsSearch, GoesOn
<1>7. ASSUME NEW u \in U, NEW j \in 1 .. l
      PROVE  LET v == Join(g, u, n, order[j])
             IN  v \in U /\ g[n][order[j]] \in Range(v.queue) /\ GoesOn(u, v)
  <2> DEFINE v == Join(g, u, n, order[j])
  <2>1. IsSearch(g, u) /\ GoesOn(s, u) /\ order[j] \in DOMAIN g[n]
    BY <1>3 DEF Searches, P
  <2>2. n \in Range(u.queue)
    BY <2>1, GoesOnRange
  <2>3. IsSearch(g, v) /\ GoesOn(u, v) /\ g[n][order[j]] \in Range(v.queue)
    BY <2>1, <2>2, JoinKeeps
  <2> HIDE DEF v
  <2>4. GoesOn(s, v)
    BY <2>1, <2>3, GoesOnBoth
  <2>5. v \in Searches(g)
    BY <2>3 DEF IsSearch, Searches
  <2> QED BY <2>3, <2>4, <2>5 DEF v
<1> HIDE DEF U
<1>8. t \in U /\ \A j \in 1 .. l : g[n][order[j]] \in Range(t.queue)
  BY <1>2, <1>5, <1>6, <1>7, JoinsAll DEF t
<1>9. IsSearch(g, t) /\ GoesOn(s, t)
  BY <1>8 DEF U, Searches
<1>10. Range(s.queue) \subseteq Range(t.queue) /\ Range(t.queue) # Range(s.queue)
  <2>1. PICK p \in P : g[n][p] \notin Range(s.queue)
    BY DEF Range, P
  <2>2. PICK j \in 1 .. l : order[j] = p
    BY <1>4, <2>1 DEF Surjection, Range
  <2> QED BY <1>8, <1>9, <2>1, <2>2, GoesOnRange
<1>11. /\ Cardinality(Range(s.queue)) = Len(s.queue) /\ Cardinality(Range(t.queue)) = Len(t.queue)
       /\ Range(t.queue) \subseteq D /\ IsFiniteSet(D) /\ Len(s.queue) \in Nat /\ Len(t.queue) \in Nat
  BY <1>9, QueueLength DEF IsGraph
<1>12. IsFiniteSet(Range(t.queue))
  BY <1>11, FS_Subset
<1>13. Len(s.queue) < Len(t.queue)
  BY <1>10, <1>11, <1>12, FS_Subset
<1> QED BY <1>9, <1>13 DEF t

\* A round of TREE_RANDOM: trees with all nodes are left alone, the others grow.
RandomRound(g, ss) ==
    UNION {IF Len(s.queue) = NodeCount(g) THEN {s} ELSE Grown(g, s) : s \in ss}

LEMMA RandomGrows ==
  ASSUME NEW g, IsGraph(g), NEW ss \in SUBSET Searches(g), NEW k \in Nat,
         \A s \in ss : Len(s.queue) = Cardinality(DOMAIN g) \/ Len(s.queue) > k
  PROVE  /\ RandomRound(g, ss) \in SUBSET Searches(g)
         /\ \A t \in RandomRound(g, ss) : Len(t.queue) = Cardinality(DOMAIN g) \/ Len(t.queue) > k + 1
<1> SUFFICES ASSUME NEW t \in RandomRound(g, ss)
             PROVE  t \in Searches(g) /\ (Len(t.queue) = Cardinality(DOMAIN g) \/ Len(t.queue) > k + 1)
  OBVIOUS
<1>1. PICK s \in ss : t \in IF Len(s.queue) = Cardinality(DOMAIN g) THEN {s} ELSE Grown(g, s)
  BY DEF RandomRound, NodeCount
<1>2. CASE Len(s.queue) = Cardinality(DOMAIN g)
  BY <1>1, <1>2
<1>3. CASE Len(s.queue) # Cardinality(DOMAIN g)
  <2>1. t \in Grown(g, s) /\ IsSearch(g, s)
    BY <1>1, <1>3 DEF Searches
  <2>2. PICK n \in Range(s.queue) :
           /\ ~(Range(g[n]) \subseteq Range(s.queue))
           /\ t \in {Joins(g, s, n, order) : order \in SetToSeqs(DOMAIN g[n])}
    BY <2>1 DEF Grown, Joins
  <2>3. PICK order \in SetToSeqs(DOMAIN g[n]) : t = Joins(g, s, n, order)
    BY <2>2
  <2>4. IsSearch(g, t) /\ Len(s.queue) < Len(t.queue)
    BY <2>1, <2>2, <2>3, JoinsGrow
  <2>5. Len(s.queue) \in Nat /\ Len(t.queue) \in Nat
    BY <2>1, <2>4, QueueLength
  <2>6. t \in Searches(g)
    BY <2>4 DEF IsSearch, Searches
  <2> QED BY <1>3, <2>4, <2>5, <2>6
<1> QED BY <1>2, <1>3

LEMMA RandomTrees ==
  ASSUME NEW g, IsGraph(g), DOMAIN g # {}, NEW t \in RandomSubtrees(g)
  PROVE  IsTree(t, DOMAIN g, DOMAIN g) /\ \A n \in DOMAIN g : Range(t[n]) \subseteq Range(g[n])
<1> DEFINE D == DOMAIN g
           l == Cardinality(D)
           list == NodeList(g)
           start == {Search(g, n) : n \in D}
           U == SUBSET Searches(g)
           Iter(H) == H = [a \in SUBSET DOMAIN list |-> IF a = {} THEN start ELSE
                             LET x == Max(a) IN RandomRound(g, H[a \ {x}])]
           f == CHOOSE H : Iter(H)
           step == [k \in 1 .. l |-> [ss \in U |-> RandomRound(g, ss)]]
<1>1. l \in Nat /\ l # 0 /\ AreNodes(D) /\ IsFiniteSet(D)
  BY GraphNodes, FS_CardinalityType, FS_EmptySet DEF AreNodes
<1>2. DOMAIN list = 1 .. l /\ Len(list) = l
  BY <1>1 DEF NodeList, NodeCount
<1>3. RandomSubtrees(g) = {s.tree : s \in f[1 .. l]}
  BY <1>2 DEF RandomSubtrees, RandomRound, FoldLeft, MapThenFoldSet
<1> HIDE DEF list, l
<1>4. start \in U /\ \A s \in start : Len(s.queue) > 0
  <2> SUFFICES ASSUME NEW n \in D PROVE Search(g, n) \in Searches(g) /\ Len(Search(g, n).queue) > 0
    OBVIOUS
  <2> DEFINE s == Search(g, n)
  <2>1. IsSearch(g, s)
    BY StartSearch
  <2>2. s.queue = <<n>>
    BY DEF Search
  <2>3. Len(s.queue) > 0
    BY <2>2
  <2> HIDE DEF s
  <2>4. s \in Searches(g)
    BY <2>1 DEF Searches, IsSearch
  <2> QED BY <2>3, <2>4 DEF s
<1>5. ASSUME NEW ss \in U PROVE RandomRound(g, ss) \in U
  <2>1. ASSUME NEW s \in ss PROVE Len(s.queue) > 0
    <3>1. IsSearch(g, s)
      BY DEF Searches
    <3>2. Range(s.queue) # {}
      BY <3>1 DEF IsSearch, IsTree
    <3>3. Len(s.queue) \in Nat /\ DOMAIN s.queue = 1 .. Len(s.queue)
      BY <3>1, QueueLength
    <3> QED BY <3>2, <3>3 DEF Range
  <2> QED BY <2>1, RandomGrows
<1> HIDE DEF U, start
<1>6. step \in [1 .. l -> [U -> U]]
  BY <1>5
<1>7. PICK H : LP!IsLoop(H, l, U, start, step)
  <2> HIDE DEF step, f, Iter
  <2> QED BY <1>1, <1>4, <1>6, NoGraph, LP!LoopExists DEF l
<1>8. Iter(f)
  <2>1. ASSUME NEW a \in SUBSET (1 .. l), a # {}
        PROVE  H[a] = RandomRound(g, H[a \ {Max(a)}])
    <3>1. Max(a) \in 1 .. l /\ H[a \ {Max(a)}] \in U
      <4>1. Max(a) \in a
        BY <1>1, <2>1, NoGraph, LP!MaxIn DEF l
      <4> QED BY <1>7, <4>1 DEF LP!IsLoop
    <3>2. H[a] = step[Max(a)][H[a \ {Max(a)}]]
      BY <1>7, <2>1, NoGraph DEF LP!IsLoop
    <3> QED BY <3>1, <3>2
  <2>2. H = [a \in SUBSET (1 .. l) |-> H[a]] /\ H[{}] = start
    BY <1>7 DEF LP!IsLoop
  <2>3. Iter(H)
    BY <1>2, <2>1, <2>2
  <2> HIDE DEF Iter
  <2> QED BY <2>3
<1>9. \A a \in SUBSET (1 .. l) : f[a] = IF a = {} THEN start ELSE RandomRound(g, f[a \ {Max(a)}])
  BY <1>2, <1>8
<1> HIDE DEF f, Iter
<1>10. f[{}] = start /\ \A k \in 1 .. l : f[1 .. k] = RandomRound(g, f[1 .. (k - 1)])
  <2>1. f[{}] = start
    BY <1>9
  <2>2. ASSUME NEW k \in 1 .. l PROVE f[1 .. k] = RandomRound(g, f[1 .. (k - 1)])
    <3>1. 1 .. k \in SUBSET (1 .. l) /\ 1 .. k # {} /\ Max(1 .. k) = k
          /\ (1 .. k) \ {k} = 1 .. (k - 1)
      BY <1>1, NoGraph, LP!FirstIndices
    <3> QED BY <1>9, <3>1, Zenon
  <2> QED BY <2>1, <2>2
<1> DEFINE S == {k \in Nat : k <= l => /\ f[1 .. k] \in SUBSET Searches(g)
                                       /\ \A s \in f[1 .. k] : Len(s.queue) = l \/ Len(s.queue) > k}
<1>11. 0 \in S
  BY <1>4, <1>10, 1 .. 0 = {} DEF U
<1>12. ASSUME NEW k \in Nat, k \in S PROVE k + 1 \in S
  <2> SUFFICES ASSUME k + 1 <= l
               PROVE  /\ f[1 .. (k + 1)] \in SUBSET Searches(g)
                      /\ \A s \in f[1 .. (k + 1)] : Len(s.queue) = l \/ Len(s.queue) > k + 1
    OBVIOUS
  <2> DEFINE ss == f[1 .. k]
  <2>1. k + 1 \in 1 .. l /\ (k + 1) - 1 = k /\ ss \in SUBSET Searches(g)
        /\ \A s \in ss : Len(s.queue) = Cardinality(D) \/ Len(s.queue) > k
    BY <1>1, <1>12 DEF l
  <2>2. f[1 .. (k + 1)] = RandomRound(g, ss)
    BY <1>10, <2>1
  <2> HIDE DEF ss
  <2>3. /\ RandomRound(g, ss) \in SUBSET Searches(g)
        /\ \A v \in RandomRound(g, ss) : Len(v.queue) = Cardinality(D) \/ Len(v.queue) > k + 1
    BY <2>1, RandomGrows
  <2> QED BY <2>2, <2>3 DEF l
<1>13. \A k \in Nat : k \in S
  <2> HIDE DEF S
  <2> QED BY <1>11, <1>12, NoGraph, LP!SetInduction
<1>14. PICK s \in f[1 .. l] : t = s.tree
  BY <1>3
<1>15. IsSearch(g, s) /\ (Len(s.queue) = l \/ Len(s.queue) > l)
  BY <1>1, <1>13, <1>14 DEF Searches
<1>16. /\ Cardinality(Range(s.queue)) = Len(s.queue) /\ Len(s.queue) <= Cardinality(D)
       /\ Len(s.queue) \in Nat /\ Range(s.queue) \subseteq D
  BY <1>15, QueueLength
<1>17. Range(s.queue) = D
  BY <1>1, <1>15, <1>16, FS_Subset DEF l
<1> QED BY <1>14, <1>15, <1>17 DEF IsSearch

\* What the turns of a loop make of base, one after the other.
IsRun(H, n, U, base, step) ==
    /\ H[{}] = base
    /\ \A k \in 0 .. n : H[1 .. k] \in U
    /\ \A k \in 1 .. n : H[1 .. k] = step[k][H[1 .. (k - 1)]]

LEMMA LoopRuns ==
  ASSUME NEW n \in Nat, NEW U, NEW base \in U, NEW step \in [1 .. n -> [U -> U]]
  PROVE  \E H : LP!IsLoop(H, n, U, base, step) /\ IsRun(H, n, U, base, step)
<1>1. PICK H : LP!IsLoop(H, n, U, base, step)
  BY NoGraph, LP!LoopExists
<1>2. H[{}] = base
  BY <1>1 DEF LP!IsLoop
<1>3. ASSUME NEW k \in 1 .. n PROVE H[1 .. k] = step[k][H[1 .. (k - 1)]]
  <2>1. 1 .. k \in SUBSET (1 .. n) /\ 1 .. k # {} /\ Max(1 .. k) = k
        /\ (1 .. k) \ {k} = 1 .. (k - 1)
    BY NoGraph, LP!FirstIndices
  <2>2. \A a \in SUBSET (1 .. n) : H[a] = IF a = {} THEN base ELSE step[Max(a)][H[a \ {Max(a)}]]
    BY <1>1, NoGraph DEF LP!IsLoop
  <2> QED BY <2>1, <2>2, Zenon
<1>4. ASSUME NEW k \in 0 .. n PROVE H[1 .. k] \in U
  <2>1. 1 .. k \in SUBSET (1 .. n)
    OBVIOUS
  <2> QED BY <1>1, <2>1 DEF LP!IsLoop
<1> QED BY <1>1, <1>2, <1>3, <1>4 DEF IsRun

LEMMA RangeConcat ==
  ASSUME NEW S, NEW a \in Seq(S), NEW b \in Seq(S)
  PROVE  a \o b \in Seq(S) /\ Range(a \o b) = Range(a) \cup Range(b)
<1>1. a \o b \in Seq(S) /\ Len(a \o b) = Len(a) + Len(b) /\ Len(a) \in Nat /\ Len(b) \in Nat
      /\ DOMAIN a = 1 .. Len(a) /\ DOMAIN b = 1 .. Len(b) /\ DOMAIN (a \o b) = 1 .. Len(a) + Len(b)
  OBVIOUS
<1>2. \A i \in 1 .. Len(a) : (a \o b)[i] = a[i]
  OBVIOUS
<1>3. \A i \in 1 .. Len(b) : (a \o b)[Len(a) + i] = b[i]
  OBVIOUS
<1>4. Range(a) \subseteq Range(a \o b)
  BY <1>1, <1>2 DEF Range
<1>5. Range(b) \subseteq Range(a \o b)
  <2> SUFFICES ASSUME NEW i \in 1 .. Len(b) PROVE b[i] \in Range(a \o b)
    BY <1>1 DEF Range
  <2>1. Len(a) + i \in DOMAIN (a \o b)
    BY <1>1
  <2> QED BY <1>3, <2>1 DEF Range
<1>6. ASSUME NEW i \in DOMAIN (a \o b) PROVE (a \o b)[i] \in Range(a) \cup Range(b)
  <2>1. CASE i \in 1 .. Len(a)
    BY <1>1, <1>2, <2>1 DEF Range
  <2>2. CASE i \notin 1 .. Len(a)
    <3>1. i - Len(a) \in 1 .. Len(b) /\ Len(a) + (i - Len(a)) = i
      BY <1>1, <2>2
    <3> QED BY <1>1, <1>3, <3>1 DEF Range
  <2> QED BY <2>1, <2>2
<1> HIDE <1>2, <1>3
<1> QED BY <1>1, <1>4, <1>5, <1>6 DEF Range

\* A list of lists, one after the other.
IsFlat(F, n, seqs) ==
    FlattenSeq(seqs) = F[n] /\ F[1] = seqs[1] /\ \A i \in 1 .. n : i # 1 => F[i] = F[i - 1] \o seqs[i]

LEMMA FlattenSteps ==
  ASSUME NEW S, NEW n \in Nat, n # 0, NEW seqs \in [1 .. n -> Seq(S)]
  PROVE  \E F : IsFlat(F, n, seqs)
<1> DEFINE U == Seq(S)
           step == [k \in 1 .. n |-> [u \in U |-> u \o seqs[k]]]
           Iter(f) == f = [i \in 1 .. Len(seqs) |-> IF i = 1 THEN seqs[i] ELSE f[i - 1] \o seqs[i]]
           F == CHOOSE f : Iter(f)
<1>1. seqs \in Seq(Seq(S)) /\ Len(seqs) = n /\ \A i \in 1 .. n : seqs[i] \in Seq(S)
  OBVIOUS
<1>3. n # 0
  OBVIOUS
<1>4. \E f : IsFlat(f, n, seqs)
  <2>1. FlattenSeq(seqs) = F[n]
    BY <1>1, <1>3 DEF FlattenSeq
  <2>2. <<>> \in U
    OBVIOUS
  <2>3. step \in [1 .. n -> [U -> U]]
    <3> SUFFICES ASSUME NEW k \in 1 .. n, NEW u \in U PROVE u \o seqs[k] \in U
      OBVIOUS
    <3> QED BY <1>1
  <2> HIDE DEF F, step
  <2>3a. PICK H : IsRun(H, n, U, <<>>, step)
    <3> HIDE DEF U
    <3> QED BY <2>2, <2>3, LoopRuns
  <2>4. /\ H[{}] = <<>>
        /\ \A k \in 0 .. n : H[1 .. k] \in U
        /\ \A k \in 1 .. n : H[1 .. k] = step[k][H[1 .. (k - 1)]]
    BY <2>3a DEF IsRun
  <2> DEFINE e == [i \in 1 .. n |-> H[1 .. i]]
  <2>5. \A k \in 1 .. n : H[1 .. k] = H[1 .. (k - 1)] \o seqs[k]
    <3> SUFFICES ASSUME NEW k \in 1 .. n PROVE step[k][H[1 .. (k - 1)]] = H[1 .. (k - 1)] \o seqs[k]
      BY <2>4
    <3>1. H[1 .. (k - 1)] \in U
      BY <2>4
    <3> QED BY <3>1 DEF step
  <2>6. Iter(e)
    <3> SUFFICES ASSUME NEW i \in 1 .. n
                 PROVE  H[1 .. i] = IF i = 1 THEN seqs[i] ELSE H[1 .. (i - 1)] \o seqs[i]
      BY <1>1
    <3>1. CASE i = 1
      <4>1. 1 \in 1 .. n /\ 1 - 1 = 0 /\ 1 .. 0 = {}
        BY <3>1
      <4>2. H[1 .. 1] = <<>> \o seqs[1]
        BY <2>4, <2>5, <4>1
      <4>3. \A u \in Seq(S) : <<>> \o u = u
        OBVIOUS
      <4> QED BY <1>1, <3>1, <4>1, <4>2, <4>3
    <3>2. CASE i # 1
      BY <2>5, <3>2
    <3> QED BY <3>1, <3>2
  <2>7. Iter(F)
    <3> HIDE DEF Iter, e
    <3> QED BY <2>6 DEF F
  <2>8. /\ DOMAIN F = 1 .. n /\ F[1] = seqs[1]
        /\ \A i \in 1 .. n : i # 1 => F[i] = F[i - 1] \o seqs[i]
    <3>1. 1 \in 1 .. n
      BY <1>3
    <3>2. F = [i \in 1 .. n |-> IF i = 1 THEN seqs[i] ELSE F[i - 1] \o seqs[i]]
      BY <1>1, <2>7
    <3> QED BY <3>1, <3>2, Zenon
  <2> QED BY <2>1, <2>8 DEF IsFlat
<1> QED BY <1>4

LEMMA FlattenIs ==
  ASSUME NEW S, NEW n \in Nat, NEW seqs \in [1 .. n -> Seq(S)]
  PROVE  /\ FlattenSeq(seqs) \in Seq(S)
         /\ \A i \in 1 .. n : Range(seqs[i]) \subseteq Range(FlattenSeq(seqs))
         /\ \A x \in Range(FlattenSeq(seqs)) : \E i \in 1 .. n : x \in Range(seqs[i])
<1> DEFINE U == Seq(S)
<1>1. seqs \in Seq(Seq(S)) /\ Len(seqs) = n /\ \A i \in 1 .. n : seqs[i] \in Seq(S)
  OBVIOUS
<1>2. CASE n = 0
  <2>1. FlattenSeq(seqs) = seqs /\ seqs = <<>>
    BY <1>1, <1>2 DEF FlattenSeq
  <2>2. Range(<<>>) = {}
    BY DEF Range
  <2> QED BY <1>2, <2>1, <2>2
<1>3. CASE n # 0
  <2>0. PICK F : IsFlat(F, n, seqs)
    BY <1>3, FlattenSteps
  <2>8. FlattenSeq(seqs) = F[n] /\ F[1] = seqs[1] /\ \A i \in 1 .. n : i # 1 => F[i] = F[i - 1] \o seqs[i]
    BY <2>0 DEF IsFlat
  <2> DEFINE Fine(k) == /\ F[k] \in U
                        /\ \A i \in 1 .. k : Range(seqs[i]) \subseteq Range(F[k])
                        /\ \A x \in Range(F[k]) : \E i \in 1 .. k : x \in Range(seqs[i])
             T == {k \in Nat : k + 1 <= n => Fine(k + 1)}
  <2>9. 0 \in T
    BY <1>1, <2>8
  <2>10. ASSUME NEW k \in Nat, k \in T PROVE k + 1 \in T
    <3> SUFFICES ASSUME (k + 1) + 1 <= n PROVE Fine((k + 1) + 1)
      <4> HIDE DEF Fine
      <4> QED OBVIOUS
    <3> DEFINE m == k + 1
    <3>1. m \in 1 .. n /\ m + 1 \in 1 .. n /\ m + 1 # 1 /\ (m + 1) - 1 = m /\ Fine(m)
      BY <2>10
    <3>2. F[m + 1] = F[m] \o seqs[m + 1] /\ F[m] \in Seq(S) /\ seqs[m + 1] \in Seq(S)
      BY <1>1, <2>8, <3>1
    <3>3. F[m + 1] \in Seq(S) /\ Range(F[m + 1]) = Range(F[m]) \cup Range(seqs[m + 1])
      BY <3>2, RangeConcat
    <3>4. 1 .. (m + 1) = (1 .. m) \cup {m + 1}
      BY <3>1
    <3> HIDE DEF m
    <3> QED BY <3>1, <3>3, <3>4 DEF m
  <2>11. \A k \in Nat : k \in T
    <3> HIDE DEF T
    <3> QED BY <2>9, <2>10, NoGraph, LP!SetInduction
  <2>12. n - 1 \in Nat /\ (n - 1) + 1 = n
    BY <1>3
  <2>13. Fine(n)
    <3> HIDE DEF Fine
    <3>1. n - 1 \in T
      BY <2>11, <2>12
    <3> QED BY <2>12, <3>1
  <2> QED BY <2>8, <2>13
<1> QED BY <1>2, <1>3

\* A turn of TGen3: a node and one of its ports, if it has it.
Turn(g, t, turn) == IF turn[2] \in DOMAIN g[turn[1]] THEN Join(g, t, turn[1], turn[2]) ELSE t
Turns(g, s, turns) == FoldLeft(LAMBDA t, turn : Turn(g, t, turn), s, turns)

LEMMA TurnsAll ==
  ASSUME NEW g, NEW turns, NEW l \in Nat, DOMAIN turns = 1 .. l, Len(turns) = l,
         NEW U, NEW s \in U,
         \A u \in U : \A j \in 1 .. l :
            LET t == Turn(g, u, turns[j])
            IN  /\ t \in U /\ GoesOn(u, t)
                /\ turns[j][2] \in DOMAIN g[turns[j][1]] => g[turns[j][1]][turns[j][2]] \in Range(t.queue)
  PROVE  LET t == Turns(g, s, turns)
         IN  /\ t \in U
             /\ \A j \in 1 .. l : turns[j][2] \in DOMAIN g[turns[j][1]]
                                     => g[turns[j][1]][turns[j][2]] \in Range(t.queue)
<1> DEFINE Iter(H) == H = [a \in SUBSET DOMAIN turns |-> IF a = {} THEN s ELSE
                             LET x == Max(a) IN Turn(g, H[a \ {x}], turns[x])]
           f == CHOOSE H : Iter(H)
           step == [j \in 1 .. l |-> [u \in U |-> Turn(g, u, turns[j])]]
           Done(j, t) == turns[j][2] \in DOMAIN g[turns[j][1]]
                            => g[turns[j][1]][turns[j][2]] \in Range(t.queue)
<1>1. Turns(g, s, turns) = f[1 .. l]
  BY DEF Turns, FoldLeft, MapThenFoldSet
<1>2. step \in [1 .. l -> [U -> U]]
  OBVIOUS
<1>3. ASSUME NEW u \in U, NEW j \in 1 .. l
      PROVE  Turn(g, u, turns[j]) \in U /\ GoesOn(u, Turn(g, u, turns[j])) /\ Done(j, Turn(g, u, turns[j]))
  OBVIOUS
<1>4. PICK H : LP!IsLoop(H, l, U, s, step) /\ IsRun(H, l, U, s, step)
  <2> HIDE DEF step, f, Iter, Done
  <2> QED BY <1>2, LoopRuns
<1>5. ASSUME NEW u \in SUBSET (1 .. l), u # {}
      PROVE  H[u] = Turn(g, H[u \ {Max(u)}], turns[Max(u)])
  <2>1. Max(u) \in 1 .. l /\ H[u \ {Max(u)}] \in U
    <3>1. Max(u) \in u
      BY <1>5, NoGraph, LP!MaxIn
    <3> QED BY <1>4, <3>1 DEF LP!IsLoop
  <2>2. H[u] = step[Max(u)][H[u \ {Max(u)}]]
    BY <1>4, <1>5, NoGraph DEF LP!IsLoop
  <2> QED BY <2>1, <2>2
<1>6. H = [u \in SUBSET (1 .. l) |-> H[u]] /\ H[{}] = s
  BY <1>4 DEF LP!IsLoop
<1>7. Iter(H)
  BY <1>5, <1>6
<1>8. Iter(f)
  <2> HIDE DEF Iter
  <2> QED BY <1>7
<1>9. \A a \in SUBSET (1 .. l) : f[a] = IF a = {} THEN s ELSE Turn(g, f[a \ {Max(a)}], turns[Max(a)])
  BY <1>8
<1> HIDE DEF f, Iter, Done
<1>10. f[{}] = s /\ \A j \in 1 .. l : f[1 .. j] = Turn(g, f[1 .. (j - 1)], turns[j])
  <2>1. f[{}] = s
    BY <1>9
  <2>2. ASSUME NEW j \in 1 .. l PROVE f[1 .. j] = Turn(g, f[1 .. (j - 1)], turns[j])
    <3>1. 1 .. j \in SUBSET (1 .. l) /\ 1 .. j # {} /\ Max(1 .. j) = j
          /\ (1 .. j) \ {j} = 1 .. (j - 1)
      BY NoGraph, LP!FirstIndices
    <3> QED BY <1>9, <3>1, Zenon
  <2> QED BY <2>1, <2>2
<1> DEFINE S == {j \in Nat : j <= l => f[1 .. j] \in U /\ \A i \in 1 .. j : Done(i, f[1 .. j])}
<1>11. 0 \in S
  BY <1>10, 1 .. 0 = {}
<1>12. ASSUME NEW j \in Nat, j \in S PROVE j + 1 \in S
  <2> SUFFICES ASSUME j + 1 <= l
               PROVE  f[1 .. (j + 1)] \in U /\ \A i \in 1 .. j + 1 : Done(i, f[1 .. (j + 1)])
    OBVIOUS
  <2> DEFINE u == f[1 .. j]
             t == Turn(g, u, turns[j + 1])
  <2>1. j + 1 \in 1 .. l /\ (j + 1) - 1 = j /\ u \in U /\ \A i \in 1 .. j : Done(i, u)
    BY <1>12
  <2>2. f[1 .. (j + 1)] = t
    BY <1>10, <2>1
  <2> HIDE DEF u
  <2>3. t \in U /\ Done(j + 1, t) /\ GoesOn(u, t)
    BY <1>3, <2>1
  <2> HIDE DEF t
  <2>4. Range(u.queue) \subseteq Range(t.queue)
    BY <2>3, GoesOnRange
  <2>5. \A i \in 1 .. j : Done(i, t)
    BY <2>1, <2>4 DEF Done
  <2> QED BY <2>1, <2>2, <2>3, <2>5
<1>13. \A j \in Nat : j \in S
  <2> HIDE DEF S
  <2> QED BY <1>11, <1>12, NoGraph, LP!SetInduction
<1>14. l \in S
  BY <1>13
<1>15. f[1 .. l] \in U /\ \A i \in 1 .. l : Done(i, f[1 .. l])
  BY <1>14
<1> HIDE DEF S
<1> QED BY <1>1, <1>15 DEF Done

\* A list of the longest of the lists.
LEMMA LongestIs ==
  ASSUME NEW g, IsGraph(g), DOMAIN g # {}
  PROVE  LET most == Max({Len(g[n]) : n \in DOMAIN g})
         IN  most \in Nat /\ \A n \in DOMAIN g : Len(g[n]) <= most
<1> DEFINE D == DOMAIN g
           N == Cardinality(D)
           L == {Len(g[n]) : n \in D}
           S == {k \in Nat : k < N => \E m \in D : \A j \in 0 .. k : Len(g[j]) <= Len(g[m])}
<1>1. N \in Nat /\ N # 0 /\ D = 0 .. N - 1 /\ IsFiniteSet(D)
  BY FS_CardinalityType, FS_EmptySet DEF IsGraph
<1>2. \A n \in D : Len(g[n]) \in Nat
  BY DEF IsGraph
<1> HIDE DEF N, D
<1>3. 0 \in S
  BY <1>1, <1>2
<1>4. ASSUME NEW k \in Nat, k \in S PROVE k + 1 \in S
  <2> SUFFICES ASSUME k + 1 < N PROVE \E m \in D : \A j \in 0 .. (k + 1) : Len(g[j]) <= Len(g[m])
    OBVIOUS
  <2>1. PICK m \in D : \A j \in 0 .. k : Len(g[j]) <= Len(g[m])
    BY <1>1, <1>4
  <2>2. k + 1 \in D /\ (0 .. (k + 1)) = (0 .. k) \cup {k + 1} /\ 0 .. k \subseteq D
    BY <1>1
  <2>3. CASE Len(g[k + 1]) <= Len(g[m])
    BY <2>1, <2>2, <2>3
  <2>4. CASE ~(Len(g[k + 1]) <= Len(g[m]))
    <3>1. ASSUME NEW j \in 0 .. (k + 1) PROVE Len(g[j]) <= Len(g[k + 1])
      BY <1>2, <2>1, <2>2, <2>4
    <3> QED BY <2>2, <3>1
  <2> QED BY <2>3, <2>4
<1>5. \A k \in Nat : k \in S
  <2> HIDE DEF S
  <2> QED BY <1>3, <1>4, NoGraph, LP!SetInduction
<1>6. PICK m \in D : \A j \in 0 .. N - 1 : Len(g[j]) <= Len(g[m])
  <2>1. N - 1 \in Nat /\ N - 1 < N
    BY <1>1
  <2> QED BY <1>5, <2>1
<1>7. \E x \in L : \A y \in L : x >= y
  BY <1>1, <1>2, <1>6
<1>8. Max(L) \in L /\ \A y \in L : Max(L) >= y
  <2> HIDE DEF L
  <2> QED BY <1>7 DEF Max
<1> QED BY <1>2, <1>8 DEF D

\* A level of TGen3: s is the search so far, its last level begins at start.
LevelTurns(g, q, start) ==
    LET nodes == SubSeq(q, start, Len(q))
    IN  FlattenSeq([p \in 1 .. Max({Len(g[n]) : n \in DOMAIN g}) |-> [i \in DOMAIN nodes |-> <<nodes[i], p>>]])

Cut(v) == [tree |-> v.tree, queue |-> v.queue]

NextLevel(g, v) ==
    LET after == Turns(g, Cut(v), LevelTurns(g, v.queue, v.start))
    IN  [tree |-> after.tree, queue |-> after.queue, start |-> Len(v.queue) + 1]

\* All nodes of the last level have their turn with all their ports.
LEMMA LevelTurnsAre ==
  ASSUME NEW g, IsGraph(g), DOMAIN g # {}, NEW q \in Seq(DOMAIN g), NEW start \in Nat, start > 0, start <= Len(q) + 1
  PROVE  /\ LevelTurns(g, q, start) \in Seq((DOMAIN g) \X Nat)
         /\ \A x \in Range(LevelTurns(g, q, start)) : \E i \in start .. Len(q) : x[1] = q[i]
         /\ \A i \in start .. Len(q) : \A p \in DOMAIN g[q[i]] : <<q[i], p>> \in Range(LevelTurns(g, q, start))
<1> DEFINE D == DOMAIN g
           most == Max({Len(g[n]) : n \in D})
           nodes == SubSeq(q, start, Len(q))
           row(p) == [i \in DOMAIN nodes |-> <<nodes[i], p>>]
           rows == [p \in 1 .. most |-> row(p)]
           l == Len(q) - start + 1
           turns == LevelTurns(g, q, start)
<1>1. most \in Nat /\ \A n \in D : Len(g[n]) <= most
  BY LongestIs
<1>2. Len(q) \in Nat /\ DOMAIN q = 1 .. Len(q) /\ l \in Nat
  OBVIOUS
<1>3. nodes \in Seq(D) /\ DOMAIN nodes = 1 .. l /\ \A i \in 1 .. l : nodes[i] = q[start + i - 1]
  BY <1>2
<1> HIDE DEF nodes, most
<1>4. turns = FlattenSeq(rows)
  BY DEF LevelTurns, nodes, most
<1>5. ASSUME NEW p \in 1 .. most
      PROVE  row(p) \in Seq(D \X Nat) /\ Range(row(p)) = {<<nodes[i], p>> : i \in 1 .. l}
  <2>1. \A i \in 1 .. l : nodes[i] \in D
    BY <1>3
  <2>2. p \in Nat
    BY <1>1
  <2>3. row(p) = [i \in 1 .. l |-> <<nodes[i], p>>]
    BY <1>3
  <2> HIDE DEF l
  <2> QED BY <1>2, <2>1, <2>2, <2>3 DEF Range
<1> HIDE DEF l, turns, row
<1>6. rows \in [1 .. most -> Seq(D \X Nat)] /\ \A p \in 1 .. most : rows[p] = row(p)
  BY <1>5
<1> HIDE DEF rows
<1>7. /\ FlattenSeq(rows) \in Seq(D \X Nat)
      /\ \A p \in 1 .. most : Range(rows[p]) \subseteq Range(FlattenSeq(rows))
      /\ \A x \in Range(FlattenSeq(rows)) : \E p \in 1 .. most : x \in Range(rows[p])
  BY <1>1, <1>6, FlattenIs
<1>8. ASSUME NEW x \in Range(turns) PROVE \E i \in start .. Len(q) : x[1] = q[i]
  <2>1. PICK p \in 1 .. most : x \in Range(row(p))
    BY <1>4, <1>6, <1>7
  <2>2. PICK i \in 1 .. l : x = <<nodes[i], p>>
    BY <1>5, <2>1
  <2>3. x[1] = q[start + i - 1] /\ start + i - 1 \in start .. Len(q)
    BY <1>2, <1>3, <2>2 DEF l
  <2> QED BY <2>3
<1>9. ASSUME NEW i \in start .. Len(q), NEW p \in DOMAIN g[q[i]] PROVE <<q[i], p>> \in Range(turns)
  <2>1. i - start + 1 \in 1 .. l /\ start + (i - start + 1) - 1 = i /\ q[i] \in D
    BY <1>2 DEF l
  <2>2. nodes[i - start + 1] = q[i]
    BY <1>3, <2>1
  <2>3. g[q[i]] \in Seq(D) /\ Len(g[q[i]]) <= most
    BY <1>1, <2>1 DEF IsGraph
  <2>4. p \in 1 .. most
    BY <1>1, <2>3
  <2>5. <<q[i], p>> \in Range(row(p))
    BY <1>5, <2>1, <2>2, <2>4
  <2> QED BY <1>4, <1>6, <1>7, <2>4, <2>5
<1>10. turns \in Seq(D \X Nat)
  BY <1>4, <1>7
<1> QED BY <1>8, <1>9, <1>10 DEF turns

\* What TGen3 has between two levels: the nodes of the last one are equally far from the root.
IsLevel(g, root, w, v) ==
    /\ v \in [tree : [DOMAIN g -> Seq(DOMAIN g)], queue : Seq(DOMAIN g), start : Nat]
    /\ v.start > 0 /\ v.start <= Len(v.queue) + 1
    /\ IsTurn(g, root, w, Cut(v), v.start)
    /\ \A i \in DOMAIN v.queue : i >= v.start => w[v.queue[i]] = w[v.queue[v.start]]

\* A search in the middle of a level: what has been found since is one further.
IsWithin(g, root, w, v, t) ==
    /\ t \in [tree : [DOMAIN g -> Seq(DOMAIN g)], queue : Seq(DOMAIN g)]
    /\ IsTurn(g, root, w, t, v.start) /\ GoesOn(Cut(v), t)
    /\ \A i \in DOMAIN t.queue : i > Len(v.queue) =>
          v.start <= Len(v.queue) /\ w[t.queue[i]] = w[v.queue[v.start]] + 1

LEMMA TurnWithin ==
  ASSUME NEW g, IsGraph(g), NEW root, NEW w, NEW v, IsLevel(g, root, w, v),
         NEW t, IsWithin(g, root, w, v, t), NEW i \in v.start .. Len(v.queue), NEW turn, turn[1] = v.queue[i]
  PROVE  LET u == Turn(g, t, turn)
         IN  /\ IsWithin(g, root, w, v, u) /\ GoesOn(t, u)
             /\ turn[2] \in DOMAIN g[turn[1]] => g[turn[1]][turn[2]] \in Range(u.queue)
<1> DEFINE D == DOMAIN g
           k == v.start
           n == turn[1]
           p == turn[2]
           u == Turn(g, t, turn)
<1>1. /\ k \in Nat /\ k > 0 /\ Len(v.queue) \in Nat /\ DOMAIN v.queue = 1 .. Len(v.queue)
      /\ i \in DOMAIN v.queue /\ k \in DOMAIN v.queue /\ k <= Len(v.queue)
      /\ w[v.queue[i]] = w[v.queue[k]]
  BY DEF IsLevel
<1>2. IsSearch(g, t) /\ IsLevelled(g, root, w, t, k)
  BY DEF IsWithin, IsTurn
<1>3. /\ k \in DOMAIN t.queue /\ t.queue[k] = v.queue[k] /\ i \in DOMAIN t.queue /\ t.queue[i] = n
  BY <1>1 DEF IsWithin, GoesOn, Cut
<1>4. n \in Range(t.queue) /\ w[n] = w[t.queue[k]]
  BY <1>1, <1>3 DEF Range
<1>5. CASE p \notin DOMAIN g[n]
  <2>1. u = t
    BY <1>5 DEF Turn
  <2> QED BY <1>5, <2>1 DEF GoesOn
<1>6. CASE p \in DOMAIN g[n]
  <2>1. u = Join(g, t, n, p)
    BY <1>6 DEF Turn
  <2>2. IsSearch(g, u) /\ GoesOn(t, u) /\ g[n][p] \in Range(u.queue)
    BY <1>2, <1>4, <1>6, <2>1, JoinKeeps
  <2>3. IsLevelled(g, root, w, u, k)
    BY <1>2, <1>3, <1>4, <1>6, <2>1, JoinLevels
  <2>4. g[n][p] \in D /\ (g[n][p] \notin Range(t.queue) => w[g[n][p]] = w[n] + 1)
    BY <1>2, <1>3, <1>4, <1>6, NewWeight
  <2>5. GoesOn(Cut(v), u)
    BY <2>2, GoesOnBoth DEF IsWithin
  <2>6. ASSUME NEW j \in DOMAIN u.queue, j > Len(v.queue)
        PROVE  w[u.queue[j]] = w[v.queue[k]] + 1
    <3>1. CASE j \in DOMAIN t.queue
      <4>1. u.queue[j] = t.queue[j]
        BY <2>2, <3>1 DEF GoesOn
      <4> QED BY <2>6, <3>1, <4>1 DEF IsWithin
    <3>2. CASE j \notin DOMAIN t.queue
      <4>1. g[n][p] \notin Range(t.queue)
        BY <2>1, <2>6, <3>2 DEF Join
      <4>2. IsJoined(g, t, u, n, g[n][p])
        BY <1>2, <1>4, <2>1, <2>4, <4>1, JoinedIs
      <4>3. u.queue[j] = g[n][p]
        <5> HIDE DEF u, n, p
        <5>1. /\ DOMAIN t.queue = 1 .. Len(t.queue) /\ Len(t.queue) \in Nat
              /\ DOMAIN u.queue = 1 .. Len(t.queue) + 1 /\ u.queue[Len(t.queue) + 1] = g[n][p]
          BY <4>2 DEF IsJoined
        <5>2. j = Len(t.queue) + 1
          BY <2>6, <3>2, <5>1
        <5> QED BY <5>1, <5>2
      <4> QED BY <1>3, <1>4, <2>4, <4>1, <4>3
    <3> QED BY <3>1, <3>2
  <2>7. u \in [tree : [D -> Seq(D)], queue : Seq(D)]
    BY <2>2 DEF IsSearch
  <2> QED BY <1>1, <2>2, <2>3, <2>5, <2>6, <2>7 DEF IsWithin, IsTurn
<1> QED BY <1>5, <1>6

LEMMA LevelKeeps ==
  ASSUME NEW g, IsGraph(g), DOMAIN g # {}, NEW root, NEW w, NEW v, IsLevel(g, root, w, v)
  PROVE  IsLevel(g, root, w, NextLevel(g, v))
<1> DEFINE D == DOMAIN g
           q == v.queue
           k == v.start
           e == Len(q)
           turns == LevelTurns(g, q, k)
           l == Len(turns)
           U == {t \in [tree : [D -> Seq(D)], queue : Seq(D)] : IsWithin(g, root, w, v, t)}
           t == Turns(g, Cut(v), turns)
           Done(j, u) == turns[j][2] \in DOMAIN g[turns[j][1]]
                            => g[turns[j][1]][turns[j][2]] \in Range(u.queue)
<1>1. /\ q \in Seq(D) /\ e \in Nat /\ DOMAIN q = 1 .. e /\ k \in Nat /\ k > 0 /\ k <= e + 1
      /\ IsTurn(g, root, w, Cut(v), k)
      /\ \A i \in DOMAIN q : i >= k => w[q[i]] = w[q[k]]
  BY DEF IsLevel
<1>2. /\ turns \in Seq(D \X Nat)
      /\ \A x \in Range(turns) : \E i \in k .. e : x[1] = q[i]
      /\ \A i \in k .. e : \A p \in DOMAIN g[q[i]] : <<q[i], p>> \in Range(turns)
  BY <1>1, LevelTurnsAre
<1>3. Cut(v) \in U
  <2>1. Cut(v) \in [tree : [D -> Seq(D)], queue : Seq(D)] /\ Cut(v).queue = q
    BY DEF IsLevel, Cut
  <2>2. \A i \in DOMAIN q : ~(i > e)
    BY <1>1
  <2> QED BY <1>1, <2>1, <2>2 DEF IsWithin, GoesOn
<1> HIDE DEF turns, t
<1>4. l \in Nat /\ DOMAIN turns = 1 .. l
  BY <1>2
<1>5. ASSUME NEW u \in U, NEW j \in 1 .. l
      PROVE  Turn(g, u, turns[j]) \in U /\ GoesOn(u, Turn(g, u, turns[j])) /\ Done(j, Turn(g, u, turns[j]))
  <2>1. PICK i \in k .. e : turns[j][1] = q[i]
    BY <1>2, <1>4 DEF Range
  <2> DEFINE x == Turn(g, u, turns[j])
  <2>2. IsWithin(g, root, w, v, x) /\ GoesOn(u, x) /\ Done(j, x)
    BY <2>1, TurnWithin
  <2> HIDE DEF x
  <2>3. x \in [tree : [D -> Seq(D)], queue : Seq(D)]
    BY <2>2 DEF IsWithin
  <2> QED BY <2>2, <2>3 DEF x
<1> HIDE DEF U
<1>6. t \in U /\ \A j \in 1 .. l : Done(j, t)
  BY <1>3, <1>4, <1>5, TurnsAll DEF t
<1>7. IsWithin(g, root, w, v, t)
  BY <1>6 DEF U
<1>8. /\ IsSearch(g, t) /\ IsLevelled(g, root, w, t, k) /\ t.queue \in Seq(D) /\ GoesOn(Cut(v), t)
      /\ t = [tree |-> t.tree, queue |-> t.queue]
      /\ \A i \in DOMAIN t.queue : i > e => k <= e /\ w[t.queue[i]] = w[q[k]] + 1
  BY <1>7 DEF IsWithin, IsTurn
<1>9. Len(t.queue) \in Nat /\ DOMAIN t.queue = 1 .. Len(t.queue) /\ e <= Len(t.queue)
      /\ \A i \in 1 .. e : t.queue[i] = q[i]
  <2>1. Len(t.queue) \in Nat /\ DOMAIN t.queue = 1 .. Len(t.queue)
    BY <1>8
  <2>2. 1 .. e \subseteq 1 .. Len(t.queue) /\ \A i \in 1 .. e : t.queue[i] = q[i]
    BY <1>1, <1>8, <2>1 DEF GoesOn, Cut
  <2> QED BY <1>1, <2>1, <2>2
<1>10. ASSUME NEW i \in k .. e PROVE Range(g[q[i]]) \subseteq Range(t.queue)
  <2> SUFFICES ASSUME NEW p \in DOMAIN g[q[i]] PROVE g[q[i]][p] \in Range(t.queue)
    BY DEF Range
  <2>1. PICK j \in 1 .. l : turns[j] = <<q[i], p>>
    BY <1>2, <1>4 DEF Range
  <2> QED BY <1>6, <2>1
<1>11. IsLevelled(g, root, w, t, e + 1)
  <2> DEFINE r == t.queue
  <2>1. /\ IsDistance(g, root, w) /\ root \in Range(r)
        /\ \A i \in DOMAIN r, j \in DOMAIN r : i <= j => w[r[i]] <= w[r[j]]
        /\ \A x \in D : \A m \in Range(t.tree[x]) : w[m] <= w[x] + 1
        /\ \A x \in Range(r) \ {root} : \E m \in D : m \in Range(t.tree[x]) /\ w[m] = w[x] - 1
        /\ \A j \in DOMAIN r : j < k => Range(g[r[j]]) \subseteq Range(r)
        /\ k \in DOMAIN r => \A j \in DOMAIN r : w[r[j]] <= w[r[k]] + 1
    BY <1>8 DEF IsLevelled
  <2>2. ASSUME NEW j \in DOMAIN r, j < e + 1 PROVE Range(g[r[j]]) \subseteq Range(r)
    <3>1. CASE j < k
      BY <2>1, <3>1
    <3>2. CASE ~(j < k)
      <4>1. j \in k .. e /\ j \in 1 .. e
        BY <1>1, <1>9, <2>2, <3>2
      <4> QED BY <1>9, <1>10, <4>1
    <3> QED BY <3>1, <3>2
  <2>3. ASSUME NEW j \in DOMAIN r, e + 1 \in DOMAIN r PROVE w[r[j]] <= w[r[e + 1]] + 1
    <3>1. k <= e /\ w[r[e + 1]] = w[q[k]] + 1
      BY <1>1, <1>8, <2>3
    <3>2. k \in 1 .. e /\ k \in DOMAIN r /\ r[k] = q[k]
      BY <1>1, <1>9, <3>1
    <3>3. w[r[j]] <= w[q[k]] + 1
      BY <2>1, <3>2
    <3>4. w \in [D -> Nat] /\ r[j] \in D /\ q[k] \in D
      BY <1>1, <1>8, <2>1, <3>2 DEF IsDistance
    <3>5. w[r[j]] \in Nat /\ w[q[k]] \in Nat
      BY <3>4
    <3> QED BY <3>1, <3>3, <3>5
  <2> QED BY <2>1, <2>2, <2>3 DEF IsLevelled
<1>12. NextLevel(g, v) = [tree |-> t.tree, queue |-> t.queue, start |-> e + 1]
  BY DEF NextLevel, t, turns
<1> DEFINE z == NextLevel(g, v)
<1>13. z.tree = t.tree /\ z.queue = t.queue /\ z.start = e + 1 /\ Cut(z) = t
  BY <1>8, <1>12 DEF Cut
<1>14. z \in [tree : [D -> Seq(D)], queue : Seq(D), start : Nat]
  <2>1. t.tree \in [D -> Seq(D)]
    BY <1>7 DEF IsWithin
  <2> QED BY <1>1, <1>8, <1>12, <2>1
<1> HIDE DEF z
<1>15. ASSUME NEW i \in DOMAIN z.queue, i >= z.start PROVE w[z.queue[i]] = w[z.queue[z.start]]
  <2>1. i \in DOMAIN t.queue /\ i > e /\ e + 1 \in DOMAIN t.queue /\ e + 1 > e
    BY <1>1, <1>9, <1>13, <1>15
  <2> QED BY <1>8, <1>13, <2>1
<1>16. z.start > 0 /\ z.start <= Len(z.queue) + 1
  BY <1>1, <1>9, <1>13
<1> QED BY <1>8, <1>11, <1>13, <1>14, <1>15, <1>16 DEF IsLevel, IsTurn, z

FirstLevel(g, root) == [tree |-> Search(g, root).tree, queue |-> Search(g, root).queue, start |-> 1]

LEMMA FirstLevelIs ==
  ASSUME NEW g, IsGraph(g), NEW root \in DOMAIN g, NEW w, IsDistance(g, root, w)
  PROVE  IsLevel(g, root, w, FirstLevel(g, root))
<1> DEFINE s == Search(g, root)
           v == FirstLevel(g, root)
<1>1. IsTurn(g, root, w, s, 1)
  BY StartTurn
<1>2. s.queue = <<root>> /\ s = [tree |-> s.tree, queue |-> s.queue]
  BY DEF Search
<1>3. Len(<<root>>) = 1 /\ DOMAIN <<root>> = {1}
  OBVIOUS
<1> HIDE DEF s
<1>4. Cut(v) = s /\ v.tree = s.tree /\ v.queue = s.queue /\ v.start = 1
  BY <1>2 DEF Cut, FirstLevel, s
<1>5. s.tree \in [DOMAIN g -> Seq(DOMAIN g)] /\ s.queue \in Seq(DOMAIN g)
  BY <1>1 DEF IsTurn, IsSearch
<1>6. v \in [tree : [DOMAIN g -> Seq(DOMAIN g)], queue : Seq(DOMAIN g), start : Nat]
  BY <1>5 DEF FirstLevel, s
<1> HIDE DEF v
<1> QED BY <1>1, <1>2, <1>3, <1>4, <1>6 DEF IsLevel, v

LEMMA LevelTree ==
  ASSUME NEW g, IsGraph(g), IsConnected(g), NEW root \in DOMAIN g, NEW w, IsDistance(g, root, w)
  PROVE  IsShortest(TGen3(g, root), g, root, w)
<1> DEFINE D == DOMAIN g
           l == Cardinality(D)
           list == NodeList(g)
           start == FirstLevel(g, root)
           U == {v \in [tree : [D -> Seq(D)], queue : Seq(D), start : Nat] : IsLevel(g, root, w, v)}
           Iter(H) == H = [a \in SUBSET DOMAIN list |-> IF a = {} THEN start ELSE
                             LET x == Max(a) IN NextLevel(g, H[a \ {x}])]
           f == CHOOSE H : Iter(H)
           step == [k \in 1 .. l |-> [v \in U |-> NextLevel(g, v)]]
<1>1. l \in Nat /\ l # 0 /\ AreNodes(D) /\ IsFiniteSet(D) /\ D # {}
  BY GraphNodes, FS_CardinalityType, FS_EmptySet DEF AreNodes
<1>2. DOMAIN list = 1 .. l /\ Len(list) = l
  BY <1>1 DEF NodeList, NodeCount
<1>3. TGen3(g, root) = f[1 .. l].tree
  BY <1>2 DEF TGen3, NextLevel, LevelTurns, Turns, Turn, Cut, FirstLevel, FoldLeft, MapThenFoldSet
<1> HIDE DEF list, l
<1>4. start \in U
  <2>1. IsLevel(g, root, w, start)
    BY FirstLevelIs
  <2> HIDE DEF start
  <2> QED BY <2>1 DEF IsLevel
<1>5. ASSUME NEW v \in U PROVE NextLevel(g, v) \in U
  <2>1. IsLevel(g, root, w, NextLevel(g, v))
    BY <1>1, LevelKeeps
  <2> QED BY <2>1 DEF IsLevel
<1> HIDE DEF U, start
<1>6. step \in [1 .. l -> [U -> U]]
  BY <1>5
<1>7. PICK H : LP!IsLoop(H, l, U, start, step) /\ IsRun(H, l, U, start, step)
  <2> HIDE DEF step, f, Iter
  <2> QED BY <1>1, <1>4, <1>6, LoopRuns DEF l
<1>8. Iter(f)
  <2>1. ASSUME NEW a \in SUBSET (1 .. l), a # {}
        PROVE  H[a] = NextLevel(g, H[a \ {Max(a)}])
    <3>1. Max(a) \in 1 .. l /\ H[a \ {Max(a)}] \in U
      <4>1. Max(a) \in a
        BY <1>1, <2>1, NoGraph, LP!MaxIn DEF l
      <4> QED BY <1>7, <4>1 DEF LP!IsLoop
    <3>2. H[a] = step[Max(a)][H[a \ {Max(a)}]]
      BY <1>7, <2>1, NoGraph DEF LP!IsLoop
    <3> QED BY <3>1, <3>2
  <2>2. H = [a \in SUBSET (1 .. l) |-> H[a]] /\ H[{}] = start
    BY <1>7 DEF LP!IsLoop
  <2>3. Iter(H)
    BY <1>2, <2>1, <2>2
  <2> HIDE DEF Iter
  <2> QED BY <2>3
<1>9. \A a \in SUBSET (1 .. l) : f[a] = IF a = {} THEN start ELSE NextLevel(g, f[a \ {Max(a)}])
  BY <1>2, <1>8
<1> HIDE DEF f, Iter
<1>10. f[{}] = start /\ \A k \in 1 .. l : f[1 .. k] = NextLevel(g, f[1 .. (k - 1)])
  <2>1. f[{}] = start
    BY <1>9
  <2>2. ASSUME NEW k \in 1 .. l PROVE f[1 .. k] = NextLevel(g, f[1 .. (k - 1)])
    <3>1. 1 .. k \in SUBSET (1 .. l) /\ 1 .. k # {} /\ Max(1 .. k) = k
          /\ (1 .. k) \ {k} = 1 .. (k - 1)
      BY <1>1, NoGraph, LP!FirstIndices
    <3> QED BY <1>9, <3>1, Zenon
  <2> QED BY <2>1, <2>2
<1> DEFINE S == {k \in Nat : k <= l => /\ f[1 .. k] \in U
                                       /\ f[1 .. k].start \notin DOMAIN f[1 .. k].queue \/ f[1 .. k].start > k}
<1>11. 0 \in S
  <2>1. start.start > 0
    BY DEF start, FirstLevel
  <2> QED BY <1>4, <1>10, <2>1, 1 .. 0 = {}
<1>12. ASSUME NEW k \in Nat, k \in S PROVE k + 1 \in S
  <2> SUFFICES ASSUME k + 1 <= l
               PROVE  /\ f[1 .. (k + 1)] \in U
                      /\ f[1 .. (k + 1)].start \notin DOMAIN f[1 .. (k + 1)].queue \/ f[1 .. (k + 1)].start > k + 1
    OBVIOUS
  <2> DEFINE v == f[1 .. k]
             z == NextLevel(g, v)
  <2>1. k + 1 \in 1 .. l /\ (k + 1) - 1 = k /\ v \in U /\ (v.start \notin DOMAIN v.queue \/ v.start > k)
    BY <1>1, <1>12 DEF l
  <2>2. f[1 .. (k + 1)] = z
    BY <1>10, <2>1
  <2> HIDE DEF v
  <2>3. z \in U /\ z.start = Len(v.queue) + 1
    BY <1>5, <2>1 DEF NextLevel
  <2> HIDE DEF z
  <2>4. IsSearch(g, Cut(v)) /\ Len(v.queue) \in Nat /\ DOMAIN v.queue = 1 .. Len(v.queue) /\ v.start \in Nat /\ v.start > 0
    BY <2>1 DEF U, IsLevel, IsTurn
  <2>5. CASE v.start \in DOMAIN v.queue
    BY <2>1, <2>2, <2>3, <2>4, <2>5
  <2>6. CASE v.start \notin DOMAIN v.queue
    <3>1. Range(Cut(v).queue) = D
      <4>1. IsTurn(g, root, w, Cut(v), v.start) /\ v.start \notin DOMAIN Cut(v).queue
        BY <2>1, <2>6 DEF U, IsLevel, Cut
      <4> QED BY <2>4, <4>1, QueueFull
    <3>2. Len(v.queue) = l
      <4>1. Cut(v).queue = v.queue
        BY DEF Cut
      <4> QED BY <2>4, <3>1, <4>1, QueueLength DEF l
    <3>3. IsSearch(g, Cut(z)) /\ Cut(z).queue = z.queue
      BY <2>3 DEF U, IsLevel, IsTurn, Cut
    <3>4. Len(z.queue) <= l /\ Len(z.queue) \in Nat /\ DOMAIN z.queue = 1 .. Len(z.queue)
      BY <3>3, QueueLength DEF l
    <3> QED BY <2>2, <2>3, <3>2, <3>4
  <2> QED BY <2>5, <2>6
<1>13. \A k \in Nat : k \in S
  <2> HIDE DEF S
  <2> QED BY <1>11, <1>12, NoGraph, LP!SetInduction
<1> DEFINE v == f[1 .. l]
           t == Cut(v)
<1>14. v \in U /\ (v.start \notin DOMAIN v.queue \/ v.start > l)
  BY <1>1, <1>13 DEF l
<1> HIDE DEF S, v
<1>15. IsTurn(g, root, w, t, v.start) /\ v.start \in Nat /\ v.start > 0 /\ t.tree = v.tree /\ t.queue = v.queue
  BY <1>14 DEF U, IsLevel, Cut
<1>16. v.start \notin DOMAIN t.queue
  <2>1. Len(t.queue) <= l /\ Len(t.queue) \in Nat /\ DOMAIN t.queue = 1 .. Len(t.queue)
    BY <1>15, QueueLength DEF IsTurn, l
  <2> QED BY <1>1, <1>14, <1>15, <2>1 DEF l
<1> HIDE DEF t
<1>17. IsSearch(g, t) /\ IsLevelled(g, root, w, t, v.start) /\ Range(t.queue) = D
  BY <1>15, <1>16, QueueFull DEF IsTurn
<1>18. IsShortest(t.tree, g, root, w)
  BY <1>17, SearchShortest
<1> QED BY <1>3, <1>15, <1>18 DEF v

-----------------------------------------------------------------------------
\* The ports and the paths of a table.

\* Among keeps what is good, in order (IsFilter).
LEMMA AmongLoop ==
  ASSUME NEW S, NEW s \in Seq(S), NEW Good
  PROVE  \E F : Among(s, Good) = F[1 .. Len(s)] /\ IsFilter(F, Len(s), s, Good)
<1> DEFINE l == Len(s)
           IterF(F) == F = [a \in SUBSET DOMAIN s |-> IF a = {} THEN <<>> ELSE
                             LET x == Max(a)
                             IN  IF s[x] \in Good THEN Append(F[a \ {x}], s[x]) ELSE F[a \ {x}]]
           F == CHOOSE F : IterF(F)
<1>1. l \in Nat /\ DOMAIN s = 1 .. l /\ s \in [1 .. l -> S]
  OBVIOUS
<1>2. Among(s, Good) = F[1 .. l]
  BY <1>1 DEF Among, FoldLeft, MapThenFoldSet
<1> HIDE DEF l
<1>3. \A f : IterF(f) <=> IsFilter(f, l, s, Good)
  BY <1>1 DEF IsFilter
<1> HIDE DEF IterF
<1>4. IsFilter(F, l, s, Good)
  <2>1. \E f : IsFilter(f, l, s, Good)
    BY <1>1, FilterIs
  <2> QED BY <1>3, <2>1
<1> QED BY <1>2, <1>4 DEF l

LEMMA AmongIs ==
  ASSUME NEW S, NEW s \in Seq(S), NEW Good
  PROVE  IsPart(Among(s, Good), S, s, Good)
<1>1. Len(s) \in Nat /\ s \in [1 .. Len(s) -> S]
  OBVIOUS
<1> QED BY <1>1, AmongLoop, FilterIs

\* The sequence F lists what is behind the ports that H lists.
Behind(H, F, l, S, s) == /\ H \in Seq(1 .. l) /\ F \in Seq(S)
                         /\ DOMAIN F = DOMAIN H
                         /\ \A j \in DOMAIN H : F[j] = s[H[j]]

\* A loop that picks ports and one that picks what is behind them go on together.
LEMMA FilterMaps ==
  ASSUME NEW l \in Nat, NEW S, NEW s \in [1 .. l -> S], NEW Good,
         NEW ports, ports = [k \in 1 .. l |-> k],
         NEW GoodPorts, GoodPorts = {k \in 1 .. l : s[k] \in Good},
         NEW H, IsFilter(H, l, ports, GoodPorts),
         NEW F, IsFilter(F, l, s, Good)
  PROVE  Behind(H[1 .. l], F[1 .. l], l, S, s)
<1> DEFINE Both(k) == /\ H[1 .. k] \in Seq(1 .. l) /\ F[1 .. k] \in Seq(S)
                      /\ Len(F[1 .. k]) = Len(H[1 .. k])
                      /\ \A j \in 1 .. Len(H[1 .. k]) : F[1 .. k][j] = s[H[1 .. k][j]]
           T == {k \in Nat : k <= l => Both(k)}
<1>1. 0 \in T
  <2>1. H[1 .. 0] = <<>> /\ F[1 .. 0] = <<>>
    BY 1 .. 0 = {} DEF IsFilter
  <2>2. <<>> \in Seq(1 .. l) /\ <<>> \in Seq(S) /\ Len(<<>>) = 0 /\ 1 .. 0 = {}
    OBVIOUS
  <2>3. Both(0)
    BY <2>1, <2>2
  <2> HIDE DEF Both
  <2> QED BY <2>3
<1>2. ASSUME NEW k \in Nat, k \in T PROVE k + 1 \in T
  <2> SUFFICES ASSUME k + 1 <= l PROVE Both(k + 1)
    <3> HIDE DEF Both
    <3> QED OBVIOUS
  <2> DEFINE a == H[1 .. k]
             b == F[1 .. k]
             m == k + 1
  <2>1. m \in 1 .. l /\ m - 1 = k /\ Both(k)
    BY <1>2
  <2>2. 1 .. m \in SUBSET (1 .. l) /\ 1 .. m # {} /\ Max(1 .. m) = m /\ (1 .. m) \ {m} = 1 .. k
    BY <2>1, NoGraph, LP!FirstIndices
  <2> HIDE DEF m
  <2>3. H[1 .. m] = IF s[m] \in Good THEN Append(a, m) ELSE a
    <3>1. ports[m] = m /\ (m \in GoodPorts <=> s[m] \in Good)
      BY <2>1
    <3>2. H[1 .. m] = IF ports[Max(1 .. m)] \in GoodPorts
                      THEN Append(H[(1 .. m) \ {Max(1 .. m)}], ports[Max(1 .. m)])
                      ELSE H[(1 .. m) \ {Max(1 .. m)}]
      BY <2>2, Zenon DEF IsFilter
    <3> QED BY <2>2, <3>1, <3>2
  <2>4. F[1 .. m] = IF s[m] \in Good THEN Append(b, s[m]) ELSE b
    <3>1. F[1 .. m] = IF s[Max(1 .. m)] \in Good
                      THEN Append(F[(1 .. m) \ {Max(1 .. m)}], s[Max(1 .. m)])
                      ELSE F[(1 .. m) \ {Max(1 .. m)}]
      BY <2>2, Zenon DEF IsFilter
    <3> QED BY <2>2, <3>1
  <2>5. a \in Seq(1 .. l) /\ b \in Seq(S) /\ Len(b) = Len(a) /\ \A j \in 1 .. Len(a) : b[j] = s[a[j]]
    BY <2>1
  <2>6. s[m] \in S /\ m \in 1 .. l
    BY <2>1
  <2> HIDE DEF a, b, Both
  <2>7. Both(m)
    <3>1. CASE s[m] \in Good
      <4>1. H[1 .. m] = Append(a, m) /\ F[1 .. m] = Append(b, s[m])
        BY <2>3, <2>4, <3>1
      <4>2. /\ Append(a, m) \in Seq(1 .. l) /\ Append(b, s[m]) \in Seq(S)
            /\ Len(Append(a, m)) = Len(a) + 1 /\ Len(Append(b, s[m])) = Len(a) + 1
            /\ Len(a) \in Nat
        BY <2>5, <2>6
      <4>3. ASSUME NEW j \in 1 .. Len(a) + 1 PROVE Append(b, s[m])[j] = s[Append(a, m)[j]]
        <5>1. CASE j = Len(a) + 1
          BY <2>5, <2>6, <5>1
        <5>2. CASE j # Len(a) + 1
          <6>1. j \in 1 .. Len(a)
            BY <4>2, <5>2
          <6>2. Append(b, s[m])[j] = b[j] /\ Append(a, m)[j] = a[j]
            BY <2>5, <2>6, <6>1
          <6> QED BY <2>5, <6>1, <6>2
        <5> QED BY <5>1, <5>2
      <4> QED BY <4>1, <4>2, <4>3 DEF Both
    <3>2. CASE s[m] \notin Good
      BY <2>3, <2>4, <2>5, <3>2 DEF Both
    <3> QED BY <3>1, <3>2
  <2> QED BY <2>7 DEF m
<1>3. \A k \in Nat : k \in T
  <2> HIDE DEF T
  <2> QED BY <1>1, <1>2, NoGraph, LP!SetInduction
<1>4. Both(l)
  <2> HIDE DEF Both
  <2> QED BY <1>3
<1>5. H[1 .. l] \in Seq(1 .. l) /\ F[1 .. l] \in Seq(S) /\ Len(F[1 .. l]) = Len(H[1 .. l])
  BY <1>4
<1>6. DOMAIN F[1 .. l] = 1 .. Len(F[1 .. l]) /\ DOMAIN H[1 .. l] = 1 .. Len(H[1 .. l])
  BY <1>5
<1> QED BY <1>4, <1>5, <1>6 DEF Behind

\* The table names the ports behind which the next nodes of the paths are.
LEMMA PortsNearer ==
  ASSUME NEW g, IsGraph(g), NEW n \in DOMAIN g, NEW d \in DOMAIN g, n # d
  PROVE  LET ports == LoadDijkstra(g)[n][d]
             next  == Nearer(g, Weights(g, d), n)
         IN  /\ ports \in Seq(DOMAIN g[n]) /\ next \in Seq(DOMAIN g)
             /\ DOMAIN next = DOMAIN ports
             /\ \A j \in DOMAIN ports : next[j] = g[n][ports[j]]
<1> DEFINE D == DOMAIN g
           w == Weights(g, d)
           weights == [e \in D |-> Weights(g, e)]
           test(k) == weights[d][g[n][k]] = weights[d][n] - 1
           Good == {m \in D : w[m] = w[n] - 1}
           s == g[n]
           l == Len(s)
           ports == [k \in DOMAIN s |-> k]
           IterH(H) == H = [a \in SUBSET DOMAIN ports |-> IF a = {} THEN <<>> ELSE
                             LET x == Max(a)
                             IN  IF test(ports[x]) THEN Append(H[a \ {x}], ports[x]) ELSE H[a \ {x}]]
           H == CHOOSE H : IterH(H)
           GoodPorts == {k \in 1 .. l : s[k] \in Good}
<1>1. l \in Nat /\ DOMAIN s = 1 .. l /\ s \in [1 .. l -> D] /\ s \in Seq(D)
  <2>1. s \in Seq(D)
    BY DEF IsGraph
  <2> QED BY <2>1
<1>2. LoadDijkstra(g)[n][d] = H[1 .. l]
  BY <1>1 DEF LoadDijkstra, FoldLeft, MapThenFoldSet
<1>3. PICK F : Nearer(g, w, n) = F[1 .. l] /\ IsFilter(F, l, s, Good)
  <2> HIDE DEF Good, w
  <2>1. PICK F : Among(s, Good) = F[1 .. Len(s)] /\ IsFilter(F, Len(s), s, Good)
    BY <1>1, AmongLoop
  <2> QED BY <2>1 DEF Nearer, Good
<1>4. ports = [k \in 1 .. l |-> k] /\ weights[d] = w
  BY <1>1
<1>5. \A a \in SUBSET (1 .. l) : a # {} => Max(a) \in 1 .. l
  <2> SUFFICES ASSUME NEW a \in SUBSET (1 .. l), a # {} PROVE Max(a) \in a
    OBVIOUS
  <2> HIDE DEF l
  <2> QED BY <1>1, NoGraph, LP!MaxIn
<1> HIDE DEF l, ports, w, weights, s
<1>6. \A f : IterH(f) <=> IsFilter(f, l, ports, GoodPorts)
  <2>1. \A a \in SUBSET (1 .. l) : a # {} => (test(ports[Max(a)]) <=> ports[Max(a)] \in GoodPorts)
    <3> SUFFICES ASSUME NEW a \in SUBSET (1 .. l), a # {}
                 PROVE  test(ports[Max(a)]) <=> ports[Max(a)] \in GoodPorts
      OBVIOUS
    <3>1. Max(a) \in 1 .. l /\ ports[Max(a)] = Max(a) /\ s[Max(a)] \in D
      BY <1>1, <1>4, <1>5
    <3> QED BY <1>4, <3>1 DEF s
  <2>2. DOMAIN ports = 1 .. l
    BY <1>4
  <2> HIDE DEF GoodPorts, test
  <2> QED BY <2>1, <2>2 DEF IsFilter
<1> HIDE DEF IterH, Good, test
<1>8. IsFilter(H, l, ports, GoodPorts)
  <2>1. ports \in [1 .. l -> 1 .. l]
    BY <1>4
  <2> HIDE DEF GoodPorts
  <2>2. \E f : IsFilter(f, l, ports, GoodPorts)
    BY <1>1, <2>1, FilterIs
  <2> QED BY <1>6, <2>2
<1> HIDE DEF H
<1>10. GoodPorts = {k \in 1 .. l : s[k] \in Good}
  OBVIOUS
<1> HIDE DEF GoodPorts
<1>11. Behind(H[1 .. l], F[1 .. l], l, D, s)
  <2> HIDE DEF D
  <2> QED BY <1>1, <1>3, <1>4, <1>8, <1>10, FilterMaps
<1>12. l = Len(s) /\ 1 .. l = DOMAIN g[n]
  BY <1>1 DEF s
<1> QED BY <1>1, <1>2, <1>3, <1>11, <1>12 DEF s, w, Behind

\* Whatever graph it is, the ways of its table are its shortest paths, one by one.
LEMMA WaysArePaths ==
  ASSUME NEW g, IsGraph(g), NEW a \in DOMAIN g, NEW d \in DOMAIN g
  PROVE  GetPaths(LoadDijkstra(g), g, a, d) = SimplePaths(g, a, d)
<1> DEFINE D == DOMAIN g
           ports(n) == LoadDijkstra(g)[n][d]
           next(n) == Nearer(g, Weights(g, d), n)
           Way(f, n) == IF n = d THEN <<<<d>>>>
                        ELSE FlattenSeq([j \in DOMAIN ports(n) |->
                                [k \in DOMAIN f[g[n][ports(n)[j]]] |-> <<n>> \o f[g[n][ports(n)[j]]][k]]])
           Path(f, n) == IF n = d THEN <<<<d>>>>
                         ELSE FlattenSeq([j \in DOMAIN next(n) |->
                                [k \in DOMAIN f[next(n)[j]] |-> <<n>> \o f[next(n)[j]][k]]])
<1>1. GetPaths(LoadDijkstra(g), g, a, d) = (CHOOSE f : f = [n \in D |-> Way(f, n)])[a]
  BY DEF GetPaths
<1>2. SimplePaths(g, a, d) = (CHOOSE f : f = [n \in D |-> Path(f, n)])[a]
  BY DEF SimplePaths
<1>3. ASSUME NEW f, NEW n \in D PROVE Way(f, n) = Path(f, n)
  <2>1. CASE n = d
    BY <2>1
  <2>2. CASE n # d
    <3>1. /\ DOMAIN next(n) = DOMAIN ports(n)
          /\ \A j \in DOMAIN ports(n) : next(n)[j] = g[n][ports(n)[j]]
      BY <2>2, PortsNearer
    <3> HIDE DEF next, ports
    <3>2. [j \in DOMAIN ports(n) |-> [k \in DOMAIN f[g[n][ports(n)[j]]] |-> <<n>> \o f[g[n][ports(n)[j]]][k]]]
          = [j \in DOMAIN next(n) |-> [k \in DOMAIN f[next(n)[j]] |-> <<n>> \o f[next(n)[j]][k]]]
      BY <3>1
    <3> QED BY <2>2, <3>2
  <2> QED BY <2>1, <2>2
<1> HIDE DEF Way, Path
<1>4. \A f : (f = [n \in D |-> Way(f, n)]) <=> (f = [n \in D |-> Path(f, n)])
  BY <1>3
<1>5. (CHOOSE f : f = [n \in D |-> Way(f, n)]) = (CHOOSE f : f = [n \in D |-> Path(f, n)])
  BY <1>4, Zenon
<1> QED BY <1>1, <1>2, <1>5

\* The ways of l links from node a to node d.
Ways(g, l, a, d) ==
    {p \in [1 .. l + 1 -> DOMAIN g] :
        p[1] = a /\ p[l + 1] = d /\ \A i \in 1 .. l : p[i + 1] \in Range(g[p[i]])}

\* No way is shorter than the distance.
LEMMA NoShortcut ==
  ASSUME NEW g, IsGraph(g), NEW d \in DOMAIN g, NEW w, IsDistance(g, d, w),
         NEW a, NEW l \in Nat, NEW p \in Ways(g, l, a, d)
  PROVE  w[a] <= l
<1> DEFINE D == DOMAIN g
           T == {j \in Nat : j <= l => w[p[l + 1 - j]] <= j}
<1>1. /\ w \in [D -> Nat] /\ w[d] = 0 /\ p \in [1 .. l + 1 -> D] /\ p[1] = a /\ p[l + 1] = d
      /\ \A n \in D : \A m \in Range(g[n]) : w[m] <= w[n] + 1
      /\ \A i \in 1 .. l : p[i + 1] \in Range(g[p[i]])
  BY DEF IsDistance, Ways
<1>2. 0 \in T
  BY <1>1
<1>3. ASSUME NEW j \in Nat, j \in T PROVE j + 1 \in T
  <2> SUFFICES ASSUME j + 1 <= l PROVE w[p[l + 1 - (j + 1)]] <= j + 1
    OBVIOUS
  <2> DEFINE i == l - j
  <2>1. i \in 1 .. l /\ i + 1 \in 1 .. l + 1 /\ i \in 1 .. l + 1 /\ l + 1 - (j + 1) = i /\ l + 1 - j = i + 1
    OBVIOUS
  <2> HIDE DEF i
  <2>2. w[p[i + 1]] <= j
    BY <1>3, <2>1
  <2>3. p[i] \in D /\ p[i + 1] \in D /\ p[i + 1] \in Range(g[p[i]])
    BY <1>1, <2>1
  <2>4. p[i] \in Range(g[p[i + 1]])
    BY <2>3, LinkedBack
  <2>5. w[p[i]] <= w[p[i + 1]] + 1 /\ w[p[i]] \in Nat /\ w[p[i + 1]] \in Nat
    BY <1>1, <2>3, <2>4
  <2>6. w[p[i]] <= j + 1
    BY <2>2, <2>5
  <2> QED BY <2>1, <2>6
<1>4. l \in T
  <2> HIDE DEF T
  <2> QED BY <1>2, <1>3, NoGraph, LP!SetInduction
<1> QED BY <1>1, <1>4

LEMMA WayFrom ==
  ASSUME NEW D, NEW n \in D, NEW l \in Nat, NEW q \in [1 .. l + 1 -> D]
  PROVE  <<n>> \o q = [i \in 1 .. l + 2 |-> IF i = 1 THEN n ELSE q[i - 1]]
<1>1. q \in Seq(D) /\ Len(q) = l + 1 /\ <<n>> \in Seq(D) /\ Len(<<n>>) = 1
  OBVIOUS
<1> QED BY <1>1

\* A way that is one link longer takes a link and goes on by a way from there.
LEMMA WaysOn ==
  ASSUME NEW g, IsGraph(g), NEW d \in DOMAIN g, NEW n \in DOMAIN g, NEW l \in Nat
  PROVE  /\ \A m \in Range(g[n]) : \A q \in Ways(g, l, m, d) : <<n>> \o q \in Ways(g, l + 1, n, d)
         /\ \A p \in Ways(g, l + 1, n, d) :
               \E m \in Range(g[n]) : \E q \in Ways(g, l, m, d) : p = <<n>> \o q
<1> DEFINE D == DOMAIN g
<1>1. l + 1 + 1 = l + 2 /\ l + 1 \in Nat
  OBVIOUS
<1>2. ASSUME NEW m \in Range(g[n]), NEW q \in Ways(g, l, m, d) PROVE <<n>> \o q \in Ways(g, l + 1, n, d)
  <2> DEFINE p == [i \in 1 .. l + 2 |-> IF i = 1 THEN n ELSE q[i - 1]]
  <2>1. q \in [1 .. l + 1 -> D] /\ q[1] = m /\ q[l + 1] = d /\ \A i \in 1 .. l : q[i + 1] \in Range(g[q[i]])
    BY DEF Ways
  <2>2. p \in [1 .. l + 2 -> D]
    BY <2>1
  <2>3. p[1] = n /\ p[l + 2] = d /\ \A i \in 2 .. l + 2 : p[i] = q[i - 1]
    BY <2>1
  <2>4. ASSUME NEW i \in 1 .. l + 1 PROVE p[i + 1] \in Range(g[p[i]])
    <3>1. CASE i = 1
      BY <2>1, <2>3, <3>1
    <3>2. CASE i # 1
      <4>1. i \in 2 .. l + 2 /\ i + 1 \in 2 .. l + 2 /\ i - 1 \in 1 .. l /\ (i - 1) + 1 = i /\ (i + 1) - 1 = i
        BY <3>2
      <4> HIDE DEF p
      <4>2. p[i] = q[i - 1] /\ p[i + 1] = q[i] /\ q[i] \in Range(g[q[i - 1]])
        BY <2>1, <2>3, <4>1
      <4> QED BY <4>2
    <3> QED BY <3>1, <3>2
  <2>5. <<n>> \o q = p
    BY <2>1, WayFrom
  <2> HIDE DEF p
  <2> QED BY <1>1, <2>2, <2>3, <2>4, <2>5 DEF Ways
<1>3. ASSUME NEW p \in Ways(g, l + 1, n, d)
      PROVE  \E m \in Range(g[n]) : \E q \in Ways(g, l, m, d) : p = <<n>> \o q
  <2> DEFINE q == [i \in 1 .. l + 1 |-> p[i + 1]]
             m == p[2]
  <2>1. /\ p \in [1 .. l + 2 -> D] /\ p[1] = n /\ p[l + 2] = d
        /\ \A i \in 1 .. l + 1 : p[i + 1] \in Range(g[p[i]])
    BY <1>1 DEF Ways
  <2>2. q \in [1 .. l + 1 -> D] /\ q[1] = m /\ q[l + 1] = d /\ \A i \in 1 .. l + 1 : q[i] = p[i + 1]
    BY <2>1
  <2>3. m \in Range(g[n])
    BY <2>1
  <2> HIDE DEF q, m
  <2>4. \A i \in 1 .. l : q[i + 1] \in Range(g[q[i]])
    <3> SUFFICES ASSUME NEW i \in 1 .. l PROVE q[i + 1] \in Range(g[q[i]])
      OBVIOUS
    <3>1. i \in 1 .. l + 1 /\ i + 1 \in 1 .. l + 1
      OBVIOUS
    <3> QED BY <2>1, <2>2, <3>1
  <2>5. q \in Ways(g, l, m, d)
    BY <2>2, <2>4 DEF Ways
  <2>6. p = <<n>> \o q
    <3>1. <<n>> \o q = [i \in 1 .. l + 2 |-> IF i = 1 THEN n ELSE q[i - 1]]
      BY <2>2, WayFrom
    <3>2. ASSUME NEW i \in 1 .. l + 2 PROVE p[i] = IF i = 1 THEN n ELSE q[i - 1]
      <4>1. i # 1 => i - 1 \in 1 .. l + 1 /\ (i - 1) + 1 = i
        OBVIOUS
      <4> QED BY <2>1, <2>2, <4>1
    <3>3. p = [i \in 1 .. l + 2 |-> p[i]]
      BY <2>1
    <3> QED BY <3>1, <3>2, <3>3
  <2> QED BY <2>3, <2>5, <2>6
<1> QED BY <1>2, <1>3

\* The neighbours that are nearer.
LEMMA NearerIs ==
  ASSUME NEW g, IsGraph(g), NEW w \in [DOMAIN g -> Nat], NEW n \in DOMAIN g
  PROVE  /\ Nearer(g, w, n) \in Seq(DOMAIN g)
         /\ Range(Nearer(g, w, n)) = {m \in Range(g[n]) : w[m] = w[n] - 1}
<1> DEFINE D == DOMAIN g
           Good == {m \in D : w[m] = w[n] - 1}
<1>1. g[n] \in Seq(D)
  BY DEF IsGraph
<1>2. Range(g[n]) \subseteq D
  BY <1>1 DEF Range
<1>3. IsPart(Nearer(g, w, n), D, g[n], Good)
  <2> HIDE DEF Good
  <2>1. IsPart(Among(g[n], Good), D, g[n], Good)
    BY <1>1, AmongIs
  <2> QED BY <2>1 DEF Nearer, Good
<1> QED BY <1>2, <1>3 DEF IsPart

\* The list s is not empty and holds exactly the ways of l links.
Listed(s, g, l, n, d) == s \in Seq(Seq(DOMAIN g)) /\ s # <<>> /\ Range(s) = Ways(g, l, n, d)

\* The paths of n, of those of the nodes after it.
Onward(f, m, n) == [k \in DOMAIN f[m] |-> <<n>> \o f[m][k]]
PathsFrom(g, w, d, f, n) ==
    IF n = d THEN <<<<d>>>>
    ELSE FlattenSeq([j \in DOMAIN Nearer(g, w, n) |-> Onward(f, Nearer(g, w, n)[j], n)])

ArePaths(f, g, w, d) == f = [n \in DOMAIN g |-> PathsFrom(g, w, d, f, n)]

LongerWays(D, n, ways, longer) ==
    /\ longer \in Seq(Seq(D)) /\ Len(longer) = Len(ways)
    /\ \A q \in Range(ways) : <<n>> \o q \in Range(longer)
    /\ \A p \in Range(longer) : \E q \in Range(ways) : p = <<n>> \o q

LEMMA OnwardIs ==
  ASSUME NEW D, NEW n \in D, NEW f, NEW m, f[m] \in Seq(Seq(D))
  PROVE  LongerWays(D, n, f[m], Onward(f, m, n))
<1> DEFINE s == Onward(f, m, n)
           l == Len(f[m])
<1>1. l \in Nat /\ DOMAIN f[m] = 1 .. l /\ \A k \in 1 .. l : f[m][k] \in Seq(D)
  OBVIOUS
<1>2. s = [k \in 1 .. l |-> <<n>> \o f[m][k]]
  BY <1>1 DEF Onward
<1>3. \A k \in 1 .. l : <<n>> \o f[m][k] \in Seq(D)
  <2> SUFFICES ASSUME NEW k \in 1 .. l PROVE <<n>> \o f[m][k] \in Seq(D)
    OBVIOUS
  <2>1. f[m][k] \in Seq(D) /\ <<n>> \in Seq(D)
    BY <1>1
  <2> QED BY <2>1
<1> HIDE DEF s, l
<1>4. s \in [1 .. l -> Seq(D)]
  BY <1>2, <1>3
<1>5. s \in Seq(Seq(D)) /\ Len(s) = l /\ DOMAIN s = 1 .. l
  BY <1>1, <1>4
<1>6. Range(f[m]) = {f[m][k] : k \in 1 .. l} /\ Range(s) = {s[k] : k \in 1 .. l}
  BY <1>1, <1>5, Zenon DEF Range
<1>7. \A q \in Range(f[m]) : <<n>> \o q \in Range(s)
  BY <1>2, <1>6
<1>8. \A p \in Range(s) : \E q \in Range(f[m]) : p = <<n>> \o q
  BY <1>2, <1>6
<1> QED BY <1>5, <1>7, <1>8 DEF s, l, LongerWays

LEMMA OnlyItself ==
  ASSUME NEW g, NEW d \in DOMAIN g
  PROVE  Listed(<<<<d>>>>, g, 0, d, d)
<1> DEFINE D == DOMAIN g
<1>1. <<d>> \in Seq(D) /\ <<d>> \in [1 .. 1 -> D] /\ <<d>>[1] = d
  OBVIOUS
<1>2. <<<<d>>>> \in Seq(Seq(D)) /\ <<<<d>>>> # <<>> /\ Range(<<<<d>>>>) = {<<d>>}
  BY <1>1 DEF Range
<1>3. <<d>> \in Ways(g, 0, d, d)
  BY <1>1 DEF Ways
<1>4. ASSUME NEW p \in Ways(g, 0, d, d) PROVE p = <<d>>
  <2>1. p \in [1 .. 1 -> D] /\ p[1] = d
    BY <1>4 DEF Ways
  <2> QED BY <2>1
<1> QED BY <1>2, <1>3, <1>4 DEF Listed

LEMMA StepNearer ==
  ASSUME NEW g, NEW d \in DOMAIN g, NEW w, IsDistance(g, d, w), NEW n \in DOMAIN g, n # d
  PROVE  /\ w[n] - 1 \in Nat
         /\ \E m \in DOMAIN g : m \in Range(g[n]) /\ w[m] = w[n] - 1
<1>1. w \in [DOMAIN g -> Nat] /\ \E m \in DOMAIN g : m \in Range(g[n]) /\ w[m] = w[n] - 1
  BY DEF IsDistance
<1> QED BY <1>1

\* If the nodes that are nearer list their ways, so does the next.
LEMMA PathsStep ==
  ASSUME NEW g, IsGraph(g), NEW d \in DOMAIN g, NEW w, IsDistance(g, d, w), NEW n \in DOMAIN g,
         NEW f, \A m \in DOMAIN g : w[m] < w[n] => Listed(f[m], g, w[m], m, d)
  PROVE  Listed(PathsFrom(g, w, d, f, n), g, w[n], n, d)
<1> DEFINE D == DOMAIN g
           next == Nearer(g, w, n)
           l == w[n] - 1
           seqs == [j \in DOMAIN next |-> Onward(f, next[j], n)]
           S == Seq(D)
<1>1. CASE n = d
  <2>1. w[n] = 0
    BY <1>1 DEF IsDistance
  <2> QED BY <1>1, <2>1, OnlyItself DEF PathsFrom
<1>2. CASE n # d
  <2>1. w \in [D -> Nat]
    BY DEF IsDistance
  <2>2. l \in Nat /\ \E m \in D : m \in Range(g[n]) /\ w[m] = l
    BY <1>2, StepNearer
  <2>3. next \in Seq(D) /\ Range(next) = {m \in Range(g[n]) : w[m] = l}
    BY <2>1, NearerIs
  <2> HIDE DEF next, l
  <2>4. DOMAIN next = 1 .. Len(next) /\ Len(next) \in Nat /\ \A j \in 1 .. Len(next) : next[j] \in D
    BY <2>3
  <2>5. \A m \in Range(next) : m \in D /\ m \in Range(g[n]) /\ Listed(f[m], g, l, m, d)
    <3> SUFFICES ASSUME NEW m \in Range(next)
                 PROVE  m \in D /\ m \in Range(g[n]) /\ Listed(f[m], g, l, m, d)
      OBVIOUS
    <3>1. m \in D /\ m \in Range(g[n]) /\ w[m] = l
      BY <2>3, <2>4 DEF Range
    <3>2. w[m] < w[n]
      BY <2>1, <3>1 DEF l
    <3> QED BY <3>1, <3>2
  <2>6. \A j \in 1 .. Len(next) : next[j] \in Range(next)
    BY <2>4 DEF Range
  <2>7. \A j \in 1 .. Len(next) : Onward(f, next[j], n) \in Seq(S)
    BY <2>5, <2>6, OnwardIs DEF Listed, LongerWays
  <2> HIDE DEF S
  <2>8. seqs \in [1 .. Len(next) -> Seq(S)] /\ \A j \in 1 .. Len(next) : seqs[j] = Onward(f, next[j], n)
    BY <2>4, <2>7
  <2> HIDE DEF seqs
  <2> DEFINE all == FlattenSeq(seqs)
  <2>9. /\ all \in Seq(S)
        /\ \A i \in 1 .. Len(next) : Range(seqs[i]) \subseteq Range(all)
        /\ \A x \in Range(all) : \E i \in 1 .. Len(next) : x \in Range(seqs[i])
    BY <2>4, <2>8, FlattenIs
  <2> HIDE DEF all
  <2>10. l + 1 = w[n]
    BY <2>1 DEF l
  <2>11. /\ \A m \in Range(g[n]) : \A q \in Ways(g, l, m, d) : <<n>> \o q \in Ways(g, l + 1, n, d)
         /\ \A p \in Ways(g, l + 1, n, d) :
               \E m \in Range(g[n]) : \E q \in Ways(g, l, m, d) : p = <<n>> \o q
    BY <2>2, WaysOn
  <2>12. ASSUME NEW x \in Range(all) PROVE x \in Ways(g, l + 1, n, d)
    <3>1. PICK i \in 1 .. Len(next) : x \in Range(Onward(f, next[i], n))
      BY <2>8, <2>9
    <3>2. next[i] \in Range(g[n]) /\ Listed(f[next[i]], g, l, next[i], d)
      BY <2>5, <2>6
    <3>3. PICK q \in Range(f[next[i]]) : x = <<n>> \o q
      <4> DEFINE m == next[i]
      <4>1. f[m] \in Seq(Seq(D)) /\ x \in Range(Onward(f, m, n))
        BY <3>1, <3>2 DEF Listed
      <4> HIDE DEF m
      <4>2. LongerWays(D, n, f[m], Onward(f, m, n))
        BY <4>1, OnwardIs
      <4>3. \E q \in Range(f[m]) : x = <<n>> \o q
        BY <4>1, <4>2 DEF LongerWays
      <4> QED BY <4>3 DEF m
    <3>4. q \in Ways(g, l, next[i], d)
      BY <3>2, <3>3 DEF Listed
    <3> QED BY <2>11, <3>2, <3>3, <3>4
  <2>13. ASSUME NEW p \in Ways(g, l + 1, n, d) PROVE p \in Range(all)
    <3>1. PICK m \in Range(g[n]) : \E q \in Ways(g, l, m, d) : p = <<n>> \o q
      BY <2>11
    <3>2. PICK q \in Ways(g, l, m, d) : p = <<n>> \o q
      BY <3>1
    <3>3. m \in D
      <4>1. g[n] \in Seq(D)
        BY DEF IsGraph
      <4> QED BY <4>1 DEF Range
    <3>4. w[m] = l
      <4>1. w[m] <= l
        BY <2>2, NoShortcut
      <4>2. n \in Range(g[m])
        BY <3>1, <3>3, LinkedBack
      <4>3. w[n] <= w[m] + 1
        BY <3>3, <4>2 DEF IsDistance
      <4> QED BY <2>1, <2>2, <2>10, <3>3, <4>1, <4>3
    <3>5. m \in Range(next)
      BY <2>3, <3>1, <3>4
    <3>6. PICK j \in 1 .. Len(next) : m = next[j]
      BY <2>4, <3>5 DEF Range
    <3>7. Listed(f[m], g, l, m, d)
      BY <2>5, <3>5
    <3>8. <<n>> \o q \in Range(Onward(f, m, n))
      BY <3>2, <3>7, OnwardIs DEF Listed, LongerWays
    <3> QED BY <2>8, <2>9, <3>2, <3>6, <3>8
  <2>14. Ways(g, l + 1, n, d) # {} /\ all # <<>>
    <3>1. PICK m \in Range(next) : TRUE
      BY <2>2, <2>3
    <3>2. Listed(f[m], g, l, m, d) /\ m \in Range(g[n])
      BY <2>5
    <3>3. PICK q \in Ways(g, l, m, d) : TRUE
      <4>1. Len(f[m]) # 0 /\ DOMAIN f[m] = 1 .. Len(f[m]) /\ Len(f[m]) \in Nat
        BY <3>2 DEF Listed
      <4>2. f[m][1] \in Range(f[m])
        BY <4>1 DEF Range
      <4> QED BY <3>2, <4>2 DEF Listed
    <3>4. <<n>> \o q \in Range(all)
      BY <2>11, <2>13, <3>2, <3>3
    <3>5. Range(<<>>) = {}
      BY DEF Range
    <3> QED BY <2>12, <3>4, <3>5
  <2>15. PathsFrom(g, w, d, f, n) = all
    BY <1>2, Zenon DEF PathsFrom, all, seqs, next
  <2> QED BY <2>9, <2>10, <2>12, <2>13, <2>14, <2>15 DEF Listed, S
<1> QED BY <1>1, <1>2

\* What is listed from a node depends on the lists of the nearer nodes only.
LEMMA PathsFromNearer ==
  ASSUME NEW g, IsGraph(g), NEW d, NEW w \in [DOMAIN g -> Nat], NEW n \in DOMAIN g, NEW e, NEW f,
         \A m \in DOMAIN g : w[m] = w[n] - 1 => e[m] = f[m]
  PROVE  PathsFrom(g, w, d, e, n) = PathsFrom(g, w, d, f, n)
<1> DEFINE next == Nearer(g, w, n)
<1>1. next \in Seq(DOMAIN g) /\ \A m \in Range(next) : w[m] = w[n] - 1
  BY NearerIs
<1> HIDE DEF next
<1>2. \A j \in DOMAIN next : next[j] \in DOMAIN g /\ next[j] \in Range(next)
  BY <1>1 DEF Range
<1>3. \A j \in DOMAIN next : Onward(e, next[j], n) = Onward(f, next[j], n)
  BY <1>1, <1>2 DEF Onward
<1>4. [j \in DOMAIN next |-> Onward(e, next[j], n)] = [j \in DOMAIN next |-> Onward(f, next[j], n)]
  BY <1>3
<1> QED BY <1>4, Zenon DEF PathsFrom, next

\* There are lists for all nodes, made for one distance after the other.
LEMMA PathsExist ==
  ASSUME NEW g, IsGraph(g), NEW d \in DOMAIN g, NEW w \in [DOMAIN g -> Nat],
         \A n \in DOMAIN g : w[n] < Inf
  PROVE  \E f : ArePaths(f, g, w, d)
<1> DEFINE D == DOMAIN g
           upto(f, k) == /\ f = [n \in D |-> f[n]]
                         /\ \A n \in D : w[n] < k => f[n] = PathsFrom(g, w, d, f, n)
           T == {k \in Nat : \E f : upto(f, k)}
<1>1. 0 \in T
  <2> DEFINE f == [n \in D |-> <<>>]
  <2>1. upto(f, 0)
    OBVIOUS
  <2> HIDE DEF upto
  <2> QED BY <2>1
<1>2. ASSUME NEW k \in Nat, k \in T PROVE k + 1 \in T
  <2>1. PICK f : upto(f, k)
    BY <1>2
  <2> DEFINE e == [n \in D |-> IF w[n] = k THEN PathsFrom(g, w, d, f, n) ELSE f[n]]
  <2>2. \A n \in D : e[n] = IF w[n] = k THEN PathsFrom(g, w, d, f, n) ELSE f[n]
    OBVIOUS
  <2>3. e = [n \in D |-> e[n]]
    OBVIOUS
  <2> HIDE DEF e
  <2>4. ASSUME NEW n \in D, w[n] < k + 1 PROVE e[n] = PathsFrom(g, w, d, e, n)
    <3>1. \A m \in D : w[m] = w[n] - 1 => e[m] = f[m]
      <4> SUFFICES ASSUME NEW m \in D, w[m] = w[n] - 1 PROVE e[m] = f[m]
        OBVIOUS
      <4>1. w[m] # k
        BY <2>4
      <4> QED BY <2>2, <4>1
    <3>2. PathsFrom(g, w, d, e, n) = PathsFrom(g, w, d, f, n)
      BY <3>1, PathsFromNearer
    <3>3. CASE w[n] = k
      BY <2>2, <3>2, <3>3
    <3>4. CASE w[n] # k
      <4>1. w[n] < k
        BY <2>4, <3>4
      <4>2. f[n] = PathsFrom(g, w, d, f, n)
        BY <2>1, <4>1
      <4> QED BY <2>2, <3>2, <3>4, <4>2
    <3> QED BY <3>3, <3>4
  <2>5. upto(e, k + 1)
    BY <2>3, <2>4
  <2> HIDE DEF upto
  <2> QED BY <2>5
<1>3. Inf \in T
  <2> HIDE DEF T
  <2>1. \A k \in Nat : k \in T
    BY <1>1, <1>2, NoGraph, LP!SetInduction
  <2> QED BY <2>1, InfNat
<1>4. PICK f : upto(f, Inf)
  BY <1>3
<1>5. \A n \in D : f[n] = PathsFrom(g, w, d, f, n)
  BY <1>4
<1>6. f = [n \in D |-> f[n]]
  BY <1>4
<1>7. f = [n \in D |-> PathsFrom(g, w, d, f, n)]
  BY <1>5, <1>6
<1> QED BY <1>7 DEF ArePaths

LEMMA PathsListed ==
  ASSUME NEW g, IsGraph(g), NEW d \in DOMAIN g, NEW w, IsDistance(g, d, w), NEW f, ArePaths(f, g, w, d),
         NEW n \in DOMAIN g
  PROVE  Listed(f[n], g, w[n], n, d)
<1> DEFINE D == DOMAIN g
           T == {k \in Nat : \A m \in D : w[m] < k => Listed(f[m], g, w[m], m, d)}
<1>1. w \in [D -> Nat] /\ \A m \in D : f[m] = PathsFrom(g, w, d, f, m)
  <2>1. f = [m \in D |-> PathsFrom(g, w, d, f, m)]
    BY DEF ArePaths
  <2> HIDE DEF D
  <2>2. \A m \in D : f[m] = PathsFrom(g, w, d, f, m)
    BY <2>1
  <2> QED BY <2>2 DEF IsDistance, D
<1>2. 0 \in T
  BY <1>1
<1>3. ASSUME NEW k \in Nat, k \in T PROVE k + 1 \in T
  <2> SUFFICES ASSUME NEW m \in D, w[m] < k + 1 PROVE Listed(f[m], g, w[m], m, d)
    OBVIOUS
  <2>1. \A o \in D : w[o] < w[m] => Listed(f[o], g, w[o], o, d)
    <3> SUFFICES ASSUME NEW o \in D, w[o] < w[m] PROVE Listed(f[o], g, w[o], o, d)
      OBVIOUS
    <3>1. w[o] < k
      BY <1>1
    <3> QED BY <1>3, <3>1
  <2> QED BY <1>1, <2>1, PathsStep
<1>4. w[n] + 1 \in T
  <2> HIDE DEF T
  <2>1. \A k \in Nat : k \in T
    BY <1>2, <1>3, NoGraph, LP!SetInduction
  <2> QED BY <1>1, <2>1
<1> QED BY <1>1, <1>4

LEMMA SimplePathsIs ==
  ASSUME NEW g, NEW a, NEW d
  PROVE  SimplePaths(g, a, d) = (CHOOSE f : ArePaths(f, g, Weights(g, d), d))[a]
BY Zenon DEF SimplePaths, ArePaths, PathsFrom, Onward

\* The list of paths that the code makes (Graph::get_simple_paths) holds every way
\* that has as many links as the distance, and nothing else; no way has fewer links.
THEOREM ShortestPaths ==
  ASSUME NEW g, IsGraph(g), IsConnected(g), Cardinality(DOMAIN g) < Inf,
         NEW a \in DOMAIN g, NEW d \in DOMAIN g
  PROVE  LET l     == Weights(g, d)[a]
             paths == SimplePaths(g, a, d)
         IN  /\ l \in Nat /\ paths \in Seq(Seq(DOMAIN g)) /\ paths # <<>>
             /\ Range(paths) = Ways(g, l, a, d)
             /\ \A k \in Nat : Ways(g, k, a, d) # {} => l <= k
<1> DEFINE w == Weights(g, d)
<1>1. IsDistance(g, d, w) /\ \A n \in DOMAIN g : w[n] < Inf
  BY DijkstraDistances
<1>2. w \in [DOMAIN g -> Nat]
  BY <1>1 DEF IsDistance
<1>3. SimplePaths(g, a, d) = (CHOOSE f : ArePaths(f, g, w, d))[a]
  BY SimplePathsIs
<1> HIDE DEF w
<1>4. PICK f : ArePaths(f, g, w, d) /\ SimplePaths(g, a, d) = f[a]
  <2>1. \E f : ArePaths(f, g, w, d)
    BY <1>1, <1>2, PathsExist
  <2> QED BY <1>3, <2>1
<1>5. Listed(SimplePaths(g, a, d), g, w[a], a, d)
  BY <1>1, <1>4, PathsListed
<1>6. \A k \in Nat : Ways(g, k, a, d) # {} => w[a] <= k
  BY <1>1, NoShortcut
<1> QED BY <1>2, <1>5, <1>6 DEF Listed, w


-----------------------------------------------------------------------------
\* Trees whose nodes are linked, one by one, to a neighbour that is nearer the root.

\* The nodes V have been linked, each once, to one of the nodes that are nearer.
IsHung(g, root, w, t, V) ==
    /\ t \in [DOMAIN g -> Seq(DOMAIN g)] /\ V \subseteq DOMAIN g \ {root}
    /\ \A n \in DOMAIN g : Range(t[n]) \subseteq Range(g[n])
    /\ \A n \in DOMAIN g, m \in DOMAIN g : Cardinality(LinksTo(t, n, m)) = Cardinality(LinksTo(t, m, n))
    /\ \A n \in V : \E m \in DOMAIN g : m \in Range(t[n]) /\ w[m] = w[n] - 1
    /\ \A n \in DOMAIN g : \A m \in Range(t[n]) : (n \in V /\ w[m] = w[n] - 1) \/ (m \in V /\ w[m] = w[n] + 1)
    /\ \A n \in DOMAIN g : \A a \in Range(t[n]), b \in Range(t[n]) : w[a] < w[n] /\ w[b] < w[n] => a = b
    /\ HasTotal(t, Cardinality(DOMAIN g), 2 * Cardinality(V))

LEMMA NoneHung ==
  ASSUME NEW g, IsGraph(g), NEW root \in DOMAIN g, NEW w
  PROVE  IsHung(g, root, w, NoLinks(g), {})
<1> DEFINE D == DOMAIN g
           t == NoLinks(g)
<1>1. AreNodes(D) /\ IsTree(t, D, {root})
  BY GraphNodes, NoLinksTree
<1>2. /\ t \in [D -> Seq(D)] /\ \A n \in D : Range(t[n]) = {}
  BY DEF NoLinks, Range
<1>3. \A n \in D, m \in D : Cardinality(LinksTo(t, n, m)) = Cardinality(LinksTo(t, m, n))
  BY <1>1 DEF IsTree
<1>4. HasTotal(t, Cardinality(D), 2 * Cardinality({}))
  <2>1. 2 * Cardinality({root}) - 2 = 0 /\ 2 * Cardinality({}) = 0
    BY FS_Singleton, FS_EmptySet
  <2>2. HasTotal(t, Cardinality(D), 2 * Cardinality({root}) - 2)
    BY <1>1 DEF IsTree
  <2> HIDE DEF t
  <2> QED BY <2>1, <2>2
<1> HIDE DEF t
<1> QED BY <1>2, <1>3, <1>4 DEF IsHung, t

\* What a link adds to the links between two nodes.
MoreLinks(u, t, D, n, m) ==
    /\ Cardinality(LinksTo(u, n, m)) = Cardinality(LinksTo(t, n, m)) + 1
    /\ \A a \in D, b \in D : ~(a = n /\ b = m) /\ ~(a = m /\ b = n) => LinksTo(u, a, b) = LinksTo(t, a, b)

LEMMA LinksBoth ==
  ASSUME NEW D, NEW t \in [D -> Seq(D)], NEW u, NEW n \in D, NEW m \in D, n # m,
         IsLinked(u, D, t, n, m)
  PROVE  MoreLinks(u, t, D, n, m)
<1>1. /\ u \in [D -> Seq(D)] /\ u[n] = Append(t[n], m) /\ u[m] = Append(t[m], n)
      /\ \A x \in D \ {n, m} : u[x] = t[x]
  BY DEF IsLinked
<1>2. ASSUME NEW x \in D, NEW y \in D, u[x] = Append(t[x], y)
      PROVE  /\ Len(t[x]) \in Nat /\ DOMAIN t[x] = 1 .. Len(t[x])
             /\ DOMAIN u[x] = 1 .. Len(t[x]) + 1 /\ u[x][Len(t[x]) + 1] = y
             /\ \A k \in 1 .. Len(t[x]) : u[x][k] = t[x][k]
  <2>1. t[x] \in Seq(D)
    OBVIOUS
  <2> QED BY <1>2, <2>1
<1>3. Cardinality(LinksTo(u, n, m)) = Cardinality(LinksTo(t, n, m)) + 1
  <2> DEFINE k == Len(t[n]) + 1
             A == LinksTo(t, n, m)
  <2>1. /\ k \in Nat /\ k - 1 \in Nat /\ DOMAIN t[n] = 1 .. k - 1 /\ DOMAIN u[n] = 1 .. k /\ u[n][k] = m
        /\ \A i \in 1 .. k - 1 : u[n][i] = t[n][i]
    BY <1>1, <1>2
  <2> HIDE DEF k
  <2>2. LinksTo(u, n, m) = A \cup {k} /\ k \notin A
    BY <2>1 DEF LinksTo
  <2>3. IsFiniteSet(A)
    <3>1. A \subseteq 1 .. k - 1
      BY <2>1 DEF LinksTo
    <3>2. IsFiniteSet(1 .. k - 1)
      BY <2>1, FS_Interval
    <3> QED BY <3>1, <3>2, FS_Subset
  <2> HIDE DEF A
  <2> QED BY <2>2, <2>3, FS_AddElement DEF A
<1>4. ASSUME NEW a \in D, NEW b \in D, ~(a = n /\ b = m), ~(a = m /\ b = n)
      PROVE  LinksTo(u, a, b) = LinksTo(t, a, b)
  <2>1. CASE a \notin {n, m}
    BY <1>1, <2>1 DEF LinksTo
  <2>2. ASSUME NEW y \in {n, m}, u[a] = Append(t[a], y), y # b PROVE LinksTo(u, a, b) = LinksTo(t, a, b)
    <3> DEFINE k == Len(t[a]) + 1
    <3>1. /\ k \in Nat /\ k - 1 \in Nat /\ DOMAIN t[a] = 1 .. k - 1 /\ DOMAIN u[a] = 1 .. k /\ u[a][k] = y
          /\ \A i \in 1 .. k - 1 : u[a][i] = t[a][i]
      BY <1>2, <2>2
    <3> HIDE DEF k
    <3> QED BY <2>2, <3>1 DEF LinksTo
  <2>3. CASE a = n
    BY <1>1, <1>4, <2>2, <2>3
  <2>4. CASE a = m
    BY <1>1, <1>4, <2>2, <2>4
  <2> QED BY <2>1, <2>3, <2>4
<1> QED BY <1>3, <1>4 DEF MoreLinks

LEMMA LinkHangs ==
  ASSUME NEW g, IsGraph(g), NEW root \in DOMAIN g, NEW w, IsDistance(g, root, w), NEW t, NEW V,
         IsHung(g, root, w, t, V), NEW n \in DOMAIN g \ {root}, n \notin V,
         NEW m \in DOMAIN g, m \in Range(g[n]), w[m] = w[n] - 1
  PROVE  IsHung(g, root, w, Link(t, n, m), V \cup {n})
<1> DEFINE D == DOMAIN g
           u == Link(t, n, m)
           W == V \cup {n}
<1>1. /\ t \in [D -> Seq(D)] /\ V \subseteq D \ {root} /\ AreNodes(D) /\ w \in [D -> Nat]
      /\ \A x \in D : Range(t[x]) \subseteq Range(g[x])
      /\ \A x \in D, y \in D : Cardinality(LinksTo(t, x, y)) = Cardinality(LinksTo(t, y, x))
      /\ \A x \in V : \E y \in D : y \in Range(t[x]) /\ w[y] = w[x] - 1
      /\ \A x \in D : \A y \in Range(t[x]) : (x \in V /\ w[y] = w[x] - 1) \/ (y \in V /\ w[y] = w[x] + 1)
      /\ \A x \in D : \A a \in Range(t[x]), b \in Range(t[x]) : w[a] < w[x] /\ w[b] < w[x] => a = b
      /\ HasTotal(t, Cardinality(D), 2 * Cardinality(V))
  BY GraphNodes DEF IsHung, IsDistance
<1>2. n \in D /\ w[n] \in Nat /\ w[m] \in Nat /\ n # m /\ w[n] = w[m] + 1
  BY <1>1
<1>3. IsLinked(u, D, t, n, m) /\ IsLinked(u, D, t, m, n)
  <2>1. IsLinked(u, D, t, n, m)
    BY <1>1, <1>2, LinkAdds
  <2> HIDE DEF u
  <2> QED BY <2>1 DEF IsLinked
<1>4. n \in Range(g[m])
  BY <1>2, LinkedBack
<1>5. HasTotal(u, Cardinality(D), 2 * Cardinality(W))
  <2>1. IsFiniteSet(V) /\ Cardinality(V) \in Nat /\ Cardinality(W) = Cardinality(V) + 1
    <3>1. IsFiniteSet(V)
      <4>1. IsFiniteSet(D) /\ V \subseteq D
        BY <1>1 DEF AreNodes
      <4> QED BY <4>1, FS_Subset
    <3> QED BY <3>1, FS_AddElement, FS_CardinalityType
  <2> DEFINE c == 2 * Cardinality(V)
  <2>2. c \in Nat /\ c + 2 = 2 * Cardinality(W) /\ HasTotal(t, Cardinality(D), c)
    BY <1>1, <2>1
  <2> HIDE DEF c, W
  <2>3. HasTotal(u, Cardinality(D), c + 2)
    BY <1>1, <1>2, <2>2, LinkTotal
  <2> QED BY <2>2, <2>3
<1> HIDE DEF u
<1>6. /\ u \in [D -> Seq(D)]
      /\ Range(u[n]) = Range(t[n]) \cup {m} /\ Range(u[m]) = Range(t[m]) \cup {n}
      /\ \A x \in D \ {n, m} : u[x] = t[x]
  BY <1>3 DEF IsLinked
<1>7. ASSUME NEW x \in D, NEW y \in D PROVE Cardinality(LinksTo(u, x, y)) = Cardinality(LinksTo(u, y, x))
  <2>1. MoreLinks(u, t, D, n, m) /\ MoreLinks(u, t, D, m, n)
    BY <1>1, <1>2, <1>3, LinksBoth
  <2>2. /\ Cardinality(LinksTo(u, n, m)) = Cardinality(LinksTo(t, n, m)) + 1
        /\ Cardinality(LinksTo(u, m, n)) = Cardinality(LinksTo(t, m, n)) + 1
        /\ ~(x = n /\ y = m) /\ ~(x = m /\ y = n) =>
              LinksTo(u, x, y) = LinksTo(t, x, y) /\ LinksTo(u, y, x) = LinksTo(t, y, x)
    BY <2>1 DEF MoreLinks
  <2>3. CASE (x = n /\ y = m) \/ (x = m /\ y = n)
    BY <1>1, <1>2, <2>2, <2>3
  <2>4. CASE ~(x = n /\ y = m) /\ ~(x = m /\ y = n)
    BY <1>1, <2>2, <2>4
  <2> QED BY <2>3, <2>4
<1>8. ASSUME NEW x \in D PROVE Range(u[x]) \subseteq Range(g[x])
  BY <1>1, <1>4, <1>6
<1>9. ASSUME NEW x \in W PROVE \E y \in D : y \in Range(u[x]) /\ w[y] = w[x] - 1
  <2>1. CASE x = n
    BY <1>6, <2>1
  <2>2. CASE x # n
    <3>1. PICK y \in D : y \in Range(t[x]) /\ w[y] = w[x] - 1
      BY <1>1, <2>2
    <3>2. x \in D
      BY <1>1, <2>2
    <3> QED BY <1>6, <2>2, <3>1, <3>2
  <2> QED BY <2>1, <2>2
<1>10. ASSUME NEW x \in D, NEW y \in Range(u[x])
       PROVE  (x \in W /\ w[y] = w[x] - 1) \/ (y \in W /\ w[y] = w[x] + 1)
  <2>1. CASE y \in Range(t[x])
    BY <1>1, <2>1
  <2>2. CASE x = n /\ y = m
    BY <2>2
  <2>3. CASE x = m /\ y = n
    BY <1>2, <2>3
  <2> QED BY <1>6, <2>1, <2>2, <2>3
<1>11. ASSUME NEW x \in D, NEW a \in Range(u[x]), NEW b \in Range(u[x]), w[a] < w[x], w[b] < w[x] PROVE a = b
  <2>1. \A y \in Range(t[n]) : w[y] = w[n] + 1
    BY <1>1
  <2>2. CASE x = n
    <3>1. \A y \in Range(u[n]) : w[y] < w[n] => y = m
      BY <1>2, <1>6, <2>1
    <3> QED BY <1>11, <2>2, <3>1
  <2>3. CASE x # n
    <3>1. ASSUME NEW y \in Range(u[x]), w[y] < w[x] PROVE y \in Range(t[x])
      <4>1. CASE x = m
        <5>1. y \in Range(t[m]) \cup {n} /\ w[y] < w[m]
          BY <1>6, <3>1, <4>1
        <5>2. ~(w[n] < w[m])
          BY <1>2
        <5> QED BY <4>1, <5>1, <5>2
      <4>2. CASE x # m
        BY <1>6, <2>3, <4>2
      <4> QED BY <4>1, <4>2
    <3>2. a \in Range(t[x]) /\ b \in Range(t[x])
      BY <1>11, <3>1
    <3> QED BY <1>1, <1>11, <3>2
  <2> QED BY <2>2, <2>3
<1>12. W \subseteq D \ {root}
  BY <1>1
<1> QED BY <1>5, <1>6, <1>7, <1>8, <1>9, <1>10, <1>11, <1>12 DEF IsHung, u

\* With all nodes but the root linked, the whole is a tree: from every part that is
\* closed the links lead down to the root, and so they do from what is left out of it.
LEMMA AllHung ==
  ASSUME NEW g, IsGraph(g), NEW root \in DOMAIN g, NEW w, IsDistance(g, root, w), NEW t,
         IsHung(g, root, w, t, DOMAIN g \ {root})
  PROVE  IsShortest(t, g, root, w)
<1> DEFINE D == DOMAIN g
           N == Cardinality(D)
<1>1. /\ t \in [D -> Seq(D)] /\ AreNodes(D) /\ w \in [D -> Nat] /\ w[root] = 0 /\ DOMAIN t = D
      /\ \A x \in D : Range(t[x]) \subseteq Range(g[x])
      /\ \A x \in D, y \in D : Cardinality(LinksTo(t, x, y)) = Cardinality(LinksTo(t, y, x))
      /\ \A x \in D \ {root} : \E y \in D : y \in Range(t[x]) /\ w[y] = w[x] - 1
      /\ \A x \in D : \A y \in Range(t[x]) : w[y] = w[x] - 1 \/ w[y] = w[x] + 1
      /\ HasTotal(t, N, 2 * Cardinality(D \ {root}))
  BY GraphNodes DEF IsHung, IsDistance
<1>2. \A x \in D : Range(t[x]) \subseteq D /\ x \notin Range(t[x])
  <2>1. ASSUME NEW x \in D PROVE Range(t[x]) \subseteq D
    <3>1. t[x] \in Seq(D)
      BY <1>1
    <3> QED BY <3>1 DEF Range
  <2>2. ASSUME NEW x \in D, x \in Range(t[x]) PROVE FALSE
    <3>1. w[x] \in Nat /\ (w[x] = w[x] - 1 \/ w[x] = w[x] + 1)
      BY <1>1, <2>2
    <3> QED BY <3>1
  <2> QED BY <2>1, <2>2
<1>3. HasTotal(t, N, 2 * N - 2)
  <2>1. IsFiniteSet(D)
    BY <1>1 DEF AreNodes
  <2>2. Cardinality(D \ {root}) = N - 1 /\ N \in Nat
    BY <2>1, FS_RemoveElement, FS_CardinalityType
  <2> HIDE DEF N, D
  <2>3. 2 * (N - 1) = 2 * N - 2
    BY <2>2
  <2> QED BY <1>1, <2>2, <2>3
<1>4. ASSUME NEW S \in SUBSET D, S # {}, \A n \in S : Range(t[n]) \subseteq S PROVE root \in S
  <2> DEFINE T == {k \in Nat : \A x \in S : w[x] = k => root \in S}
  <2>1. 0 \in T
    <3> SUFFICES ASSUME NEW x \in S, w[x] = 0 PROVE root \in S
      OBVIOUS
    <3>1. x = root
      <4> SUFFICES ASSUME x # root PROVE FALSE
        OBVIOUS
      <4>1. PICK y \in D : w[y] = w[x] - 1
        BY <1>1
      <4> QED BY <1>1, <4>1
    <3> QED BY <3>1
  <2>2. ASSUME NEW k \in Nat, k \in T PROVE k + 1 \in T
    <3> SUFFICES ASSUME NEW x \in S, w[x] = k + 1 PROVE root \in S
      OBVIOUS
    <3>1. x \in D \ {root}
      BY <1>1
    <3>2. PICK y \in D : y \in Range(t[x]) /\ w[y] = w[x] - 1
      BY <1>1, <3>1
    <3>3. y \in S /\ w[y] = k
      BY <1>4, <3>2
    <3> QED BY <2>2, <3>3
  <2>3. \A k \in Nat : k \in T
    <3> HIDE DEF T
    <3> QED BY <2>1, <2>2, NoGraph, LP!SetInduction
  <2>4. PICK x \in S : TRUE
    BY <1>4
  <2>5. w[x] \in Nat
    BY <1>1
  <2> QED BY <2>3, <2>4, <2>5
<1>5. ASSUME NEW S \in SUBSET D, S # {}, \A n \in S : Range(t[n]) \subseteq S PROVE S = D
  <2> SUFFICES ASSUME D \ S # {} PROVE FALSE
    OBVIOUS
  <2> DEFINE R == D \ S
  <2>1. ASSUME NEW n \in R PROVE Range(t[n]) \subseteq R
    <3> SUFFICES ASSUME NEW m \in Range(t[n]), m \in S PROVE FALSE
      BY <1>2
    <3>1. n \in Range(t[m])
      <4>1. PICK p \in DOMAIN t[n] : t[n][p] = m
        BY DEF Range
      <4>2. LinksTo(t, n, m) # {} /\ t[n] \in Seq(D) /\ t[m] \in Seq(D)
        BY <1>1, <4>1 DEF LinksTo
      <4>3. IsFiniteSet(LinksTo(t, n, m)) /\ IsFiniteSet(LinksTo(t, m, n))
        <5>1. \A q \in Seq(D) : IsFiniteSet(DOMAIN q)
          <6> SUFFICES ASSUME NEW q \in Seq(D) PROVE IsFiniteSet(DOMAIN q)
            OBVIOUS
          <6>1. Len(q) \in Nat /\ DOMAIN q = 1 .. Len(q)
            OBVIOUS
          <6> QED BY <6>1, FS_Interval
        <5>2. LinksTo(t, n, m) \subseteq DOMAIN t[n] /\ LinksTo(t, m, n) \subseteq DOMAIN t[m]
          BY DEF LinksTo
        <5> QED BY <4>2, <5>1, <5>2, FS_Subset
      <4>4. Cardinality(LinksTo(t, m, n)) # 0
        BY <1>1, <4>2, <4>3, FS_EmptySet
      <4>5. PICK q \in LinksTo(t, m, n) : TRUE
        BY <4>3, <4>4, FS_EmptySet
      <4> QED BY <4>5 DEF LinksTo, Range
    <3> QED BY <1>5, <3>1
  <2>2. R \in SUBSET D /\ R # {}
    OBVIOUS
  <2> HIDE DEF R
  <2>3. root \in R
    BY <1>4, <2>1, <2>2
  <2>4. root \in S
    BY <1>4, <1>5
  <2> QED BY <2>3, <2>4 DEF R
<1>6. IsTree(t, D, D)
  BY <1>1, <1>2, <1>3, <1>5 DEF IsTree
<1>7. IsDistance(t, root, w)
  <2>1. ASSUME NEW n \in D, NEW m \in Range(t[n]) PROVE w[m] <= w[n] + 1
    <3>1. m \in D
      BY <1>2
    <3>2. w[m] \in Nat /\ w[n] \in Nat /\ (w[m] = w[n] - 1 \/ w[m] = w[n] + 1)
      BY <1>1, <3>1
    <3> QED BY <3>2
  <2> QED BY <1>1, <2>1 DEF IsDistance
<1> QED BY <1>1, <1>6, <1>7 DEF IsShortest

\* Only the root is at no distance from it.
LEMMA OnlyRoot ==
  ASSUME NEW g, NEW root, NEW w, IsDistance(g, root, w), NEW n \in DOMAIN g, n # root
  PROVE  w[n] - 1 \in Nat /\ w[n] > 0
<1>1. w \in [DOMAIN g -> Nat] /\ \E m \in DOMAIN g : w[m] = w[n] - 1
  BY DEF IsDistance
<1> QED BY <1>1

\* The first hop of a shortest path.
LEMMA FirstHop ==
  ASSUME NEW g, IsGraph(g), NEW root \in DOMAIN g, NEW w, IsDistance(g, root, w),
         NEW n \in DOMAIN g, n # root, NEW p \in Ways(g, w[n], n, root)
  PROVE  p[2] \in DOMAIN g /\ p[2] \in Range(g[n]) /\ w[p[2]] = w[n] - 1
<1> DEFINE D == DOMAIN g
           l == w[n] - 1
           m == p[2]
<1>1. l \in Nat /\ w \in [D -> Nat] /\ l + 1 = w[n]
  BY OnlyRoot DEF IsDistance
<1> HIDE DEF l
<1>2. PICK x \in Range(g[n]) : \E q \in Ways(g, l, x, root) : p = <<n>> \o q
  <2>1. \A r \in Ways(g, l + 1, n, root) : \E x \in Range(g[n]) : \E q \in Ways(g, l, x, root) : r = <<n>> \o q
    BY <1>1, WaysOn
  <2> QED BY <1>1, <2>1
<1>3. PICK q \in Ways(g, l, x, root) : p = <<n>> \o q
  BY <1>2
<1>4. q \in [1 .. l + 1 -> D] /\ q[1] = x
  BY DEF Ways
<1>5. p = [i \in 1 .. l + 2 |-> IF i = 1 THEN n ELSE q[i - 1]]
  BY <1>1, <1>3, <1>4, WayFrom
<1>6. p[2] = x /\ x \in D
  BY <1>1, <1>4, <1>5
<1>7. w[x] <= l
  BY <1>1, NoShortcut
<1>8. n \in Range(g[x])
  BY <1>2, <1>6, LinkedBack
<1>9. w[n] <= w[x] + 1
  BY <1>6, <1>8 DEF IsDistance
<1>10. w[x] = l
  BY <1>1, <1>6, <1>7, <1>9
<1> QED BY <1>2, <1>6, <1>10 DEF l

\* A loop that links the node from[k] to the node to[k] in its k-th turn.
IsLinking(H, l, base, from, to) ==
    H = [a \in SUBSET (1 .. l) |-> IF a = {} THEN base
                                   ELSE Link(H[a \ {Max(a)}], from[Max(a)], to[Max(a)])]

LEMMA LinkingExists ==
  ASSUME NEW D, NEW l \in Nat, NEW base \in [D -> Seq(D)],
         NEW from \in [1 .. l -> D], NEW to \in [1 .. l -> D], \A k \in 1 .. l : from[k] # to[k]
  PROVE  \E H : IsLinking(H, l, base, from, to)
<1> DEFINE U == [D -> Seq(D)]
           step == [k \in 1 .. l |-> [u \in U |-> Link(u, from[k], to[k])]]
<1>1. step \in [1 .. l -> [U -> U]]
  <2> SUFFICES ASSUME NEW k \in 1 .. l, NEW u \in U PROVE Link(u, from[k], to[k]) \in U
    OBVIOUS
  <2> DEFINE n == from[k]
             m == to[k]
  <2>1. n \in D /\ m \in D /\ n # m
    OBVIOUS
  <2> HIDE DEF n, m
  <2>2. IsLinked(Link(u, n, m), D, u, n, m)
    BY <2>1, LinkAdds
  <2> QED BY <2>2 DEF IsLinked, n, m
<1>2. PICK H : LP!IsLoop(H, l, U, base, step)
  <2> HIDE DEF step, U
  <2>1. base \in U
    BY DEF U
  <2> QED BY <1>1, <2>1, NoGraph, LP!LoopExists
<1>3. IsLinking(H, l, base, from, to)
  <2>1. ASSUME NEW u \in SUBSET (1 .. l), u # {}
        PROVE  H[u] = Link(H[u \ {Max(u)}], from[Max(u)], to[Max(u)])
    <3>1. Max(u) \in 1 .. l /\ H[u \ {Max(u)}] \in U
      <4>1. Max(u) \in u
        BY <2>1, NoGraph, LP!MaxIn
      <4> QED BY <1>2, <4>1 DEF LP!IsLoop
    <3>2. H[u] = step[Max(u)][H[u \ {Max(u)}]]
      BY <1>2, <2>1, NoGraph DEF LP!IsLoop
    <3> QED BY <3>1, <3>2
  <2>2. H = [u \in SUBSET (1 .. l) |-> H[u]] /\ H[{}] = base
    BY <1>2 DEF LP!IsLoop
  <2> QED BY <2>1, <2>2 DEF IsLinking
<1> QED BY <1>3

LinksInTurn(H, l, base, from, to) ==
    H[{}] = base /\ \A k \in 1 .. l : H[1 .. k] = Link(H[1 .. (k - 1)], from[k], to[k])

LEMMA LinkingRuns ==
  ASSUME NEW l \in Nat, NEW base, NEW from, NEW to, NEW f, IsLinking(f, l, base, from, to)
  PROVE  LinksInTurn(f, l, base, from, to)
<1>1. \A a \in SUBSET (1 .. l) : f[a] = IF a = {} THEN base
                                        ELSE Link(f[a \ {Max(a)}], from[Max(a)], to[Max(a)])
  BY DEF IsLinking
<1>2. f[{}] = base
  BY <1>1
<1>3. ASSUME NEW k \in 1 .. l PROVE f[1 .. k] = Link(f[1 .. (k - 1)], from[k], to[k])
  <2>1. 1 .. k \in SUBSET (1 .. l) /\ 1 .. k # {} /\ Max(1 .. k) = k
        /\ (1 .. k) \ {k} = 1 .. (k - 1)
    BY NoGraph, LP!FirstIndices
  <2> QED BY <1>1, <2>1, Zenon
<1> QED BY <1>2, <1>3 DEF LinksInTurn

\* The nodes that have been linked after k turns.
Hanging(V, from, k) == V \cup {from[i] : i \in 1 .. k}

\* A loop that hangs every node of a list somewhere.
LEMMA LinkingHangs ==
  ASSUME NEW g, IsGraph(g), NEW root \in DOMAIN g, NEW w, IsDistance(g, root, w), NEW base, NEW V,
         IsHung(g, root, w, base, V), NEW l \in Nat,
         NEW from \in [1 .. l -> DOMAIN g \ {root}], \A k \in 1 .. l : from[k] \notin V,
         \A i \in 1 .. l, j \in 1 .. l : from[i] = from[j] => i = j,
         NEW to \in [1 .. l -> DOMAIN g],
         \A k \in 1 .. l : to[k] \in Range(g[from[k]]) /\ w[to[k]] = w[from[k]] - 1,
         NEW H, IsLinking(H, l, base, from, to)
  PROVE  IsHung(g, root, w, H[1 .. l], Hanging(V, from, l))
<1> DEFINE D == DOMAIN g
           S == {k \in Nat : k <= l => IsHung(g, root, w, H[1 .. k], Hanging(V, from, k))}
<1>1. H[{}] = base /\ \A k \in 1 .. l : H[1 .. k] = Link(H[1 .. (k - 1)], from[k], to[k])
  <2>1. LinksInTurn(H, l, base, from, to)
    BY LinkingRuns
  <2> QED BY <2>1 DEF LinksInTurn
<1>2. 0 \in S
  <2>1. Hanging(V, from, 0) = V /\ H[1 .. 0] = base
    BY <1>1, 1 .. 0 = {} DEF Hanging
  <2> QED BY <2>1
<1>3. ASSUME NEW k \in Nat, k \in S PROVE k + 1 \in S
  <2> SUFFICES ASSUME k + 1 <= l PROVE IsHung(g, root, w, H[1 .. (k + 1)], Hanging(V, from, k + 1))
    OBVIOUS
  <2> DEFINE i == k + 1
  <2>1. /\ i \in 1 .. l /\ i - 1 = k /\ IsHung(g, root, w, H[1 .. k], Hanging(V, from, k))
        /\ \A j \in 1 .. k : j \in 1 .. l /\ j # i
    BY <1>3
  <2>2. \A j : j \in 1 .. i <=> j \in 1 .. k \/ j = i
    OBVIOUS
  <2> HIDE DEF i
  <2>3. /\ from[i] \in D \ {root} /\ to[i] \in D /\ to[i] \in Range(g[from[i]])
        /\ w[to[i]] = w[from[i]] - 1 /\ H[1 .. i] = Link(H[1 .. k], from[i], to[i])
    BY <1>1, <2>1
  <2>4. from[i] \notin Hanging(V, from, k)
    <3>1. \A j \in 1 .. k : from[j] # from[i]
      BY <2>1
    <3> QED BY <2>1, <3>1 DEF Hanging
  <2>5. Hanging(V, from, i) = Hanging(V, from, k) \cup {from[i]}
    BY <2>2 DEF Hanging
  <2>6. IsHung(g, root, w, Link(H[1 .. k], from[i], to[i]), Hanging(V, from, k) \cup {from[i]})
    BY <2>1, <2>3, <2>4, LinkHangs
  <2> QED BY <2>3, <2>5, <2>6 DEF i
<1>4. \A k \in Nat : k \in S
  <2> HIDE DEF S
  <2> QED BY <1>2, <1>3, NoGraph, LP!SetInduction
<1> QED BY <1>4

\* A list of all nodes but the root.
IsOrder(D, root, l, from) ==
    /\ from \in [1 .. l -> D \ {root}]
    /\ \A n \in D \ {root} : \E k \in 1 .. l : from[k] = n
    /\ \A i \in 1 .. l, j \in 1 .. l : from[i] = from[j] => i = j

LEMMA LinkingTree ==
  ASSUME NEW g, IsGraph(g), NEW root \in DOMAIN g, NEW w, IsDistance(g, root, w), NEW l \in Nat,
         NEW from, IsOrder(DOMAIN g, root, l, from), NEW to \in [1 .. l -> DOMAIN g],
         \A k \in 1 .. l : to[k] \in Range(g[from[k]]) /\ w[to[k]] = w[from[k]] - 1,
         NEW H, IsLinking(H, l, NoLinks(g), from, to)
  PROVE  IsShortest(H[1 .. l], g, root, w)
<1>1. IsHung(g, root, w, NoLinks(g), {})
  BY NoneHung
<1>2. /\ from \in [1 .. l -> DOMAIN g \ {root}]
      /\ \A i \in 1 .. l, j \in 1 .. l : from[i] = from[j] => i = j
  BY DEF IsOrder
<1>3. IsHung(g, root, w, H[1 .. l], Hanging({}, from, l))
  BY <1>1, <1>2, LinkingHangs
<1>4. Hanging({}, from, l) = DOMAIN g \ {root}
  BY <1>2 DEF IsOrder, Hanging
<1> QED BY <1>3, <1>4, AllHung

-----------------------------------------------------------------------------
\* TGEN_2: each node is linked to the first hop of one of its shortest paths, in the
\* order of the breadth first search.
Hop(g, root, n, k) ==
    LET paths == SimplePaths(g, n, root) IN paths[((k - 1) % Len(paths)) + 1][2]

LEMMA GoodHop ==
  ASSUME NEW g, IsGraph(g), IsConnected(g), Cardinality(DOMAIN g) < Inf,
         NEW root \in DOMAIN g, NEW n \in DOMAIN g, n # root, NEW k \in Nat, k > 0
  PROVE  LET m == Hop(g, root, n, k)
             w == Weights(g, root)
         IN  m \in DOMAIN g /\ m \in Range(g[n]) /\ w[m] = w[n] - 1
<1> DEFINE w == Weights(g, root)
           paths == SimplePaths(g, n, root)
           i == ((k - 1) % Len(paths)) + 1
<1>1. IsDistance(g, root, w)
  BY DijkstraDistances
<1>2. paths \in Seq(Seq(DOMAIN g)) /\ paths # <<>> /\ Range(paths) = Ways(g, w[n], n, root)
  BY ShortestPaths
<1>3. Hop(g, root, n, k) = paths[i][2]
  BY DEF Hop
<1> HIDE DEF w, paths
<1>4. i \in DOMAIN paths
  <2>1. Len(paths) \in Nat /\ Len(paths) # 0 /\ DOMAIN paths = 1 .. Len(paths)
    BY <1>2
  <2> DEFINE l == Len(paths)
  <2> HIDE DEF l
  <2>2. l \in Nat /\ l > 0 /\ k - 1 \in Nat
    BY <2>1 DEF l
  <2>3. (k - 1) % l \in 0 .. l - 1
    BY <2>2
  <2>4. ((k - 1) % l) + 1 \in 1 .. l
    BY <2>2, <2>3
  <2> QED BY <2>1, <2>4 DEF l
<1> HIDE DEF i
<1>5. paths[i] \in Ways(g, w[n], n, root)
  BY <1>2, <1>4 DEF Range
<1>6. paths[i][2] \in DOMAIN g /\ paths[i][2] \in Range(g[n]) /\ w[paths[i][2]] = w[n] - 1
  BY <1>1, <1>5, FirstHop
<1> QED BY <1>3, <1>6 DEF w

LEMMA TailIs ==
  ASSUME NEW S, NEW q \in Seq(S), q # <<>>
  PROVE  /\ Tail(q) \in Seq(S) /\ Len(Tail(q)) = Len(q) - 1
         /\ \A j \in 1 .. Len(q) - 1 : Tail(q)[j] = q[j + 1]
OBVIOUS

\* The queue of the search behind its root.
LEMMA OthersOrder ==
  ASSUME NEW g, IsGraph(g), IsConnected(g), NEW root \in DOMAIN g, NEW w, IsDistance(g, root, w),
         NEW others, others = Tail(BreadthFirst(g, root).queue)
  PROVE  Len(others) \in Nat /\ DOMAIN others = 1 .. Len(others) /\ IsOrder(DOMAIN g, root, Len(others), others)
<1> DEFINE D == DOMAIN g
           s == BreadthFirst(g, root)
           q == s.queue
           l == Len(others)
<1>1. PICK k : IsSearch(g, s) /\ Range(q) = D /\ IsLevelled(g, root, w, s, k)
  BY BreadthSearch
<1>2. /\ q \in Seq(D) /\ \A i \in DOMAIN q, j \in DOMAIN q : q[i] = q[j] => i = j
      /\ \A i \in DOMAIN q, j \in DOMAIN q : i <= j => w[q[i]] <= w[q[j]]
      /\ w \in [D -> Nat] /\ w[root] = 0
  BY <1>1 DEF IsSearch, IsLevelled, IsDistance
<1>3. others = Tail(q)
  OBVIOUS
<1>4. \A n \in D : \E i \in DOMAIN q : q[i] = n
  BY <1>1 DEF Range
<1> HIDE DEF q, D
<1>5. PICK i \in DOMAIN q : q[i] = root
  BY <1>4 DEF D
<1>6. Len(q) \in Nat /\ DOMAIN q = 1 .. Len(q) /\ Len(q) > 0 /\ q # <<>>
  BY <1>2, <1>5
<1>7. q[1] = root
  <2>1. w[q[1]] <= 0 /\ q[1] \in D
    BY <1>2, <1>5, <1>6
  <2>2. q[1] # root => w[q[1]] > 0
    BY <2>1, OnlyRoot DEF D
  <2> QED BY <1>2, <2>1, <2>2
<1>8. /\ l \in Nat /\ DOMAIN others = 1 .. l /\ Len(q) = l + 1
      /\ \A j \in 1 .. l : others[j] = q[j + 1]
  <2>1. q \in Seq(D)
    BY <1>2
  <2>2. Tail(q) \in Seq(D) /\ Len(Tail(q)) = Len(q) - 1 /\ \A j \in 1 .. Len(q) - 1 : Tail(q)[j] = q[j + 1]
    BY <1>6, <2>1, TailIs
  <2>3. DOMAIN others = 1 .. Len(others)
    BY <1>3, <2>2
  <2>4. l = Len(q) - 1
    BY <1>3, <2>2
  <2>5. \A j \in 1 .. Len(q) - 1 : others[j] = q[j + 1]
    BY <1>3, <2>2
  <2> HIDE DEF l
  <2>6. l \in Nat /\ Len(q) = l + 1 /\ Len(q) - 1 = l
    BY <1>6, <2>4
  <2>7. DOMAIN others = 1 .. l
    BY <2>3 DEF l
  <2> QED BY <2>5, <2>6, <2>7
<1> HIDE DEF l
<1>9. \A j \in 1 .. l : others[j] \in D \ {root}
  <2> SUFFICES ASSUME NEW j \in 1 .. l PROVE others[j] \in D \ {root}
    OBVIOUS
  <2>1. j + 1 \in DOMAIN q /\ 1 \in DOMAIN q /\ j + 1 # 1
    BY <1>6, <1>8
  <2>2. q[j + 1] # q[1] /\ q[j + 1] \in D
    BY <1>2, <2>1
  <2> QED BY <1>7, <1>8, <2>2
<1>10. others \in [1 .. l -> D \ {root}]
  <2>1. others = [j \in 1 .. l |-> others[j]]
    <3>1. q \in Seq(D)
      BY <1>2
    <3>2. others \in Seq(D)
      BY <1>3, <1>6, <3>1, TailIs
    <3> QED BY <1>8, <3>2
  <2> QED BY <1>8, <1>9, <2>1
<1>11. ASSUME NEW n \in D \ {root} PROVE \E j \in 1 .. l : others[j] = n
  <2>1. PICK a \in DOMAIN q : q[a] = n
    BY <1>4
  <2>2. a # 1
    BY <1>7, <2>1
  <2>3. a - 1 \in 1 .. l /\ (a - 1) + 1 = a
    BY <1>6, <1>8, <2>2
  <2>4. others[a - 1] = n
    BY <1>8, <2>1, <2>3
  <2> QED BY <2>3, <2>4
<1>12. ASSUME NEW a \in 1 .. l, NEW b \in 1 .. l
       PROVE  others[a] = others[b] => a = b
  <2>1. a + 1 \in DOMAIN q /\ b + 1 \in DOMAIN q
    BY <1>6, <1>8
  <2>2. q[a + 1] = q[b + 1] => a + 1 = b + 1
    BY <1>2, <2>1
  <2>3. a + 1 = b + 1 => a = b
    OBVIOUS
  <2> QED BY <1>8, <2>2, <2>3
<1>13. IsOrder(D, root, l, others)
  BY <1>10, <1>11, <1>12 DEF IsOrder
<1> QED BY <1>8, <1>13 DEF l, D

LEMMA HopTree ==
  ASSUME NEW g, IsGraph(g), IsConnected(g), Cardinality(DOMAIN g) < Inf, NEW root \in DOMAIN g
  PROVE  IsShortest(TGen2(g, root), g, root, Weights(g, root))
<1> DEFINE D == DOMAIN g
           w == Weights(g, root)
           others == Tail(BreadthFirst(g, root).queue)
           l == Len(others)
           to == [k \in 1 .. l |-> Hop(g, root, others[k], k)]
           list == [k \in DOMAIN others |-> k]
           base == NoLinks(g)
           Iter(H) == H = [a \in SUBSET DOMAIN list |-> IF a = {} THEN base ELSE
                             LET x == Max(a)
                             IN  Link(H[a \ {x}], others[list[x]], Hop(g, root, others[list[x]], list[x]))]
           f == CHOOSE H : Iter(H)
<1>1. IsDistance(g, root, w)
  BY DijkstraDistances
<1>2. l \in Nat /\ DOMAIN others = 1 .. l /\ IsOrder(D, root, l, others)
  <2> HIDE DEF w
  <2> QED BY <1>1, OthersOrder
<1>3. DOMAIN list = 1 .. l /\ (\A k \in 1 .. l : list[k] = k) /\ Len(list) = l
  BY <1>2
<1>4. TGen2(g, root) = f[1 .. l]
  BY <1>3 DEF TGen2, Hop, FoldLeft, MapThenFoldSet
<1> HIDE DEF list, others, l, w
<1>5. \A k \in 1 .. l : others[k] \in D \ {root}
  BY <1>2 DEF IsOrder
<1>6. ASSUME NEW k \in 1 .. l
      PROVE  to[k] \in D /\ to[k] \in Range(g[others[k]]) /\ w[to[k]] = w[others[k]] - 1
  <2>1. others[k] \in D /\ others[k] # root /\ k \in Nat /\ k > 0
    BY <1>2, <1>5
  <2> QED BY <2>1, GoodHop DEF w
<1>7. to \in [1 .. l -> D] /\ others \in [1 .. l -> D] /\ base \in [D -> Seq(D)]
  <2>1. to \in [1 .. l -> D]
    BY <1>6
  <2>2. others \in [1 .. l -> D]
    BY <1>2 DEF IsOrder
  <2> QED BY <2>1, <2>2 DEF NoLinks
<1>8. \A k \in 1 .. l : others[k] # to[k]
  <2> SUFFICES ASSUME NEW k \in 1 .. l PROVE others[k] # to[k]
    OBVIOUS
  <2> HIDE DEF to
  <2>1. w[others[k]] \in Nat
    BY <1>1, <1>5 DEF IsDistance
  <2> QED BY <1>6, <2>1
<1>9. PICK H : IsLinking(H, l, base, others, to)
  <2> HIDE DEF to, base, D
  <2> QED BY <1>2, <1>7, <1>8, LinkingExists
<1>10. \A F : Iter(F) <=> IsLinking(F, l, base, others, to)
  <2> SUFFICES ASSUME NEW F PROVE Iter(F) <=> IsLinking(F, l, base, others, to)
    OBVIOUS
  <2>1. ASSUME NEW a \in SUBSET (1 .. l), a # {}
        PROVE  list[Max(a)] = Max(a) /\ to[Max(a)] = Hop(g, root, others[Max(a)], Max(a))
    <3>1. Max(a) \in a
      BY <1>2, <2>1, NoGraph, LP!MaxIn
    <3> QED BY <1>3, <3>1
  <2> HIDE DEF to, base
  <2>2. [a \in SUBSET DOMAIN list |-> IF a = {} THEN base ELSE
                             LET x == Max(a)
                             IN  Link(F[a \ {x}], others[list[x]], Hop(g, root, others[list[x]], list[x]))]
        = [a \in SUBSET (1 .. l) |-> IF a = {} THEN base
                                     ELSE Link(F[a \ {Max(a)}], others[Max(a)], to[Max(a)])]
    BY <1>3, <2>1
  <2> QED BY <2>2 DEF IsLinking
<1>11. IsLinking(f, l, base, others, to)
  <2> HIDE DEF Iter
  <2> QED BY <1>9, <1>10
<1>12. IsShortest(f[1 .. l], g, root, w)
  <2> HIDE DEF f, to
  <2> QED BY <1>1, <1>2, <1>6, <1>7, <1>11, LinkingTree
<1> QED BY <1>4, <1>12 DEF w

-----------------------------------------------------------------------------
\* TGEN_0: the first shortest path of every node, as far as it meets the tree.

\* On a shortest path the distance falls with every link.
LEMMA PathFalls ==
  ASSUME NEW g, IsGraph(g), NEW d \in DOMAIN g, NEW w, IsDistance(g, d, w),
         NEW l \in Nat, NEW a \in DOMAIN g, w[a] = l, NEW p \in Ways(g, l, a, d)
  PROVE  \A i \in 1 .. l + 1 : p[i] \in DOMAIN g /\ w[p[i]] = (l + 1) - i
<1> DEFINE D == DOMAIN g
           A == {j \in Nat : j <= l => w[p[(l + 1) - j]] <= j}
           B == {j \in Nat : j <= l => w[p[j + 1]] >= l - j}
<1>1. /\ w \in [D -> Nat] /\ w[d] = 0 /\ p \in [1 .. l + 1 -> D] /\ p[1] = a /\ p[l + 1] = d
      /\ \A i \in 1 .. l : p[i + 1] \in Range(g[p[i]])
  BY DEF Ways, IsDistance
<1>2. ASSUME NEW i \in 1 .. l PROVE w[p[i]] \in Nat /\ w[p[i + 1]] \in Nat /\ w[p[i]] <= w[p[i + 1]] + 1
  <2>1. p[i] \in D /\ p[i + 1] \in D /\ p[i + 1] \in Range(g[p[i]])
    BY <1>1
  <2>2. p[i] \in Range(g[p[i + 1]])
    BY <2>1, LinkedBack
  <2> QED BY <1>1, <2>1, <2>2 DEF IsDistance
<1>3. 0 \in A /\ 0 \in B
  BY <1>1
<1>4. ASSUME NEW j \in Nat, j \in A PROVE j + 1 \in A
  <2> SUFFICES ASSUME j + 1 <= l PROVE w[p[(l + 1) - (j + 1)]] <= j + 1
    OBVIOUS
  <2> DEFINE i == l - j
  <2>1. i \in 1 .. l /\ i + 1 = (l + 1) - j /\ i = (l + 1) - (j + 1) /\ w[p[(l + 1) - j]] <= j
    BY <1>4
  <2> HIDE DEF i
  <2>2. w[p[i]] \in Nat /\ w[p[i + 1]] \in Nat /\ w[p[i]] <= w[p[i + 1]] + 1 /\ w[p[i + 1]] <= j
    BY <1>2, <2>1
  <2>3. w[p[i]] <= j + 1
    BY <2>2
  <2> QED BY <2>1, <2>3
<1>5. ASSUME NEW j \in Nat, j \in B PROVE j + 1 \in B
  <2> SUFFICES ASSUME j + 1 <= l PROVE w[p[(j + 1) + 1]] >= l - (j + 1)
    OBVIOUS
  <2> DEFINE i == j + 1
  <2>1. i \in 1 .. l /\ w[p[i]] >= l - j /\ i = j + 1
    BY <1>5
  <2> HIDE DEF i
  <2>2. w[p[i]] \in Nat /\ w[p[i + 1]] \in Nat /\ w[p[i]] <= w[p[i + 1]] + 1
    BY <1>2, <2>1
  <2>3. w[p[i + 1]] >= l - (j + 1)
    BY <2>1, <2>2
  <2> QED BY <2>1, <2>3
<1>6. (\A j \in Nat : j \in A) /\ (\A j \in Nat : j \in B)
  <2> HIDE DEF A, B
  <2> QED BY <1>3, <1>4, <1>5, NoGraph, LP!SetInduction
<1>7. ASSUME NEW i \in 1 .. l + 1 PROVE p[i] \in D /\ w[p[i]] = (l + 1) - i
  <2> DEFINE j == (l + 1) - i
             k == i - 1
  <2>1. j \in Nat /\ j <= l /\ (l + 1) - j = i /\ k \in Nat /\ k <= l /\ k + 1 = i /\ l - k = j
    OBVIOUS
  <2>2. j \in A /\ k \in B
    BY <1>6, <2>1
  <2> HIDE DEF j, k
  <2>3. w[p[i]] <= j /\ w[p[i]] >= j
    BY <2>1, <2>2
  <2>4. p[i] \in D /\ w[p[i]] \in Nat
    BY <1>1
  <2>5. w[p[i]] = j
    BY <2>1, <2>3, <2>4
  <2> QED BY <2>4, <2>5 DEF j
<1> QED BY <1>7

\* The links of a path, one after the other.
Chain(tree, path, l) == FoldLeft(LAMBDA t, j : Link(t, path[j], path[j + 1]), tree, [j \in 1 .. l |-> j])

\* The path of one node joins the tree.
AddPath(g, root, s, n) ==
    LET path == SimplePaths(g, n, root)[1]
        met  == Min({j \in DOMAIN path : j = Len(path) \/ path[j] \in s.visited})
    IN  [tree    |-> Chain(s.tree, path, met - 1),
         visited |-> s.visited \cup {path[j] : j \in 1 .. met - 1}]

IsChain(base, path, l, from, to) ==
    \E H : Chain(base, path, l) = H[1 .. l] /\ IsLinking(H, l, base, from, to)

LEMMA ChainIs ==
  ASSUME NEW g, NEW l \in Nat, NEW base \in [DOMAIN g -> Seq(DOMAIN g)], NEW path,
         NEW from \in [1 .. l -> DOMAIN g], NEW to \in [1 .. l -> DOMAIN g],
         \A k \in 1 .. l : from[k] # to[k] /\ from[k] = path[k] /\ to[k] = path[k + 1]
  PROVE  IsChain(base, path, l, from, to)
<1> DEFINE list == [j \in 1 .. l |-> j]
           Iter(H) == H = [a \in SUBSET DOMAIN list |-> IF a = {} THEN base ELSE
                             LET x == Max(a)
                             IN  Link(H[a \ {x}], path[list[x]], path[list[x] + 1])]
           f == CHOOSE H : Iter(H)
<1>1. DOMAIN list = 1 .. l /\ (\A k \in 1 .. l : list[k] = k) /\ Len(list) = l
  OBVIOUS
<1>2. Chain(base, path, l) = f[1 .. l]
  BY <1>1 DEF Chain, FoldLeft, MapThenFoldSet
<1> HIDE DEF list
<1>3. PICK H : IsLinking(H, l, base, from, to)
  <2> DEFINE D == DOMAIN g
  <2> HIDE DEF D
  <2>1. /\ base \in [D -> Seq(D)] /\ from \in [1 .. l -> D] /\ to \in [1 .. l -> D]
        /\ \A k \in 1 .. l : from[k] # to[k]
    BY DEF D
  <2> QED BY <2>1, LinkingExists
<1>4. \A F : Iter(F) <=> IsLinking(F, l, base, from, to)
  <2> SUFFICES ASSUME NEW F PROVE Iter(F) <=> IsLinking(F, l, base, from, to)
    OBVIOUS
  <2>1. ASSUME NEW a \in SUBSET (1 .. l), a # {}
        PROVE  path[list[Max(a)]] = from[Max(a)] /\ path[list[Max(a)] + 1] = to[Max(a)]
    <3>1. Max(a) \in a
      BY <2>1, NoGraph, LP!MaxIn
    <3> QED BY <1>1, <3>1
  <2>2. [a \in SUBSET DOMAIN list |-> IF a = {} THEN base ELSE
                             LET x == Max(a)
                             IN  Link(F[a \ {x}], path[list[x]], path[list[x] + 1])]
        = [a \in SUBSET (1 .. l) |-> IF a = {} THEN base
                                     ELSE Link(F[a \ {Max(a)}], from[Max(a)], to[Max(a)])]
    BY <1>1, <2>1
  <2> QED BY <2>2 DEF IsLinking
<1>5. IsLinking(f, l, base, from, to)
  <2> HIDE DEF Iter
  <2> QED BY <1>3, <1>4
<1> QED BY <1>2, <1>5 DEF list, IsChain

\* A state of TGEN_0: the tree, and the nodes with a link to a nearer one.
IsGrowing(g, root, w, s) ==
    /\ s \in [tree : [DOMAIN g -> Seq(DOMAIN g)], visited : SUBSET DOMAIN g]
    /\ IsHung(g, root, w, s.tree, s.visited)

LEMMA PathHangs ==
  ASSUME NEW g, IsGraph(g), IsConnected(g), Cardinality(DOMAIN g) < Inf, NEW root \in DOMAIN g,
         NEW w, w = Weights(g, root), NEW s, IsGrowing(g, root, w, s), NEW n \in DOMAIN g \ {root}
  PROVE  LET z == AddPath(g, root, s, n)
         IN  IsGrowing(g, root, w, z) /\ n \in z.visited /\ s.visited \subseteq z.visited
<1> DEFINE D == DOMAIN g
           l == w[n]
           paths == SimplePaths(g, n, root)
           path == paths[1]
           J == {j \in DOMAIN path : j = Len(path) \/ path[j] \in s.visited}
           met == Min(J)
           k == met - 1
           from == [j \in 1 .. k |-> path[j]]
           to == [j \in 1 .. k |-> path[j + 1]]
           z == AddPath(g, root, s, n)
<1>1. IsDistance(g, root, w)
  BY DijkstraDistances
<1>2. /\ w \in [D -> Nat] /\ l \in Nat /\ l # 0 /\ w[root] = 0
      /\ s.tree \in [D -> Seq(D)] /\ s.visited \subseteq D
  <2>1. l > 0
    BY <1>1, OnlyRoot
  <2> QED BY <1>1, <2>1 DEF IsDistance, IsGrowing
<1>3. path \in Ways(g, l, n, root)
  <2>1. paths \in Seq(Seq(D)) /\ paths # <<>> /\ Range(paths) = Ways(g, l, n, root)
    BY ShortestPaths
  <2> HIDE DEF paths
  <2>2. 1 \in DOMAIN paths
    BY <2>1
  <2> QED BY <2>1, <2>2 DEF Range
<1>4. z = [tree    |-> Chain(s.tree, path, k),
           visited |-> s.visited \cup {path[j] : j \in 1 .. k}]
  BY DEF AddPath
<1> HIDE DEF path, l, z
<1>5. /\ path \in [1 .. l + 1 -> D] /\ path[1] = n /\ path[l + 1] = root
      /\ DOMAIN path = 1 .. l + 1 /\ Len(path) = l + 1
      /\ \A i \in 1 .. l : path[i + 1] \in Range(g[path[i]])
  <2> HIDE DEF D
  <2>1. path \in [1 .. l + 1 -> DOMAIN g] /\ path[1] = n /\ path[l + 1] = root
    BY <1>3, Zenon DEF Ways
  <2>2. \A i \in 1 .. l : path[i + 1] \in Range(g[path[i]])
    BY <1>3, Zenon DEF Ways
  <2>3. path \in [1 .. l + 1 -> D] /\ DOMAIN path = 1 .. l + 1
    BY <2>1, Zenon DEF D
  <2>4. l + 1 \in Nat
    BY <1>2
  <2>5. Len(path) = l + 1
    BY <2>3, <2>4
  <2> QED BY <2>1, <2>2, <2>3, <2>5
<1>6. \A i \in 1 .. l + 1 : path[i] \in D /\ w[path[i]] = (l + 1) - i
  <2> HIDE DEF D
  <2> QED BY <1>1, <1>2, <1>3, PathFalls DEF D, l
<1>7. /\ met \in 1 .. l + 1 /\ k \in Nat /\ k <= l /\ met = k + 1
      /\ (met = l + 1 \/ path[met] \in s.visited)
      /\ \A j \in 1 .. k : path[j] \notin s.visited
  <2>1. J \subseteq Nat /\ l + 1 \in J /\ J \subseteq 1 .. l + 1
        /\ (\A j \in J : j = l + 1 \/ path[j] \in s.visited)
        /\ \A j \in 1 .. l + 1 : path[j] \in s.visited => j \in J
    BY <1>2, <1>5
  <2> HIDE DEF J
  <2>2. met \in J /\ \A y \in J : met <= y
    BY <2>1, NoGraph, LP!MinIn
  <2> HIDE DEF met
  <2>3. ASSUME NEW j \in 1 .. k PROVE path[j] \notin s.visited
    <3>1. j \in 1 .. l + 1 /\ ~(met <= j)
      BY <1>2, <2>1, <2>2
    <3> QED BY <2>1, <2>2, <3>1
  <2>4. met \in 1 .. l + 1 /\ (met = l + 1 \/ path[met] \in s.visited)
    BY <2>1, <2>2
  <2>5. k \in Nat /\ k <= l /\ met = k + 1
    BY <1>2, <2>4
  <2> HIDE DEF k
  <2> QED BY <2>3, <2>4, <2>5
<1> HIDE DEF J, met, k
<1>8. ASSUME NEW j \in 1 .. k
      PROVE  /\ j \in 1 .. l /\ path[j] \in D \ {root} /\ path[j] \notin s.visited /\ path[j + 1] \in D
             /\ path[j + 1] \in Range(g[path[j]]) /\ w[path[j + 1]] = w[path[j]] - 1 /\ path[j] # path[j + 1]
             /\ w[path[j]] = (l + 1) - j
  <2>1. j \in 1 .. l /\ j \in 1 .. l + 1 /\ j + 1 \in 1 .. l + 1
    BY <1>2, <1>7
  <2>2. w[path[j]] = (l + 1) - j /\ w[path[j + 1]] = (l + 1) - (j + 1) /\ path[j] \in D /\ path[j + 1] \in D
    BY <1>6, <2>1
  <2>3. w[path[j + 1]] = w[path[j]] - 1 /\ w[path[j]] # 0 /\ w[path[j]] # w[path[j + 1]]
    BY <1>2, <2>1, <2>2
  <2> QED BY <1>2, <1>5, <1>7, <2>1, <2>2, <2>3
<1>9. /\ from \in [1 .. k -> D \ {root}] /\ from \in [1 .. k -> D] /\ to \in [1 .. k -> D]
      /\ \A j \in 1 .. k : from[j] # to[j] /\ from[j] = path[j] /\ to[j] = path[j + 1]
  BY <1>8
<1>10. \A i \in 1 .. k, j \in 1 .. k : from[i] = from[j] => i = j
  <2> SUFFICES ASSUME NEW i \in 1 .. k, NEW j \in 1 .. k, path[i] = path[j] PROVE i = j
    BY <1>9
  <2>1. (l + 1) - i = (l + 1) - j
    BY <1>8
  <2> QED BY <1>2, <1>7, <2>1
<1> HIDE DEF from, to
<1>11. PICK H : /\ Chain(s.tree, path, k) = H[1 .. k]
                /\ IsLinking(H, k, s.tree, from, to)
  <2> DEFINE t == s.tree
  <2>1. /\ k \in Nat /\ t \in [D -> Seq(D)] /\ from \in [1 .. k -> D] /\ to \in [1 .. k -> D]
        /\ \A j \in 1 .. k : from[j] # to[j] /\ from[j] = path[j] /\ to[j] = path[j + 1]
    BY <1>2, <1>7, <1>9
  <2> HIDE DEF t
  <2>2. IsChain(t, path, k, from, to)
    BY <2>1, ChainIs
  <2> QED BY <2>2 DEF t, IsChain
<1>12. IsHung(g, root, w, H[1 .. k], Hanging(s.visited, from, k))
  <2>1. IsHung(g, root, w, s.tree, s.visited)
    BY DEF IsGrowing
  <2>2. \A j \in 1 .. k : /\ from[j] \notin s.visited
                          /\ to[j] \in Range(g[from[j]]) /\ w[to[j]] = w[from[j]] - 1
    BY <1>8, <1>9
  <2> HIDE DEF D
  <2>3. from \in [1 .. k -> DOMAIN g \ {root}] /\ to \in [1 .. k -> DOMAIN g]
    BY <1>9 DEF D
  <2> QED BY <1>1, <1>7, <1>10, <1>11, <2>1, <2>2, <2>3, LinkingHangs
<1>13. Hanging(s.visited, from, k) = s.visited \cup {path[j] : j \in 1 .. k}
  BY <1>9 DEF Hanging
<1>14. z.tree = H[1 .. k] /\ z.visited = Hanging(s.visited, from, k) /\ z = [tree |-> z.tree, visited |-> z.visited]
  BY <1>4, <1>11, <1>13
<1>15. IsGrowing(g, root, w, z)
  <2>1. IsHung(g, root, w, z.tree, z.visited)
    BY <1>12, <1>14
  <2>2. z.tree \in [D -> Seq(D)] /\ z.visited \in SUBSET D
    BY <2>1 DEF IsHung
  <2> QED BY <1>14, <2>1, <2>2 DEF IsGrowing
<1>16. n \in z.visited
  <2>1. CASE n \in s.visited
    BY <1>13, <1>14, <2>1
  <2>2. CASE n \notin s.visited
    <3>1. met # 1
      BY <1>2, <1>5, <1>7, <2>2
    <3>2. 1 \in 1 .. k
      BY <1>7, <3>1
    <3>3. n \in {path[j] : j \in 1 .. k}
      BY <1>5, <3>2
    <3> QED BY <1>13, <1>14, <3>3
  <2> QED BY <2>1, <2>2
<1> QED BY <1>13, <1>14, <1>15, <1>16 DEF z

\* All nodes are linked in the end.
LEMMA PathTree ==
  ASSUME NEW g, IsGraph(g), IsConnected(g), Cardinality(DOMAIN g) < Inf, NEW root \in DOMAIN g
  PROVE  IsShortest(TGen0(g, root), g, root, Weights(g, root))
<1> DEFINE D == DOMAIN g
           w == Weights(g, root)
           list == Among(NodeList(g), D \ {root})
           l == Len(list)
           start == [tree |-> NoLinks(g), visited |-> {}]
           U == {s \in [tree : [D -> Seq(D)], visited : SUBSET D] : IsGrowing(g, root, w, s)}
           Iter(H) == H = [a \in SUBSET DOMAIN list |-> IF a = {} THEN start ELSE
                             LET x == Max(a) IN AddPath(g, root, H[a \ {x}], list[x])]
           f == CHOOSE H : Iter(H)
           step == [k \in 1 .. l |-> [s \in U |-> AddPath(g, root, s, list[k])]]
<1>1. IsDistance(g, root, w) /\ AreNodes(D)
  BY DijkstraDistances, GraphNodes
<1>2. list \in Seq(D) /\ Range(list) = D \ {root}
  <2>1. NodeList(g) \in Seq(D) /\ Range(NodeList(g)) = D
    <3>1. Cardinality(D) \in Nat /\ D = 0 .. Cardinality(D) - 1
      BY <1>1, FS_CardinalityType DEF AreNodes
    <3> DEFINE N == Cardinality(D)
    <3>2. NodeList(g) = [i \in 1 .. N |-> i - 1]
      BY DEF NodeList, NodeCount
    <3> HIDE DEF N, D
    <3>3. N \in Nat /\ D = 0 .. N - 1
      BY <3>1 DEF N
    <3>4. \A n \in D : n + 1 \in 1 .. N /\ (n + 1) - 1 = n
      BY <3>3
    <3>5. \A i \in 1 .. N : i - 1 \in D
      BY <3>3
    <3>6. NodeList(g) \in Seq(D) /\ DOMAIN NodeList(g) = 1 .. N
      BY <3>2, <3>3, <3>5
    <3>7. \A i \in 1 .. N : NodeList(g)[i] = i - 1
      BY <3>2
    <3> QED BY <3>4, <3>5, <3>6, <3>7 DEF Range
  <2> HIDE DEF D
  <2>2. IsPart(list, D, NodeList(g), D \ {root})
    BY <2>1, AmongIs
  <2> QED BY <2>1, <2>2 DEF IsPart
<1>3. l \in Nat /\ DOMAIN list = 1 .. l /\ Len(list) = l /\ \A k \in 1 .. l : list[k] \in D \ {root}
  <2> HIDE DEF list
  <2>1. l \in Nat /\ DOMAIN list = 1 .. l
    BY <1>2
  <2> QED BY <1>2, <2>1 DEF Range
<1>4. TGen0(g, root) = f[1 .. l].tree
  BY <1>3 DEF TGen0, AddPath, Chain, FoldLeft, MapThenFoldSet
<1> HIDE DEF list, l, w
<1>5. start \in U
  <2>1. IsHung(g, root, w, NoLinks(g), {})
    BY NoneHung
  <2>2. NoLinks(g) \in [D -> Seq(D)]
    BY <2>1 DEF IsHung
  <2> QED BY <2>1, <2>2 DEF IsGrowing
<1>6. ASSUME NEW s \in U, NEW k \in 1 .. l
      PROVE  LET z == AddPath(g, root, s, list[k])
             IN  z \in U /\ list[k] \in z.visited /\ s.visited \subseteq z.visited
  <2> DEFINE z == AddPath(g, root, s, list[k])
  <2>1. IsGrowing(g, root, w, z) /\ list[k] \in z.visited /\ s.visited \subseteq z.visited
    BY <1>3, PathHangs DEF w
  <2> HIDE DEF z
  <2> QED BY <2>1 DEF IsGrowing, z
<1> HIDE DEF start
<1>7. step \in [1 .. l -> [U -> U]]
  <2>1. \A k \in 1 .. l : \A s \in U : AddPath(g, root, s, list[k]) \in U
    BY <1>6
  <2> HIDE DEF U
  <2> QED BY <2>1
<1>8. PICK H : LP!IsLoop(H, l, U, start, step) /\ IsRun(H, l, U, start, step)
  <2> HIDE DEF step, f, Iter, U
  <2> QED BY <1>3, <1>5, <1>7, LoopRuns
<1> HIDE DEF U
<1>9. Iter(f)
  <2>1. ASSUME NEW a \in SUBSET (1 .. l), a # {}
        PROVE  H[a] = AddPath(g, root, H[a \ {Max(a)}], list[Max(a)])
    <3>1. Max(a) \in 1 .. l /\ H[a \ {Max(a)}] \in U
      <4>1. Max(a) \in a
        BY <1>3, <2>1, NoGraph, LP!MaxIn
      <4> QED BY <1>8, <4>1 DEF LP!IsLoop
    <3>2. H[a] = step[Max(a)][H[a \ {Max(a)}]]
      BY <1>8, <2>1, NoGraph DEF LP!IsLoop
    <3> QED BY <3>1, <3>2
  <2>2. H = [a \in SUBSET (1 .. l) |-> H[a]] /\ H[{}] = start
    BY <1>8 DEF LP!IsLoop
  <2>3. Iter(H)
    BY <1>3, <2>1, <2>2
  <2> HIDE DEF Iter
  <2> QED BY <2>3
<1>10. f[{}] = start /\ \A k \in 1 .. l : f[1 .. k] = AddPath(g, root, f[1 .. (k - 1)], list[k])
  <2>1. \A a \in SUBSET (1 .. l) : f[a] = IF a = {} THEN start
                                          ELSE AddPath(g, root, f[a \ {Max(a)}], list[Max(a)])
    BY <1>3, <1>9
  <2> HIDE DEF f, Iter
  <2>2. f[{}] = start
    BY <2>1
  <2>3. ASSUME NEW k \in 1 .. l PROVE f[1 .. k] = AddPath(g, root, f[1 .. (k - 1)], list[k])
    <3>1. 1 .. k \in SUBSET (1 .. l) /\ 1 .. k # {} /\ Max(1 .. k) = k
          /\ (1 .. k) \ {k} = 1 .. (k - 1)
      BY <1>3, NoGraph, LP!FirstIndices
    <3> QED BY <2>1, <3>1, Zenon
  <2> QED BY <2>2, <2>3
<1> HIDE DEF f, Iter
<1> DEFINE S == {k \in Nat : k <= l => f[1 .. k] \in U /\ \A i \in 1 .. k : list[i] \in f[1 .. k].visited}
<1>11. 0 \in S
  BY <1>5, <1>10, 1 .. 0 = {}
<1>12. ASSUME NEW k \in Nat, k \in S PROVE k + 1 \in S
  <2> SUFFICES ASSUME k + 1 <= l
               PROVE  f[1 .. (k + 1)] \in U /\ \A i \in 1 .. k + 1 : list[i] \in f[1 .. (k + 1)].visited
    OBVIOUS
  <2> DEFINE m == k + 1
             s == f[1 .. k]
  <2>1. m \in 1 .. l /\ m - 1 = k /\ s \in U /\ \A i \in 1 .. k : list[i] \in s.visited
    BY <1>3, <1>12
  <2>2. \A i \in 1 .. m : i \in 1 .. k \/ i = m
    OBVIOUS
  <2> HIDE DEF m
  <2>3. f[1 .. m] = AddPath(g, root, s, list[m])
    BY <1>10, <2>1
  <2> HIDE DEF s
  <2>4. f[1 .. m] \in U /\ list[m] \in f[1 .. m].visited /\ s.visited \subseteq f[1 .. m].visited
    BY <1>6, <2>1, <2>3
  <2>5. \A i \in 1 .. m : list[i] \in f[1 .. m].visited
    BY <2>1, <2>2, <2>4
  <2> QED BY <2>4, <2>5 DEF m
<1>13. f[1 .. l] \in U /\ \A i \in 1 .. l : list[i] \in f[1 .. l].visited
  <2>1. \A k \in Nat : k \in S
    <3> HIDE DEF S
    <3> QED BY <1>11, <1>12, NoGraph, LP!SetInduction
  <2> QED BY <1>3, <2>1
<1> DEFINE z == f[1 .. l]
<1>14. IsHung(g, root, w, z.tree, z.visited)
  BY <1>13 DEF U, IsGrowing
<1> HIDE DEF z, S
<1>15. z.visited = D \ {root}
  <2>1. z.visited \subseteq D \ {root}
    BY <1>14 DEF IsHung
  <2>2. ASSUME NEW n \in D \ {root} PROVE n \in z.visited
    <3>1. PICK i \in DOMAIN list : list[i] = n
      BY <1>2, <2>2 DEF Range
    <3> QED BY <1>3, <1>13, <3>1 DEF z
  <2> QED BY <2>1, <2>2
<1>16. IsShortest(z.tree, g, root, w)
  BY <1>1, <1>14, <1>15, AllHung
<1> QED BY <1>4, <1>16 DEF z, w

-----------------------------------------------------------------------------
\* The levels of a tree.

\* The ends of the links of a graph, as a node and a port.
Ends(t) == {r \in (DOMAIN t) \X Nat : r[2] \in DOMAIN t[r[1]]}

LEMMA EndsCounted ==
  ASSUME NEW t, AreNodes(DOMAIN t), t \in [DOMAIN t -> Seq(DOMAIN t)],
         NEW c, HasTotal(t, Cardinality(DOMAIN t), c)
  PROVE  IsFiniteSet(Ends(t)) /\ Cardinality(Ends(t)) = c
<1> DEFINE N == Cardinality(DOMAIN t)
           D == DOMAIN t
           E(k) == {r \in Ends(t) : r[1] < k}
           At(k) == {r \in Ends(t) : r[1] = k}
<1>1. N \in Nat /\ D = 0 .. N - 1
  BY FS_CardinalityType DEF AreNodes
<1>2. PICK s \in [0 .. N -> Nat] : s[0] = 0 /\ s[N] = c /\ \A k \in 1 .. N : s[k] = s[k - 1] + Len(t[k - 1])
  BY DEF HasTotal
<1>3. \A n \in D : Len(t[n]) \in Nat /\ DOMAIN t[n] = 1 .. Len(t[n])
  <2> HIDE DEF D
  <2>1. \A n \in D : t[n] \in Seq(D)
    BY DEF D
  <2> QED BY <2>1
<1>4. Ends(t) = {r \in D \X Nat : r[2] \in DOMAIN t[r[1]]}
  BY DEF Ends
<1> HIDE DEF N, D
<1>5. ASSUME NEW n \in D PROVE IsFiniteSet(At(n)) /\ Cardinality(At(n)) = Len(t[n])
  <2> DEFINE f == [p \in 1 .. Len(t[n]) |-> <<n, p>>]
             P == 1 .. Len(t[n])
  <2>1. Len(t[n]) \in Nat /\ DOMAIN t[n] = P
    BY <1>3
  <2>2. IsFiniteSet(P) /\ Cardinality(P) = Len(t[n])
    <3> DEFINE l == Len(t[n])
    <3>1. l \in Nat /\ 1 \in Int /\ l \in Int
      BY <2>1
    <3> HIDE DEF l
    <3>2. IsFiniteSet(1 .. l) /\ Cardinality(1 .. l) = IF 1 > l THEN 0 ELSE l - 1 + 1
      BY <3>1, FS_Interval
    <3> QED BY <3>1, <3>2 DEF l
  <2>3. f \in [P -> At(n)]
    BY <1>4, <2>1
  <2>4. \A p \in P : f[p] = <<n, p>>
    OBVIOUS
  <2>5. \A r \in At(n) : r[2] \in P /\ r = <<n, r[2]>>
    BY <1>4, <2>1
  <2> HIDE DEF P, f, At
  <2>6. f \in Bijection(P, At(n))
    <3>1. \A p, q \in P : f[p] = f[q] => p = q
      BY <2>4
    <3>2. \A r \in At(n) : \E p \in P : f[p] = r
      BY <2>4, <2>5
    <3> QED BY <2>3, <3>1, <3>2 DEF Bijection, Injection, Surjection, IsInjective
  <2>7. ExistsBijection(P, At(n))
    BY <2>6 DEF ExistsBijection
  <2> QED BY <2>2, <2>7, FS_Bijection
<1> DEFINE S == {k \in Nat : k <= N => IsFiniteSet(E(k)) /\ Cardinality(E(k)) = s[k]}
<1>6. 0 \in S
  <2>1. E(0) = {}
    BY <1>1, <1>4
  <2> HIDE DEF E
  <2> QED BY <1>2, <2>1, FS_EmptySet
<1>7. ASSUME NEW k \in Nat, k \in S, k + 1 <= N
      PROVE  IsFiniteSet(E(k + 1)) /\ Cardinality(E(k + 1)) = s[k + 1]
  <2>1. k \in D /\ k + 1 \in 1 .. N /\ (k + 1) - 1 = k /\ k <= N
    BY <1>1, <1>7
  <2>2. IsFiniteSet(E(k)) /\ Cardinality(E(k)) = s[k]
    <3> HIDE DEF E
    <3> QED BY <1>7, <2>1
  <2>3. IsFiniteSet(At(k)) /\ Cardinality(At(k)) = Len(t[k])
    BY <1>5, <2>1
  <2>4. E(k + 1) = E(k) \cup At(k) /\ E(k) \cap At(k) = {}
    <3>1. \A r \in Ends(t) : r[1] \in Nat
      BY <1>1, <1>4
    <3> QED BY <3>1
  <2>5. s[k + 1] = s[k] + Len(t[k])
    BY <1>2, <2>1
  <2>6. s[k] \in Nat /\ Len(t[k]) \in Nat
    <3>1. k \in 0 .. N
      BY <1>1, <2>1
    <3> QED BY <1>2, <1>3, <2>1, <3>1
  <2> HIDE DEF E, At
  <2>7. Cardinality(E(k) \cap At(k)) = 0
    BY <2>4, FS_EmptySet
  <2>8. IsFiniteSet(E(k) \cup At(k))
        /\ Cardinality(E(k) \cup At(k)) = Cardinality(E(k)) + Cardinality(At(k)) - Cardinality(E(k) \cap At(k))
    BY <2>2, <2>3, FS_Union
  <2>9. Cardinality(E(k + 1)) = Cardinality(E(k)) + Cardinality(At(k)) - 0 /\ IsFiniteSet(E(k + 1))
    BY <2>4, <2>7, <2>8
  <2> QED BY <2>2, <2>3, <2>5, <2>6, <2>9
<1>7a. \A k \in Nat : k \in S => k + 1 \in S
  <2> HIDE DEF E
  <2> QED BY <1>7
<1>8. \A k \in Nat : k \in S
  <2> HIDE DEF S
  <2> QED BY <1>6, <1>7a, NoGraph, LP!SetInduction
<1>9. E(N) = Ends(t)
  BY <1>1, <1>4
<1> HIDE DEF E
<1> QED BY <1>1, <1>2, <1>8, <1>9

\* Each end has another one, at the node that its link leads to.
IsPairing(b, t) ==
    b \in [Ends(t) -> Ends(t)] /\ \A r \in Ends(t) : b[b[r]] = r /\ b[r][1] = t[r[1]][r[2]]

\* In a tree every link leads one away from the root or one nearer to it, and no node
\* has two that lead nearer: there are no more links than nodes but the root.
LEMMA TreeLevels ==
  ASSUME NEW t, AreNodes(DOMAIN t), IsTree(t, DOMAIN t, DOMAIN t), NEW b, IsPairing(b, t),
         NEW root \in DOMAIN t, NEW w, IsDistance(t, root, w), NEW n \in DOMAIN t, NEW k \in DOMAIN t[n]
  PROVE  /\ w[t[n][k]] = w[n] - 1 \/ w[t[n][k]] = w[n] + 1
         /\ \A l \in DOMAIN t[n] : w[t[n][k]] = w[n] - 1 /\ w[t[n][l]] = w[n] - 1 => k = l
<1> DEFINE D == DOMAIN t
           N == Cardinality(D)
           R == Ends(t)
           to(r) == t[r[1]][r[2]]
           Up == {r \in R : w[to(r)] = w[r[1]] - 1}
           Down == {r \in R : w[to(r)] = w[r[1]] + 1}
           Others == D \ {root}
<1>1. t \in [D -> Seq(D)] /\ HasTotal(t, N, 2 * N - 2)
  BY DEF IsTree
<1>2. IsFiniteSet(R) /\ Cardinality(R) = 2 * N - 2
  BY <1>1, EndsCounted
<1>3. N \in Nat /\ IsFiniteSet(D)
  BY FS_CardinalityType DEF AreNodes
<1>4. w \in [D -> Nat] /\ (\A m \in D : \A x \in Range(t[m]) : w[x] <= w[m] + 1)
      /\ \A m \in Others : \E x \in D : x \in Range(t[m]) /\ w[x] = w[m] - 1
  BY DEF IsDistance
<1>5. /\ \A r \in R : r[1] \in D /\ r[2] \in DOMAIN t[r[1]] /\ to(r) \in D /\ to(r) \in Range(t[r[1]]) /\ r = <<r[1], r[2]>>
      /\ \A m \in D : \A p \in DOMAIN t[m] : <<m, p>> \in R
  <2> DEFINE P == D \X Nat
  <2>1. \A m \in D : t[m] \in Seq(D)
    BY <1>1
  <2>2. \A m \in D : /\ DOMAIN t[m] \subseteq Nat
                     /\ \A p \in DOMAIN t[m] : t[m][p] \in D /\ t[m][p] \in Range(t[m])
    <3> HIDE DEF D
    <3> QED BY <2>1 DEF Range
  <2>3. R = {r \in P : r[2] \in DOMAIN t[r[1]]}
    BY DEF Ends
  <2> HIDE DEF D, R
  <2> QED BY <2>2, <2>3
<1>6. b \in [R -> R] /\ \A r \in R : b[b[r]] = r /\ b[r][1] = to(r)
  BY DEF IsPairing
<1> HIDE DEF D, R, N
<1>7. \A r \in R : to(b[r]) = r[1]
  <2> HIDE DEF to
  <2> QED BY <1>6
<1>8. ASSUME NEW r \in R PROVE w[to(r)] <= w[r[1]] + 1 /\ w[r[1]] <= w[to(r)] + 1
  <2>1. b[r] \in R /\ b[r][1] = to(r) /\ to(b[r]) = r[1]
    BY <1>6, <1>7
  <2> QED BY <1>4, <1>5, <2>1
<1>9. \A r \in R : w[to(r)] \in Nat /\ w[r[1]] \in Nat
  BY <1>4, <1>5
<1> HIDE DEF to
<1>10. IsFiniteSet(Up) /\ IsFiniteSet(Down) /\ Cardinality(Up) \in Nat /\ Cardinality(Down) \in Nat
       /\ Up \cap Down = {}
  <2>1. Up \in SUBSET R /\ Down \in SUBSET R
    OBVIOUS
  <2>2. Up \cap Down = {}
    BY <1>9
  <2> HIDE DEF Up, Down
  <2> QED BY <1>2, <2>1, <2>2, FS_Subset, FS_CardinalityType
<1>11. Cardinality(Up) <= Cardinality(Down)
  <2> DEFINE f == [r \in Up |-> b[r]]
  <2>1. ASSUME NEW r \in Up PROVE b[r] \in Down
    <3>1. r \in R /\ b[r] \in R /\ b[r][1] = to(r) /\ to(b[r]) = r[1] /\ w[to(r)] = w[r[1]] - 1
      BY <1>6, <1>7
    <3>2. w[r[1]] = w[to(r)] + 1
      BY <1>9, <3>1
    <3> QED BY <3>1, <3>2
  <2>2. f \in [Up -> Down]
    BY <2>1
  <2>3. \A r \in Up : \A q \in Up : f[r] = f[q] => r = q
    BY <1>6
  <2> HIDE DEF f, Up, Down
  <2>4. f \in Injection(Up, Down)
    BY <2>2, <2>3 DEF Injection, IsInjective
  <2> QED BY <1>10, <2>4, FS_Injection
<1>12. PICK up \in [Others -> Up] : \A m \in Others : up[m][1] = m
  <2>1. ASSUME NEW m \in Others PROVE \E r \in Up : r[1] = m
    <3>1. PICK x \in D : x \in Range(t[m]) /\ w[x] = w[m] - 1
      BY <1>4
    <3>2. PICK p \in DOMAIN t[m] : t[m][p] = x
      BY <3>1 DEF Range
    <3> DEFINE r == <<m, p>>
    <3>3. r \in R /\ r[1] = m /\ to(r) = x
      BY <1>5, <3>2 DEF to
    <3> HIDE DEF r
    <3> QED BY <3>1, <3>3
  <2> DEFINE u == [m \in Others |-> CHOOSE r \in Up : r[1] = m]
  <2>2. \A m \in Others : u[m] \in Up /\ u[m][1] = m
    <3> HIDE DEF Up, Others
    <3> QED BY <2>1
  <2>3. u \in [Others -> Up]
    <3> HIDE DEF Up, Others
    <3> QED BY <2>2
  <2> QED BY <2>2, <2>3
<1> DEFINE Image == {up[m] : m \in Others}
<1>13. IsFiniteSet(Image) /\ Cardinality(Image) = N - 1 /\ Image \subseteq Up
  <2>1. IsFiniteSet(Others) /\ Cardinality(Others) = N - 1
    BY <1>3, FS_RemoveElement DEF N, D
  <2>2. up \in [Others -> Image] /\ (\A x, y \in Others : up[x] = up[y] => x = y)
        /\ \A z \in Image : \E x \in Others : up[x] = z
    BY <1>12
  <2>3. Image \subseteq Up
    BY <1>12
  <2> HIDE DEF Image, Others
  <2>4. up \in Bijection(Others, Image)
    BY <2>2 DEF Bijection, Injection, Surjection, IsInjective
  <2>5. ExistsBijection(Others, Image)
    BY <2>4 DEF ExistsBijection
  <2> QED BY <2>1, <2>3, <2>5, FS_Bijection
<1>14. Cardinality(Image) <= Cardinality(Up)
  <2>1. Image \in SUBSET Up
    BY <1>13
  <2> HIDE DEF Image, Up
  <2> QED BY <1>10, <2>1, FS_Subset
<1> DEFINE B == Up \cup Down
<1>15. IsFiniteSet(B) /\ Cardinality(B) = Cardinality(Up) + Cardinality(Down) /\ B \in SUBSET R
  <2>1. B \in SUBSET R
    OBVIOUS
  <2> HIDE DEF Up, Down
  <2>2. Cardinality(Up \cap Down) = 0
    BY <1>10, FS_EmptySet
  <2>3. IsFiniteSet(B) /\ Cardinality(B) = Cardinality(Up) + Cardinality(Down) - Cardinality(Up \cap Down)
    BY <1>10, FS_Union
  <2> QED BY <1>10, <2>1, <2>2, <2>3
<1>16. Cardinality(B) <= 2 * N - 2 /\ (Cardinality(B) = 2 * N - 2 => B = R)
  <2> HIDE DEF B
  <2> QED BY <1>2, <1>15, FS_Subset
<1>17. Cardinality(Up) = N - 1 /\ B = R
  <2> HIDE DEF B, Up, Down, Image
  <2> QED BY <1>3, <1>10, <1>11, <1>13, <1>14, <1>15, <1>16
<1>18. Image = Up
  <2> HIDE DEF Up, Image
  <2> QED BY <1>10, <1>13, <1>17, FS_Subset
<1>19. <<n, k>> \in R /\ <<n, k>>[1] = n /\ to(<<n, k>>) = t[n][k]
  BY <1>5 DEF D, to
<1>20. <<n, k>> \in B
  BY <1>17, <1>19
<1>21. w[t[n][k]] = w[n] - 1 \/ w[t[n][k]] = w[n] + 1
  BY <1>19, <1>20
<1>22. ASSUME NEW l \in DOMAIN t[n], w[t[n][k]] = w[n] - 1, w[t[n][l]] = w[n] - 1 PROVE k = l
  <2>1. <<n, l>> \in R /\ to(<<n, l>>) = t[n][l]
    BY <1>5 DEF D, to
  <2>2. <<n, k>> \in Up /\ <<n, l>> \in Up
    BY <1>19, <1>22, <2>1
  <2>3. PICK x \in Others : <<n, k>> = up[x]
    BY <1>18, <2>2
  <2>4. PICK y \in Others : <<n, l>> = up[y]
    BY <1>18, <2>2
  <2>5. x = n /\ y = n
    BY <1>12, <2>3, <2>4
  <2>6. <<n, k>> = <<n, l>>
    BY <2>3, <2>4, <2>5
  <2> QED BY <2>6
<1> QED BY <1>21, <1>22
=============================================================================
