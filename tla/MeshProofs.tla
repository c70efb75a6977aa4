----------------------------- MODULE MeshProofs -----------------------------
(***************************************************************************)
(* What the algorithms that restrict turns offer on a mesh of any size     *)
(* with any number of links between neighbours: always a step to a         *)
(* neighbour that is nearer, and only steps that go down in an order of    *)
(* the buffers, one order for each algorithm.                              *)
(***************************************************************************)
EXTENDS MeshRouting, FiniteSetTheorems, TLAPS

\* A mesh as MeshGraph builds it, with k links between neighbours.
IsMesh ==
    /\ width \in Nat /\ width > 0 /\ height \in Nat /\ height > 0
    /\ \E k \in Nat : k > 0 /\ graph = MeshGraph(width, height, k)

Nodes == 0 .. width * height - 1

LEMMA Division ==
  ASSUME NEW w \in Int, w > 0, NEW n \in Int
  PROVE  n \div w \in Int /\ n % w \in 0 .. w - 1 /\ n = w * (n \div w) + (n % w)
<1>1. n \div w \in Int
  BY Z3
<1>2. n % w \in 0 .. w - 1
  OBVIOUS
<1>3. n = w * (n \div w) + (n % w)
  BY SMTT(20)
<1> QED BY <1>1, <1>2, <1>3

LEMMA Quotient ==
  ASSUME NEW w \in Int, w > 0, NEW q \in Int, NEW r \in 0 .. w - 1
  PROVE  (q * w + r) \div w = q /\ (q * w + r) % w = r
<1> DEFINE n == q * w + r
           p == n \div w
           s == n % w
<1>1. n \in Int
  OBVIOUS
<1>2. p \in Int /\ s \in 0 .. w - 1 /\ n = w * p + s
  BY <1>1, Division
<1> HIDE DEF p, s
<1>3. (q - p) * w = s - r
  BY <1>2
<1>4. q - p \in Int /\ s - r < w /\ s - r > -w
  BY <1>2
<1>5. q - p >= 1 => (q - p) * w >= w
  BY <1>4
<1>6. q - p <= -1 => (q - p) * w <= -w
  BY <1>4
<1>7. q = p
  BY <1>2, <1>3, <1>4, <1>5, <1>6
<1> QED BY <1>2, <1>7 DEF p, s

\* A node is where its coordinates
LEMMA NodeXY ==
  ASSUME IsMesh, NEW n \in Nodes
  PROVE  X(n) \in 0 .. width - 1 /\ Y(n) \in 0 .. height - 1 /\ n = X(n) + Y(n) * width
<1>1. width \in Int /\ width > 0 /\ height \in Int /\ n \in Int /\ n >= 0 /\ n <= width * height - 1
  BY DEF IsMesh, Nodes
<1> DEFINE x == X(n)
           y == Y(n)
<1>2. x \in 0 .. width - 1 /\ y \in Int /\ n = width * y + x
  BY <1>1, Division DEF X, Y
<1> HIDE DEF x, y
<1>3. y >= 0
  <2>1. y <= -1 => width * y <= -width
    BY <1>1, <1>2
  <2> QED BY <2>1, <1>1, <1>2
<1>4. y < height
  <2>1. y >= height => width * y >= width * height
    BY <1>1, <1>2
  <2> QED BY <2>1, <1>1, <1>2
<1> QED BY <1>1, <1>2, <1>3, <1>4 DEF x, y

LEMMA XYNode ==
  ASSUME IsMesh, NEW x \in 0 .. width - 1, NEW y \in 0 .. height - 1
  PROVE  /\ IDFromXY(x, y) = x + y * width /\ IDFromXY(x, y) \in Nodes
         /\ X(IDFromXY(x, y)) = x /\ Y(IDFromXY(x, y)) = y
<1>1. width \in Int /\ width > 0 /\ height \in Int /\ height > 0
  BY DEF IsMesh
<1> DEFINE n == y * width + x
<1>2. IDFromXY(x, y) = x + y * width /\ x + y * width = n
  BY <1>1 DEF IDFromXY
<1>3. X(n) = x /\ Y(n) = y
  BY <1>1, Quotient DEF X, Y
<1>4. y * width >= 0 /\ y * width <= (height - 1) * width /\ (height - 1) * width = width * height - width
  BY <1>1
<1>5. n \in Nodes
  BY <1>1, <1>4 DEF Nodes
<1> QED BY <1>2, <1>3, <1>5

\* The node next to n, sx columns and sy rows away, and whether there is one.
Beside(n, sx, sy) == IDFromXY(X(n) + sx, Y(n) + sy)
Inside(n, sx, sy) == X(n) + sx \in 0 .. width - 1 /\ Y(n) + sy \in 0 .. height - 1

LEMMA Neighbours ==
  ASSUME IsMesh, NEW n \in Nodes, NEW sx \in Int, NEW sy \in Int, Inside(n, sx, sy)
  PROVE  /\ Beside(n, sx, sy) \in Nodes /\ Beside(n, sx, sy) = n + sx + sy * width
         /\ X(Beside(n, sx, sy)) = X(n) + sx /\ Y(Beside(n, sx, sy)) = Y(n) + sy
<1>1. X(n) \in Int /\ Y(n) \in Int /\ n = X(n) + Y(n) * width /\ width \in Int
  BY NodeXY DEF IsMesh
<1>2. (Y(n) + sy) * width = Y(n) * width + sy * width
  BY <1>1
<1> QED BY <1>1, <1>2, XYNode DEF Beside, Inside

\* How far a node is from another one, along the rows and columns.
Gap(n, m) == Abs(X(n) - X(m)) + Abs(Y(n) - Y(m))

LEMMA GapOf ==
  ASSUME IsMesh, NEW n \in Nodes, NEW m \in Nodes
  PROVE  Gap(n, m) \in Nat /\ Gap(n, m) = Gap(m, n) /\ (Gap(n, m) = 0 <=> n = m)
BY NodeXY DEF Gap, Abs

LEMMA GapBound ==
  ASSUME IsMesh, NEW n \in Nodes, NEW m \in Nodes
  PROVE  Gap(n, m) <= width + height
BY NodeXY DEF Gap, Abs, IsMesh

IsJoin(s, a, b, S) ==
    /\ s \in Seq(S) /\ Len(s) = Len(a) + Len(b)
    /\ \A p \in 1 .. Len(a) + Len(b) : s[p] = IF p <= Len(a) THEN a[p] ELSE b[p - Len(a)]

LEMMA Joined ==
  ASSUME NEW S, NEW a \in Seq(S), NEW b \in Seq(S)
  PROVE  IsJoin(a \o b, a, b, S)
BY DEF IsJoin

\* The four lists of links of a node, one after the other.
AreJoined(s, a, b, c, d, S) ==
    /\ s \in Seq(S) /\ Len(s) = Len(a) + Len(b) + Len(c) + Len(d)
    /\ \A p \in 1 .. Len(a) + Len(b) + Len(c) + Len(d) :
          s[p] = IF p <= Len(a) THEN a[p]
                 ELSE IF p <= Len(a) + Len(b) THEN b[p - Len(a)]
                 ELSE IF p <= Len(a) + Len(b) + Len(c) THEN c[p - Len(a) - Len(b)]
                 ELSE d[p - Len(a) - Len(b) - Len(c)]

LEMMA FourLists ==
  ASSUME NEW S, NEW a \in Seq(S), NEW b \in Seq(S), NEW c \in Seq(S), NEW d \in Seq(S)
  PROVE  AreJoined(a \o b \o c \o d, a, b, c, d, S)
<1> DEFINE ab == a \o b
           abc == ab \o c
           abcd == abc \o d
<1>1. IsJoin(ab, a, b, S)
  BY Joined
<1>2. IsJoin(abc, ab, c, S)
  <2>1. ab \in Seq(S)
    BY <1>1 DEF IsJoin
  <2> HIDE DEF ab
  <2> QED BY <2>1, Joined
<1>3. IsJoin(abcd, abc, d, S)
  <2>1. abc \in Seq(S)
    BY <1>2 DEF IsJoin
  <2> HIDE DEF abc
  <2> QED BY <2>1, Joined
<1> HIDE DEF ab, abc, abcd
<1>4. Len(a) \in Nat /\ Len(b) \in Nat /\ Len(c) \in Nat /\ Len(d) \in Nat
  OBVIOUS
<1>5. Len(abcd) = Len(a) + Len(b) + Len(c) + Len(d)
  BY <1>1, <1>2, <1>3, <1>4 DEF IsJoin
<1>6. ASSUME NEW p \in 1 .. Len(a) + Len(b) + Len(c) + Len(d)
      PROVE  abcd[p] = IF p <= Len(a) THEN a[p]
                       ELSE IF p <= Len(a) + Len(b) THEN b[p - Len(a)]
                       ELSE IF p <= Len(a) + Len(b) + Len(c) THEN c[p - Len(a) - Len(b)]
                       ELSE d[p - Len(a) - Len(b) - Len(c)]
  <2>1. CASE p <= Len(a) + Len(b)
    BY <1>1, <1>2, <1>3, <1>4, <2>1 DEF IsJoin
  <2>2. CASE p > Len(a) + Len(b)
    BY <1>1, <1>2, <1>3, <1>4, <2>2 DEF IsJoin
  <2> QED BY <1>4, <2>1, <2>2
<1>7. abcd = a \o b \o c \o d
  BY DEF abcd, abc, ab
<1> QED BY <1>3, <1>5, <1>6, <1>7 DEF IsJoin, AreJoined

\* The links of a node: to the row above, to the left, to the row below, to the
\* right, k to each of these neighbours that there is.
Many(k, there) == IF there THEN k ELSE 0
Counts(n, k, u, l, d, r) ==
    /\ u = Many(k, Inside(n, 0, 1)) /\ l = Many(k, Inside(n, -1, 0))
    /\ d = Many(k, Inside(n, 0, -1)) /\ r = Many(k, Inside(n, 1, 0))

AreCopies(s, m, to) == s \in Seq(Int) /\ Len(s) = m /\ \A p \in 1 .. m : s[p] = to

LEMMA Copies ==
  ASSUME NEW k \in Nat, NEW to \in Int
  PROVE  AreCopies(Channels(to, k), k, to) /\ AreCopies(<<>>, 0, to)
BY DEF AreCopies, Channels

LEMMA LinksOf ==
  ASSUME IsMesh, NEW k \in Nat, graph = MeshGraph(width, height, k), NEW n \in Nodes,
         NEW u \in Nat, NEW l \in Nat, NEW d \in Nat, NEW r \in Nat, Counts(n, k, u, l, d, r)
  PROVE  /\ graph[n] \in Seq(Int) /\ Len(graph[n]) = u + l + d + r
         /\ \A p \in 1 .. u + l + d + r :
               graph[n][p] = IF p <= u THEN n + width ELSE IF p <= u + l THEN n - 1
                             ELSE IF p <= u + l + d THEN n - width ELSE n + 1
<1> DEFINE x == n % width
           y == n \div width
           A == IF y + 1 < height THEN Channels(n + width, k) ELSE <<>>
           B == IF x >= 1 THEN Channels(n - 1, k) ELSE <<>>
           C == IF y >= 1 THEN Channels(n - width, k) ELSE <<>>
           D == IF x + 1 < width THEN Channels(n + 1, k) ELSE <<>>
<1>1. x = X(n) /\ y = Y(n) /\ x \in 0 .. width - 1 /\ y \in 0 .. height - 1
      /\ width \in Int /\ height \in Int /\ n \in Int
  BY NodeXY DEF X, Y, IsMesh, Nodes
<1>2. graph[n] = A \o B \o C \o D
  BY DEF MeshGraph, Nodes
<1> HIDE DEF x, y
<1>3. AreCopies(A, u, n + width)
  <2>1. (y + 1 < height) <=> Inside(n, 0, 1)
    BY <1>1 DEF Inside
  <2>2. n + width \in Int
    BY <1>1
  <2> QED BY <2>1, <2>2, Copies DEF Many, Counts
<1>4. AreCopies(B, l, n - 1)
  <2>1. (x >= 1) <=> Inside(n, -1, 0)
    BY <1>1 DEF Inside
  <2>2. n - 1 \in Int
    BY <1>1
  <2> QED BY <2>1, <2>2, Copies DEF Many, Counts
<1>5. AreCopies(C, d, n - width)
  <2>1. (y >= 1) <=> Inside(n, 0, -1)
    BY <1>1 DEF Inside
  <2>2. n - width \in Int
    BY <1>1
  <2> QED BY <2>1, <2>2, Copies DEF Many, Counts
<1>6. AreCopies(D, r, n + 1)
  <2>1. (x + 1 < width) <=> Inside(n, 1, 0)
    BY <1>1 DEF Inside
  <2>2. n + 1 \in Int
    BY <1>1
  <2> QED BY <2>1, <2>2, Copies DEF Many, Counts
<1> DEFINE s == A \o B \o C \o D
<1> HIDE DEF A, B, C, D
<1>7. AreJoined(s, A, B, C, D, Int)
  BY <1>3, <1>4, <1>5, <1>6, FourLists DEF AreCopies, s
<1>9. Len(A) = u /\ Len(B) = l /\ Len(C) = d /\ Len(D) = r
  BY <1>3, <1>4, <1>5, <1>6 DEF AreCopies
<1>10. s \in Seq(Int) /\ Len(s) = u + l + d + r
  BY <1>7, <1>9 DEF AreJoined
<1>11. ASSUME NEW p \in 1 .. u + l + d + r
       PROVE  s[p] = IF p <= u THEN n + width ELSE IF p <= u + l THEN n - 1
                     ELSE IF p <= u + l + d THEN n - width ELSE n + 1
  <2>1. s[p] = IF p <= u THEN A[p] ELSE IF p <= u + l THEN B[p - u]
               ELSE IF p <= u + l + d THEN C[p - u - l] ELSE D[p - u - l - d]
    BY <1>7, <1>9 DEF AreJoined
  <2>2. CASE p <= u
    BY <1>3, <2>1, <2>2 DEF AreCopies
  <2>3. CASE p > u /\ p <= u + l
    <3>1. p - u \in 1 .. l /\ s[p] = B[p - u]
      BY <2>1, <2>3
    <3> QED BY <1>4, <2>3, <3>1 DEF AreCopies
  <2>4. CASE p > u + l /\ p <= u + l + d
    <3>1. p - u - l \in 1 .. d /\ s[p] = C[p - u - l]
      BY <2>1, <2>4
    <3> QED BY <1>5, <2>4, <3>1 DEF AreCopies
  <2>5. CASE p > u + l + d
    <3>1. p - u - l - d \in 1 .. r /\ s[p] = D[p - u - l - d]
      BY <2>1, <2>5
    <3> QED BY <1>6, <2>5, <3>1 DEF AreCopies
  <2>6. p <= u \/ (p > u /\ p <= u + l) \/ (p > u + l /\ p <= u + l + d) \/ p > u + l + d
    OBVIOUS
  <2> QED BY <2>2, <2>3, <2>4, <2>5, <2>6
<1>12. graph[n] = s
  BY <1>2 DEF s
<1> QED BY <1>10, <1>11, <1>12

\* The links from a node to another one have consecutive ports, equally many for
\* every two nodes next to each other.
LEMMA MeshLinks ==
  ASSUME IsMesh
  PROVE  \E k \in Nat : k > 0 /\ \A n \in Nodes :
            /\ graph[n] \in Seq(Nodes)
            /\ \A m \in Nodes : \E i \in Nat :
                  LinksTo(graph, n, m) = IF Gap(n, m) = 1 THEN (i + 1) .. (i + k) ELSE {}
<1>1. PICK k \in Nat : k > 0 /\ graph = MeshGraph(width, height, k)
  BY DEF IsMesh
<1>2. width \in Int /\ width > 0 /\ height \in Int /\ height > 0
  BY DEF IsMesh
<1>3. ASSUME NEW n \in Nodes
      PROVE  /\ graph[n] \in Seq(Nodes)
             /\ \A m \in Nodes : \E i \in Nat :
                  LinksTo(graph, n, m) = IF Gap(n, m) = 1 THEN (i + 1) .. (i + k) ELSE {}
  <2> DEFINE u == Many(k, Inside(n, 0, 1))
             l == Many(k, Inside(n, -1, 0))
             d == Many(k, Inside(n, 0, -1))
             r == Many(k, Inside(n, 1, 0))
  <2>1. /\ graph[n] \in Seq(Int) /\ Len(graph[n]) = u + l + d + r
        /\ \A p \in 1 .. u + l + d + r :
               graph[n][p] = IF p <= u THEN n + width ELSE IF p <= u + l THEN n - 1
                             ELSE IF p <= u + l + d THEN n - width ELSE n + 1
    <3>1. Counts(n, k, u, l, d, r)
      BY DEF Counts
    <3>2. u \in Nat /\ l \in Nat /\ d \in Nat /\ r \in Nat
      BY DEF Many
    <3> HIDE DEF u, l, d, r
    <3> QED BY <1>1, <3>1, <3>2, LinksOf
  <2>2. u \in {0, k} /\ l \in {0, k} /\ d \in {0, k} /\ r \in {0, k}
        /\ (u = k <=> Inside(n, 0, 1)) /\ (l = k <=> Inside(n, -1, 0))
        /\ (d = k <=> Inside(n, 0, -1)) /\ (r = k <=> Inside(n, 1, 0))
    BY <1>1 DEF Many
  <2>3. X(n) \in 0 .. width - 1 /\ Y(n) \in 0 .. height - 1 /\ n \in Int
    BY NodeXY DEF Nodes
  <2>4. /\ u = k => /\ n + width \in Nodes /\ X(n + width) = X(n) /\ Y(n + width) = Y(n) + 1
        /\ l = k => /\ n - 1 \in Nodes /\ X(n - 1) = X(n) - 1 /\ Y(n - 1) = Y(n)
        /\ d = k => /\ n - width \in Nodes /\ X(n - width) = X(n) /\ Y(n - width) = Y(n) - 1
        /\ r = k => /\ n + 1 \in Nodes /\ X(n + 1) = X(n) + 1 /\ Y(n + 1) = Y(n)
    <3>1. ASSUME Inside(n, 0, 1) PROVE n + width \in Nodes /\ X(n + width) = X(n) /\ Y(n + width) = Y(n) + 1
      <4>1. Beside(n, 0, 1) \in Nodes /\ Beside(n, 0, 1) = n + 0 + (1) * width
            /\ X(Beside(n, 0, 1)) = X(n) + 0 /\ Y(Beside(n, 0, 1)) = Y(n) + 1
        BY <3>1, Neighbours
      <4>2. n + 0 + (1) * width = n + width
        BY <1>2, <2>3
      <4> QED BY <2>3, <4>1, <4>2
    <3>2. ASSUME Inside(n, -1, 0) PROVE n - 1 \in Nodes /\ X(n - 1) = X(n) - 1 /\ Y(n - 1) = Y(n)
      <4>1. Beside(n, -1, 0) \in Nodes /\ Beside(n, -1, 0) = n + -1 + (0) * width
            /\ X(Beside(n, -1, 0)) = X(n) + -1 /\ Y(Beside(n, -1, 0)) = Y(n) + 0
        BY <3>2, Neighbours
      <4>2. n + -1 + (0) * width = n - 1
        BY <1>2, <2>3
      <4> QED BY <2>3, <4>1, <4>2
    <3>3. ASSUME Inside(n, 0, -1) PROVE n - width \in Nodes /\ X(n - width) = X(n) /\ Y(n - width) = Y(n) - 1
      <4>1. Beside(n, 0, -1) \in Nodes /\ Beside(n, 0, -1) = n + 0 + (-1) * width
            /\ X(Beside(n, 0, -1)) = X(n) + 0 /\ Y(Beside(n, 0, -1)) = Y(n) + -1
        BY <3>3, Neighbours
      <4>2. n + 0 + (-1) * width = n - width
        BY <1>2, <2>3
      <4> QED BY <2>3, <4>1, <4>2
    <3>4. ASSUME Inside(n, 1, 0) PROVE n + 1 \in Nodes /\ X(n + 1) = X(n) + 1 /\ Y(n + 1) = Y(n)
      <4>1. Beside(n, 1, 0) \in Nodes /\ Beside(n, 1, 0) = n + 1 + (0) * width
            /\ X(Beside(n, 1, 0)) = X(n) + 1 /\ Y(Beside(n, 1, 0)) = Y(n) + 0
        BY <3>4, Neighbours
      <4>2. n + 1 + (0) * width = n + 1
        BY <1>2, <2>3
      <4> QED BY <2>3, <4>1, <4>2
    <3> HIDE DEF u, l, d, r
    <3> QED BY <2>2, <3>1, <3>2, <3>3, <3>4
  <2> HIDE DEF u, l, d, r
  <2>5. graph[n] \in Seq(Nodes)
    <3>1. ASSUME NEW p \in 1 .. Len(graph[n]) PROVE graph[n][p] \in Nodes
      BY <1>1, <2>1, <2>2, <2>4
    <3> QED BY <2>1, <3>1
  <2>6. ASSUME NEW m \in Nodes
        PROVE  \E i \in Nat : LinksTo(graph, n, m) = IF Gap(n, m) = 1 THEN (i + 1) .. (i + k) ELSE {}
    <3> DEFINE at(p, x, y) == /\ graph[n][p] \in Nodes
                              /\ X(graph[n][p]) = X(n) + x /\ Y(graph[n][p]) = Y(n) + y
    <3>1. X(m) \in 0 .. width - 1 /\ Y(m) \in 0 .. height - 1
      BY NodeXY
    <3>2. LinksTo(graph, n, m) = {p \in 1 .. u + l + d + r : graph[n][p] = m}
      BY <2>1 DEF LinksTo
    <3>3. \A p \in 1 .. u + l + d + r :
             /\ p <= u => at(p, 0, 1)
             /\ p > u /\ p <= u + l => at(p, -1, 0)
             /\ p > u + l /\ p <= u + l + d => at(p, 0, -1)
             /\ p > u + l + d => at(p, 1, 0)
      <4> SUFFICES ASSUME NEW p \in 1 .. u + l + d + r
                   PROVE  /\ p <= u => at(p, 0, 1)
                          /\ p > u /\ p <= u + l => at(p, -1, 0)
                          /\ p > u + l /\ p <= u + l + d => at(p, 0, -1)
                          /\ p > u + l + d => at(p, 1, 0)
        OBVIOUS
      <4>1. /\ u \in Nat /\ l \in Nat /\ d \in Nat /\ r \in Nat
        BY <1>1, <2>2
      <4>2. p <= u => u = k /\ graph[n][p] = n + width
        BY <2>1, <2>2, <4>1
      <4>3. p > u /\ p <= u + l => l = k /\ graph[n][p] = n - 1
        BY <2>1, <2>2, <4>1
      <4>4. p > u + l /\ p <= u + l + d => d = k /\ graph[n][p] = n - width
        BY <2>1, <2>2, <4>1
      <4>5. p > u + l + d => r = k /\ graph[n][p] = n + 1
        BY <2>1, <2>2, <4>1
      <4> QED BY <2>3, <2>4, <4>2, <4>3, <4>4, <4>5
    <3>4. \A p \in 1 .. u + l + d + r :
             graph[n][p] = m <=> X(graph[n][p]) = X(m) /\ Y(graph[n][p]) = Y(m)
      <4>1. ASSUME NEW v \in Nodes PROVE v = m <=> X(v) = X(m) /\ Y(v) = Y(m)
        BY NodeXY
      <4>2. \A p \in 1 .. u + l + d + r : graph[n][p] \in Nodes
        BY <2>1, <2>5
      <4> QED BY <4>1, <4>2
    <3> DEFINE dx == X(m) - X(n)
               dy == Y(m) - Y(n)
    <3>5. dx \in Int /\ dy \in Int /\ X(m) = X(n) + dx /\ Y(m) = Y(n) + dy
      BY <2>3, <3>1
    <3>6. Gap(n, m) = 1 <=> \/ dx = 0 /\ dy = 1
                            \/ dx = -1 /\ dy = 0
                            \/ dx = 0 /\ dy = -1
                            \/ dx = 1 /\ dy = 0
      <4>1. X(n) \in Int /\ Y(n) \in Int /\ X(m) \in Int /\ Y(m) \in Int
        BY <2>3, <3>1
      <4>2. Abs(X(n) - X(m)) + Abs(Y(n) - Y(m)) = 1 <=> \/ dx = 0 /\ dy = 1
                                                        \/ dx = -1 /\ dy = 0
                                                        \/ dx = 0 /\ dy = -1
                                                        \/ dx = 1 /\ dy = 0
        BY <4>1 DEF Abs
      <4> QED BY <4>2, Zenon DEF Gap
    <3>7. /\ dx = 0 /\ dy = 1 => u = k
          /\ dx = -1 /\ dy = 0 => l = k
          /\ dx = 0 /\ dy = -1 => d = k
          /\ dx = 1 /\ dy = 0 => r = k
      BY <2>2, <2>3, <3>1, <3>5 DEF Inside
    <3> DEFINE G == Gap(n, m)
    <3> HIDE DEF dx, dy, G
    <3>8. CASE dx = 0 /\ dy = 1
      <4>1. {p \in 1 .. u + l + d + r : graph[n][p] = m} = (0 + 1) .. (0 + k)
        BY <1>1, <2>2, <2>3, <3>3, <3>4, <3>5, <3>7, <3>8
      <4> WITNESS 0 \in Nat
      <4> QED BY <3>2, <3>6, <3>8, <4>1 DEF G
    <3>9. CASE dx = -1 /\ dy = 0
      <4>1. {p \in 1 .. u + l + d + r : graph[n][p] = m} = (u + 1) .. (u + k)
        BY <1>1, <2>2, <2>3, <3>3, <3>4, <3>5, <3>7, <3>9
      <4>2. u \in Nat
        BY <1>1, <2>2
      <4> WITNESS u \in Nat
      <4> QED BY <3>2, <3>6, <3>9, <4>1 DEF G
    <3>10. CASE dx = 0 /\ dy = -1
      <4>1. {p \in 1 .. u + l + d + r : graph[n][p] = m} = (u + l + 1) .. (u + l + k)
        BY <1>1, <2>2, <2>3, <3>3, <3>4, <3>5, <3>7, <3>10
      <4>2. u + l \in Nat
        BY <1>1, <2>2
      <4> WITNESS u + l \in Nat
      <4> QED BY <3>2, <3>6, <3>10, <4>1 DEF G
    <3>11. CASE dx = 1 /\ dy = 0
      <4>1. {p \in 1 .. u + l + d + r : graph[n][p] = m} = (u + l + d + 1) .. (u + l + d + k)
        BY <1>1, <2>2, <2>3, <3>3, <3>4, <3>5, <3>7, <3>11
      <4>2. u + l + d \in Nat
        BY <1>1, <2>2
      <4> WITNESS u + l + d \in Nat
      <4> QED BY <3>2, <3>6, <3>11, <4>1 DEF G
    <3>12. CASE ~(\/ dx = 0 /\ dy = 1
                  \/ dx = -1 /\ dy = 0
                  \/ dx = 0 /\ dy = -1
                  \/ dx = 1 /\ dy = 0)
      <4>1. {p \in 1 .. u + l + d + r : graph[n][p] = m} = {}
        <5> SUFFICES ASSUME NEW p \in 1 .. u + l + d + r, graph[n][p] = m PROVE FALSE
          OBVIOUS
        <5>1. X(graph[n][p]) = X(n) + dx /\ Y(graph[n][p]) = Y(n) + dy
          BY <3>4, <3>5
        <5>2. p <= u \/ (p > u /\ p <= u + l) \/ (p > u + l /\ p <= u + l + d) \/ p > u + l + d
          BY <1>1, <2>2
        <5> QED BY <2>3, <3>3, <3>5, <3>12, <5>1, <5>2
      <4> QED BY <3>2, <3>6, <3>12, <4>1 DEF G
    <3> QED BY <3>8, <3>9, <3>10, <3>11, <3>12
  <2> QED BY <2>5, <2>6
<1> QED BY <1>1, <1>3

\* Neighbours have equally many links to each other.
LEMMA LinksBalanced ==
  ASSUME IsMesh, NEW n \in Nodes, NEW m \in Nodes
  PROVE  Cardinality(LinksTo(graph, n, m)) = Cardinality(LinksTo(graph, m, n))
<1>1. PICK k \in Nat : k > 0 /\ \A a \in Nodes : \A b \in Nodes : \E i \in Nat :
                LinksTo(graph, a, b) = IF Gap(a, b) = 1 THEN (i + 1) .. (i + k) ELSE {}
  BY MeshLinks
<1>2. ASSUME NEW a \in Nodes, NEW b \in Nodes
      PROVE  Cardinality(LinksTo(graph, a, b)) = IF Gap(a, b) = 1 THEN k ELSE 0
  <2>1. PICK i \in Nat : LinksTo(graph, a, b) = IF Gap(a, b) = 1 THEN (i + 1) .. (i + k) ELSE {}
    BY <1>1
  <2>2. Cardinality((i + 1) .. (i + k)) = k
    <3>1. i + 1 \in Int /\ i + k \in Int /\ ~(i + 1 > i + k) /\ (i + k) - (i + 1) + 1 = k
      BY <1>1
    <3> QED BY <3>1, FS_Interval
  <2> QED BY <2>1, <2>2, FS_EmptySet
<1>3. Gap(n, m) = Gap(m, n)
  BY GapOf
<1> QED BY <1>2, <1>3

-----------------------------------------------------------------------------
\* A hop one column or one row on.
Units == {<<1, 0>>, <<-1, 0>>, <<0, 1>>, <<0, -1>>}
Leads(n, p, sx, sy) == /\ p \in DOMAIN graph[n] /\ graph[n][p] \in Nodes
                       /\ X(graph[n][p]) = X(n) + sx /\ Y(graph[n][p]) = Y(n) + sy

LEMMA StepLeads ==
  ASSUME IsMesh, NEW f, f.node \in Nodes, NEW sx \in Int, NEW sy \in Int, <<sx, sy>> \in Units,
         Inside(f.node, sx, sy), NEW vc
  PROVE  /\ Step(f, sx, sy, vc) # {}
         /\ \A con \in Step(f, sx, sy, vc) : con.vc = vc /\ Leads(f.node, con.port, sx, sy)
<1> DEFINE n == f.node
           m == Beside(n, sx, sy)
<1>1. m \in Nodes /\ X(m) = X(n) + sx /\ Y(m) = Y(n) + sy
  BY Neighbours
<1>2. Gap(n, m) = 1
  <2>1. X(n) \in Int /\ Y(n) \in Int
    BY NodeXY
  <2>2. (sx = 1 /\ sy = 0) \/ (sx = -1 /\ sy = 0) \/ (sx = 0 /\ sy = 1) \/ (sx = 0 /\ sy = -1)
    BY DEF Units
  <2> HIDE DEF n, m
  <2> QED BY <1>1, <2>1, <2>2 DEF Gap, Abs
<1>3. Step(f, sx, sy, vc) = {[port |-> p, vc |-> vc] : p \in LinksTo(graph, n, m)}
  BY DEF Step, Beside
<1> HIDE DEF m
<1>4. LinksTo(graph, n, m) # {}
  <2>1. PICK k \in Nat : k > 0 /\ \A a \in Nodes : \A b \in Nodes : \E i \in Nat :
                  LinksTo(graph, a, b) = IF Gap(a, b) = 1 THEN (i + 1) .. (i + k) ELSE {}
    BY MeshLinks
  <2>2. PICK i \in Nat : LinksTo(graph, n, m) = (i + 1) .. (i + k)
    BY <1>1, <1>2, <2>1
  <2>3. i + 1 \in (i + 1) .. (i + k)
    BY <2>1
  <2> QED BY <2>2, <2>3
<1>5. \A p \in LinksTo(graph, n, m) : Leads(n, p, sx, sy)
  BY <1>1 DEF LinksTo, Leads
<1>6. ASSUME NEW con \in Step(f, sx, sy, vc) PROVE con.vc = vc /\ Leads(n, con.port, sx, sy)
  <2>1. PICK p \in LinksTo(graph, n, m) : con = [port |-> p, vc |-> vc]
    BY <1>3
  <2> HIDE DEF n
  <2> QED BY <1>5, <2>1
<1>7. Step(f, sx, sy, vc) # {}
  BY <1>3, <1>4
<1> QED BY <1>6, <1>7

\* The algorithms send along a row or a column towards the destination.
LEMMA AlongLeads ==
  ASSUME IsMesh, NEW f, f.node \in Nodes, f.dst \in Nodes, NEW vc
  PROVE  /\ Dx(f) \in Int /\ Dy(f) \in Int
         /\ Dx(f) = 0 => AlongX(f, vc) = {}
         /\ Dx(f) > 0 => /\ AlongX(f, vc) # {}
                         /\ \A con \in AlongX(f, vc) : con.vc = vc /\ Leads(f.node, con.port, 1, 0)
         /\ Dx(f) < 0 => /\ AlongX(f, vc) # {}
                         /\ \A con \in AlongX(f, vc) : con.vc = vc /\ Leads(f.node, con.port, -1, 0)
         /\ Dy(f) = 0 => AlongY(f, vc) = {}
         /\ Dy(f) > 0 => /\ AlongY(f, vc) # {}
                         /\ \A con \in AlongY(f, vc) : con.vc = vc /\ Leads(f.node, con.port, 0, 1)
         /\ Dy(f) < 0 => /\ AlongY(f, vc) # {}
                         /\ \A con \in AlongY(f, vc) : con.vc = vc /\ Leads(f.node, con.port, 0, -1)
<1>1. /\ X(f.node) \in 0 .. width - 1 /\ Y(f.node) \in 0 .. height - 1
      /\ X(f.dst) \in 0 .. width - 1 /\ Y(f.dst) \in 0 .. height - 1
      /\ width \in Int /\ height \in Int
  BY NodeXY DEF IsMesh
<1>2. Dx(f) \in Int /\ Dy(f) \in Int
  BY <1>1 DEF Dx, Dy
<1>3. /\ Dx(f) > 0 => Inside(f.node, 1, 0)
      /\ Dx(f) < 0 => Inside(f.node, -1, 0)
      /\ Dy(f) > 0 => Inside(f.node, 0, 1)
      /\ Dy(f) < 0 => Inside(f.node, 0, -1)
  BY <1>1 DEF Dx, Dy, Inside
<1>4. /\ Dx(f) = 0 => AlongX(f, vc) = {}
      /\ Dx(f) > 0 => AlongX(f, vc) = Step(f, 1, 0, vc)
      /\ Dx(f) < 0 => AlongX(f, vc) = Step(f, -1, 0, vc)
      /\ Dy(f) = 0 => AlongY(f, vc) = {}
      /\ Dy(f) > 0 => AlongY(f, vc) = Step(f, 0, 1, vc)
      /\ Dy(f) < 0 => AlongY(f, vc) = Step(f, 0, -1, vc)
  BY <1>2 DEF AlongX, AlongY, Sign
<1>5. ASSUME NEW sx \in Int, NEW sy \in Int, <<sx, sy>> \in Units, Inside(f.node, sx, sy)
      PROVE  /\ Step(f, sx, sy, vc) # {}
             /\ \A con \in Step(f, sx, sy, vc) : con.vc = vc /\ Leads(f.node, con.port, sx, sy)
  BY <1>5, StepLeads
<1>6. <<1, 0>> \in Units /\ <<-1, 0>> \in Units /\ <<0, 1>> \in Units /\ <<0, -1>> \in Units
  BY DEF Units
<1>7. Dx(f) > 0 => /\ AlongX(f, vc) # {}
                   /\ \A con \in AlongX(f, vc) : con.vc = vc /\ Leads(f.node, con.port, 1, 0)
  BY <1>3, <1>4, <1>5, <1>6
<1>8. Dx(f) < 0 => /\ AlongX(f, vc) # {}
                   /\ \A con \in AlongX(f, vc) : con.vc = vc /\ Leads(f.node, con.port, -1, 0)
  BY <1>3, <1>4, <1>5, <1>6
<1>9. Dy(f) > 0 => /\ AlongY(f, vc) # {}
                   /\ \A con \in AlongY(f, vc) : con.vc = vc /\ Leads(f.node, con.port, 0, 1)
  BY <1>3, <1>4, <1>5, <1>6
<1>10. Dy(f) < 0 => /\ AlongY(f, vc) # {}
                    /\ \A con \in AlongY(f, vc) : con.vc = vc /\ Leads(f.node, con.port, 0, -1)
  BY <1>3, <1>4, <1>5, <1>6
<1> QED BY <1>2, <1>4, <1>7, <1>8, <1>9, <1>10

-----------------------------------------------------------------------------
\* The way a flit came into buffer p of router n: the columns and rows of the last
\* hop.  A packet of the router's own processor came by the port behind the links.
Came(n, p, sx, sy) ==
    /\ p \in DOMAIN graph[n] /\ graph[n][p] \in Nodes
    /\ X(graph[n][p]) = X(n) - sx /\ Y(graph[n][p]) = Y(n) - sy

\* A flit on its way: it is in its source, where it came from the processor, or it has
\* come nearer to its destination, and its last hop was not away from it.
Onward(f) ==
    /\ f.node \in Nodes /\ f.src \in Nodes /\ f.dst \in Nodes /\ f.vc \in {0, 1}
    /\ \/ f.port_in \notin DOMAIN graph[f.node] /\ f.node = f.src
       \/ /\ Gap(f.node, f.dst) < Gap(f.src, f.dst)
          /\ \/ Came(f.node, f.port_in, 1, 0) /\ Dx(f) >= 0
             \/ Came(f.node, f.port_in, -1, 0) /\ Dx(f) <= 0
             \/ Came(f.node, f.port_in, 0, 1) /\ Dy(f) >= 0
             \/ Came(f.node, f.port_in, 0, -1) /\ Dy(f) <= 0

\* Flit g is what becomes of flit f when it is sent over con.
Becomes(f, con, g) ==
    /\ g.node = graph[f.node][con.port] /\ g.src = f.src /\ g.dst = f.dst /\ g.vc = con.vc
    /\ g.port_in \in DOMAIN graph[g.node] /\ graph[g.node][g.port_in] = f.node

\* A hop towards the destination keeps a flit on its way and brings it one nearer.
Towards(f, sx, sy) ==
    \/ sx = 1 /\ sy = 0 /\ Dx(f) > 0
    \/ sx = -1 /\ sy = 0 /\ Dx(f) < 0
    \/ sx = 0 /\ sy = 1 /\ Dy(f) > 0
    \/ sx = 0 /\ sy = -1 /\ Dy(f) < 0

LEMMA GapLeft ==
  ASSUME IsMesh, NEW f, f.node \in Nodes, f.dst \in Nodes
  PROVE  Gap(f.node, f.dst) = Abs(Dx(f)) + Abs(Dy(f))
<1> DEFINE x == X(f.node)
           y == Y(f.node)
           u == X(f.dst)
           v == Y(f.dst)
<1>1. x \in Int /\ y \in Int /\ u \in Int /\ v \in Int
  BY NodeXY
<1>2. Gap(f.node, f.dst) = Abs(x - u) + Abs(y - v) /\ Dx(f) = u - x /\ Dy(f) = v - y
  BY DEF Gap, Dx, Dy
<1> HIDE DEF x, y, u, v
<1>3. Abs(x - u) = Abs(u - x) /\ Abs(y - v) = Abs(v - y)
  BY <1>1 DEF Abs
<1> QED BY <1>2, <1>3

LEMMA HopOnward ==
  ASSUME IsMesh, NEW f, Onward(f), NEW con, con.vc \in {0, 1}, NEW sx, NEW sy, Towards(f, sx, sy),
         Leads(f.node, con.port, sx, sy), NEW g, Becomes(f, con, g)
  PROVE  /\ Onward(g) /\ Gap(g.node, g.dst) = Gap(f.node, f.dst) - 1
         /\ Came(g.node, g.port_in, sx, sy)
         /\ Dx(g) = Dx(f) - sx /\ Dy(g) = Dy(f) - sy
         /\ X(g.node) = X(f.node) + sx /\ Y(g.node) = Y(f.node) + sy
<1>1. /\ f.node \in Nodes /\ f.dst \in Nodes /\ f.src \in Nodes /\ g.node \in Nodes
      /\ g.src = f.src /\ g.dst = f.dst /\ g.vc \in {0, 1}
  BY DEF Onward, Becomes, Leads
<1>2. X(g.node) = X(f.node) + sx /\ Y(g.node) = Y(f.node) + sy
  BY DEF Becomes, Leads
<1>3. \A n \in Nodes : X(n) \in Int /\ Y(n) \in Int
  BY NodeXY
<1>4. sx \in Int /\ sy \in Int
  BY DEF Towards
<1>5. Came(g.node, g.port_in, sx, sy)
  <2>1. X(f.node) = X(g.node) - sx /\ Y(f.node) = Y(g.node) - sy
    BY <1>1, <1>2, <1>3, <1>4
  <2> QED BY <1>1, <2>1 DEF Came, Becomes
<1>6. /\ Dx(f) \in Int /\ Dy(f) \in Int
      /\ Dx(g) = Dx(f) - sx /\ Dy(g) = Dy(f) - sy
  BY <1>1, <1>2, <1>3, <1>4 DEF Dx, Dy
<1>7. Gap(f.node, f.dst) = Abs(Dx(f)) + Abs(Dy(f)) /\ Gap(g.node, g.dst) = Abs(Dx(g)) + Abs(Dy(g))
  BY <1>1, GapLeft
<1>8. Gap(g.node, g.dst) = Gap(f.node, f.dst) - 1
  BY <1>6, <1>7 DEF Abs, Towards
<1>9. Gap(f.node, f.dst) <= Gap(f.src, f.dst)
  <2>1. Gap(f.node, f.dst) \in Int /\ Gap(f.src, f.dst) \in Int
    BY <1>1, GapOf
  <2> QED BY <2>1 DEF Onward
<1>10. Gap(g.node, g.dst) < Gap(g.src, g.dst)
  <2>1. Gap(f.node, f.dst) \in Int /\ Gap(f.src, f.dst) \in Int
    BY <1>1, GapOf
  <2> QED BY <1>1, <1>8, <1>9, <2>1
<1>11. \/ sx = 1 /\ sy = 0 /\ Dx(g) >= 0
       \/ sx = -1 /\ sy = 0 /\ Dx(g) <= 0
       \/ sx = 0 /\ sy = 1 /\ Dy(g) >= 0
       \/ sx = 0 /\ sy = -1 /\ Dy(g) <= 0
  BY <1>6 DEF Towards
<1>12. Onward(g)
  BY <1>1, <1>5, <1>10, <1>11 DEF Onward
<1> QED BY <1>2, <1>5, <1>6, <1>8, <1>12
-----------------------------------------------------------------------------
\* The six algorithms that restrict turns on meshes.
MeshAlgorithms == {"MESH_XY", "MESH_XY_YX", "MESH_O1TURN", "MESH_WEST_FIRST",
                   "MESH_NORTH_LAST", "MESH_NEGATIVE_FIRST"}

Offers(alg, f) ==
    CASE alg = "MESH_XY"             -> XY(f)
      [] alg = "MESH_XY_YX"          -> XYYX(f)
      [] alg = "MESH_O1TURN"         -> O1TURN(f)
      [] alg = "MESH_WEST_FIRST"     -> WestFirst(f)
      [] alg = "MESH_NORTH_LAST"     -> NorthLast(f)
      [] alg = "MESH_NEGATIVE_FIRST" -> NegativeFirst(f)

\* What an algorithm has made sure of when a packet with columns dx and rows dy
\* left to go has come a step of sx columns and sy rows on virtual channel vc: the
\* turns that it still needs are turns it may take.
Keeps(alg, vc, dx, dy, sx, sy) ==
    CASE alg = "MESH_XY" -> sy # 0 => dx = 0
      [] alg \in {"MESH_XY_YX", "MESH_O1TURN"} -> IF vc = 0 THEN sy # 0 => dx = 0
                                                            ELSE sx # 0 => dy = 0
      [] alg = "MESH_WEST_FIRST" -> sx # -1 => dx >= 0
      [] alg = "MESH_NORTH_LAST" -> sy = 1 => dx = 0
      [] alg = "MESH_NEGATIVE_FIRST" -> sx = 1 \/ sy = 1 => dx >= 0 /\ dy >= 0

\* The step by which a flit came over a link.
Sx(f) == X(f.node) - X(graph[f.node][f.port_in])
Sy(f) == Y(f.node) - Y(graph[f.node][f.port_in])
Local(f) == f.port_in \notin DOMAIN graph[f.node]

\* A flit on its way by algorithm alg.
Good(alg, f) ==
    /\ Onward(f)
    /\ IF Local(f) THEN f.vc = 0 ELSE Keeps(alg, f.vc, Dx(f), Dy(f), Sx(f), Sy(f))

\* An output that an algorithm may offer.
Allowed(alg, f, con, sx, sy) ==
    /\ Towards(f, sx, sy) /\ Leads(f.node, con.port, sx, sy)
    /\ con.vc \in {0, 1} /\ (~Local(f) => con.vc = f.vc)
    /\ Keeps(alg, con.vc, Dx(f) - sx, Dy(f) - sy, sx, sy)

AllAllowed(alg, f, cons) ==
    \A con \in cons : \E sx \in Int, sy \in Int : Allowed(alg, f, con, sx, sy)

\* There is something to offer, and all that is offered is allowed.
Choice(alg, f) == Offers(alg, f) # {} /\ AllAllowed(alg, f, Offers(alg, f))

\* What the algorithm has to make sure of before it sends along a row or a column.
KeepsX(alg, f, vc) == IF Dx(f) > 0 THEN Keeps(alg, vc, Dx(f) - 1, Dy(f), 1, 0)
                      ELSE Keeps(alg, vc, Dx(f) + 1, Dy(f), -1, 0)
KeepsY(alg, f, vc) == IF Dy(f) > 0 THEN Keeps(alg, vc, Dx(f), Dy(f) - 1, 0, 1)
                      ELSE Keeps(alg, vc, Dx(f), Dy(f) + 1, 0, -1)

\* How far there is to go, and which outputs lead there.
Ways(f, vc) ==
    /\ Dx(f) \in Int /\ Dy(f) \in Int /\ (Dx(f) # 0 \/ Dy(f) # 0)
    /\ Dx(f) = 0 => AlongX(f, vc) = {}
    /\ Dx(f) # 0 => AlongX(f, vc) # {}
    /\ Dy(f) = 0 => AlongY(f, vc) = {}
    /\ Dy(f) # 0 => AlongY(f, vc) # {}
    /\ \A con \in AlongX(f, vc) : /\ con.vc = vc
                                  /\ \/ Dx(f) > 0 /\ Leads(f.node, con.port, 1, 0)
                                     \/ Dx(f) < 0 /\ Leads(f.node, con.port, -1, 0)
    /\ \A con \in AlongY(f, vc) : /\ con.vc = vc
                                  /\ \/ Dy(f) > 0 /\ Leads(f.node, con.port, 0, 1)
                                     \/ Dy(f) < 0 /\ Leads(f.node, con.port, 0, -1)

LEMMA HasWays ==
  ASSUME IsMesh, NEW f, Onward(f), f.node # f.dst, NEW vc
  PROVE  Ways(f, vc)
<1>1. f.node \in Nodes /\ f.dst \in Nodes
  BY DEF Onward
<1>2. Dx(f) # 0 \/ Dy(f) # 0
  <2>1. /\ X(f.node) \in Int /\ Y(f.node) \in Int /\ X(f.dst) \in Int /\ Y(f.dst) \in Int
        /\ f.node = X(f.node) + Y(f.node) * width /\ f.dst = X(f.dst) + Y(f.dst) * width
    BY <1>1, NodeXY
  <2>2. X(f.node) # X(f.dst) \/ Y(f.node) # Y(f.dst)
    BY <2>1
  <2> QED BY <2>1, <2>2 DEF Dx, Dy
<1> QED BY <1>1, <1>2, AlongLeads DEF Ways

\* A step along a row or a column is allowed if the algorithm keeps its promise.
LEMMA AllowedStep ==
  ASSUME NEW alg, NEW f, NEW vc \in {0, 1}, ~Local(f) => vc = f.vc, Ways(f, vc)
  PROVE  /\ KeepsX(alg, f, vc) => AllAllowed(alg, f, AlongX(f, vc))
         /\ KeepsY(alg, f, vc) => AllAllowed(alg, f, AlongY(f, vc))
<1>1. Dx(f) \in Int /\ Dy(f) \in Int
  BY DEF Ways
<1>2. Dx(f) - 0 = Dx(f) /\ Dy(f) - 0 = Dy(f) /\ Dx(f) - -1 = Dx(f) + 1 /\ Dy(f) - -1 = Dy(f) + 1
  BY <1>1
<1>3. ASSUME NEW con \in AlongX(f, vc), Dx(f) > 0, Keeps(alg, vc, Dx(f) - 1, Dy(f), 1, 0)
      PROVE  Allowed(alg, f, con, 1, 0)
  <2>1. con.vc = vc /\ Leads(f.node, con.port, 1, 0) /\ Towards(f, 1, 0)
    BY <1>1, <1>3 DEF Ways, Towards
  <2> QED BY <1>2, <1>3, <2>1, Zenon DEF Allowed
<1>4. ASSUME NEW con \in AlongX(f, vc), ~(Dx(f) > 0), Keeps(alg, vc, Dx(f) + 1, Dy(f), -1, 0)
      PROVE  Allowed(alg, f, con, -1, 0)
  <2>1. con.vc = vc /\ Leads(f.node, con.port, -1, 0) /\ Towards(f, -1, 0)
    BY <1>1, <1>4 DEF Ways, Towards
  <2> QED BY <1>2, <1>4, <2>1, Zenon DEF Allowed
<1>5. ASSUME NEW con \in AlongY(f, vc), Dy(f) > 0, Keeps(alg, vc, Dx(f), Dy(f) - 1, 0, 1)
      PROVE  Allowed(alg, f, con, 0, 1)
  <2>1. con.vc = vc /\ Leads(f.node, con.port, 0, 1) /\ Towards(f, 0, 1)
    BY <1>1, <1>5 DEF Ways, Towards
  <2> QED BY <1>2, <1>5, <2>1, Zenon DEF Allowed
<1>6. ASSUME NEW con \in AlongY(f, vc), ~(Dy(f) > 0), Keeps(alg, vc, Dx(f), Dy(f) + 1, 0, -1)
      PROVE  Allowed(alg, f, con, 0, -1)
  <2>1. con.vc = vc /\ Leads(f.node, con.port, 0, -1) /\ Towards(f, 0, -1)
    BY <1>1, <1>6 DEF Ways, Towards
  <2> QED BY <1>2, <1>6, <2>1, Zenon DEF Allowed
<1>7. 1 \in Int /\ 0 \in Int /\ -1 \in Int
  OBVIOUS
<1> QED BY <1>3, <1>4, <1>5, <1>6, <1>7, Zenon DEF KeepsX, KeepsY, AllAllowed
LEMMA KeepsBy ==
  ASSUME NEW vc, NEW dx, NEW dy, NEW sx, NEW sy
  PROVE  /\ Keeps("MESH_XY", vc, dx, dy, sx, sy) <=> (sy # 0 => dx = 0)
         /\ \A alg \in {"MESH_XY_YX", "MESH_O1TURN"} :
               Keeps(alg, vc, dx, dy, sx, sy) <=> IF vc = 0 THEN sy # 0 => dx = 0 ELSE sx # 0 => dy = 0
         /\ Keeps("MESH_WEST_FIRST", vc, dx, dy, sx, sy) <=> (sx # -1 => dx >= 0)
         /\ Keeps("MESH_NORTH_LAST", vc, dx, dy, sx, sy) <=> (sy = 1 => dx = 0)
         /\ Keeps("MESH_NEGATIVE_FIRST", vc, dx, dy, sx, sy) =
               (sx = 1 \/ sy = 1 => dx >= 0 /\ dy >= 0)
<1>1. ASSUME NEW alg \in {"MESH_XY_YX", "MESH_O1TURN"}
      PROVE  Keeps(alg, vc, dx, dy, sx, sy) <=> IF vc = 0 THEN sy # 0 => dx = 0 ELSE sx # 0 => dy = 0
  <2>1. alg # "MESH_XY"
    OBVIOUS
  <2> QED BY <2>1, Zenon DEF Keeps
<1> QED BY <1>1 DEF Keeps

LEMMA NegativeKeeps ==
  ASSUME NEW vc, NEW dx \in Int, NEW dy \in Int, dx >= 0 /\ dy >= 0
  PROVE  /\ Keeps("MESH_NEGATIVE_FIRST", vc, dx, dy, 1, 0)
         /\ Keeps("MESH_NEGATIVE_FIRST", vc, dx, dy, 0, 1)
BY DEF Keeps

LEMMA NegativeFree ==
  ASSUME NEW vc, NEW dx, NEW dy
  PROVE  /\ Keeps("MESH_NEGATIVE_FIRST", vc, dx, dy, -1, 0)
         /\ Keeps("MESH_NEGATIVE_FIRST", vc, dx, dy, 0, -1)
<1>1. -1 # 1 /\ 0 # 1
  OBVIOUS
<1> QED BY <1>1 DEF Keeps

LEMMA ChoiceXThenY ==
  ASSUME NEW alg, NEW f, NEW vc \in {0, 1}, ~Local(f) => vc = f.vc, Ways(f, vc),
         alg = "MESH_XY" \/ (alg \in {"MESH_XY_YX", "MESH_O1TURN"} /\ vc = 0)
  PROVE  /\ XThenY(f, vc) # {}
         /\ AllAllowed(alg, f, XThenY(f, vc))
<1>1. Dx(f) \in Int /\ Dy(f) \in Int
  BY DEF Ways
<1>2. AllAllowed(alg, f, AlongX(f, vc))
  <2>1. KeepsX(alg, f, vc)
    BY KeepsBy DEF KeepsX
  <2> QED BY <2>1, AllowedStep
<1>3. CASE Dx(f) # 0
  BY <1>2, <1>3 DEF XThenY, Ways
<1>4. CASE Dx(f) = 0
  <2>1. KeepsY(alg, f, vc)
    BY <1>4, KeepsBy DEF KeepsY
  <2>2. AllAllowed(alg, f, AlongY(f, vc))
    BY <2>1, AllowedStep
  <2> QED BY <1>4, <2>2 DEF XThenY, Ways
<1> QED BY <1>3, <1>4

LEMMA ChoiceYThenX ==
  ASSUME NEW alg \in {"MESH_XY_YX", "MESH_O1TURN"}, NEW f, ~Local(f) => f.vc = 1, Ways(f, 1)
  PROVE  /\ YThenX(f, 1) # {}
         /\ AllAllowed(alg, f, YThenX(f, 1))
<1>1. Dx(f) \in Int /\ Dy(f) \in Int
  BY DEF Ways
<1>2. AllAllowed(alg, f, AlongY(f, 1))
  <2>1. KeepsY(alg, f, 1)
    BY KeepsBy DEF KeepsY
  <2> QED BY <2>1, AllowedStep
<1>3. CASE Dy(f) # 0
  BY <1>2, <1>3 DEF YThenX, Ways
<1>4. CASE Dy(f) = 0
  <2>1. KeepsX(alg, f, 1)
    BY <1>4, KeepsBy DEF KeepsX
  <2>2. AllAllowed(alg, f, AlongX(f, 1))
    BY <2>1, AllowedStep
  <2> QED BY <1>4, <2>2 DEF YThenX, Ways
<1> QED BY <1>3, <1>4

\* A flit is in its source if and only if it came from its processor.
LEMMA AtSource ==
  ASSUME IsMesh, NEW f, Onward(f)
  PROVE  Local(f) <=> f.src = f.node
<1>1. ~Local(f) => Gap(f.node, f.dst) < Gap(f.src, f.dst)
  BY DEF Onward, Came, Local
<1>2. Gap(f.node, f.dst) \in Int
  BY GapOf DEF Onward
<1>3. Local(f) => f.src = f.node
  BY DEF Onward, Local, Came
<1> QED BY <1>1, <1>2, <1>3

LEMMA ChoiceXY ==
  ASSUME IsMesh, NEW f, Good("MESH_XY", f), f.node # f.dst
  PROVE  Choice("MESH_XY", f)
<1>1. Ways(f, f.vc) /\ f.vc \in {0, 1}
  BY HasWays DEF Good, Onward
<1> QED BY <1>1, ChoiceXThenY DEF Choice, Offers, XY

LEMMA ChoiceXYYX ==
  ASSUME IsMesh, NEW f, Good("MESH_XY_YX", f), f.node # f.dst
  PROVE  Choice("MESH_XY_YX", f)
<1>1. Onward(f) /\ f.vc \in {0, 1} /\ Ways(f, 0) /\ Ways(f, 1)
  BY HasWays DEF Good, Onward
<1>2. Local(f) <=> f.src = f.node
  BY <1>1, AtSource
<1>3. PICK vc \in {0, 1} : /\ ~Local(f) => vc = f.vc
                           /\ XYYX(f) = IF vc = 0 THEN XThenY(f, vc) ELSE YThenX(f, vc)
  BY <1>1, <1>2 DEF XYYX
<1>4. CASE vc = 0
  BY <1>1, <1>3, <1>4, ChoiceXThenY DEF Choice, Offers
<1>5. CASE vc = 1
  BY <1>1, <1>3, <1>5, ChoiceYThenX DEF Choice, Offers
<1> QED BY <1>4, <1>5

LEMMA ChoiceO1TURN ==
  ASSUME IsMesh, NEW f, Good("MESH_O1TURN", f), f.node # f.dst
  PROVE  Choice("MESH_O1TURN", f)
<1>1. Onward(f) /\ f.vc \in {0, 1} /\ Ways(f, 0) /\ Ways(f, 1)
  BY HasWays DEF Good, Onward
<1>2. Local(f) <=> f.src = f.node
  BY <1>1, AtSource
<1> DEFINE V == IF f.src = f.node THEN {0, 1} ELSE {f.vc}
           by(vc) == IF vc = 0 THEN XThenY(f, vc) ELSE YThenX(f, vc)
<1>3. ASSUME NEW vc \in V
      PROVE  by(vc) # {} /\ AllAllowed("MESH_O1TURN", f, by(vc))
  <2>1. vc \in {0, 1} /\ (~Local(f) => vc = f.vc)
    BY <1>1, <1>2
  <2>2. CASE vc = 0
    BY <1>1, <2>1, <2>2, ChoiceXThenY
  <2>3. CASE vc = 1
    BY <1>1, <2>1, <2>3, ChoiceYThenX
  <2> QED BY <2>1, <2>2, <2>3
<1>4. Offers("MESH_O1TURN", f) = UNION {by(vc) : vc \in V}
  BY DEF Offers, O1TURN
<1>5. f.vc \in V
  BY <1>1
<1> HIDE DEF V, by
<1>6. Offers("MESH_O1TURN", f) # {}
  BY <1>3, <1>4, <1>5
<1>7. \A con \in Offers("MESH_O1TURN", f) : \E vc \in V : con \in by(vc)
  BY <1>4
<1> QED BY <1>3, <1>6, <1>7 DEF Choice, AllAllowed

LEMMA ChoiceWestFirst ==
  ASSUME IsMesh, NEW f, Good("MESH_WEST_FIRST", f), f.node # f.dst
  PROVE  Choice("MESH_WEST_FIRST", f)
<1> DEFINE alg == "MESH_WEST_FIRST"
<1>1. Ways(f, f.vc) /\ f.vc \in {0, 1}
  BY HasWays DEF Good, Onward
<1>2. Dx(f) \in Int /\ Dy(f) \in Int
  BY <1>1 DEF Ways
<1>3. AllAllowed(alg, f, AlongX(f, f.vc))
  <2>1. KeepsX(alg, f, f.vc)
    BY <1>2, KeepsBy DEF KeepsX
  <2> HIDE DEF alg
  <2> QED BY <1>1, <2>1, AllowedStep
<1>4. CASE Dx(f) < 0
  BY <1>1, <1>2, <1>3, <1>4 DEF Choice, Offers, WestFirst, Ways
<1>5. CASE ~(Dx(f) < 0)
  <2>1. AllAllowed(alg, f, AlongY(f, f.vc))
    <3>1. KeepsY(alg, f, f.vc)
      BY <1>2, <1>5, KeepsBy DEF KeepsY
    <3> HIDE DEF alg
    <3> QED BY <1>1, <3>1, AllowedStep
  <2>2. Offers(alg, f) = AlongX(f, f.vc) \cup AlongY(f, f.vc)
    BY <1>5 DEF Offers, WestFirst
  <2> QED BY <1>1, <1>3, <2>1, <2>2 DEF Choice, Ways, AllAllowed
<1> QED BY <1>4, <1>5

LEMMA ChoiceNorthLast ==
  ASSUME IsMesh, NEW f, Good("MESH_NORTH_LAST", f), f.node # f.dst
  PROVE  Choice("MESH_NORTH_LAST", f)
<1> DEFINE alg == "MESH_NORTH_LAST"
           before == AlongX(f, f.vc) \cup (IF Dy(f) < 0 THEN AlongY(f, f.vc) ELSE {})
<1>1. Ways(f, f.vc) /\ f.vc \in {0, 1}
  BY HasWays DEF Good, Onward
<1>2. Dx(f) \in Int /\ Dy(f) \in Int
  BY <1>1 DEF Ways
<1>3. AllAllowed(alg, f, AlongX(f, f.vc))
  <2>1. KeepsX(alg, f, f.vc)
    BY <1>2, KeepsBy DEF KeepsX
  <2> HIDE DEF alg
  <2> QED BY <1>1, <2>1, AllowedStep
<1>4. Dy(f) < 0 \/ Dx(f) = 0 =>
        AllAllowed(alg, f, AlongY(f, f.vc))
  <2>1. Dy(f) < 0 \/ Dx(f) = 0 => KeepsY(alg, f, f.vc)
    BY <1>2, KeepsBy DEF KeepsY
  <2> HIDE DEF alg
  <2> QED BY <1>1, <2>1, AllowedStep
<1>5. Offers(alg, f) = IF before = {} THEN AlongY(f, f.vc) ELSE before
  BY DEF Offers, NorthLast
<1>6. CASE before = {}
  <2>1. Dx(f) = 0 /\ Dy(f) # 0
    BY <1>1, <1>2, <1>6 DEF Ways
  <2> QED BY <1>1, <1>4, <1>5, <1>6, <2>1 DEF Choice, Ways, AllAllowed
<1>7. CASE before # {}
  BY <1>3, <1>4, <1>5, <1>7 DEF Choice, AllAllowed
<1> QED BY <1>6, <1>7

LEMMA ChoiceNegativeFirst ==
  ASSUME IsMesh, NEW f, Good("MESH_NEGATIVE_FIRST", f), f.node # f.dst
  PROVE  Choice("MESH_NEGATIVE_FIRST", f)
<1> DEFINE alg == "MESH_NEGATIVE_FIRST"
           ax == AlongX(f, f.vc)
           ay == AlongY(f, f.vc)
<1>1. Ways(f, f.vc) /\ f.vc \in {0, 1}
  BY HasWays DEF Good, Onward
<1>2. Dx(f) \in Int /\ Dy(f) \in Int
  BY <1>1 DEF Ways
<1>3. Dx(f) < 0 \/ (Dx(f) >= 0 /\ Dy(f) >= 0) =>
        AllAllowed(alg, f, ax)
  <2>1. (Dx(f) < 0 \/ (Dx(f) >= 0 /\ Dy(f) >= 0)) /\ Dx(f) # 0 => KeepsX(alg, f, f.vc)
    <3>1. Dx(f) >= 0 /\ Dy(f) >= 0 /\ Dx(f) > 0 => Keeps(alg, f.vc, Dx(f) - 1, Dy(f), 1, 0)
      BY <1>2, NegativeKeeps
    <3>2. Keeps(alg, f.vc, Dx(f) + 1, Dy(f), -1, 0)
      BY NegativeFree
    <3> HIDE DEF alg
    <3> QED BY <1>2, <3>1, <3>2 DEF KeepsX
  <2>2. Dx(f) = 0 => AllAllowed(alg, f, ax)
    BY <1>1 DEF Ways, AllAllowed
  <2> HIDE DEF alg
  <2> QED BY <1>1, <2>1, <2>2, AllowedStep
<1>4. Dy(f) < 0 \/ (Dx(f) >= 0 /\ Dy(f) >= 0) =>
        AllAllowed(alg, f, ay)
  <2>1. (Dy(f) < 0 \/ (Dx(f) >= 0 /\ Dy(f) >= 0)) /\ Dy(f) # 0 => KeepsY(alg, f, f.vc)
    <3>1. Dx(f) >= 0 /\ Dy(f) >= 0 /\ Dy(f) > 0 => Keeps(alg, f.vc, Dx(f), Dy(f) - 1, 0, 1)
      BY <1>2, NegativeKeeps
    <3>2. Keeps(alg, f.vc, Dx(f), Dy(f) + 1, 0, -1)
      BY NegativeFree
    <3> HIDE DEF alg
    <3> QED BY <1>2, <3>1, <3>2 DEF KeepsY
  <2>2. Dy(f) = 0 => AllAllowed(alg, f, ay)
    BY <1>1 DEF Ways, AllAllowed
  <2> HIDE DEF alg
  <2> QED BY <1>1, <2>1, <2>2, AllowedStep
<1>5. Offers(alg, f) = (IF Dx(f) < 0 THEN ax ELSE {}) \cup (IF Dy(f) < 0 THEN ay ELSE {})
                       \cup (IF Dx(f) >= 0 /\ Dy(f) >= 0 THEN ax \cup ay ELSE {})
  BY DEF Offers, NegativeFirst
<1>6. (Dx(f) # 0 => ax # {}) /\ (Dy(f) # 0 => ay # {}) /\ (Dx(f) # 0 \/ Dy(f) # 0)
  BY <1>1 DEF Ways
<1> HIDE DEF ax, ay, alg
<1>7. CASE Dx(f) < 0
  BY <1>2, <1>3, <1>4, <1>5, <1>6, <1>7 DEF Choice, AllAllowed, alg
<1>8. CASE Dy(f) < 0
  BY <1>2, <1>3, <1>4, <1>5, <1>6, <1>8 DEF Choice, AllAllowed, alg
<1>9. CASE Dx(f) >= 0 /\ Dy(f) >= 0
  BY <1>2, <1>3, <1>4, <1>5, <1>6, <1>9 DEF Choice, AllAllowed, alg
<1> QED BY <1>2, <1>7, <1>8, <1>9 DEF alg
-----------------------------------------------------------------------------
\* The buffers have an order that every hop descends: a level for the turns that an
\* algorithm still allows, and within a level the way there is to go on in the same
\* direction.  A packet that has come a step of sx columns and sy rows to column x
\* and row y on virtual channel v is on this level.
Level(alg, v, x, y, sx, sy) ==
    CASE alg = "MESH_XY" -> IF sy # 0 THEN 0 ELSE 1
      [] alg \in {"MESH_XY_YX", "MESH_O1TURN"} -> IF v = 0 THEN (IF sy # 0 THEN 0 ELSE 1)
                                                            ELSE (IF sx # 0 THEN 0 ELSE 1)
      [] alg = "MESH_WEST_FIRST" -> IF sx = -1 THEN width + 1 ELSE width - x
      [] alg = "MESH_NORTH_LAST" -> IF sy = 1 THEN 0 ELSE 1 + y
      [] alg = "MESH_NEGATIVE_FIRST" -> IF sx = -1 \/ sy = -1 THEN 2 ELSE 1

ToBorder(x, y, sx, sy) == IF sx = 1 THEN width - x ELSE IF sx = -1 THEN x
                          ELSE IF sy = 1 THEN height - y ELSE y

Place(alg, x, y, sx, sy) ==
    CASE alg = "MESH_WEST_FIRST" -> IF sx = 1 THEN height + 1 ELSE ToBorder(x, y, sx, sy)
      [] alg = "MESH_NORTH_LAST" -> IF sy = -1 THEN width + 1 ELSE ToBorder(x, y, sx, sy)
      [] alg = "MESH_NEGATIVE_FIRST" -> IF sx = -1 \/ sy = -1 THEN x + y
                                        ELSE (width - x) + (height - y)
      [] OTHER -> ToBorder(x, y, sx, sy)

Most == width + height + 3
Rank(alg, n, p, v) ==
    IF p \notin DOMAIN graph[n] THEN Most * Most
    ELSE LET sx == X(n) - X(graph[n][p])
             sy == Y(n) - Y(graph[n][p])
         IN  Level(alg, v, X(n), Y(n), sx, sy) * Most + Place(alg, X(n), Y(n), sx, sy)
RankOf(alg, f) == Rank(alg, f.node, f.port_in, f.vc)

IsUnit(sx, sy) == (sx = 1 /\ sy = 0) \/ (sx = -1 /\ sy = 0) \/ (sx = 0 /\ sy = 1) \/ (sx = 0 /\ sy = -1)
IsAt(x, y) == x \in 0 .. width - 1 /\ y \in 0 .. height - 1

LEMMA RankInside ==
  ASSUME IsMesh, NEW alg \in MeshAlgorithms, NEW v, NEW x, NEW y, IsAt(x, y), NEW sx, NEW sy, IsUnit(sx, sy)
  PROVE  /\ Level(alg, v, x, y, sx, sy) \in 0 .. Most - 1
         /\ Place(alg, x, y, sx, sy) \in 0 .. Most - 1
<1>1. width \in Int /\ width > 0 /\ height \in Int /\ height > 0 /\ x \in 0 .. width - 1 /\ y \in 0 .. height - 1
  BY DEF IsMesh, IsAt
<1>2. ToBorder(x, y, sx, sy) \in 0 .. width + height
  BY <1>1 DEF ToBorder, IsUnit
<1>3. CASE alg = "MESH_XY"
  BY <1>1, <1>2, <1>3 DEF Level, Place, Most
<1>4. CASE alg \in {"MESH_XY_YX", "MESH_O1TURN"}
  <2>1. alg # "MESH_XY" /\ alg # "MESH_WEST_FIRST" /\ alg # "MESH_NORTH_LAST" /\ alg # "MESH_NEGATIVE_FIRST"
    BY <1>4
  <2> QED BY <1>1, <1>2, <1>4, <2>1 DEF Level, Place, Most
<1>5. CASE alg = "MESH_WEST_FIRST"
  BY <1>1, <1>2, <1>5 DEF Level, Place, Most
<1>6. CASE alg = "MESH_NORTH_LAST"
  BY <1>1, <1>2, <1>6 DEF Level, Place, Most
<1>7. CASE alg = "MESH_NEGATIVE_FIRST"
  BY <1>1, <1>2, <1>7 DEF Level, Place, Most
<1> QED BY <1>3, <1>4, <1>5, <1>6, <1>7 DEF MeshAlgorithms

\* One after the other in the order: level a and place b, then level c and place d.
Below(c, d, a, b) == c < a \/ (c = a /\ d < b)

\* A step in direction ox, oy was followed by one in direction sx, sy, when there
\* were dx columns and dy rows to go.
IsTurn(dx, dy, ox, oy, sx, sy) ==
    /\ dx \in Int /\ dy \in Int
    /\ \/ ox = 1 /\ oy = 0 /\ dx >= 0
       \/ ox = -1 /\ oy = 0 /\ dx <= 0
       \/ ox = 0 /\ oy = 1 /\ dy >= 0
       \/ ox = 0 /\ oy = -1 /\ dy <= 0
    /\ \/ sx = 1 /\ sy = 0 /\ dx > 0
       \/ sx = -1 /\ sy = 0 /\ dx < 0
       \/ sx = 0 /\ sy = 1 /\ dy > 0
       \/ sx = 0 /\ sy = -1 /\ dy < 0

LEMMA TurnDescends ==
  ASSUME IsMesh, NEW alg \in MeshAlgorithms, NEW v \in {0, 1}, NEW x, NEW y, IsAt(x, y),
         NEW dx, NEW dy, NEW ox, NEW oy, NEW sx, NEW sy, IsTurn(dx, dy, ox, oy, sx, sy),
         IsAt(x + sx, y + sy), Keeps(alg, v, dx, dy, ox, oy), Keeps(alg, v, dx - sx, dy - sy, sx, sy)
  PROVE  Below(Level(alg, v, x + sx, y + sy, sx, sy), Place(alg, x + sx, y + sy, sx, sy),
               Level(alg, v, x, y, ox, oy), Place(alg, x, y, ox, oy))
<1>1. /\ width \in Int /\ width > 0 /\ height \in Int /\ height > 0
      /\ x \in 0 .. width - 1 /\ y \in 0 .. height - 1
      /\ x + sx \in 0 .. width - 1 /\ y + sy \in 0 .. height - 1
      /\ dx \in Int /\ dy \in Int
  BY DEF IsMesh, IsAt, IsTurn
<1>2. CASE alg = "MESH_XY"
  BY <1>1, <1>2 DEF Level, Place, ToBorder, Below, IsTurn, Keeps
<1>3. CASE alg \in {"MESH_XY_YX", "MESH_O1TURN"}
  <2>1. alg # "MESH_XY" /\ alg # "MESH_WEST_FIRST" /\ alg # "MESH_NORTH_LAST" /\ alg # "MESH_NEGATIVE_FIRST"
    BY <1>3
  <2>2. IF v = 0 THEN oy # 0 => dx = 0 ELSE ox # 0 => dy = 0
    BY <1>3, KeepsBy
  <2>3. IF v = 0 THEN sy # 0 => dx - sx = 0 ELSE sx # 0 => dy - sy = 0
    BY <1>3, KeepsBy
  <2>4. /\ Level(alg, v, x + sx, y + sy, sx, sy) = IF v = 0 THEN (IF sy # 0 THEN 0 ELSE 1)
                                                            ELSE (IF sx # 0 THEN 0 ELSE 1)
        /\ Level(alg, v, x, y, ox, oy) = IF v = 0 THEN (IF oy # 0 THEN 0 ELSE 1)
                                                  ELSE (IF ox # 0 THEN 0 ELSE 1)
        /\ Place(alg, x + sx, y + sy, sx, sy) = ToBorder(x + sx, y + sy, sx, sy)
        /\ Place(alg, x, y, ox, oy) = ToBorder(x, y, ox, oy)
    BY <1>3, <2>1, Zenon DEF Level, Place
  <2>5. CASE v = 0
    BY <1>1, <2>2, <2>3, <2>4, <2>5 DEF ToBorder, Below, IsTurn
  <2>6. CASE v = 1
    BY <1>1, <2>2, <2>3, <2>4, <2>6 DEF ToBorder, Below, IsTurn
  <2> QED BY <2>5, <2>6
<1>4. CASE alg = "MESH_WEST_FIRST"
  BY <1>1, <1>4 DEF Level, Place, ToBorder, Below, IsTurn, Keeps
<1>5. CASE alg = "MESH_NORTH_LAST"
  BY <1>1, <1>5 DEF Level, Place, ToBorder, Below, IsTurn, Keeps
<1>6. CASE alg = "MESH_NEGATIVE_FIRST"
  BY <1>1, <1>6 DEF Level, Place, ToBorder, Below, IsTurn, Keeps
<1> QED BY <1>2, <1>3, <1>4, <1>5, <1>6 DEF MeshAlgorithms

LEMMA BelowIsLess ==
  ASSUME NEW m \in Int, NEW a \in 0 .. m - 1, NEW b \in 0 .. m - 1, NEW c \in 0 .. m - 1, NEW d \in 0 .. m - 1
  PROVE  /\ a * m + b \in Nat /\ a * m + b < m * m
         /\ Below(c, d, a, b) => c * m + d < a * m + b
<1>1. a * m \in Int /\ c * m \in Int /\ m * m \in Int /\ a * m >= 0
  OBVIOUS
<1>2. a * m <= (m - 1) * m /\ (m - 1) * m = m * m - m
  OBVIOUS
<1>3. c < a => c * m <= (a - 1) * m /\ (a - 1) * m = a * m - m
  OBVIOUS
<1> QED BY <1>1, <1>2, <1>3 DEF Below
\* A flit that has come over a link has come by a step of one column or one row.
LEMMA GoodTurn ==
  ASSUME IsMesh, NEW f, Onward(f), ~Local(f)
  PROVE  /\ IsUnit(Sx(f), Sy(f))
         /\ \/ Sx(f) = 1 /\ Sy(f) = 0 /\ Dx(f) >= 0
            \/ Sx(f) = -1 /\ Sy(f) = 0 /\ Dx(f) <= 0
            \/ Sx(f) = 0 /\ Sy(f) = 1 /\ Dy(f) >= 0
            \/ Sx(f) = 0 /\ Sy(f) = -1 /\ Dy(f) <= 0
<1>1. f.port_in \in DOMAIN graph[f.node] /\ f.node \in Nodes
  BY DEF Local, Onward
<1>2. ASSUME NEW sx \in Int, NEW sy \in Int, Came(f.node, f.port_in, sx, sy) PROVE Sx(f) = sx /\ Sy(f) = sy
  <2> DEFINE m == graph[f.node][f.port_in]
  <2>1. /\ X(f.node) \in Int /\ Y(f.node) \in Int /\ X(m) = X(f.node) - sx /\ Y(m) = Y(f.node) - sy
    BY <1>1, <1>2, NodeXY DEF Came
  <2>2. Sx(f) = X(f.node) - X(m) /\ Sy(f) = Y(f.node) - Y(m)
    BY DEF Sx, Sy
  <2> HIDE DEF m
  <2> QED BY <2>1, <2>2
<1>3. 1 \in Int /\ 0 \in Int /\ -1 \in Int
  OBVIOUS
<1> QED BY <1>1, <1>2, <1>3 DEF Onward, IsUnit

\* A hop that the algorithm may offer keeps its promise, brings the flit nearer and
\* descends in the order of the buffers.
LEMMA HopGood ==
  ASSUME IsMesh, NEW alg \in MeshAlgorithms, NEW f, Good(alg, f), NEW con, NEW sx, NEW sy,
         Allowed(alg, f, con, sx, sy), NEW g, Becomes(f, con, g)
  PROVE  /\ Good(alg, g) /\ ~Local(g) /\ Gap(g.node, g.dst) = Gap(f.node, f.dst) - 1
         /\ RankOf(alg, g) \in Nat /\ RankOf(alg, f) \in Nat /\ RankOf(alg, g) < RankOf(alg, f)
<1>1. Onward(f) /\ con.vc \in {0, 1} /\ Towards(f, sx, sy) /\ Leads(f.node, con.port, sx, sy)
  BY DEF Good, Allowed
<1>2. /\ Onward(g) /\ Gap(g.node, g.dst) = Gap(f.node, f.dst) - 1
      /\ Came(g.node, g.port_in, sx, sy)
      /\ Dx(g) = Dx(f) - sx /\ Dy(g) = Dy(f) - sy
      /\ X(g.node) = X(f.node) + sx /\ Y(g.node) = Y(f.node) + sy
  BY <1>1, HopOnward
<1>3. ~Local(g) /\ g.vc = con.vc
  BY DEF Local, Becomes
<1> DEFINE x == X(f.node)
           y == Y(f.node)
<1>4. /\ f.node \in Nodes /\ f.dst \in Nodes /\ g.node \in Nodes
      /\ IsAt(x, y) /\ IsAt(x + sx, y + sy) /\ x \in Int /\ y \in Int
      /\ sx \in Int /\ sy \in Int /\ IsUnit(sx, sy) /\ Dx(f) \in Int /\ Dy(f) \in Int
  <2>1. f.node \in Nodes /\ f.dst \in Nodes /\ g.node \in Nodes
    BY <1>1, <1>2 DEF Onward
  <2>2. sx \in Int /\ sy \in Int /\ IsUnit(sx, sy)
    BY <1>1 DEF Towards, IsUnit
  <2>3. /\ x \in 0 .. width - 1 /\ y \in 0 .. height - 1
        /\ x + sx \in 0 .. width - 1 /\ y + sy \in 0 .. height - 1
        /\ X(f.dst) \in 0 .. width - 1 /\ Y(f.dst) \in 0 .. height - 1
        /\ width \in Int /\ height \in Int
    BY <1>2, <2>1, NodeXY DEF IsMesh
  <2>4. x \in Int /\ y \in Int /\ Dx(f) \in Int /\ Dy(f) \in Int
    BY <2>3 DEF Dx, Dy
  <2> QED BY <2>1, <2>2, <2>3, <2>4 DEF IsAt
<1>5. Sx(g) = sx /\ Sy(g) = sy
  <2> DEFINE m == graph[g.node][g.port_in]
  <2>1. X(m) = X(g.node) - sx /\ Y(m) = Y(g.node) - sy
    BY <1>2 DEF Came
  <2>2. Sx(g) = X(g.node) - X(m) /\ Sy(g) = Y(g.node) - Y(m)
    BY DEF Sx, Sy
  <2>3. X(g.node) = x + sx /\ Y(g.node) = y + sy
    BY <1>2
  <2> HIDE DEF m, x, y
  <2> QED BY <1>4, <2>1, <2>2, <2>3
<1>6. Good(alg, g)
  <2>1. Keeps(alg, g.vc, Dx(g), Dy(g), Sx(g), Sy(g))
    BY <1>2, <1>3, <1>5 DEF Allowed
  <2> QED BY <1>2, <1>3, <2>1 DEF Good
<1> DEFINE c == Level(alg, con.vc, x + sx, y + sy, sx, sy)
           d == Place(alg, x + sx, y + sy, sx, sy)
<1>7. RankOf(alg, g) = c * Most + d
  <2>1. g.port_in \in DOMAIN graph[g.node]
    BY <1>3 DEF Local
  <2>2. RankOf(alg, g) = Level(alg, g.vc, X(g.node), Y(g.node), Sx(g), Sy(g)) * Most
                         + Place(alg, X(g.node), Y(g.node), Sx(g), Sy(g))
    BY <2>1 DEF RankOf, Rank, Sx, Sy
  <2> QED BY <1>2, <1>3, <1>5, <2>2
<1>8. c \in 0 .. Most - 1 /\ d \in 0 .. Most - 1 /\ Most \in Int
  BY <1>4, RankInside DEF Most, IsMesh
<1>9. CASE Local(f)
  <2>1. RankOf(alg, f) = Most * Most
    BY <1>9 DEF RankOf, Rank, Local
  <2> HIDE DEF c, d
  <2>2. Most * Most \in Nat
    BY <1>8
  <2>3. c * Most + d \in Nat /\ c * Most + d < Most * Most
    BY <1>8, BelowIsLess
  <2> QED BY <1>2, <1>3, <1>6, <1>7, <2>1, <2>2, <2>3
<1>10. CASE ~Local(f)
  <2> DEFINE a == Level(alg, con.vc, x, y, Sx(f), Sy(f))
             b == Place(alg, x, y, Sx(f), Sy(f))
  <2>1. con.vc = f.vc
    BY <1>10 DEF Allowed
  <2>2. RankOf(alg, f) = a * Most + b
    BY <1>10, <2>1 DEF RankOf, Rank, Local, Sx, Sy
  <2>3. IsUnit(Sx(f), Sy(f)) /\ IsTurn(Dx(f), Dy(f), Sx(f), Sy(f), sx, sy)
    BY <1>1, <1>4, <1>10, GoodTurn DEF IsTurn, Towards
  <2>4. a \in 0 .. Most - 1 /\ b \in 0 .. Most - 1
    BY <1>4, <2>3, RankInside
  <2>5. Keeps(alg, con.vc, Dx(f), Dy(f), Sx(f), Sy(f)) /\ Keeps(alg, con.vc, Dx(f) - sx, Dy(f) - sy, sx, sy)
    BY <1>10, <2>1 DEF Good, Allowed
  <2>6. Below(c, d, a, b)
    BY <1>1, <1>4, <2>3, <2>5, TurnDescends
  <2> HIDE DEF a, b, c, d
  <2>7. a * Most + b \in Nat /\ c * Most + d \in Nat /\ c * Most + d < a * Most + b
    BY <1>8, <2>4, <2>6, BelowIsLess
  <2> QED BY <1>2, <1>3, <1>6, <1>7, <2>2, <2>7
<1> QED BY <1>9, <1>10

\* Each of the six algorithms always has an output to offer.
LEMMA HasChoice ==
  ASSUME IsMesh, NEW alg \in MeshAlgorithms, NEW f, Good(alg, f), f.node # f.dst
  PROVE  Choice(alg, f)
BY ChoiceXY, ChoiceXYYX, ChoiceO1TURN, ChoiceWestFirst, ChoiceNorthLast, ChoiceNegativeFirst
   DEF MeshAlgorithms
LEMMA RankBound ==
  ASSUME IsMesh, NEW alg \in MeshAlgorithms, NEW f, Good(alg, f)
  PROVE  RankOf(alg, f) \in 0 .. Most * Most /\ Most * Most \in Nat
<1>1. Most \in Int /\ Most > 0 /\ Most * Most \in Nat
  BY DEF Most, IsMesh
<1>2. CASE Local(f)
  <2>1. RankOf(alg, f) = Most * Most
    BY <1>2 DEF RankOf, Rank, Local
  <2> QED BY <1>1, <2>1
<1>3. CASE ~Local(f)
  <2> DEFINE a == Level(alg, f.vc, X(f.node), Y(f.node), Sx(f), Sy(f))
             b == Place(alg, X(f.node), Y(f.node), Sx(f), Sy(f))
  <2>1. RankOf(alg, f) = a * Most + b
    BY <1>3 DEF RankOf, Rank, Local, Sx, Sy
  <2>2. IsAt(X(f.node), Y(f.node)) /\ IsUnit(Sx(f), Sy(f))
    BY <1>3, NodeXY, GoodTurn DEF Good, Onward, IsAt
  <2>3. a \in 0 .. Most - 1 /\ b \in 0 .. Most - 1
    BY <2>2, RankInside
  <2> HIDE DEF a, b
  <2>4. a * Most + b \in Nat /\ a * Most + b < Most * Most
    BY <1>1, <2>3, BelowIsLess
  <2> QED BY <1>1, <2>1, <2>4
<1> QED BY <1>2, <1>3

\* Whatever an algorithm offers leads to a neighbour.
Valid(f, cons) == \A con \in cons : con.vc \in {0, 1} /\ con.port \in DOMAIN graph[f.node]

LEMMA OffersValid ==
  ASSUME IsMesh, NEW alg \in MeshAlgorithms, NEW f, f.node \in Nodes, f.dst \in Nodes, f.vc \in {0, 1}
  PROVE  Valid(f, Offers(alg, f))
<1>1. ASSUME NEW vc \in {0, 1} PROVE Valid(f, AlongX(f, vc)) /\ Valid(f, AlongY(f, vc))
  BY AlongLeads DEF Valid, Leads
<1>2. ASSUME NEW vc \in {0, 1} PROVE Valid(f, XThenY(f, vc)) /\ Valid(f, YThenX(f, vc))
  BY <1>1 DEF XThenY, YThenX
<1>3. Valid(f, {})
  BY DEF Valid
<1>4. ASSUME NEW a, NEW b, Valid(f, a), Valid(f, b) PROVE Valid(f, a \cup b)
  BY <1>4 DEF Valid
<1>5. Valid(f, XY(f))
  BY <1>2 DEF XY
<1>6. Valid(f, XYYX(f))
  <2>1. PICK vc \in {0, 1} : XYYX(f) = IF vc = 0 THEN XThenY(f, vc) ELSE YThenX(f, vc)
    BY DEF XYYX
  <2> QED BY <1>2, <2>1
<1>7. Valid(f, O1TURN(f))
  <2> DEFINE V == IF f.src = f.node THEN {0, 1} ELSE {f.vc}
             by(vc) == IF vc = 0 THEN XThenY(f, vc) ELSE YThenX(f, vc)
  <2>1. O1TURN(f) = UNION {by(vc) : vc \in V}
    BY DEF O1TURN
  <2>2. \A vc \in V : Valid(f, by(vc))
    BY <1>2
  <2> HIDE DEF V, by
  <2> QED BY <2>1, <2>2 DEF Valid
<1>8. Valid(f, WestFirst(f))
  BY <1>1, <1>4 DEF WestFirst
<1>9. Valid(f, NorthLast(f))
  BY <1>1, <1>3, <1>4 DEF NorthLast
<1>10. Valid(f, NegativeFirst(f))
  <2> DEFINE a == IF Dx(f) < 0 THEN AlongX(f, f.vc) ELSE {}
             b == IF Dy(f) < 0 THEN AlongY(f, f.vc) ELSE {}
             c == IF Dx(f) >= 0 /\ Dy(f) >= 0 THEN AlongX(f, f.vc) \cup AlongY(f, f.vc) ELSE {}
  <2>1. Valid(f, a) /\ Valid(f, b) /\ Valid(f, c)
    BY <1>1, <1>3, <1>4
  <2>2. NegativeFirst(f) = (a \cup b) \cup c
    BY DEF NegativeFirst
  <2> HIDE DEF a, b, c
  <2> QED BY <1>4, <2>1, <2>2
<1> QED BY <1>5, <1>6, <1>7, <1>8, <1>9, <1>10 DEF Offers, MeshAlgorithms

\* The gap between nodes is how far one is from the other on the graph.
LEMMA MeshRange ==
  ASSUME IsMesh, NEW n \in Nodes
  PROVE  graph[n] \in Seq(Nodes) /\ \A m \in Nodes : m \in Range(graph[n]) <=> Gap(n, m) = 1
<1>1. PICK k \in Nat : k > 0 /\ \A a \in Nodes :
        /\ graph[a] \in Seq(Nodes)
        /\ \A b \in Nodes : \E i \in Nat :
              LinksTo(graph, a, b) = IF Gap(a, b) = 1 THEN (i + 1) .. (i + k) ELSE {}
  BY MeshLinks
<1>2. ASSUME NEW m \in Nodes PROVE LinksTo(graph, n, m) # {} <=> Gap(n, m) = 1
  <2>1. PICK i \in Nat : LinksTo(graph, n, m) = IF Gap(n, m) = 1 THEN (i + 1) .. (i + k) ELSE {}
    BY <1>1
  <2>2. i + 1 \in (i + 1) .. (i + k)
    BY <1>1
  <2> QED BY <2>1, <2>2
<1>3. \A m \in Nodes : m \in Range(graph[n]) <=> LinksTo(graph, n, m) # {}
  BY DEF Range, LinksTo
<1> QED BY <1>1, <1>2, <1>3

LEMMA GapSteps ==
  ASSUME IsMesh, NEW n \in Nodes, NEW d \in Nodes
  PROVE  /\ \A m \in Nodes : Gap(n, m) = 1 => Gap(m, d) <= Gap(n, d) + 1
         /\ n # d => \E m \in Nodes : Gap(n, m) = 1 /\ Gap(m, d) = Gap(n, d) - 1
<1>1. \A m \in Nodes : X(m) \in 0 .. width - 1 /\ Y(m) \in 0 .. height - 1 /\ m = X(m) + Y(m) * width
  BY NodeXY
<1>2. \A m \in Nodes : Gap(n, m) = 1 => Gap(m, d) <= Gap(n, d) + 1
  BY <1>1 DEF Gap, Abs
<1>3. ASSUME NEW sx \in Int, NEW sy \in Int, Inside(n, sx, sy),
             Abs(sx) + Abs(sy) = 1, Abs((X(n) + sx) - X(d)) + Abs((Y(n) + sy) - Y(d)) = Gap(n, d) - 1
      PROVE  \E m \in Nodes : Gap(n, m) = 1 /\ Gap(m, d) = Gap(n, d) - 1
  <2> DEFINE m == Beside(n, sx, sy)
  <2>1. m \in Nodes /\ X(m) = X(n) + sx /\ Y(m) = Y(n) + sy
    BY <1>3, Neighbours
  <2> HIDE DEF m
  <2>2. Gap(m, d) = Gap(n, d) - 1
    <3>1. Gap(m, d) = Abs(X(m) - X(d)) + Abs(Y(m) - Y(d))
      BY DEF Gap
    <3> QED BY <1>3, <2>1, <3>1
  <2>3. Gap(n, m) = 1
    BY <1>1, <1>3, <2>1 DEF Gap, Abs
  <2> QED BY <2>1, <2>2, <2>3
<1>4. n # d => X(n) # X(d) \/ Y(n) # Y(d)
  BY <1>1
<1> DEFINE x == X(n)
           y == Y(n)
           u == X(d)
           v == Y(d)
<1>5. /\ x \in 0 .. width - 1 /\ u \in 0 .. width - 1 /\ y \in 0 .. height - 1 /\ v \in 0 .. height - 1
      /\ width \in Int /\ height \in Int
  BY <1>1 DEF IsMesh
<1>11. (\A k \in Int : Abs(k) = IF k < 0 THEN -k ELSE k) /\ Abs(-1) = 1 /\ Abs(1) = 1 /\ Abs(0) = 0
  <2>1. \A k \in Int : Abs(k) = IF k < 0 THEN -k ELSE k
    BY DEF Abs
  <2>2. \A k \in Int : k + 1 = 0 => Abs(k) = 1
    BY <2>1
  <2>3. -1 \in Int /\ (-1) + 1 = 0
    OBVIOUS
  <2> QED BY <2>1, <2>2, <2>3
<1>6. Gap(n, d) = Abs(x - u) + Abs(y - v)
  BY DEF Gap
<1>7. CASE x < u
  <2>1. x + 1 \in 0 .. width - 1 /\ y + 0 \in 0 .. height - 1
    <3> HIDE DEF x, y, u, v
    <3> QED BY <1>5, <1>7
  <2>2. Abs(1) + Abs(0) = 1 /\ Abs((x + 1) - u) + Abs((y + 0) - v) = (Abs(x - u) + Abs(y - v)) - 1
    <3> HIDE DEF x, y, u, v
    <3>1. x - u \in Int /\ y - v \in Int
      BY <1>5
    <3> QED BY <1>5, <1>7, <1>11, <3>1
  <2>3. Inside(n, 1, 0)
    BY <2>1 DEF Inside
  <2> QED BY <1>2, <1>3, <1>6, <2>2, <2>3
<1>8. CASE x > u
  <2>1. x + (-1) \in 0 .. width - 1 /\ y + 0 \in 0 .. height - 1
    <3> HIDE DEF x, y, u, v
    <3> QED BY <1>5, <1>8
  <2>2. Abs(-1) + Abs(0) = 1 /\ Abs((x + (-1)) - u) + Abs((y + 0) - v) = (Abs(x - u) + Abs(y - v)) - 1
    <3> HIDE DEF x, y, u, v
    <3>1. x - u \in Int /\ y - v \in Int
      BY <1>5
    <3> QED BY <1>5, <1>8, <1>11, <3>1
  <2>3. Inside(n, -1, 0)
    BY <2>1 DEF Inside
  <2> QED BY <1>2, <1>3, <1>6, <2>2, <2>3
<1>9. CASE y < v
  <2>1. x + 0 \in 0 .. width - 1 /\ y + 1 \in 0 .. height - 1
    <3> HIDE DEF x, y, u, v
    <3> QED BY <1>5, <1>9
  <2>2. Abs(0) + Abs(1) = 1 /\ Abs((x + 0) - u) + Abs((y + 1) - v) = (Abs(x - u) + Abs(y - v)) - 1
    <3> HIDE DEF x, y, u, v
    <3>1. x - u \in Int /\ y - v \in Int
      BY <1>5
    <3> QED BY <1>5, <1>9, <1>11, <3>1
  <2>3. Inside(n, 0, 1)
    BY <2>1 DEF Inside
  <2> QED BY <1>2, <1>3, <1>6, <2>2, <2>3
<1>10. CASE y > v
  <2>1. x + 0 \in 0 .. width - 1 /\ y + (-1) \in 0 .. height - 1
    <3> HIDE DEF x, y, u, v
    <3> QED BY <1>5, <1>10
  <2>2. Abs(0) + Abs(-1) = 1 /\ Abs((x + 0) - u) + Abs((y + (-1)) - v) = (Abs(x - u) + Abs(y - v)) - 1
    <3> HIDE DEF x, y, u, v
    <3>1. x - u \in Int /\ y - v \in Int
      BY <1>5
    <3> QED BY <1>5, <1>10, <1>11, <3>1
  <2>3. Inside(n, 0, -1)
    BY <2>1 DEF Inside
  <2> QED BY <1>2, <1>3, <1>6, <2>2, <2>3
<1> QED BY <1>2, <1>4, <1>5, <1>7, <1>8, <1>9, <1>10
=============================================================================
