------------------------------ MODULE Ls_proofs ------------------------------
EXTENDS Ls, SequenceTheorems, FiniteSetTheorems, WellFoundedInduction, TLAPS

-----------------------------------------------------------------------------
(* Numbers.                                                                *)

LEMMA Induction ==
    ASSUME NEW S, 0 \in S, \A n \in Nat : n \in S => n + 1 \in S
    PROVE  Nat \subseteq S
<1> SUFFICES ASSUME Nat \ S # {} PROVE FALSE
  OBVIOUS
<1>1. IsWellFoundedOn(OpToRel(<, Nat), Nat)
  BY NatLessThanWellFounded
<1>2. PICK n \in Nat \ S : \A m \in Nat \ S : <<m, n>> \notin OpToRel(<, Nat)
  <2>1. Nat \ S \subseteq Nat /\ Nat \ S # {}
    OBVIOUS
  <2> QED
    BY <1>1, <2>1, WFMin
<1>3. n - 1 \in Nat /\ n - 1 < n /\ (n - 1) + 1 = n
  <2>1. n # 0 /\ n \in Nat
    OBVIOUS
  <2> QED
    BY <2>1
<1>4. n - 1 \in S
  BY <1>2, <1>3 DEF OpToRel
<1> QED
  BY <1>3, <1>4

LEMMA Products ==
    ASSUME NEW x \in Nat, NEW y \in Nat, NEW b \in Nat
    PROVE  /\ x * b \in Nat /\ y * b \in Nat
           /\ x < y => x * b + b <= y * b
           /\ x * b < y * b => x < y
<1>1. ASSUME NEW v \in Nat, NEW w \in Nat, v < w
      PROVE  v * b + b <= w * b
  <2>1. PICK d \in Nat : w = v + 1 + d
    <3>1. w - v - 1 \in Nat /\ w = v + 1 + (w - v - 1)
      BY <1>1
    <3> QED
      BY <3>1
  <2>2. w * b = v * b + b + d * b
    BY <2>1
  <2>3. d * b \in Nat /\ v * b \in Nat
    OBVIOUS
  <2> QED
    BY <2>2, <2>3
<1>2. x * b \in Nat /\ y * b \in Nat
  OBVIOUS
<1>3. y < x => y * b + b <= x * b
  BY <1>1
<1>4. y = x => y * b = x * b
  OBVIOUS
<1> QED
  BY <1>1, <1>2, <1>3, <1>4

LEMMA Division ==
    ASSUME NEW a \in Nat, NEW b \in Nat \ {0}
    PROVE  /\ a \div b \in Nat /\ a % b \in 0..(b - 1)
           /\ a = (a \div b) * b + (a % b)
<1>1. a \div b \in Nat /\ a % b \in 0..(b - 1)
  OBVIOUS
<1>2. a = b * (a \div b) + (a % b)
  OBVIOUS
<1> QED
  BY <1>1, <1>2

\* Quotient and remainder are determined.
LEMMA SameDivision ==
    ASSUME NEW b \in Nat, NEW q \in Nat, NEW p \in Nat, NEW r \in 0..(b - 1), NEW s \in 0..(b - 1),
           q * b + r = p * b + s
    PROVE  q = p /\ r = s
<1>2. q * b \in Nat /\ p * b \in Nat
  OBVIOUS
<1>3. ~(q < p) /\ ~(p < q)
  BY <1>2, Products
<1>4. q = p
  BY <1>3
<1> QED
  BY <1>2, <1>4

-----------------------------------------------------------------------------
(* What Kept keeps.                                                        *)

KeptUpTo(s, K, f) ==
    f = [n \in 0..Len(s) |->
           IF n = 0 THEN <<>> ELSE IF n \in K THEN Append(f[n - 1], s[n]) ELSE f[n - 1]]

LEMMA KeptIs ==
    ASSUME NEW s, NEW K, Len(s) \in Nat
    PROVE  \E f : KeptUpTo(s, K, f) /\ Kept(s, K) = f[Len(s)]
<1> DEFINE Body(f, n) == IF n = 0 THEN <<>> ELSE IF n \in K THEN Append(f[n - 1], s[n]) ELSE f[n - 1]
           P(j) == \E f : f = [n \in 0..j |-> Body(f, n)]
           S == {j \in Nat : P(j)}
<1>1. P(0)
  <2> DEFINE f == [n \in 0..0 |-> <<>>]
  <2>1. f = [n \in 0..0 |-> Body(f, n)]
    OBVIOUS
  <2> QED
    BY <2>1
<1>2. ASSUME NEW j \in Nat, P(j) PROVE P(j + 1)
  <2>1. PICK f : f = [n \in 0..j |-> Body(f, n)]
    BY <1>2
  <2> HIDE DEF Body
  <2> DEFINE g == [n \in 0..(j + 1) |-> Body(f, n)]
  <2>2. \A n \in 0..j : f[n] = g[n]
    <3>1. \A n \in 0..j : f[n] = Body(f, n)
      BY <2>1, Zenon
    <3>2. \A n \in 0..j : n \in 0..(j + 1)
      OBVIOUS
    <3> QED
      BY <3>1, <3>2
  <2>3. \A n \in 0..(j + 1) : n = 0 \/ n - 1 \in 0..j
    OBVIOUS
  <2> HIDE DEF g
  <2>4. \A n \in 0..(j + 1) : Body(f, n) = Body(g, n)
    BY <2>2, <2>3 DEF Body
  <2>5. g = [n \in 0..(j + 1) |-> Body(g, n)]
    BY <2>4 DEF g
  <2> QED
    BY <2>5
<1> HIDE DEF P
<1>3. 0 \in S /\ \A j \in Nat : j \in S => j + 1 \in S
  BY <1>1, <1>2
<1>4. Nat \subseteq S
  BY <1>3, Induction
<1>5. P(Len(s))
  BY <1>4
<1>6. \E f : KeptUpTo(s, K, f)
  BY <1>5 DEF P, KeptUpTo
<1>7. KeptUpTo(s, K, CHOOSE f : KeptUpTo(s, K, f))
  BY <1>6
<1>8. Kept(s, K) = (CHOOSE f : KeptUpTo(s, K, f))[Len(s)]
  BY DEF Kept, KeptUpTo
<1> QED
  BY <1>7, <1>8

\* t has the elements of s at the places in K up to n; g are those places.
Places(t, s, K, n, g) ==
    /\ g \in [1..Len(t) -> K \cap 1..n]
    /\ \A k \in 1..Len(t) : t[k] = s[g[k]]
    /\ \A j, k \in 1..Len(t) : j < k => g[j] < g[k]
    /\ \A l \in K \cap 1..n : \E k \in 1..Len(t) : g[k] = l

LEMMA OneMorePlace ==
    ASSUME NEW S, NEW s \in Seq(S), NEW t \in Seq(S), NEW K, NEW n \in Nat, n + 1 <= Len(s), n + 1 \in K,
           NEW g, Places(t, s, K, n, g), NEW u, u = Append(t, s[n + 1])
    PROVE  u \in Seq(S) /\ \E h : Places(u, s, K, n + 1, h)
<1>1. PICK m \in Nat, x \in S : m = Len(t) /\ x = s[n + 1]
  OBVIOUS
<1>2. u \in Seq(S) /\ Len(u) = m + 1 /\ u[m + 1] = x /\ \A k \in 1..m : u[k] = t[k]
  BY <1>1
<1>0. \A l \in K \cap 1..n : \E k \in 1..m : g[k] = l
  BY <1>1, Zenon DEF Places
<1> DEFINE h == [k \in 1..(m + 1) |-> IF k = m + 1 THEN n + 1 ELSE g[k]]
<1>3. h[m + 1] = n + 1 /\ \A k \in 1..m : h[k] = g[k]
  OBVIOUS
<1>4. \A k \in 1..m : g[k] \in K /\ g[k] \in 1..n
  BY <1>1 DEF Places
<1>5. \A k \in 1..(m + 1) : k = m + 1 \/ k \in 1..m
  OBVIOUS
<1>6. h \in [1..(m + 1) -> K \cap 1..(n + 1)]
  BY <1>4
<1> HIDE DEF h
<1>7. \A k \in 1..(m + 1) : u[k] = s[h[k]]
  BY <1>1, <1>2, <1>3, <1>5 DEF Places
<1>8. ASSUME NEW j \in 1..(m + 1), NEW k \in 1..(m + 1), j < k PROVE h[j] < h[k]
  <2>1. j \in 1..m
    BY <1>8
  <2>2. CASE k \in 1..m
    BY <1>1, <1>3, <1>8, <2>1, <2>2 DEF Places
  <2>3. CASE k = m + 1
    BY <1>3, <1>4, <2>1, <2>3
  <2> QED
    BY <1>5, <2>2, <2>3
<1>9. ASSUME NEW l \in K \cap 1..(n + 1) PROVE \E k \in 1..(m + 1) : h[k] = l
  <2>1. CASE l = n + 1
    BY <1>3, <2>1
  <2>2. CASE l # n + 1
    <3>1. l \in K \cap 1..n
      BY <2>2
    <3>2. PICK k \in 1..m : g[k] = l
      BY <1>0, <3>1
    <3>3. k \in 1..(m + 1) /\ h[k] = l
      BY <1>3, <3>2
    <3> QED
      BY <3>3
  <2> QED
    BY <2>1, <2>2
<1>10. Places(u, s, K, n + 1, h)
  BY <1>2, <1>6, <1>7, <1>8, <1>9 DEF Places
<1> QED
  BY <1>2, <1>10

LEMMA KeptPlaces ==
    ASSUME NEW S, NEW s \in Seq(S), NEW K
    PROVE  Kept(s, K) \in Seq(S) /\ \E g : Places(Kept(s, K), s, K, Len(s), g)
<1>1. Len(s) \in Nat
  OBVIOUS
<1>2. PICK f : KeptUpTo(s, K, f) /\ Kept(s, K) = f[Len(s)]
  BY <1>1, KeptIs
<1>3. f[0] = <<>> /\ \A n \in 1..Len(s) : f[n] = IF n \in K THEN Append(f[n - 1], s[n]) ELSE f[n - 1]
  <2>1. \A n \in 0..Len(s) : f[n] = IF n = 0 THEN <<>> ELSE IF n \in K THEN Append(f[n - 1], s[n]) ELSE f[n - 1]
    BY <1>1, <1>2, Zenon DEF KeptUpTo
  <2>2. 0 \in 0..Len(s) /\ \A n \in 1..Len(s) : n \in 0..Len(s) /\ n # 0
    BY <1>1
  <2> QED
    BY <2>1, <2>2
<1> DEFINE P(n) == f[n] \in Seq(S) /\ \E g : Places(f[n], s, K, n, g)
           N == {n \in Nat : n <= Len(s) => P(n)}
<1>4. P(0)
  <2>1. f[0] \in Seq(S) /\ Len(f[0]) = 0
    BY <1>3
  <2>2. Places(f[0], s, K, 0, <<>>)
    BY <2>1 DEF Places
  <2> QED
    BY <2>1, <2>2
<1>5. ASSUME NEW n \in Nat, P(n), n + 1 <= Len(s) PROVE P(n + 1)
  <2>1. PICK g : Places(f[n], s, K, n, g)
    BY <1>5
  <2>2. f[n + 1] = IF n + 1 \in K THEN Append(f[n], s[n + 1]) ELSE f[n]
    <3>1. n + 1 \in 1..Len(s) /\ (n + 1) - 1 = n
      BY <1>1, <1>5
    <3> QED
      BY <1>3, <3>1
  <2>3. PICK t, u : t = f[n] /\ u = f[n + 1]
    OBVIOUS
  <2>4. t \in Seq(S) /\ Places(t, s, K, n, g)
    BY <1>5, <2>1, <2>3
  <2>5. CASE n + 1 \in K
    <3>1. u = Append(t, s[n + 1])
      BY <2>2, <2>3, <2>5
    <3>2. u \in Seq(S) /\ \E h : Places(u, s, K, n + 1, h)
      BY <1>5, <2>4, <2>5, <3>1, OneMorePlace
    <3> QED
      BY <2>3, <3>2
  <2>6. CASE n + 1 \notin K
    <3>1. K \cap 1..(n + 1) = K \cap 1..n
      BY <2>6
    <3>2. Places(t, s, K, n + 1, g)
      BY <2>4, <3>1 DEF Places
    <3> QED
      BY <2>2, <2>3, <2>4, <2>6, <3>2
  <2> QED
    BY <2>5, <2>6
<1> HIDE DEF P
<1>6. 0 \in N /\ \A n \in Nat : n \in N => n + 1 \in N
  BY <1>1, <1>4, <1>5
<1>7. Nat \subseteq N
  BY <1>6, Induction
<1>8. P(Len(s))
  BY <1>1, <1>7
<1> QED
  BY <1>2, <1>8 DEF P
-----------------------------------------------------------------------------
(* Columns and sorting rearrange.                                          *)

\* t has the values of the function items, each at the key that g gives.
Rearranges(t, items, g) ==
    /\ g \in [1..Len(t) -> DOMAIN items]
    /\ \A k \in 1..Len(t) : t[k] = items[g[k]]
    /\ \A j, k \in 1..Len(t) : g[j] = g[k] => j = k
    /\ \A i \in DOMAIN items : \E k \in 1..Len(t) : g[k] = i

\* n items in c columns fit into that many rows.
LEMMA RowsSuffice ==
    ASSUME NEW n \in Nat, NEW c \in Nat \ {0}
    PROVE  LET r == n \div c + (IF n % c # 0 THEN 1 ELSE 0)
           IN  r \in Nat /\ n <= r * c
<1>1. PICK q \in Nat, s \in Nat : q = n \div c /\ s = n % c /\ n = q * c + s /\ s < c
  BY Division
<1>2. q * c \in Nat /\ (q + 1) * c = q * c + c
  OBVIOUS
<1>3. CASE s = 0
  BY <1>1, <1>2, <1>3
<1>4. CASE s # 0
  BY <1>1, <1>2, <1>4
<1> QED
  BY <1>3, <1>4

\* The cell of a place in the order of printing.
Cell(c, r, k) == (((k - 1) % c) * (r - 1) + ((k - 1) % c) + ((k - 1) \div c)) + 1

LEMMA CellIs ==
    ASSUME NEW c \in Nat \ {0}, NEW r \in Nat, NEW k \in 1..(r * c)
    PROVE  \E col \in Nat, row \in Nat :
              /\ col < c /\ row < r /\ row * c \in Nat /\ col * r \in Nat
              /\ k = row * c + col + 1 /\ Cell(c, r, k) = col * r + row + 1
<1>1. PICK b \in Nat, a \in Nat : b = r * c /\ a = k - 1 /\ a < b
  OBVIOUS
<1>2. PICK row \in Nat, col \in Nat : /\ row = a \div c /\ col = a % c
                                     /\ a = row * c + col /\ col < c
  BY Division
<1>3. row * c \in Nat /\ col * r \in Nat
  OBVIOUS
<1>4. row < r
  <2>1. row * c < r * c
    BY <1>1, <1>2, <1>3
  <2> QED
    BY <2>1, Products
<1>5. Cell(c, r, k) = (col * (r - 1) + col + row) + 1
  BY <1>1, <1>2 DEF Cell
<1>6. col * (r - 1) + col = col * r
  OBVIOUS
<1>7. k = row * c + col + 1
  BY <1>1, <1>2, <1>3
<1>8. Cell(c, r, k) = col * r + row + 1
  BY <1>3, <1>5, <1>6
<1> QED
  BY <1>2, <1>3, <1>4, <1>7, <1>8

LEMMA CellsDiffer ==
    ASSUME NEW c \in Nat \ {0}, NEW r \in Nat, NEW j \in 1..(r * c), NEW k \in 1..(r * c),
           Cell(c, r, j) = Cell(c, r, k)
    PROVE  j = k
<1>1. PICK a \in Nat, x \in Nat :
         /\ a < c /\ x < r /\ x * c \in Nat /\ a * r \in Nat
         /\ j = x * c + a + 1 /\ Cell(c, r, j) = a * r + x + 1
  BY CellIs
<1>2. PICK b \in Nat, y \in Nat :
         /\ b < c /\ y < r /\ y * c \in Nat /\ b * r \in Nat
         /\ k = y * c + b + 1 /\ Cell(c, r, k) = b * r + y + 1
  BY CellIs
<1>3. a * r + x = b * r + y
  BY <1>1, <1>2
<1>4. x \in 0..(r - 1) /\ y \in 0..(r - 1)
  BY <1>1, <1>2
<1>5. a = b /\ x = y
  BY <1>3, <1>4, SameDivision
<1> QED
  BY <1>1, <1>2, <1>5

LEMMA CellOf ==
    ASSUME NEW c \in Nat \ {0}, NEW r \in Nat, NEW i \in Nat \ {0}, i <= r * c
    PROVE  \E k \in 1..(r * c) : Cell(c, r, k) = i
<1>1. PICK m \in Nat, a \in Nat : m = r * c /\ a = i - 1 /\ a < m
  OBVIOUS
<1>2. r \in Nat \ {0}
  <2>1. r = 0 => r * c = 0
    OBVIOUS
  <2> QED
    BY <1>1, <2>1
<1>3. PICK col \in Nat, row \in Nat : /\ col = a \div r /\ row = a % r
                                     /\ a = col * r + row /\ row < r
  BY <1>2, Division
<1>4. col * r \in Nat /\ row * c \in Nat /\ c * r = r * c
  OBVIOUS
<1>5. col < c
  <2>1. col * r < c * r
    BY <1>1, <1>3, <1>4
  <2> QED
    BY <2>1, Products
<1>6. row * c + c <= r * c
  BY <1>3, Products
<1>7. row * c + col + 1 \in 1..(r * c)
  BY <1>1, <1>4, <1>5, <1>6
<1>8. PICK k \in 1..(r * c) : k = row * c + col + 1
  BY <1>7
<1>9. PICK b \in Nat, y \in Nat :
         /\ b < c /\ y < r /\ y * c \in Nat /\ b * r \in Nat
         /\ k = y * c + b + 1 /\ Cell(c, r, k) = b * r + y + 1
  BY CellIs
<1>10. row = y /\ col = b
  <2>1. row * c + col = y * c + b
    BY <1>4, <1>8, <1>9
  <2>2. col \in 0..(c - 1) /\ b \in 0..(c - 1)
    BY <1>5, <1>9
  <2> QED
    BY <2>1, <2>2, SameDivision
<1>11. Cell(c, r, k) = i
  BY <1>1, <1>3, <1>4, <1>9, <1>10
<1> QED
  BY <1>8, <1>11

\* No column drops or repeats an item.
LEMMA ColumnsRearrange ==
    ASSUME NEW S, NEW items \in Seq(S), NumColumns(items) \in Nat \ {0}
    PROVE  Columns(items) \in Seq(S) /\ \E g : Rearranges(Columns(items), items, g)
<1>0. PICK r : r = NumRows(items)
  OBVIOUS
<1>1. PICK n \in Nat, c \in Nat \ {0} : n = Len(items) /\ c = NumColumns(items) /\ r = NumRows(items)
  BY <1>0
<1>2. PICK cs : cs = [k \in 1..(r * c) |-> Cell(c, r, k)]
  OBVIOUS
<1>3. r \in Nat /\ n <= r * c
  BY <1>1, RowsSuffice DEF NumRows
<1>4. /\ r * c \in Nat /\ cs \in [1..(r * c) -> Nat \ {0}]
      /\ \A j, k \in 1..(r * c) : cs[j] = cs[k] => j = k
      /\ \A i \in 1..n : \E k \in 1..(r * c) : cs[k] = i
  <2>1. r * c \in Nat
    BY <1>3
  <2>2. PICK m \in Nat : m = r * c
    BY <2>1
  <2>3. ASSUME NEW k \in 1..m PROVE Cell(c, r, k) \in Nat \ {0}
    <3>0. k \in 1..(r * c)
      BY <2>2
    <3>1. PICK col \in Nat, row \in Nat :
             /\ col < c /\ row < r /\ row * c \in Nat /\ col * r \in Nat
             /\ k = row * c + col + 1 /\ Cell(c, r, k) = col * r + row + 1
      BY <1>3, <3>0, CellIs
    <3> QED
      BY <3>1
  <2>4. ASSUME NEW j \in 1..m, NEW k \in 1..m, cs[j] = cs[k] PROVE j = k
    <3>1. Cell(c, r, j) = Cell(c, r, k)
      BY <1>2, <2>2, <2>4
    <3> QED
      BY <1>3, <2>2, <3>1, CellsDiffer
  <2>5. ASSUME NEW i \in 1..n PROVE \E k \in 1..m : cs[k] = i
    <3>1. i \in Nat \ {0} /\ i <= m
      BY <1>3, <2>2
    <3>2. PICK k \in 1..m : Cell(c, r, k) = i
      BY <1>3, <2>2, <3>1, CellOf
    <3> QED
      BY <1>2, <2>2, <3>2
  <2> QED
    BY <1>2, <2>2, <2>3, <2>4, <2>5
<1>5. cs \in Seq(Nat \ {0}) /\ Len(cs) = r * c /\ DOMAIN cs = 1..(r * c)
  BY <1>4
<1> DEFINE K == {k \in DOMAIN cs : cs[k] <= n}
<1>6. PICK filled : filled = Kept(cs, K)
  OBVIOUS
<1>7. Columns(items) = [k \in DOMAIN filled |-> items[filled[k]]]
  BY <1>1, <1>2, <1>6, Zenon DEF Columns, Cell
<1>8. filled \in Seq(Nat \ {0}) /\ \E g : Places(filled, cs, K, Len(cs), g)
  BY <1>5, <1>6, KeptPlaces
<1> HIDE DEF K
<1>9. PICK g : Places(filled, cs, K, Len(cs), g)
  BY <1>8
<1>10. PICK m \in Nat : m = Len(filled) /\ DOMAIN filled = 1..m
  BY <1>8
<1>11. \A k \in 1..m : g[k] \in K /\ filled[k] = cs[g[k]]
  BY <1>9, <1>10 DEF Places
<1>12. \A k \in 1..m : g[k] \in 1..(r * c) /\ filled[k] \in 1..n
  BY <1>1, <1>5, <1>4, <1>11 DEF K
<1>13. PICK t : t = Columns(items)
  OBVIOUS
<1>14. t = [k \in 1..m |-> items[filled[k]]]
  BY <1>7, <1>10, <1>13
<1>15. t \in Seq(S) /\ Len(t) = m
  <2>1. t \in [1..m -> S]
    BY <1>1, <1>12, <1>14
  <2> QED
    BY <1>10, <2>1
<1>16. \A j, k \in 1..m : filled[j] = filled[k] => j = k
  <2> SUFFICES ASSUME NEW j \in 1..m, NEW k \in 1..m, filled[j] = filled[k]
               PROVE  j = k
    OBVIOUS
  <2>1. g[j] = g[k]
    BY <1>4, <1>12, <1>11
  <2>2. ~(j < k) /\ ~(k < j)
    <3>1. \A a, b \in 1..m : a < b => g[a] < g[b]
      BY <1>9, <1>10 DEF Places
    <3>2. g[j] \in Nat /\ g[k] \in Nat
      BY <1>4, <1>12
    <3> QED
      BY <2>1, <3>1, <3>2
  <2> QED
    BY <2>2
<1>17. ASSUME NEW i \in 1..n PROVE \E k \in 1..m : filled[k] = i
  <2>1. PICK l \in 1..(r * c) : cs[l] = i
    BY <1>4
  <2>2. l \in K \cap 1..Len(cs)
    BY <1>5, <2>1 DEF K
  <2>3. \A a \in K \cap 1..Len(cs) : \E k \in 1..m : g[k] = a
    BY <1>9, <1>10, Zenon DEF Places
  <2>4. PICK k \in 1..m : g[k] = l
    BY <2>2, <2>3
  <2> QED
    BY <1>11, <2>1, <2>4
<1>18. Rearranges(t, items, filled)
  <2>1. DOMAIN items = 1..n
    BY <1>1
  <2>2. filled \in [1..m -> 1..n]
    BY <1>8, <1>10, <1>12
  <2>3. \A k \in 1..m : t[k] = items[filled[k]]
    BY <1>14
  <2> QED
    BY <1>15, <1>16, <1>17, <2>1, <2>2, <2>3 DEF Rearranges
<1> QED
  BY <1>13, <1>15, <1>18

-----------------------------------------------------------------------------
(* What Sorted gives: each item once, none before one that precedes it.     *)

OrdersUpTo(opts, items, f) ==
    f = [n \in 0..Cardinality(DOMAIN items) |->
           IF n = 0 THEN {<<>>}
           ELSE UNION {{Append(p, k) : k \in Firsts(opts, items, p)} : p \in f[n - 1]}]

LEMMA OrdersIs ==
    ASSUME NEW opts, NEW items, Cardinality(DOMAIN items) \in Nat
    PROVE  \E f : /\ OrdersUpTo(opts, items, f)
                  /\ Sorted(opts, items) = {[i \in DOMAIN p |-> items[p[i]]] : p \in f[Cardinality(DOMAIN items)]}
<1> DEFINE Longer(O) == UNION {{Append(p, k) : k \in Firsts(opts, items, p)} : p \in O}
           Body(f, n) == IF n = 0 THEN {<<>>} ELSE Longer(f[n - 1])
           P(j) == \E f : f = [n \in 0..j |-> Body(f, n)]
           S == {j \in Nat : P(j)}
<1>1. P(0)
  <2> DEFINE f == [n \in 0..0 |-> {<<>>}]
  <2> HIDE DEF Longer
  <2>1. f = [n \in 0..0 |-> Body(f, n)]
    OBVIOUS
  <2> QED
    BY <2>1
<1>2. ASSUME NEW j \in Nat, P(j) PROVE P(j + 1)
  <2> HIDE DEF Longer
  <2>1. PICK f : f = [n \in 0..j |-> Body(f, n)]
    BY <1>2
  <2> HIDE DEF Body
  <2> DEFINE g == [n \in 0..(j + 1) |-> Body(f, n)]
  <2>2. \A n \in 0..j : f[n] = g[n]
    <3>1. \A n \in 0..j : f[n] = Body(f, n)
      BY <2>1, Zenon
    <3>2. \A n \in 0..j : n \in 0..(j + 1)
      OBVIOUS
    <3> QED
      BY <3>1, <3>2
  <2>3. \A n \in 0..(j + 1) : n = 0 \/ n - 1 \in 0..j
    OBVIOUS
  <2> HIDE DEF g
  <2>4. \A n \in 0..(j + 1) : Body(f, n) = Body(g, n)
    BY <2>2, <2>3 DEF Body
  <2>5. g = [n \in 0..(j + 1) |-> Body(g, n)]
    BY <2>4 DEF g
  <2> QED
    BY <2>5
<1> HIDE DEF P
<1>3. 0 \in S /\ \A j \in Nat : j \in S => j + 1 \in S
  BY <1>1, <1>2
<1>4. Nat \subseteq S
  BY <1>3, Induction
<1>5. P(Cardinality(DOMAIN items))
  BY <1>4
<1>6. \E f : OrdersUpTo(opts, items, f)
  BY <1>5, Zenon DEF P, OrdersUpTo
<1>7. OrdersUpTo(opts, items, CHOOSE f : OrdersUpTo(opts, items, f))
  BY <1>6
<1>8. Sorted(opts, items) =
        {[i \in DOMAIN p |-> items[p[i]]] : p \in (CHOOSE f : OrdersUpTo(opts, items, f))[Cardinality(DOMAIN items)]}
  BY Zenon DEF Sorted, OrdersUpTo
<1> QED
  BY <1>7, <1>8

\* p lists keys of items, each of which none of those after it precedes.
InOrder(opts, items, p) ==
    /\ \A i, j \in 1..Len(p) : p[i] = p[j] => i = j
    /\ \A i, j \in 1..Len(p) : i < j => ~Precedes(opts, items[p[j]], items[p[i]])
    /\ \A m \in DOMAIN items :
          \/ \E i \in 1..Len(p) : p[i] = m
          \/ \A i \in 1..Len(p) : ~Precedes(opts, items[m], items[p[i]])

LEMMA OneMoreInOrder ==
    ASSUME NEW opts, NEW items, NEW p \in Seq(DOMAIN items), InOrder(opts, items, p),
           NEW k \in Firsts(opts, items, p)
    PROVE  /\ Append(p, k) \in Seq(DOMAIN items) /\ Len(Append(p, k)) = Len(p) + 1
           /\ InOrder(opts, items, Append(p, k))
<1>0. PICK D, q : D = DOMAIN items /\ q = Append(p, k)
  OBVIOUS
<1>1. PICK n \in Nat : D = DOMAIN items /\ n = Len(p) /\ q = Append(p, k)
  BY <1>0
<1>2. /\ k \in D /\ \A i \in 1..n : p[i] # k
      /\ \A m \in D : (\A i \in 1..n : p[i] # m) => ~Precedes(opts, items[m], items[k])
  <2>1. DOMAIN p = 1..n
    BY <1>1
  <2> QED
    BY <1>1, <2>1 DEF Firsts
<1>3. q \in Seq(D) /\ Len(q) = n + 1 /\ q[n + 1] = k /\ \A i \in 1..n : q[i] = p[i] /\ p[i] \in D
  BY <1>1, <1>2
<1>4. \A i \in 1..(n + 1) : i = n + 1 \/ i \in 1..n
  OBVIOUS
<1>5. /\ \A i, j \in 1..n : p[i] = p[j] => i = j
      /\ \A i, j \in 1..n : i < j => ~Precedes(opts, items[p[j]], items[p[i]])
      /\ \A m \in D : \/ \E i \in 1..n : p[i] = m
                      \/ \A i \in 1..n : ~Precedes(opts, items[m], items[p[i]])
  BY <1>1, Zenon DEF InOrder
<1>6. ASSUME NEW i \in 1..(n + 1), NEW j \in 1..(n + 1), q[i] = q[j] PROVE i = j
  BY <1>2, <1>3, <1>4, <1>5, <1>6
<1>7. ASSUME NEW i \in 1..(n + 1), NEW j \in 1..(n + 1), i < j
      PROVE  ~Precedes(opts, items[q[j]], items[q[i]])
  <2>1. i \in 1..n
    BY <1>7
  <2>2. CASE j \in 1..n
    BY <1>3, <1>5, <1>7, <2>1, <2>2
  <2>3. CASE j = n + 1
    <3>1. \A a \in 1..n : ~Precedes(opts, items[k], items[p[a]])
      BY <1>2, <1>5
    <3> QED
      BY <1>3, <2>1, <2>3, <3>1
  <2> QED
    BY <1>4, <2>2, <2>3
<1>8. ASSUME NEW m \in D, \A i \in 1..(n + 1) : q[i] # m
      PROVE  \A i \in 1..(n + 1) : ~Precedes(opts, items[m], items[q[i]])
  <2>1. \A i \in 1..n : p[i] # m
    <3>1. \A i \in 1..n : i \in 1..(n + 1)
      OBVIOUS
    <3> QED
      BY <1>3, <1>8, <3>1
  <2>2. ~Precedes(opts, items[m], items[k]) /\ \A i \in 1..n : ~Precedes(opts, items[m], items[p[i]])
    BY <1>2, <1>5, <2>1
  <2> QED
    BY <1>3, <1>4, <2>2
<1>9. InOrder(opts, items, q)
  <2>1. Len(q) = n + 1
    BY <1>3
  <2>2. \A m \in DOMAIN items :
          \/ \E i \in 1..(n + 1) : q[i] = m
          \/ \A i \in 1..(n + 1) : ~Precedes(opts, items[m], items[q[i]])
    BY <1>1, <1>8, Zenon
  <2> QED
    BY <1>6, <1>7, <2>1, <2>2, Zenon DEF InOrder
<1> QED
  BY <1>1, <1>3, <1>9

\* qsort's result: all the items, and none before one that precedes it.
LEMMA SortedRearranges ==
    ASSUME NEW opts, NEW S, NEW D, IsFiniteSet(D), NEW items \in [D -> S],
           NEW t \in Sorted(opts, items)
    PROVE  /\ t \in Seq(S) /\ \E g : Rearranges(t, items, g)
           /\ \A i, j \in 1..Len(t) : i < j => ~Precedes(opts, t[j], t[i])
<1>1. PICK c \in Nat : c = Cardinality(D)
  BY FS_CardinalityType
<1>2. PICK f : /\ OrdersUpTo(opts, items, f)
               /\ Sorted(opts, items) = {[i \in DOMAIN p |-> items[p[i]]] : p \in f[Cardinality(DOMAIN items)]}
  BY <1>1, OrdersIs
<1>3. DOMAIN items = D
  OBVIOUS
<1> DEFINE Longer(O) == UNION {{Append(p, k) : k \in Firsts(opts, items, p)} : p \in O}
<1>4. f[0] = {<<>>} /\ \A n \in 1..c : f[n] = Longer(f[n - 1])
  <2>1. \A n \in 0..c : f[n] = IF n = 0 THEN {<<>>} ELSE Longer(f[n - 1])
    BY <1>1, <1>2, <1>3, Zenon DEF OrdersUpTo
  <2> HIDE DEF Longer
  <2>2. 0 \in 0..c /\ \A n \in 1..c : n \in 0..c /\ n # 0
    OBVIOUS
  <2> QED
    BY <2>1, <2>2
<1> DEFINE P(n) == \A p \in f[n] : p \in Seq(D) /\ Len(p) = n /\ InOrder(opts, items, p)
           N == {n \in Nat : n <= c => P(n)}
<1>5. P(0)
  <2>1. <<>> \in Seq(D) /\ Len(<<>>) = 0
    OBVIOUS
  <2>2. InOrder(opts, items, <<>>)
    BY <2>1 DEF InOrder
  <2> QED
    BY <1>4, <2>1, <2>2
<1>6. ASSUME NEW n \in Nat, P(n), n + 1 <= c PROVE P(n + 1)
  <2> SUFFICES ASSUME NEW q \in f[n + 1]
               PROVE  q \in Seq(D) /\ Len(q) = n + 1 /\ InOrder(opts, items, q)
    OBVIOUS
  <2>1. n + 1 \in 1..c /\ (n + 1) - 1 = n
    BY <1>6
  <2>2. q \in Longer(f[n])
    BY <1>4, <2>1
  <2>3. PICK p \in f[n] : \E k \in Firsts(opts, items, p) : q = Append(p, k)
    BY <2>2
  <2>4. PICK k \in Firsts(opts, items, p) : q = Append(p, k)
    BY <2>3
  <2>5. p \in Seq(DOMAIN items) /\ Len(p) = n /\ InOrder(opts, items, p)
    BY <1>3, <1>6
  <2> QED
    BY <1>3, <2>4, <2>5, OneMoreInOrder
<1> HIDE DEF P
<1>7. 0 \in N /\ \A n \in Nat : n \in N => n + 1 \in N
  BY <1>5, <1>6
<1>8. Nat \subseteq N
  BY <1>7, Induction
<1>9. P(c)
  BY <1>8
<1>10. PICK p \in f[c] : t = [i \in DOMAIN p |-> items[p[i]]]
  BY <1>1, <1>2, <1>3
<1>11. p \in Seq(D) /\ Len(p) = c /\ InOrder(opts, items, p)
  BY <1>9 DEF P
<1>12. DOMAIN p = 1..c /\ p \in [1..c -> D]
  BY <1>11
<1>13. t = [i \in 1..c |-> items[p[i]]] /\ t \in [1..c -> S]
  BY <1>10, <1>12
<1>14. t \in Seq(S) /\ Len(t) = c
  BY <1>13
<1>15. /\ \A i, j \in 1..c : p[i] = p[j] => i = j
       /\ \A i, j \in 1..c : i < j => ~Precedes(opts, items[p[j]], items[p[i]])
  BY <1>11, Zenon DEF InOrder
<1>16. \A d \in D : \E i \in 1..c : p[i] = d
  <2>1. p \in Injection(1..c, D)
    BY <1>12, <1>15 DEF Injection, IsInjective
  <2>2. IsFiniteSet(1..c) /\ Cardinality(1..c) = c
    BY FS_Interval
  <2>3. p \in Surjection(1..c, D)
    BY <1>1, <2>1, <2>2, FS_Injection
  <2> QED
    BY <2>3 DEF Surjection
<1>17. Rearranges(t, items, p)
  BY <1>3, <1>12, <1>13, <1>14, <1>15, <1>16 DEF Rearranges
<1>18. \A i, j \in 1..c : i < j => ~Precedes(opts, t[j], t[i])
  BY <1>13, <1>15
<1> QED
  BY <1>14, <1>17, <1>18

-----------------------------------------------------------------------------
(* Items.                                                                  *)

\* What getFileInfo may return for a name that readdir gave.
Items == {Item(e) : e \in Entry} \cup UNION {DotItems(d) : d \in Dir}

LEMMA ItemTypes ==
    /\ \A e \in Entry : Item(e) \in Items
    /\ \A x \in Items : /\ x.name \in Entry \cup {".", ".."}
                        /\ x.node \in Entry \cup {Outside}
                        /\ x.name \in Entry => x = Item(x.name)
                        /\ NameLength(x) \in Nat
    /\ \A e \in Entry : Item(e).name = e /\ Item(e).node = e
    /\ \A e, f \in Entry : Item(e) = Item(f) => e = f
<1>1. \A e \in Entry : Item(e).name = e /\ Item(e).node = e /\ Item(e) \in Items
  BY DEF Item, Items
<1>2. ASSUME NEW x \in Items
      PROVE  /\ x.name \in Entry \cup {".", ".."}
             /\ x.node \in Entry \cup {Outside}
             /\ x.name \in Entry => x = Item(x.name)
  <2>1. CASE \E e \in Entry : x = Item(e)
    BY <1>1, <2>1
  <2>2. CASE \E d \in Dir : x \in DotItems(d)
    <3>1. PICK d \in Dir : x = [name |-> ".", node |-> d] \/ x = [name |-> "..", node |-> Parent[d]]
      BY <2>2 DEF DotItems
    <3>2. x.name \in {".", ".."} /\ x.node \in {d, Parent[d]}
      BY <3>1
    <3>3. d \in Entry /\ Parent[d] \in Entry \cup {Outside} /\ x.name \notin Entry
      BY <3>2, TreeAssumption
    <3> QED
      BY <3>2, <3>3
  <2> QED
    BY <1>2, <2>1, <2>2 DEF Items
<1>3. ASSUME NEW x \in Items PROVE NameLength(x) \in Nat
  <2>1. x.name \in Entry => NameLen[x.name] \in Nat
    BY AttributeAssumption
  <2> QED
    BY <1>2, <2>1 DEF NameLength
<1>4. \A e, f \in Entry : Item(e) = Item(f) => e = f
  BY <1>1
<1> QED
  BY <1>1, <1>2, <1>3, <1>4

LEMMA ItemsFinite == IsFiniteSet(Items)
<1> DEFINE Names == Entry \cup {".", ".."}
           Nodes == Entry \cup {Outside}
           f == [p \in Names \X Nodes |-> [name |-> p[1], node |-> p[2]]]
           All == {f[p] : p \in Names \X Nodes}
<1>1. IsFiniteSet(Names) /\ IsFiniteSet(Nodes)
  <2>1. IsFiniteSet(Entry \cup {Outside}) /\ IsFiniteSet(Entry \cup {"."})
    BY TreeAssumption, FS_AddElement
  <2>2. IsFiniteSet((Entry \cup {"."}) \cup {".."})
    BY <2>1, FS_AddElement
  <2>3. (Entry \cup {"."}) \cup {".."} = Names
    OBVIOUS
  <2> QED
    BY <2>1, <2>2, <2>3
<1>2. IsFiniteSet(Names \X Nodes)
  BY <1>1, FS_Product
<1>3. f \in Surjection(Names \X Nodes, All)
  BY DEF Surjection
<1> HIDE DEF f, All
<1>4. IsFiniteSet(All)
  BY <1>2, <1>3, FS_Surjection
<1>5. ASSUME NEW x \in Items PROVE x \in All
  <2>1. PICK a \in Names, b \in Nodes : x = [name |-> a, node |-> b]
    BY TreeAssumption DEF Items, Item, DotItems
  <2>2. f[<<a, b>>] = x /\ <<a, b>> \in Names \X Nodes
    BY <2>1 DEF f
  <2> QED
    BY <2>2 DEF All
<1> QED
  BY <1>4, <1>5, FS_Subset

LEMMA Largest ==
    ASSUME NEW n \in Nat \ {0}, NEW f, \A i \in 1..n : f[i] \in Nat
    PROVE  \E i \in 1..n : \A j \in 1..n : f[j] <= f[i]
<1> DEFINE P(m) == \E i \in 1..m : \A j \in 1..m : f[j] <= f[i]
           N == {m \in Nat : m + 1 <= n => P(m + 1)}
<1>1. 0 \in N
  <2>1. 1 \in 1..1 /\ \A j \in 1..1 : f[j] <= f[1]
    OBVIOUS
  <2> QED
    BY <2>1
<1>2. ASSUME NEW m \in Nat, m \in N PROVE m + 1 \in N
  <2> SUFFICES ASSUME (m + 1) + 1 <= n PROVE P((m + 1) + 1)
    OBVIOUS
  <2>1. PICK i \in 1..(m + 1) : \A j \in 1..(m + 1) : f[j] <= f[i]
    BY <1>2
  <2>2. PICK k \in Nat : k = (m + 1) + 1
    OBVIOUS
  <2>3. f[k] \in Nat /\ f[i] \in Nat /\ k \in 1..k /\ i \in 1..k
    BY <2>2
  <2>4. \A j \in 1..k : j \in 1..(m + 1) \/ j = k
    BY <2>2
  <2>5. CASE f[k] <= f[i]
    BY <2>1, <2>2, <2>3, <2>4, <2>5
  <2>6. CASE f[i] <= f[k]
    <3>1. \A j \in 1..k : f[j] <= f[k]
      BY <2>1, <2>2, <2>3, <2>4, <2>6
    <3> QED
      BY <2>2, <2>3, <3>1
  <2> QED
    BY <2>3, <2>5, <2>6
<1>3. Nat \subseteq N
  BY <1>1, <1>2, Induction
<1>4. n - 1 \in Nat /\ (n - 1) + 1 = n
  OBVIOUS
<1>5. n - 1 \in N
  BY <1>3, <1>4
<1> HIDE DEF P
<1>6. P(n)
  BY <1>4, <1>5
<1> QED
  BY <1>6 DEF P

\* count is divided by numColumns, which is 0 only if a name and its padding are
\* longer than a line.
LEMMA ColumnCount ==
    ASSUME NEW items \in Seq(Items), items # <<>>, width \in Int
    PROVE  /\ NumColumns(items) \in Int
           /\ width > 0 => NumColumns(items) \in Nat
           /\ NumColumns(items) = 0 =>
                \E i \in 1..Len(items) : Magnitude(width) < NameLength(items[i]) + Padding
<1>1. PICK n \in Nat \ {0} : n = Len(items) /\ DOMAIN items = 1..n
  OBVIOUS
<1>2. PICK f : f = [i \in 1..n |-> NameLength(items[i])]
  OBVIOUS
<1>3. \A i \in 1..n : f[i] = NameLength(items[i]) /\ f[i] \in Nat
  BY <1>1, <1>2, ItemTypes
<1>4. PICK i \in 1..n : \A j \in 1..n : f[j] <= f[i]
  BY <1>3, Largest
<1>5. PICK L : L = {NameLength(items[j]) : j \in DOMAIN items}
  OBVIOUS
<1>6. f[i] \in L /\ f[i] \in Nat /\ L \subseteq Nat /\ \A l \in L : f[i] >= l
  <2>1. \A l \in L : \E j \in 1..n : l = f[j]
    BY <1>1, <1>3, <1>5
  <2> QED
    BY <1>1, <1>3, <1>4, <1>5, <2>1
<1>7. Max(L) = f[i]
  <2>1. \A m \in L : (\A l \in L : m >= l) => m = f[i]
    BY <1>6
  <2> QED
    BY <1>6, <2>1 DEF Max
<1>10. /\ f[i] + Padding \in Nat \ {0}
       /\ NumColumns(items) = LET number == Magnitude(width) \div (f[i] + Padding)
                              IN  IF width < 0 THEN -number ELSE number
  BY <1>5, <1>6, <1>7 DEF NumColumns, Padding
<1>11. Magnitude(width) \in Nat
  BY DEF Magnitude
<1>8. PICK w \in Nat, b \in Nat \ {0} : /\ w = Magnitude(width) /\ b = f[i] + Padding
                                       /\ NumColumns(items) = IF width < 0 THEN -(w \div b) ELSE w \div b
  BY <1>10, <1>11
<1>9. w \div b \in Nat /\ (w \div b = 0 => w < b)
  OBVIOUS
<1>12. PICK q \in Nat : /\ q = 0 => w < b
                        /\ NumColumns(items) = IF width < 0 THEN -q ELSE q
  BY <1>8, <1>9
<1> QED
  BY <1>1, <1>3, <1>8, <1>12

-----------------------------------------------------------------------------
(* What is shown.                                                          *)

\* The members of D, each exactly once.
ListsOnce(t, D) ==
    /\ \A k \in 1..Len(t) : t[k] \in D
    /\ \A j, k \in 1..Len(t) : t[j] = t[k] => j = k
    /\ \A x \in D : \E k \in 1..Len(t) : t[k] = x

LEMMA SortedOnce ==
    ASSUME NEW opts, NEW D \in SUBSET Items, NEW t \in Sorted(opts, [x \in D |-> x])
    PROVE  /\ t \in Seq(Items) /\ ListsOnce(t, D)
           /\ \A i, j \in 1..Len(t) : i < j => ~Precedes(opts, t[j], t[i])
<1>1. IsFiniteSet(D)
  BY ItemsFinite, FS_Subset
<1>2. PICK f : f = [x \in D |-> x]
  OBVIOUS
<1>3. f \in [D -> Items] /\ t \in Sorted(opts, f) /\ DOMAIN f = D /\ \A x \in D : f[x] = x
  BY <1>2
<1>4. /\ t \in Seq(Items)
      /\ \A i, j \in 1..Len(t) : i < j => ~Precedes(opts, t[j], t[i])
  BY <1>1, <1>3, SortedRearranges
<1>5. PICK g : Rearranges(t, f, g)
  BY <1>1, <1>3, SortedRearranges
<1>6. /\ g \in [1..Len(t) -> D] /\ \A k \in 1..Len(t) : t[k] = f[g[k]]
      /\ \A j, k \in 1..Len(t) : g[j] = g[k] => j = k
      /\ \A i \in D : \E k \in 1..Len(t) : g[k] = i
  BY <1>3, <1>5, Zenon DEF Rearranges
<1>7. \A k \in 1..Len(t) : g[k] \in D /\ t[k] = g[k]
  BY <1>3, <1>6
<1> QED
  BY <1>4, <1>6, <1>7, Zenon DEF ListsOnce

LEMMA RearrangedOnce ==
    ASSUME NEW t \in Seq(Items), NEW D, ListsOnce(t, D), NEW u, NEW g, Rearranges(u, t, g)
    PROVE  ListsOnce(u, D)
<1>1. DOMAIN t = 1..Len(t)
  OBVIOUS
<1>2. /\ \A k \in 1..Len(u) : g[k] \in 1..Len(t) /\ u[k] = t[g[k]]
      /\ \A j, k \in 1..Len(u) : g[j] = g[k] => j = k
      /\ \A i \in 1..Len(t) : \E k \in 1..Len(u) : g[k] = i
  BY <1>1 DEF Rearranges
<1>3. /\ \A k \in 1..Len(t) : t[k] \in D
      /\ \A j, k \in 1..Len(t) : t[j] = t[k] => j = k
      /\ \A x \in D : \E k \in 1..Len(t) : t[k] = x
  BY Zenon DEF ListsOnce
<1>4. \A k \in 1..Len(u) : u[k] \in D
  BY <1>2, <1>3
<1>5. ASSUME NEW j \in 1..Len(u), NEW k \in 1..Len(u), u[j] = u[k] PROVE j = k
  <2>1. g[j] \in 1..Len(t) /\ g[k] \in 1..Len(t) /\ t[g[j]] = t[g[k]]
    BY <1>2, <1>5
  <2> QED
    BY <1>2, <1>3, <2>1
<1>6. ASSUME NEW x \in D PROVE \E k \in 1..Len(u) : u[k] = x
  <2>1. PICK i \in 1..Len(t) : t[i] = x
    BY <1>3
  <2>2. PICK k \in 1..Len(u) : g[k] = i
    BY <1>2
  <2> QED
    BY <1>2, <2>1, <2>2
<1> QED
  BY <1>4, <1>5, <1>6, Zenon DEF ListsOnce

LEMMA ShownType ==
    ASSUME NEW items \in Seq(Items), ~ListingCrashes(items), width \in Int
    PROVE  /\ Shown(items) \in Seq(Items)
           /\ Shows => Shown(items) = items \/ \E g : Rearranges(Shown(items), items, g)
           /\ "l" \in options \/ "1" \in options => Shown(items) = items
<1>1. CASE MultiColumn /\ items # <<>> /\ width > 0
  <2>1. NumColumns(items) \in Nat \ {0}
    BY <1>1, ColumnCount DEF ListingCrashes
  <2>2. Columns(items) \in Seq(Items) /\ \E g : Rearranges(Columns(items), items, g)
    BY <2>1, ColumnsRearrange
  <2>3. Shown(items) \in {items, Columns(items)}
    BY <1>1 DEF Shown
  <2>4. "l" \notin options /\ "1" \notin options
    BY <1>1 DEF MultiColumn
  <2> QED
    BY <2>2, <2>3, <2>4
<1>2. CASE ~(MultiColumn /\ items # <<>> /\ width > 0)
  <2>1. /\ Shown(items) \in {items, <<>>} /\ (Shows => Shown(items) = items)
        /\ "l" \in options \/ "1" \in options => Shown(items) = items
    BY <1>2 DEF Shown, Shows
  <2>2. <<>> \in Seq(Items)
    OBVIOUS
  <2> QED
    BY <2>1, <2>2
<1> QED
  BY <1>1, <1>2

LEMMA ShownOnce ==
    ASSUME NEW items \in Seq(Items), NEW D, ListsOnce(items, D),
           ~ListingCrashes(items), width \in Int, Shows
    PROVE  ListsOnce(Shown(items), D)
BY ShownType, RearrangedOnce

\* An owner without a name, or a line shorter than a name.
LEMMA ListingCrashCauses ==
    ASSUME NEW items \in Seq(Items), ListingCrashes(items), width \in Int,
           \A i \in 1..Len(items) : items[i].name \in Entry \/ "a" \in options
    PROVE  \/ "l" \in options /\ NoOwner # {}
           \/ /\ MultiColumn /\ width # 0
              /\ \/ \E e \in Entry : Magnitude(width) < NameLen[e] + Padding
                 \/ "a" \in options /\ Magnitude(width) < 2 + Padding
<1>1. CASE "l" \in options /\ \E i \in DOMAIN items : items[i].node \in NoOwner
  BY <1>1
<1>2. CASE MultiColumn /\ items # <<>> /\ width # 0 /\ NumColumns(items) = 0
  <2>1. PICK i \in 1..Len(items) : Magnitude(width) < NameLength(items[i]) + Padding
    BY <1>2, ColumnCount
  <2>5. Magnitude(width) \in Nat
    BY DEF Magnitude
  <2>2. PICK x \in Items : x = items[i]
    OBVIOUS
  <2>3. CASE x.name \in Entry
    <3>1. NameLength(x) = NameLen[x.name]
      BY <2>3, TreeAssumption DEF NameLength
    <3> QED
      BY <1>2, <2>1, <2>2, <2>3, <3>1
  <2>4. CASE x.name \notin Entry
    <3>1. x.name \in {".", ".."} /\ "a" \in options
      BY <2>2, <2>4, ItemTypes
    <3>2. NameLength(x) \in {1, 2}
      BY <3>1 DEF NameLength
    <3>3. Magnitude(width) < 2 + Padding
      BY <2>1, <2>2, <2>5, <3>2 DEF Padding
    <3> QED
      BY <1>2, <3>1, <3>3
  <2> QED
    BY <2>3, <2>4
<1> QED
  BY <1>1, <1>2 DEF ListingCrashes

\* The directories among them are listed next.
LEMMA KeptOnce ==
    ASSUME NEW items \in Seq(Items), NEW D, ListsOnce(items, D), NEW t,
           t = Kept(items, {k \in DOMAIN items : IsDirItem(items[k])})
    PROVE  t \in Seq(Items) /\ ListsOnce(t, {x \in D : IsDirItem(x)})
<1>1. PICK K : K = {k \in DOMAIN items : IsDirItem(items[k])}
  OBVIOUS
<1>2. t \in Seq(Items) /\ \E g : Places(t, items, K, Len(items), g)
  BY <1>1, KeptPlaces
<1>3. PICK g : Places(t, items, K, Len(items), g)
  BY <1>2
<1>0. PICK n \in Nat : n = Len(items) /\ DOMAIN items = 1..n
  OBVIOUS
<1>4. PICK m \in Nat : m = Len(t) /\ n = Len(items) /\ DOMAIN items = 1..n
  <2>1. Len(t) \in Nat
    BY <1>2, LenProperties, Zenon
  <2> QED
    BY <1>0, <2>1
<1>5. /\ \A k \in 1..m : g[k] \in K /\ g[k] \in 1..n /\ t[k] = items[g[k]]
      /\ \A j, k \in 1..m : j < k => g[j] < g[k]
      /\ \A l \in K : \E k \in 1..m : g[k] = l
  <2>1. K \cap 1..n = K
    BY <1>1, <1>4
  <2>2. /\ g \in [1..m -> K \cap 1..n] /\ \A k \in 1..m : t[k] = items[g[k]]
        /\ \A j, k \in 1..m : j < k => g[j] < g[k]
        /\ \A l \in K \cap 1..n : \E k \in 1..m : g[k] = l
    BY <1>3, <1>4, Zenon DEF Places
  <2> QED
    BY <2>1, <2>2
<1>6. \A j, k \in 1..m : g[j] = g[k] => j = k
  <2> SUFFICES ASSUME NEW j \in 1..m, NEW k \in 1..m, g[j] = g[k] PROVE j = k
    OBVIOUS
  <2>1. j < k \/ k < j \/ j = k
    OBVIOUS
  <2>3. g[j] \in 1..n /\ g[k] \in 1..n
    BY <1>5
  <2>2. g[j] \in Nat /\ g[k] \in Nat
    BY <2>3
  <2> QED
    BY <1>5, <2>1, <2>2
<1>7. /\ \A k \in 1..n : items[k] \in D
      /\ \A j, k \in 1..n : items[j] = items[k] => j = k
      /\ \A x \in D : \E k \in 1..n : items[k] = x
  BY <1>4, Zenon DEF ListsOnce
<1>8. \A k \in 1..m : t[k] \in {x \in D : IsDirItem(x)}
  BY <1>1, <1>5, <1>7
<1>9. ASSUME NEW j \in 1..m, NEW k \in 1..m, t[j] = t[k] PROVE j = k
  <2>1. /\ g[j] \in 1..n /\ g[k] \in 1..n
        /\ items[g[j]] = items[g[k]]
    BY <1>5, <1>9
  <2>2. g[j] = g[k]
    BY <1>7, <2>1, Zenon
  <2> QED
    BY <1>6, <2>2, Zenon
<1>10. ASSUME NEW x \in {y \in D : IsDirItem(y)} PROVE \E k \in 1..m : t[k] = x
  <2>1. PICK l \in 1..n : items[l] = x
    BY <1>7
  <2>2. l \in K
    BY <1>1, <1>4, <2>1
  <2>3. PICK k \in 1..m : g[k] = l
    BY <1>5, <2>2
  <2> QED
    BY <1>5, <2>1, <2>3
<1> QED
  BY <1>2, <1>4, <1>8, <1>9, <1>10, Zenon DEF ListsOnce

-----------------------------------------------------------------------------
(* Counting.                                                               *)

\* The elements of a sequence that are in a set.
Count(s, A) == Cardinality({k \in DOMAIN s : s[k] \in A})

LEMMA CountType ==
    ASSUME NEW S, NEW s \in Seq(S), NEW A
    PROVE  /\ IsFiniteSet({k \in DOMAIN s : s[k] \in A}) /\ Count(s, A) \in Nat
           /\ (\A k \in 1..Len(s) : s[k] \notin A) => Count(s, A) = 0
           /\ Count(s, A) = 0 => \A k \in 1..Len(s) : s[k] \notin A
<1>0. PICK K : K = {k \in DOMAIN s : s[k] \in A}
  OBVIOUS
<1>1. PICK n \in Nat : n = Len(s) /\ DOMAIN s = 1..n
  OBVIOUS
<1>2. IsFiniteSet(1..n) /\ K \in SUBSET (1..n)
  <2>1. 1 \in Int /\ n \in Int
    OBVIOUS
  <2> QED
    BY <1>0, <1>1, <2>1, FS_Interval
<1>3. IsFiniteSet(K)
  BY <1>2, FS_Subset
<1>4. Cardinality(K) \in Nat /\ (Cardinality(K) = 0 <=> K = {})
  BY <1>3, FS_CardinalityType, FS_EmptySet
<1>5. Count(s, A) = Cardinality(K)
  BY <1>0 DEF Count
<1>6. (\A k \in 1..n : s[k] \notin A) <=> K = {}
  BY <1>0, <1>1
<1> QED
  BY <1>0, <1>1, <1>3, <1>4, <1>5, <1>6

LEMMA CountAppend ==
    ASSUME NEW S, NEW s \in Seq(S), NEW x \in S, NEW A
    PROVE  Count(Append(s, x), A) = Count(s, A) + (IF x \in A THEN 1 ELSE 0)
<1>1. PICK n \in Nat : n = Len(s) /\ DOMAIN s = 1..n
  OBVIOUS
<1>2. PICK u : u = Append(s, x)
  OBVIOUS
<1>3. DOMAIN u = 1..(n + 1) /\ u[n + 1] = x /\ \A k \in 1..n : u[k] = s[k]
  BY <1>1, <1>2
<1>4. PICK K : K = {k \in DOMAIN s : s[k] \in A}
  OBVIOUS
<1>5. IsFiniteSet(K) /\ n + 1 \notin K /\ Cardinality(K) \in Nat
  BY <1>1, <1>4, CountType DEF Count
<1>6. \A k \in 1..(n + 1) : k \in 1..n \/ k = n + 1
  OBVIOUS
<1>7. CASE x \in A
  <2>1. {k \in DOMAIN u : u[k] \in A} = K \cup {n + 1}
    BY <1>1, <1>3, <1>4, <1>6, <1>7
  <2>2. Cardinality(K \cup {n + 1}) = Cardinality(K) + 1
    BY <1>5, FS_AddElement
  <2> QED
    BY <1>2, <1>4, <1>7, <2>1, <2>2 DEF Count
<1>8. CASE x \notin A
  <2>1. {k \in DOMAIN u : u[k] \in A} = K
    BY <1>1, <1>3, <1>4, <1>6, <1>8
  <2>2. Count(u, A) = Cardinality(K) /\ Count(s, A) = Cardinality(K)
    BY <1>4, <2>1 DEF Count
  <2> QED
    BY <1>2, <1>5, <1>8, <2>2
<1> QED
  BY <1>7, <1>8

LEMMA LastAndFront ==
    ASSUME NEW S, NEW s \in Seq(S), s # <<>>
    PROVE  /\ Len(s) \in Nat \ {0} /\ s[Len(s)] \in S /\ Front(s) \in Seq(S)
           /\ Len(Front(s)) = Len(s) - 1
           /\ \A k \in 1..(Len(s) - 1) : Front(s)[k] = s[k]
           /\ s = Append(Front(s), s[Len(s)])
<1>1. PICK n \in Nat \ {0} : n = Len(s)
  OBVIOUS
<1>2. s[n] \in S /\ \A k \in 1..(n - 1) : s[k] \in S
  BY <1>1
<1>3. PICK f : f = Front(s)
  OBVIOUS
<1>4. f \in Seq(S) /\ Len(f) = n - 1 /\ \A k \in 1..(n - 1) : f[k] = s[k]
  <2>1. f = SubSeq(s, 1, n - 1) /\ 1 \in Int /\ n - 1 \in Int
    BY <1>1, <1>3 DEF Front
  <2>2. /\ f \in Seq(S) /\ Len(f) = IF 1 <= n - 1 THEN (n - 1) - 1 + 1 ELSE 0
        /\ \A k \in 1..((n - 1) - 1 + 1) : f[k] = s[1 + k - 1]
    BY <1>2, <2>1, SubSeqProperties
  <2>3. \A k \in 1..(n - 1) : 1 + k - 1 = k /\ k \in 1..((n - 1) - 1 + 1)
    OBVIOUS
  <2> QED
    BY <2>2, <2>3
<1>5. s = Append(f, s[n])
  <2>1. Append(f, s[n]) \in Seq(S) /\ Len(Append(f, s[n])) = n
    BY <1>2, <1>4
  <2>2. \A k \in 1..n : Append(f, s[n])[k] = s[k]
    BY <1>2, <1>4
  <2> QED
    BY <1>1, <2>1, <2>2, SeqEqual
<1> QED
  BY <1>1, <1>2, <1>3, <1>4, <1>5

LEMMA CountFront ==
    ASSUME NEW S, NEW s \in Seq(S), s # <<>>, NEW A
    PROVE  Count(s, A) = Count(Front(s), A) + (IF s[Len(s)] \in A THEN 1 ELSE 0)
<1>1. PICK f, x : f = Front(s) /\ x = s[Len(s)]
  OBVIOUS
<1>2. f \in Seq(S) /\ x \in S /\ s = Append(f, x)
  BY <1>1, LastAndFront
<1>3. Count(Append(f, x), A) = Count(f, A) + (IF x \in A THEN 1 ELSE 0)
  BY <1>2, CountAppend
<1> QED
  BY <1>1, <1>2, <1>3

WithLast(s, x) == [s EXCEPT ![Len(s)] = x]

LEMMA LastChanged ==
    ASSUME NEW S, NEW s \in Seq(S), s # <<>>, NEW x \in S
    PROVE  /\ WithLast(s, x) \in Seq(S) /\ Len(WithLast(s, x)) = Len(s) /\ WithLast(s, x)[Len(s)] = x
           /\ \A k \in 1..(Len(s) - 1) : WithLast(s, x)[k] = s[k]
           /\ WithLast(s, x) = Append(Front(s), x)
<1>0. PICK u : u = WithLast(s, x)
  OBVIOUS
<1>1. PICK n \in Nat \ {0} : n = Len(s)
  OBVIOUS
<1>2. u \in Seq(S) /\ Len(u) = n /\ u[n] = x /\ \A k \in 1..(n - 1) : u[k] = s[k]
  BY <1>0, <1>1 DEF WithLast
<1>3. PICK f : f = Front(s)
  OBVIOUS
<1>4. f \in Seq(S) /\ Len(f) = n - 1 /\ \A k \in 1..(n - 1) : f[k] = s[k]
  BY <1>1, <1>3, LastAndFront
<1>5. Append(f, x) \in Seq(S) /\ Len(Append(f, x)) = n
  BY <1>4
<1>6. \A k \in 1..n : Append(f, x)[k] = u[k]
  BY <1>2, <1>4
<1>7. u = Append(f, x)
  BY <1>2, <1>5, <1>6, SeqEqual
<1> QED
  BY <1>0, <1>1, <1>2, <1>3, <1>7

LEMMA CountChanged ==
    ASSUME NEW S, NEW s \in Seq(S), s # <<>>, NEW x \in S, NEW A
    PROVE  /\ Count(Front(s), A) \in Nat
           /\ Count(s, A) = Count(Front(s), A) + (IF s[Len(s)] \in A THEN 1 ELSE 0)
           /\ Count(WithLast(s, x), A) = Count(Front(s), A) + (IF x \in A THEN 1 ELSE 0)
<1>1. Front(s) \in Seq(S)
  BY LastAndFront
<1>2. Count(Front(s), A) \in Nat
  BY <1>1, CountType
<1>4. WithLast(s, x) = Append(Front(s), x)
  BY LastChanged
<1>5. Count(WithLast(s, x), A) = Count(Front(s), A) + (IF x \in A THEN 1 ELSE 0)
  BY <1>1, <1>4, CountAppend
<1> QED
  BY <1>2, <1>5, CountFront

\* How often e is among the names of t.
TimesIn(e, t) == Cardinality({k \in DOMAIN t : t[k].name = e})

LEMMA ShownTimes ==
    ASSUME NEW t \in Seq(Items), NEW D \in SUBSET Items, ListsOnce(t, D), NEW e \in Entry
    PROVE  TimesIn(e, t) = IF Item(e) \in D THEN 1 ELSE 0
<1>1. PICK n \in Nat : n = Len(t) /\ DOMAIN t = 1..n
  OBVIOUS
<1>2. /\ \A k \in 1..n : t[k] \in D
      /\ \A j, k \in 1..n : t[j] = t[k] => j = k
      /\ \A x \in D : \E k \in 1..n : t[k] = x
  BY <1>1, Zenon DEF ListsOnce
<1>3. \A k \in 1..n : t[k].name = e <=> t[k] = Item(e)
  BY <1>2, ItemTypes
<1>4. CASE Item(e) \in D
  <2>1. PICK k \in 1..n : t[k] = Item(e)
    BY <1>2, <1>4
  <2>2. {j \in DOMAIN t : t[j].name = e} = {k}
    BY <1>1, <1>2, <1>3, <2>1
  <2> QED
    BY <1>4, <2>2, FS_Singleton DEF TimesIn
<1>5. CASE Item(e) \notin D
  <2>1. {j \in DOMAIN t : t[j].name = e} = {}
    BY <1>1, <1>2, <1>3, <1>5
  <2> QED
    BY <1>5, <2>1, FS_EmptySet DEF TimesIn
<1> QED
  BY <1>4, <1>5

-----------------------------------------------------------------------------
(* The inductive invariant.                                                *)

Frames == [dir : Dir \cup {Outside}, header : BOOLEAN, unread : SUBSET Items,
           items : SUBSET Items, todo : Seq(Items), listed : BOOLEAN]
Listings == [dir : Dir \cup {Outside}, header : BOOLEAN, found : SUBSET Items, shown : Seq(Items)]

Types == /\ alive \subseteq Entry
         /\ width \in Int
         /\ header \in BOOLEAN
         /\ files \in Seq({Item(e) : e \in Entry})
         /\ dirs \in Seq({Item(d) : d \in Dir})
         /\ stack \in Seq(Frames)
         /\ out \in Seq(Listings)

\* Every directory is its own ".": the walk with -a and -R does not end well.
Endless == {"a", "R"} \subseteq options

\* What the depth of a directory may be.
IsDepth(depth) == /\ depth \in [Dir -> 1..MaxDepth]
                  /\ \A d \in Dir : Parent[d] \in Dir => depth[Parent[d]] < depth[d]
Depth == CHOOSE depth : IsDepth(depth)

\* The names a call for directory d may come across.
Expected(d) == {Item(e) : e \in {f \in Entry : Parent[f] = d /\ Visible(f)}}
                 \cup (IF "a" \in options THEN DotItems(d) ELSE {})

SeenBy(f) == f.unread \cup f.items

\* A call: it comes across what it should, and, as long as that is there and lstat
\* does not refuse it, keeps it.
CallSees(f) ==
    /\ SeenBy(f) \subseteq IF f.dir = Outside THEN {} ELSE Expected(f.dir)
    /\ f.dir \in Dir \ Unreachable =>
         \A e \in alive : Parent[e] = f.dir /\ Visible(e) => Item(e) \in SeenBy(f)

CallWaits(f) ==
    /\ f.listed => f.unread = {}
    /\ \A j, k \in 1..Len(f.todo) : f.todo[j] = f.todo[k] => j = k
    /\ \A k \in 1..Len(f.todo) : f.todo[k] \in f.items /\ IsDirItem(f.todo[k])
    /\ f.todo # <<>> => "R" \in options /\ f.listed

\* The calls are for ever deeper directories.
Calls ==
    /\ \A k \in 1..Len(stack) : CallSees(stack[k]) /\ CallWaits(stack[k])
    /\ ~Endless => \A k \in 1..Len(stack) : stack[k].dir \in Dir /\ k <= Depth[stack[k].dir]

Phases == /\ pc \in {"parse", "stat", "files"} => begun = 0 /\ out = <<>>
          /\ pc = "done" => begun = Len(dirs)
          /\ pc \notin {"walk", "crashed", "counting"} => stack = <<>>

\* Listings of d, and those made from x; calls for d that have not listed it; calls
\* that still have to call for x.
ListingsOf(d) == {l \in Listings : l.dir = d}
ListingsWith(x) == {l \in Listings : x \in l.found}
OpenCalls(d) == {f \in Frames : f.dir = d /\ ~f.listed}
WaitingFor(x) == {f \in Frames : \E j \in 1..Len(f.todo) : f.todo[j] = x}

NamedCalls(n, d) == Cardinality({k \in 1..n : dirs[k].node = d})

\* How often x was found, with -R, and in how many calls it still has its turn to come.
Found(x) == IF "R" \in options THEN Count(out, ListingsWith(x)) ELSE 0
Waiting(x) == Count(stack, WaitingFor(x))

\* Every call of listDirectoryContents that was due was made or is waited for.
Balanced(d) ==
    (Count(out, ListingsOf(d)) + Count(stack, OpenCalls(d)))
        + (Waiting(Item(d)) + Waiting(Dot(d)) + Waiting(DotDot(d)))
      = NamedCalls(begun, d) + (Found(Item(d)) + Found(Dot(d)) + Found(DotDot(d)))

Balance == \A d \in Dir : Balanced(d)

\* Each listing comes from what it should and shows what it comes from.
Complete(l) ==
    l.dir \in Dir =>
      /\ l.found \subseteq Expected(l.dir)
      /\ l.dir \notin Unreachable =>
           \A e \in alive : Parent[e] = l.dir /\ Visible(e) => Item(e) \in l.found
      /\ Shows => ListsOnce(l.shown, l.found)

InTheirOrder(l) ==
    "l" \in options \/ "1" \in options =>
        \A j, k \in 1..Len(l.shown) : j < k => ~Precedes(options, l.shown[k], l.shown[j])

Outputs == \A i \in 1..Len(out) : Complete(out[i]) /\ InTheirOrder(out[i])

LsInv == /\ Types /\ LsTypeOK /\ Phases /\ CrashHasCause
         /\ Calls /\ Balance /\ Outputs

LEMMA DepthIs == IsDepth(Depth)
<1>1. \E depth : IsDepth(depth)
  BY TreeAssumption DEF IsDepth
<1> QED
  BY <1>1 DEF Depth

LEMMA DepthFacts ==
    /\ \A d \in Dir : Depth[d] \in Nat /\ 1 <= Depth[d] /\ Depth[d] <= MaxDepth
    /\ \A d \in Dir : Parent[d] \in Dir => Depth[Parent[d]] < Depth[d] /\ Parent[d] # d
    /\ MaxDepth \in Nat
<1>1. /\ \A d \in Dir : Depth[d] \in 1..MaxDepth
      /\ \A d \in Dir : Parent[d] \in Dir => Depth[Parent[d]] < Depth[d]
  BY DepthIs DEF IsDepth
<1>2. MaxDepth \in Nat
  BY TreeAssumption
<1>3. \A d \in Dir : Depth[d] \in Nat /\ 1 <= Depth[d] /\ Depth[d] <= MaxDepth
  BY <1>1, <1>2
<1>4. \A d \in Dir : Parent[d] \in Dir => Parent[d] # d
  BY <1>1, <1>3
<1> QED
  BY <1>1, <1>2, <1>3, <1>4

\* Where nothing has been opened, nothing can be wrong.
LEMMA Idle ==
    Types /\ stack = <<>> /\ out = <<>> /\ begun = 0 => Calls /\ Balance /\ Outputs
<1> SUFFICES ASSUME Types, stack = <<>>, out = <<>>, begun = 0
             PROVE  Calls /\ Balance /\ Outputs
  OBVIOUS
<1>1. Len(stack) = 0 /\ Len(out) = 0 /\ 1..0 = {}
  OBVIOUS
<1>2. \A A : Count(stack, A) = 0 /\ Count(out, A) = 0
  <2>1. \A A : {k \in DOMAIN <<>> : <<>>[k] \in A} = {}
    OBVIOUS
  <2> QED
    BY <2>1, FS_EmptySet DEF Count
<1>3. \A d : NamedCalls(begun, d) = 0
  <2>1. \A d : {k \in 1..0 : dirs[k].node = d} = {}
    OBVIOUS
  <2> QED
    BY <2>1, FS_EmptySet DEF NamedCalls
<1>6. \A x : Found(x) = 0 /\ Waiting(x) = 0
  BY <1>2 DEF Found, Waiting
<1>4. Balance
  BY <1>2, <1>3, <1>6 DEF Balance, Balanced
<1>5. Calls /\ Outputs
  BY <1>1 DEF Calls, Outputs
<1> QED
  BY <1>4, <1>5

LEMMA IdleLater ==
    ASSUME Types', stack' = <<>>, out' = <<>>, begun' = 0
    PROVE  Calls' /\ Balance' /\ Outputs'
<1>1. (Types /\ stack = <<>> /\ out = <<>> /\ begun = 0 => Calls /\ Balance /\ Outputs)'
  BY Idle, PTL
<1> QED
  BY <1>1

LEMMA InitIsRight == Init => LsInv
<1> SUFFICES ASSUME Init PROVE LsInv
  OBVIOUS
<1> USE DEF Init
<1>1. Types
  <2>1. width \in Int
    BY AttributeAssumption
  <2>2. \A S : <<>> \in Seq(S)
    OBVIOUS
  <2> QED
    BY <2>1, <2>2, Zenon DEF Types
<1>2. LsTypeOK
  BY TreeAssumption DEF LsTypeOK
<1>3. Phases
  BY TreeAssumption DEF Phases
<1>4. CrashHasCause
  BY DEF CrashHasCause
<1> QED
  BY <1>1, <1>2, <1>3, <1>4, Idle DEF LsInv

LEMMA ParseFlagsStep == ASSUME LsInv, ParseFlags PROVE LsInv'
<1> USE DEF LsInv, ParseFlags, ui
<1>1. Types' /\ Phases' /\ CrashHasCause'
  BY DEF Types, Phases, CrashHasCause
<1>2. stack = <<>> /\ out = <<>> /\ begun = 0 /\ Types
  BY DEF Phases
<1>3. LsTypeOK'
  BY <1>2 DEF LsTypeOK
<1> QED
  BY <1>1, <1>2, <1>3, IdleLater

LEMMA ParseNamesStep == ASSUME LsInv, ParseNames PROVE LsInv'
<1> USE DEF LsInv, ParseNames, ui
<1>1. Types' /\ Phases' /\ CrashHasCause'
  BY DEF Types, Phases, CrashHasCause
<1>2. stack = <<>> /\ out = <<>> /\ begun = 0 /\ Types
  BY DEF Phases
<1>3. LsTypeOK'
  BY <1>2 DEF LsTypeOK
<1> QED
  BY <1>1, <1>2, <1>3, IdleLater

LEMMA NamesDoneStep == ASSUME LsInv, NamesDone PROVE LsInv'
<1> USE DEF LsInv, NamesDone, ui
<1>1. Types' /\ Phases' /\ CrashHasCause'
  BY DEF Types, Phases, CrashHasCause
<1>2. stack = <<>> /\ out = <<>> /\ begun = 0 /\ Types
  BY DEF Phases
<1>3. LsTypeOK'
  BY <1>2 DEF LsTypeOK
<1> QED
  BY <1>1, <1>2, <1>3, IdleLater

LEMMA StatNameStep == ASSUME LsInv, StatName PROVE LsInv'
<1> USE DEF LsInv, ui
<1>1. stack = <<>> /\ out = <<>> /\ begun = 0 /\ Types /\ LsTypeOK /\ Phases
  BY DEF Phases, StatName
<1>2. /\ UNCHANGED <<pc, options, tty, width, alive, begun, header, stack, out>> /\ pc = "stat"
      /\ \/ UNCHANGED <<files, dirs>>
         \/ \E e \in alive : /\ IsDirItem(Item(e)) /\ dirs' = Append(dirs, Item(e)) /\ files' = files
         \/ \E e \in alive : /\ files' = Append(files, Item(e)) /\ dirs' = dirs
                             /\ (~IsDirItem(Item(e)) \/ "d" \in options)
  <2>1. PICK e : e = Head(args).name
    OBVIOUS
  <2>2. PICK found \in BOOLEAN :
           LET listed == found /\ IsDirItem(Item(e)) /\ "d" \notin options
           IN  /\ dirs' = IF listed THEN Append(dirs, Item(e)) ELSE dirs
               /\ files' = IF found /\ ~listed THEN Append(files, Item(e)) ELSE files
               /\ found => e \in alive
    BY <2>1 DEF StatName, Lstat
  <2>3. UNCHANGED <<pc, options, tty, width, alive, begun, header, stack, out>> /\ pc = "stat"
    BY DEF StatName
  <2> QED
    BY <2>2, <2>3
<1> DEFINE DS == {Item(d) : d \in Dir}
           FS == {Item(e) : e \in Entry}
<1>3. dirs \in Seq(DS) /\ files \in Seq(FS)
  BY <1>1 DEF Types
<1>4. CASE UNCHANGED <<files, dirs>>
  BY <1>1, <1>2, <1>4, IdleLater DEF Types, LsTypeOK, Phases, CrashHasCause
<1>5. ASSUME NEW e \in alive, IsDirItem(Item(e)), dirs' = Append(dirs, Item(e)), files' = files
      PROVE  LsInv'
  <2>1. e \in Dir /\ Item(e) \in DS /\ Item(e).node = e
    BY <1>1, <1>5, TreeAssumption, ItemTypes DEF Types, IsDirItem
  <2>2. dirs' \in Seq(DS)
    BY <1>3, <1>5, <2>1
  <2>3. Types' /\ Phases' /\ CrashHasCause'
    BY <1>1, <1>2, <1>5, <2>2 DEF Types, Phases, CrashHasCause
  <2>4. \A i \in DOMAIN dirs' : dirs'[i].node \in Dir
    BY <2>2, ItemTypes, TreeAssumption
  <2>5. LsTypeOK'
    BY <1>1, <1>2, <1>5, <2>2, <2>4 DEF LsTypeOK
  <2> QED
    BY <1>1, <1>2, <2>3, <2>5, IdleLater
<1>6. ASSUME NEW e \in alive, files' = Append(files, Item(e)), dirs' = dirs,
             ~IsDirItem(Item(e)) \/ "d" \in options
      PROVE  LsInv'
  <2>1. e \in Entry /\ Item(e) \in FS /\ Item(e).node = e
    BY <1>1, ItemTypes DEF Types
  <2>2. files' \in Seq(FS) /\ Len(files') = Len(files) + 1 /\ files'[Len(files) + 1] = Item(e)
        /\ \A i \in 1..Len(files) : files'[i] = files[i]
    BY <1>3, <1>6, <2>1
  <2>3. Types' /\ Phases' /\ CrashHasCause'
    BY <1>1, <1>2, <1>6, <2>2 DEF Types, Phases, CrashHasCause
  <2>4. \A i \in DOMAIN files' : files'[i].node \in Entry /\ ("d" \in options \/ files'[i].node \notin Dir)
    <3>1. "d" \in options \/ e \notin Dir
      BY <1>6, <2>1 DEF IsDirItem
    <3>2. \A i \in DOMAIN files' : i \in DOMAIN files \/ i = Len(files) + 1
      BY <1>3, <2>2
    <3>3. \A i \in DOMAIN files : files'[i] = files[i]
      BY <1>3, <2>2
    <3> QED
      BY <1>1, <2>1, <2>2, <3>1, <3>2, <3>3 DEF LsTypeOK
  <2>5. LsTypeOK'
    BY <1>1, <1>2, <1>6, <2>2, <2>4 DEF LsTypeOK
  <2> QED
    BY <1>1, <1>2, <2>3, <2>5, IdleLater
<1> QED
  BY <1>2, <1>4, <1>5, <1>6

\* What was printed stays right when entries vanish.
LEMMA OutputsKept ==
    ASSUME Outputs, UNCHANGED <<options, tty, out>>, alive' \subseteq alive
    PROVE  Outputs'
<1>1. ASSUME NEW l, Complete(l) PROVE Complete(l)'
  BY <1>1 DEF Complete, Shows, MultiColumn, Expected, Visible
<1>2. ASSUME NEW l, InTheirOrder(l) PROVE InTheirOrder(l)'
  BY <1>2 DEF InTheirOrder, Precedes, Before
<1>3. \A i \in 1..Len(out) : Complete(out[i])' /\ InTheirOrder(out[i])'
  <2> SUFFICES ASSUME NEW i \in 1..Len(out) PROVE Complete(out[i])' /\ InTheirOrder(out[i])'
    OBVIOUS
  <2>1. PICK l : l = out[i]
    OBVIOUS
  <2>2. out'[i] = l /\ Complete(l) /\ InTheirOrder(l)
    BY <2>1 DEF Outputs
  <2>3. Complete(l)' /\ InTheirOrder(l)'
    BY <1>1, <1>2, <2>2
  <2> QED
    BY <2>2, <2>3 DEF Complete, InTheirOrder
<1> QED
  BY <1>3 DEF Outputs

\* Where only pc changes.
LEMMA WalkUnchanged ==
    ASSUME Calls, Balance, Outputs,
           UNCHANGED <<options, tty, width, alive, dirs, begun, stack, out>>
    PROVE  Calls' /\ Balance' /\ Outputs'
<1>1. Calls'
  BY DEF Calls, CallSees, CallWaits, Expected, Visible, SeenBy, Endless
<1>2. Balance'
  BY DEF Balance, Balanced, NamedCalls, Found, Waiting
<1>3. Outputs'
  BY OutputsKept
<1> QED
  BY <1>1, <1>2, <1>3

LEMMA CrashStep == ASSUME LsInv, Crash, CrashHasCause' PROVE LsInv'
<1>1. /\ UNCHANGED <<options, tty, width, alive, files, dirs, begun, header, stack, out>>
      /\ pc' = "crashed"
  BY DEF Crash, ui
<1>2. Calls' /\ Balance' /\ Outputs'
  BY <1>1, WalkUnchanged DEF LsInv
<1>3. Types' /\ LsTypeOK' /\ Phases'
  BY <1>1 DEF LsInv, Types, LsTypeOK, Phases
<1> QED
  BY <1>2, <1>3 DEF LsInv

LEMMA FinishStep == ASSUME LsInv, Finish PROVE LsInv'
<1>1. /\ UNCHANGED <<options, tty, width, alive, files, dirs, begun, header, stack, out>>
      /\ pc = "dirs" /\ pc' = "done" /\ begun = Len(dirs)
  BY DEF Finish, ui
<1>2. Calls' /\ Balance' /\ Outputs'
  BY <1>1, WalkUnchanged DEF LsInv
<1>3. Types' /\ LsTypeOK' /\ Phases' /\ CrashHasCause'
  BY <1>1 DEF LsInv, Types, LsTypeOK, Phases, CrashHasCause
<1> QED
  BY <1>2, <1>3 DEF LsInv

\* The overflow of prefix.
LEMMA OverflowPrefixStep == ASSUME LsInv, OverflowPrefix PROVE LsInv'
<1>1. Crash /\ NextIsOverlong
  BY DEF OverflowPrefix
<1>2. CrashHasCause'
  BY <1>1 DEF Crash, CrashHasCause, NextIsOverlong
<1> QED
  BY <1>1, <1>2, CrashStep

LEMMA OtherRemovesStep == ASSUME LsInv, NEW e \in Entry, OtherRemoves(e) PROVE LsInv'
<1>1. /\ UNCHANGED <<pc, args, options, tty, width, files, dirs, begun, header, stack, out>>
      /\ alive' = alive \ {e} /\ e \in alive /\ \A f \in alive : Parent[f] # e
      /\ pc # "crashed"
  BY DEF OtherRemoves, ui
<1>2. Types' /\ LsTypeOK' /\ CrashHasCause'
  BY <1>1 DEF LsInv, Types, LsTypeOK, CrashHasCause
<1>3. Phases'
  BY <1>1 DEF LsInv, Phases
<1>4. Calls'
  BY <1>1 DEF LsInv, Calls, CallSees, CallWaits, Expected, Visible, SeenBy, Endless
<1>5. Balance'
  BY <1>1 DEF LsInv, Balance, Balanced, NamedCalls, Found, Waiting
<1>6. Outputs'
  BY <1>1, OutputsKept DEF LsInv
<1> QED
  BY <1>2, <1>3, <1>4, <1>5, <1>6 DEF LsInv

\* What Sorted leaves of the files and directories of the command line.
LEMMA NamesSorted ==
    ASSUME NEW opts, NEW E \in SUBSET Entry, NEW s \in Seq({Item(e) : e \in E}), NEW t \in Sorted(opts, s)
    PROVE  /\ t \in Seq({Item(e) : e \in E}) /\ t \in Seq(Items)
           /\ \A i, j \in 1..Len(t) : i < j => ~Precedes(opts, t[j], t[i])
<1> DEFINE S == {Item(e) : e \in E}
<1>1. PICK n \in Nat : n = Len(s) /\ s \in [1..n -> S]
  OBVIOUS
<1>2. IsFiniteSet(1..n)
  BY FS_Interval
<1> HIDE DEF S
<1>3. /\ t \in Seq(S)
      /\ \A i, j \in 1..Len(t) : i < j => ~Precedes(opts, t[j], t[i])
  BY <1>1, <1>2, SortedRearranges
<1>4. S \subseteq Items
  BY DEF S, Items
<1>5. t \in Seq(Items)
  BY <1>3, <1>4, SeqMonotonic
<1> QED
  BY <1>3, <1>5 DEF S

LEMMA OutputAppended ==
    ASSUME out \in Seq(Listings), Outputs, UNCHANGED <<options, tty, alive>>,
           NEW l \in Listings, out' = Append(out, l), Complete(l), InTheirOrder(l)
    PROVE  /\ out' \in Seq(Listings) /\ Len(out') = Len(out) + 1 /\ out'[Len(out) + 1] = l
           /\ \A i \in 1..Len(out) : out'[i] = out[i]
           /\ Outputs'
<1>1. PICK n \in Nat : n = Len(out)
  OBVIOUS
<1>2. /\ out' \in Seq(Listings) /\ Len(out') = n + 1 /\ out'[n + 1] = l
      /\ \A i \in 1..n : out'[i] = out[i]
  BY <1>1
<1>3. ASSUME NEW m, Complete(m), InTheirOrder(m), NEW i, out'[i] = m
      PROVE  Complete(out[i])' /\ InTheirOrder(out[i])'
  <2>1. Complete(out[i])'
    BY <1>3 DEF Complete, Shows, MultiColumn, Expected, Visible
  <2>2. InTheirOrder(out[i])'
    BY <1>3 DEF InTheirOrder, Precedes, Before
  <2> QED
    BY <2>1, <2>2
<1>4. ASSUME NEW i \in 1..(n + 1)
      PROVE  \E m : Complete(m) /\ InTheirOrder(m) /\ out'[i] = m
  <2>1. i \in 1..n \/ i = n + 1
    OBVIOUS
  <2> QED
    BY <1>1, <1>2, <2>1, Zenon DEF Outputs
<1>5. Outputs'
  <2>1. \A i \in 1..(n + 1) : (Complete(out[i]) /\ InTheirOrder(out[i]))'
    BY <1>3, <1>4
  <2> QED
    BY <1>2, <2>1 DEF Outputs
<1> QED
  BY <1>1, <1>2, <1>5

LEMMA ListFilesStep == ASSUME LsInv, ListFiles PROVE LsInv'
<1>1. stack = <<>> /\ out = <<>> /\ begun = 0 /\ pc = "files" /\ Types /\ LsTypeOK /\ Phases
  BY DEF LsInv, Phases, ListFiles
<1>2. PICK fs \in Sorted(options, files), ds \in Sorted(options, dirs) :
         IF fs # <<>> /\ ListingCrashes(fs) THEN Crash
         ELSE /\ out' = IF fs = <<>> THEN out ELSE Append(out, Listing(Outside, FALSE, {}, fs))
              /\ dirs' = ds
              /\ header' = (Len(files) + Len(dirs) > 1)
              /\ pc' = IF CountsForEver(fs) THEN "counting" ELSE "dirs"
              /\ UNCHANGED <<args, options, ui, alive, files, begun, stack>>
  BY Zenon DEF ListFiles
<1>3. /\ fs \in Seq({Item(e) : e \in Entry}) /\ fs \in Seq(Items)
      /\ \A i, j \in 1..Len(fs) : i < j => ~Precedes(options, fs[j], fs[i])
  BY <1>1, NamesSorted DEF Types
<1>4. ds \in Seq({Item(d) : d \in Dir}) /\ width \in Int
  BY <1>1, NamesSorted, TreeAssumption DEF Types
<1>5. CASE fs # <<>> /\ ListingCrashes(fs)
  <2>1. Crash
    BY <1>2, <1>5
  <2>2. \A i \in 1..Len(fs) : fs[i].name \in Entry
    BY <1>3, ItemTypes
  <2>3. CrashHasCause'
    BY <1>3, <1>4, <1>5, <2>1, <2>2, ListingCrashCauses DEF Crash, CrashHasCause, ui, MultiColumn
  <2> QED
    BY <2>1, <2>3, CrashStep
<1>6. CASE ~(fs # <<>> /\ ListingCrashes(fs))
  <2>1. /\ out' = IF fs = <<>> THEN out ELSE Append(out, Listing(Outside, FALSE, {}, fs))
        /\ dirs' = ds
        /\ header' \in BOOLEAN
        /\ pc' \in {"dirs", "counting"}
        /\ UNCHANGED <<args, options, tty, width, alive, files, begun, stack>>
    <3>1. (Len(files) + Len(dirs) > 1) \in BOOLEAN
      OBVIOUS
    <3> QED
      BY <1>2, <1>6, <3>1 DEF ui
  <2>2. begun' = 0 /\ stack' = <<>> /\ dirs' \in Seq({Item(d) : d \in Dir})
    BY <1>1, <1>4, <2>1
  <2>3. \A i \in DOMAIN dirs' : dirs'[i].node \in Dir
    BY <2>2, ItemTypes, TreeAssumption
  <2>4. LsTypeOK' /\ Phases' /\ CrashHasCause'
    BY <1>1, <2>1, <2>2, <2>3 DEF LsTypeOK, Phases, CrashHasCause
  <2>5. CASE fs = <<>>
    <3>1. out' = <<>> /\ Types'
      BY <1>1, <2>1, <2>2, <2>5 DEF Types
    <3> QED
      BY <2>2, <2>4, <3>1, IdleLater DEF LsInv
  <2>6. CASE fs # <<>>
    <3>1. PICK l : l = Listing(Outside, FALSE, {}, fs)
      OBVIOUS
    <3>2. Shown(fs) \in Seq(Items) /\ ("l" \in options \/ "1" \in options => Shown(fs) = fs)
      BY <1>3, <1>4, <1>6, <2>6, ShownType
    <3>3. l \in Listings /\ l.dir = Outside /\ l.found = {} /\ l.shown = Shown(fs)
      BY <3>1, <3>2 DEF Listing, Listings
    <3>4. Complete(l) /\ InTheirOrder(l)
      BY <1>3, <3>2, <3>3, TreeAssumption DEF Complete, InTheirOrder
    <3>5. out' = Append(out, l)
      BY <2>1, <2>6, <3>1
    <3>6. /\ out' \in Seq(Listings) /\ Outputs'
          /\ Len(out') = 1 /\ out'[1] = l
      <4>1. out \in Seq(Listings) /\ Outputs /\ UNCHANGED <<options, tty, alive>> /\ Len(out) = 0
        BY <1>1, <2>1 DEF LsInv, Types
      <4> QED
        BY <3>3, <3>4, <3>5, <4>1, OutputAppended
    <3>7. Types'
      BY <1>1, <2>1, <2>2, <3>6 DEF Types
    <3>8. /\ \A d \in Dir : Count(out', ListingsOf(d)) = 0
          /\ \A x : Count(out', ListingsWith(x)) = 0
      <4>1. /\ \A d \in Dir : \A k \in 1..Len(out') : out'[k] \notin ListingsOf(d)
            /\ \A x : \A k \in 1..Len(out') : out'[k] \notin ListingsWith(x)
        BY <3>3, <3>6, TreeAssumption DEF ListingsOf, ListingsWith
      <4> QED
        BY <3>6, <4>1, CountType
    <3>9. \A A : Count(stack', A) = 0
      <4>1. \A A : {k \in DOMAIN <<>> : <<>>[k] \in A} = {}
        OBVIOUS
      <4> QED
        BY <2>2, <4>1, FS_EmptySet DEF Count
    <3>10. \A d : NamedCalls(begun, d)' = 0
      <4>1. \A d : {k \in 1..0 : dirs'[k].node = d} = {}
        OBVIOUS
      <4> QED
        BY <2>2, <4>1, FS_EmptySet DEF NamedCalls
    <3>11. Balance'
      <4>1. \A x : Found(x)' = 0 /\ Waiting(x)' = 0
        BY <3>8, <3>9 DEF Found, Waiting
      <4> QED
        BY <3>8, <3>9, <3>10, <4>1 DEF Balance, Balanced
    <3>12. Calls'
      BY <2>2 DEF Calls
    <3> QED
      BY <2>4, <3>6, <3>7, <3>11, <3>12 DEF LsInv
  <2> QED
    BY <2>5, <2>6
<1> QED
  BY <1>5, <1>6

\* A new call has everything before it.
LEMMA NewCall ==
    ASSUME alive \subseteq Entry, NEW x \in Items, IsDirItem(x), NEW head \in BOOLEAN,
           NEW f, f = NewFrame(x, head)
    PROVE  /\ f \in Frames /\ f.dir = x.node /\ ~f.listed /\ f.todo = <<>>
           /\ CallSees(f) /\ CallWaits(f)
           /\ \A d : (f \in OpenCalls(d) <=> d = x.node) /\ f \notin WaitingFor(d)
<1>1. \A d \in Dir : Children(d) \subseteq Expected(d) /\ Expected(d) \subseteq Items
  BY TreeAssumption DEF Children, Expected, Items
<1>2. f = [dir |-> x.node, header |-> head,
           unread |-> IF x.node = Outside THEN {} ELSE Children(x.node),
           items |-> {}, todo |-> <<>>, listed |-> FALSE]
  BY DEF NewFrame
<1>3. /\ f.dir = x.node /\ ~f.listed /\ f.todo = <<>> /\ f.items = {} /\ Len(f.todo) = 0
      /\ f.unread = IF x.node = Outside THEN {} ELSE Children(x.node)
  BY <1>2
<1>4. x.node \in Dir \cup {Outside} /\ Outside \notin Dir
  BY TreeAssumption DEF IsDirItem
<1>5. f \in Frames
  <2>1. f.unread \in SUBSET Items
    BY <1>1, <1>3, <1>4
  <2>2. <<>> \in Seq(Items)
    OBVIOUS
  <2> QED
    BY <1>2, <1>3, <1>4, <2>1, <2>2 DEF Frames
<1>6. CallSees(f)
  <2>1. SeenBy(f) = IF x.node = Outside THEN {} ELSE Children(x.node)
    BY <1>3 DEF SeenBy
  <2>2. f.dir \in Dir => \A e \in alive : Parent[e] = f.dir /\ Visible(e) => Item(e) \in SeenBy(f)
    BY <1>3, <1>4, <2>1 DEF Children
  <2> QED
    BY <1>1, <1>3, <1>4, <2>1, <2>2 DEF CallSees
<1>7. CallWaits(f)
  BY <1>3 DEF CallWaits
<1>8. \A d : (f \in OpenCalls(d) <=> d = x.node) /\ f \notin WaitingFor(d)
  BY <1>3, <1>5 DEF OpenCalls, WaitingFor
<1> QED
  BY <1>3, <1>5, <1>6, <1>7, <1>8

LEMMA OneMoreNamed ==
    ASSUME NEW n \in Nat, NEW d
    PROVE  /\ NamedCalls(n, d) \in Nat
           /\ NamedCalls(n + 1, d) = NamedCalls(n, d) + (IF dirs[n + 1].node = d THEN 1 ELSE 0)
<1>0. PICK K, L : K = {k \in 1..n : dirs[k].node = d} /\ L = {k \in 1..(n + 1) : dirs[k].node = d}
  OBVIOUS
<1>1. 1 \in Int /\ n \in Int
  OBVIOUS
<1>2. IsFiniteSet(1..n)
  BY <1>1, FS_Interval
<1>3. IsFiniteSet(K) /\ Cardinality(K) \in Nat
  BY <1>0, <1>2, FS_Subset, FS_CardinalityType
<1>4. L = IF dirs[n + 1].node = d THEN K \cup {n + 1} ELSE K
  <2>1. \A k \in 1..(n + 1) : k \in 1..n \/ k = n + 1
    OBVIOUS
  <2>2. n + 1 \in 1..(n + 1) /\ \A k \in 1..n : k \in 1..(n + 1)
    OBVIOUS
  <2> QED
    BY <1>0, <2>1, <2>2
<1>5. Cardinality(K \cup {n + 1}) = Cardinality(K) + 1
  <2>1. n + 1 \notin K
    BY <1>0
  <2> QED
    BY <1>3, <2>1, FS_AddElement
<1>6. NamedCalls(n, d) = Cardinality(K) /\ NamedCalls(n + 1, d) = Cardinality(L)
  BY <1>0 DEF NamedCalls
<1> QED
  BY <1>3, <1>4, <1>5, <1>6

\* Why opendir fails.
LEMMA OpenCrashCauses ==
    ASSUME LsInv, NEW x \in Items, IsDirItem(x), OpenFails(x), Len(stack) < MaxDepth \/ Endless
    PROVE  (\E d \in Dir : d \notin alive) \/ Unreadable # {} \/ Endless
<1>1. CASE x.node # Outside /\ (x.node \notin alive \/ x.node \in Unreadable)
  BY <1>1 DEF IsDirItem
<1>2. CASE Len(stack) = MaxDepth
  <2>1. Len(stack) \in Nat
    BY DEF LsInv, Types
  <2> QED
    BY <1>2, <2>1
<1> QED
  BY <1>1, <1>2 DEF OpenFails

LEMMA OpenNamedStep == ASSUME LsInv, OpenNamed PROVE LsInv'
<1>1. /\ pc = "dirs" /\ stack = <<>> /\ Len(stack) = 0 /\ begun \in Nat /\ begun < Len(dirs)
      /\ Types /\ LsTypeOK /\ Phases /\ alive \subseteq Entry /\ dirs \in Seq({Item(d) : d \in Dir})
  BY DEF LsInv, Types, LsTypeOK, Phases, OpenNamed
<1>2. PICK x : x = dirs[begun + 1]
  OBVIOUS
<1>3. PICK d \in Dir : x = Item(d)
  BY <1>1, <1>2
<1>4. /\ x \in Items /\ x.node = d /\ IsDirItem(x) /\ d \in Entry
      /\ Depth[d] \in Nat /\ 1 <= Depth[d] /\ 1 <= MaxDepth /\ MaxDepth \in Nat
  BY <1>3, ItemTypes, TreeAssumption, DepthFacts DEF IsDirItem
<1>5. CASE OpenFails(x)
  <2>1. Crash
    BY <1>2, <1>5 DEF OpenNamed
  <2>2. (\E e \in Dir : e \notin alive) \/ Unreadable # {} \/ Endless
    BY <1>1, <1>4, <1>5, OpenCrashCauses
  <2>3. CrashHasCause'
    BY <2>1, <2>2 DEF Crash, CrashHasCause, ui, Endless
  <2> QED
    BY <2>1, <2>3, CrashStep
<1>6. CASE ~OpenFails(x)
  <2>0. PICK f : f = NewFrame(x, header)
    OBVIOUS
  <2>1. /\ stack' = <<f>> /\ begun' = begun + 1 /\ pc' = "walk"
        /\ UNCHANGED <<args, options, tty, width, alive, files, dirs, header, out>>
    BY <1>2, <1>6, <2>0 DEF OpenNamed, ui
  <2>2. header \in BOOLEAN
    BY <1>1 DEF Types
  <2>3. /\ f \in Frames /\ f.dir = d /\ ~f.listed /\ f.todo = <<>>
        /\ CallSees(f) /\ CallWaits(f)
        /\ \A e : (f \in OpenCalls(e) <=> e = d) /\ f \notin WaitingFor(e)
    BY <1>1, <1>4, <2>0, <2>2, NewCall
  <2>4. stack' \in Seq(Frames) /\ Len(stack') = 1 /\ stack'[1] = f /\ stack' # <<>>
    BY <2>1, <2>3
  <2>5. Types'
    BY <1>1, <2>1, <2>4 DEF Types
  <2>6. LsTypeOK'
    <3>1. begun + 1 \in 0..Len(dirs)
      BY <1>1
    <3>2. \A k \in 1..Len(stack') - 1 : stack'[k].listed
      BY <2>4
    <3> QED
      BY <1>1, <1>4, <2>1, <2>4, <3>1, <3>2 DEF LsTypeOK
  <2>7. Phases' /\ CrashHasCause'
    BY <1>1, <2>1 DEF Phases, CrashHasCause
  <2>8. Calls'
    <3>1. (CallSees(f) /\ CallWaits(f))'
      BY <2>1, <2>3 DEF CallSees, CallWaits, Expected, Visible, SeenBy
    <3>2. \A k \in 1..Len(stack') : k = 1
      BY <2>4
    <3>3. (CallSees(stack[1]) /\ CallWaits(stack[1]))'
      BY <2>4, <3>1 DEF CallSees, CallWaits, Expected, Visible, SeenBy
    <3>4. stack'[1].dir \in Dir /\ 1 <= Depth[stack'[1].dir]
      BY <1>4, <2>3, <2>4
    <3> QED
      BY <3>2, <3>3, <3>4 DEF Calls
  <2>9. Balance'
    <3> SUFFICES ASSUME NEW e \in Dir PROVE Balanced(e)'
      BY DEF Balance
    <3>1. Balanced(e)
      BY DEF LsInv, Balance
    <3>2. \A A : Count(stack, A) = 0
      <4>1. \A A : {k \in DOMAIN <<>> : <<>>[k] \in A} = {}
        OBVIOUS
      <4> QED
        BY <1>1, <4>1, FS_EmptySet DEF Count
    <3>3. \A A : Count(stack', A) = IF f \in A THEN 1 ELSE 0
      <4>1. stack' = Append(stack, f) /\ stack \in Seq(Frames)
        BY <1>1, <2>1, <2>3
      <4>2. \A A : Count(Append(stack, f), A) = Count(stack, A) + (IF f \in A THEN 1 ELSE 0)
        BY <2>3, <4>1, CountAppend
      <4> QED
        BY <3>2, <4>1, <4>2
    <3>4. /\ Count(stack', OpenCalls(e)) = IF e = d THEN 1 ELSE 0
          /\ Count(stack, OpenCalls(e)) = 0
          /\ \A y : Waiting(y) = 0 /\ Waiting(y)' = 0
      BY <2>3, <3>2, <3>3 DEF Waiting
    <3>5. /\ NamedCalls(begun + 1, e) = NamedCalls(begun, e) + (IF e = d THEN 1 ELSE 0)
          /\ NamedCalls(begun, e) \in Nat
      <4>1. begun \in Nat /\ dirs[begun + 1].node = d
        BY <1>1, <1>2, <1>4
      <4>2. /\ NamedCalls(begun, e) \in Nat
            /\ NamedCalls(begun + 1, e) = NamedCalls(begun, e) + (IF dirs[begun + 1].node = e THEN 1 ELSE 0)
        BY <4>1, OneMoreNamed
      <4> QED
        BY <4>1, <4>2
    <3>6. NamedCalls(begun, e)' = NamedCalls(begun + 1, e)
      BY <2>1 DEF NamedCalls
    <3>7. /\ \A y : Found(y)' = Found(y) /\ Found(y) \in Nat
          /\ Count(out', ListingsOf(e)) = Count(out, ListingsOf(e))
      <4>1. out \in Seq(Listings) /\ UNCHANGED <<options, out>>
        BY <1>1, <2>1 DEF Types
      <4> QED
        BY <4>1, CountType DEF Found
    <3>8. Count(out, ListingsOf(e)) \in Nat
      BY <1>1, CountType DEF Types
    <3>9. PICK m \in Nat, n \in Nat, i \in Nat, j \in Nat, k \in Nat :
             /\ m = Count(out, ListingsOf(e)) /\ n = NamedCalls(begun, e)
             /\ i = Found(Item(e)) /\ j = Found(Dot(e)) /\ k = Found(DotDot(e))
      BY <3>5, <3>7, <3>8
    <3>10. (m + 0) + (0 + 0 + 0) = n + (i + j + k)
      BY <3>1, <3>4, <3>9 DEF Balanced
    <3>11. (m + (IF e = d THEN 1 ELSE 0)) + (0 + 0 + 0) = (n + (IF e = d THEN 1 ELSE 0)) + (i + j + k)
      BY <3>10
    <3>12. (Item(e))' = Item(e) /\ (Dot(e))' = Dot(e) /\ (DotDot(e))' = DotDot(e)
      BY DEF Item, Dot, DotDot
    <3> QED
      BY <3>4, <3>5, <3>6, <3>7, <3>9, <3>11, <3>12 DEF Balanced
  <2> QED
    BY <2>1, <2>5, <2>6, <2>7, <2>8, <2>9, OutputsKept DEF LsInv
<1> QED
  BY <1>5, <1>6

\* The call that runs.
LEMMA TopCall ==
    ASSUME LsInv, pc = "walk"
    PROVE  /\ stack \in Seq(Frames) /\ stack # <<>> /\ out \in Seq(Listings) /\ alive \subseteq Entry
           /\ width \in Int
           /\ Frame = stack[Len(stack)] /\ Len(stack) \in 1..Len(stack)
           /\ Frame \in Frames /\ CallSees(Frame) /\ CallWaits(Frame)
           /\ Len(stack) <= MaxDepth
           /\ ~Endless => Frame.dir \in Dir /\ Len(stack) <= Depth[Frame.dir]
<1>1. /\ stack \in Seq(Frames) /\ stack # <<>> /\ out \in Seq(Listings) /\ alive \subseteq Entry
      /\ width \in Int /\ Len(stack) <= MaxDepth
  BY DEF LsInv, Types, LsTypeOK
<1>2. PICK n \in Nat \ {0} : n = Len(stack)
  BY <1>1
<1>3. stack[n] \in Frames /\ n \in 1..n
  BY <1>1, <1>2
<1>4. /\ CallSees(stack[n]) /\ CallWaits(stack[n])
      /\ ~Endless => stack[n].dir \in Dir /\ n <= Depth[stack[n].dir]
  BY <1>2, <1>3 DEF LsInv, Calls
<1> QED
  BY <1>1, <1>2, <1>3, <1>4 DEF Frame

\* One call goes on.
LEMMA TopChanged ==
    ASSUME LsInv, pc = "walk", ~Frame.listed,
           NEW f \in Frames, f.dir = Frame.dir, stack' = WithLast(stack, f),
           UNCHANGED <<options, tty, width, alive, files, dirs, begun, header>>,
           pc' \in {pc, "counting"},
           CallSees(f), CallWaits(f)
    PROVE  /\ stack' \in Seq(Frames)
           /\ LsTypeOK' /\ Phases' /\ CrashHasCause' /\ Calls'
<1>1. /\ stack \in Seq(Frames) /\ stack # <<>> /\ Frame = stack[Len(stack)]
  BY TopCall
<1>2. PICK n \in Nat \ {0} : n = Len(stack)
  BY <1>1
<1>3. /\ stack' \in Seq(Frames) /\ Len(stack') = n /\ stack'[n] = f
      /\ \A k \in 1..(n - 1) : stack'[k] = stack[k]
  BY <1>1, <1>2 DEF WithLast
<1>4. \A k \in 1..n : k = n \/ k \in 1..(n - 1)
  OBVIOUS
<1>5. \A k \in 1..n : stack'[k].dir = stack[k].dir
  BY <1>1, <1>2, <1>3, <1>4
<1>6. stack' # <<>>
  BY <1>3
<1>7. LsTypeOK'
  <2>1. \A k \in 1..Len(stack) - 1 : stack[k].listed
    BY DEF LsInv, LsTypeOK
  <2>2. \A k \in 1..Len(stack') - 1 : stack'[k].listed
    BY <1>2, <1>3, <2>1
  <2> QED
    BY <1>2, <1>3, <1>6, <2>2 DEF LsInv, LsTypeOK
<1>8. Phases' /\ CrashHasCause'
  BY DEF LsInv, Phases, CrashHasCause
<1>9. Calls'
  <2>1. ASSUME NEW k \in 1..n PROVE \E g : stack'[k] = g /\ CallSees(g) /\ CallWaits(g)
    <3>1. \A j \in 1..n : CallSees(stack[j]) /\ CallWaits(stack[j])
      BY <1>2 DEF LsInv, Calls
    <3>2. CASE k = n
      BY <1>3, <3>2
    <3>3. CASE k \in 1..(n - 1)
      BY <1>3, <3>1, <3>3
    <3> QED
      BY <1>4, <3>2, <3>3
  <2>2. ASSUME NEW k \in 1..n PROVE (CallSees(stack[k]) /\ CallWaits(stack[k]))'
    <3>1. PICK g : stack'[k] = g /\ CallSees(g) /\ CallWaits(g)
      BY <2>1
    <3>2. CallSees(stack[k])'
      BY <3>1 DEF CallSees, Expected, Visible, SeenBy
    <3>3. CallWaits(stack[k])'
      BY <3>1 DEF CallWaits
    <3> QED
      BY <3>2, <3>3
  <2>3. ~Endless => \A k \in 1..n : stack[k].dir \in Dir /\ k <= Depth[stack[k].dir]
    BY <1>2 DEF LsInv, Calls
  <2>4. ~Endless' => \A k \in 1..n : stack'[k].dir \in Dir /\ k <= Depth[stack'[k].dir]
    BY <1>5, <2>3 DEF Endless
  <2> QED
    BY <1>3, <2>2, <2>4 DEF Calls
<1> QED
  BY <1>3, <1>7, <1>8, <1>9

LEMMA TopCounts ==
    ASSUME LsInv, pc = "walk", NEW f \in Frames, stack' = WithLast(stack, f), NEW A
    PROVE  \E c \in Nat : /\ Count(stack, A) = c + (IF Frame \in A THEN 1 ELSE 0)
                          /\ Count(stack', A) = c + (IF f \in A THEN 1 ELSE 0)
<1>1. stack \in Seq(Frames) /\ stack # <<>> /\ Frame = stack[Len(stack)]
  BY TopCall
<1>2. /\ Count(Front(stack), A) \in Nat
      /\ Count(stack, A) = Count(Front(stack), A) + (IF stack[Len(stack)] \in A THEN 1 ELSE 0)
      /\ Count(WithLast(stack, f), A) = Count(Front(stack), A) + (IF f \in A THEN 1 ELSE 0)
  BY <1>1, CountChanged
<1> QED
  BY <1>1, <1>2

LEMMA ReadEntryStep == ASSUME LsInv, ReadEntry PROVE LsInv'
<1>1. pc = "walk"
  BY DEF ReadEntry
<1>0. PICK x \in Frame.unread : \E found \in Lstat(x.node, Frame.dir) :
         SetFrame([Frame EXCEPT !.unread = @ \ {x},
                                !.items = IF found THEN @ \cup {x} ELSE @])
  BY DEF ReadEntry
<1>2. PICK found \in Lstat(x.node, Frame.dir) :
         SetFrame([Frame EXCEPT !.unread = @ \ {x},
                                !.items = IF found THEN @ \cup {x} ELSE @])
  BY <1>0
<1>3. UNCHANGED <<pc, options, tty, width, alive, files, dirs, begun, header, out>>
  BY DEF ReadEntry, ui
<1>4. /\ stack \in Seq(Frames) /\ stack # <<>> /\ Frame \in Frames /\ CallSees(Frame) /\ CallWaits(Frame)
      /\ alive \subseteq Entry /\ out \in Seq(Listings)
  BY <1>1, TopCall
<1>5. PICK f : f = [Frame EXCEPT !.unread = @ \ {x},
                                 !.items = IF found THEN @ \cup {x} ELSE @]
  OBVIOUS
<1>6. /\ f.dir = Frame.dir /\ f.todo = Frame.todo /\ f.listed = Frame.listed
      /\ f.unread = Frame.unread \ {x}
      /\ f.items = IF found THEN Frame.items \cup {x} ELSE Frame.items
      /\ f \in Frames
  BY <1>4, <1>5 DEF Frames
<1>7. stack' = WithLast(stack, f)
  BY <1>2, <1>5 DEF SetFrame, WithLast
<1>8. ~Frame.listed /\ ~f.listed /\ f.todo = <<>> /\ Len(f.todo) = 0
  BY <1>4, <1>6 DEF CallWaits
<1>9. CallWaits(f)
  BY <1>8 DEF CallWaits
<1>10. CallSees(f)
  <2>1. /\ SeenBy(f) \subseteq SeenBy(Frame)
        /\ f.dir \notin Unreachable =>
             \A y \in SeenBy(Frame) : y.node \in alive \cup {Outside} => y \in SeenBy(f)
    BY <1>6 DEF SeenBy, Lstat
  <2>2. \A e \in alive : Item(e).node \in alive
    BY <1>4, ItemTypes
  <2>3. SeenBy(f) \subseteq IF f.dir = Outside THEN {} ELSE Expected(f.dir)
    BY <1>4, <1>6, <2>1 DEF CallSees
  <2>4. f.dir \in Dir \ Unreachable =>
           \A e \in alive : Parent[e] = f.dir /\ Visible(e) => Item(e) \in SeenBy(f)
    BY <1>4, <1>6, <2>1, <2>2 DEF CallSees
  <2> QED
    BY <2>3, <2>4 DEF CallSees
<1>11. stack' \in Seq(Frames) /\ LsTypeOK' /\ Phases' /\ CrashHasCause' /\ Calls'
  BY <1>1, <1>3, <1>6, <1>7, <1>8, <1>9, <1>10, TopChanged
<1>12. Types'
  BY <1>3, <1>11 DEF LsInv, Types
<1>13. Balance'
  <2>1. \A d : /\ f \in OpenCalls(d) <=> Frame \in OpenCalls(d)
               /\ f \in WaitingFor(d) <=> Frame \in WaitingFor(d)
    BY <1>4, <1>6 DEF OpenCalls, WaitingFor
  <2>2. \A d : /\ Count(stack', OpenCalls(d)) = Count(stack, OpenCalls(d))
               /\ Count(stack', WaitingFor(d)) = Count(stack, WaitingFor(d))
    BY <1>1, <1>6, <1>7, <2>1, TopCounts
  <2> QED
    BY <1>3, <2>2 DEF LsInv, Balance, Balanced, NamedCalls, Found, Waiting
<1> QED
  BY <1>3, <1>11, <1>12, <1>13, OutputsKept DEF LsInv

\* What a call may come across, and which of it has a name of its own.
LEMMA ExpectedItems ==
    ASSUME NEW d \in Dir
    PROVE  /\ Expected(d) \subseteq Items
           /\ \A x \in Expected(d) : x.name \in Entry \/ "a" \in options
           /\ \A e \in Entry : Item(e) \in Expected(d) <=> Parent[e] = d /\ Visible(e)
           /\ "a" \notin options =>
                \A x \in Expected(d) : \E e \in Entry : x = Item(e) /\ Parent[e] = d /\ Visible(e)
<1>1. Expected(d) \subseteq Items
  BY TreeAssumption DEF Expected, Items
<1>2. \A x \in Expected(d) : x.name \in Entry \/ "a" \in options
  BY ItemTypes DEF Expected
<1>3. ASSUME NEW e \in Entry, Item(e) \in Expected(d) PROVE Parent[e] = d /\ Visible(e)
  <2>1. Item(e) \notin DotItems(d)
    <3>1. \A x \in DotItems(d) : x.name \in {".", ".."}
      BY DEF DotItems
    <3> QED
      BY <3>1, ItemTypes, TreeAssumption
  <2>2. PICK f \in Entry : Item(e) = Item(f) /\ Parent[f] = d /\ Visible(f)
    BY <1>3, <2>1 DEF Expected
  <2> QED
    BY <2>2, ItemTypes
<1>4. \A e \in Entry : Parent[e] = d /\ Visible(e) => Item(e) \in Expected(d)
  BY DEF Expected
<1>5. "a" \notin options =>
         \A x \in Expected(d) : \E e \in Entry : x = Item(e) /\ Parent[e] = d /\ Visible(e)
  BY DEF Expected
<1> QED
  BY <1>1, <1>2, <1>3, <1>4, <1>5

\* The call that lists, what it lists, the listing l and the call f after it.
ListsThere(items, l, f) ==
    /\ items \in Seq(Items) /\ ListsOnce(items, Frame.items)
    /\ \A i, j \in 1..Len(items) : i < j => ~Precedes(options, items[j], items[i])
    /\ Frame.unread = {} /\ ~Frame.listed /\ ~ListingCrashes(items)
    /\ l = Listing(Frame.dir, Frame.header, Frame.items, items)
    /\ f \in Frames /\ f.dir = Frame.dir /\ f.listed
    /\ f.unread = {} /\ f.items = Frame.items
    /\ f.todo \in Seq(Items)
    /\ IF "R" \in options THEN ListsOnce(f.todo, {x \in Frame.items : IsDirItem(x)})
                          ELSE f.todo = <<>>

LEMMA ListingIsRight ==
    ASSUME LsInv, pc = "walk", NEW items, NEW l, NEW f, ListsThere(items, l, f)
    PROVE  l \in Listings /\ l.dir = Frame.dir /\ l.found = Frame.items /\ Complete(l) /\ InTheirOrder(l)
<1>1. /\ Frame \in Frames /\ CallSees(Frame) /\ alive \subseteq Entry /\ width \in Int
      /\ items \in Seq(Items) /\ ListsOnce(items, Frame.items)
      /\ \A i, j \in 1..Len(items) : i < j => ~Precedes(options, items[j], items[i])
      /\ Frame.unread = {} /\ ~ListingCrashes(items)
      /\ l = Listing(Frame.dir, Frame.header, Frame.items, items)
  BY TopCall DEF ListsThere
<1>2. /\ Shown(items) \in Seq(Items)
      /\ "l" \in options \/ "1" \in options => Shown(items) = items
      /\ Shows => ListsOnce(Shown(items), Frame.items)
  BY <1>1, ShownType, ShownOnce
<1>3. l.dir = Frame.dir /\ l.found = Frame.items /\ l.shown = Shown(items) /\ l \in Listings
  BY <1>1, <1>2 DEF Listing, Listings, Frames
<1>4. InTheirOrder(l)
  BY <1>1, <1>2, <1>3 DEF InTheirOrder
<1>5. Complete(l)
  <2> SUFFICES ASSUME l.dir \in Dir
               PROVE  /\ l.found \subseteq Expected(l.dir)
                      /\ l.dir \notin Unreachable =>
                           \A e \in alive : Parent[e] = l.dir /\ Visible(e) => Item(e) \in l.found
                      /\ Shows => ListsOnce(l.shown, l.found)
    BY DEF Complete
  <2>1. l.found = SeenBy(Frame)
    BY <1>1, <1>3 DEF SeenBy
  <2>2. l.found \subseteq Expected(l.dir)
    BY <1>1, <1>3, <2>1, TreeAssumption DEF CallSees
  <2>3. l.dir \notin Unreachable =>
           \A e \in alive : Parent[e] = l.dir /\ Visible(e) => Item(e) \in l.found
    BY <1>1, <1>3, <2>1 DEF CallSees
  <2> QED
    BY <1>2, <1>3, <2>2, <2>3
<1> QED
  BY <1>3, <1>4, <1>5

LEMMA ListedCall ==
    ASSUME LsInv, pc = "walk", NEW items, NEW l, NEW f, ListsThere(items, l, f)
    PROVE  CallSees(f) /\ CallWaits(f)
<1>1. /\ Frame \in Frames /\ CallSees(Frame) /\ alive \subseteq Entry
      /\ Frame.unread = {} /\ f \in Frames /\ f.dir = Frame.dir /\ f.listed
      /\ f.unread = {} /\ f.items = Frame.items
  BY TopCall DEF ListsThere
<1>2. IF "R" \in options THEN ListsOnce(f.todo, {x \in Frame.items : IsDirItem(x)})
                         ELSE f.todo = <<>>
  BY DEF ListsThere
<1>3. SeenBy(f) = SeenBy(Frame) /\ SeenBy(Frame) = Frame.items
  BY <1>1 DEF SeenBy
<1>4. CallSees(f)
  BY <1>1, <1>3 DEF CallSees
<1>5. CallWaits(f)
  <2>1. CASE "R" \in options
    BY <1>1, <1>2, <2>1 DEF CallWaits, ListsOnce
  <2>2. CASE "R" \notin options
    <3>1. f.todo = <<>> /\ Len(f.todo) = 0
      BY <1>2, <2>2
    <3> QED
      BY <1>1, <3>1 DEF CallWaits
  <2> QED
    BY <2>1, <2>2
<1> QED
  BY <1>4, <1>5

\* Which names a directory goes by.
LEMMA NamesOfDirectory ==
    ASSUME NEW x \in Items, NEW d \in Dir
    PROVE  /\ x.node = d <=> x = Item(d) \/ x = Dot(d) \/ x = DotDot(d)
           /\ Item(d) # Dot(d) /\ Item(d) # DotDot(d) /\ Dot(d) # DotDot(d)
           /\ IsDirItem(Item(d)) /\ IsDirItem(Dot(d)) /\ IsDirItem(DotDot(d))
<1>1. d \in Entry /\ d # "." /\ d # ".."
  BY TreeAssumption
<1>2. /\ Item(d).name = d /\ Item(d).node = d /\ Dot(d).name = "." /\ Dot(d).node = d
      /\ DotDot(d).name = ".." /\ DotDot(d).node = d
  BY DEF Item, Dot, DotDot
<1>3. x.node = d => x = Item(d) \/ x = Dot(d) \/ x = DotDot(d)
  BY DEF Items, Item, DotItems, Dot, DotDot
<1>4. IsDirItem(Item(d)) /\ IsDirItem(Dot(d)) /\ IsDirItem(DotDot(d))
  BY <1>2 DEF IsDirItem
<1> QED
  BY <1>1, <1>2, <1>3, <1>4

\* A directory in a listing is found once more and, with -R, waited for once more.
LEMMA ListingFinds ==
    ASSUME LsInv, pc = "walk", NEW items, NEW l, NEW f, ListsThere(items, l, f),
           stack' = WithLast(stack, f), out' = Append(out, l), UNCHANGED options,
           NEW x, IsDirItem(x)
    PROVE  \E w, n, k \in Nat : /\ Waiting(x) = w /\ Waiting(x)' = w + k
                                /\ Found(x) = n /\ Found(x)' = n + k
<1>1. /\ Frame \in Frames /\ CallWaits(Frame) /\ out \in Seq(Listings) /\ ~Frame.listed /\ f \in Frames
  BY TopCall DEF ListsThere
<1>2. l \in Listings /\ l.found = Frame.items
  BY ListingIsRight
<1>3. Frame \notin WaitingFor(x)
  <2>1. Frame.todo = <<>> /\ Len(Frame.todo) = 0
    BY <1>1 DEF CallWaits
  <2> QED
    BY <2>1 DEF WaitingFor
<1>4. f \in WaitingFor(x) <=> "R" \in options /\ x \in Frame.items
  <2>1. CASE "R" \in options
    <3>1. (\E j \in 1..Len(f.todo) : f.todo[j] = x) <=> x \in Frame.items
      BY <2>1 DEF ListsThere, ListsOnce
    <3> QED
      BY <1>1, <2>1, <3>1 DEF WaitingFor
  <2>2. CASE "R" \notin options
    <3>1. Len(f.todo) = 0
      BY <2>2 DEF ListsThere
    <3> QED
      BY <2>2, <3>1 DEF WaitingFor
  <2> QED
    BY <2>1, <2>2
<1>5. PICK c \in Nat : /\ Count(stack, WaitingFor(x)) = c
                       /\ Count(stack', WaitingFor(x)) = c + (IF f \in WaitingFor(x) THEN 1 ELSE 0)
  BY <1>1, <1>3, TopCounts
<1>6. PICK m \in Nat : /\ Count(out, ListingsWith(x)) = m
                       /\ Count(out', ListingsWith(x)) = m + (IF x \in Frame.items THEN 1 ELSE 0)
  <2>1. l \in ListingsWith(x) <=> x \in Frame.items
    BY <1>2 DEF ListingsWith
  <2>2. Count(out, ListingsWith(x)) \in Nat
    BY <1>1, CountType
  <2>3. Count(Append(out, l), ListingsWith(x))
          = Count(out, ListingsWith(x)) + (IF l \in ListingsWith(x) THEN 1 ELSE 0)
    BY <1>1, <1>2, CountAppend
  <2> QED
    BY <2>1, <2>2, <2>3
<1>7. Waiting(x) = c /\ Waiting(x)' = c + (IF "R" \in options /\ x \in Frame.items THEN 1 ELSE 0)
  BY <1>4, <1>5 DEF Waiting
<1>8. CASE "R" \in options
  <2>1. Found(x) = m /\ Found(x)' = m + (IF x \in Frame.items THEN 1 ELSE 0)
    BY <1>6, <1>8 DEF Found
  <2> QED
    BY <1>7, <1>8, <2>1
<1>9. CASE "R" \notin options
  <2>1. Found(x) = 0 /\ Found(x)' = 0 + 0
    BY <1>9 DEF Found
  <2>2. Waiting(x) = c /\ Waiting(x)' = c + 0
    BY <1>7, <1>9
  <2>3. 0 \in Nat
    OBVIOUS
  <2> QED
    BY <2>1, <2>2, <2>3
<1> QED
  BY <1>8, <1>9

\* A listing is one call less to come for its directory and one more for each of those in it.
LEMMA ListingBalances ==
    ASSUME LsInv, pc = "walk", NEW items, NEW l, NEW f, ListsThere(items, l, f),
           stack' = WithLast(stack, f), out' = Append(out, l), UNCHANGED <<options, dirs, begun>>,
           NEW d \in Dir
    PROVE  Balanced(d)'
<1>1. /\ Frame \in Frames /\ out \in Seq(Listings) /\ ~Frame.listed
      /\ f \in Frames /\ f.listed
  BY TopCall DEF ListsThere
<1>2. l \in Listings /\ l.dir = Frame.dir
  BY ListingIsRight
<1>3. /\ Frame \in OpenCalls(d) <=> Frame.dir = d
      /\ f \notin OpenCalls(d)
  BY <1>1 DEF OpenCalls
<1>4. PICK b \in Nat : /\ Count(stack, OpenCalls(d)) = b + (IF Frame.dir = d THEN 1 ELSE 0)
                       /\ Count(stack', OpenCalls(d)) = b
  BY <1>1, <1>3, TopCounts
<1>5. PICK m \in Nat : /\ Count(out, ListingsOf(d)) = m
                       /\ Count(out', ListingsOf(d)) = m + (IF Frame.dir = d THEN 1 ELSE 0)
  <2>1. l \in ListingsOf(d) <=> Frame.dir = d
    BY <1>2 DEF ListingsOf
  <2>2. Count(out, ListingsOf(d)) \in Nat
    BY <1>1, CountType
  <2>3. Count(Append(out, l), ListingsOf(d))
          = Count(out, ListingsOf(d)) + (IF l \in ListingsOf(d) THEN 1 ELSE 0)
    BY <1>1, <1>2, CountAppend
  <2> QED
    BY <2>1, <2>2, <2>3
<1>6. IsDirItem(Item(d)) /\ IsDirItem(Dot(d)) /\ IsDirItem(DotDot(d))
  BY NamesOfDirectory, ItemTypes, TreeAssumption
<1>7. PICK w1 \in Nat, n1 \in Nat, k1 \in Nat : /\ Waiting(Item(d)) = w1 /\ Waiting(Item(d))' = w1 + k1
                                /\ Found(Item(d)) = n1 /\ Found(Item(d))' = n1 + k1
  BY <1>6, ListingFinds
<1>8. PICK w2, n2, k2 \in Nat : /\ Waiting(Dot(d)) = w2 /\ Waiting(Dot(d))' = w2 + k2
                                /\ Found(Dot(d)) = n2 /\ Found(Dot(d))' = n2 + k2
  BY <1>6, ListingFinds
<1>9. PICK w3, n3, k3 \in Nat : /\ Waiting(DotDot(d)) = w3 /\ Waiting(DotDot(d))' = w3 + k3
                                /\ Found(DotDot(d)) = n3 /\ Found(DotDot(d))' = n3 + k3
  BY <1>6, ListingFinds
<1>10. PICK n \in Nat : NamedCalls(begun, d) = n /\ NamedCalls(begun, d)' = n
  <2>1. NamedCalls(begun, d) \in Nat
    BY OneMoreNamed DEF LsInv, LsTypeOK
  <2>2. NamedCalls(begun, d)' = NamedCalls(begun, d)
    BY DEF NamedCalls
  <2> QED
    BY <2>1, <2>2
<1>11. PICK i \in Nat : i = IF Frame.dir = d THEN 1 ELSE 0
  OBVIOUS
<1>12. (m + (b + i)) + (w1 + w2 + w3) = n + (n1 + n2 + n3)
  BY <1>4, <1>5, <1>7, <1>8, <1>9, <1>10, <1>11 DEF LsInv, Balance, Balanced
<1>13. ((m + i) + b) + ((w1 + k1) + (w2 + k2) + (w3 + k3)) = n + ((n1 + k1) + (n2 + k2) + (n3 + k3))
  BY <1>12
<1> QED
  BY <1>4, <1>5, <1>7, <1>8, <1>9, <1>10, <1>11, <1>13 DEF Balanced

LEMMA ListDirectoryStep == ASSUME LsInv, ListDirectory PROVE LsInv'
<1>1. pc = "walk" /\ Frame.unread = {} /\ ~Frame.listed
  BY DEF ListDirectory
<1>2. /\ stack \in Seq(Frames) /\ stack # <<>> /\ Frame \in Frames /\ CallSees(Frame) /\ CallWaits(Frame)
      /\ alive \subseteq Entry /\ out \in Seq(Listings) /\ width \in Int
  BY <1>1, TopCall
<1>3. PICK items \in Sorted(options, [x \in Frame.items |-> x]) :
         IF ListingCrashes(items) THEN Crash
         ELSE /\ out' = Append(out, Listing(Frame.dir, Frame.header, Frame.items, items))
              /\ SetFrame([Frame EXCEPT !.listed = TRUE,
                                        !.todo = IF "R" \in options
                                                 THEN Kept(items, {k \in DOMAIN items : IsDirItem(items[k])})
                                                 ELSE <<>>])
              /\ pc' = IF CountsForEver(items) THEN "counting" ELSE pc
              /\ UNCHANGED <<args, options, ui, alive, files, dirs, begun, header>>
  BY Zenon DEF ListDirectory
<1>4. Frame.items \in SUBSET Items
  BY <1>2 DEF Frames
<1>5. /\ items \in Seq(Items) /\ ListsOnce(items, Frame.items)
      /\ \A i, j \in 1..Len(items) : i < j => ~Precedes(options, items[j], items[i])
  BY <1>4, SortedOnce
<1>6. CASE ListingCrashes(items)
  <2>1. Crash
    BY <1>3, <1>6
  <2>2. \A i \in 1..Len(items) : items[i].name \in Entry \/ "a" \in options
    <3>1. Frame.items \subseteq IF Frame.dir = Outside THEN {} ELSE Expected(Frame.dir)
      BY <1>2 DEF CallSees, SeenBy
    <3>2. Frame.dir = Outside \/ Frame.dir \in Dir
      BY <1>2 DEF Frames
    <3>3. \A x \in Frame.items : x.name \in Entry \/ "a" \in options
      BY <3>1, <3>2, ExpectedItems
    <3> QED
      BY <1>5, <3>3 DEF ListsOnce
  <2>3. CrashHasCause'
    BY <1>2, <1>5, <1>6, <2>1, <2>2, ListingCrashCauses DEF Crash, CrashHasCause, ui, MultiColumn
  <2> QED
    BY <2>1, <2>3, CrashStep
<1>7. CASE ~ListingCrashes(items)
  <2>1. PICK sub : sub = Kept(items, {k \in DOMAIN items : IsDirItem(items[k])})
    OBVIOUS
  <2>2. sub \in Seq(Items) /\ ListsOnce(sub, {x \in Frame.items : IsDirItem(x)})
    BY <1>5, <2>1, KeptOnce
  <2>3. PICK f : f = [Frame EXCEPT !.listed = TRUE, !.todo = IF "R" \in options THEN sub ELSE <<>>]
    OBVIOUS
  <2>4. PICK l : l = Listing(Frame.dir, Frame.header, Frame.items, items)
    OBVIOUS
  <2>5. /\ out' = Append(out, l)
        /\ stack' = WithLast(stack, f)
        /\ pc' \in {pc, "counting"}
        /\ UNCHANGED <<options, tty, width, alive, files, dirs, begun, header>>
    BY <1>3, <1>7, <2>1, <2>3, <2>4 DEF SetFrame, WithLast, ui
  <2>6. /\ f.dir = Frame.dir /\ f.listed /\ f.unread = {} /\ f.items = Frame.items
        /\ f.todo = IF "R" \in options THEN sub ELSE <<>>
        /\ f.todo \in Seq(Items) /\ f \in Frames
    <3>1. <<>> \in Seq(Items)
      OBVIOUS
    <3> QED
      BY <1>1, <1>2, <2>2, <2>3, <3>1 DEF Frames
  <2>7. ListsThere(items, l, f)
    BY <1>1, <1>5, <1>7, <2>2, <2>4, <2>6 DEF ListsThere
  <2>8. l \in Listings /\ l.dir = Frame.dir /\ Complete(l) /\ InTheirOrder(l)
    BY <1>1, <2>7, ListingIsRight
  <2>9. CallSees(f) /\ CallWaits(f)
    BY <1>1, <2>7, ListedCall
  <2>10. out' \in Seq(Listings) /\ Outputs'
    BY <1>2, <2>5, <2>8, OutputAppended DEF LsInv
  <2>11. stack' \in Seq(Frames) /\ LsTypeOK' /\ Phases' /\ CrashHasCause' /\ Calls'
    BY <1>1, <2>5, <2>6, <2>9, TopChanged
  <2>12. Types'
    BY <2>5, <2>10, <2>11 DEF LsInv, Types
  <2>13. Balance'
    <3>1. \A d \in Dir : Balanced(d)'
      BY <1>1, <2>5, <2>7, ListingBalances
    <3> QED
      BY <3>1 DEF Balance
  <2> QED
    BY <2>10, <2>11, <2>12, <2>13 DEF LsInv
<1> QED
  BY <1>6, <1>7

\* The head of a sequence without repetitions is not in its tail.
LEMMA HeadThenTail ==
    ASSUME NEW S, NEW s \in Seq(S), s # <<>>, \A j, k \in 1..Len(s) : s[j] = s[k] => j = k
    PROVE  /\ Head(s) = s[1] /\ 1 \in 1..Len(s) /\ Tail(s) \in Seq(S)
           /\ \A j, k \in 1..Len(Tail(s)) : Tail(s)[j] = Tail(s)[k] => j = k
           /\ \A j \in 1..Len(Tail(s)) : \E k \in 1..Len(s) : Tail(s)[j] = s[k]
           /\ \A j \in 1..Len(Tail(s)) : Tail(s)[j] # Head(s)
           /\ \A y : (\E k \in 1..Len(s) : s[k] = y) => y = Head(s) \/ \E j \in 1..Len(Tail(s)) : Tail(s)[j] = y
<1>1. PICK n \in Nat : n + 1 = Len(s)
  <2>1. Len(s) \in Nat \ {0}
    OBVIOUS
  <2>2. Len(s) - 1 \in Nat /\ (Len(s) - 1) + 1 = Len(s)
    BY <2>1
  <2> QED
    BY <2>2
<1>2. PICK t : t = Tail(s)
  OBVIOUS
<1>3. Head(s) = s[1] /\ t \in Seq(S) /\ Len(t) = n /\ \A j \in 1..n : t[j] = s[j + 1]
  BY <1>1, <1>2
<1>4. \A j \in 1..n : j + 1 \in 1..(n + 1) /\ j + 1 # 1
  OBVIOUS
<1>5. 1 \in 1..(n + 1)
  OBVIOUS
<1>6. ASSUME NEW j \in 1..n, NEW k \in 1..n, t[j] = t[k] PROVE j = k
  <2>1. j + 1 = k + 1
    BY <1>1, <1>3, <1>4, <1>6
  <2> QED
    BY <2>1
<1>7. \A j \in 1..n : t[j] # Head(s)
  BY <1>1, <1>3, <1>4, <1>5
<1>8. ASSUME NEW k \in 1..(n + 1) PROVE s[k] = Head(s) \/ \E j \in 1..n : t[j] = s[k]
  <2>1. CASE k = 1
    BY <1>3, <2>1
  <2>2. CASE k # 1
    <3>1. k - 1 \in 1..n /\ (k - 1) + 1 = k
      BY <2>2
    <3> QED
      BY <1>3, <3>1
  <2> QED
    BY <2>1, <2>2
<1>9. \A j \in 1..n : \E k \in 1..(n + 1) : t[j] = s[k]
  BY <1>3, <1>4
<1> QED
  BY <1>1, <1>2, <1>3, <1>5, <1>6, <1>7, <1>8, <1>9

\* The directory that is next: of -R without -a, one level further down.
LEMMA NextDirectory ==
    ASSUME LsInv, pc = "walk", Frame.listed, Frame.todo # <<>>, NEW x, x = Head(Frame.todo)
    PROVE  /\ x \in Items /\ IsDirItem(x) /\ "R" \in options /\ Frame.dir \in Dir
           /\ Len(stack) < MaxDepth \/ Endless
           /\ ~Endless => /\ x.node \in Dir /\ x = Item(x.node) /\ Parent[x.node] = Frame.dir
                          /\ Len(stack) < Depth[x.node]
<1>1. /\ Frame \in Frames /\ CallSees(Frame) /\ CallWaits(Frame) /\ stack \in Seq(Frames)
      /\ ~Endless => Frame.dir \in Dir /\ Len(stack) <= Depth[Frame.dir]
  BY TopCall
<1>2. /\ Frame.todo \in Seq(Items) /\ x = Frame.todo[1] /\ 1 \in 1..Len(Frame.todo)
      /\ Frame.items \in SUBSET Items /\ Frame.dir \in Dir \cup {Outside}
  <2>1. Frame.todo \in Seq(Items)
    BY <1>1 DEF Frames
  <2> QED
    BY <1>1, <2>1 DEF Frames
<1>3. x \in Frame.items /\ IsDirItem(x) /\ "R" \in options
  BY <1>1, <1>2 DEF CallWaits
<1>4. Frame.dir \in Dir /\ x \in Expected(Frame.dir)
  BY <1>1, <1>2, <1>3 DEF CallSees, SeenBy
<1>5. ASSUME ~Endless
      PROVE  /\ x.node \in Dir /\ x = Item(x.node) /\ Parent[x.node] = Frame.dir
             /\ Len(stack) < Depth[x.node] /\ Len(stack) < MaxDepth
  <2>1. "a" \notin options
    BY <1>3, <1>5 DEF Endless
  <2>2. PICK e \in Entry : x = Item(e) /\ Parent[e] = Frame.dir
    BY <1>4, <2>1, ExpectedItems
  <2>3. x.node = e /\ e \in Dir
    BY <1>3, <2>2, ItemTypes, TreeAssumption DEF IsDirItem
  <2>4. /\ Depth[Frame.dir] \in Nat /\ Depth[e] \in Nat /\ Depth[Frame.dir] < Depth[e]
        /\ Depth[e] <= MaxDepth /\ MaxDepth \in Nat
    BY <1>4, <2>2, <2>3, DepthFacts
  <2>5. Len(stack) \in Nat /\ Len(stack) <= Depth[Frame.dir]
    BY <1>1, <1>5
  <2>6. Len(stack) < Depth[e] /\ Len(stack) < MaxDepth
    BY <2>4, <2>5
  <2> QED
    BY <2>2, <2>3, <2>6
<1> QED
  BY <1>2, <1>3, <1>4, <1>5

\* The call that calls: g is what is left of it, f the call it makes.
Calling(g, f) ==
    /\ Frame.listed /\ Frame.todo # <<>> /\ ~OpenFails(Head(Frame.todo))
    /\ g = [Frame EXCEPT !.todo = Tail(Frame.todo)]
    /\ f = NewFrame(Head(Frame.todo), TRUE)
    /\ stack' = Append(WithLast(stack, g), f)
    /\ UNCHANGED <<pc, options, tty, width, alive, files, dirs, begun, header, out>>

LEMMA CallingFrames ==
    ASSUME LsInv, pc = "walk", NEW g, NEW f, Calling(g, f)
    PROVE  /\ g \in Frames /\ g.dir = Frame.dir /\ g.listed /\ CallSees(g) /\ CallWaits(g)
           /\ f \in Frames /\ f.dir = Head(Frame.todo).node /\ ~f.listed /\ CallSees(f) /\ CallWaits(f)
           /\ \A d : /\ Frame \notin OpenCalls(d) /\ g \notin OpenCalls(d)
                     /\ f \in OpenCalls(d) <=> d = f.dir
                     /\ f \notin WaitingFor(d)
                     /\ Frame \in WaitingFor(d) <=> g \in WaitingFor(d) \/ d = Head(Frame.todo)
                     /\ g \in WaitingFor(d) => d # Head(Frame.todo)
<1>1. /\ Frame \in Frames /\ CallSees(Frame) /\ CallWaits(Frame) /\ alive \subseteq Entry
  BY TopCall
<1>2. PICK t, x : t = Frame.todo /\ x = Head(Frame.todo)
  OBVIOUS
<1>3. /\ Frame.listed /\ t # <<>> /\ g = [Frame EXCEPT !.todo = Tail(t)] /\ f = NewFrame(x, TRUE)
      /\ t \in Seq(Items)
  BY <1>1, <1>2 DEF Calling, Frames
<1>4. /\ \A j, k \in 1..Len(t) : t[j] = t[k] => j = k
      /\ \A k \in 1..Len(t) : t[k] \in Frame.items /\ IsDirItem(t[k])
      /\ "R" \in options /\ Frame.unread = {}
  BY <1>1, <1>2, <1>3 DEF CallWaits
<1>5. /\ x = t[1] /\ 1 \in 1..Len(t) /\ Tail(t) \in Seq(Items)
      /\ \A j, k \in 1..Len(Tail(t)) : Tail(t)[j] = Tail(t)[k] => j = k
      /\ \A j \in 1..Len(Tail(t)) : \E k \in 1..Len(t) : Tail(t)[j] = t[k]
      /\ \A j \in 1..Len(Tail(t)) : Tail(t)[j] # x
      /\ \A y : (\E k \in 1..Len(t) : t[k] = y) => y = x \/ \E j \in 1..Len(Tail(t)) : Tail(t)[j] = y
  <2>1. t \in Seq(Items) /\ t # <<>> /\ \A j, k \in 1..Len(t) : t[j] = t[k] => j = k
    BY <1>3, <1>4
  <2>2. /\ Head(t) = t[1] /\ 1 \in 1..Len(t) /\ Tail(t) \in Seq(Items)
        /\ \A j, k \in 1..Len(Tail(t)) : Tail(t)[j] = Tail(t)[k] => j = k
        /\ \A j \in 1..Len(Tail(t)) : \E k \in 1..Len(t) : Tail(t)[j] = t[k]
        /\ \A j \in 1..Len(Tail(t)) : Tail(t)[j] # Head(t)
        /\ \A y : (\E k \in 1..Len(t) : t[k] = y) => y = Head(t) \/ \E j \in 1..Len(Tail(t)) : Tail(t)[j] = y
    BY <2>1, HeadThenTail, Zenon
  <2>3. x = Head(t)
    BY <1>2
  <2> QED
    BY <2>2, <2>3, Zenon
<1>6. /\ g \in Frames /\ g.dir = Frame.dir /\ g.listed /\ g.todo = Tail(t)
      /\ g.unread = Frame.unread /\ g.items = Frame.items
  BY <1>1, <1>3, <1>5 DEF Frames
<1>7. CallSees(g)
  BY <1>1, <1>6 DEF CallSees, SeenBy
<1>8. CallWaits(g)
  BY <1>4, <1>5, <1>6 DEF CallWaits
<1>9. x \in Items /\ IsDirItem(x) /\ TRUE \in BOOLEAN
  BY <1>2, <1>3, NextDirectory
<1>10. /\ f \in Frames /\ f.dir = x.node /\ ~f.listed /\ CallSees(f) /\ CallWaits(f)
       /\ \A d : (f \in OpenCalls(d) <=> d = x.node) /\ f \notin WaitingFor(d)
  BY <1>1, <1>3, <1>9, NewCall
<1>11. \A d : Frame \notin OpenCalls(d) /\ g \notin OpenCalls(d)
  BY <1>3, <1>6 DEF OpenCalls
<1>12. \A d : /\ Frame \in WaitingFor(d) <=> \E j \in 1..Len(t) : t[j] = d
              /\ g \in WaitingFor(d) <=> \E j \in 1..Len(Tail(t)) : Tail(t)[j] = d
  BY <1>1, <1>2, <1>6 DEF WaitingFor
<1>13. ASSUME NEW d
       PROVE  /\ Frame \in WaitingFor(d) <=> g \in WaitingFor(d) \/ d = x
              /\ g \in WaitingFor(d) => d # x
  <2>1. /\ (\E j \in 1..Len(Tail(t)) : Tail(t)[j] = d) => \E j \in 1..Len(t) : t[j] = d
        /\ (\E j \in 1..Len(Tail(t)) : Tail(t)[j] = d) => d # x
        /\ d = x => \E j \in 1..Len(t) : t[j] = d
        /\ (\E j \in 1..Len(t) : t[j] = d) => d = x \/ \E j \in 1..Len(Tail(t)) : Tail(t)[j] = d
    BY <1>5
  <2> QED
    BY <1>12, <2>1
<1> QED
  BY <1>2, <1>6, <1>7, <1>8, <1>10, <1>11, <1>13

\* The stack of calls, one longer.
LEMMA CallingStack ==
    ASSUME LsInv, pc = "walk", NEW g, NEW f, Calling(g, f), NEW n \in Nat, n = Len(stack)
    PROVE  /\ n \in Nat \ {0} /\ stack[n] = Frame /\ stack \in Seq(Frames)
           /\ stack' \in Seq(Frames) /\ Len(stack') = n + 1 /\ stack'[n + 1] = f /\ stack'[n] = g
           /\ \A k \in 1..(n - 1) : stack'[k] = stack[k]
           /\ \A k \in 1..n : stack'[k].dir = stack[k].dir /\ (stack[k].listed => stack'[k].listed)
           /\ n < MaxDepth
<1>1. stack \in Seq(Frames) /\ stack # <<>> /\ Frame = stack[Len(stack)] /\ Len(stack) <= MaxDepth
  BY TopCall
<1>2. g \in Frames /\ g.dir = Frame.dir /\ g.listed /\ f \in Frames
  BY CallingFrames
<1>3. n \in Nat \ {0}
  BY <1>1
<1>4. PICK u : u = WithLast(stack, g)
  OBVIOUS
<1>5. /\ u \in Seq(Frames) /\ Len(u) = n /\ u[n] = g /\ \A k \in 1..(n - 1) : u[k] = stack[k]
  BY <1>1, <1>2, <1>3, <1>4 DEF WithLast
<1>6. stack' = Append(u, f)
  BY <1>4 DEF Calling
<1>7. /\ stack' \in Seq(Frames) /\ Len(stack') = n + 1 /\ stack'[n + 1] = f
      /\ \A k \in 1..n : stack'[k] = u[k]
  BY <1>2, <1>5, <1>6
<1>8. \A k \in 1..n : k = n \/ k \in 1..(n - 1)
  OBVIOUS
<1>9. n \in 1..n /\ \A k \in 1..(n - 1) : k \in 1..n
  BY <1>3
<1>10. stack'[n] = g /\ \A k \in 1..(n - 1) : stack'[k] = stack[k]
  BY <1>5, <1>7, <1>9
<1>11. \A k \in 1..n : stack'[k].dir = stack[k].dir /\ (stack[k].listed => stack'[k].listed)
  BY <1>1, <1>2, <1>8, <1>10
<1>12. n < MaxDepth
  BY <1>1, DepthFacts DEF Calling, OpenFails
<1> QED
  BY <1>1, <1>3, <1>7, <1>10, <1>11, <1>12

\* A call made is one call less to wait for.
LEMMA CallingBalances ==
    ASSUME LsInv, pc = "walk", NEW g, NEW f, Calling(g, f), NEW d \in Dir
    PROVE  Balanced(d)'
<1>1. /\ g \in Frames /\ f \in Frames /\ f.dir = Head(Frame.todo).node
      /\ Frame \notin OpenCalls(d) /\ g \notin OpenCalls(d)
      /\ f \in OpenCalls(d) <=> d = f.dir
      /\ \A y : /\ f \notin WaitingFor(y)
                /\ Frame \in WaitingFor(y) <=> g \in WaitingFor(y) \/ y = Head(Frame.todo)
                /\ g \in WaitingFor(y) => y # Head(Frame.todo)
  BY CallingFrames
<1>2. stack \in Seq(Frames) /\ stack # <<>> /\ Frame = stack[Len(stack)]
  BY TopCall
<1>3. PICK x \in Items : x = Head(Frame.todo)
  BY NextDirectory DEF Calling
<1>4. WithLast(stack, g) \in Seq(Frames) /\ stack' = Append(WithLast(stack, g), f)
  BY <1>1, <1>2, LastChanged DEF Calling
<1>5. ASSUME NEW A
      PROVE  \E c \in Nat : /\ Count(stack, A) = c + (IF Frame \in A THEN 1 ELSE 0)
                            /\ Count(stack', A) = (c + (IF g \in A THEN 1 ELSE 0)) + (IF f \in A THEN 1 ELSE 0)
  <2>1. /\ Count(Front(stack), A) \in Nat
        /\ Count(stack, A) = Count(Front(stack), A) + (IF stack[Len(stack)] \in A THEN 1 ELSE 0)
        /\ Count(WithLast(stack, g), A) = Count(Front(stack), A) + (IF g \in A THEN 1 ELSE 0)
    BY <1>1, <1>2, CountChanged
  <2>2. Count(Append(WithLast(stack, g), f), A) = Count(WithLast(stack, g), A) + (IF f \in A THEN 1 ELSE 0)
    BY <1>1, <1>4, CountAppend
  <2> QED
    BY <1>2, <1>4, <2>1, <2>2
<1>6. PICK b \in Nat : /\ Count(stack, OpenCalls(d)) = b
                       /\ Count(stack', OpenCalls(d)) = b + (IF d = x.node THEN 1 ELSE 0)
  BY <1>1, <1>3, <1>5
<1>7. ASSUME NEW y
      PROVE  \E w \in Nat : Waiting(y)' = w /\ Waiting(y) = w + (IF y = x THEN 1 ELSE 0)
  <2>1. PICK c \in Nat :
           /\ Count(stack, WaitingFor(y)) = c + (IF Frame \in WaitingFor(y) THEN 1 ELSE 0)
           /\ Count(stack', WaitingFor(y)) = (c + (IF g \in WaitingFor(y) THEN 1 ELSE 0))
                                               + (IF f \in WaitingFor(y) THEN 1 ELSE 0)
    BY <1>5
  <2>2. CASE g \in WaitingFor(y)
    <3>1. /\ Count(stack, WaitingFor(y)) = (c + 1) + (IF y = x THEN 1 ELSE 0)
          /\ Count(stack', WaitingFor(y)) = c + 1
      BY <1>1, <1>3, <2>1, <2>2
    <3> QED
      BY <3>1 DEF Waiting
  <2>3. CASE g \notin WaitingFor(y)
    BY <1>1, <1>3, <2>1, <2>3 DEF Waiting
  <2> QED
    BY <2>2, <2>3
<1>8. PICK w1 \in Nat : Waiting(Item(d))' = w1 /\ Waiting(Item(d)) = w1 + (IF Item(d) = x THEN 1 ELSE 0)
  BY <1>7
<1>9. PICK w2 \in Nat : Waiting(Dot(d))' = w2 /\ Waiting(Dot(d)) = w2 + (IF Dot(d) = x THEN 1 ELSE 0)
  BY <1>7
<1>10. PICK w3 \in Nat : Waiting(DotDot(d))' = w3 /\ Waiting(DotDot(d)) = w3 + (IF DotDot(d) = x THEN 1 ELSE 0)
  BY <1>7
<1>11. /\ Count(out', ListingsOf(d)) = Count(out, ListingsOf(d))
       /\ NamedCalls(begun, d)' = NamedCalls(begun, d)
       /\ \A y : Found(y)' = Found(y)
  BY DEF Calling, NamedCalls, Found
<1>12. Count(out, ListingsOf(d)) \in Nat
  BY CountType DEF LsInv, Types
<1>13. PICK i, j, k \in Nat :
          /\ i = (IF Item(d) = x THEN 1 ELSE 0) /\ j = (IF Dot(d) = x THEN 1 ELSE 0)
          /\ k = (IF DotDot(d) = x THEN 1 ELSE 0)
          /\ i + j + k = IF d = x.node THEN 1 ELSE 0
  <2>1. /\ x.node = d <=> x = Item(d) \/ x = Dot(d) \/ x = DotDot(d)
        /\ Item(d) # Dot(d) /\ Item(d) # DotDot(d) /\ Dot(d) # DotDot(d)
    BY NamesOfDirectory
  <2> QED
    BY <2>1
<1>14. PICK m \in Nat : m = Count(out, ListingsOf(d))
  BY <1>12
<1>15. PICK r : r = NamedCalls(begun, d) + (Found(Item(d)) + Found(Dot(d)) + Found(DotDot(d)))
  OBVIOUS
<1>16. (m + b) + ((w1 + i) + (w2 + j) + (w3 + k)) = r
  BY <1>6, <1>8, <1>9, <1>10, <1>13, <1>14, <1>15 DEF LsInv, Balance, Balanced
<1>17. (m + (b + (i + j + k))) + (w1 + w2 + w3) = r
  BY <1>16
<1> QED
  BY <1>6, <1>8, <1>9, <1>10, <1>11, <1>13, <1>14, <1>15, <1>17 DEF Balanced

LEMMA DescendStep == ASSUME LsInv, Descend PROVE LsInv'
<1>1. pc = "walk" /\ Frame.listed /\ Frame.todo # <<>>
  BY DEF Descend
<1>2. PICK x : x = Head(Frame.todo)
  OBVIOUS
<1>3. CASE OpenFails(x)
  <2>1. Crash
    BY <1>2, <1>3 DEF Descend
  <2>2. x \in Items /\ IsDirItem(x) /\ (Len(stack) < MaxDepth \/ Endless)
    BY <1>1, <1>2, NextDirectory
  <2>3. (\E e \in Dir : e \notin alive) \/ Unreadable # {} \/ Endless
    BY <1>3, <2>2, OpenCrashCauses
  <2>4. CrashHasCause'
    BY <2>1, <2>3 DEF Crash, CrashHasCause, ui, Endless
  <2> QED
    BY <2>1, <2>4, CrashStep
<1>4. CASE ~OpenFails(x)
  <2>1. PICK g : g = [Frame EXCEPT !.todo = Tail(Frame.todo)]
    OBVIOUS
  <2>2. PICK f : f = NewFrame(x, TRUE)
    OBVIOUS
  <2>3. stack \in Seq(Frames) /\ stack # <<>> /\ Frame = stack[Len(stack)] /\ Frame \in Frames
    BY <1>1, TopCall
  <2>4. /\ stack' = Append([stack EXCEPT ![Len(stack)].todo = Tail(@)], f)
        /\ UNCHANGED <<pc, args, options, ui, alive, files, dirs, begun, header, out>>
    BY <1>2, <1>4, <2>2 DEF Descend
  <2>5. [stack EXCEPT ![Len(stack)].todo = Tail(@)] = WithLast(stack, g)
    BY <2>1, <2>3 DEF WithLast
  <2>6. Calling(g, f)
    BY <1>1, <1>2, <1>4, <2>1, <2>2, <2>4, <2>5 DEF Calling, ui
  <2>7. /\ g \in Frames /\ g.dir = Frame.dir /\ g.listed /\ CallSees(g) /\ CallWaits(g)
        /\ f \in Frames /\ f.dir = x.node /\ ~f.listed /\ CallSees(f) /\ CallWaits(f)
    BY <1>1, <1>2, <2>6, CallingFrames
  <2>8. PICK n \in Nat : n = Len(stack)
    BY <2>3
  <2>9. /\ n \in Nat \ {0} /\ stack[n] = Frame /\ stack \in Seq(Frames)
        /\ stack' \in Seq(Frames) /\ Len(stack') = n + 1 /\ stack'[n + 1] = f /\ stack'[n] = g
        /\ \A k \in 1..(n - 1) : stack'[k] = stack[k]
        /\ \A k \in 1..n : stack'[k].dir = stack[k].dir /\ (stack[k].listed => stack'[k].listed)
        /\ n < MaxDepth
    BY <1>1, <2>6, <2>8, CallingStack
  <2>10. UNCHANGED <<pc, options, tty, width, alive, files, dirs, begun, header, out>>
    BY <2>6 DEF Calling
  <2>11. \A k \in 1..(n + 1) : k = n + 1 \/ k = n \/ k \in 1..(n - 1)
    OBVIOUS
  <2>12. n \in 1..n /\ \A k \in 1..(n - 1) : k \in 1..n
    BY <2>9
  <2>13. Types' /\ Phases' /\ CrashHasCause'
    BY <1>1, <2>9, <2>10 DEF LsInv, Types, Phases, CrashHasCause
  <2>14. LsTypeOK'
    <3>1. \A k \in 1..(n - 1) : stack[k].listed
      BY <2>8 DEF LsInv, LsTypeOK
    <3>2. \A k \in 1..n : stack[k].listed
      BY <1>1, <2>9, <2>11, <3>1
    <3>3. \A k \in 1..Len(stack') - 1 : stack'[k].listed
      BY <2>9, <3>2
    <3>4. stack' # <<>> /\ Len(stack') <= MaxDepth
      BY <2>9, DepthFacts
    <3> QED
      BY <1>1, <2>10, <3>3, <3>4 DEF LsInv, LsTypeOK
  <2>15. Calls'
    <3>1. \A k \in 1..n : CallSees(stack[k]) /\ CallWaits(stack[k])
      BY <2>8 DEF LsInv, Calls
    <3>2. ASSUME NEW k \in 1..(n + 1) PROVE \E h : stack'[k] = h /\ CallSees(h) /\ CallWaits(h)
      BY <2>7, <2>9, <2>11, <2>12, <3>1
    <3>3. ASSUME NEW k \in 1..(n + 1) PROVE (CallSees(stack[k]) /\ CallWaits(stack[k]))'
      <4>1. PICK h : stack'[k] = h /\ CallSees(h) /\ CallWaits(h)
        BY <3>2
      <4>2. CallSees(stack[k])'
        BY <2>10, <4>1 DEF CallSees, Expected, Visible, SeenBy
      <4>3. CallWaits(stack[k])'
        BY <2>10, <4>1 DEF CallWaits
      <4> QED
        BY <4>2, <4>3
    <3>4. ASSUME ~Endless, NEW k \in 1..(n + 1)
          PROVE  stack'[k].dir \in Dir /\ k <= Depth[stack'[k].dir]
      <4>1. CASE k \in 1..n
        BY <2>8, <2>9, <3>4, <4>1 DEF LsInv, Calls
      <4>2. CASE k = n + 1
        <5>1. x.node \in Dir /\ n < Depth[x.node]
          BY <1>1, <1>2, <2>8, <3>4, NextDirectory
        <5>2. Depth[x.node] \in Nat
          BY <5>1, DepthFacts
        <5>3. n + 1 <= Depth[x.node]
          BY <5>1, <5>2
        <5> QED
          BY <2>7, <2>9, <4>2, <5>1, <5>3
      <4> QED
        BY <4>1, <4>2
    <3> QED
      BY <2>9, <2>10, <3>3, <3>4 DEF Calls, Endless
  <2>16. Balance'
    <3>1. \A d \in Dir : Balanced(d)'
      BY <1>1, <2>6, CallingBalances
    <3> QED
      BY <3>1 DEF Balance
  <2> QED
    BY <2>10, <2>13, <2>14, <2>15, <2>16, OutputsKept DEF LsInv
<1> QED
  BY <1>3, <1>4

LEMMA ReturnUpStep == ASSUME LsInv, ReturnUp PROVE LsInv'
<1>1. /\ pc = "walk" /\ Frame.listed /\ Frame.todo = <<>> /\ stack' = Front(stack)
      /\ pc' = IF Len(stack) = 1 THEN "dirs" ELSE pc
      /\ UNCHANGED <<options, tty, width, alive, files, dirs, begun, header, out>>
  BY DEF ReturnUp, ui
<1>2. /\ stack \in Seq(Frames) /\ stack # <<>> /\ Frame = stack[Len(stack)] /\ Len(stack) <= MaxDepth
      /\ Frame \in Frames
  BY <1>1, TopCall
<1>3. PICK n \in Nat \ {0} : n = Len(stack)
  BY <1>2
<1>4. /\ stack' \in Seq(Frames) /\ Len(stack') = n - 1 /\ \A k \in 1..(n - 1) : stack'[k] = stack[k]
  BY <1>1, <1>2, <1>3, LastAndFront
<1>5. n - 1 \in Nat /\ n \in 1..n /\ \A k \in 1..(n - 1) : k \in 1..n /\ k # n /\ k + 1 \in 1..n
  OBVIOUS
<1>6. \A k \in 1..n : k = n \/ k \in 1..(n - 1)
  OBVIOUS
<1>7. Types' /\ CrashHasCause'
  BY <1>1, <1>4 DEF LsInv, Types, CrashHasCause
<1>8. stack' = <<>> <=> n = 1
  BY <1>4, <1>5
<1>9. Phases'
  BY <1>1, <1>3, <1>8 DEF LsInv, Phases
<1>10. LsTypeOK'
  <2>1. \A k \in 1..(n - 1) : stack[k].listed
    BY <1>3 DEF LsInv, LsTypeOK
  <2>2. \A k \in 1..Len(stack') - 1 : stack'[k].listed
    <3>1. \A k \in 1..((n - 1) - 1) : k \in 1..(n - 1)
      OBVIOUS
    <3> QED
      BY <1>4, <2>1, <3>1
  <2>3. Len(stack') <= MaxDepth
    BY <1>2, <1>3, <1>4, DepthFacts
  <2> QED
    BY <1>1, <1>3, <1>8, <2>2, <2>3 DEF LsInv, LsTypeOK
<1>11. Calls'
  <2>1. \A k \in 1..n : CallSees(stack[k]) /\ CallWaits(stack[k])
    BY <1>3 DEF LsInv, Calls
  <2>2. ASSUME NEW k \in 1..(n - 1) PROVE (CallSees(stack[k]) /\ CallWaits(stack[k]))'
    <3>1. PICK h : stack'[k] = h /\ CallSees(h) /\ CallWaits(h)
      BY <1>4, <1>5, <2>1
    <3>2. CallSees(stack[k])'
      BY <1>1, <3>1 DEF CallSees, Expected, Visible, SeenBy
    <3>3. CallWaits(stack[k])'
      BY <1>1, <3>1 DEF CallWaits
    <3> QED
      BY <3>2, <3>3
  <2>3. ~Endless => \A k \in 1..(n - 1) : stack'[k].dir \in Dir /\ k <= Depth[stack'[k].dir]
    BY <1>3, <1>4, <1>5 DEF LsInv, Calls
  <2> QED
    BY <1>1, <1>4, <2>2, <2>3 DEF Calls, Endless
<1>12. Balance'
  <2>1. \A d : Frame \notin OpenCalls(d) /\ Frame \notin WaitingFor(d)
    <3>1. Len(Frame.todo) = 0
      BY <1>1
    <3> QED
      BY <1>1, <3>1 DEF OpenCalls, WaitingFor
  <2>2. ASSUME NEW A, Frame \notin A PROVE Count(stack', A) = Count(stack, A)
    <3>1. Count(stack, A) = Count(Front(stack), A) + (IF stack[Len(stack)] \in A THEN 1 ELSE 0)
      BY <1>2, CountFront
    <3>2. Count(stack', A) \in Nat
      BY <1>4, CountType
    <3> QED
      BY <1>1, <1>2, <2>2, <3>1, <3>2
  <2>3. \A d : /\ Count(stack', OpenCalls(d)) = Count(stack, OpenCalls(d))
               /\ Count(stack', WaitingFor(d)) = Count(stack, WaitingFor(d))
    BY <2>1, <2>2
  <2> QED
    BY <1>1, <2>3 DEF LsInv, Balance, Balanced, NamedCalls, Found, Waiting
<1> QED
  BY <1>1, <1>7, <1>9, <1>10, <1>11, <1>12, OutputsKept DEF LsInv

LEMMA NextIsRight == LsInv /\ [Next]_vars => LsInv'
<1> SUFFICES ASSUME LsInv, [Next]_vars PROVE LsInv'
  OBVIOUS
<1>1. CASE UNCHANGED vars
  <2>1. UNCHANGED <<pc, args, options, tty, width, alive, files, dirs, begun, header, stack, out>>
    BY <1>1 DEF vars, ui
  <2>2. Types' /\ LsTypeOK' /\ Phases' /\ CrashHasCause'
    BY <2>1 DEF LsInv, Types, LsTypeOK, Phases, CrashHasCause, MultiColumn, NextIsOverlong, IsFlags
  <2> QED
    BY <2>1, <2>2, WalkUnchanged DEF LsInv
<1>2. ASSUME NEW e \in Entry, OtherRemoves(e) PROVE LsInv'
  BY <1>2, OtherRemovesStep
<1>3. CASE Program
  BY <1>3, ParseFlagsStep, ParseNamesStep, StatNameStep, OverflowPrefixStep, NamesDoneStep, ListFilesStep,
     OpenNamedStep, FinishStep, ReadEntryStep, ListDirectoryStep, DescendStep, ReturnUpStep
     DEF Program
<1> QED
  BY <1>1, <1>2, <1>3 DEF Next

LEMMA LsInvHolds == Spec => []LsInv
BY InitIsRight, NextIsRight, PTL DEF Spec

-----------------------------------------------------------------------------
(* The theorems.                                                           *)

\* ls keeps the types of its variables and the discipline of its recursion, for
\* every tree, command line and terminal, whatever other processes remove.
THEOREM LsTypeCorrect == Spec => []LsTypeOK
<1>1. LsInv => LsTypeOK
  BY DEF LsInv
<1> QED
  BY <1>1, LsInvHolds, PTL

\* ls dies for no reason but those listed.
THEOREM CrashesHaveCauses == Spec => []CrashHasCause
<1>1. LsInv => CrashHasCause
  BY DEF LsInv
<1> QED
  BY <1>1, LsInvHolds, PTL

\* What qsort leaves with the comparison of sortFileInfo is the order the flags promise.
LEMMA PromisedOrder ==
    ASSUME NEW x \in Items, NEW y \in Items, Fits(x), Fits(y), ~Precedes(options, y, x)
    PROVE  InPromisedOrder(x, y)
<1>1. \A z \in Items : RankOf(z) \in Int
  <2>1. \A z \in Items : z.name \in Entry \cup {".", ".."}
    BY ItemTypes
  <2> QED
    BY <2>1, AttributeAssumption DEF RankOf
<1>2. PICK p \in Int, q \in Int : p = RankOf(x) /\ q = RankOf(y)
  BY <1>1
<1>3. /\ x.node # Outside /\ y.node # Outside
      /\ AsInt(Size[x.node]) = Size[x.node] /\ AsInt(Size[y.node]) = Size[y.node]
      /\ AsInt(Time[x.node]) = Time[x.node] /\ AsInt(Time[y.node]) = Time[y.node]
      /\ Size[x.node] \in Int /\ Size[y.node] \in Int
      /\ Time[x.node] \in Int /\ Time[y.node] \in Int
  BY TreeAssumption, AttributeAssumption DEF Fits
<1>4. CASE "r" \notin options
  BY <1>2, <1>3, <1>4 DEF Precedes, Before, InPromisedOrder
<1>5. CASE "r" \in options
  BY <1>2, <1>3, <1>5 DEF Precedes, Before, InPromisedOrder
<1> QED
  BY <1>4, <1>5

\* Every listing is in the order the flags promise.
THEOREM ListingsAreSorted == Spec => []ListingIsSorted
<1>1. LsInv => ListingIsSorted
  <2> SUFFICES ASSUME LsInv, "l" \in options \/ "1" \in options,
                      NEW i \in DOMAIN out, NEW j \in DOMAIN out[i].shown, NEW k \in DOMAIN out[i].shown,
                      j < k, Fits(out[i].shown[j]), Fits(out[i].shown[k])
               PROVE  InPromisedOrder(out[i].shown[j], out[i].shown[k])
    BY DEF ListingIsSorted
  <2>1. i \in 1..Len(out) /\ out[i] \in Listings
    BY DEF LsInv, Types
  <2>2. PICK t \in Seq(Items) : t = out[i].shown
    BY <2>1 DEF Listings
  <2>3. j \in 1..Len(t) /\ k \in 1..Len(t) /\ t[j] \in Items /\ t[k] \in Items
    BY <2>2
  <2>4. ~Precedes(options, t[k], t[j])
    BY <2>1, <2>2, <2>3 DEF LsInv, Outputs, InTheirOrder
  <2> QED
    BY <2>2, <2>3, <2>4, PromisedOrder
<1> QED
  BY <1>1, LsInvHolds, PTL

\* The sums behind TimesListed and TimesNamed.
LEMMA TimesAreCounts ==
    ASSUME LsInv, NEW d
    PROVE  /\ TimesListed(d) = Count(out, ListingsOf(d))
           /\ TimesFound(d) = Count(out, ListingsWith(d))
           /\ begun = Len(dirs) => TimesNamed(d) = NamedCalls(begun, d)
<1>1. out \in Seq(Listings) /\ dirs \in Seq({Item(e) : e \in Dir})
  BY DEF LsInv, Types
<1>2. \A i \in DOMAIN out : out[i] \in ListingsOf(d) <=> out[i].dir = d
  BY <1>1 DEF ListingsOf
<1>3. {i \in DOMAIN out : out[i].dir = d} = {i \in DOMAIN out : out[i] \in ListingsOf(d)}
  BY <1>2
<1>4. DOMAIN dirs = 1..Len(dirs)
  BY <1>1
<1>5. \A i \in DOMAIN out : out[i] \in ListingsWith(d) <=> d \in out[i].found
  BY <1>1 DEF ListingsWith
<1>6. {i \in DOMAIN out : d \in out[i].found} = {i \in DOMAIN out : out[i] \in ListingsWith(d)}
  BY <1>5
<1> QED
  BY <1>3, <1>4, <1>6 DEF TimesListed, TimesFound, Count, TimesNamed, NamedCalls

\* When ls is done the walk has missed and repeated nothing.
LEMMA DoneIsComplete ==
    ASSUME LsInv, pc = "done", NEW d \in Dir
    PROVE  TimesListed(d) = TimesNamed(d)
             + (IF "R" \in options
                THEN TimesFound(Item(d)) + TimesFound(Dot(d)) + TimesFound(DotDot(d)) ELSE 0)
<1>1. stack = <<>> /\ begun = Len(dirs) /\ out \in Seq(Listings)
  BY DEF LsInv, Phases, Types
<1>2. /\ TimesListed(d) = Count(out, ListingsOf(d)) /\ TimesNamed(d) = NamedCalls(begun, d)
      /\ \A x : TimesFound(x) = Count(out, ListingsWith(x))
  BY <1>1, TimesAreCounts
<1>3. \A A : Count(stack, A) = 0
  <2>1. \A A : {k \in DOMAIN <<>> : <<>>[k] \in A} = {}
    OBVIOUS
  <2> QED
    BY <1>1, <2>1, FS_EmptySet DEF Count
<1>4. Count(stack, OpenCalls(d)) = 0 /\ \A x : Waiting(x) = 0
  BY <1>3 DEF Waiting
<1>5. PICK m \in Nat, n \in Nat : m = Count(out, ListingsOf(d)) /\ n = NamedCalls(begun, d)
  <2>1. NamedCalls(begun, d) \in Nat
    BY OneMoreNamed DEF LsInv, LsTypeOK
  <2> QED
    BY <1>1, <2>1, CountType
<1>6. \A x : Found(x) \in Nat
  BY <1>1, CountType DEF Found
<1>7. (m + 0) + (0 + 0 + 0) = n + (Found(Item(d)) + Found(Dot(d)) + Found(DotDot(d)))
  BY <1>4, <1>5 DEF LsInv, Balance, Balanced
<1>8. m = n + (Found(Item(d)) + Found(Dot(d)) + Found(DotDot(d)))
  BY <1>6, <1>7
<1>9. CASE "R" \in options
  BY <1>2, <1>5, <1>8, <1>9 DEF Found
<1>10. CASE "R" \notin options
  <2>1. \A x : Found(x) = 0
    BY <1>10 DEF Found
  <2> QED
    BY <1>2, <1>5, <1>8, <1>10, <2>1
<1> QED
  BY <1>9, <1>10

\* Every listing comes from every entry that is still there, whose name is to be shown
\* and which lstat does not refuse, and shows it once, in whatever columns; and the walk
\* of -R lists every directory as often as it found it.
THEOREM ListingsAreComplete == Spec => []ListingIsComplete
<1>1. LsInv => ListingIsComplete
  <2> SUFFICES ASSUME LsInv PROVE ListingIsComplete
    OBVIOUS
  <2>1. LsTypeOK /\ alive \subseteq Entry
    BY DEF LsInv, Types
  <2>2. ASSUME NEW i \in DOMAIN out, out[i].dir \in Dir
        PROVE  /\ \A e \in alive : Parent[e] = out[i].dir /\ Visible(e) =>
                     Item(e) \in out[i].found \/ out[i].dir \in Unreachable
               /\ \A e \in Entry : Item(e) \in out[i].found => Parent[e] = out[i].dir /\ Visible(e)
               /\ Shows => \A e \in Entry : TimesShown(e, i) = IF Item(e) \in out[i].found THEN 1 ELSE 0
    <3>1. i \in 1..Len(out) /\ out[i] \in Listings
      BY DEF LsInv, Types
    <3>2. PICK l \in Listings : l = out[i]
      BY <3>1
    <3>3. Complete(l) /\ l.dir \in Dir
      BY <2>2, <3>1, <3>2 DEF LsInv, Outputs
    <3>4. \A e \in alive : Parent[e] = l.dir /\ Visible(e) => Item(e) \in l.found \/ l.dir \in Unreachable
      BY <3>3 DEF Complete
    <3>5. \A e \in Entry : Item(e) \in l.found => Parent[e] = l.dir /\ Visible(e)
      BY <3>3, ExpectedItems DEF Complete
    <3>6. Shows => \A e \in Entry : TimesIn(e, l.shown) = IF Item(e) \in l.found THEN 1 ELSE 0
      <4>1. Shows => ListsOnce(l.shown, l.found)
        BY <3>3 DEF Complete
      <4>2. l.shown \in Seq(Items) /\ l.found \in SUBSET Items
        BY DEF Listings
      <4> QED
        BY <4>1, <4>2, ShownTimes
    <3>7. \A e : TimesShown(e, i) = TimesIn(e, l.shown)
      BY <3>2 DEF TimesIn, TimesShown
    <3> QED
      BY <3>2, <3>4, <3>5, <3>6, <3>7
  <2>3. pc = "done" =>
           \A d \in Dir :
               TimesListed(d) = TimesNamed(d)
                 + (IF "R" \in options
                    THEN TimesFound(Item(d)) + TimesFound(Dot(d)) + TimesFound(DotDot(d)) ELSE 0)
    BY DoneIsComplete
  <2> QED
    BY <2>1, <2>2, <2>3 DEF ListingIsComplete
<1> QED
  BY <1>1, LsInvHolds, PTL
=============================================================================
