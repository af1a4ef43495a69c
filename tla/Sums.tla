-------------------------------- MODULE Sums --------------------------------
(***************************************************************************)
(* Finite sums of integers.  The SDK adds satoshi, shannon and token       *)
(* amounts with Array.reduce; every module that relates such totals takes  *)
(* the sum from here, and its proofs the lemmas that follow about SumTo    *)
(* and InOrder.                                                            *)
(* Induction is done on sets: a set of naturals that holds 0 and is closed *)
(* under successor is all of Nat.                                          *)
(***************************************************************************)
EXTENDS Orders, Sequences, FiniteSetTheorems, WellFoundedInduction, TLAPS

\* f[1] + ... + f[n], and 0 when n = 0.
SumTo(f, n) ==
    LET partial[k \in 0..n] == IF k = 0 THEN 0 ELSE partial[k - 1] + f[k]
    IN  partial[n]

-----------------------------------------------------------------------------
\* A nonempty set of naturals has a least element.
LEMMA LeastExists ==
    ASSUME NEW T \in SUBSET Nat, T # {}
    PROVE  \E x \in T : \A y \in T : x <= y
<1> DEFINE Below == {p \in Nat \X Nat : p[1] < p[2]}
<1>1. IsWellFoundedOn(Below, Nat)
  BY NatLessThanWellFounded DEF OpToRel
<1>2. \E x \in T : \A y \in T : <<y, x>> \notin Below
  <2> HIDE DEF Below
  <2> QED BY <1>1, WFMin
<1>3. PICK x \in T : \A y \in T : <<y, x>> \notin Below
  BY <1>2
<1>4. ASSUME NEW y \in T PROVE x <= y
  <2>1. <<y, x>> \in Nat \X Nat
    OBVIOUS
  <2> QED BY <2>1, <1>3
<1> QED BY <1>4

\* Induction over the naturals, with the induction hypothesis as a set.
LEMMA NatSetInduction ==
    ASSUME NEW S, 0 \in S, \A n \in Nat : n \in S => n + 1 \in S
    PROVE  Nat \subseteq S
<1>1. SUFFICES ASSUME Nat \ S # {} PROVE FALSE
  OBVIOUS
<1>2. PICK x \in Nat \ S : \A y \in Nat \ S : x <= y
  BY <1>1, LeastExists
<1>3. x - 1 \in Nat /\ x - 1 \in S
  BY <1>2
<1>4. x \in S
  BY <1>3
<1> QED BY <1>2, <1>4

-----------------------------------------------------------------------------
\* The partial sums of f up to n.
Partials(f, n, p) ==
    /\ p \in [0..n -> Int]
    /\ p[0] = 0
    /\ \A k \in 1..n : p[k] = p[k - 1] + f[k]

\* Every integer function has partial sums up to any n, ...
LEMMA PartialsExist ==
    ASSUME NEW N \in Nat, NEW f, \A k \in 1..N : f[k] \in Int
    PROVE  \E p : Partials(f, N, p)
<1> DEFINE S == {n \in Nat : n <= N => \E p : Partials(f, n, p)}
<1>1. 0 \in S
  <2>1. Partials(f, 0, [k \in 0..0 |-> 0])
    BY DEF Partials
  <2> QED BY <2>1
<1>2. ASSUME NEW n \in Nat, n \in S PROVE n + 1 \in S
  <2>1. SUFFICES ASSUME n + 1 <= N PROVE \E p : Partials(f, n + 1, p)
    OBVIOUS
  <2>2. PICK p : Partials(f, n, p)
    BY <1>2, <2>1
  <2> DEFINE q == [k \in 0..(n + 1) |-> IF k <= n THEN p[k] ELSE p[n] + f[n + 1]]
  <2>3. f[n + 1] \in Int /\ p[n] \in Int
    BY <2>1, <2>2 DEF Partials
  <2>4. q \in [0..(n + 1) -> Int] /\ q[0] = 0
    BY <2>2, <2>3 DEF Partials
  <2>5. \A k \in 1..(n + 1) : q[k] = q[k - 1] + f[k]
    <3> TAKE k \in 1..(n + 1)
    <3>1. CASE k <= n
      BY <3>1, <2>2 DEF Partials
    <3>2. CASE k = n + 1
      BY <3>2, <2>2, <2>3 DEF Partials
    <3> QED BY <3>1, <3>2
  <2>6. Partials(f, n + 1, q)
    BY <2>4, <2>5 DEF Partials
  <2> QED BY <2>6
<1>3. Nat \subseteq S
  <2> HIDE DEF S
  <2> QED BY <1>1, <1>2, NatSetInduction
<1> QED BY <1>3

\* ... only one sequence of them, ...
LEMMA PartialsUnique ==
    ASSUME NEW N \in Nat, NEW f, NEW p, NEW q,
           Partials(f, N, p), Partials(f, N, q)
    PROVE  p = q
<1> DEFINE S == {n \in Nat : n <= N => p[n] = q[n]}
<1>1. 0 \in S
  BY DEF Partials
<1>2. ASSUME NEW n \in Nat, n \in S PROVE n + 1 \in S
  <2>1. SUFFICES ASSUME n + 1 <= N PROVE p[n + 1] = q[n + 1]
    OBVIOUS
  <2>2. n + 1 \in 1..N /\ (n + 1) - 1 = n /\ p[n] = q[n]
    BY <1>2, <2>1
  <2> QED BY <2>2 DEF Partials
<1>3. Nat \subseteq S
  <2> HIDE DEF S
  <2> QED BY <1>1, <1>2, NatSetInduction
<1>4. \A n \in 0..N : p[n] = q[n]
  BY <1>3
<1> QED BY <1>4 DEF Partials

\* ... and SumTo is the last of them.
LEMMA SumIsPartial ==
    ASSUME NEW n \in Nat, NEW f, NEW p, Partials(f, n, p)
    PROVE  SumTo(f, n) = p[n]
<1> DEFINE g == CHOOSE g : g = [k \in 0..n |-> IF k = 0 THEN 0 ELSE g[k - 1] + f[k]]
<1>1. p = [k \in 0..n |-> IF k = 0 THEN 0 ELSE p[k - 1] + f[k]]
  BY DEF Partials
<1>2. g = [k \in 0..n |-> IF k = 0 THEN 0 ELSE g[k - 1] + f[k]]
  BY <1>1
<1>3. SumTo(f, n) = g[n]
  BY DEF SumTo
<1> HIDE DEF g
<1> DEFINE S == {k \in Nat : k <= n => g[k] = p[k]}
<1>4. 0 \in S
  BY <1>2 DEF Partials
<1>5. ASSUME NEW k \in Nat, k \in S PROVE k + 1 \in S
  <2>1. SUFFICES ASSUME k + 1 <= n PROVE g[k + 1] = p[k + 1]
    OBVIOUS
  <2>2. k + 1 \in 0..n /\ k + 1 # 0 /\ (k + 1) - 1 = k
    BY <2>1
  <2>3. g[k + 1] = g[k] + f[k + 1]
    BY <1>2, <2>2
  <2>4. p[k + 1] = p[k] + f[k + 1]
    BY <1>1, <2>2
  <2> QED BY <2>1, <2>3, <2>4, <1>5
<1>6. Nat \subseteq S
  <2> HIDE DEF S
  <2> QED BY <1>4, <1>5, NatSetInduction
<1> QED BY <1>3, <1>6
-----------------------------------------------------------------------------
\* The empty sum, and the sum with one more term.
LEMMA SumNone == ASSUME NEW f PROVE SumTo(f, 0) = 0
<1>1. PICK p : Partials(f, 0, p)
  BY PartialsExist
<1>2. SumTo(f, 0) = p[0]
  BY <1>1, SumIsPartial
<1>3. p[0] = 0
  BY <1>1 DEF Partials
<1> QED BY <1>2, <1>3

LEMMA SumOneMore ==
    ASSUME NEW n \in Nat, NEW f, \A k \in 1..(n + 1) : f[k] \in Int
    PROVE  /\ SumTo(f, n) \in Int
           /\ SumTo(f, n + 1) = SumTo(f, n) + f[n + 1]
<1>1. PICK p : Partials(f, n + 1, p)
  BY PartialsExist, n + 1 \in Nat
<1> DEFINE q == [k \in 0..n |-> p[k]]
<1>2. Partials(f, n, q)
  BY <1>1 DEF Partials
<1>3. SumTo(f, n + 1) = p[n + 1]
  BY <1>1, SumIsPartial, n + 1 \in Nat
<1>4. SumTo(f, n) = q[n]
  BY <1>2, SumIsPartial
<1>5. p[n + 1] = p[n] + f[n + 1] /\ q[n] = p[n] /\ p[n] \in Int
  <2>1. n + 1 \in 1..(n + 1) /\ (n + 1) - 1 = n /\ n \in 0..n /\ n \in 0..(n + 1)
    OBVIOUS
  <2> QED BY <2>1, <1>1 DEF Partials
<1> QED BY <1>3, <1>4, <1>5

\* A sum of integers is an integer, a sum of naturals a natural.
LEMMA SumInt ==
    ASSUME NEW n \in Nat, NEW f, \A k \in 1..n : f[k] \in Int
    PROVE  SumTo(f, n) \in Int
<1>1. PICK p : Partials(f, n, p)
  BY PartialsExist
<1>2. SumTo(f, n) = p[n]
  BY <1>1, SumIsPartial
<1>3. p[n] \in Int
  BY <1>1, n \in 0..n DEF Partials
<1> QED BY <1>2, <1>3

LEMMA SumNat ==
    ASSUME NEW N \in Nat, NEW f, \A k \in 1..N : f[k] \in Nat
    PROVE  SumTo(f, N) \in Nat
<1> DEFINE S == {n \in Nat : n <= N => SumTo(f, n) \in Nat}
<1>1. 0 \in S
  BY SumNone
<1>2. ASSUME NEW n \in Nat, n \in S PROVE n + 1 \in S
  <2>1. SUFFICES ASSUME n + 1 <= N PROVE SumTo(f, n + 1) \in Nat
    OBVIOUS
  <2>2. SumTo(f, n + 1) = SumTo(f, n) + f[n + 1]
    BY <2>1, SumOneMore
  <2>3. SumTo(f, n) \in Nat /\ f[n + 1] \in Nat
    BY <1>2, <2>1
  <2> QED BY <2>2, <2>3
<1>3. Nat \subseteq S
  <2> HIDE DEF S
  <2> QED BY <1>1, <1>2, NatSetInduction
<1> QED BY <1>3

\* Functions that agree up to n have the same sum.
LEMMA SumSame ==
    ASSUME NEW N \in Nat, NEW f, NEW g,
           \A k \in 1..N : f[k] \in Int /\ g[k] = f[k]
    PROVE  SumTo(f, N) = SumTo(g, N)
<1>1. PICK p : Partials(f, N, p)
  BY PartialsExist
<1>2. Partials(g, N, p)
  BY <1>1 DEF Partials
<1> QED BY <1>1, <1>2, SumIsPartial

\* The sum of a sum, term by term.
LEMMA SumPlus ==
    ASSUME NEW N \in Nat, NEW f, NEW g, NEW h,
           \A k \in 1..N : f[k] \in Int /\ g[k] \in Int /\ h[k] = f[k] + g[k]
    PROVE  SumTo(h, N) = SumTo(f, N) + SumTo(g, N)
<1>1. PICK p : Partials(f, N, p)
  BY PartialsExist
<1>2. PICK q : Partials(g, N, q)
  BY PartialsExist
<1> DEFINE r == [k \in 0..N |-> p[k] + q[k]]
<1>3. r \in [0..N -> Int] /\ r[0] = 0
  BY <1>1, <1>2 DEF Partials
<1>4. \A k \in 1..N : r[k] = r[k - 1] + h[k]
  <2> TAKE k \in 1..N
  <2>1. k \in 0..N /\ k - 1 \in 0..N
    OBVIOUS
  <2>2. /\ p[k] = p[k - 1] + f[k] /\ p[k - 1] \in Int
        /\ q[k] = q[k - 1] + g[k] /\ q[k - 1] \in Int
    BY <1>1, <1>2, <2>1 DEF Partials
  <2> QED BY <2>1, <2>2
<1>5. Partials(h, N, r)
  BY <1>3, <1>4 DEF Partials
<1>6. SumTo(h, N) = r[N]
  BY <1>5, SumIsPartial
<1> HIDE DEF r
<1>7. SumTo(f, N) = p[N] /\ SumTo(g, N) = q[N]
  BY <1>1, <1>2, SumIsPartial
<1> QED BY <1>6, <1>7 DEF r

\* A single nonzero term.
LEMMA SumSingle ==
    ASSUME NEW N \in Nat, NEW f, NEW i \in 1..N, f[i] \in Int,
           \A k \in 1..N : k # i => f[k] = 0
    PROVE  SumTo(f, N) = f[i]
<1> DEFINE p == [k \in 0..N |-> IF k < i THEN 0 ELSE f[i]]
<1>1. Partials(f, N, p)
  <2>1. p \in [0..N -> Int] /\ p[0] = 0
    OBVIOUS
  <2>2. ASSUME NEW k \in 1..N PROVE p[k] = p[k - 1] + f[k]
    <3>1. CASE k < i
      BY <3>1
    <3>2. CASE k = i
      BY <3>2
    <3>3. CASE k > i
      BY <3>3
    <3> QED BY <3>1, <3>2, <3>3
  <2> HIDE DEF p
  <2> QED BY <2>1, <2>2 DEF Partials
<1>2. SumTo(f, N) = p[N]
  <2> HIDE DEF p
  <2> QED BY <1>1, SumIsPartial
<1> QED BY <1>2

\* Changing one term changes the sum by the same amount.
LEMMA SumUpdate ==
    ASSUME NEW N \in Nat, NEW f, NEW g, NEW i \in 1..N,
           \A k \in 1..N : f[k] \in Int /\ g[k] \in Int,
           \A k \in 1..N : k # i => g[k] = f[k]
    PROVE  SumTo(g, N) = SumTo(f, N) + g[i] - f[i]
<1> DEFINE d == [k \in 1..N |-> IF k = i THEN g[i] - f[i] ELSE 0]
<1>1. \A k \in 1..N : f[k] \in Int /\ d[k] \in Int /\ g[k] = f[k] + d[k]
  OBVIOUS
<1>2. d[i] = g[i] - f[i] /\ \A k \in 1..N : k # i => d[k] = 0
  OBVIOUS
<1>3. SumTo(f, N) \in Int
  BY SumInt
<1> HIDE DEF d
<1>4. SumTo(g, N) = SumTo(f, N) + SumTo(d, N)
  BY <1>1, SumPlus
<1>5. SumTo(d, N) = d[i]
  BY <1>1, <1>2, SumSingle
<1> QED BY <1>2, <1>3, <1>4, <1>5

\* Removing the i-th of N + 1 terms leaves the others.
LEMMA SumRemove ==
    ASSUME NEW N \in Nat, NEW f, NEW g, NEW i \in 1..(N + 1),
           \A k \in 1..(N + 1) : f[k] \in Int,
           \A k \in 1..N : g[k] = IF k < i THEN f[k] ELSE f[k + 1]
    PROVE  SumTo(g, N) = SumTo(f, N + 1) - f[i]
<1>1. PICK p : Partials(f, N + 1, p)
  BY PartialsExist, N + 1 \in Nat
<1> DEFINE q == [k \in 0..N |-> IF k < i THEN p[k] ELSE p[k + 1] - f[i]]
<1>2. q \in [0..N -> Int] /\ q[0] = 0
  <2>1. \A k \in 0..N : k \in 0..(N + 1) /\ k + 1 \in 0..(N + 1)
    OBVIOUS
  <2>2. p \in [0..(N + 1) -> Int] /\ p[0] = 0
    BY <1>1 DEF Partials
  <2>3. q \in [0..N -> Int]
    BY <2>1, <2>2
  <2> QED BY <2>2, <2>3
<1>3. ASSUME NEW k \in 1..N PROVE q[k] = q[k - 1] + g[k]
  <2>1. /\ p[k] = p[k - 1] + f[k] /\ p[k + 1] = p[k] + f[k + 1]
        /\ p[k - 1] \in Int /\ p[k] \in Int /\ p[k + 1] \in Int
    <3>1. k \in 1..(N + 1) /\ k + 1 \in 1..(N + 1) /\ (k + 1) - 1 = k
      OBVIOUS
    <3>2. k - 1 \in 0..(N + 1) /\ k \in 0..(N + 1) /\ k + 1 \in 0..(N + 1)
      OBVIOUS
    <3> QED BY <3>1, <3>2, <1>1 DEF Partials
  <2>2. f[k] \in Int /\ f[k + 1] \in Int /\ f[i] \in Int
    OBVIOUS
  <2>3. CASE k < i
    BY <2>1, <2>2, <2>3
  <2>4. CASE k >= i /\ k - 1 < i
    <3>1. k = i
      BY <2>4
    <3>2. p[i] = p[i - 1] + f[i]
      BY <2>1, <3>1
    <3>3. q[k] = p[i + 1] - f[i] /\ q[k - 1] = p[i - 1] /\ g[k] = f[i + 1]
      BY <2>4, <3>1
    <3>4. p[i + 1] = p[i] + f[i + 1]
      BY <2>1, <3>1
    <3>5. p[i - 1] \in Int /\ f[i] \in Int /\ f[i + 1] \in Int
      BY <2>1, <2>2, <3>1
    <3> HIDE DEF q
    <3>6. p[i + 1] - f[i] = p[i - 1] + f[i + 1]
      BY <3>2, <3>4, <3>5
    <3> QED BY <3>1, <3>3, <3>6
  <2>5. CASE k > i
    BY <2>1, <2>2, <2>5
  <2> QED BY <2>3, <2>4, <2>5
<1>4. Partials(g, N, q)
  <2> HIDE DEF q
  <2> QED BY <1>2, <1>3 DEF Partials
<1>5. SumTo(g, N) = q[N]
  <2> HIDE DEF q
  <2> QED BY <1>4, SumIsPartial
<1>6. SumTo(f, N + 1) = p[N + 1]
  BY <1>1, SumIsPartial, N + 1 \in Nat
<1>7. CASE N < i
  <2>1. i = N + 1 /\ p[N + 1] = p[N] + f[N + 1] /\ p[N] \in Int /\ f[N + 1] \in Int
    BY <1>1, <1>7 DEF Partials
  <2>2. q[N] = p[N]
    BY <1>7
  <2> QED BY <1>5, <1>6, <2>1, <2>2
<1>8. CASE N >= i
  <2>1. q[N] = p[N + 1] - f[i]
    BY <1>8
  <2> QED BY <1>5, <1>6, <2>1
<1> QED BY <1>7, <1>8

\* n equal terms.
LEMMA SumConstant ==
    ASSUME NEW N \in Nat, NEW v \in Int, NEW f, \A k \in 1..N : f[k] = v
    PROVE  SumTo(f, N) = N * v
<1> DEFINE p == [k \in 0..N |-> k * v]
<1>1. p \in [0..N -> Int] /\ p[0] = 0
  OBVIOUS
<1>2. ASSUME NEW k \in 1..N PROVE p[k] = p[k - 1] + f[k]
  <2>1. p[k] = k * v /\ p[k - 1] = (k - 1) * v
    OBVIOUS
  <2>2. (k - 1) * v = k * v - v
    OBVIOUS
  <2> QED BY <2>1, <2>2
<1>3. SumTo(f, N) = p[N]
  <2> HIDE DEF p
  <2>1. Partials(f, N, p)
    BY <1>1, <1>2 DEF Partials
  <2> QED BY <2>1, SumIsPartial
<1> QED BY <1>3

\* A sum of greater terms is greater.
LEMMA SumMonotone ==
    ASSUME NEW N \in Nat, NEW f, NEW g,
           \A k \in 1..N : f[k] \in Int /\ g[k] \in Int /\ f[k] <= g[k]
    PROVE  SumTo(f, N) <= SumTo(g, N)
<1> DEFINE d == [k \in 1..N |-> g[k] - f[k]]
<1>1. \A k \in 1..N : f[k] \in Int /\ d[k] \in Nat /\ g[k] = f[k] + d[k]
  OBVIOUS
<1> HIDE DEF d
<1>2. SumTo(g, N) = SumTo(f, N) + SumTo(d, N)
  BY <1>1, SumPlus
<1>3. SumTo(d, N) \in Nat /\ SumTo(f, N) \in Int
  BY <1>1, SumNat, SumInt
<1> QED BY <1>2, <1>3

\* The sum over two functions laid one behind the other.
LEMMA SumAppend ==
    ASSUME NEW n \in Nat, NEW M \in Nat, NEW f, NEW g, NEW h,
           \A k \in 1..n : g[k] \in Int /\ f[k] = g[k],
           \A k \in 1..M : h[k] \in Int /\ f[n + k] = h[k]
    PROVE  SumTo(f, n + M) = SumTo(g, n) + SumTo(h, M)
<1> DEFINE S == {m \in Nat : m <= M => SumTo(f, n + m) = SumTo(g, n) + SumTo(h, m)}
<1>0. SumTo(g, n) \in Int /\ SumTo(f, n) = SumTo(g, n)
  BY SumInt, SumSame
<1>1. 0 \in S
  BY <1>0, SumNone
<1>2. ASSUME NEW m \in Nat, m \in S PROVE m + 1 \in S
  <2>1. SUFFICES ASSUME m + 1 <= M PROVE SumTo(f, n + (m + 1)) = SumTo(g, n) + SumTo(h, m + 1)
    OBVIOUS
  <2>2. \A k \in 1..((n + m) + 1) : f[k] \in Int
    <3> TAKE k \in 1..((n + m) + 1)
    <3>1. CASE k <= n
      BY <3>1
    <3>2. CASE k > n
      <4>1. k - n \in 1..M /\ n + (k - n) = k
        BY <3>2, <2>1
      <4>2. f[n + (k - n)] \in Int
        BY <4>1
      <4> QED BY <4>1, <4>2
    <3> QED BY <3>1, <3>2
  <2>3. SumTo(f, (n + m) + 1) = SumTo(f, n + m) + f[(n + m) + 1]
    BY <2>2, SumOneMore, n + m \in Nat
  <2>4. SumTo(h, m) \in Int /\ SumTo(h, m + 1) = SumTo(h, m) + h[m + 1]
    BY <2>1, SumOneMore
  <2>5. m + 1 \in 1..M /\ (n + m) + 1 = n + (m + 1)
    BY <2>1
  <2>6. f[n + (m + 1)] = h[m + 1] /\ h[m + 1] \in Int
    BY <2>5
  <2>7. SumTo(f, n + m) = SumTo(g, n) + SumTo(h, m)
    BY <1>2, <2>1
  <2> QED BY <2>3, <2>4, <2>5, <2>6, <2>7, <1>0
<1>3. Nat \subseteq S
  <2> HIDE DEF S
  <2> QED BY <1>1, <1>2, NatSetInduction
<1> QED BY <1>3

-----------------------------------------------------------------------------
(* Ascending lists of finite sets.                                         *)

\* A larger element has a larger rank.
LEMMA RankIncreases ==
    ASSUME NEW S \in SUBSET Nat, IsFiniteSet(S), NEW c \in S, NEW d \in S, c < d
    PROVE  Rank(c, S) < Rank(d, S)
<1> DEFINE Below(e) == {x \in S : x < e}
<1>0. Below(d) \in SUBSET S
  OBVIOUS
<1>1. IsFiniteSet(Below(d)) /\ Cardinality(Below(d)) \in Nat
  BY <1>0, FS_Subset, FS_CardinalityType
<1>2. Below(c) \in SUBSET Below(d) /\ c \in Below(d) /\ c \notin Below(c)
  <2>1. c \in Nat /\ d \in Nat /\ \A x \in S : x \in Nat
    OBVIOUS
  <2>2. \A x \in S : x < c => x < d
    BY <2>1
  <2>3. ~(c < c)
    BY <2>1
  <2> QED BY <2>2, <2>3
<1>3. IsFiniteSet(Below(c)) /\ Cardinality(Below(c)) \in Nat
  BY <1>1, <1>2, FS_Subset, FS_CardinalityType
<1>4. Cardinality(Below(c)) <= Cardinality(Below(d)) /\ Cardinality(Below(c)) # Cardinality(Below(d))
  BY <1>1, <1>2, FS_Subset
<1> QED BY <1>1, <1>3, <1>4 DEF Rank

LEMMA RankRange ==
    ASSUME NEW S \in SUBSET Nat, IsFiniteSet(S), NEW c \in S
    PROVE  Rank(c, S) \in 1..Cardinality(S)
<1> DEFINE Below == {x \in S : x < c}
<1>1. Below \in SUBSET S /\ c \notin Below /\ Cardinality(S) \in Nat
  BY FS_CardinalityType
<1>2. IsFiniteSet(Below) /\ Cardinality(Below) \in Nat
  BY <1>1, FS_Subset, FS_CardinalityType
<1>3. Cardinality(Below) <= Cardinality(S) /\ Cardinality(Below) # Cardinality(S)
  BY <1>1, FS_Subset
<1> QED BY <1>1, <1>2, <1>3 DEF Rank

LEMMA RankOnto ==
    ASSUME NEW S \in SUBSET Nat, IsFiniteSet(S), NEW k \in 1..Cardinality(S)
    PROVE  \E c \in S : Rank(c, S) = k
<1> DEFINE T == 1..Cardinality(S)
           rank == [c \in S |-> Rank(c, S)]
<1>1. Cardinality(S) \in Nat
  BY FS_CardinalityType
<1>2. IsFiniteSet(T) /\ Cardinality(T) = Cardinality(S)
  BY <1>1, FS_Interval
<1>3. rank \in [S -> T]
  BY RankRange
<1>4. ASSUME NEW c \in S, NEW d \in S, rank[c] = rank[d] PROVE c = d
  <2>1. Rank(c, S) \in Nat /\ Rank(d, S) \in Nat /\ Rank(c, S) = Rank(d, S)
    BY <1>4, RankRange, <1>1
  <2>2. ~(c < d) /\ ~(d < c)
    BY <2>1, RankIncreases
  <2> QED BY <2>2
<1>5. rank \in Injection(S, T)
  BY <1>3, <1>4 DEF Injection, IsInjective
<1>6. rank \in Surjection(S, T)
  <2> HIDE DEF T, rank
  <2> QED BY <1>2, <1>5, FS_Injection
<1> QED BY <1>6 DEF Surjection

\* The list holds exactly the elements of the set, each at its rank.
LEMMA InOrderPlaces ==
    ASSUME NEW S \in SUBSET Nat, IsFiniteSet(S)
    PROVE  /\ InOrder(S) \in Seq(S) /\ Len(InOrder(S)) = Cardinality(S)
           /\ \A k \in 1..Cardinality(S) : InOrder(S)[k] \in S /\ Rank(InOrder(S)[k], S) = k
           /\ \A c \in S : InOrder(S)[Rank(c, S)] = c
<1>1. Cardinality(S) \in Nat
  BY FS_CardinalityType
<1>2. ASSUME NEW k \in 1..Cardinality(S)
      PROVE  InOrder(S)[k] \in S /\ Rank(InOrder(S)[k], S) = k
  BY RankOnto DEF InOrder
<1>3. InOrder(S) \in Seq(S) /\ Len(InOrder(S)) = Cardinality(S)
  BY <1>1, <1>2 DEF InOrder
<1>4. ASSUME NEW c \in S PROVE InOrder(S)[Rank(c, S)] = c
  <2>1. Rank(c, S) \in 1..Cardinality(S)
    BY RankRange
  <2>2. PICK d \in S : d = InOrder(S)[Rank(c, S)] /\ Rank(d, S) = Rank(c, S)
    BY <2>1, <1>2
  <2>3. ~(c < d) /\ ~(d < c)
    BY <2>1, <2>2, <1>1, RankIncreases
  <2> QED BY <2>2, <2>3
<1> QED BY <1>2, <1>3, <1>4

=============================================================================
