---------------------------- MODULE FloatProofs ----------------------------
(***************************************************************************)
(* How far a float is from the integer it keeps, for every width of the    *)
(* significand; and that recursive functions on the natural numbers are    *)
(* what their definitions say.                                             *)
(***************************************************************************)
EXTENDS Float, WellFoundedInduction, TLAPS

(* Recursion *)

\* Induction over a set of numbers in place of a predicate.
LEMMA StrongInduction ==
  ASSUME NEW T, \A n \in Nat : (\A m \in 0..n-1 : m \in T) => n \in T
  PROVE  Nat \subseteq T
<1>. SUFFICES ASSUME Nat \ T # {} PROVE FALSE
  OBVIOUS
<1>1. PICK n \in Nat \ T : \A m \in Nat \ T : ~ (<<m, n>> \in OpToRel(<, Nat))
  <2>1. Nat \ T \subseteq Nat
    OBVIOUS
  <2>. QED
    BY <2>1, NatLessThanWellFounded, WFMin
<1>2. ASSUME NEW m \in 0..n-1 PROVE m \in T
  <2>1. m \in Nat /\ m < n
    OBVIOUS
  <2>2. <<m, n>> \in OpToRel(<, Nat)
    BY <2>1 DEF OpToRel
  <2>. QED
    BY <1>1, <2>1, <2>2
<1>. QED
  BY <1>2

\* What a recursive function is at n: b[n] in B, and else what g makes of its
\* value at the smaller number d[n].
Body(f, B, b, d, g, n) == IF n \in B THEN b[n] ELSE g[n][f[d[n]]]

Solves(f, B, b, d, g) == \A n \in Nat : f[n] = Body(f, B, b, d, g, n)

\* There is such a function.
LEMMA Recursion ==
  ASSUME NEW S, NEW B, NEW b \in [Nat -> S], NEW d \in [Nat -> Nat], NEW g \in [Nat -> [S -> S]],
         \A n \in Nat \ B : d[n] < n
  PROVE  \E f \in [Nat -> S] : Solves(f, B, b, d, g)
<1>. DEFINE Until(n) == {f \in [Nat -> S] : \A k \in 0..n-1 : f[k] = Body(f, B, b, d, g, k)}
            T == {n \in Nat : Until(n) # {}}
<1>1. ASSUME NEW n \in Nat, \A m \in 0..n-1 : m \in T
      PROVE  n \in T
  <2>1. CASE n = 0
    <3>1. b \in Until(0)
      OBVIOUS
    <3>. QED
      BY <2>1, <3>1
  <2>2. CASE n # 0
    <3>1. PICK m \in Nat : n = m + 1 /\ m \in T
      <4>1. n - 1 \in 0..n-1 /\ n - 1 \in Nat /\ n = (n - 1) + 1
        BY <2>2
      <4>. HIDE DEF T
      <4>. QED
        BY <1>1, <4>1
    <3>2. PICK f \in [Nat -> S] : \A k \in 0..m-1 : f[k] = Body(f, B, b, d, g, k)
      <4>1. Until(m) # {}
        BY <3>1
      <4>. QED
        BY <4>1
    <3>3. PICK h : h = [k \in Nat |-> Body(f, B, b, d, g, k)]
      OBVIOUS
    <3>4. h \in [Nat -> S]
      BY <3>3 DEF Body
    <3>5. ASSUME NEW k \in 0..n-1 PROVE h[k] = Body(h, B, b, d, g, k)
      <4>1. k \in Nat /\ h[k] = Body(f, B, b, d, g, k)
        BY <3>3
      <4>2. CASE k \in B
        BY <4>1, <4>2 DEF Body
      <4>3. CASE k \notin B
        <5>1. d[k] \in 0..m-1 /\ d[k] \in Nat
          BY <3>1, <4>1, <4>3
        <5>2. h[d[k]] = f[d[k]]
          BY <3>2, <3>3, <5>1
        <5>. QED
          BY <4>1, <5>2 DEF Body
      <4>. QED
        BY <4>2, <4>3
    <3>6. h \in Until(n)
      BY <3>4, <3>5
    <3>. QED
      BY <3>6
  <2>. QED
    BY <2>1, <2>2
<1>2. Nat \subseteq T
  <2>. HIDE DEF T
  <2>. QED
    BY <1>1, StrongInduction
<1>3. ASSUME NEW m \in Nat, NEW n \in Nat, NEW f \in Until(m), NEW h \in Until(n),
             NEW k \in Nat, k < m, k < n
      PROVE  f[k] = h[k]
  <2>. DEFINE U == {i \in Nat : i < m /\ i < n => f[i] = h[i]}
  <2>1. ASSUME NEW i \in Nat, \A j \in 0..i-1 : j \in U
        PROVE  i \in U
    <3>. SUFFICES ASSUME i < m, i < n PROVE f[i] = h[i]
      OBVIOUS
    <3>1. f[i] = Body(f, B, b, d, g, i) /\ h[i] = Body(h, B, b, d, g, i)
      OBVIOUS
    <3>2. CASE i \in B
      BY <3>1, <3>2 DEF Body
    <3>3. CASE i \notin B
      <4>1. d[i] \in 0..i-1 /\ d[i] < m /\ d[i] < n
        BY <3>3
      <4>2. f[d[i]] = h[d[i]]
        BY <2>1, <4>1
      <4>. QED
        BY <3>1, <4>2 DEF Body
    <3>. QED
      BY <3>2, <3>3
  <2>2. Nat \subseteq U
    <3>. HIDE DEF U
    <3>. QED
      BY <2>1, StrongInduction
  <2>3. k \in U
    <3>. HIDE DEF U
    <3>. QED
      BY <2>2
  <2>. QED
    BY <2>3, k < m, k < n
<1>4. PICK F : F = [n \in Nat |-> (CHOOSE f : f \in Until(n + 1))[n]]
  OBVIOUS
<1>5. ASSUME NEW n \in Nat
      PROVE  \E f \in Until(n + 1) : F[n] = f[n]
  <2>. HIDE DEF Until
  <2>1. n + 1 \in Nat /\ Until(n + 1) # {}
    <3>1. n + 1 \in Nat
      OBVIOUS
    <3>2. n + 1 \in T
      <4>. HIDE DEF T
      <4>. QED
        BY <1>2, <3>1
    <3>. QED
      BY <3>2
  <2>2. F[n] = (CHOOSE f : f \in Until(n + 1))[n]
    BY <1>4
  <2>3. (CHOOSE f : f \in Until(n + 1)) \in Until(n + 1)
    BY <2>1
  <2>. QED
    BY <2>2, <2>3
<1>6. F \in [Nat -> S]
  BY <1>4, <1>5
<1>7. ASSUME NEW n \in Nat
      PROVE  F[n] = Body(F, B, b, d, g, n)
  <2>1. PICK f \in Until(n + 1) : F[n] = f[n]
    BY <1>5
  <2>2. F[n] = Body(f, B, b, d, g, n)
    BY <2>1
  <2>3. CASE n \in B
    BY <2>2, <2>3 DEF Body
  <2>4. CASE n \notin B
    <3>1. PICK k \in Nat : k = d[n] /\ k < n
      BY <2>4
    <3>2. PICK h \in Until(k + 1) : F[k] = h[k]
      BY <1>5, <3>1
    <3>3. k + 1 \in Nat /\ n + 1 \in Nat /\ k < k + 1 /\ k < n + 1
      BY <3>1
    <3>. HIDE DEF Until
    <3>4. f[k] = h[k]
      BY <1>3, <3>3
    <3>. QED
      BY <2>2, <3>1, <3>2, <3>4 DEF Body
  <2>. QED
    BY <2>3, <2>4
<1>. QED
  BY <1>6, <1>7 DEF Solves

\* The powers of two.
LEMMA TwoToDefined ==
  /\ TwoTo \in [Nat -> Nat \ {0}]
  /\ TwoTo[0] = 1
  /\ \A n \in Nat : TwoTo[n + 1] = 2 * TwoTo[n]
<1>. DEFINE N == Nat \ {0}
            b == [n \in Nat |-> 1]
            d == [n \in Nat |-> IF n = 0 THEN 0 ELSE n - 1]
            g == [n \in Nat |-> [x \in N |-> 2 * x]]
<1>1. b \in [Nat -> N] /\ d \in [Nat -> Nat] /\ \A n \in Nat \ {0} : d[n] < n
  OBVIOUS
<1>2. g \in [Nat -> [N -> N]]
  OBVIOUS
<1>3. PICK f \in [Nat -> N] : Solves(f, {0}, b, d, g)
  <2>. HIDE DEF N, b, d, g
  <2>. QED
    BY <1>1, <1>2, Recursion
<1>4. ASSUME NEW n \in Nat
      PROVE  f[n] = IF n = 0 THEN 1 ELSE 2 * f[n - 1]
  <2>1. CASE n = 0
    BY <1>3, <2>1 DEF Solves, Body
  <2>2. CASE n # 0
    <3>1. n - 1 \in Nat /\ f[n - 1] \in N
      BY <2>2
    <3>2. f[n] = g[n][f[n - 1]]
      BY <1>3, <2>2, <3>1 DEF Solves, Body
    <3>. QED
      BY <2>2, <3>1, <3>2
  <2>. QED
    BY <2>1, <2>2
<1>. HIDE DEF N, b, d, g
<1>5. f = [n \in Nat |-> IF n = 0 THEN 1 ELSE 2 * f[n - 1]]
  BY <1>4
<1>6. TwoTo = CHOOSE h : h = [n \in Nat |-> IF n = 0 THEN 1 ELSE 2 * h[n - 1]]
  BY DEF TwoTo
<1>7. TwoTo = [n \in Nat |-> IF n = 0 THEN 1 ELSE 2 * TwoTo[n - 1]]
  BY <1>5, <1>6
<1>8. \A n \in Nat : TwoTo[n] = IF n = 0 THEN 1 ELSE 2 * TwoTo[n - 1]
  <2>. PICK h : h = TwoTo
    OBVIOUS
  <2>1. h = [n \in Nat |-> IF n = 0 THEN 1 ELSE 2 * h[n - 1]]
    BY <1>7
  <2>2. \A n \in Nat : h[n] = IF n = 0 THEN 1 ELSE 2 * h[n - 1]
    BY <2>1
  <2>. QED
    BY <2>2
<1>9. \A n \in Nat : TwoTo[n] \in N
  <2>. DEFINE T == {n \in Nat : TwoTo[n] \in N}
  <2>1. ASSUME NEW n \in Nat, \A m \in 0..n-1 : m \in T
        PROVE  n \in T
    <3>1. CASE n = 0
      BY <1>8, <3>1 DEF N
    <3>2. CASE n # 0
      <4>1. TwoTo[n - 1] \in N /\ TwoTo[n] = 2 * TwoTo[n - 1]
        BY <1>8, <2>1, <3>2
      <4>. QED
        BY <4>1 DEF N
    <3>. QED
      BY <3>1, <3>2
  <2>. HIDE DEF T
  <2>2. Nat \subseteq T
    BY <2>1, StrongInduction
  <2>. QED
    BY <2>2 DEF T
<1>10. TwoTo = [n \in Nat |-> TwoTo[n]]
  BY <1>7
<1>11. ASSUME NEW n \in Nat PROVE TwoTo[n + 1] = 2 * TwoTo[n]
  <2>1. n + 1 \in Nat /\ n + 1 # 0 /\ (n + 1) - 1 = n
    OBVIOUS
  <2>. QED
    BY <1>8, <2>1
<1>12. TwoTo \in [Nat -> Nat \ {0}]
  BY <1>9, <1>10 DEF N
<1>. QED
  BY <1>8, <1>11, <1>12

\* The numbers a float keeps as they are.
Exact == TwoTo[FloatBits]

LEMMA ExactEven ==
  /\ TwoTo[FloatBits - 1] \in Nat \ {0}
  /\ Exact = 2 * TwoTo[FloatBits - 1]
<1>1. PICK n \in Nat : n = FloatBits - 1 /\ FloatBits = n + 1
  <2>1. FloatBits - 1 \in Nat /\ FloatBits = (FloatBits - 1) + 1
    BY FloatAssumption
  <2>. QED
    BY <2>1
<1>. QED
  BY <1>1, TwoToDefined DEF Exact

\* The floats around n are a power of two apart.
LEMMA SpacingDefined ==
  /\ Spacing \in [Nat -> Nat \ {0}]
  /\ \A n \in Nat : Spacing[n] = IF n < Exact THEN 1 ELSE 2 * Spacing[n \div 2]
<1>. DEFINE N == Nat \ {0}
            B == {n \in Nat : n < Exact}
            b == [n \in Nat |-> 1]
            d == [n \in Nat |-> n \div 2]
            g == [n \in Nat |-> [x \in N |-> 2 * x]]
<1>1. Exact \in Nat /\ Exact >= 2
  BY ExactEven
<1>2. b \in [Nat -> N] /\ d \in [Nat -> Nat] /\ \A n \in Nat \ B : d[n] < n
  <2>1. \A n \in Nat : n \div 2 \in Nat /\ (n >= 2 => n \div 2 < n)
    OBVIOUS
  <2>. QED
    BY <1>1, <2>1
<1>3. g \in [Nat -> [N -> N]]
  OBVIOUS
<1>4. PICK f \in [Nat -> N] : Solves(f, B, b, d, g)
  <2>. HIDE DEF N, B, b, d, g
  <2>. QED
    BY <1>2, <1>3, Recursion
<1>5. ASSUME NEW n \in Nat
      PROVE  f[n] = IF n < Exact THEN 1 ELSE 2 * f[n \div 2]
  <2>1. CASE n < Exact
    BY <1>4, <2>1 DEF Solves, Body
  <2>2. CASE ~(n < Exact)
    <3>1. n \div 2 \in Nat /\ f[n \div 2] \in N
      OBVIOUS
    <3>2. f[n] = g[n][f[n \div 2]]
      BY <1>4, <2>2, <3>1 DEF Solves, Body
    <3>. QED
      BY <2>2, <3>1, <3>2
  <2>. QED
    BY <2>1, <2>2
<1>. HIDE DEF N, B, b, d, g
<1>6. f = [n \in Nat |-> IF n < Exact THEN 1 ELSE 2 * f[n \div 2]]
  BY <1>5
<1>7. Spacing = CHOOSE h : h = [n \in Nat |-> IF n < Exact THEN 1 ELSE 2 * h[n \div 2]]
  BY DEF Spacing, Exact
<1>8. Spacing = [n \in Nat |-> IF n < Exact THEN 1 ELSE 2 * Spacing[n \div 2]]
  BY <1>6, <1>7
<1>9. \A n \in Nat : Spacing[n] = IF n < Exact THEN 1 ELSE 2 * Spacing[n \div 2]
  <2>. PICK h : h = Spacing
    OBVIOUS
  <2>1. h = [n \in Nat |-> IF n < Exact THEN 1 ELSE 2 * h[n \div 2]]
    BY <1>8
  <2>2. \A n \in Nat : h[n] = IF n < Exact THEN 1 ELSE 2 * h[n \div 2]
    BY <2>1
  <2>. QED
    BY <2>2
<1>10. \A n \in Nat : Spacing[n] \in N
  <2>. DEFINE T == {n \in Nat : Spacing[n] \in N}
  <2>1. ASSUME NEW n \in Nat, \A m \in 0..n-1 : m \in T
        PROVE  n \in T
    <3>1. CASE n < Exact
      BY <1>9, <3>1 DEF N
    <3>2. CASE ~(n < Exact)
      <4>1. n \div 2 \in 0..n-1
        BY <1>1, <3>2
      <4>2. Spacing[n \div 2] \in N /\ Spacing[n] = 2 * Spacing[n \div 2]
        BY <1>9, <2>1, <3>2, <4>1
      <4>. QED
        BY <4>2 DEF N
    <3>. QED
      BY <3>1, <3>2
  <2>. HIDE DEF T
  <2>2. Nat \subseteq T
    BY <2>1, StrongInduction
  <2>. QED
    BY <2>2 DEF T
<1>11. Spacing = [n \in Nat |-> Spacing[n]]
  BY <1>8
<1>. QED
  BY <1>9, <1>10, <1>11 DEF N
\* Division leaves less than the divisor.
LEMMA Division ==
  ASSUME NEW n \in Int, NEW s \in Nat \ {0}
  PROVE  /\ n \div s \in Int /\ n % s \in Nat /\ n % s < s
         /\ n = (n \div s) * s + (n % s)
OBVIOUS

\* The spacing of the floats around n lies between two shares of n.
LEMMA SpacingBounds ==
  ASSUME NEW n \in Nat
  PROVE  /\ n >= Exact => TwoTo[FloatBits - 1] * Spacing[n] <= n
         /\ n < Exact => Spacing[n] = 1
<1>. DEFINE half == TwoTo[FloatBits - 1]
            T == {k \in Nat : k >= Exact => half * Spacing[k] <= k}
<1>1. half \in Nat \ {0} /\ Exact = 2 * half
  BY ExactEven
<1>. HIDE DEF half
<1>2. ASSUME NEW k \in Nat, \A m \in 0..k-1 : m \in T
      PROVE  k \in T
  <2>. SUFFICES ASSUME k >= Exact PROVE half * Spacing[k] <= k
    OBVIOUS
  <2>1. PICK m \in 0..k-1 : m = k \div 2 /\ 2 * m <= k /\ k <= 2 * m + 1
    BY <1>1
  <2>2. PICK s \in Nat : s = Spacing[m] /\ Spacing[k] = 2 * s
    BY <1>1, <2>1, SpacingDefined
  <2>3. CASE m < Exact
    <3>1. s = 1
      BY <2>1, <2>2, <2>3, SpacingDefined
    <3>. QED
      BY <1>1, <2>2, <3>1
  <2>4. CASE ~(m < Exact)
    <3>1. half * s <= m
      BY <1>1, <1>2, <2>1, <2>2, <2>4
    <3>2. half * (2 * s) = 2 * (half * s) /\ half * s \in Nat
      BY <1>1
    <3>. QED
      BY <2>1, <2>2, <3>1, <3>2
  <2>. QED
    BY <2>3, <2>4
<1>3. n \in T
  <2>. HIDE DEF T
  <2>. QED
    BY <1>2, StrongInduction
<1>. QED
  BY <1>3, SpacingDefined DEF half

\* A float is a natural number near the one it keeps: off by less than half of
\* its last place, and by nothing as long as there is a place for every bit.
LEMMA RoundedNear ==
  ASSUME NEW n \in Nat
  PROVE  /\ Rounded(n) \in Nat
         /\ (Exact + 1) * Magnitude(Rounded(n) - n) <= n
<1>1. PICK h \in Nat \ {0} : h = TwoTo[FloatBits - 1] /\ Exact = 2 * h
  BY ExactEven
<1>2. PICK s \in Nat \ {0} : s = Spacing[n]
  BY SpacingDefined
<1>3. PICK q \in Nat, r \in Nat :
        q = n \div s /\ r = n % s /\ r < s /\ n = q * s + r
  <2>1. n \div s \in Int /\ n % s \in Nat /\ n % s < s /\ n = (n \div s) * s + (n % s)
    BY Division
  <2>2. n \div s \in Nat
    BY <2>1
  <2>. QED
    BY <2>1, <2>2
<1>4. PICK p \in Nat : p = q * s
  BY <1>2, <1>3, SMTT(30)
<1>5. Rounded(n) = IF 2 * r < s \/ (2 * r = s /\ q % 2 = 0) THEN p ELSE p + s
  <2>1. Magnitude(n) = n
    BY DEF Magnitude
  <2>2. /\ Spacing[Magnitude(n)] = s /\ (n \div s) * s = p /\ n % s = r
        /\ (n \div s) % 2 = q % 2
    BY <1>2, <1>3, <1>4, <2>1
  <2>. HIDE DEF Magnitude
  <2>. QED
    BY <2>2, Zenon DEF Rounded
<1>6. PICK e \in Nat : e = Magnitude(Rounded(n) - n) /\ e <= r /\ 2 * e <= s
  BY <1>3, <1>4, <1>5 DEF Magnitude
<1>7. Rounded(n) \in Nat
  BY <1>4, <1>5
<1>8. (Exact + 1) * e <= n
  <2>1. CASE n < Exact
    <3>1. s = 1
      BY <1>2, <2>1, SpacingBounds
    <3>2. e = 0
      BY <1>3, <1>6, <3>1
    <3>. QED
      BY <1>1, <3>2
  <2>2. CASE ~(n < Exact)
    <3>1. h * s <= n
      BY <1>1, <1>2, <2>2, SpacingBounds
    <3>2. h * s <= p
      <4>1. h <= q
        <5>. SUFFICES ASSUME q + 1 <= h PROVE FALSE
          OBVIOUS
        <5>1. (q + 1) * s <= h * s
          OBVIOUS
        <5>2. (q + 1) * s = p + s
          BY <1>4
        <5>. QED
          BY <1>3, <1>4, <3>1, <5>1, <5>2
      <4>. QED
        BY <1>4, <4>1
    <3>3. h * (2 * e) <= h * s
      BY <1>6
    <3>4. (Exact + 1) * e = h * (2 * e) + e
      BY <1>1
    <3>. QED
      BY <1>3, <1>4, <1>6, <3>2, <3>3, <3>4
  <2>. QED
    BY <2>1, <2>2
<1>. QED
  BY <1>6, <1>7, <1>8

\* Only 0 becomes 0.
LEMMA RoundedZero ==
  ASSUME NEW n \in Nat, Rounded(n) = 0
  PROVE  n = 0
<1>1. (Exact + 1) * Magnitude(0 - n) <= n /\ Exact \in Nat \ {0}
  BY RoundedNear, ExactEven
<1>2. Magnitude(0 - n) = n /\ (Exact + 1) * n = Exact * n + n
  BY <1>1 DEF Magnitude
<1>. QED
  BY <1>1, <1>2

\* A float of a negative number is a number.
LEMMA RoundedInt ==
  ASSUME NEW n \in Int
  PROVE  Rounded(n) \in Int
<1>1. Magnitude(n) \in Nat
  BY DEF Magnitude
<1>2. PICK s \in Nat \ {0} : s = Spacing[Magnitude(n)]
  BY <1>1, SpacingDefined
<1>3. PICK p \in Int : p = (n \div s) * s
  BY Division
<1>. QED
  BY <1>2, <1>3 DEF Rounded
\* The numbers that a power of two divides: sums stay among them.
Grid(n) == {TwoTo[n] * q : q \in Int}

LEMMA GridSums ==
  ASSUME NEW n \in Nat, NEW x \in Grid(n), NEW y \in Grid(n)
  PROVE  x \in Int /\ x + y \in Grid(n) /\ x - y \in Grid(n) /\ 0 \in Grid(n)
<1>1. PICK t \in Nat : t = TwoTo[n]
  BY TwoToDefined
<1>2. PICK p \in Int, q \in Int : x = t * p /\ y = t * q
  BY <1>1 DEF Grid
<1>3. x + y = t * (p + q) /\ x - y = t * (p - q) /\ 0 = t * 0 /\ x \in Int
  BY <1>2
<1>. QED
  BY <1>1, <1>3 DEF Grid

\* A number that a power of two divides is divided by the smaller powers, too.
LEMMA GridFiner ==
  ASSUME NEW n \in Nat, NEW i \in 0..n
  PROVE  Grid(n) \subseteq Grid(i) /\ TwoTo[i] <= TwoTo[n]
<1>. DEFINE T == {k \in Nat : i <= k => Grid(k) \subseteq Grid(i) /\ TwoTo[i] <= TwoTo[k]}
<1>1. ASSUME NEW k \in Nat, \A m \in 0..k-1 : m \in T
      PROVE  k \in T
  <2>1. CASE k <= i
    <3>1. TwoTo[i] \in Nat
      BY TwoToDefined
    <3>2. i <= k => k = i
      BY <2>1
    <3>. QED
      BY <3>1, <3>2
  <2>2. CASE k > i
    <3>1. PICK m \in 0..k-1 : k = m + 1 /\ i <= m
      BY <2>2
    <3>2. PICK t \in Nat : t = TwoTo[m] /\ TwoTo[k] = 2 * t
      BY <3>1, TwoToDefined
    <3>3. ASSUME NEW x \in Grid(k) PROVE x \in Grid(m)
      <4>1. PICK q \in Int : x = (2 * t) * q
        BY <3>2 DEF Grid
      <4>2. x = t * (2 * q)
        BY <4>1
      <4>. QED
        BY <3>2, <4>2 DEF Grid
    <3>4. Grid(m) \subseteq Grid(i) /\ TwoTo[i] <= t
      BY <1>1, <3>1, <3>2
    <3>5. TwoTo[i] \in Nat
      BY TwoToDefined
    <3>. QED
      BY <3>2, <3>3, <3>4, <3>5
  <2>. QED
    BY <2>1, <2>2
<1>. HIDE DEF T
<1>2. n \in T
  BY <1>1, StrongInduction
<1>. QED
  BY <1>2 DEF T

\* The spacing is a power of two, and the floats around n are less than Exact of
\* its multiples from 0.
LEMMA SpacingPower ==
  ASSUME NEW n \in Nat
  PROVE  \E i \in Nat : Spacing[n] = TwoTo[i] /\ n < Exact * TwoTo[i]
<1>. DEFINE T == {k \in Nat : \E i \in Nat : Spacing[k] = TwoTo[i] /\ k < Exact * TwoTo[i]}
<1>1. Exact \in Nat /\ Exact >= 2
  BY ExactEven
<1>2. ASSUME NEW k \in Nat, \A m \in 0..k-1 : m \in T
      PROVE  k \in T
  <2>1. CASE k < Exact
    <3>1. Spacing[k] = TwoTo[0] /\ k < Exact * TwoTo[0]
      BY <1>1, <2>1, SpacingDefined, TwoToDefined
    <3>. QED
      BY <3>1
  <2>2. CASE ~(k < Exact)
    <3>1. PICK m \in 0..k-1 : m = k \div 2 /\ k <= 2 * m + 1
      BY <1>1, <2>2
    <3>2. Spacing[k] = 2 * Spacing[m]
      BY <2>2, <3>1, SpacingDefined
    <3>3. PICK i \in Nat : Spacing[m] = TwoTo[i] /\ m < Exact * TwoTo[i]
      BY <1>2, <3>1
    <3>4. PICK t \in Nat : t = TwoTo[i] /\ TwoTo[i + 1] = 2 * t
      BY TwoToDefined
    <3>5. PICK p \in Nat : p = Exact * t /\ Exact * (2 * t) = 2 * p
      BY <1>1
    <3>6. Spacing[k] = TwoTo[i + 1] /\ k < Exact * TwoTo[i + 1]
      BY <3>1, <3>2, <3>3, <3>4, <3>5
    <3>7. i + 1 \in Nat
      OBVIOUS
    <3>. QED
      BY <3>6, <3>7
  <2>. QED
    BY <2>1, <2>2
<1>. HIDE DEF T
<1>3. n \in T
  BY <1>2, StrongInduction
<1>. QED
  BY <1>3 DEF T

\* A float keeps a number that its spacing divides.
LEMMA SpacedExactly ==
  ASSUME NEW x \in Int, NEW q \in Int, x = Spacing[Magnitude(x)] * q
  PROVE  Rounded(x) = x
<1>1. Magnitude(x) \in Nat
  BY DEF Magnitude
<1>2. PICK s \in Nat \ {0} : s = Spacing[Magnitude(x)]
  BY <1>1, SpacingDefined
<1>3. x \div s = q /\ x % s = 0
  <2>1. /\ x \div s \in Int /\ x % s \in Nat /\ x % s < s
        /\ x = (x \div s) * s + (x % s)
    BY Division
  <2>2. PICK d \in Int, r \in Nat : d = x \div s /\ r = x % s /\ r < s /\ x = d * s + r
    BY <2>1
  <2>3. x = s * q
    BY <1>2
  <2>4. s * (q - d) = r
    BY <2>2, <2>3
  <2>5. q = d
    <3>1. CASE q - d >= 1
      <4>1. s * (q - d) >= s
        BY <3>1
      <4>. QED
        BY <2>2, <2>4, <4>1
    <3>2. CASE q - d <= -1
      <4>1. s * (q - d) <= -s
        BY <3>2
      <4>. QED
        BY <2>2, <2>4, <4>1
    <3>. QED
      BY <3>1, <3>2
  <2>. QED
    BY <2>2, <2>4, <2>5
<1>4. (x \div s) * s = x
  BY <1>2, <1>3
<1>5. Rounded(x) = (x \div s) * s
  <2>1. 2 * (x % s) < s
    BY <1>3
  <2>. QED
    BY <1>2, <2>1 DEF Rounded
<1>. QED
  BY <1>4, <1>5

\* A float keeps a number of which a power of two divides all but a significand.
LEMMA GridExact ==
  ASSUME NEW n \in Nat, NEW x \in Grid(n), Magnitude(x) <= Exact * TwoTo[n]
  PROVE  Rounded(x) = x
<1>1. PICK t \in Nat \ {0} : t = TwoTo[n] /\ TwoTo[n + 1] = 2 * t
  BY TwoToDefined
<1>2. PICK q \in Int : x = t * q
  BY <1>1 DEF Grid
<1>3. x \in Int /\ Magnitude(x) \in Nat
  BY <1>2 DEF Magnitude
<1>4. PICK i \in Nat : Spacing[Magnitude(x)] = TwoTo[i] /\ Magnitude(x) < Exact * TwoTo[i]
  BY <1>3, SpacingPower
<1>5. PICK s \in Nat \ {0} : s = TwoTo[i]
  BY TwoToDefined
<1>6. PICK h \in Nat \ {0} : h = TwoTo[FloatBits - 1] /\ Exact = 2 * h
  BY ExactEven
<1>7. CASE i <= n
  <2>1. x \in Grid(i)
    BY <1>7, GridFiner
  <2>2. PICK p \in Int : x = TwoTo[i] * p
    BY <2>1 DEF Grid
  <2>. QED
    BY <1>3, <1>4, <2>2, SpacedExactly
<1>8. CASE n + 1 <= i
  <2>1. 2 * t <= s
    BY <1>1, <1>5, <1>8, GridFiner
  <2>2. s # 1
    BY <1>1, <2>1
  <2>3. h * s <= Magnitude(x)
    BY <1>3, <1>4, <1>5, <1>6, <2>2, SpacingBounds
  <2>4. Exact * t = h * (2 * t)
    BY <1>6
  <2>5. h * (2 * t) <= h * s
    BY <2>1
  <2>6. PICK u \in Nat, v \in Nat : u = h * (2 * t) /\ v = h * s
    OBVIOUS
  <2>7. Magnitude(x) = u /\ u = v
    BY <1>1, <1>3, <2>3, <2>4, <2>5, <2>6
  <2>8. x = v \/ x = -v
    BY <1>3, <2>7 DEF Magnitude
  <2>9. x = s * h \/ x = s * (-h)
    BY <2>6, <2>8
  <2>10. \E p \in Int : x = s * p
    <3>1. h \in Int /\ -h \in Int
      OBVIOUS
    <3>. QED
      BY <2>9, <3>1
  <2>. QED
    BY <1>3, <1>4, <1>5, <2>10, SpacedExactly
<1>. QED
  BY <1>7, <1>8

\* A float is a multiple of its spacing, less than that away from what it keeps.
LEMMA RoundedGrid ==
  ASSUME NEW n \in Nat, NEW i \in Nat, Spacing[n] = TwoTo[i]
  PROVE  /\ Rounded(n) \in Grid(i)
         /\ Magnitude(Rounded(n) - n) <= TwoTo[i]
<1>1. PICK s \in Nat \ {0} : s = TwoTo[i]
  BY TwoToDefined
<1>2. PICK q \in Int, r \in Nat, p \in Int :
        q = n \div s /\ r = n % s /\ r < s /\ n = p + r /\ p = q * s
  BY Division
<1>3. Magnitude(n) = n
  BY DEF Magnitude
<1>4. Rounded(n) = p \/ (Rounded(n) = p + s /\ 2 * r >= s)
  <2>1. /\ Spacing[Magnitude(n)] = s /\ (n \div s) * s = p /\ n % s = r
    BY <1>1, <1>2, <1>3
  <2>2. Rounded(n) = IF 2 * r < s \/ (2 * r = s /\ (n \div s) % 2 = 0) THEN p ELSE p + s
    <3>. HIDE DEF Magnitude
    <3>. QED
      BY <2>1, Zenon DEF Rounded
  <2>. QED
    BY <1>2, <2>2
<1>5. Magnitude(Rounded(n) - n) <= s
  <2>1. PICK e \in Int : e = Rounded(n) - n /\ -s <= e /\ e <= s
    BY <1>2, <1>4
  <2>. QED
    BY <2>1 DEF Magnitude
<1>6. p \in Grid(i) /\ p + s \in Grid(i)
  <2>1. p = q * s /\ p \in Int
    BY <1>2
  <2>2. p = s * q /\ p + s = s * (q + 1)
    BY <2>1
  <2>3. q \in Int /\ q + 1 \in Int
    OBVIOUS
  <2>. QED
    BY <1>1, <2>2, <2>3 DEF Grid
<1>. QED
  BY <1>1, <1>4, <1>5, <1>6
\* Between two neighbours of the grid there is nothing of it.
LEMMA GridBelow ==
  ASSUME NEW n \in Nat, NEW x \in Grid(n), NEW c \in Nat, x < (c + 1) * TwoTo[n]
  PROVE  x <= c * TwoTo[n]
<1>1. PICK t \in Nat \ {0} : t = TwoTo[n]
  BY TwoToDefined
<1>2. PICK q \in Int : x = t * q
  BY <1>1 DEF Grid
<1>3. q <= c
  <2>. SUFFICES ASSUME c + 1 <= q PROVE FALSE
    OBVIOUS
  <2>1. t * (c + 1) <= t * q
    OBVIOUS
  <2>. QED
    BY <1>1, <1>2, <2>1
<1>4. t * q <= t * c
  BY <1>3
<1>. QED
  BY <1>1, <1>2, <1>4
=============================================================================
