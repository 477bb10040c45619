----------------------------- MODULE RcsProofs ------------------------------
(***************************************************************************)
(* Proofs about the whole program, for every command line, every set of    *)
(* numerals, and every width of the numbers.                               *)
(***************************************************************************)
EXTENDS Rcs, InputProofs

(* The text of a number *)

LEMMA Tenth ==
  ASSUME NEW n \in Nat
  PROVE  /\ n \div 10 \in Nat /\ n % 10 \in 0..9
         /\ n = 10 * (n \div 10) + (n % 10)
         /\ n # 0 => n \div 10 < n
OBVIOUS

\* How often a number can be divided by ten.
LEMMA LengthDefined ==
  \A n \in Nat : /\ freq_len[n] \in Nat
                 /\ freq_len[n] = IF n = 0 THEN 0 ELSE 1 + freq_len[n \div 10]
<1>. DEFINE B == {0}
            b == [n \in Nat |-> 0]
            d == [n \in Nat |-> n \div 10]
            g == [n \in Nat |-> [x \in Nat |-> 1 + x]]
<1>1. b \in [Nat -> Nat] /\ d \in [Nat -> Nat] /\ \A n \in Nat \ B : d[n] < n
  BY Tenth
<1>2. g \in [Nat -> [Nat -> Nat]]
  OBVIOUS
<1>3. PICK f \in [Nat -> Nat] : Solves(f, B, b, d, g)
  <2>. HIDE DEF B, b, d, g
  <2>. QED
    BY <1>1, <1>2, Recursion
<1>4. ASSUME NEW n \in Nat
      PROVE  f[n] = IF n = 0 THEN 0 ELSE 1 + f[n \div 10]
  <2>1. n \div 10 \in Nat /\ f[n \div 10] \in Nat
    BY Tenth
  <2>. QED
    BY <1>3, <2>1 DEF Solves, Body
<1>. HIDE DEF B, b, d, g
<1>5. f = [n \in Nat |-> IF n = 0 THEN 0 ELSE 1 + f[n \div 10]]
  BY <1>4
<1>6. freq_len = [n \in Nat |-> IF n = 0 THEN 0 ELSE 1 + freq_len[n \div 10]]
  BY <1>5 DEF freq_len
<1>7. \A n \in Nat : freq_len[n] = IF n = 0 THEN 0 ELSE 1 + freq_len[n \div 10]
  <2>. PICK h : h = freq_len
    OBVIOUS
  <2>1. h = [n \in Nat |-> IF n = 0 THEN 0 ELSE 1 + h[n \div 10]]
    BY <1>6
  <2>2. \A n \in Nat : h[n] = IF n = 0 THEN 0 ELSE 1 + h[n \div 10]
    BY <2>1
  <2>. QED
    BY <2>2
<1>8. \A n \in Nat : freq_len[n] \in Nat
  <2>. DEFINE T == {n \in Nat : freq_len[n] \in Nat}
  <2>1. ASSUME NEW n \in Nat, \A m \in 0..n-1 : m \in T
        PROVE  n \in T
    <3>1. n # 0 => n \div 10 \in 0..n-1
      BY Tenth
    <3>. QED
      BY <1>7, <2>1, <3>1
  <2>. HIDE DEF T
  <2>2. Nat \subseteq T
    BY <2>1, StrongInduction
  <2>. QED
    BY <2>2 DEF T
<1>. QED
  BY <1>7, <1>8

Numbers == Seq(0..9)

LEMMA UnitSeq ==
  ASSUME NEW n \in Nat, n < 10
  PROVE  <<n>> \in Numbers /\ Len(<<n>>) = 1 /\ <<n>>[1] = n
<1>1. n \in 0..9
  OBVIOUS
<1>. QED
  BY <1>1 DEF Numbers

\* The digits of a number, the last one apart.
LEMMA DigitsDefined ==
  \A n \in Nat : /\ Digits[n] \in Numbers
                 /\ Digits[n] = IF n < 10 THEN <<n>> ELSE Append(Digits[n \div 10], n % 10)
<1>. DEFINE B == 0..9
            b == [n \in Nat |-> IF n < 10 THEN <<n>> ELSE <<>>]
            d == [n \in Nat |-> n \div 10]
            g == [n \in Nat |-> [x \in Numbers |-> Append(x, n % 10)]]
<1>1. d \in [Nat -> Nat] /\ \A n \in Nat \ B : d[n] < n
  BY Tenth
<1>2. b \in [Nat -> Numbers]
  <2>1. ASSUME NEW n \in Nat
        PROVE  b[n] \in Numbers
    BY UnitSeq, EmptySeq DEF Numbers
  <2>. QED
    BY <2>1
<1>3. g \in [Nat -> [Numbers -> Numbers]]
  <2>1. ASSUME NEW n \in Nat, NEW x \in Numbers
        PROVE  Append(x, n % 10) \in Numbers
    BY Tenth DEF Numbers
  <2>. QED
    BY <2>1
<1>4. PICK f \in [Nat -> Numbers] : Solves(f, B, b, d, g)
  <2>. HIDE DEF B, b, d, g
  <2>. QED
    BY <1>1, <1>2, <1>3, Recursion
<1>5. ASSUME NEW n \in Nat
      PROVE  f[n] = IF n < 10 THEN <<n>> ELSE Append(f[n \div 10], n % 10)
  <2>1. n \div 10 \in Nat /\ f[n \div 10] \in Numbers
    BY Tenth
  <2>2. CASE n < 10
    <3>1. n \in B /\ b[n] = <<n>>
      BY <2>2
    <3>2. f[n] = b[n]
      BY <1>4, <3>1 DEF Solves, Body
    <3>. QED
      BY <2>2, <3>1, <3>2
  <2>3. CASE ~(n < 10)
    <3>1. n \notin B /\ d[n] = n \div 10
      BY <2>3
    <3>2. f[n] = g[n][f[n \div 10]]
      BY <1>4, <3>1 DEF Solves, Body
    <3>. QED
      BY <2>1, <2>3, <3>2
  <2>. QED
    BY <2>2, <2>3
<1>. HIDE DEF B, b, d, g
<1>6. f = [n \in Nat |-> IF n < 10 THEN <<n>> ELSE Append(f[n \div 10], n % 10)]
  BY <1>5
<1>7. Digits = [n \in Nat |-> IF n < 10 THEN <<n>> ELSE Append(Digits[n \div 10], n % 10)]
  BY <1>6 DEF Digits
<1>8. \A n \in Nat : Digits[n] = IF n < 10 THEN <<n>> ELSE Append(Digits[n \div 10], n % 10)
  <2>. PICK h : h = Digits
    OBVIOUS
  <2>1. h = [n \in Nat |-> IF n < 10 THEN <<n>> ELSE Append(h[n \div 10], n % 10)]
    BY <1>7
  <2>2. \A n \in Nat : h[n] = IF n < 10 THEN <<n>> ELSE Append(h[n \div 10], n % 10)
    BY <2>1
  <2>. QED
    BY <2>2
<1>9. \A n \in Nat : Digits[n] \in Numbers
  <2>. DEFINE T == {n \in Nat : Digits[n] \in Numbers}
  <2>1. ASSUME NEW n \in Nat, \A m \in 0..n-1 : m \in T
        PROVE  n \in T
    <3>1. CASE n < 10
      BY <1>8, <3>1, UnitSeq
    <3>2. CASE ~(n < 10)
      <4>1. n \div 10 \in 0..n-1 /\ n % 10 \in 0..9
        BY <3>2, Tenth
      <4>2. Digits[n] = Append(Digits[n \div 10], n % 10) /\ Digits[n \div 10] \in Numbers
        BY <1>8, <2>1, <3>2, <4>1
      <4>3. Append(Digits[n \div 10], n % 10) \in Numbers
        BY <4>1, <4>2, AppendProperties DEF Numbers
      <4>. QED
        BY <4>2, <4>3
    <3>. QED
      BY <3>1, <3>2
  <2>. HIDE DEF T
  <2>2. Nat \subseteq T
    BY <2>1, StrongInduction
  <2>. QED
    BY <2>2 DEF T
<1>. QED
  BY <1>8, <1>9
\* freq_len counts the digits of every number but 0.
LEMMA LengthOfDigits ==
  ASSUME NEW n \in Nat, n # 0
  PROVE  Len(Digits[n]) = freq_len[n]
<1>. DEFINE T == {m \in Nat : m # 0 => Len(Digits[m]) = freq_len[m]}
<1>1. ASSUME NEW m \in Nat, \A k \in 0..m-1 : k \in T
      PROVE  m \in T
  <2>. SUFFICES ASSUME m # 0 PROVE Len(Digits[m]) = freq_len[m]
    OBVIOUS
  <2>1. PICK t \in Nat : t = m \div 10 /\ t < m /\ (t = 0 <=> m < 10)
    BY Tenth
  <2>2. freq_len[m] = 1 + freq_len[t] /\ freq_len[t] \in Nat
    BY <2>1, LengthDefined
  <2>3. CASE m < 10
    <3>1. freq_len[t] = 0
      BY <2>1, <2>3, LengthDefined
    <3>2. Digits[m] = <<m>>
      BY <2>3, DigitsDefined
    <3>. QED
      BY <2>2, <2>3, <3>1, <3>2, UnitSeq
  <2>4. CASE ~(m < 10)
    <3>1. Len(Digits[t]) = freq_len[t]
      BY <1>1, <2>1, <2>4
    <3>2. Digits[m] = Append(Digits[t], m % 10) /\ Digits[t] \in Numbers /\ m % 10 \in 0..9
      BY <2>1, <2>4, DigitsDefined, Tenth
    <3>3. Len(Digits[m]) = Len(Digits[t]) + 1
      BY <3>2, AppendProperties DEF Numbers
    <3>. QED
      BY <2>2, <3>1, <3>3
  <2>. QED
    BY <2>3, <2>4
<1>. HIDE DEF T
<1>2. Nat \subseteq T
  BY <1>1, StrongInduction
<1>. QED
  BY <1>2 DEF T

\* A larger number has no fewer digits.
LEMMA LengthGrows ==
  ASSUME NEW n \in Nat, NEW m \in 0..n
  PROVE  freq_len[m] <= freq_len[n]
<1>. DEFINE T == {k \in Nat : \A i \in 0..k : freq_len[i] <= freq_len[k]}
<1>1. ASSUME NEW k \in Nat, \A j \in 0..k-1 : j \in T
      PROVE  k \in T
  <2>. SUFFICES ASSUME NEW i \in 0..k PROVE freq_len[i] <= freq_len[k]
    OBVIOUS
  <2>1. CASE i = 0
    BY <2>1, LengthDefined
  <2>2. CASE i # 0
    <3>1. PICK s \in Nat, t \in Nat : s = i \div 10 /\ t = k \div 10 /\ s <= t /\ t < k
      BY <2>2
    <3>2. freq_len[s] <= freq_len[t]
      BY <1>1, <3>1
    <3>3. freq_len[i] = 1 + freq_len[s] /\ freq_len[k] = 1 + freq_len[t]
      BY <2>2, <3>1, LengthDefined
    <3>4. freq_len[s] \in Nat /\ freq_len[t] \in Nat
      BY <3>1, LengthDefined
    <3>. QED
      BY <3>2, <3>3, <3>4
  <2>. QED
    BY <2>1, <2>2
<1>. HIDE DEF T
<1>2. Nat \subseteq T
  BY <1>1, StrongInduction
<1>. QED
  BY <1>2 DEF T

\* The sign takes one place.
LEMMA SignAdded ==
  ASSUME NEW n \in Nat
  PROVE  Len(<<Minus>> \o Digits[n]) = 1 + Len(Digits[n])
<1>. PICK S : S = {Minus} \cup 0..9
  OBVIOUS
<1>1. \A s \in Seq(0..9) : s \in Seq(S)
  OBVIOUS
<1>2. PICK s \in Seq(S) : s = Digits[n]
  BY <1>1, DigitsDefined DEF Numbers
<1>3. PICK sign \in Seq(S) : sign = <<Minus>> /\ Len(sign) = 1
  <2>1. Minus \in S
    OBVIOUS
  <2>2. <<Minus>> \in Seq(S) /\ Len(<<Minus>>) = 1
    BY <2>1
  <2>. QED
    BY <2>2
<1>4. Len(sign \o s) = 1 + Len(s)
  BY <1>3, ConcatProperties
<1>. QED
  BY <1>2, <1>3, <1>4

\* Reading a text digit by digit.
Evaluates(v, text) ==
  /\ v \in [0..Len(text) -> Nat]
  /\ v[0] = 0
  /\ \A k \in 1..Len(text) : v[k] = 10 * v[k - 1] + text[k]

LEMMA ValueDefined ==
  ASSUME NEW text \in Numbers
  PROVE  \E v : Evaluates(v, text) /\ Value(text) = v[Len(text)]
<1>1. PICK l \in Nat : l = Len(text) /\ \A k \in 1..l : text[k] \in Nat
  BY LenProperties, ElementOfSeq DEF Numbers
<1>. DEFINE B == {0}
            b == [n \in Nat |-> 0]
            d == [n \in Nat |-> IF n = 0 THEN 0 ELSE n - 1]
            c == [n \in Nat |-> IF n \in 1..l THEN text[n] ELSE 0]
            g == [n \in Nat |-> [x \in Nat |-> 10 * x + c[n]]]
<1>2. b \in [Nat -> Nat] /\ d \in [Nat -> Nat] /\ \A n \in Nat \ B : d[n] < n
  OBVIOUS
<1>3. g \in [Nat -> [Nat -> Nat]]
  <2>1. \A n \in Nat : c[n] \in Nat
    BY <1>1
  <2>. HIDE DEF c
  <2>. QED
    BY <2>1
<1>4. PICK f \in [Nat -> Nat] : Solves(f, B, b, d, g)
  <2>. HIDE DEF B, b, d, g
  <2>. QED
    BY <1>2, <1>3, Recursion
<1>5. ASSUME NEW k \in 0..l
      PROVE  f[k] = IF k = 0 THEN 0 ELSE 10 * f[k - 1] + text[k]
  <2>1. CASE k = 0
    BY <1>4, <2>1 DEF Solves, Body
  <2>2. CASE k # 0
    <3>1. k \in 1..l /\ k - 1 \in Nat /\ k \in Nat \ B /\ d[k] = k - 1 /\ c[k] = text[k]
      BY <2>2
    <3>2. f[k] = g[k][f[k - 1]]
      BY <1>4, <3>1 DEF Solves, Body
    <3>3. f[k - 1] \in Nat
      BY <3>1
    <3>4. g[k][f[k - 1]] = 10 * f[k - 1] + c[k]
      BY <3>1, <3>3
    <3>. QED
      BY <2>2, <3>1, <3>2, <3>4
  <2>. QED
    BY <2>1, <2>2
<1>. HIDE DEF B, b, d, g, c
<1>. DEFINE Is(v) == v = [k \in 0..l |-> IF k = 0 THEN 0 ELSE 10 * v[k - 1] + text[k]]
<1>6. Is([k \in 0..l |-> f[k]])
  <2>. PICK e : e = [k \in 0..l |-> f[k]]
    OBVIOUS
  <2>1. \A k \in 0..l : e[k] = f[k] /\ (k # 0 => k - 1 \in 0..l)
    OBVIOUS
  <2>2. \A k \in 0..l : e[k] = IF k = 0 THEN 0 ELSE 10 * e[k - 1] + text[k]
    BY <1>5, <2>1
  <2>3. Is(e)
    BY <2>2
  <2>. QED
    BY <2>3
<1>7. PICK v : v = CHOOSE u : Is(u)
  OBVIOUS
<1>8. Is(v)
  <2>. HIDE DEF Is
  <2>. QED
    BY <1>6, <1>7
<1>9. Value(text) = v[l]
  BY <1>1, <1>7, Zenon DEF Value
<1>10. v[0] = 0 /\ \A k \in 1..l : v[k] = 10 * v[k - 1] + text[k]
  <2>1. \A k \in 0..l : v[k] = IF k = 0 THEN 0 ELSE 10 * v[k - 1] + text[k]
    BY <1>8
  <2>2. ASSUME NEW k \in 1..l
        PROVE  v[k] = 10 * v[k - 1] + text[k]
    <3>1. k \in 0..l /\ k # 0
      OBVIOUS
    <3>. QED
      BY <2>1, <3>1
  <2>. QED
    BY <2>1, <2>2
<1>11. \A k \in 0..l : v[k] \in Nat
  <2>. DEFINE T == {k \in Nat : k <= l => v[k] \in Nat}
  <2>1. ASSUME NEW n \in Nat, \A m \in 0..n-1 : m \in T
        PROVE  n \in T
    <3>1. CASE n = 0
      BY <1>10, <3>1
    <3>2. CASE n # 0 /\ n <= l
      <4>1. n - 1 \in 0..n-1 /\ n - 1 <= l /\ n \in 1..l
        BY <3>2
      <4>2. v[n] = 10 * v[n - 1] + text[n] /\ v[n - 1] \in Nat /\ text[n] \in Nat
        <5>1. v[n - 1] \in Nat
          BY <2>1, <4>1
        <5>. QED
          BY <1>1, <1>10, <4>1, <5>1
      <4>. QED
        BY <4>2
    <3>. QED
      BY <3>1, <3>2
  <2>. HIDE DEF T
  <2>2. Nat \subseteq T
    BY <2>1, StrongInduction
  <2>. QED
    BY <2>2 DEF T
<1>12. Evaluates(v, text)
  <2>1. v = [k \in 0..l |-> v[k]]
    BY <1>8
  <2>2. v \in [0..l -> Nat]
    BY <1>11, <2>1
  <2>. HIDE DEF Is
  <2>. QED
    BY <1>1, <1>10, <2>2 DEF Evaluates
<1>. QED
  BY <1>1, <1>9, <1>12

LEMMA ValueOfUnit ==
  ASSUME NEW n \in Nat, n < 10
  PROVE  Value(<<n>>) = n
<1>1. PICK text \in Numbers : text = <<n>> /\ Len(text) = 1 /\ text[1] = n
  BY UnitSeq
<1>2. PICK v : Evaluates(v, text) /\ Value(text) = v[Len(text)]
  BY ValueDefined
<1>3. v[1] = 10 * v[0] + text[1] /\ v[0] = 0
  BY <1>1, <1>2 DEF Evaluates
<1>. QED
  BY <1>1, <1>2, <1>3

LEMMA ValueAppended ==
  ASSUME NEW text \in Numbers, NEW c \in 0..9
  PROVE  Value(Append(text, c)) = 10 * Value(text) + c
<1>1. PICK l \in Nat : l = Len(text)
  BY LenProperties DEF Numbers
<1>2. PICK long : /\ long \in Numbers
                 /\ long = Append(text, c)
                 /\ Len(long) = l + 1
                 /\ long[l + 1] = c
                 /\ \A k \in 1..l : long[k] = text[k]
  <2>1. text \in Seq(0..9)
    BY DEF Numbers
  <2>2. /\ Append(text, c) \in Numbers /\ Len(Append(text, c)) = l + 1
        /\ Append(text, c)[l + 1] = c
        /\ \A k \in 1..l : Append(text, c)[k] = text[k]
    BY <1>1, <2>1, AppendProperties DEF Numbers
  <2>. QED
    BY <2>2
<1>3. PICK u : Evaluates(u, text) /\ Value(text) = u[l]
  BY <1>1, ValueDefined
<1>4. PICK v : Evaluates(v, long) /\ Value(long) = v[l + 1]
  BY <1>2, ValueDefined
<1>5. \A k \in 0..l : v[k] = u[k]
  <2>. DEFINE T == {k \in Nat : k <= l => v[k] = u[k]}
  <2>1. ASSUME NEW n \in Nat, \A m \in 0..n-1 : m \in T
        PROVE  n \in T
    <3>1. CASE n = 0
      BY <1>3, <1>4, <3>1 DEF Evaluates
    <3>2. CASE n # 0 /\ n <= l
      <4>1. n - 1 \in 0..n-1 /\ n - 1 <= l /\ n \in 1..l /\ n \in 1..l+1
        BY <3>2
      <4>2. v[n - 1] = u[n - 1] /\ long[n] = text[n]
        BY <1>2, <2>1, <4>1
      <4>3. u[n] = 10 * u[n - 1] + text[n]
        BY <1>1, <1>3, <4>1 DEF Evaluates
      <4>4. v[n] = 10 * v[n - 1] + long[n]
        BY <1>2, <1>4, <4>1 DEF Evaluates
      <4>. QED
        BY <4>2, <4>3, <4>4
    <3>. QED
      BY <3>1, <3>2
  <2>. HIDE DEF T
  <2>2. Nat \subseteq T
    BY <2>1, StrongInduction
  <2>. QED
    BY <2>2 DEF T
<1>6. v[l + 1] = 10 * v[l] + c
  <2>1. l + 1 \in 1..l+1 /\ (l + 1) - 1 = l
    OBVIOUS
  <2>2. v[l + 1] = 10 * v[(l + 1) - 1] + long[l + 1]
    BY <1>2, <1>4, <2>1 DEF Evaluates
  <2>. QED
    BY <1>2, <2>1, <2>2
<1>7. v[l] = u[l]
  BY <1>5
<1>. QED
  BY <1>2, <1>3, <1>4, <1>6, <1>7

\* The text of a number stands for that number.
LEMMA DigitsSayNumber ==
  ASSUME NEW n \in Nat
  PROVE  Value(Digits[n]) = n
<1>. DEFINE T == {m \in Nat : Value(Digits[m]) = m}
<1>1. ASSUME NEW m \in Nat, \A k \in 0..m-1 : k \in T
      PROVE  m \in T
  <2>1. CASE m < 10
    BY <2>1, DigitsDefined, ValueOfUnit
  <2>2. CASE ~(m < 10)
    <3>1. PICK t \in Nat, c \in 0..9 : t = m \div 10 /\ c = m % 10 /\ m = 10 * t + c /\ t < m
      BY <2>2, Tenth
    <3>2. Digits[m] = Append(Digits[t], c) /\ Digits[t] \in Numbers
      BY <2>2, <3>1, DigitsDefined
    <3>3. Value(Digits[t]) = t
      BY <1>1, <3>1
    <3>4. Value(Digits[m]) = 10 * Value(Digits[t]) + c
      BY <3>2, ValueAppended
    <3>. QED
      BY <3>1, <3>3, <3>4
  <2>. QED
    BY <2>1, <2>2
<1>. HIDE DEF T
<1>2. Nat \subseteq T
  BY <1>1, StrongInduction
<1>. QED
  BY <1>2 DEF T
\* What sprintf prints of a frequency.
LEMMA FormattedTypes ==
  ASSUME NEW freq \in 0..FreqSpan-1
  PROVE  /\ Formatted(freq) \in Seq({Minus} \cup 0..9)
         /\ Allocated(freq) \in Nat
<1>. DEFINE Signs == {Minus} \cup 0..9
<1>1. freq \in Nat /\ FreqSpan - freq \in Nat
  BY NumberAssumption
<1>2. \A n \in Nat : Digits[n] \in Seq(Signs)
  <2>1. \A s \in Seq(0..9) : s \in Seq(Signs)
    OBVIOUS
  <2>. QED
    BY <2>1, DigitsDefined DEF Numbers
<1>3. <<Minus>> \in Seq(Signs)
  <2>1. Minus \in Signs
    OBVIOUS
  <2>. HIDE DEF Signs
  <2>. QED
    BY <2>1
<1>. HIDE DEF Signs
<1>4. Formatted(freq) \in Seq(Signs)
  BY <1>1, <1>2, <1>3, ConcatProperties DEF Formatted
<1>5. Allocated(freq) \in Nat
  BY <1>1, LengthDefined DEF Allocated
<1>. QED
  BY <1>4, <1>5 DEF Signs

-----------------------------------------------------------------------------
(* The parse *)

\* main.cc: whatever the program does is a step of the parser or none.
LEMMA ProgramStep == [RcsNext]_rcsVars => [Next]_vars
<1>. SUFFICES ASSUME [RcsNext]_rcsVars PROVE [Next]_vars
  OBVIOUS
<1>1. CASE ParseLine
  BY <1>1 DEF ParseLine, Next
<1>2. CASE UNCHANGED vars
  BY <1>2
<1>3. CASE InvalidUsage \/ UsageUndefined \/ Help \/ SkipRange
  BY <1>2, <1>3, Zenon DEF InvalidUsage, UsageUndefined, Help, SkipRange, Exits
<1>4. CASE CheckDevice \/ FormatFrequency
  BY <1>2, <1>4, Zenon DEF CheckDevice, FormatFrequency
<1>5. CASE ScanFrequency \/ Child \/ Clock
  BY <1>2, <1>5, Zenon DEF ScanFrequency, Child, Clock, Scanning
<1>6. CASE UNCHANGED rcsVars
  BY <1>2, <1>6, Zenon DEF rcsVars
<1>. QED
  BY <1>1, <1>3, <1>4, <1>5, <1>6, Zenon DEF RcsNext, Main, Over

\* The program is one of the processes that Input speaks of: what is proved of
\* its parse holds in the program.
THEOREM ProgramParses == RcsSpec => Spec
<1>1. RcsInit => Init
  BY DEF RcsInit
<1>. QED
  BY <1>1, ProgramStep, PTL DEF RcsSpec, Spec
-----------------------------------------------------------------------------
(* The order of main *)

Capturing == ppc \in {"forked", "loop", "read", "vad", "kill", "close"}

\* What main has decided when: nothing leaves the check before the line is
\* accepted as a scan, and no child exists before the text of one frequency.
InvMain ==
  /\ ppc \in {"check", "announce", "spawn", "forked", "loop", "read", "vad",
              "kill", "close", "exited"}
  /\ ppc \in {"check", "announce"} => freq_str = NoText
  /\ ppc \in {"check", "announce", "spawn"} => cpc = "none"
  /\ ppc \notin {"check", "exited"} => Accepted("scan")
  /\ cpc # "none" => freq_str # NoText
  /\ Capturing => cpc # "none"
  /\ freq_str # NoText => Accepted("scan") /\ OneToScan

\* The text and its room.
InvText ==
  /\ freq_str = NoText \/ freq_str = Formatted(input.freq_start)
  /\ freq_room \in Nat
  /\ freq_str = NoText \/ freq_room = Allocated(input.freq_start)

\* An exit code is set when the program ends, and an answer before it ends well.
InvExit ==
  /\ exitCode \in Scan!ExitCodes \cup {INVALID_PROGRAM_USAGE, Scan!Running}
  /\ ppc # "exited" => exitCode = Scan!Running
  /\ ppc \in {"kill", "close"} => verdict # "none"
  /\ ExitCodeTells

\* A living child can write; so only its death, or the loss of the buffer, ends
\* the capture before the time.
InvChild ==
  /\ cpc \in {"none", "forked", "setup", "rtl_fm", "streaming", "dead"}
  /\ cpc \in {"forked", "setup", "rtl_fm", "streaming"} => "child" \in writers
  /\ ppc \in {"vad", "kill", "close"} =>
       elapsed >= timeout \/ cpc = "dead" \/ dataCap = 0

InvProgram == InvMain /\ InvText /\ InvExit /\ InvChild

LEMMA CodesDiffer ==
  /\ {Scan!EXIT_SUCCESS, Scan!PIPE_FAILED, Scan!NO_RADIO_DEVICE_FOUND, Scan!RTL_FM_FAILED,
      Scan!SIGABRT_STATUS, Scan!SIGSEGV_STATUS} \subseteq Scan!ExitCodes
  /\ INVALID_PROGRAM_USAGE \notin Scan!ExitCodes
  /\ Scan!Running \notin Scan!ExitCodes /\ Scan!Running # INVALID_PROGRAM_USAGE
  /\ Scan!EXIT_SUCCESS \notin {Scan!PIPE_FAILED, Scan!NO_RADIO_DEVICE_FOUND,
       Scan!RTL_FM_FAILED, Scan!SIGABRT_STATUS, Scan!SIGSEGV_STATUS, INVALID_PROGRAM_USAGE,
       Scan!Running}
BY DEF Scan!ExitCodes, Scan!EXIT_SUCCESS, Scan!PIPE_FAILED, Scan!NO_RADIO_DEVICE_FOUND,
       Scan!RTL_FM_FAILED, Scan!SIGABRT_STATUS, Scan!SIGSEGV_STATUS, INVALID_PROGRAM_USAGE,
       Scan!Running

LEMMA ProgramInit == RcsInit => InvProgram
BY CodesDiffer DEF RcsInit, Init, Scan!Init, InvProgram, InvMain, InvText, InvExit, InvChild,
                   ExitCodeTells, Capturing, Accepted

\* While the line is parsed there is no text and no child.
LEMMA ParseKeeps ==
  ASSUME InvProgram, ParseLine
  PROVE  InvProgram'
BY CodesDiffer
DEF ParseLine, scanVars, textVars, InvProgram, InvMain, InvText, InvExit, InvChild,
    ExitCodeTells, Capturing

\* What main keeps of the parse while it does anything else.
Same == input' = input /\ result' = result /\ line' = line /\ pc' = pc

LEMMA SameParse ==
  ASSUME UNCHANGED vars
  PROVE  /\ Same
         /\ Accepted("scan")' = Accepted("scan") /\ Accepted("help")' = Accepted("help")
         /\ OneToScan' = OneToScan
         /\ Formatted(input.freq_start)' = Formatted(input.freq_start)
         /\ Allocated(input.freq_start)' = Allocated(input.freq_start)
         /\ timeout' = timeout
BY DEF Same, vars, inputVars, Accepted, OneToScan, timeout

\* main ends in one of its own ways.
LEMMA ExitsKeep ==
  ASSUME InvProgram, InvalidUsage \/ UsageUndefined \/ Help \/ SkipRange
  PROVE  InvProgram'
<1>. PICK code : /\ Exits(code)
                 /\ \/ ppc = "check" /\ code = INVALID_PROGRAM_USAGE
                       /\ (result = "rejected" \/ pc = "undefined")
                    \/ ppc = "check" /\ code = Scan!SIGSEGV_STATUS
                    \/ ppc = "check" /\ code = Scan!EXIT_SUCCESS /\ Accepted("help")
                    \/ ppc = "spawn" /\ code = Scan!EXIT_SUCCESS /\ ~OneToScan
  BY DEF InvalidUsage, UsageUndefined, Help, SkipRange
<1>1. Same /\ UNCHANGED <<textVars, elapsed, dataCap, verdict, cpc>> /\ timeout' = timeout
  BY SameParse DEF Exits
<1>2. ppc' = "exited" /\ exitCode' = code /\ writers' = writers \ {"rcs"}
  BY DEF Exits, Scan!Exit
<1>3. cpc = "none"
  BY DEF InvProgram, InvMain
<1>4. InvMain'
  BY <1>1, <1>2, <1>3 DEF InvProgram, InvMain, Same, textVars, Capturing, Accepted, OneToScan
<1>5. InvText'
  BY <1>1, <1>2 DEF InvProgram, InvText, Same, textVars
<1>6. InvExit'
  BY <1>1, <1>2, <1>3, CodesDiffer
  DEF InvProgram, InvMain, InvExit, ExitCodeTells, Same, Accepted, OneToScan
<1>7. InvChild'
  BY <1>1, <1>2, <1>3 DEF InvProgram, InvChild
<1>. QED
  BY <1>4, <1>5, <1>6, <1>7 DEF InvProgram
LEMMA CheckKeeps ==
  ASSUME InvProgram, CheckDevice
  PROVE  InvProgram'
<1>1. Same /\ UNCHANGED textVars /\ timeout' = timeout /\ Accepted("scan")
  BY SameParse DEF CheckDevice
<1>2. CASE Scan!DeviceOpen
  <2>1. UNCHANGED <<cpc, verdict, elapsed, dataCap>> /\ ppc = "check"
        /\ \/ ppc' = "exited" /\ exitCode' = Scan!NO_RADIO_DEVICE_FOUND
           \/ ppc' = "announce" /\ exitCode' = exitCode
    BY <1>2 DEF Scan!DeviceOpen, Scan!Exit, Scan!childVars
  <2>. QED
    BY <1>1, <2>1, CodesDiffer
    DEF InvProgram, InvMain, InvText, InvExit, InvChild, ExitCodeTells, Same, Accepted,
        OneToScan, textVars, Capturing
<1>3. CASE Scan!DeviceAnnounceAndClose
  <2>1. UNCHANGED <<cpc, verdict, elapsed, dataCap>> /\ ppc = "announce"
        /\ \/ ppc' = "exited" /\ exitCode' = Scan!SIGSEGV_STATUS
           \/ ppc' = "spawn" /\ exitCode' = exitCode
    BY <1>3 DEF Scan!DeviceAnnounceAndClose, Scan!Exit, Scan!childVars
  <2>. QED
    BY <1>1, <2>1, CodesDiffer
    DEF InvProgram, InvMain, InvText, InvExit, InvChild, ExitCodeTells, Same, Accepted,
        OneToScan, textVars, Capturing
<1>. QED
  BY <1>2, <1>3 DEF CheckDevice

LEMMA FormatKeeps ==
  ASSUME TypeOK, InvProgram, FormatFrequency
  PROVE  InvProgram'
<1>1. Same /\ timeout' = timeout /\ UNCHANGED scanVars
  BY SameParse DEF FormatFrequency
<1>2. input.freq_start \in 0..FreqSpan-1
  BY DEF TypeOK, program_input_s
<1>3. Allocated(input.freq_start) \in Nat
  BY <1>2, FormattedTypes
<1>. PICK text : text = Formatted(input.freq_start)
  OBVIOUS
<1>4. PICK room \in Nat : room = Allocated(input.freq_start)
  BY <1>3
<1>5. /\ ppc = "spawn" /\ OneToScan /\ freq_str' = text /\ freq_room' = room
      /\ text = Formatted(input'.freq_start) /\ room = Allocated(input'.freq_start)
  BY <1>1, <1>4 DEF FormatFrequency, Same
<1>6. InvMain'
  BY <1>1, <1>5 DEF InvProgram, InvMain, Same, Accepted, OneToScan, Capturing, scanVars
<1>7. InvText'
  BY <1>5 DEF InvText
<1>8. InvExit'
  BY <1>1 DEF InvProgram, InvExit, ExitCodeTells, Same, Accepted, scanVars
<1>9. InvChild'
  BY <1>1 DEF InvProgram, InvChild, scanVars
<1>. QED
  BY <1>6, <1>7, <1>8, <1>9 DEF InvProgram

\* A scan goes on.
LEMMA ScanKeeps ==
  ASSUME InvProgram, ScanFrequency
  PROVE  InvProgram'
<1>1. /\ Same /\ UNCHANGED textVars /\ timeout' = timeout /\ freq_str # NoText
      /\ Accepted("scan") /\ OneToScan
  BY SameParse DEF ScanFrequency, Scanning, InvProgram, InvMain
<1>2. InvText'
  BY <1>1 DEF InvProgram, InvText, Same, textVars
<1>. DEFINE Alive == cpc \in {"forked", "setup", "rtl_fm", "streaming"}
<1>. USE DEF InvProgram, InvMain, InvExit, InvChild, ExitCodeTells, Same, Accepted,
             OneToScan, textVars, Capturing
<1>3. ppc \notin {"check", "announce"}
  BY <1>1
<1>4. CASE Scan!Spawn
  <2>1. /\ ppc = "spawn" /\ UNCHANGED <<elapsed, dataCap, verdict>>
        /\ \/ /\ ppc' = "exited" /\ cpc' = cpc
              /\ exitCode' \in {Scan!PIPE_FAILED, Scan!RTL_FM_FAILED}
              /\ writers' = writers \ {"rcs"}
           \/ /\ ppc' = "forked" /\ cpc' = "forked" /\ exitCode' = exitCode
              /\ writers' = {"rcs", "child"}
    BY <1>4 DEF Scan!Spawn, Scan!Exit
  <2>. QED
    BY <1>1, <1>2, <2>1, CodesDiffer
<1>5. CASE Scan!StartCapture
  <2>1. /\ ppc = "forked" /\ ppc' = "loop" /\ UNCHANGED <<exitCode, cpc, verdict>>
        /\ writers' = writers \ {"rcs"}
    BY <1>5 DEF Scan!StartCapture, Scan!childVars
  <2>. QED
    BY <1>1, <1>2, <2>1
<1>6. CASE Scan!TimeUp
  <2>1. /\ ppc = "loop" /\ ppc' = "vad" /\ elapsed >= timeout
        /\ UNCHANGED <<exitCode, cpc, verdict, writers, elapsed, dataCap>>
    BY <1>6 DEF Scan!TimeUp, Scan!childVars, Scan!pipeVars
  <2>. QED
    BY <1>1, <1>2, <2>1
<1>7. CASE Scan!PrepareRead
  <2>1. /\ ppc = "loop" /\ ppc' = "read"
        /\ UNCHANGED <<exitCode, cpc, verdict, writers>>
    BY <1>7 DEF Scan!PrepareRead, Scan!childVars, Scan!pipeVars
  <2>. QED
    BY <1>1, <1>2, <2>1
<1>8. CASE Scan!ReadSample
  <2>1. /\ ppc = "read" /\ ppc' = "loop"
        /\ UNCHANGED <<exitCode, cpc, verdict, writers>>
    BY <1>8 DEF Scan!ReadSample, Scan!childVars
  <2>. QED
    BY <1>1, <1>2, <2>1
<1>9. CASE Scan!ReadFails
  <2>1. /\ ppc = "read" /\ ppc' = "vad" /\ (writers = {} \/ dataCap = 0)
        /\ UNCHANGED <<exitCode, cpc, verdict, writers, elapsed, dataCap>>
    BY <1>9 DEF Scan!ReadFails, Scan!childVars, Scan!pipeVars
  <2>2. cpc = "dead" \/ dataCap = 0
    BY <2>1
  <2>. QED
    BY <1>1, <1>2, <2>1, <2>2
<1>10. CASE Scan!VadThrows
  <2>1. /\ ppc = "vad" /\ ppc' = "exited" /\ exitCode' = Scan!SIGABRT_STATUS
        /\ writers' = writers \ {"rcs"} /\ UNCHANGED <<cpc, verdict>>
    BY <1>10 DEF Scan!VadThrows, Scan!Exit, Scan!childVars
  <2>. QED
    BY <1>1, <1>2, <2>1, CodesDiffer
<1>11. CASE Scan!DetectVoice
  <2>1. /\ ppc = "vad" /\ UNCHANGED <<cpc, elapsed, dataCap>>
        /\ \/ /\ ppc' = "exited" /\ exitCode' = Scan!SIGSEGV_STATUS /\ verdict' = verdict
              /\ writers' = writers \ {"rcs"}
           \/ /\ ppc' = "kill" /\ exitCode' = exitCode /\ writers' = writers
              /\ verdict' \in {"voice", "no_voice"}
    BY <1>11 DEF Scan!DetectVoice, Scan!Exit, Scan!childVars
  <2>. QED
    BY <1>1, <1>2, <2>1, CodesDiffer
<1>12. CASE Scan!KillChild
  <2>1. /\ ppc = "kill" /\ ppc' = "close"
        /\ UNCHANGED <<exitCode, cpc, verdict, writers, elapsed, dataCap>>
    BY <1>12 DEF Scan!KillChild, Scan!pipeVars
  <2>. QED
    BY <1>1, <1>2, <2>1
<1>13. CASE Scan!CloseAndReturn
  <2>1. /\ ppc = "close" /\ ppc' = "exited" /\ exitCode' = Scan!EXIT_SUCCESS
        /\ writers' = writers \ {"rcs"} /\ UNCHANGED <<cpc, verdict>>
    BY <1>13 DEF Scan!CloseAndReturn, Scan!Exit, Scan!childVars
  <2>. QED
    BY <1>1, <1>2, <2>1, CodesDiffer
<1>14. ~Scan!DeviceOpen /\ ~Scan!DeviceAnnounceAndClose
  BY <1>3 DEF Scan!DeviceOpen, Scan!DeviceAnnounceAndClose
<1>. QED
  BY <1>4, <1>5, <1>6, <1>7, <1>8, <1>9, <1>10, <1>11, <1>12, <1>13, <1>14
  DEF ScanFrequency, Scanning, Scan!RcsNext
\* The child and the clock go on.
LEMMA ChildKeeps ==
  ASSUME InvProgram, Child
  PROVE  InvProgram'
<1>1. /\ Same /\ UNCHANGED textVars /\ timeout' = timeout /\ freq_str # NoText
      /\ Accepted("scan") /\ OneToScan
  BY SameParse DEF Child, Scanning, InvProgram, InvMain
<1>2. /\ UNCHANGED <<ppc, exitCode, elapsed, dataCap, verdict>>
      /\ \/ /\ cpc = "forked" /\ cpc' = "setup" /\ writers' = writers
         \/ /\ cpc = "setup" /\ cpc' = "rtl_fm" /\ writers' = writers
         \/ /\ cpc = "rtl_fm" /\ cpc' = "streaming" /\ writers' = writers
         \/ /\ cpc = "streaming" /\ cpc' = "streaming" /\ writers' = writers
         \/ /\ cpc \in {"forked", "setup", "rtl_fm", "streaming"} /\ cpc' = "dead"
  <2>. USE DEF Scan!rcsVars, Scan!pipeVars, Scan!ChildEnds
  <2>1. CASE Scan!ChildSetup
    BY <2>1 DEF Scan!ChildSetup
  <2>2. CASE Scan!ExecRtlFm
    BY <2>2 DEF Scan!ExecRtlFm
  <2>3. CASE Scan!ExecFails
    BY <2>3 DEF Scan!ExecFails
  <2>4. CASE Scan!RtlFmOpensDevice
    BY <2>4 DEF Scan!RtlFmOpensDevice
  <2>5. CASE Scan!RtlFmWrites
    BY <2>5 DEF Scan!RtlFmWrites
  <2>6. CASE Scan!RtlFmBrokenPipe
    BY <2>6 DEF Scan!RtlFmBrokenPipe
  <2>7. CASE Scan!RtlFmGivesUp
    BY <2>7 DEF Scan!RtlFmGivesUp
  <2>8. CASE Scan!ChildTerminated
    BY <2>8 DEF Scan!ChildTerminated
  <2>. QED
    BY <2>1, <2>2, <2>3, <2>4, <2>5, <2>6, <2>7, <2>8 DEF Child, Scanning, Scan!ChildNext
<1>3. InvText'
  BY <1>1 DEF InvProgram, InvText, Same, textVars
<1>. QED
  BY <1>1, <1>2, <1>3
  DEF InvProgram, InvMain, InvExit, InvChild, ExitCodeTells, Same, Accepted, OneToScan,
      textVars, Capturing

LEMMA ClockKeeps ==
  ASSUME InvProgram, Clock
  PROVE  InvProgram'
<1>1. /\ Same /\ UNCHANGED textVars /\ timeout' = timeout
      /\ ppc \in {"loop", "read"} /\ UNCHANGED <<ppc, exitCode, cpc, writers, verdict>>
  BY SameParse DEF Clock, Scanning, Scan!Tick, Scan!childVars, Scan!pipeVars
<1>. QED
  BY <1>1
  DEF InvProgram, InvMain, InvText, InvExit, InvChild, ExitCodeTells, Same, Accepted,
      OneToScan, textVars, Capturing

LEMMA ProgramKept == TypeOK /\ InvProgram /\ [RcsNext]_rcsVars => InvProgram'
<1>. SUFFICES ASSUME TypeOK, InvProgram, [RcsNext]_rcsVars PROVE InvProgram'
  OBVIOUS
<1>1. CASE UNCHANGED rcsVars
  <2>1. Same /\ timeout' = timeout /\ UNCHANGED <<scanVars, textVars>>
    BY <1>1, SameParse DEF rcsVars
  <2>. QED
    BY <2>1
    DEF InvProgram, InvMain, InvText, InvExit, InvChild, ExitCodeTells, Same, Accepted,
        OneToScan, textVars, scanVars, Capturing
<1>. QED
  BY <1>1, ParseKeeps, ExitsKeep, CheckKeeps, FormatKeeps, ScanKeeps, ChildKeeps, ClockKeeps
  DEF RcsNext, Main, Over

LEMMA TypesAlways == RcsSpec => []TypeOK
BY ProgramParses, InputTypes, PTL

LEMMA ProgramAlways == RcsSpec => []InvProgram
BY ProgramInit, ProgramKept, TypesAlways, PTL DEF RcsSpec

-----------------------------------------------------------------------------
(* What the program promises *)

\* Every variable stays in its type: with those of the parse the exit code, and
\* the text of the frequency, whose digits are digits.
THEOREM ProgramTypes == RcsSpec => []RcsTypeOK
<1>1. TypeOK /\ InvProgram => RcsTypeOK
  <2>. SUFFICES ASSUME TypeOK, InvProgram PROVE RcsTypeOK
    OBVIOUS
  <2>1. input.freq_start \in 0..FreqSpan-1
    BY DEF TypeOK, program_input_s
  <2>2. freq_str \in Seq({Minus} \cup 0..9)
    BY <2>1, FormattedTypes, EmptySeq DEF InvProgram, InvText, NoText
  <2>. QED
    BY <2>2 DEF RcsTypeOK, InvProgram, InvMain, InvText, InvExit
<1>. QED
  BY <1>1, TypesAlways, ProgramAlways, PTL

\* input.h:23, main.cc:34-62: the exit code 2 is given for a refused line only, and 0
\* for an accepted one only, which has its verdict if it is a frequency; rtl_fm
\* runs for an accepted scan only.
THEOREM ExitCodesTell == RcsSpec => []ExitCodeTells
<1>1. InvProgram => ExitCodeTells
  BY DEF InvProgram, InvExit
<1>. QED
  BY <1>1, ProgramAlways, PTL

\* radio.c:105-111: a frequency that prints without a sign has room for its text
\* and the zero behind it, and every other one lacks the room for the zero at
\* most, whatever the width of the numbers.
THEOREM TextHasRoom == RcsSpec => []TextFits
<1>1. TypeOK /\ InvProgram => TextFits
  <2>. SUFFICES ASSUME TypeOK, InvProgram, freq_str # NoText
                PROVE  /\ Len(freq_str) <= freq_room
                       /\ input.freq_start \in 1..FreqSpan \div 2 - 1 =>
                            Len(freq_str) < freq_room
    BY DEF TextFits
  <2>1. PICK half \in Nat : half = FreqSpan \div 2 /\ FreqSpan = 2 * half
    BY NumberAssumption, SpanAssumption
  <2>2. PICK freq \in Nat : freq = input.freq_start /\ freq < 2 * half
    BY <2>1 DEF TypeOK, program_input_s
  <2>3. freq_str = Formatted(freq) /\ freq_room = freq_len[freq] + 1
    BY <2>2 DEF InvProgram, InvText, Allocated
  <2>4. freq_len[freq] \in Nat
    BY <2>2, LengthDefined
  <2>5. CASE freq = 0 /\ freq < half
    <3>1. Digits[0] = <<0>>
      <4>1. PICK z \in Nat : z = 0 /\ z < 10
        OBVIOUS
      <4>2. Digits[z] = <<z>>
        BY <4>1, DigitsDefined
      <4>. QED
        BY <4>1, <4>2, Zenon
    <3>2. freq_str = <<0>>
      BY <2>1, <2>3, <2>5, <3>1, Zenon DEF Formatted
    <3>3. Len(freq_str) = 1 /\ Len(freq_str) <= freq_room
      BY <2>3, <2>4, <3>2, UnitSeq
    <3>4. ~(input.freq_start \in 1..FreqSpan \div 2 - 1)
      BY <2>1, <2>2, <2>5
    <3>. QED
      BY <3>3, <3>4
  <2>6. CASE freq # 0 /\ freq < half
    <3>1. freq_str = Digits[freq]
      BY <2>1, <2>3, <2>6 DEF Formatted
    <3>2. Len(Digits[freq]) = freq_len[freq]
      BY <2>2, <2>6, LengthOfDigits
    <3>. QED
      BY <2>3, <2>4, <3>1, <3>2
  <2>7. CASE ~(freq < half)
    <3>1. PICK m \in Nat : m = FreqSpan - freq /\ m # 0 /\ m <= freq
      BY <2>1, <2>2, <2>7
    <3>2. freq_str = <<Minus>> \o Digits[m]
      BY <2>1, <2>3, <2>7, <3>1 DEF Formatted
    <3>3. Len(Digits[m]) = freq_len[m] /\ freq_len[m] <= freq_len[freq] /\ freq_len[m] \in Nat
      <4>1. Len(Digits[m]) = freq_len[m]
        BY <3>1, LengthOfDigits
      <4>2. m \in 0..freq
        BY <2>2, <3>1
      <4>3. freq_len[m] <= freq_len[freq]
        BY <4>2, LengthGrows
      <4>4. freq_len[m] \in Nat
        BY <3>1, LengthDefined
      <4>. QED
        BY <4>1, <4>3, <4>4
    <3>4. Len(freq_str) = 1 + Len(Digits[m])
      BY <3>1, <3>2, SignAdded
    <3>5. PICK l \in Nat : l = freq_len[freq]
      BY <2>4
    <3>6. PICK k \in Nat : k = freq_len[m] /\ k <= l
      BY <3>3, <3>5
    <3>7. Len(freq_str) = 1 + k /\ freq_room = l + 1
      BY <2>3, <3>3, <3>4, <3>5, <3>6
    <3>8. ~(input.freq_start \in 1..FreqSpan \div 2 - 1)
      BY <2>1, <2>2, <2>7
    <3>. QED
      BY <3>6, <3>7, <3>8
  <2>. QED
    BY <2>5, <2>6, <2>7
<1>. QED
  BY <1>1, TypesAlways, ProgramAlways, PTL

\* input.c:237-242: the child is told the frequency and the mode that were typed.
THEOREM ChildTunedAsAsked == RcsSpec => []TunedAsAsked
<1>1. TypeOK /\ Tuned /\ InvProgram => TunedAsAsked
  <2>. SUFFICES ASSUME TypeOK, Tuned, InvProgram, cpc \in {"rtl_fm", "streaming"},
                       Ordinary(line[2]), Below(Typed(line[2]), FreqSpan \div 2)
                PROVE  /\ Near(Value(args.f), Typed(line[2]))
                       /\ IsMode(line[3], args.M)
    BY DEF TunedAsAsked
  <2>1. PICK half \in 0..FreqSpan : half = FreqSpan \div 2
    BY NumberAssumption
  <2>2. Accepted("scan") /\ freq_str = Formatted(input.freq_start)
    BY DEF InvProgram, InvMain, InvText
  <2>3. PICK freq \in Nat : freq = input.freq_start /\ freq < half /\ Near(freq, Typed(line[2]))
    BY <2>1, <2>2 DEF Tuned, Stored
  <2>4. freq_str = Digits[freq]
    BY <2>1, <2>2, <2>3 DEF Formatted
  <2>5. Value(args.f) = freq
    BY <2>4, DigitsSayNumber DEF args
  <2>6. IsMode(line[3], input.demod_mode) /\ input.demod_mode \in {"am", "fm", "wbfm"}
    BY <2>2 DEF Tuned, TypeOK, program_input_s
  <2>7. args.M = input.demod_mode
    BY <2>6 DEF args, modes, demod_modes
  <2>. QED
    BY <2>3, <2>5, <2>6, <2>7
<1>. QED
  BY <1>1, TypesAlways, TunedAlways, ProgramParses, ProgramAlways, PTL

\* main parses one line.
Once == parses \in {0, 1}

LEMMA OneLine == RcsSpec => [](First /\ Once)
<1>1. Init => Once
  BY DEF Init, Once
<1>2. Once /\ [Next]_vars => Once'
  <2>. SUFFICES ASSUME Once, [Next]_vars PROVE Once'
    OBVIOUS
  <2>1. CASE StartParse
    BY <2>1, ParseAssumption DEF StartParse, MoreLines, Once
  <2>2. CASE Parse
    BY <2>2 DEF Once, Parse, check_help_command, check_scan_command,
                sanitize_frequency_range, demod_mode, condense_flags, FlagsEnd, FlagInvalid,
                FlagIgnored, FlagValue, FlagsUndefined, InFlags
  <2>3. CASE UNCHANGED vars
    BY <2>3 DEF vars, inputVars, Once
  <2>. QED
    BY <2>1, <2>2, <2>3 DEF Next, Finished
<1>3. Spec => []Once
  BY <1>1, <1>2, PTL DEF Spec
<1>. QED
  BY <1>3, ProgramParses, FirstInvariant, PTL

\* input.c:119: only the death of rtl_fm and the loss of the buffer end a capture
\* before the hold time, which is what the last -h that counts says.
THEOREM CaptureHolds == RcsSpec => []HoldTimeKept
<1>1. FlagsHonoured /\ First /\ Once /\ InvProgram => HoldTimeKept
  <2>. SUFFICES ASSUME FlagsHonoured, FirstParse, InvProgram, ppc \in {"vad", "kill", "close"}
                PROVE  elapsed >= Rounded(LastValue("h")) \/ cpc = "dead" \/ dataCap = 0
    BY DEF First, Once, HoldTimeKept
  <2>1. Accepted("scan")
    BY DEF InvProgram, InvMain
  <2>2. parses = 1
    BY <2>1 DEF FirstParse, Accepted
  <2>3. input.hold_time = LastValue("h")
    BY <2>1, <2>2 DEF FlagsHonoured, Field
  <2>. QED
    BY <2>3 DEF InvProgram, InvChild, timeout
<1>2. RcsSpec => []FlagsHonoured
  BY ProgramParses, FlagsAreHonoured, PTL
<1>. QED
  BY <1>1, <1>2, OneLine, ProgramAlways, PTL
=============================================================================
