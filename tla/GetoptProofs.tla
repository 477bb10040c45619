---------------------------- MODULE GetoptProofs ----------------------------
(***************************************************************************)
(* What the operators of Getopt compute, for every vector of words and all *)
(* option characters.                                                      *)
(***************************************************************************)
EXTENDS Getopt, SequenceTheorems, WellFoundedInduction, TLAPS

(* Induction over a set of numbers in place of a predicate *)

\* A set of natural numbers has a least element.
LEMMA Least ==
  ASSUME NEW T, T \subseteq Nat, T # {}
  PROVE  \E n \in T : \A m \in T : n <= m
<1>1. PICK n \in T : \A m \in T : ~ (<<m, n>> \in OpToRel(<, Nat))
  BY NatLessThanWellFounded, WFMin
<1>2. ASSUME NEW m \in T PROVE n <= m
  <2>1. n \in Nat /\ m \in Nat
    OBVIOUS
  <2>2. ~ (m < n)
    BY <1>1, <2>1 DEF OpToRel
  <2>. QED
    BY <2>1, <2>2
<1>. QED
  BY <1>2

\* Induction.
LEMMA Induction ==
  ASSUME NEW T, 0 \in T, \A n \in Nat : n \in T => n + 1 \in T
  PROVE  Nat \subseteq T
<1>. SUFFICES ASSUME Nat \ T # {} PROVE FALSE
  OBVIOUS
<1>1. Nat \ T \subseteq Nat
  OBVIOUS
<1>2. PICK n \in Nat \ T : \A m \in Nat \ T : n <= m
  BY <1>1, Least
<1>. QED
  BY <1>2

-----------------------------------------------------------------------------
(* The exchange of two blocks *)

\* One round of the loop: the position that is left.
LowerRound(s) ==
  LET low == s.middle - s.bottom
  IN  [bottom |-> s.bottom, middle |-> s.middle, top |-> s.top - low,
       from |-> Swapped(s.from, s.bottom, s.top - low, low)]

UpperRound(s) ==
  LET high == s.top - s.middle
  IN  [bottom |-> s.bottom + high, middle |-> s.middle, top |-> s.top,
       from |-> Swapped(s.from, s.bottom, s.middle, high)]

\* The body of `moved' with m in its place.
Moving(m, s) ==
  IF s.middle - s.bottom <= 0 \/ s.top - s.middle <= 0 THEN s.from
  ELSE IF s.top - s.middle > s.middle - s.bottom THEN m[LowerRound(s)] ELSE m[UpperRound(s)]

Length(s) == s.top - s.bottom

\* Words that change places stay in the vector.
LEMMA SwappedMoves ==
  ASSUME argc \in Nat, NEW a \in Moves, NEW p \in Nat, NEW q \in Nat, NEW n \in Nat,
         p + n <= argc, q + n <= argc
  PROVE  Swapped(a, p, q, n) \in Moves
<1>1. ASSUME NEW i \in Indices
      PROVE  Swapped(a, p, q, n)[i] \in Indices
  BY <1>1 DEF Swapped, Moves, Indices
<1>. QED
  BY <1>1 DEF Swapped, Moves

\* What is left is shorter.
LEMMA RoundShortens ==
  ASSUME argc \in Nat, NEW s \in Rounds,
         ~ (s.middle - s.bottom <= 0 \/ s.top - s.middle <= 0)
  PROVE  /\ s.top - s.middle > s.middle - s.bottom =>
              LowerRound(s) \in Rounds /\ Length(LowerRound(s)) < Length(s)
         /\ ~(s.top - s.middle > s.middle - s.bottom) =>
              UpperRound(s) \in Rounds /\ Length(UpperRound(s)) < Length(s)
<1>1. CASE s.top - s.middle > s.middle - s.bottom
  <2>1. Swapped(s.from, s.bottom, s.top - (s.middle - s.bottom), s.middle - s.bottom) \in Moves
    BY <1>1, SwappedMoves, SMTT(30) DEF Rounds
  <2>. QED
    BY <1>1, <2>1 DEF LowerRound, Rounds, Length
<1>2. CASE ~(s.top - s.middle > s.middle - s.bottom)
  <2>1. Swapped(s.from, s.bottom, s.middle, s.top - s.middle) \in Moves
    BY <1>2, SwappedMoves DEF Rounds
  <2>. QED
    BY <1>2, <2>1 DEF UpperRound, Rounds, Length
<1>. QED
  BY <1>1, <1>2

\* The functions that do what `moved' does where less than n words are left.
Approximations(n) ==
  {m \in [Rounds -> Moves] : \A s \in Rounds : Length(s) < n => m[s] = Moving(m, s)}

\* The recursion of `moved' is well founded.
LEMMA MovedDefined ==
  ASSUME argc \in Nat
  PROVE  \A s \in Rounds : moved[s] = Moving(moved, s)
<1>. DEFINE T == {n \in Nat : Approximations(n) # {}}
<1>1. 0 \in T
  <2>1. [s \in Rounds |-> s.from] \in [Rounds -> Moves]
    BY DEF Rounds
  <2>2. \A s \in Rounds : Length(s) < 0 =>
          [r \in Rounds |-> r.from][s] = Moving([r \in Rounds |-> r.from], s)
    BY DEF Rounds, Moving, Length
  <2>. QED
    BY <2>1, <2>2 DEF Approximations
<1>2. ASSUME NEW n \in Nat, n \in T
      PROVE  n + 1 \in T
  <2>1. PICK m \in Approximations(n) : TRUE
    BY <1>2
  <2>. DEFINE k == [s \in Rounds |-> Moving(m, s)]
  <2>2. ASSUME NEW s \in Rounds PROVE Moving(m, s) \in Moves
    <3>1. s.from \in Moves /\ m \in [Rounds -> Moves]
      BY <2>1 DEF Rounds, Approximations
    <3>. QED
      BY <3>1, RoundShortens DEF Moving
  <2>3. ASSUME NEW s \in Rounds, Length(s) < n + 1 PROVE k[s] = Moving(k, s)
    <3>1. \A r \in Rounds : Length(r) < n => k[r] = m[r]
      BY <2>1 DEF Approximations
    <3>2. Length(s) \in Int /\ \A r \in Rounds : Length(r) \in Int
      BY DEF Length, Rounds
    <3>. HIDE DEF k
    <3>3. Moving(m, s) = Moving(k, s)
      <4>1. CASE s.middle - s.bottom <= 0 \/ s.top - s.middle <= 0
        BY <4>1 DEF Moving
      <4>2. CASE ~(s.middle - s.bottom <= 0 \/ s.top - s.middle <= 0)
        BY <2>3, <3>1, <3>2, <4>2, RoundShortens DEF Moving
      <4>. QED
        BY <4>1, <4>2
    <3>4. k[s] = Moving(m, s)
      BY DEF k
    <3>. QED
      BY <3>3, <3>4
  <2>4. k \in Approximations(n + 1)
    BY <2>2, <2>3 DEF Approximations
  <2>. QED
    BY <2>4
<1>3. argc + 1 \in T
  <2>. HIDE DEF T
  <2>. QED
    BY <1>1, <1>2, Induction
<1>4. PICK m \in Approximations(argc + 1) : TRUE
  BY <1>3
<1>5. \A s \in Rounds : Length(s) < argc + 1
  BY DEF Length, Rounds
<1>6. m \in [Rounds -> Moves] /\ m = [s \in Rounds |-> Moving(m, s)]
  BY <1>4, <1>5 DEF Approximations
<1>7. moved = CHOOSE f : f = [s \in Rounds |-> Moving(f, s)]
  BY DEF moved, Moving, LowerRound, UpperRound
<1>8. moved = [s \in Rounds |-> Moving(moved, s)]
  BY <1>6, <1>7
<1>9. ASSUME NEW s \in Rounds PROVE [r \in Rounds |-> Moving(moved, r)][s] = Moving(moved, s)
  OBVIOUS
<1>. QED
  BY <1>8, <1>9

\* [bottom, middle) and [middle, top) change places, each in its order.
Turned(a, bottom, middle, top) ==
  LET low  == middle - bottom
      high == top - middle
  IN  [i \in Indices |-> IF bottom <= i /\ i < bottom + high THEN a[i + low]
                         ELSE IF bottom + high <= i /\ i < top THEN a[i - high]
                         ELSE a[i]]

Ordered(s) == s.bottom <= s.middle /\ s.middle <= s.top

LEMMA TurnedEqual ==
  ASSUME NEW a, NEW b, NEW m, NEW t, NEW a1, NEW b1, NEW m1, NEW t1,
         \A i \in Indices : Turned(a, b, m, t)[i] = Turned(a1, b1, m1, t1)[i]
  PROVE  Turned(a, b, m, t) = Turned(a1, b1, m1, t1)
BY DEF Turned

\* A swap of the first segment with the end of a longer second one.
LEMMA LowerTurns ==
  ASSUME NEW a \in Moves, NEW b \in Nat, NEW m \in Nat, NEW u \in Nat, NEW t \in Nat,
         NEW low \in Nat, NEW high \in Nat, argc \in Nat, t <= argc,
         m = b + low, u = b + high, t = b + low + high, low > 0, high > low
  PROVE  Turned(Swapped(a, b, u, low), b, m, u) = Turned(a, b, m, t)
<1>. DEFINE c == Swapped(a, b, u, low)
<1>. SUFFICES ASSUME NEW i \in Indices
              PROVE  Turned(c, b, m, u)[i] = Turned(a, b, m, t)[i]
  BY TurnedEqual
<1>1. i \in Int /\ 0 <= i /\ i < argc
  BY DEF Indices
<1>2. \A j \in Int : 0 <= j /\ j < argc =>
        c[j] = IF b <= j /\ j < m THEN a[j + high] ELSE IF u <= j /\ j < t THEN a[j - high] ELSE a[j]
  <2>1. DOMAIN a = 0..argc-1
    BY DEF Moves, Indices
  <2>2. ASSUME NEW j \in 0..argc-1
        PROVE  c[j] = IF b <= j /\ j < m THEN a[j + high] ELSE IF u <= j /\ j < t THEN a[j - high] ELSE a[j]
    BY <2>1, <2>2 DEF Swapped
  <2>. QED
    BY <2>2
<1>3. Turned(a, b, m, t)[i] = IF b <= i /\ i < u THEN a[i + low]
                              ELSE IF u <= i /\ i < t THEN a[i - high] ELSE a[i]
  <2>1. m - b = low /\ t - m = high
    OBVIOUS
  <2>. QED
    BY <2>1 DEF Turned
<1>. HIDE DEF c
<1>4. Turned(c, b, m, u)[i] =
        IF b <= i /\ i < u - low THEN c[i + low] ELSE IF u - low <= i /\ i < u THEN c[i - (high - low)] ELSE c[i]
  <2>1. m - b = low /\ u - m = high - low /\ b + (high - low) = u - low
    OBVIOUS
  <2>. QED
    BY <2>1 DEF Turned
<1>5. CASE b <= i /\ i < u - low
  BY <1>1, <1>2, <1>3, <1>4, <1>5
<1>6. CASE u - low <= i /\ i < u
  BY <1>1, <1>2, <1>3, <1>4, <1>6
<1>7. CASE i < b \/ u <= i
  BY <1>1, <1>2, <1>3, <1>4, <1>7
<1>. QED
  BY <1>1, <1>5, <1>6, <1>7

\* A swap of a first segment that is no shorter with the second one.
LEMMA UpperTurns ==
  ASSUME NEW a \in Moves, NEW b \in Nat, NEW m \in Nat, NEW u \in Nat, NEW t \in Nat,
         NEW low \in Nat, NEW high \in Nat, argc \in Nat, t <= argc,
         m = b + low, u = b + high, t = b + low + high, high > 0, high <= low
  PROVE  Turned(Swapped(a, b, m, high), u, m, t) = Turned(a, b, m, t)
<1>. DEFINE c == Swapped(a, b, m, high)
<1>. SUFFICES ASSUME NEW i \in Indices
              PROVE  Turned(c, u, m, t)[i] = Turned(a, b, m, t)[i]
  BY TurnedEqual
<1>1. i \in Int /\ 0 <= i /\ i < argc
  BY DEF Indices
<1>2. \A j \in Int : 0 <= j /\ j < argc =>
        c[j] = IF b <= j /\ j < u THEN a[j + low] ELSE IF m <= j /\ j < t THEN a[j - low] ELSE a[j]
  <2>1. DOMAIN a = 0..argc-1
    BY DEF Moves, Indices
  <2>2. ASSUME NEW j \in 0..argc-1
        PROVE  c[j] = IF b <= j /\ j < u THEN a[j + low] ELSE IF m <= j /\ j < t THEN a[j - low] ELSE a[j]
    BY <2>1, <2>2 DEF Swapped
  <2>. QED
    BY <2>2
<1>3. Turned(a, b, m, t)[i] = IF b <= i /\ i < u THEN a[i + low]
                              ELSE IF u <= i /\ i < t THEN a[i - high] ELSE a[i]
  <2>1. m - b = low /\ t - m = high
    OBVIOUS
  <2>. QED
    BY <2>1 DEF Turned
<1>. HIDE DEF c
<1>4. Turned(c, u, m, t)[i] =
        IF u <= i /\ i < u + high THEN c[i + (low - high)] ELSE IF u + high <= i /\ i < t THEN c[i - high] ELSE c[i]
  <2>1. m - u = low - high /\ t - m = high
    OBVIOUS
  <2>. QED
    BY <2>1 DEF Turned
<1>5. CASE u <= i /\ i < u + high
  BY <1>1, <1>2, <1>3, <1>4, <1>5
<1>6. CASE u + high <= i /\ i < t
  BY <1>1, <1>2, <1>3, <1>4, <1>6
<1>7. CASE i < u \/ t <= i
  BY <1>1, <1>2, <1>3, <1>4, <1>7
<1>. QED
  BY <1>1, <1>5, <1>6, <1>7

Turn(s) == Turned(s.from, s.bottom, s.middle, s.top)

\* A round leaves to the rest what turns the segments.
LEMMA RoundTurns ==
  ASSUME argc \in Nat, NEW s \in Rounds, Ordered(s),
         ~ (s.middle - s.bottom <= 0 \/ s.top - s.middle <= 0)
  PROVE  /\ s.top - s.middle > s.middle - s.bottom =>
              Ordered(LowerRound(s)) /\ Turn(LowerRound(s)) = Turn(s)
         /\ ~(s.top - s.middle > s.middle - s.bottom) =>
              Ordered(UpperRound(s)) /\ Turn(UpperRound(s)) = Turn(s)
<1>1. PICK b \in Nat, m \in Nat, t \in Nat, a \in Moves :
        s.bottom = b /\ s.middle = m /\ s.top = t /\ s.from = a
  BY DEF Rounds
<1>2. PICK low \in Nat, high \in Nat : low = m - b /\ high = t - m
  BY <1>1 DEF Ordered
<1>3. PICK u \in Nat : u = b + high
  OBVIOUS
<1>4. /\ m = b + low /\ t = b + low + high /\ low > 0 /\ high > 0 /\ t <= argc
      /\ t - low = u
  BY <1>1, <1>2, <1>3 DEF Rounds
<1>5. CASE high > low
  <2>1. /\ LowerRound(s).bottom = b /\ LowerRound(s).middle = m /\ LowerRound(s).top = u
        /\ LowerRound(s).from = Swapped(a, b, u, low)
    BY <1>1, <1>2, <1>4 DEF LowerRound
  <2>2. Turned(Swapped(a, b, u, low), b, m, u) = Turned(a, b, m, t)
    BY <1>3, <1>4, <1>5, LowerTurns
  <2>3. Ordered(LowerRound(s))
    BY <1>3, <1>4, <1>5, <2>1 DEF Ordered
  <2>. QED
    BY <1>1, <1>2, <1>5, <2>1, <2>2, <2>3 DEF Turn
<1>6. CASE ~(high > low)
  <2>1. /\ UpperRound(s).bottom = u /\ UpperRound(s).middle = m /\ UpperRound(s).top = t
        /\ UpperRound(s).from = Swapped(a, b, m, high)
    BY <1>1, <1>2, <1>3 DEF UpperRound
  <2>2. Turned(Swapped(a, b, m, high), u, m, t) = Turned(a, b, m, t)
    BY <1>3, <1>4, <1>6, UpperTurns
  <2>3. Ordered(UpperRound(s))
    BY <1>3, <1>4, <1>6, <2>1 DEF Ordered
  <2>. QED
    BY <1>1, <1>2, <1>6, <2>1, <2>2, <2>3 DEF Turn
<1>. QED
  BY <1>1, <1>2, <1>5, <1>6

\* getopt.c:292-332: however the lengths of the segments are to each other, the
\* loop of exchange makes them change places.
LEMMA MovedTurns ==
  ASSUME argc \in Nat, NEW s \in Rounds, Ordered(s)
  PROVE  moved[s] = Turn(s)
<1>. DEFINE T == {n \in Nat : \A r \in Rounds : Ordered(r) /\ Length(r) < n => moved[r] = Turn(r)}
<1>1. \A r \in Rounds : Length(r) \in Int /\ (Ordered(r) => Length(r) >= 0)
  BY DEF Length, Rounds, Ordered
<1>2. 0 \in T
  BY <1>1
<1>3. ASSUME NEW n \in Nat, n \in T
      PROVE  n + 1 \in T
  <2>1. ASSUME NEW r \in Rounds, Ordered(r), Length(r) < n + 1
        PROVE  moved[r] = Turn(r)
    <3>1. moved[r] = Moving(moved, r)
      BY MovedDefined
    <3>2. CASE r.middle - r.bottom <= 0 \/ r.top - r.middle <= 0
      <4>1. Turn(r) = r.from
        <5>1. r.from = [i \in Indices |-> r.from[i]]
          BY DEF Rounds, Moves
        <5>2. ASSUME NEW i \in Indices
              PROVE  Turn(r)[i] = r.from[i]
          <6>1. /\ i \in Int /\ r.bottom \in Int /\ r.middle \in Int /\ r.top \in Int
                /\ r.bottom = r.middle \/ r.middle = r.top
            BY <2>1, <3>2 DEF Ordered, Rounds, Indices
          <6>. QED
            BY <6>1 DEF Turn, Turned
        <5>. QED
          BY <5>1, <5>2 DEF Turn, Turned
      <4>. QED
        BY <3>1, <3>2, <4>1 DEF Moving
    <3>3. CASE ~(r.middle - r.bottom <= 0 \/ r.top - r.middle <= 0)
      BY <1>1, <1>3, <2>1, <3>1, <3>3, RoundShortens, RoundTurns DEF Moving
    <3>. QED
      BY <3>2, <3>3
  <2>. QED
    BY <2>1
<1>4. Length(s) + 1 \in Nat /\ Length(s) < Length(s) + 1
  BY <1>1
<1>5. Nat \subseteq T
  <2>. HIDE DEF T
  <2>. QED
    BY <1>2, <1>3, Induction
<1>. QED
  BY <1>4, <1>5

-----------------------------------------------------------------------------
(* What an option word says *)

Strings == Seq(STRING)

IsFirst(word, p) ==
  /\ p \in 2..Len(word)
  /\ word[p] \in ArgFlags
  /\ \A j \in 2..p-1 : word[j] \notin ArgFlags

\* The options of a word none of whose characters has an argument.
LEMMA OptionsPlain ==
  ASSUME NEW word \in Strings, \A i \in 2..Len(word) : word[i] \notin ArgFlags
  PROVE  /\ Options(word).found = PlainOptions(word, Len(word) + 1)
         /\ Options(word).waits = None
<1>1. Len(word) \in Nat
  BY LenProperties DEF Strings
<1>2. ~ (Len(word) + 1 < Len(word)) /\ Len(word) + 1 # Len(word)
  BY <1>1
<1>. QED
  BY <1>2 DEF Options

\* The options of a word whose first option with an argument is the p-th.
LEMMA OptionsArg ==
  ASSUME NEW word \in Strings, NEW p, IsFirst(word, p)
  PROVE  /\ p < Len(word) =>
              /\ Options(word).found = Append(PlainOptions(word, p),
                                         <<word[p], SubSeq(word, p + 1, Len(word))>>)
              /\ Options(word).waits = None
         /\ p = Len(word) =>
              /\ Options(word).found = PlainOptions(word, p)
              /\ Options(word).waits = word[p]
<1>1. Len(word) \in Nat
  BY LenProperties DEF Strings
<1>. DEFINE q == CHOOSE i \in 2..Len(word) : /\ word[i] \in ArgFlags
                                    /\ \A j \in 2..i-1 : word[j] \notin ArgFlags
<1>2. \E i \in 2..Len(word) : word[i] \in ArgFlags /\ \A j \in 2..i-1 : word[j] \notin ArgFlags
  BY DEF IsFirst
<1>3. q \in 2..Len(word) /\ word[q] \in ArgFlags /\ \A j \in 2..q-1 : word[j] \notin ArgFlags
  BY <1>2
<1>. HIDE DEF q
<1>4. q = p
  BY <1>1, <1>3 DEF IsFirst
<1>5. \E i \in 2..Len(word) : word[i] \in ArgFlags
  BY <1>2
<1>6. /\ Options(word).found =
              IF q < Len(word)
              THEN Append(PlainOptions(word, q), <<word[q], SubSeq(word, q + 1, Len(word))>>)
              ELSE PlainOptions(word, q)
      /\ Options(word).waits = IF q = Len(word) THEN word[Len(word)] ELSE None
  <2>. DEFINE r == IF \E i \in 2..Len(word) : word[i] \in ArgFlags
                   THEN CHOOSE i \in 2..Len(word) : /\ word[i] \in ArgFlags
                                                    /\ \A j \in 2..i-1 : word[j] \notin ArgFlags
                   ELSE Len(word) + 1
  <2>1. r = q
    BY <1>5 DEF q
  <2>2. Options(word) =
          [found |-> IF r < Len(word)
                     THEN Append(PlainOptions(word, r),
                                 <<word[r], SubSeq(word, r + 1, Len(word))>>)
                     ELSE PlainOptions(word, r),
           waits |-> IF r = Len(word) THEN word[Len(word)] ELSE None]
    BY Zenon DEF Options
  <2>. HIDE DEF r
  <2>. QED
    BY <2>1, <2>2
<1>. QED
  BY <1>1, <1>3, <1>4, <1>6

\* A word has no option with an argument, or a first one.
LEMMA FirstOrNone ==
  ASSUME NEW word \in Strings, \E i \in 2..Len(word) : word[i] \in ArgFlags
  PROVE  \E p : IsFirst(word, p)
<1>. DEFINE T == {i \in Nat : i \in 2..Len(word) /\ word[i] \in ArgFlags}
<1>1. Len(word) \in Nat
  BY LenProperties DEF Strings
<1>2. T \subseteq Nat /\ T # {}
  BY <1>1
<1>3. PICK p \in T : \A m \in T : p <= m
  <2>. HIDE DEF T
  <2>. QED
    BY <1>2, Least
<1>4. ASSUME NEW j \in 2..p-1
      PROVE  word[j] \notin ArgFlags
  BY <1>1, <1>3, <1>4
<1>. QED
  BY <1>3, <1>4 DEF IsFirst

\* What getopt may return.
Names == STRING \cup {None, Unknown}

\* An option with its argument.
Answers == Names \X Strings

Found == Seq(Answers)

LEMMA PlainOptionType ==
  ASSUME NEW c \in STRING
  PROVE  PlainOption(c) \in Answers
<1>1. PICK e \in Strings : e = <<>>
  BY EmptySeq DEF Strings
<1>2. PICK n \in Names : n = Unknown
  BY Zenon DEF Names
<1>3. c \in Names
  BY Zenon DEF Names
<1>4. <<c, e>> \in Answers /\ <<n, e>> \in Answers
  BY <1>3 DEF Answers
<1>5. PlainOption(c) = IF c \in Flags THEN <<c, e>> ELSE <<n, e>>
  BY <1>1, <1>2, Zenon DEF PlainOption
<1>. QED
  BY <1>4, <1>5, Zenon

\* Options are characters with arguments.
LEMMA PlainTypes ==
  ASSUME NEW word \in Strings, NEW p \in 2..Len(word)+1
  PROVE  PlainOptions(word, p) \in Found /\ Len(PlainOptions(word, p)) = p - 2
<1>1. Len(word) \in Nat /\ p \in Nat /\ p - 2 \in Nat
  BY LenProperties DEF Strings
<1>2. ASSUME NEW i \in 1..p-2
      PROVE  PlainOption(word[i+1]) \in Answers
  <2>1. word[i+1] \in STRING
    BY <1>1, ElementOfSeq DEF Strings
  <2>. QED
    BY <2>1, PlainOptionType
<1>3. [i \in 1..p-2 |-> PlainOption(word[i+1])] \in [1..p-2 -> Answers]
  BY <1>2
<1>4. /\ [i \in 1..p-2 |-> PlainOption(word[i+1])] \in Seq(Answers)
      /\ Len([i \in 1..p-2 |-> PlainOption(word[i+1])]) = p - 2
  BY <1>1, <1>3, SeqDef
<1>. QED
  BY <1>4 DEF PlainOptions, Found

LEMMA OptionsTypes ==
  ASSUME NEW word \in Strings, Len(word) >= 2
  PROVE  Options(word).found \in Found /\ Options(word).waits \in Names
<1>1. Len(word) \in Nat
  BY LenProperties DEF Strings
<1>2. CASE \E i \in 2..Len(word) : word[i] \in ArgFlags
  <2>1. PICK p : IsFirst(word, p)
    BY <1>2, FirstOrNone
  <2>2. p \in 2..Len(word) /\ word[p] \in STRING
    BY <1>1, <2>1, ElementOfSeq DEF IsFirst, Strings
  <2>3. PlainOptions(word, p) \in Found
    BY <1>1, <2>2, PlainTypes
  <2>4. CASE p = Len(word)
    BY <2>1, <2>2, <2>3, <2>4, OptionsArg DEF Names
  <2>5. CASE p < Len(word)
    <3>1. SubSeq(word, p + 1, Len(word)) \in Strings
      <4>1. \A i \in p+1..Len(word) : word[i] \in STRING
        BY <1>1, <2>2, ElementOfSeq DEF Strings
      <4>. QED
        BY <1>1, <2>2, <4>1, SubSeqProperties DEF Strings
    <3>2. <<word[p], SubSeq(word, p + 1, Len(word))>> \in Answers
      BY <2>2, <3>1 DEF Names, Answers
    <3>3. Append(PlainOptions(word, p), <<word[p], SubSeq(word, p + 1, Len(word))>>) \in Found
      BY <2>3, <3>2, AppendProperties DEF Found
    <3>. QED
      BY <2>1, <2>5, <3>3, OptionsArg DEF Names
  <2>. QED
    BY <1>1, <2>2, <2>4, <2>5
<1>3. CASE \A i \in 2..Len(word) : word[i] \notin ArgFlags
  <2>1. PlainOptions(word, Len(word) + 1) \in Found
    BY <1>1, PlainTypes
  <2>. QED
    BY <1>3, <2>1, OptionsPlain DEF Names
<1>. QED
  BY <1>2, <1>3

-----------------------------------------------------------------------------
(* Reading a vector word by word *)

Readings == [found : Found, waits : Names, open : BOOLEAN, opts : Seq(Strings),
             rest : Seq(Strings)]

LEMMA UnreadTypes == Unread \in Readings
<1>1. <<>> \in Found /\ <<>> \in Seq(Strings)
  BY EmptySeq DEF Found
<1>2. None \in Names
  BY Zenon DEF Names
<1>. QED
  BY <1>1, <1>2 DEF Unread, Readings

LEMMA ReadOnTypes ==
  ASSUME NEW r \in Readings, NEW word \in Strings, NEW order
  PROVE  ReadOn(r, word, order) \in Readings
<1>1. /\ r.found \in Found /\ r.waits \in Names /\ r.open \in BOOLEAN
      /\ r.opts \in Seq(Strings) /\ r.rest \in Seq(Strings)
      /\ r = [found |-> r.found, waits |-> r.waits, open |-> r.open, opts |-> r.opts,
              rest |-> r.rest]
  BY DEF Readings
<1>2. Append(r.opts, word) \in Seq(Strings) /\ Append(r.rest, word) \in Seq(Strings)
  BY <1>1, AppendProperties
<1>3. None \in Names
  BY Zenon DEF Names
<1>4. CASE r.waits # None
  <2>1. <<r.waits, word>> \in Answers
    BY <1>1 DEF Answers
  <2>2. Append(r.found, <<r.waits, word>>) \in Found
    BY <1>1, <2>1, AppendProperties DEF Found
  <2>3. ReadOn(r, word, order) = [r EXCEPT !.found = Append(@, <<r.waits, word>>),
                                            !.waits = None, !.opts = Append(@, word)]
    BY <1>4 DEF ReadOn
  <2>. QED
    BY <1>1, <1>2, <1>3, <2>2, <2>3 DEF Readings
<1>5. CASE r.waits = None /\ (~r.open \/ Nonoption(word))
  <2>1. ReadOn(r, word, order) = [r EXCEPT !.rest = Append(@, word),
                                           !.open = @ /\ order = "PERMUTE"]
    BY <1>5 DEF ReadOn
  <2>. QED
    BY <1>1, <1>2, <2>1 DEF Readings
<1>6. CASE r.waits = None /\ ~(~r.open \/ Nonoption(word)) /\ word = Dashes
  <2>1. ReadOn(r, word, order) = [r EXCEPT !.opts = Append(@, word), !.open = FALSE]
    BY <1>6 DEF ReadOn
  <2>. QED
    BY <1>1, <1>2, <2>1 DEF Readings
<1>7. CASE r.waits = None /\ ~(~r.open \/ Nonoption(word)) /\ word # Dashes
  <2>1. Options(word).found \in Found /\ Options(word).waits \in Names
    BY <1>7, OptionsTypes DEF Nonoption
  <2>2. r.found \o Options(word).found \in Found
    BY <1>1, <2>1, ConcatProperties DEF Found
  <2>3. ReadOn(r, word, order) = [r EXCEPT !.found = @ \o Options(word).found,
                                           !.waits = Options(word).waits,
                                           !.opts = Append(@, word)]
    BY <1>7 DEF ReadOn
  <2>. QED
    BY <1>1, <1>2, <2>1, <2>2, <2>3 DEF Readings
<1>. QED
  BY <1>4, <1>5, <1>6, <1>7

\* The recursion of Reading is well founded.
LEMMA ReadingDefined ==
  ASSUME NEW n \in Nat \ {0}, NEW words \in [0..n-1 -> Strings], NEW order
  PROVE  /\ Reading(words, order)[0] = Unread
         /\ \A k \in 1..n-1 :
              Reading(words, order)[k] = ReadOn(Reading(words, order)[k-1], words[k], order)
         /\ \A k \in 0..n-1 : Reading(words, order)[k] \in Readings
<1>. DEFINE Step(f, k) == IF k = 0 THEN Unread ELSE ReadOn(f[k-1], words[k], order)
            R == Reading(words, order)
            Start(k) == {f \in [0..n-1 -> Readings] : \A i \in 0..n-1 : i < k => f[i] = Step(f, i)}
            T == {k \in Nat : Start(k) # {}}
<1>1. 0 \in T
  <2>1. [i \in 0..n-1 |-> Unread] \in Start(0)
    BY UnreadTypes
  <2>. QED
    BY <2>1
<1>2. ASSUME NEW k \in Nat, k \in T
      PROVE  k + 1 \in T
  <2>1. PICK f \in Start(k) : TRUE
    BY <1>2
  <2>. DEFINE g == [i \in 0..n-1 |-> Step(f, i)]
  <2>2. ASSUME NEW i \in 0..n-1 PROVE Step(f, i) \in Readings
    <3>1. CASE i = 0
      BY <3>1, UnreadTypes
    <3>2. CASE i # 0
      <4>1. i - 1 \in 0..n-1 /\ f[i-1] \in Readings /\ words[i] \in Strings
        BY <2>1, <3>2
      <4>. QED
        BY <3>2, <4>1, ReadOnTypes
    <3>. QED
      BY <3>1, <3>2
  <2>3. g \in [0..n-1 -> Readings]
    BY <2>2
  <2>4. ASSUME NEW i \in 0..n-1, i < k + 1 PROVE g[i] = Step(g, i)
    <3>1. CASE i = 0
      BY <3>1
    <3>2. CASE i # 0
      <4>1. i - 1 \in 0..n-1 /\ i - 1 < k
        BY <2>4, <3>2
      <4>2. g[i-1] = f[i-1]
        BY <2>1, <4>1
      <4>. QED
        BY <3>2, <4>2
    <3>. QED
      BY <3>1, <3>2
  <2>. HIDE DEF g
  <2>5. g \in Start(k + 1)
    BY <2>3, <2>4
  <2>. HIDE DEF Start
  <2>. QED
    BY <2>5
<1>3. n \in T
  <2>. HIDE DEF T
  <2>. QED
    BY <1>1, <1>2, Induction
<1>4. PICK f \in [0..n-1 -> Readings] : f = [i \in 0..n-1 |-> Step(f, i)]
  BY <1>3
<1>5. R = CHOOSE g : g = [i \in 0..n-1 |-> Step(g, i)]
  <2>1. DOMAIN words = 0..n-1
    OBVIOUS
  <2>. QED
    BY <2>1 DEF Reading
<1>6. R = [i \in 0..n-1 |-> Step(R, i)]
  <2>. HIDE DEF R
  <2>. QED
    BY <1>4, <1>5
<1>7. \A i \in 0..n-1 : R[i] = Step(R, i)
  <2>. HIDE DEF R
  <2>1. \A i \in 0..n-1 : [j \in 0..n-1 |-> Step(R, j)][i] = Step(R, i)
    OBVIOUS
  <2>. QED
    BY <1>6, <2>1
<1>. HIDE DEF R
<1>8. \A k \in 0..n-1 : R[k] \in Readings
  <2>. DEFINE U == {k \in Nat : k \in 0..n-1 => R[k] \in Readings}
  <2>1. 0 \in U
    BY <1>7, UnreadTypes
  <2>2. ASSUME NEW k \in Nat, k \in U PROVE k + 1 \in U
    <3>1. SUFFICES ASSUME k + 1 \in 0..n-1 PROVE R[k+1] \in Readings
      OBVIOUS
    <3>2. R[k] \in Readings /\ words[k+1] \in Strings /\ k + 1 # 0 /\ k + 1 - 1 = k
      BY <2>2, <3>1
    <3>. QED
      BY <1>7, <3>1, <3>2, ReadOnTypes
  <2>3. Nat \subseteq U
    <3>. HIDE DEF U
    <3>. QED
      BY <2>1, <2>2, Induction
  <2>. QED
    BY <2>3
<1>9. R[0] = Unread /\ \A k \in 1..n-1 : R[k] = ReadOn(R[k-1], words[k], order)
  BY <1>7
<1>. QED
  BY <1>8, <1>9 DEF R

\* The first sequence is how the second begins.
Begins(s, t) == Len(s) <= Len(t) /\ \A i \in 1..Len(s) : t[i] = s[i]

Grows(r, q) ==
  Begins(r.found, q.found) /\ Begins(r.opts, q.opts) /\ Begins(r.rest, q.rest)

LEMMA BeginsConcat ==
  ASSUME NEW S, NEW s \in Seq(S), NEW t \in Seq(S)
  PROVE  Begins(s, s \o t)
BY ConcatProperties, LenProperties DEF Begins

LEMMA BeginsAppend ==
  ASSUME NEW S, NEW s \in Seq(S), NEW e \in S
  PROVE  Begins(s, Append(s, e))
BY AppendProperties, LenProperties DEF Begins

LEMMA BeginsSame ==
  ASSUME NEW S, NEW s \in Seq(S)
  PROVE  Begins(s, s)
BY LenProperties DEF Begins

LEMMA BeginsTransitive ==
  ASSUME NEW S, NEW s \in Seq(S), NEW t \in Seq(S), NEW u \in Seq(S), Begins(s, t), Begins(t, u)
  PROVE  Begins(s, u)
BY LenProperties DEF Begins

\* Nothing that was read is forgotten.
LEMMA ReadOnGrows ==
  ASSUME NEW r \in Readings, NEW word \in Strings, NEW order
  PROVE  Grows(r, ReadOn(r, word, order))
<1>1. /\ r.found \in Found /\ r.waits \in Names /\ r.opts \in Seq(Strings)
      /\ r.rest \in Seq(Strings)
  BY DEF Readings
<1>2. /\ Begins(r.found, r.found) /\ Begins(r.opts, r.opts) /\ Begins(r.rest, r.rest)
      /\ Begins(r.opts, Append(r.opts, word)) /\ Begins(r.rest, Append(r.rest, word))
  BY <1>1, BeginsSame, BeginsAppend DEF Found
<1>3. CASE r.waits # None
  <2>1. <<r.waits, word>> \in Answers
    BY <1>1 DEF Answers
  <2>2. Begins(r.found, Append(r.found, <<r.waits, word>>))
    BY <1>1, <2>1, BeginsAppend DEF Found
  <2>3. /\ ReadOn(r, word, order).found = Append(r.found, <<r.waits, word>>)
        /\ ReadOn(r, word, order).opts = Append(r.opts, word)
        /\ ReadOn(r, word, order).rest = r.rest
    BY <1>3 DEF ReadOn, Readings
  <2>. QED
    BY <1>2, <2>2, <2>3 DEF Grows
<1>4. CASE r.waits = None /\ (~r.open \/ Nonoption(word))
  <2>1. /\ ReadOn(r, word, order).found = r.found
        /\ ReadOn(r, word, order).opts = r.opts
        /\ ReadOn(r, word, order).rest = Append(r.rest, word)
    BY <1>4 DEF ReadOn, Readings
  <2>. QED
    BY <1>2, <2>1 DEF Grows
<1>5. CASE r.waits = None /\ ~(~r.open \/ Nonoption(word)) /\ word = Dashes
  <2>1. /\ ReadOn(r, word, order).found = r.found
        /\ ReadOn(r, word, order).opts = Append(r.opts, word)
        /\ ReadOn(r, word, order).rest = r.rest
    BY <1>5 DEF ReadOn, Readings
  <2>. QED
    BY <1>2, <2>1 DEF Grows
<1>6. CASE r.waits = None /\ ~(~r.open \/ Nonoption(word)) /\ word # Dashes
  <2>1. Options(word).found \in Found
    BY <1>6, OptionsTypes DEF Nonoption
  <2>2. Begins(r.found, r.found \o Options(word).found)
    BY <1>1, <2>1, BeginsConcat DEF Found
  <2>3. /\ ReadOn(r, word, order).found = r.found \o Options(word).found
        /\ ReadOn(r, word, order).opts = Append(r.opts, word)
        /\ ReadOn(r, word, order).rest = r.rest
    BY <1>6 DEF ReadOn, Readings
  <2>. QED
    BY <1>2, <2>2, <2>3 DEF Grows
<1>. QED
  BY <1>3, <1>4, <1>5, <1>6

-----------------------------------------------------------------------------
(* The words of a scan that has read r of its vector *)

\* The non-options skipped are [f, l), the options in front of them and in
\* [l, o), each in the order they were typed; from o on nothing has moved.
Tidy(a, f, l, o, r) ==
  /\ a \in [Indices -> Strings]
  /\ f \in Nat /\ l \in Nat /\ o \in Nat
  /\ 1 <= f /\ f <= l /\ l <= o /\ o <= argc
  /\ a[0] = given[0]
  /\ \A i \in o..argc-1 : a[i] = given[i]
  /\ Len(r.opts) = f - 1 + o - l
  /\ \A i \in 1..f-1 : r.opts[i] = a[i]
  /\ \A i \in l..o-1 : r.opts[i - l + f] = a[i]
  /\ Len(r.rest) = l - f
  /\ \A i \in f..l-1 : r.rest[i - f + 1] = a[i]

\* No non-options so far: what follows may be skipped from o on.
LEMMA TidyForward ==
  ASSUME argc \in Nat, NEW a, NEW f, NEW l, NEW o, NEW r, Tidy(a, f, l, o, r), f = l
  PROVE  Tidy(a, o, o, o, r)
<1>1. ASSUME NEW i \in 1..o-1
      PROVE  r.opts[i] = a[i]
  <2>1. CASE i \in 1..f-1
    BY <2>1 DEF Tidy
  <2>2. CASE i \in l..o-1
    <3>1. i - l + f = i
      BY DEF Tidy
    <3>. QED
      BY <2>2, <3>1 DEF Tidy
  <2>. QED
    BY <2>1, <2>2 DEF Tidy
<1>. QED
  BY <1>1 DEF Tidy

\* When the two segments change places the words stay in order.
LEMMA TurnedTidy ==
  ASSUME argc \in Nat, NEW a, NEW f, NEW l, NEW o, NEW r, Tidy(a, f, l, o, r)
  PROVE  Tidy(Turned(a, f, l, o), f + o - l, o, o, r)
<1>. DEFINE b == Turned(a, f, l, o)
<1>1. /\ f \in Nat /\ l \in Nat /\ o \in Nat /\ 1 <= f /\ f <= l /\ l <= o /\ o <= argc
      /\ a \in [Indices -> Strings]
  BY DEF Tidy
<1>2. PICK low \in Nat, high \in Nat, g \in Nat : low = l - f /\ high = o - l /\ g = f + high
  BY <1>1
<1>3. l = f + low /\ o = g + low /\ f + o - l = g
  BY <1>1, <1>2
<1>4. ASSUME NEW i \in Indices
      PROVE  b[i] = IF f <= i /\ i < g THEN a[i + low]
                    ELSE IF g <= i /\ i < o THEN a[i - high] ELSE a[i]
  BY <1>2, Zenon DEF Turned
<1>5. b = [i \in Indices |-> b[i]]
  BY Zenon DEF Turned
<1>. HIDE DEF b
<1>6. \A i \in Int : 0 <= i /\ i < argc =>
        b[i] = IF f <= i /\ i < g THEN a[i + low]
               ELSE IF g <= i /\ i < o THEN a[i - high] ELSE a[i]
  BY <1>4 DEF Indices
<1>7. b \in [Indices -> Strings]
  <2>1. ASSUME NEW i \in Indices
        PROVE  b[i] \in Strings
    <3>1. i \in Int /\ 0 <= i /\ i < argc
      BY DEF Indices
    <3>2. \A j \in Int : 0 <= j /\ j < argc => a[j] \in Strings
      BY <1>1 DEF Indices
    <3>. QED
      BY <1>1, <1>2, <1>3, <1>6, <3>1, <3>2
  <2>. QED
    BY <1>5, <2>1
<1>8. b[0] = given[0] /\ \A i \in o..argc-1 : b[i] = given[i]
  <2>1. b[0] = a[0]
    BY <1>1, <1>2, <1>3, <1>6
  <2>2. ASSUME NEW i \in o..argc-1
        PROVE  b[i] = a[i]
    BY <1>1, <1>2, <1>3, <1>6
  <2>. QED
    BY <2>1, <2>2 DEF Tidy
<1>9. ASSUME NEW i \in 1..g-1
      PROVE  r.opts[i] = b[i]
  <2>1. CASE i < f
    <3>1. b[i] = a[i]
      BY <1>1, <1>3, <1>6, <2>1
    <3>. QED
      BY <1>1, <2>1, <3>1 DEF Tidy
  <2>2. CASE f <= i
    <3>1. b[i] = a[i + low]
      BY <1>1, <1>3, <1>6, <2>2
    <3>2. i + low \in l..o-1 /\ i + low - l + f = i
      BY <1>1, <1>3, <2>2
    <3>3. r.opts[i + low - l + f] = a[i + low]
      BY <3>2 DEF Tidy
    <3>. QED
      BY <3>1, <3>2, <3>3
  <2>. QED
    BY <1>1, <2>1, <2>2
<1>10. ASSUME NEW i \in g..o-1
       PROVE  r.rest[i - g + 1] = b[i]
  <2>1. b[i] = a[i - high]
    BY <1>1, <1>2, <1>3, <1>6
  <2>2. i - high \in f..l-1 /\ (i - high) - f + 1 = i - g + 1
    BY <1>1, <1>2, <1>3
  <2>3. r.rest[(i - high) - f + 1] = a[i - high]
    BY <2>2 DEF Tidy
  <2>. QED
    BY <2>1, <2>2, <2>3
<1>11. Len(r.opts) = g - 1 /\ Len(r.rest) = o - g
  BY <1>1, <1>2, <1>3 DEF Tidy
<1>12. Tidy(b, g, o, o, r)
  BY <1>1, <1>2, <1>3, <1>7, <1>8, <1>9, <1>10, <1>11 DEF Tidy
<1>. QED
  BY <1>3, <1>12 DEF b

LEMMA Exchanged ==
  ASSUME argc \in Nat, NEW p, p.first \in Nat, p.last \in Nat, p.optind \in Nat,
         p.first <= p.last, p.last <= p.optind, p.optind <= argc
  PROVE  exchange(p) = [argv   |-> Turned(p.argv, p.first, p.last, p.optind),
                        optind |-> p.optind,
                        first  |-> p.first + p.optind - p.last,
                        last   |-> p.optind]
<1>. DEFINE id == [i \in Indices |-> i]
            s == [bottom |-> p.first, middle |-> p.last, top |-> p.optind, from |-> id]
<1>1. s \in Rounds /\ Ordered(s)
  BY DEF Rounds, Moves, Ordered
<1>2. From(p) = Turned(id, p.first, p.last, p.optind)
  BY <1>1, MovedTurns DEF From, Turn
<1>3. ASSUME NEW i \in Indices
      PROVE  p.argv[From(p)[i]] = Turned(p.argv, p.first, p.last, p.optind)[i]
  <2>. DEFINE low == p.last - p.first  high == p.optind - p.last
  <2>1. From(p)[i] = IF p.first <= i /\ i < p.first + high THEN id[i + low]
                     ELSE IF p.first + high <= i /\ i < p.optind THEN id[i - high] ELSE id[i]
    BY <1>2, Zenon DEF Turned
  <2>2. Turned(p.argv, p.first, p.last, p.optind)[i] =
          IF p.first <= i /\ i < p.first + high THEN p.argv[i + low]
          ELSE IF p.first + high <= i /\ i < p.optind THEN p.argv[i - high] ELSE p.argv[i]
    BY Zenon DEF Turned
  <2>3. /\ p.first <= i /\ i < p.first + high => i + low \in Indices
        /\ p.first + high <= i /\ i < p.optind => i - high \in Indices
    BY DEF Indices
  <2>4. \A j \in Indices : id[j] = j
    OBVIOUS
  <2>. HIDE DEF id, low, high
  <2>. QED
    BY <2>1, <2>2, <2>3, <2>4
<1>4. [i \in Indices |-> p.argv[From(p)[i]]] = Turned(p.argv, p.first, p.last, p.optind)
  BY <1>3, Zenon DEF Turned
<1>. QED
  BY <1>4, Zenon DEF exchange
-----------------------------------------------------------------------------
(* A scan goes on *)

\* What words 1..n of the vector say.
Known(n) == Reading(given, ordering)[n]

Vector0 == argc \in Nat \ {0} /\ given \in [Indices -> Strings]

LEMMA KnownDefined ==
  ASSUME Vector0
  PROVE  /\ Known(0) = Unread
         /\ \A n \in 1..argc-1 : Known(n) = ReadOn(Known(n-1), given[n], ordering)
         /\ \A n \in 0..argc-1 : Known(n) \in Readings
<1>1. argc \in Nat \ {0} /\ given \in [0..argc-1 -> Strings]
  BY DEF Vector0, Indices
<1>. QED
  BY <1>1, ReadingDefined DEF Known

LEMMA KnownTypes ==
  ASSUME Vector0, NEW n \in 0..argc-1
  PROVE  /\ Known(n) \in Readings
         /\ Known(n).found \in Found /\ Known(n).waits \in Names /\ Known(n).open \in BOOLEAN
         /\ Known(n).opts \in Seq(Strings) /\ Known(n).rest \in Seq(Strings)
<1>1. Known(n) \in Readings
  BY KnownDefined
<1>. QED
  BY <1>1 DEF Readings

LEMMA KnownGrows ==
  ASSUME Vector0, NEW j \in 0..argc-1, NEW k \in j..argc-1
  PROVE  Grows(Known(j), Known(k))
<1>. argc \in Nat \ {0} /\ given \in [0..argc-1 -> Strings]
  BY DEF Vector0, Indices
<1>. DEFINE T == {d \in Nat : j + d <= argc-1 => Grows(Known(j), Known(j+d))}
<1>1. \A i \in 0..argc-1 : Known(i) \in Readings
  BY KnownDefined
<1>2. \A i \in 0..argc-1 : /\ Known(i).found \in Found
                           /\ Known(i).opts \in Seq(Strings)
                           /\ Known(i).rest \in Seq(Strings)
  BY <1>1 DEF Readings
<1>3. 0 \in T
  BY <1>2, BeginsSame DEF Grows, Found
<1>4. ASSUME NEW d \in Nat, d \in T
      PROVE  d + 1 \in T
  <2>1. SUFFICES ASSUME j + d + 1 <= argc-1
                 PROVE  Grows(Known(j), Known(j+d+1))
    OBVIOUS
  <2>2. /\ j + d \in 0..argc-1 /\ j + d + 1 \in 0..argc-1 /\ j + d + 1 \in 1..argc-1
        /\ given[j+d+1] \in Strings /\ j + d + 1 - 1 = j + d
    BY <2>1
  <2>3. Grows(Known(j), Known(j+d))
    BY <1>4, <2>2
  <2>4. Grows(Known(j+d), Known(j+d+1))
    <3>1. Known(j+d+1) = ReadOn(Known(j+d), given[j+d+1], ordering)
      BY <2>2, KnownDefined
    <3>. QED
      BY <1>1, <2>2, <3>1, ReadOnGrows
  <2>5. \A i \in {j, j+d, j+d+1} : /\ Known(i).found \in Found
                                   /\ Known(i).opts \in Seq(Strings)
                                   /\ Known(i).rest \in Seq(Strings)
    BY <1>2, <2>2
  <2>6. Begins(Known(j).found, Known(j+d+1).found)
    BY <2>3, <2>4, <2>5, BeginsTransitive DEF Grows, Found
  <2>7. Begins(Known(j).opts, Known(j+d+1).opts)
    BY <2>3, <2>4, <2>5, BeginsTransitive DEF Grows
  <2>8. Begins(Known(j).rest, Known(j+d+1).rest)
    BY <2>3, <2>4, <2>5, BeginsTransitive DEF Grows
  <2>. QED
    BY <2>6, <2>7, <2>8 DEF Grows
<1>5. k - j \in T
  <2>1. Nat \subseteq T
    <3>. HIDE DEF T
    <3>. QED
      BY <1>3, <1>4, Induction
  <2>2. k - j \in Nat
    OBVIOUS
  <2>. HIDE DEF T
  <2>. QED
    BY <2>1, <2>2
<1>6. j + (k - j) = k
  OBVIOUS
<1>. QED
  BY <1>5, <1>6

\* Words that cannot be options are the rest, in their order.
LEMMA KnownPasses ==
  ASSUME Vector0, NEW j \in 0..argc-1, NEW k \in j..argc-1, Known(j).waits = None,
         \/ ~Known(j).open
         \/ ordering = "PERMUTE" /\ \A i \in j+1..k : Nonoption(given[i])
  PROVE  LET r == Known(j)
             q == Known(k)
         IN  /\ q.found = r.found /\ q.waits = None /\ q.open = r.open /\ q.opts = r.opts
             /\ Len(q.rest) = Len(r.rest) + k - j
             /\ \A i \in 1..Len(r.rest) : q.rest[i] = r.rest[i]
             /\ \A i \in 1..k-j : q.rest[Len(r.rest) + i] = given[j + i]
<1>. argc \in Nat \ {0} /\ given \in [0..argc-1 -> Strings]
  BY DEF Vector0, Indices
<1>. DEFINE Skips(d) ==
              /\ Known(j+d).found = Known(j).found /\ Known(j+d).waits = None
              /\ Known(j+d).open = Known(j).open /\ Known(j+d).opts = Known(j).opts
              /\ Len(Known(j+d).rest) = Len(Known(j).rest) + d
              /\ \A i \in 1..Len(Known(j).rest) : Known(j+d).rest[i] = Known(j).rest[i]
              /\ \A i \in 1..d : Known(j+d).rest[Len(Known(j).rest) + i] = given[j + i]
            T == {d \in Nat : j + d <= k => Skips(d)}
<1>1. /\ Known(j).waits = None
      /\ ~Known(j).open \/ (ordering = "PERMUTE" /\ \A i \in j+1..k : Nonoption(given[i]))
  OBVIOUS
<1>2. \A i \in 0..argc-1 : /\ Known(i) \in Readings /\ Known(i).open \in BOOLEAN
                           /\ Known(i).rest \in Seq(Strings) /\ Len(Known(i).rest) \in Nat
  <2>1. \A i \in 0..argc-1 : Known(i) \in Readings
    BY KnownDefined
  <2>. QED
    BY <2>1, LenProperties DEF Readings
<1>3. 0 \in T
  BY <1>1, <1>2
<1>4. ASSUME NEW d \in Nat, d \in T
      PROVE  d + 1 \in T
  <2>1. SUFFICES ASSUME j + d + 1 <= k
                 PROVE  Skips(d + 1)
    <3>. HIDE DEF Skips
    <3>. QED
      OBVIOUS
  <2>2. /\ j + d \in 0..argc-1 /\ j + d + 1 \in 0..argc-1 /\ j + d + 1 \in 1..argc-1 /\ j + d <= k
        /\ given[j+d+1] \in Strings /\ j + d + 1 - 1 = j + d /\ j + d + 1 \in j+1..k
        /\ j + (d + 1) = j + d + 1
    BY <2>1
  <2>3. Skips(d)
    BY <1>4, <2>2
  <2>4. Known(j+d+1) = ReadOn(Known(j+d), given[j+d+1], ordering)
    BY <2>2, KnownDefined
  <2>5. Known(j+d+1) = [Known(j+d) EXCEPT !.rest = Append(@, given[j+d+1]),
                                        !.open = @ /\ ordering = "PERMUTE"]
    BY <1>1, <2>2, <2>3, <2>4 DEF ReadOn
  <2>6. /\ Known(j+d+1).found = Known(j+d).found /\ Known(j+d+1).waits = Known(j+d).waits
        /\ Known(j+d+1).open = (Known(j+d).open /\ ordering = "PERMUTE")
        /\ Known(j+d+1).opts = Known(j+d).opts
        /\ Known(j+d+1).rest = Append(Known(j+d).rest, given[j+d+1])
    BY <1>2, <2>2, <2>5 DEF Readings
  <2>7. /\ Len(Known(j+d+1).rest) = Len(Known(j+d).rest) + 1
        /\ \A i \in 1..Len(Known(j+d).rest) : Known(j+d+1).rest[i] = Known(j+d).rest[i]
        /\ Known(j+d+1).rest[Len(Known(j+d).rest) + 1] = given[j+d+1]
    BY <1>2, <2>2, <2>6, AppendProperties
  <2>8. Known(j+d+1).open = Known(j).open
    <3>1. Known(j+d+1).open = (Known(j).open /\ ordering = "PERMUTE")
      BY <2>3, <2>6
    <3>2. Known(j).open \in BOOLEAN
      BY <1>2
    <3>. QED
      BY <1>1, <3>1, <3>2
  <2>9. PICK m \in Nat : m = Len(Known(j).rest)
    BY <1>2
  <2>10. Len(Known(j+d).rest) = m + d
    BY <2>3, <2>9
  <2>11. ASSUME NEW i \in 1..d+1
         PROVE  Known(j+d+1).rest[m + i] = given[j + i]
    <3>1. CASE i = d + 1
      <4>1. m + i = m + d + 1 /\ j + i = j + d + 1
        BY <3>1
      <4>. QED
        BY <2>7, <2>10, <4>1
    <3>2. CASE i \in 1..d
      <4>1. m + i \in 1..m + d
        BY <3>2
      <4>2. Known(j+d).rest[m + i] = given[j + i]
        BY <2>3, <2>9, <3>2
      <4>. QED
        BY <2>7, <2>10, <4>1, <4>2
    <3>. QED
      BY <3>1, <3>2
  <2>12. ASSUME NEW i \in 1..m
         PROVE  Known(j+d+1).rest[i] = Known(j).rest[i]
    <3>1. i \in 1..m+d
      OBVIOUS
    <3>. QED
      BY <2>3, <2>7, <2>9, <2>10, <3>1
  <2>13. /\ Known(j+d+1).found = Known(j).found /\ Known(j+d+1).waits = None
         /\ Known(j+d+1).opts = Known(j).opts
         /\ Len(Known(j+d+1).rest) = m + (d + 1)
    <3>1. Len(Known(j+d+1).rest) = m + (d + 1)
      BY <2>7, <2>10
    <3>. QED
      BY <2>3, <2>6, <3>1
  <2>. QED
    BY <2>2, <2>8, <2>9, <2>11, <2>12, <2>13
<1>5. k - j \in T
  <2>1. Nat \subseteq T
    <3>. HIDE DEF T
    <3>. QED
      BY <1>3, <1>4, Induction
  <2>2. k - j \in Nat
    OBVIOUS
  <2>. HIDE DEF T
  <2>. QED
    BY <2>1, <2>2
<1>6. j + (k - j) = k
  OBVIOUS
<1>7. Skips(k - j)
  <2>1. k <= k
    OBVIOUS
  <2>. HIDE DEF Skips
  <2>. QED
    BY <1>5, <1>6, <2>1
<1>8. Len(Known(j).rest) + k - j = Len(Known(j).rest) + (k - j)
  BY <1>2
<1>9. PICK d \in Nat : d = k - j
  OBVIOUS
<1>10. Skips(d) /\ j + d = k /\ Len(Known(j).rest) + k - j = Len(Known(j).rest) + d
  BY <1>6, <1>7, <1>8, <1>9
<1>11. \A i \in 1..d : Known(k).rest[Len(Known(j).rest) + i] = given[j + i]
  BY <1>10
<1>. QED
  BY <1>9, <1>10, <1>11

\* One word that is an option, or the argument of one, is read.
LEMMA TidyStep ==
  ASSUME argc \in Nat, NEW a, NEW f, NEW l, NEW o, NEW r, NEW q, Tidy(a, f, l, o, r),
         o < argc, r.opts \in Seq(Strings), given[o] \in Strings,
         q.opts = Append(r.opts, given[o]), q.rest = r.rest
  PROVE  Tidy(a, f, l, o + 1, q)
<1>1. /\ f \in Nat /\ l \in Nat /\ o \in Nat /\ 1 <= f /\ f <= l /\ l <= o /\ o <= argc
      /\ Len(r.opts) = f - 1 + o - l
  BY DEF Tidy
<1>2. /\ Len(q.opts) = Len(r.opts) + 1
      /\ \A i \in 1..Len(r.opts) : q.opts[i] = r.opts[i]
      /\ q.opts[Len(r.opts) + 1] = given[o]
  BY AppendProperties
<1>3. \A i \in 1..f-1 : q.opts[i] = a[i]
  <2>1. ASSUME NEW i \in 1..f-1 PROVE q.opts[i] = a[i]
    <3>1. i \in 1..Len(r.opts)
      BY <1>1
    <3>. QED
      BY <1>2, <3>1 DEF Tidy
  <2>. QED
    BY <2>1
<1>4. ASSUME NEW i \in l..(o+1)-1
      PROVE  q.opts[i - l + f] = a[i]
  <2>1. CASE i = o
    <3>1. i - l + f = Len(r.opts) + 1 /\ a[i] = given[o]
      BY <1>1, <2>1 DEF Tidy
    <3>. QED
      BY <1>2, <3>1
  <2>2. CASE i \in l..o-1
    <3>1. i - l + f \in 1..Len(r.opts)
      BY <1>1, <2>2
    <3>2. r.opts[i - l + f] = a[i]
      BY <2>2 DEF Tidy
    <3>. QED
      BY <1>2, <3>1, <3>2
  <2>3. i = o \/ i \in l..o-1
    BY <1>1
  <2>. QED
    BY <2>1, <2>2, <2>3
<1>5. Len(q.opts) = f - 1 + (o + 1) - l
  BY <1>1, <1>2
<1>6. \A i \in o+1..argc-1 : a[i] = given[i]
  BY <1>1 DEF Tidy
<1>7. /\ a \in [Indices -> Strings] /\ a[0] = given[0] /\ Len(q.rest) = l - f
      /\ \A i \in f..l-1 : q.rest[i - f + 1] = a[i]
  BY DEF Tidy
<1>8. o + 1 \in Nat /\ l <= o + 1 /\ o + 1 <= argc
  BY <1>1
<1>. QED
  BY <1>1, <1>3, <1>4, <1>5, <1>6, <1>7, <1>8 DEF Tidy

\* Non-options are skipped behind those skipped before.
LEMMA TidySkip ==
  ASSUME argc \in Nat, NEW a, NEW f, NEW o, NEW n \in Nat, NEW r, NEW q, Tidy(a, f, o, o, r),
         o <= n, n <= argc, q.opts = r.opts, Len(q.rest) = Len(r.rest) + (n - o),
         \A i \in 1..Len(r.rest) : q.rest[i] = r.rest[i],
         \A i \in 1..n-o : q.rest[Len(r.rest) + i] = given[o - 1 + i]
  PROVE  Tidy(a, f, n, n, q)
<1>1. /\ f \in Nat /\ o \in Nat /\ 1 <= f /\ f <= o /\ o <= argc
      /\ Len(r.opts) = f - 1 /\ Len(r.rest) = o - f
  BY DEF Tidy
<1>2. ASSUME NEW i \in f..n-1
      PROVE  q.rest[i - f + 1] = a[i]
  <2>1. CASE i < o
    <3>1. i - f + 1 \in 1..Len(r.rest) /\ i \in f..o-1
      BY <1>1, <2>1
    <3>2. r.rest[i - f + 1] = a[i]
      BY <3>1 DEF Tidy
    <3>. QED
      BY <3>1, <3>2
  <2>2. CASE o <= i
    <3>1. PICK j \in 1..n-o : j = i - o + 1
      BY <1>1, <2>2
    <3>2. Len(r.rest) + j = i - f + 1 /\ o - 1 + j = i
      BY <1>1, <3>1
    <3>3. q.rest[Len(r.rest) + j] = given[o - 1 + j]
      OBVIOUS
    <3>4. a[i] = given[i]
      BY <1>1, <2>2 DEF Tidy
    <3>. QED
      BY <3>2, <3>3, <3>4
  <2>. QED
    BY <1>1, <2>1, <2>2
<1>3. Len(q.opts) = f - 1 + n - n /\ Len(q.rest) = n - f
  BY <1>1
<1>4. \A i \in 1..f-1 : q.opts[i] = a[i]
  BY DEF Tidy
<1>5. \A i \in n..argc-1 : a[i] = given[i]
  BY <1>1 DEF Tidy
<1>6. a \in [Indices -> Strings] /\ a[0] = given[0]
  BY DEF Tidy
<1>. QED
  BY <1>1, <1>2, <1>3, <1>4, <1>5, <1>6 DEF Tidy

\* There is a first option, or the end of the vector.
LEMMA NextOptionFound ==
  ASSUME argc \in Nat, NEW a, NEW o \in Nat, o <= argc
  PROVE  /\ NextOption(a, o) \in o..argc
         /\ \A i \in o..NextOption(a, o)-1 : Nonoption(a[i])
         /\ NextOption(a, o) < argc => ~Nonoption(a[NextOption(a, o)])
<1>. DEFINE T == {k \in Nat : k \in o..argc /\ (k < argc => ~Nonoption(a[k]))}
<1>1. T \subseteq Nat /\ argc \in T
  OBVIOUS
<1>2. PICK n \in T : \A m \in T : n <= m
  <2>. HIDE DEF T
  <2>. QED
    BY <1>1, Least
<1>3. n \in o..argc /\ (n < argc => ~Nonoption(a[n]))
  OBVIOUS
<1>4. ASSUME NEW i \in o..n-1
      PROVE  Nonoption(a[i])
  <2>1. i \in Nat /\ i \in o..argc /\ i < argc /\ ~(n <= i)
    BY <1>3
  <2>. QED
    BY <1>2, <2>1
<1>5. \E k \in o..argc : /\ \A i \in o..k-1 : Nonoption(a[i])
                         /\ k < argc => ~Nonoption(a[k])
  BY <1>3, <1>4
<1>. QED
  BY <1>5, Zenon DEF NextOption
\* Words from o to n that cannot be options say nothing.
LEMMA KnownSkips ==
  ASSUME Vector0, NEW o \in 1..argc, NEW n \in o..argc, Known(o-1).waits = None,
         \/ ~Known(o-1).open
         \/ ordering = "PERMUTE" /\ \A i \in o..n-1 : Nonoption(given[i])
  PROVE  /\ Known(n-1).found = Known(o-1).found /\ Known(n-1).waits = None
         /\ Known(n-1).open = Known(o-1).open /\ Known(n-1).opts = Known(o-1).opts
         /\ Len(Known(n-1).rest) = Len(Known(o-1).rest) + (n - o)
         /\ \A i \in 1..Len(Known(o-1).rest) : Known(n-1).rest[i] = Known(o-1).rest[i]
         /\ \A i \in 1..n-o : Known(n-1).rest[Len(Known(o-1).rest) + i] = given[o - 1 + i]
<1>1. argc \in Nat \ {0} /\ given \in [0..argc-1 -> Strings]
  BY DEF Vector0, Indices
<1>2. PICK j \in 0..argc-1 : j = o - 1
  BY <1>1
<1>3. PICK k \in j..argc-1 : k = n - 1
  BY <1>1, <1>2
<1>4. k - j = n - o /\ j + 1 = o
  BY <1>1, <1>2, <1>3
<1>5. PICK r : r = Known(o-1)
  OBVIOUS
<1>6. PICK q : q = Known(n-1)
  OBVIOUS
<1>8. \/ ~Known(j).open
      \/ ordering = "PERMUTE" /\ \A i \in j+1..k : Nonoption(given[i])
  BY <1>2, <1>3, <1>4
<1>9. q \in Readings /\ r \in Readings
  BY <1>1, <1>5, <1>6, KnownDefined
<1>10. Len(r.rest) \in Nat
  BY <1>9, LenProperties DEF Readings
<1>11. /\ q.found = r.found /\ q.waits = None /\ q.open = r.open /\ q.opts = r.opts
       /\ Len(q.rest) = Len(r.rest) + k - j
       /\ \A i \in 1..Len(r.rest) : q.rest[i] = r.rest[i]
       /\ \A i \in 1..k-j : q.rest[Len(r.rest) + i] = given[j + i]
  BY <1>2, <1>3, <1>5, <1>6, <1>8, KnownPasses
<1>12. Len(r.rest) + k - j = Len(r.rest) + (n - o)
  BY <1>3, <1>4, <1>10
<1>13. /\ Len(q.rest) = Len(r.rest) + (n - o)
       /\ \A i \in 1..n-o : q.rest[Len(r.rest) + i] = given[o - 1 + i]
  BY <1>2, <1>4, <1>11, <1>12
<1>. QED
  BY <1>5, <1>6, <1>11, <1>13

Positions == [argv : [Indices -> Strings], optind : Nat, first : Nat, last : Nat]

\* A position of a scan that has put the words before it in order.
At(p) == p \in Positions /\ Tidy(p.argv, p.first, p.last, p.optind, Known(p.optind - 1))

\* The options skipped are put in front of the non-options.
LEMMA Gathered ==
  ASSUME argc \in Nat, NEW p \in Positions, NEW r, Tidy(p.argv, p.first, p.last, p.optind, r)
  PROVE  /\ exchange(p) \in Positions
         /\ exchange(p).optind = p.optind
         /\ exchange(p).last = p.optind
         /\ Tidy(exchange(p).argv, exchange(p).first, p.optind, p.optind, r)
<1>1. /\ p.first \in Nat /\ p.last \in Nat /\ p.optind \in Nat /\ p.optind <= argc
      /\ p.first <= p.last /\ p.last <= p.optind
  BY DEF Tidy
<1>2. exchange(p) = [argv   |-> Turned(p.argv, p.first, p.last, p.optind),
                     optind |-> p.optind,
                     first  |-> p.first + p.optind - p.last,
                     last   |-> p.optind]
  BY <1>1, Exchanged
<1>3. Tidy(Turned(p.argv, p.first, p.last, p.optind), p.first + p.optind - p.last,
           p.optind, p.optind, r)
  BY TurnedTidy
<1>4. /\ Turned(p.argv, p.first, p.last, p.optind) \in [Indices -> Strings]
      /\ p.first + p.optind - p.last \in Nat
  BY <1>3 DEF Tidy
<1>. QED
  BY <1>1, <1>2, <1>3, <1>4 DEF Positions

\* What a position tells, besides the words it has put in order.
Tells(p, q) ==
  /\ Known(q.optind - 1).found = Known(p.optind - 1).found
  /\ Known(q.optind - 1).waits = Known(p.optind - 1).waits
  /\ p.optind <= q.optind

LEMMA SkipNonoptionsTidy ==
  ASSUME Vector0, NEW p, At(p), ordering = "PERMUTE",
         p.optind < argc => Known(p.optind - 1).waits = None /\ Known(p.optind - 1).open
  PROVE  LET s == SkipNonoptions(p)
         IN  /\ At(s) /\ Tells(p, s) /\ s.last = s.optind
             /\ s.optind < argc => Known(s.optind - 1).open /\ ~Nonoption(s.argv[s.optind])
<1>. DEFINE q == IF p.last = p.optind THEN p
                 ELSE IF p.first # p.last THEN exchange(p)
                 ELSE [p EXCEPT !.first = p.optind]
            n == NextOption(q.argv, q.optind)
            s == SkipNonoptions(p)
<1>1. PICK o \in 1..argc : o = p.optind
  BY DEF At, Tidy, Vector0
<1>2. PICK r \in Readings : r = Known(o - 1)
  BY <1>1, KnownTypes DEF Vector0
<1>3. p \in Positions /\ argc \in Nat /\ Tidy(p.argv, p.first, p.last, p.optind, r)
  BY <1>1, <1>2 DEF At, Vector0
<1>4. q \in Positions /\ q.optind = o /\ Tidy(q.argv, q.first, o, o, r)
  <2>1. CASE p.last = p.optind
    BY <1>1, <1>3, <2>1
  <2>2. CASE p.last # p.optind /\ p.first # p.last
    BY <1>1, <1>3, <2>2, Gathered
  <2>3. CASE p.last # p.optind /\ p.first = p.last
    <3>1. Tidy(p.argv, o, o, o, r)
      BY <1>1, <1>3, <2>3, TidyForward
    <3>2. [p EXCEPT !.first = p.optind] \in Positions
      BY <1>3 DEF Positions
    <3>3. /\ [p EXCEPT !.first = p.optind].argv = p.argv
          /\ [p EXCEPT !.first = p.optind].first = p.optind
          /\ [p EXCEPT !.first = p.optind].optind = p.optind
      BY <1>3 DEF Positions
    <3>. QED
      BY <1>1, <2>3, <3>1, <3>2, <3>3
  <2>. QED
    BY <2>1, <2>2, <2>3
<1>5. s = [q EXCEPT !.optind = n, !.last = n]
  BY Zenon DEF SkipNonoptions
<1>. HIDE DEF q
<1>6. o \in Nat /\ argc \in Nat /\ o <= argc
  BY <1>1, <1>3
<1>7. /\ n \in o..argc
      /\ \A i \in o..n-1 : Nonoption(q.argv[i])
      /\ n < argc => ~Nonoption(q.argv[n])
  BY <1>3, <1>4, <1>6, NextOptionFound
<1>. HIDE DEF n
<1>8. s \in Positions /\ s.argv = q.argv /\ s.first = q.first /\ s.last = n /\ s.optind = n
  <2>1. n \in Nat
    BY <1>6, <1>7
  <2>. QED
    BY <1>4, <1>5, <2>1 DEF Positions
<1>. HIDE DEF s
<1>9. CASE n = o
  <2>1. /\ Known(n - 1) = r /\ Tidy(q.argv, q.first, n, n, r)
        /\ (o < argc => r.open)
    BY <1>1, <1>2, <1>4, <1>9
  <2>2. At(s)
    BY <1>8, <2>1 DEF At
  <2>3. Tells(p, s)
    BY <1>1, <1>2, <1>8, <1>9, <2>1 DEF Tells
  <2>. QED
    BY <1>7, <1>8, <1>9, <2>1, <2>2, <2>3 DEF s
<1>10. CASE n # o
  <2>1. Known(o - 1).waits = None /\ Known(o - 1).open /\ o < argc
    BY <1>1, <1>3, <1>7, <1>10
  <2>2. ASSUME NEW i \in o..n-1
        PROVE  Nonoption(given[i])
    <3>1. i \in o..argc-1
      BY <1>6, <1>7
    <3>2. q.argv[i] = given[i]
      BY <1>4, <3>1 DEF Tidy
    <3>. QED
      BY <1>7, <3>2
  <2>3. PICK k \in Readings : k = Known(n - 1)
    BY <1>6, <1>7, KnownTypes DEF Vector0
  <2>4. /\ k.found = r.found /\ k.waits = None
        /\ k.open = r.open /\ k.opts = r.opts
        /\ Len(k.rest) = Len(r.rest) + (n - o)
        /\ \A i \in 1..Len(r.rest) : k.rest[i] = r.rest[i]
        /\ \A i \in 1..n-o : k.rest[Len(r.rest) + i] = given[o - 1 + i]
    BY <1>2, <1>7, <2>1, <2>2, <2>3, KnownSkips
  <2>5. n \in Nat /\ o <= n /\ n <= argc
    BY <1>6, <1>7
  <2>6. Tidy(q.argv, q.first, n, n, k)
    BY <1>3, <1>4, <2>4, <2>5, TidySkip
  <2>7. At(s)
    BY <1>8, <2>3, <2>6 DEF At
  <2>8. Tells(p, s)
    BY <1>1, <1>2, <1>8, <2>1, <2>3, <2>4, <2>5 DEF Tells
  <2>. QED
    BY <1>2, <1>7, <1>8, <2>1, <2>3, <2>4, <2>7, <2>8 DEF s
<1>. QED
  BY <1>9, <1>10
\* The word `--' is read.
LEMMA KnownDashes ==
  ASSUME Vector0, NEW o \in 1..argc-1, Known(o-1).waits = None, Known(o-1).open,
         given[o] = Dashes
  PROVE  /\ Known(o).found = Known(o-1).found /\ Known(o).waits = None /\ ~Known(o).open
         /\ Known(o).opts = Append(Known(o-1).opts, given[o]) /\ Known(o).rest = Known(o-1).rest
<1>1. argc \in Nat \ {0}
  BY DEF Vector0
<1>2. PICK r \in Readings : r = Known(o-1)
  BY <1>1, KnownTypes
<1>3. Known(o) = ReadOn(r, given[o], ordering)
  BY <1>1, <1>2, KnownDefined
<1>4. ~Nonoption(given[o])
  BY DEF Nonoption, Dashes
<1>5. Known(o) = [r EXCEPT !.opts = Append(@, given[o]), !.open = FALSE]
  BY <1>2, <1>3, <1>4 DEF ReadOn
<1>. QED
  BY <1>2, <1>5 DEF Readings

\* An option word is read.
LEMMA KnownOption ==
  ASSUME Vector0, NEW o \in 1..argc-1, Known(o-1).waits = None, Known(o-1).open,
         ~Nonoption(given[o]), given[o] # Dashes
  PROVE  /\ Known(o).found = Known(o-1).found \o Options(given[o]).found
         /\ Known(o).waits = Options(given[o]).waits /\ Known(o).open
         /\ Known(o).opts = Append(Known(o-1).opts, given[o]) /\ Known(o).rest = Known(o-1).rest
<1>1. argc \in Nat \ {0}
  BY DEF Vector0
<1>2. PICK r \in Readings : r = Known(o-1)
  BY <1>1, KnownTypes
<1>3. Known(o) = ReadOn(r, given[o], ordering)
  BY <1>1, <1>2, KnownDefined
<1>4. Known(o) = [r EXCEPT !.found = @ \o Options(given[o]).found,
                           !.waits = Options(given[o]).waits, !.opts = Append(@, given[o])]
  BY <1>2, <1>3 DEF ReadOn
<1>. QED
  BY <1>2, <1>4 DEF Readings

\* The argument of the option before is read.
LEMMA KnownArgument ==
  ASSUME Vector0, NEW o \in 1..argc-1, Known(o-1).waits # None
  PROVE  /\ Known(o).found = Append(Known(o-1).found, <<Known(o-1).waits, given[o]>>)
         /\ Known(o).waits = None /\ Known(o).open = Known(o-1).open
         /\ Known(o).opts = Append(Known(o-1).opts, given[o]) /\ Known(o).rest = Known(o-1).rest
<1>1. argc \in Nat \ {0}
  BY DEF Vector0
<1>2. PICK r \in Readings : r = Known(o-1)
  BY <1>1, KnownTypes
<1>3. Known(o) = ReadOn(r, given[o], ordering)
  BY <1>1, <1>2, KnownDefined
<1>4. Known(o) = [r EXCEPT !.found = Append(@, <<r.waits, given[o]>>), !.waits = None,
                           !.opts = Append(@, given[o])]
  BY <1>2, <1>3 DEF ReadOn
<1>. QED
  BY <1>2, <1>4 DEF Readings

\* REQUIRE_ORDER: the first non-option is read.
LEMMA KnownStops ==
  ASSUME Vector0, NEW o \in 1..argc-1, Known(o-1).waits = None, Nonoption(given[o]),
         ordering # "PERMUTE"
  PROVE  /\ Known(o).found = Known(o-1).found /\ Known(o).waits = None /\ ~Known(o).open
         /\ Known(o).opts = Known(o-1).opts /\ Known(o).rest = Append(Known(o-1).rest, given[o])
<1>1. argc \in Nat \ {0}
  BY DEF Vector0
<1>2. PICK r \in Readings : r = Known(o-1)
  BY <1>1, KnownTypes
<1>3. Known(o) = ReadOn(r, given[o], ordering)
  BY <1>1, <1>2, KnownDefined
<1>4. Known(o) = [r EXCEPT !.rest = Append(@, given[o]), !.open = @ /\ ordering = "PERMUTE"]
  BY <1>2, <1>3 DEF ReadOn
<1>. QED
  BY <1>2, <1>4 DEF Readings

\* Behind the word `--' the scan is over, and the other words are in order.
LEMMA SkipDashesTidy ==
  ASSUME Vector0, NEW p, At(p),
         p.optind < argc => Known(p.optind - 1).waits = None /\ Known(p.optind - 1).open
  PROVE  LET s == SkipDashes(p)
         IN  /\ At(s) /\ Tells(p, s)
             /\ s.optind < argc => s = p /\ s.argv[s.optind] # Dashes
             /\ s = p \/ s.last = s.optind
<1>. DEFINE s == SkipDashes(p)
<1>1. PICK o \in 1..argc : o = p.optind
  BY DEF At, Tidy, Vector0
<1>2. /\ p \in Positions /\ argc \in Nat /\ o \in Nat /\ o <= argc
      /\ Tidy(p.argv, p.first, p.last, o, Known(o - 1))
  BY <1>1 DEF At, Vector0
<1>3. CASE p.optind = argc \/ p.argv[p.optind] # Dashes
  <2>1. s = p
    BY <1>3 DEF SkipDashes
  <2>. QED
    BY <1>1, <1>2, <1>3, <2>1 DEF Tells
<1>4. CASE ~(p.optind = argc \/ p.argv[p.optind] # Dashes)
  <2>. DEFINE q == [p EXCEPT !.optind = @ + 1]
              r == IF q.first = q.last THEN [q EXCEPT !.first = q.optind]
                   ELSE IF q.last # q.optind THEN exchange(q)
                   ELSE q
  <2>1. s = [r EXCEPT !.last = argc, !.optind = argc]
    BY <1>4, Zenon DEF SkipDashes
  <2>2. o < argc /\ o \in 1..argc-1 /\ o + 1 <= argc
    BY <1>1, <1>2, <1>4
  <2>3. given[o] = Dashes /\ given[o] \in Strings
    <3>1. o \in o..argc-1 /\ o \in Indices
      BY <2>2 DEF Indices
    <3>. QED
      BY <1>1, <1>2, <1>4, <3>1 DEF Tidy, Vector0
  <2>4. Known(o-1).waits = None /\ Known(o-1).open
    BY <1>1, <2>2
  <2>5. /\ Known(o).found = Known(o-1).found /\ Known(o).waits = None /\ ~Known(o).open
        /\ Known(o).opts = Append(Known(o-1).opts, given[o]) /\ Known(o).rest = Known(o-1).rest
    BY <2>2, <2>3, <2>4, KnownDashes
  <2>6. Known(o-1).opts \in Seq(Strings)
    BY <1>2, <2>2, KnownTypes
  <2>7. /\ q \in Positions /\ q.argv = p.argv /\ q.first = p.first /\ q.last = p.last
        /\ q.optind = o + 1
    BY <1>1, <1>2 DEF Positions
  <2>8. Tidy(q.argv, q.first, q.last, o + 1, Known(o))
    BY <1>2, <2>2, <2>3, <2>5, <2>6, <2>7, TidyStep
  <2>. HIDE DEF q
  <2>9. r \in Positions /\ Tidy(r.argv, r.first, o + 1, o + 1, Known(o))
    <3>1. CASE q.first = q.last
      <4>1. Tidy(q.argv, o + 1, o + 1, o + 1, Known(o))
        BY <1>2, <2>8, <3>1, TidyForward
      <4>2. /\ [q EXCEPT !.first = q.optind] \in Positions
            /\ [q EXCEPT !.first = q.optind].argv = q.argv
            /\ [q EXCEPT !.first = q.optind].first = o + 1
        BY <2>7 DEF Positions
      <4>. QED
        BY <3>1, <4>1, <4>2
    <3>2. CASE q.first # q.last
      <4>1. q.last # q.optind
        BY <1>2, <2>7 DEF Tidy
      <4>. QED
        BY <1>2, <2>7, <2>8, <3>2, <4>1, Gathered
    <3>. QED
      BY <3>1, <3>2
  <2>. HIDE DEF r
  <2>10. s \in Positions /\ s.argv = r.argv /\ s.first = r.first /\ s.last = argc /\ s.optind = argc
    BY <1>2, <2>1, <2>9 DEF Positions
  <2>. HIDE DEF s
  <2>11. PICK m \in 1..argc : m = o + 1
    BY <1>2, <2>2
  <2>12. m - 1 = o /\ argc \in m..argc /\ m <= argc /\ argc <= argc
    BY <1>2, <2>11
  <2>13. /\ Known(argc-1).found = Known(m-1).found /\ Known(argc-1).waits = None
         /\ Known(argc-1).opts = Known(m-1).opts
         /\ Len(Known(argc-1).rest) = Len(Known(m-1).rest) + (argc - m)
         /\ \A i \in 1..Len(Known(m-1).rest) : Known(argc-1).rest[i] = Known(m-1).rest[i]
         /\ \A i \in 1..argc-m : Known(argc-1).rest[Len(Known(m-1).rest) + i] = given[m - 1 + i]
    BY <2>5, <2>12, KnownSkips
  <2>14. Tidy(r.argv, r.first, m, m, Known(m-1))
    BY <2>9, <2>11, <2>12
  <2>15. Tidy(r.argv, r.first, argc, argc, Known(argc-1))
    BY <1>2, <2>12, <2>13, <2>14, TidySkip
  <2>16. At(s)
    BY <2>10, <2>15 DEF At
  <2>17. Tells(p, s)
    BY <1>1, <1>2, <2>4, <2>5, <2>10, <2>12, <2>13 DEF Tells
  <2>18. ~(s.optind < argc)
    BY <1>2, <2>10
  <2>. QED
    BY <2>10, <2>16, <2>17, <2>18 DEF s
<1>. QED
  BY <1>3, <1>4
-----------------------------------------------------------------------------
(* The invariant of a scan *)

\* What the calls have returned when r has been read and no word is left.
Told(r) == IF r.waits = None THEN r.found ELSE Append(r.found, <<Unknown, <<>> >>)

\* The last call has come to the end of a word.
Between ==
  /\ nextchar = <<>>
  /\ optind < argc => Known(optind - 1).waits = None /\ Known(optind - 1).open
  /\ seen = Told(Known(optind - 1))

\* The word o is read from its k-th character on, and the ones in front of it
\* have no arguments.
Reads(r, o, k) ==
  /\ o \in 1..argc-1
  /\ r.waits = None /\ r.open
  /\ ~Nonoption(given[o]) /\ given[o] # Dashes
  /\ k \in 2..Len(given[o])
  /\ \A i \in 2..k-1 : given[o][i] \notin ArgFlags
  /\ seen = r.found \o PlainOptions(given[o], k)

\* The last call has left characters of an option word.
Inside ==
  \E k \in 3..Len(given[optind]) :
    /\ Reads(Known(optind - 1), optind, k)
    /\ nextchar = SubSeq(given[optind], k, Len(given[optind]))

\* The words a, the non-options of which begin at e, are those of the vector.
Sorted(a, e) ==
  LET r == Known(argc - 1)
  IN  /\ a \in [Indices -> Strings]
      /\ a[0] = given[0]
      /\ e = 1 + Len(r.opts)
      /\ Len(r.opts) + Len(r.rest) = argc - 1
      /\ \A i \in 1..e-1 : r.opts[i] = a[i]
      /\ \A i \in e..argc-1 : r.rest[i - e + 1] = a[i]

Settled ==
  /\ nextchar = <<>>
  /\ seen = Told(Known(argc - 1))
  /\ Sorted(argv, optind)
  /\ first_nonopt \in 1..last_nonopt /\ last_nonopt \in 1..argc

InScan ==
  /\ At(Position)
  /\ ordering = "REQUIRE_ORDER" => first_nonopt = last_nonopt
  /\ Between \/ Inside

ScanInv ==
  /\ Vector0
  /\ ordering \in {"PERMUTE", "REQUIRE_ORDER"}
  /\ opt \in {None, End, Unknown} \cup Flags \cup ArgFlags
  /\ IF opt = End THEN Settled ELSE InScan
LEMMA TailOfOption ==
  ASSUME NEW w \in Strings, Len(w) >= 2
  PROVE  /\ Tail(w) = SubSeq(w, 2, Len(w))
         /\ PlainOptions(w, 2) = <<>>
<1>1. Len(w) \in Nat /\ w # <<>>
  BY LenProperties DEF Strings
<1>2. PlainOptions(w, 2) \in Found /\ Len(PlainOptions(w, 2)) = 0
  BY <1>1, PlainTypes
<1>. QED
  BY <1>1, <1>2, TailIsSubSeq, EmptySeq DEF Strings, Found

\* The next character and the ones behind it.
LEMMA HeadOfChars ==
  ASSUME NEW w \in Strings, NEW k \in 2..Len(w)
  PROVE  /\ Head(SubSeq(w, k, Len(w))) = w[k]
         /\ Tail(SubSeq(w, k, Len(w))) = SubSeq(w, k + 1, Len(w))
         /\ SubSeq(w, k, Len(w)) # <<>>
         /\ w[k] \in STRING
         /\ SubSeq(w, k + 1, Len(w)) = <<>> <=> k = Len(w)
<1>1. Len(w) \in Nat /\ k \in 1..Len(w) /\ Len(w) \in k..Len(w) /\ w \in Seq(STRING)
  BY LenProperties DEF Strings
<1>2. \A i \in 1..Len(w) : w[i] \in STRING
  BY <1>1, ElementOfSeq
<1>3. /\ Head(SubSeq(w, k, Len(w))) = w[k]
      /\ Tail(SubSeq(w, k, Len(w))) = SubSeq(w, k + 1, Len(w))
  BY <1>1, HeadTailOfSubSeq
<1>4. Len(SubSeq(w, k, Len(w))) \in Nat \ {0} /\ SubSeq(w, k, Len(w)) \in Seq(STRING)
  <2>1. \A i \in k..Len(w) : w[i] \in STRING
    BY <1>1, <1>2
  <2>2. /\ Len(SubSeq(w, k, Len(w))) = IF k <= Len(w) THEN Len(w)-k+1 ELSE 0
        /\ SubSeq(w, k, Len(w)) \in Seq(STRING)
    BY <1>1, <2>1, SubSeqProperties
  <2>. QED
    BY <1>1, <2>2
<1>5. Len(SubSeq(w, k + 1, Len(w))) = Len(w) - k /\ SubSeq(w, k + 1, Len(w)) \in Seq(STRING)
  <2>1. \A i \in k+1..Len(w) : w[i] \in STRING
    BY <1>1, <1>2
  <2>2. /\ Len(SubSeq(w, k + 1, Len(w))) = IF k + 1 <= Len(w) THEN Len(w)-(k+1)+1 ELSE 0
        /\ SubSeq(w, k + 1, Len(w)) \in Seq(STRING)
    BY <1>1, <2>1, SubSeqProperties
  <2>. QED
    BY <1>1, <2>2
<1>6. SubSeq(w, k + 1, Len(w)) = <<>> <=> Len(SubSeq(w, k + 1, Len(w))) = 0
  BY <1>5, EmptySeq
<1>7. SubSeq(w, k, Len(w)) # <<>>
  BY <1>4, EmptySeq
<1>. QED
  BY <1>1, <1>2, <1>3, <1>5, <1>6, <1>7

\* A position of a first scan is rational.
LEMMA RationalSame ==
  ASSUME NEW p \in Positions, p.first <= p.optind, p.last <= p.optind
  PROVE  Rational(p) = p
<1>1. /\ p.first \in Nat /\ p.last \in Nat /\ p.optind \in Nat
      /\ p = [argv |-> p.argv, optind |-> p.optind, first |-> p.first, last |-> p.last]
  BY DEF Positions
<1>2. /\ (IF p.last > p.optind THEN p.optind ELSE p.last) = p.last
      /\ (IF p.first > p.optind THEN p.optind ELSE p.first) = p.first
  BY <1>1
<1>3. Rational(p) = [p EXCEPT !.last = p.last, !.first = p.first]
  BY <1>2, Zenon DEF Rational
<1>. QED
  BY <1>1, <1>3

\* Between two words: the next word that is looked at.
LEMMA Resuming ==
  ASSUME Vector0, ordering \in {"PERMUTE", "REQUIRE_ORDER"}, At(Position),
         ordering = "REQUIRE_ORDER" => first_nonopt = last_nonopt, Between
  PROVE  LET p == Resumed
         IN  /\ At(p)
             /\ seen = Told(Known(p.optind - 1))
             /\ p.first = p.last \/ p.last = p.optind
             /\ p.optind < argc =>
                  /\ Known(p.optind - 1).waits = None /\ Known(p.optind - 1).open
                  /\ p.argv[p.optind] # Dashes
                  /\ ordering = "PERMUTE" => ~Nonoption(p.argv[p.optind])
                  /\ ordering = "REQUIRE_ORDER" => p.first = p.last
<1>. DEFINE pos == Position
            p == IF ordering = "PERMUTE" THEN SkipNonoptions(Position) ELSE Position
            s == SkipDashes(p)
<1>1. /\ Position.argv = argv /\ Position.optind = optind /\ Position.first = first_nonopt
      /\ Position.last = last_nonopt
  BY DEF Position
<1>2. /\ first_nonopt \in Nat /\ last_nonopt \in Nat /\ optind \in Nat
      /\ first_nonopt <= last_nonopt /\ last_nonopt <= optind /\ optind <= argc
  BY <1>1 DEF At, Tidy
<1>3. Rational(Position) = Position
  <2>1. Position \in Positions /\ first_nonopt <= optind
    BY <1>2 DEF At
  <2>. QED
    BY <1>1, <1>2, <2>1, RationalSame
<1>4. Resumed = s
  BY <1>3 DEF Resumed, Between
<1>5. /\ seen = Told(Known(Position.optind - 1))
      /\ Position.optind < argc => Known(Position.optind - 1).waits = None /\ Known(Position.optind - 1).open
  BY <1>1 DEF Between
<1>6. /\ At(p)
      /\ Known(p.optind - 1).found = Known(Position.optind - 1).found
      /\ Known(p.optind - 1).waits = Known(Position.optind - 1).waits
      /\ p.optind < argc =>
           /\ Known(p.optind - 1).waits = None /\ Known(p.optind - 1).open
           /\ ordering = "PERMUTE" => ~Nonoption(p.argv[p.optind])
      /\ p.first = p.last \/ p.last = p.optind
      /\ ordering = "REQUIRE_ORDER" => p.first = p.last
  <2>1. CASE ordering = "PERMUTE"
    <3>1. p = SkipNonoptions(Position)
      BY <2>1
    <3>2. /\ At(p) /\ Tells(Position, p) /\ p.last = p.optind
          /\ p.optind < argc => Known(p.optind - 1).open /\ ~Nonoption(p.argv[p.optind])
      BY <1>5, <2>1, <3>1, SkipNonoptionsTidy
    <3>. HIDE DEF p
    <3>3. p.optind \in Int /\ Position.optind \in Int /\ argc \in Int
      BY <1>1, <1>2, <3>2 DEF At, Tidy, Vector0
    <3>. QED
      BY <1>5, <2>1, <3>2, <3>3 DEF Tells
  <2>2. CASE ordering # "PERMUTE"
    BY <1>1, <1>5, <2>2
  <2>. QED
    BY <2>1, <2>2
<1>. HIDE DEF p
<1>7. /\ At(s) /\ Tells(p, s)
      /\ s.optind < argc => s = p /\ s.argv[s.optind] # Dashes
      /\ s = p \/ s.last = s.optind
  BY <1>6, SkipDashesTidy
<1>. HIDE DEF s
<1>8. seen = Told(Known(s.optind - 1))
  BY <1>5, <1>6, <1>7 DEF Told, Tells
<1>9. s.first = s.last \/ s.last = s.optind
  BY <1>6, <1>7
<1>10. ASSUME s.optind < argc
       PROVE  /\ Known(s.optind - 1).waits = None /\ Known(s.optind - 1).open
              /\ s.argv[s.optind] # Dashes
              /\ ordering = "PERMUTE" => ~Nonoption(s.argv[s.optind])
              /\ ordering = "REQUIRE_ORDER" => s.first = s.last
  BY <1>6, <1>7, <1>10
<1>. QED
  BY <1>4, <1>7, <1>8, <1>9, <1>10
-----------------------------------------------------------------------------
(* What a call leaves behind *)

LEMMA ReturnedBetween ==
  ASSUME Vector0, ordering \in {"PERMUTE", "REQUIRE_ORDER"}, NEW p, p \in Positions,
         NEW next \in Nat, NEW c \in {Unknown} \cup Flags \cup ArgFlags, c # End, NEW arg,
         Tidy(p.argv, p.first, p.last, next, Known(next - 1)),
         ordering = "REQUIRE_ORDER" => p.first = p.last,
         next < argc => Known(next - 1).waits = None /\ Known(next - 1).open,
         Append(seen, <<c, arg>>) = Told(Known(next - 1)),
         Return(p, next, <<>>, c, arg)
  PROVE  ScanInv'
<1>1. /\ argc' = argc /\ given' = given /\ ordering' = ordering /\ argv' = p.argv
      /\ first_nonopt' = p.first /\ last_nonopt' = p.last /\ optind' = next
      /\ nextchar' = <<>> /\ opt' = c /\ seen' = Append(seen, <<c, arg>>)
  BY DEF Return
<1>2. /\ Vector0' /\ Indices' = Indices
      /\ Known(next - 1)' = Known(next - 1)
  BY <1>1 DEF Vector0, Indices, Known
<1>3. Between'
  <2>1. Known(optind - 1)' = Known(next - 1)
    BY <1>1 DEF Known
  <2>2. Told(Known(optind - 1))' = Told(Known(next - 1))
    BY <2>1 DEF Told
  <2>. QED
    BY <1>1, <2>1, <2>2 DEF Between
<1>4. At(Position)'
  <2>1. Known(Position.optind - 1)' = Known(next - 1)
    BY <1>1 DEF Known, Position
  <2>2. /\ Position'.argv = p.argv /\ Position'.first = p.first /\ Position'.last = p.last
        /\ Position'.optind = next
    BY <1>1 DEF Position
  <2>3. Position' \in Positions'
    BY <1>1, <1>2 DEF Position, Positions
  <2>. HIDE DEF Position
  <2>. QED
    BY <1>1, <1>2, <2>1, <2>2, <2>3, SMTT(30) DEF At, Tidy
<1>. QED
  BY <1>1, <1>2, <1>3, <1>4 DEF ScanInv, InScan

LEMMA ReturnedInside ==
  ASSUME Vector0, ordering \in {"PERMUTE", "REQUIRE_ORDER"}, NEW p, At(p),
         NEW c \in {Unknown} \cup Flags \cup ArgFlags, c # End, NEW arg,
         ordering = "REQUIRE_ORDER" => p.first = p.last,
         NEW k, Reads(Known(p.optind - 1), p.optind, k), given[p.optind][k] \notin ArgFlags,
         NEW h \in 3..Len(given[p.optind]), h = k + 1,
         Append(seen, <<c, arg>>) =
           Known(p.optind - 1).found \o PlainOptions(given[p.optind], h),
         Return(p, p.optind, SubSeq(given[p.optind], h, Len(given[p.optind])), c, arg)
  PROVE  ScanInv'
<1>. DEFINE o == p.optind
            w == given[o]
<1>1. /\ argc' = argc /\ given' = given /\ ordering' = ordering /\ argv' = p.argv
      /\ first_nonopt' = p.first /\ last_nonopt' = p.last /\ optind' = o
      /\ nextchar' = SubSeq(w, h, Len(w))
      /\ opt' = c /\ seen' = Append(seen, <<c, arg>>)
  BY DEF Return
<1>2. Vector0' /\ Indices' = Indices
  BY <1>1 DEF Vector0, Indices
<1>3. Inside'
  <2>1. Known(optind - 1)' = Known(o - 1)
    BY <1>1 DEF Known
  <2>2. PICK r : r = Known(o - 1)
    OBVIOUS
  <2>3. /\ o \in 1..argc-1 /\ r.waits = None /\ r.open /\ ~Nonoption(w) /\ w # Dashes
        /\ k \in 2..Len(w) /\ \A i \in 2..k-1 : w[i] \notin ArgFlags
    BY <2>2 DEF Reads
  <2>4. \A i \in 2..h-1 : w[i] \notin ArgFlags
    BY <2>3
  <2>5. h \in 2..Len(w)
    BY <2>3
  <2>6. seen' = r.found \o PlainOptions(w, h)
    BY <1>1, <2>2, Zenon
  <2>7. Reads(r, o, h)'
    BY <1>1, <2>3, <2>4, <2>5, <2>6 DEF Reads
  <2>8. Reads(Known(optind - 1), optind, h)'
    BY <1>1, <2>1, <2>2, <2>7
  <2>. QED
    BY <1>1, <2>8 DEF Inside
<1>4. At(Position)'
  <2>1. Known(Position.optind - 1)' = Known(o - 1)
    BY <1>1 DEF Known, Position
  <2>2. /\ Position'.argv = p.argv /\ Position'.first = p.first /\ Position'.last = p.last
        /\ Position'.optind = o
    BY <1>1 DEF Position
  <2>3. Position' \in Positions'
    BY <1>1, <1>2 DEF Position, Positions, At
  <2>. HIDE DEF Position
  <2>. QED
    BY <1>1, <1>2, <2>1, <2>2, <2>3, ZenonT(30) DEF At, Tidy
<1>. QED
  BY <1>1, <1>2, <1>3, <1>4 DEF ScanInv, InScan

LEMMA ReturnedEnd ==
  ASSUME Vector0, ordering \in {"PERMUTE", "REQUIRE_ORDER"}, NEW p,
         p.first \in 1..p.last, p.last \in 1..argc, NEW next,
         Sorted(p.argv, next), seen = Told(Known(argc - 1)),
         Return(p, next, <<>>, End, <<>>)
  PROVE  ScanInv'
<1>1. /\ argc' = argc /\ given' = given /\ ordering' = ordering /\ argv' = p.argv
      /\ first_nonopt' = p.first /\ last_nonopt' = p.last /\ optind' = next
      /\ nextchar' = <<>> /\ opt' = End /\ seen' = seen
  BY DEF Return
<1>2. Vector0' /\ Indices' = Indices /\ Known(argc - 1)' = Known(argc - 1)
  BY <1>1 DEF Vector0, Indices, Known
<1>3. Sorted(argv, optind)'
  BY <1>1, <1>2 DEF Sorted
<1>4. Told(Known(argc - 1))' = Told(Known(argc - 1))
  BY <1>2 DEF Told
<1>. QED
  BY <1>1, <1>2, <1>3, <1>4 DEF ScanInv, Settled
\* At the end of the vector its words are sorted.
LEMMA TidySorted ==
  ASSUME Vector0, NEW a, NEW f, NEW l, Tidy(a, f, l, argc, Known(argc - 1)), f = l \/ l = argc
  PROVE  Sorted(a, IF f # l THEN f ELSE argc)
<1>. DEFINE r == Known(argc - 1)
<1>1. argc \in Nat \ {0} /\ Tidy(a, f, l, argc, r)
  BY DEF Vector0
<1>. HIDE DEF r
<1>2. CASE f = l
  <2>1. Tidy(a, argc, argc, argc, r)
    BY <1>1, <1>2, TidyForward
  <2>2. \A i \in argc..argc-1 : r.rest[i - argc + 1] = a[i]
    BY <1>1
  <2>3. Len(r.opts) = argc - 1 /\ Len(r.rest) = 0
    BY <1>1, <2>1 DEF Tidy
  <2>4. /\ a \in [Indices -> Strings] /\ a[0] = given[0]
        /\ \A i \in 1..argc-1 : r.opts[i] = a[i]
    BY <2>1 DEF Tidy
  <2>5. argc = 1 + Len(r.opts) /\ Len(r.opts) + Len(r.rest) = argc - 1
    BY <1>1, <2>3
  <2>. QED
    BY <1>2, <2>2, <2>4, <2>5 DEF Sorted, r
<1>3. CASE f # l /\ l = argc
  <2>1. f \in Nat /\ Len(r.opts) = f - 1 /\ Len(r.rest) = argc - f
    BY <1>1, <1>3 DEF Tidy
  <2>2. /\ a \in [Indices -> Strings] /\ a[0] = given[0]
        /\ \A i \in 1..f-1 : r.opts[i] = a[i]
        /\ \A i \in f..argc-1 : r.rest[i - f + 1] = a[i]
    BY <1>1, <1>3 DEF Tidy
  <2>3. f = 1 + Len(r.opts) /\ Len(r.opts) + Len(r.rest) = argc - 1
    BY <1>1, <2>1
  <2>. QED
    BY <1>3, <2>2, <2>3 DEF Sorted, r
<1>. QED
  BY <1>2, <1>3

\* One more character of an option word is read.
LEMMA PlainAppend ==
  ASSUME NEW w \in Strings, NEW k \in 2..Len(w), NEW h, h = k + 1
  PROVE  Append(PlainOptions(w, k), PlainOption(w[k])) = PlainOptions(w, h)
<1>1. Len(w) \in Nat /\ k \in 2..Len(w)+1 /\ h \in 2..Len(w)+1 /\ k - 2 \in Nat
  BY LenProperties DEF Strings
<1>2. PICK s \in Found : s = PlainOptions(w, k) /\ Len(s) = k - 2
  BY <1>1, PlainTypes
<1>3. PICK t \in Found : t = PlainOptions(w, h) /\ Len(t) = h - 2
  BY <1>1, PlainTypes
<1>4. PICK e \in Answers : e = PlainOption(w[k])
  <2>1. w[k] \in STRING
    BY <1>1, ElementOfSeq DEF Strings
  <2>. QED
    BY <2>1, PlainOptionType
<1>5. /\ Append(s, e) \in Found /\ Len(Append(s, e)) = k - 1
      /\ \A i \in 1..k-2 : Append(s, e)[i] = s[i]
      /\ Append(s, e)[k - 1] = e
  <2>1. /\ Append(s, e) \in Seq(Answers) /\ Len(Append(s, e)) = Len(s) + 1
        /\ \A i \in 1..Len(s) : Append(s, e)[i] = s[i]
        /\ Append(s, e)[Len(s) + 1] = e
    BY AppendProperties DEF Found
  <2>2. Len(s) + 1 = k - 1
    BY <1>1, <1>2
  <2>. QED
    BY <1>2, <2>1, <2>2 DEF Found
<1>6. ASSUME NEW i \in 1..k-1
      PROVE  Append(s, e)[i] = t[i]
  <2>1. t[i] = PlainOption(w[i+1])
    <3>1. i \in 1..h-2
      BY <1>1
    <3>. QED
      BY <1>3, <3>1 DEF PlainOptions
  <2>2. CASE i = k - 1
    <3>1. i + 1 = k
      BY <1>1, <2>2
    <3>. QED
      BY <1>4, <1>5, <2>1, <2>2, <3>1
  <2>3. CASE i \in 1..k-2
    <3>1. s[i] = PlainOption(w[i+1])
      BY <1>2, <2>3 DEF PlainOptions
    <3>. QED
      BY <1>5, <2>1, <2>3, <3>1
  <2>4. i = k - 1 \/ i \in 1..k-2
    BY <1>1
  <2>. QED
    BY <2>2, <2>3, <2>4
<1>7. Append(s, e) = t
  <2>1. Len(t) = k - 1
    BY <1>1, <1>3
  <2>. QED
    BY <1>5, <1>6, <2>1, SeqEqual DEF Found
<1>. QED
  BY <1>2, <1>3, <1>4, <1>7

LEMMA AppendBehind ==
  ASSUME NEW s \in Found, NEW t \in Found, NEW e \in Answers
  PROVE  Append(s \o t, e) = s \o Append(t, e)
<1>1. s \o t \in Seq(Answers) /\ <<e>> \in Seq(Answers)
  BY ConcatProperties DEF Found
<1>2. Append(s \o t, e) = (s \o t) \o <<e>> /\ Append(t, e) = t \o <<e>>
  BY <1>1, AppendIsConcat DEF Found
<1>. QED
  BY <1>1, <1>2, ConcatAssociative DEF Found

\* What Reads says about types.
LEMMA ReadsTypes ==
  ASSUME Vector0, NEW o, NEW k, NEW r, r = Known(o - 1), Reads(r, o, k)
  PROVE  /\ given[o] \in Strings /\ Len(given[o]) \in Nat /\ k \in 2..Len(given[o])
         /\ given[o][k] \in STRING
         /\ r.found \in Found /\ PlainOptions(given[o], k) \in Found
         /\ r.opts \in Seq(Strings)
         /\ seen \in Found
<1>1. /\ o \in 1..argc-1 /\ k \in 2..Len(given[o])
      /\ seen = r.found \o PlainOptions(given[o], k)
  BY DEF Reads
<1>2. o \in Indices /\ o - 1 \in 0..argc-1 /\ given[o] \in Strings
  BY <1>1 DEF Vector0, Indices
<1>3. Len(given[o]) \in Nat
  BY <1>2, LenProperties DEF Strings
<1>4. given[o][k] \in STRING /\ k \in 2..Len(given[o])+1
  BY <1>1, <1>2, <1>3, ElementOfSeq DEF Strings
<1>5. PlainOptions(given[o], k) \in Found
  BY <1>2, <1>4, PlainTypes
<1>6. r.found \in Found /\ r.opts \in Seq(Strings)
  BY <1>2, KnownTypes
<1>7. seen \in Found
  BY <1>1, <1>5, <1>6, ConcatProperties DEF Found
<1>. QED
  BY <1>1, <1>2, <1>3, <1>4, <1>5, <1>6, <1>7

\* The option c of the word o and its argument are returned.
LEMMA ReadsAppend ==
  ASSUME Vector0, NEW o, NEW k, NEW r, r = Known(o - 1), Reads(r, o, k), NEW e \in Answers
  PROVE  Append(seen, e) = r.found \o Append(PlainOptions(given[o], k), e)
<1>1. /\ r.found \in Found /\ PlainOptions(given[o], k) \in Found
      /\ seen = r.found \o PlainOptions(given[o], k)
  BY ReadsTypes DEF Reads
<1>2. PICK s \in Found, t \in Found : s = r.found /\ t = PlainOptions(given[o], k)
  BY <1>1
<1>3. Append(s \o t, e) = s \o Append(t, e)
  BY AppendBehind
<1>. QED
  BY <1>1, <1>2, <1>3

\* A character without an argument.
LEMMA CharacterRead ==
  ASSUME Vector0, NEW o, NEW k, NEW r, r = Known(o - 1), Reads(r, o, k), NEW h, h = k + 1
  PROVE  Append(seen, PlainOption(given[o][k])) = r.found \o PlainOptions(given[o], h)
<1>1. given[o] \in Strings /\ k \in 2..Len(given[o]) /\ given[o][k] \in STRING
  BY ReadsTypes
<1>2. PlainOption(given[o][k]) \in Answers
  BY <1>1, PlainOptionType
<1>3. Append(PlainOptions(given[o], k), PlainOption(given[o][k])) = PlainOptions(given[o], h)
  BY <1>1, PlainAppend
<1>. QED
  BY <1>2, <1>3, ReadsAppend, ZenonT(30)
\* A word whose last character has no argument is done.
LEMMA WordDone ==
  ASSUME Vector0, NEW o, NEW k, NEW r, r = Known(o - 1), Reads(r, o, k),
         k = Len(given[o]), given[o][k] \notin ArgFlags
  PROVE  /\ Known(o).found = Append(seen, PlainOption(given[o][k]))
         /\ Known(o).waits = None /\ Known(o).open
         /\ Known(o).opts = Append(r.opts, given[o]) /\ Known(o).rest = r.rest
<1>. DEFINE w == given[o]
<1>1. PICK h : h = k + 1
  OBVIOUS
<1>2. w \in Strings /\ Len(w) \in Nat /\ h = Len(w) + 1 /\ k \in 2..Len(w)
  BY <1>1, ReadsTypes
<1>3. /\ o \in 1..argc-1 /\ r.waits = None /\ r.open /\ ~Nonoption(w) /\ w # Dashes
      /\ \A i \in 2..k-1 : w[i] \notin ArgFlags
  BY DEF Reads
<1>4. \A i \in 2..Len(w) : w[i] \notin ArgFlags
  <2>1. ASSUME NEW i \in 2..Len(w)
        PROVE  w[i] \notin ArgFlags
    <3>1. i = k \/ i \in 2..k-1
      BY <1>2
    <3>. QED
      BY <1>3, <3>1
  <2>. QED
    BY <2>1
<1>5. Options(w).found = PlainOptions(w, h) /\ Options(w).waits = None
  BY <1>2, <1>4, OptionsPlain
<1>6. /\ Known(o).found = r.found \o Options(w).found
      /\ Known(o).waits = Options(w).waits /\ Known(o).open
      /\ Known(o).opts = Append(r.opts, w) /\ Known(o).rest = r.rest
  BY <1>3, KnownOption
<1>7. Append(seen, PlainOption(w[k])) = r.found \o PlainOptions(w, h)
  BY <1>1, CharacterRead
<1>. QED
  BY <1>5, <1>6, <1>7

\* A word with an argument in it is done.
LEMMA WordArgument ==
  ASSUME Vector0, NEW o, NEW k, NEW r, r = Known(o - 1), Reads(r, o, k),
         k # Len(given[o]), given[o][k] \in ArgFlags
  PROVE  /\ Known(o).found =
              Append(seen, <<given[o][k], SubSeq(given[o], k + 1, Len(given[o]))>>)
         /\ Known(o).waits = None /\ Known(o).open
         /\ Known(o).opts = Append(r.opts, given[o]) /\ Known(o).rest = r.rest
<1>. DEFINE w == given[o]
            e == <<w[k], SubSeq(w, k + 1, Len(w))>>
<1>1. w \in Strings /\ Len(w) \in Nat /\ k \in 2..Len(w) /\ w[k] \in STRING
  BY ReadsTypes
<1>2. /\ o \in 1..argc-1 /\ r.waits = None /\ r.open /\ ~Nonoption(w) /\ w # Dashes
      /\ \A i \in 2..k-1 : w[i] \notin ArgFlags
  BY DEF Reads
<1>3. IsFirst(w, k) /\ k < Len(w)
  BY <1>1, <1>2 DEF IsFirst
<1>4. e \in Answers
  <2>1. \A i \in k+1..Len(w) : w[i] \in STRING
    BY <1>1, ElementOfSeq DEF Strings
  <2>2. SubSeq(w, k + 1, Len(w)) \in Strings
    BY <1>1, <2>1, SubSeqProperties DEF Strings
  <2>. QED
    BY <1>1, <2>2 DEF Answers, Names
<1>5. Options(w).found = Append(PlainOptions(w, k), e) /\ Options(w).waits = None
  BY <1>1, <1>3, OptionsArg
<1>6. /\ Known(o).found = r.found \o Options(w).found
      /\ Known(o).waits = Options(w).waits /\ Known(o).open
      /\ Known(o).opts = Append(r.opts, w) /\ Known(o).rest = r.rest
  BY <1>2, KnownOption
<1>. HIDE DEF e
<1>7. Append(seen, e) = r.found \o Append(PlainOptions(w, k), e)
  BY <1>4, ReadsAppend
<1>. QED
  BY <1>5, <1>6, <1>7 DEF e

\* A word is done, and the next one is the argument of its last character.
LEMMA WordWaits ==
  ASSUME Vector0, NEW o, NEW k, NEW r, r = Known(o - 1), Reads(r, o, k),
         k = Len(given[o]), given[o][k] \in ArgFlags
  PROVE  /\ Known(o).found = seen
         /\ Known(o).waits = given[o][k] /\ Known(o).waits # None /\ Known(o).open
         /\ Known(o).opts = Append(r.opts, given[o]) /\ Known(o).rest = r.rest
<1>. DEFINE w == given[o]
<1>1. w \in Strings /\ Len(w) \in Nat /\ k \in 2..Len(w) /\ w[k] \in STRING
  BY ReadsTypes
<1>2. /\ o \in 1..argc-1 /\ r.waits = None /\ r.open /\ ~Nonoption(w) /\ w # Dashes
      /\ \A i \in 2..k-1 : w[i] \notin ArgFlags
      /\ seen = r.found \o PlainOptions(w, k)
  BY DEF Reads
<1>3. IsFirst(w, k)
  BY <1>1, <1>2 DEF IsFirst
<1>4. Options(w).found = PlainOptions(w, k) /\ Options(w).waits = w[k]
  BY <1>1, <1>3, OptionsArg
<1>5. /\ Known(o).found = r.found \o Options(w).found
      /\ Known(o).waits = Options(w).waits /\ Known(o).open
      /\ Known(o).opts = Append(r.opts, w) /\ Known(o).rest = r.rest
  BY <1>2, KnownOption
<1>6. w[k] # None
  BY FlagAssumption
<1>. QED
  BY <1>2, <1>4, <1>5, <1>6

\* An option word leaves the words in order.
LEMMA WordTidy ==
  ASSUME Vector0, NEW p, At(p), NEW o \in 1..argc-1, p.optind = o, NEW next, next = o + 1,
         Known(o).opts = Append(Known(o - 1).opts, given[o]), Known(o).rest = Known(o - 1).rest
  PROVE  /\ next \in Nat /\ next <= argc /\ next - 1 = o
         /\ Tidy(p.argv, p.first, p.last, next, Known(next - 1))
<1>1. argc \in Nat /\ o \in Nat /\ o < argc /\ o \in Indices /\ o - 1 \in 0..argc-1
  BY DEF Vector0, Indices
<1>2. PICK r \in Readings : r = Known(o - 1)
  BY <1>1, KnownTypes
<1>3. PICK q : q = Known(o)
  OBVIOUS
<1>4. r.opts \in Seq(Strings) /\ given[o] \in Strings
  BY <1>1, <1>2 DEF Readings, Vector0
<1>5. Tidy(p.argv, p.first, p.last, o, r)
  BY <1>2 DEF At
<1>6. q.opts = Append(r.opts, given[o]) /\ q.rest = r.rest
  BY <1>2, <1>3
<1>7. Tidy(p.argv, p.first, p.last, o + 1, q)
  BY <1>1, <1>4, <1>5, <1>6, TidyStep
<1>8. next \in Nat /\ next <= argc /\ next - 1 = o
  BY <1>1
<1>. QED
  BY <1>3, <1>7, <1>8
-----------------------------------------------------------------------------
(* Every call keeps the invariant *)

\* What is read next when a call is in an option word.
Reading1(p, k) ==
  /\ At(p)
  /\ ordering = "REQUIRE_ORDER" => p.first = p.last
  /\ Reads(Known(p.optind - 1), p.optind, k)
  /\ Char = given[p.optind][k]
  /\ Rest = SubSeq(given[p.optind], k + 1, Len(given[p.optind]))

\* Without a character left the last call has come to the end of a word.
LEMMA BetweenWords ==
  ASSUME ScanInv, opt # End, nextchar = <<>>
  PROVE  Between
<1>1. Vector0 /\ InScan
  BY DEF ScanInv
<1>2. SUFFICES ASSUME Inside PROVE FALSE
  BY <1>1 DEF InScan
<1>3. PICK k \in 3..Len(given[optind]) :
        /\ Reads(Known(optind - 1), optind, k)
        /\ nextchar = SubSeq(given[optind], k, Len(given[optind]))
  BY <1>2 DEF Inside
<1>4. PICK q : q = Known(optind - 1)
  OBVIOUS
<1>5. given[optind] \in Strings /\ k \in 2..Len(given[optind])
  BY <1>1, <1>3, <1>4, ReadsTypes
<1>. QED
  BY <1>3, <1>5, HeadOfChars

LEMMA OptionRead ==
  ASSUME ScanInv, opt # End, InOption
  PROVE  \E k : Reading1(Resumed, k)
<1>. /\ Vector0 /\ ordering \in {"PERMUTE", "REQUIRE_ORDER"} /\ InScan /\ argc \in Nat \ {0}
     /\ given \in [Indices -> Strings]
  BY DEF ScanInv, Vector0
<1>1. CASE nextchar # <<>>
  <2>1. PICK k \in 3..Len(given[optind]) :
          /\ Reads(Known(optind - 1), optind, k)
          /\ nextchar = SubSeq(given[optind], k, Len(given[optind]))
    BY <1>1 DEF InScan, Between, Inside
  <2>2. PICK r : r = Known(optind - 1)
    OBVIOUS
  <2>3. given[optind] \in Strings /\ k \in 2..Len(given[optind])
    BY <2>1, <2>2, ReadsTypes
  <2>4. Resumed = Position
    BY <1>1 DEF Resumed
  <2>5. Char = given[optind][k] /\ Rest = SubSeq(given[optind], k + 1, Len(given[optind]))
    <3>1. /\ Head(nextchar) = given[optind][k]
          /\ Tail(nextchar) = SubSeq(given[optind], k + 1, Len(given[optind]))
      BY <2>1, <2>3, HeadOfChars
    <3>. QED
      BY <1>1, <3>1 DEF Char, Rest, Chars
  <2>6. /\ Resumed.optind = optind /\ Resumed.first = first_nonopt /\ Resumed.last = last_nonopt
        /\ At(Resumed)
    BY <2>4 DEF Position, InScan
  <2>7. Reading1(Resumed, k)
    BY <2>1, <2>5, <2>6 DEF Reading1, InScan
  <2>. QED
    BY <2>7
<1>2. CASE nextchar = <<>>
  <2>. DEFINE p == Resumed
              o == p.optind
              w == given[o]
              r == Known(o - 1)
  <2>1. Between
    BY <1>2, BetweenWords
  <2>2. /\ At(p)
        /\ seen = Told(r)
        /\ o < argc =>
             /\ r.waits = None /\ r.open
             /\ p.argv[o] # Dashes
             /\ ordering = "REQUIRE_ORDER" => p.first = p.last
    BY <2>1, Resuming DEF InScan
  <2>3. o # argc /\ ~Nonoption(p.argv[o])
    BY <1>2 DEF InOption
  <2>4. Chars = Tail(p.argv[o])
    BY <1>2 DEF Chars
  <2>. HIDE DEF p
  <2>5. o \in 1..argc-1 /\ o \in Indices /\ o < argc
    BY <2>2, <2>3 DEF At, Tidy, Indices
  <2>6. p.argv[o] = w /\ w \in Strings
    <3>1. o \in o..argc-1
      BY <2>5
    <3>. QED
      BY <2>2, <2>5, <3>1 DEF At, Tidy
  <2>7. Len(w) \in Nat /\ Len(w) >= 2 /\ 2 \in 2..Len(w)
    BY <2>3, <2>6, LenProperties DEF Strings, Nonoption
  <2>8. Chars = SubSeq(w, 2, Len(w)) /\ PlainOptions(w, 2) = <<>>
    BY <2>4, <2>6, <2>7, TailOfOption
  <2>9. Char = w[2] /\ Rest = SubSeq(w, 2 + 1, Len(w))
    BY <2>6, <2>7, <2>8, HeadOfChars DEF Char, Rest
  <2>10. r.found \in Found /\ seen = r.found
    <3>1. o - 1 \in 0..argc-1
      BY <2>5
    <3>. QED
      BY <2>2, <2>5, <3>1, KnownTypes DEF Told
  <2>11. seen = r.found \o PlainOptions(w, 2)
    BY <2>8, <2>10, ConcatEmptySeq DEF Found
  <2>12. Reads(r, o, 2)
    <3>1. ~Nonoption(w) /\ w # Dashes /\ r.waits = None /\ r.open
      BY <2>2, <2>3, <2>5, <2>6
    <3>2. \A i \in 2..2-1 : w[i] \notin ArgFlags
      OBVIOUS
    <3>. HIDE DEF w, r
    <3>. QED
      BY <2>5, <2>7, <2>11, <3>1, <3>2, Zenon DEF Reads, w
  <2>13. Reading1(p, 2)
    BY <2>2, <2>5, <2>9, <2>12 DEF Reading1
  <2>. QED
    BY <2>13 DEF p
<1>. QED
  BY <1>1, <1>2

LEMMA SteppedIs ==
  ASSUME At(Resumed)
  PROVE  /\ Stepped \in Positions
         /\ Stepped.argv = Resumed.argv /\ Stepped.first = Resumed.first
         /\ Stepped.last = Resumed.last
         /\ Rest = <<>> => Stepped.optind = Resumed.optind + 1
         /\ Rest # <<>> => Stepped = Resumed
<1>. DEFINE p == Resumed
<1>1. Stepped = [p EXCEPT !.optind = IF Rest = <<>> THEN @ + 1 ELSE @]
  BY DEF Stepped
<1>2. /\ p \in Positions
      /\ p = [argv |-> p.argv, optind |-> p.optind, first |-> p.first, last |-> p.last]
  BY DEF At, Positions
<1>. HIDE DEF p
<1>3. CASE Rest = <<>>
  <2>1. Stepped = [p EXCEPT !.optind = @ + 1]
    BY <1>1, <1>3
  <2>. QED
    BY <1>2, <1>3, <2>1 DEF Positions, p
<1>4. CASE Rest # <<>>
  <2>1. Stepped = [p EXCEPT !.optind = @]
    BY <1>1, <1>4
  <2>2. Stepped = p
    BY <1>2, <2>1
  <2>. QED
    BY <1>2, <1>4, <2>2 DEF p
<1>. QED
  BY <1>3, <1>4
LEMMA EndOfScan ==
  ASSUME ScanInv, opt # End, ScanEnds
  PROVE  ScanInv'
<1>. DEFINE p == Resumed
            next == IF p.first # p.last THEN p.first ELSE p.optind
<1>1. /\ Vector0 /\ ordering \in {"PERMUTE", "REQUIRE_ORDER"} /\ InScan
      /\ nextchar = <<>> /\ p.optind = argc /\ Return(p, next, <<>>, End, <<>>)
  BY DEF ScanInv, ScanEnds
<1>2. Between
  BY <1>1, BetweenWords
<1>3. /\ At(p) /\ seen = Told(Known(p.optind - 1))
      /\ p.first = p.last \/ p.last = p.optind
  BY <1>1, <1>2, Resuming DEF InScan
<1>. HIDE DEF p
<1>4. Tidy(p.argv, p.first, p.last, argc, Known(argc - 1)) /\ seen = Told(Known(argc - 1))
  BY <1>1, <1>3 DEF At
<1>5. Sorted(p.argv, IF p.first # p.last THEN p.first ELSE argc)
  BY <1>1, <1>3, <1>4, TidySorted
<1>6. Sorted(p.argv, next)
  BY <1>1, <1>5
<1>7. p.first \in 1..p.last /\ p.last \in 1..argc
  BY <1>4 DEF Tidy
<1>. HIDE DEF next
<1>. QED
  BY <1>1, <1>4, <1>6, <1>7, ReturnedEnd

\* The words from a closing one on are the rest.
LEMMA StopOfScan ==
  ASSUME ScanInv, opt # End, ScanStops
  PROVE  ScanInv'
<1>. DEFINE p == Resumed
            o == p.optind
            r == Known(o - 1)
            m == Known(argc - 1)
<1>1. /\ Vector0 /\ ordering \in {"PERMUTE", "REQUIRE_ORDER"} /\ InScan
      /\ nextchar = <<>> /\ o # argc /\ Nonoption(p.argv[o]) /\ Return(p, o, <<>>, End, <<>>)
  BY DEF ScanInv, ScanStops
<1>2. Between
  BY <1>1, BetweenWords
<1>3. /\ At(p) /\ seen = Told(r)
      /\ o < argc => /\ r.waits = None
                     /\ ordering = "PERMUTE" => ~Nonoption(p.argv[o])
                     /\ ordering = "REQUIRE_ORDER" => p.first = p.last
  BY <1>1, <1>2, Resuming DEF InScan
<1>. HIDE DEF p
<1>4. o \in Nat /\ argc \in Nat /\ o < argc /\ 1 <= o
  BY <1>1, <1>3 DEF At, Tidy, Vector0
<1>5. r.waits = None /\ ordering # "PERMUTE" /\ p.first = p.last /\ seen = r.found
  BY <1>1, <1>3, <1>4 DEF Told
<1>6. Tidy(p.argv, o, o, o, r)
  BY <1>3, <1>4, <1>5, TidyForward DEF At
<1>7. p.argv[o] = given[o]
  <2>1. o \in o..argc-1
    BY <1>4
  <2>. QED
    BY <1>6, <2>1 DEF Tidy
<1>8. PICK n \in 1..argc : n = o + 1
  BY <1>4
<1>. HIDE DEF o
<1>9. o \in 1..argc-1 /\ n - 1 = o /\ o <= n /\ n <= argc /\ n \in Nat /\ n - o = 1 /\ o - 1 + 1 = o
  BY <1>4, <1>8
<1>. HIDE DEF r
<1>10. PICK q : q = Known(o)
  OBVIOUS
<1>11. /\ q.found = r.found /\ q.waits = None /\ ~q.open
       /\ q.opts = r.opts /\ q.rest = Append(r.rest, given[o])
  BY <1>1, <1>5, <1>7, <1>9, <1>10, KnownStops DEF r
<1>12. r.rest \in Seq(Strings) /\ given[o] \in Strings
  <2>1. o - 1 \in 0..argc-1 /\ o \in Indices
    BY <1>4, <1>9 DEF Indices
  <2>. QED
    BY <1>1, <2>1, KnownTypes DEF r, Vector0
<1>13. /\ Len(q.rest) = Len(r.rest) + 1
       /\ \A i \in 1..Len(r.rest) : q.rest[i] = r.rest[i]
       /\ q.rest[Len(r.rest) + 1] = given[o]
  BY <1>11, <1>12, AppendProperties
<1>14. Tidy(p.argv, o, n, n, q)
  <2>1. \A i \in 1..n-o : q.rest[Len(r.rest) + i] = given[o - 1 + i]
    BY <1>9, <1>13
  <2>2. Len(q.rest) = Len(r.rest) + (n - o)
    BY <1>9, <1>13
  <2>. QED
    BY <1>4, <1>6, <1>9, <1>11, <1>13, <2>1, <2>2, TidySkip
<1>15. Known(n - 1) = q /\ argc \in n..argc /\ argc <= argc
  BY <1>4, <1>9, <1>10
<1>16. /\ m.found = q.found /\ m.waits = None /\ m.opts = q.opts
       /\ Len(m.rest) = Len(q.rest) + (argc - n)
       /\ \A i \in 1..Len(q.rest) : m.rest[i] = q.rest[i]
       /\ \A i \in 1..argc-n : m.rest[Len(q.rest) + i] = given[n - 1 + i]
  BY <1>1, <1>11, <1>15, KnownSkips
<1>17. Tidy(p.argv, o, argc, argc, m)
  <2>. HIDE DEF m
  <2>. QED
    BY <1>4, <1>9, <1>14, <1>15, <1>16, TidySkip
<1>18. Sorted(p.argv, o)
  <2>1. o # argc
    BY <1>4
  <2>2. Sorted(p.argv, IF o # argc THEN o ELSE argc)
    BY <1>1, <1>17, TidySorted
  <2>. QED
    BY <2>1, <2>2
<1>19. seen = Told(m)
  BY <1>5, <1>11, <1>16 DEF Told
<1>20. p.first \in 1..p.last /\ p.last \in 1..argc
  <2>1. Tidy(p.argv, p.first, p.last, p.optind, Known(p.optind - 1))
    BY <1>3 DEF At
  <2>2. /\ p.first \in Nat /\ p.last \in Nat /\ p.optind \in Nat /\ 1 <= p.first
        /\ p.first <= p.last /\ p.last <= p.optind /\ p.optind <= argc
    BY <2>1 DEF Tidy
  <2>. QED
    BY <1>4, <2>2
<1>21. seen = Told(Known(argc - 1)) /\ Return(p, o, <<>>, End, <<>>)
  BY <1>1, <1>19 DEF o
<1>. QED
  BY <1>1, <1>18, <1>20, <1>21, ReturnedEnd, Zenon
\* An option without an argument, or an invalid one, is returned.
LEMMA PlainReturned ==
  ASSUME ScanInv, opt # End, InOption, Char \notin ArgFlags,
         NEW c \in {Unknown} \cup Flags, c # End, <<c, <<>> >> = PlainOption(Char),
         Return(Stepped, Stepped.optind, Rest, c, <<>>)
  PROVE  ScanInv'
<1>. DEFINE p == Resumed
            o == p.optind
            w == given[o]
            r == Known(o - 1)
            q == Stepped
<1>1. Vector0 /\ ordering \in {"PERMUTE", "REQUIRE_ORDER"} /\ argc \in Nat
  BY DEF ScanInv, Vector0
<1>2. PICK k : Reading1(p, k)
  BY OptionRead
<1>3. /\ At(p) /\ (ordering = "REQUIRE_ORDER" => p.first = p.last) /\ Reads(r, o, k)
      /\ Char = w[k] /\ Rest = SubSeq(w, k + 1, Len(w))
  BY <1>2 DEF Reading1
<1>4. /\ q \in Positions /\ q.argv = p.argv /\ q.first = p.first /\ q.last = p.last
      /\ Rest = <<>> => q.optind = o + 1
      /\ Rest # <<>> => q = p
  BY <1>3, SteppedIs
<1>. HIDE DEF p, q
<1>5. PICK s : s = r
  OBVIOUS
<1>6. w \in Strings /\ Len(w) \in Nat /\ k \in 2..Len(w) /\ o \in 1..argc-1
  BY <1>1, <1>3, <1>5, ReadsTypes DEF Reads
<1>7. Rest = <<>> <=> k = Len(w)
  BY <1>3, <1>6, HeadOfChars
<1>8. Append(seen, <<c, <<>> >>) = Append(seen, PlainOption(w[k])) /\ w[k] \notin ArgFlags
  BY <1>3
<1>9. c \in {Unknown} \cup Flags \cup ArgFlags
  OBVIOUS
<1>10. CASE k = Len(w)
  <2>1. /\ Known(o).found = Append(seen, PlainOption(w[k]))
        /\ Known(o).waits = None /\ Known(o).open
        /\ Known(o).opts = Append(r.opts, w) /\ Known(o).rest = r.rest
    BY <1>1, <1>3, <1>8, <1>10, WordDone, SMTT(30)
  <2>2. PICK next : next = o + 1
    OBVIOUS
  <2>3. /\ next \in Nat /\ next <= argc /\ next - 1 = o
        /\ Tidy(p.argv, p.first, p.last, next, Known(next - 1))
    BY <1>1, <1>3, <1>6, <2>1, <2>2, WordTidy
  <2>4. q.optind = next /\ Rest = <<>>
    BY <1>4, <1>7, <1>10, <2>2
  <2>5. Append(seen, <<c, <<>> >>) = Told(Known(next - 1))
    BY <1>8, <2>1, <2>3 DEF Told
  <2>6. Return(q, next, <<>>, c, <<>>)
    BY <2>4 DEF q
  <2>7. Tidy(q.argv, q.first, q.last, next, Known(next - 1))
    BY <1>4, <2>3
  <2>8. Known(next - 1).waits = None /\ Known(next - 1).open
    BY <2>1, <2>3
  <2>. QED
    BY <1>1, <1>3, <1>4, <1>9, <2>3, <2>5, <2>6, <2>7, <2>8, ReturnedBetween
<1>11. CASE k # Len(w)
  <2>1. PICK h : h = k + 1
    OBVIOUS
  <2>2. h \in 3..Len(w) /\ q = p
    BY <1>4, <1>6, <1>7, <1>11, <2>1
  <2>3. Append(seen, <<c, <<>> >>) = r.found \o PlainOptions(w, h)
    <3>1. r = Known(o - 1)
      OBVIOUS
    <3>. HIDE DEF r, o, w
    <3>2. Append(seen, PlainOption(given[o][k])) = r.found \o PlainOptions(given[o], h)
      BY <1>1, <1>3, <2>1, <3>1, CharacterRead, ZenonT(30)
    <3>. QED
      BY <1>8, <3>2 DEF w
  <2>4. Return(p, o, SubSeq(w, h, Len(w)), c, <<>>)
    BY <1>3, <2>1, <2>2 DEF q
  <2>. QED
    BY <1>1, <1>3, <1>8, <1>9, <2>1, <2>2, <2>3, <2>4, ReturnedInside, Zenon
<1>. QED
  BY <1>10, <1>11
LEMMA ArgumentInWordReturned ==
  ASSUME ScanInv, opt # End, ArgumentInWord
  PROVE  ScanInv'
<1>. DEFINE p == Resumed
            o == p.optind
            w == given[o]
            r == Known(o - 1)
<1>1. /\ Vector0 /\ ordering \in {"PERMUTE", "REQUIRE_ORDER"} /\ argc \in Nat
      /\ InOption /\ Char \in ArgFlags /\ Rest # <<>>
      /\ Return(Stepped, Stepped.optind + 1, <<>>, Char, Rest)
  BY DEF ScanInv, Vector0, ArgumentInWord
<1>2. PICK k : Reading1(p, k)
  BY <1>1, OptionRead
<1>3. /\ At(p) /\ (ordering = "REQUIRE_ORDER" => p.first = p.last) /\ Reads(r, o, k)
      /\ Char = w[k] /\ Rest = SubSeq(w, k + 1, Len(w))
  BY <1>2 DEF Reading1
<1>4. Stepped = p /\ p \in Positions
  BY <1>1, <1>3, SteppedIs DEF At
<1>. HIDE DEF p
<1>5. PICK s : s = r
  OBVIOUS
<1>6. w \in Strings /\ Len(w) \in Nat /\ k \in 2..Len(w) /\ o \in 1..argc-1
  BY <1>1, <1>3, <1>5, ReadsTypes DEF Reads
<1>7. k # Len(w) /\ w[k] \in ArgFlags
  BY <1>1, <1>3, <1>6, HeadOfChars
<1>8. /\ Known(o).found = Append(seen, <<w[k], SubSeq(w, k + 1, Len(w))>>)
      /\ Known(o).waits = None /\ Known(o).open
      /\ Known(o).opts = Append(r.opts, w) /\ Known(o).rest = r.rest
  BY <1>1, <1>3, <1>7, WordArgument, SMTT(30)
<1>9. PICK next : next = o + 1
  OBVIOUS
<1>10. /\ next \in Nat /\ next <= argc /\ next - 1 = o
       /\ Tidy(p.argv, p.first, p.last, next, Known(next - 1))
  BY <1>1, <1>3, <1>6, <1>8, <1>9, WordTidy
<1>11. Append(seen, <<Char, Rest>>) = Told(Known(next - 1))
  BY <1>3, <1>8, <1>10 DEF Told
<1>12. Return(p, next, <<>>, Char, Rest)
  BY <1>1, <1>4, <1>9
<1>13. Known(next - 1).waits = None /\ Known(next - 1).open
  BY <1>8, <1>10
<1>14. Char \in {Unknown} \cup Flags \cup ArgFlags /\ Char # End
  BY <1>1, FlagAssumption
<1>. QED
  BY <1>1, <1>3, <1>4, <1>10, <1>11, <1>12, <1>13, <1>14, ReturnedBetween

LEMMA ArgumentMissingReturned ==
  ASSUME ScanInv, opt # End, ArgumentMissing
  PROVE  ScanInv'
<1>. DEFINE p == Resumed
            q == Stepped
            o == p.optind
            w == given[o]
            r == Known(o - 1)
<1>1. /\ Vector0 /\ ordering \in {"PERMUTE", "REQUIRE_ORDER"} /\ argc \in Nat
      /\ InOption /\ Char \in ArgFlags /\ Rest = <<>> /\ q.optind = argc
      /\ Return(q, q.optind, <<>>, Unknown, <<>>)
  BY DEF ScanInv, Vector0, ArgumentMissing
<1>2. PICK k : Reading1(p, k)
  BY <1>1, OptionRead
<1>3. /\ At(p) /\ (ordering = "REQUIRE_ORDER" => p.first = p.last) /\ Reads(r, o, k)
      /\ Char = w[k] /\ Rest = SubSeq(w, k + 1, Len(w))
  BY <1>2 DEF Reading1
<1>4. /\ q \in Positions /\ q.argv = p.argv /\ q.first = p.first /\ q.last = p.last
      /\ argc = o + 1
  BY <1>1, <1>3, SteppedIs
<1>. HIDE DEF p, q
<1>5. PICK s : s = r
  OBVIOUS
<1>6. w \in Strings /\ Len(w) \in Nat /\ k \in 2..Len(w) /\ o \in 1..argc-1
  BY <1>1, <1>3, <1>5, ReadsTypes DEF Reads
<1>7. k = Len(w) /\ w[k] \in ArgFlags
  BY <1>1, <1>3, <1>6, HeadOfChars
<1>8. /\ Known(o).found = seen /\ Known(o).waits # None
      /\ Known(o).opts = Append(r.opts, w) /\ Known(o).rest = r.rest
  BY <1>1, <1>3, <1>7, WordWaits
<1>9. PICK next : next = o + 1
  OBVIOUS
<1>10. /\ next \in Nat /\ next <= argc /\ next - 1 = o
       /\ Tidy(p.argv, p.first, p.last, next, Known(next - 1))
  BY <1>1, <1>3, <1>6, <1>8, <1>9, WordTidy
<1>11. Append(seen, <<Unknown, <<>> >>) = Told(Known(next - 1))
  BY <1>8, <1>10 DEF Told
<1>12. Return(q, next, <<>>, Unknown, <<>>) /\ ~(next < argc)
  BY <1>1, <1>4, <1>9
<1>13. Unknown \in {Unknown} \cup Flags \cup ArgFlags /\ Unknown # End
  BY DEF Unknown, End
<1>14. Tidy(q.argv, q.first, q.last, next, Known(next - 1))
  BY <1>4, <1>10
<1>. QED
  BY <1>1, <1>3, <1>4, <1>10, <1>11, <1>12, <1>13, <1>14, ReturnedBetween

LEMMA ArgumentNextReturned ==
  ASSUME ScanInv, opt # End, ArgumentNext
  PROVE  ScanInv'
<1>. DEFINE p == Resumed
            q == Stepped
            o == p.optind
            n == q.optind
            w == given[o]
            r == Known(o - 1)
<1>1. /\ Vector0 /\ ordering \in {"PERMUTE", "REQUIRE_ORDER"} /\ argc \in Nat
      /\ InOption /\ Char \in ArgFlags /\ Rest = <<>> /\ n # argc
      /\ Return(q, n + 1, <<>>, Char, q.argv[n])
  BY DEF ScanInv, Vector0, ArgumentNext
<1>2. PICK k : Reading1(p, k)
  BY <1>1, OptionRead
<1>3. /\ At(p) /\ (ordering = "REQUIRE_ORDER" => p.first = p.last) /\ Reads(r, o, k)
      /\ Char = w[k] /\ Rest = SubSeq(w, k + 1, Len(w))
  BY <1>2 DEF Reading1
<1>4. /\ q \in Positions /\ q.argv = p.argv /\ q.first = p.first /\ q.last = p.last
      /\ n = o + 1
  BY <1>1, <1>3, SteppedIs
<1>. HIDE DEF p, q
<1>5. PICK s : s = r
  OBVIOUS
<1>6. w \in Strings /\ Len(w) \in Nat /\ k \in 2..Len(w) /\ o \in 1..argc-1
  BY <1>1, <1>3, <1>5, ReadsTypes DEF Reads
<1>7. k = Len(w) /\ w[k] \in ArgFlags
  BY <1>1, <1>3, <1>6, HeadOfChars, SMTT(30)
<1>8. /\ Known(o).found = seen /\ Known(o).waits = w[k] /\ Known(o).waits # None
      /\ Known(o).open /\ Known(o).opts = Append(r.opts, w) /\ Known(o).rest = r.rest
  BY <1>1, <1>3, <1>7, WordWaits
<1>9. /\ n \in Nat /\ n <= argc /\ n - 1 = o
      /\ Tidy(p.argv, p.first, p.last, n, Known(n - 1))
  BY <1>1, <1>3, <1>4, <1>6, <1>8, WordTidy
<1>10. n \in 1..argc-1 /\ At(q)
  BY <1>1, <1>4, <1>6, <1>9 DEF At
<1>11. q.argv[n] = given[n]
  <2>1. n \in n..argc-1
    BY <1>10
  <2>. QED
    BY <1>10, <2>1 DEF At, Tidy
<1>12. /\ Known(n).found = Append(seen, <<w[k], given[n]>>)
       /\ Known(n).waits = None /\ Known(n).open
       /\ Known(n).opts = Append(Known(n - 1).opts, given[n])
       /\ Known(n).rest = Known(n - 1).rest
  BY <1>1, <1>8, <1>9, <1>10, KnownArgument, ZenonT(30)
<1>. HIDE DEF n
<1>13. PICK next : next = n + 1
  OBVIOUS
<1>14. /\ next \in Nat /\ next <= argc /\ next - 1 = n
       /\ Tidy(q.argv, q.first, q.last, next, Known(next - 1))
  BY <1>1, <1>10, <1>12, <1>13, WordTidy DEF n
<1>15. Append(seen, <<Char, q.argv[n]>>) = Told(Known(next - 1))
  BY <1>3, <1>11, <1>12, <1>14 DEF Told
<1>16. Return(q, next, <<>>, Char, q.argv[n])
  BY <1>1, <1>13
<1>17. Known(next - 1).waits = None /\ Known(next - 1).open
  BY <1>12, <1>14
<1>18. Char \in {Unknown} \cup Flags \cup ArgFlags /\ Char # End
  BY <1>1, FlagAssumption
<1>19. ordering = "REQUIRE_ORDER" => q.first = q.last
  BY <1>3, <1>4
<1>. QED
  BY <1>1, <1>4, <1>14, <1>15, <1>16, <1>17, <1>18, <1>19, ReturnedBetween

\* getopt.c: no call leaves the scan of a vector in disorder.
LEMMA ScanStep ==
  ASSUME ScanInv, opt # End, getopt
  PROVE  ScanInv'
<1>1. CASE ScanEnds
  BY <1>1, EndOfScan
<1>2. CASE ScanStops
  BY <1>2, StopOfScan
<1>3. CASE InvalidOption
  <2>1. PICK c \in {Unknown} \cup Flags : c = Unknown
    OBVIOUS
  <2>2. <<c, <<>> >> = PlainOption(Char) /\ Char \notin ArgFlags
    BY <1>3, <2>1 DEF InvalidOption, PlainOption
  <2>. QED
    BY <1>3, <2>1, <2>2, PlainReturned DEF InvalidOption, Unknown, End
<1>4. CASE FlagFound
  <2>1. Char \in {Unknown} \cup Flags /\ Char \notin ArgFlags /\ Char # End
    BY <1>4, FlagAssumption DEF FlagFound
  <2>2. <<Char, <<>> >> = PlainOption(Char)
    BY <1>4 DEF FlagFound, PlainOption
  <2>. QED
    BY <1>4, <2>1, <2>2, PlainReturned DEF FlagFound
<1>5. CASE ArgumentInWord
  BY <1>5, ArgumentInWordReturned
<1>6. CASE ArgumentMissing
  BY <1>6, ArgumentMissingReturned
<1>7. CASE ArgumentNext
  BY <1>7, ArgumentNextReturned
<1>. QED
  BY <1>1, <1>2, <1>3, <1>4, <1>5, <1>6, <1>7 DEF getopt
-----------------------------------------------------------------------------
(* What is returned *)

\* The options in front of the k-th character of a word come first.
LEMMA PlainBegins ==
  ASSUME NEW w \in Strings, NEW k \in 2..Len(w), \A i \in 2..k-1 : w[i] \notin ArgFlags
  PROVE  Begins(PlainOptions(w, k), Options(w).found)
<1>1. Len(w) \in Nat /\ Len(w) >= 2 /\ k \in 2..Len(w)+1
  BY LenProperties DEF Strings
<1>2. PICK s \in Found : s = PlainOptions(w, k) /\ Len(s) = k - 2
  BY <1>1, PlainTypes
<1>3. ASSUME NEW p \in k..Len(w)+1
      PROVE  /\ PlainOptions(w, p) \in Found
             /\ Begins(s, PlainOptions(w, p))
  <2>1. p \in 2..Len(w)+1
    BY <1>1
  <2>2. PICK t \in Found : t = PlainOptions(w, p) /\ Len(t) = p - 2
    BY <2>1, PlainTypes
  <2>3. Len(s) <= Len(t)
    BY <1>1, <1>2, <2>1, <2>2
  <2>4. ASSUME NEW i \in 1..Len(s)
        PROVE  t[i] = s[i]
    <3>1. i \in 1..k-2 /\ i \in 1..p-2
      BY <1>1, <1>2, <2>1
    <3>. QED
      BY <1>2, <2>2, <3>1 DEF PlainOptions
  <2>. QED
    BY <2>2, <2>3, <2>4 DEF Begins
<1>4. CASE \E i \in 2..Len(w) : w[i] \in ArgFlags
  <2>1. PICK p : IsFirst(w, p)
    BY <1>4, FirstOrNone
  <2>2. p \in k..Len(w)+1 /\ p \in 2..Len(w) /\ w[p] \in STRING
    <3>1. p \in 2..Len(w) /\ w[p] \in ArgFlags
      BY <2>1 DEF IsFirst
    <3>2. ~(p \in 2..k-1)
      BY <3>1
    <3>. QED
      BY <1>1, <3>1, <3>2, ElementOfSeq DEF Strings
  <2>3. PICK t \in Found : t = PlainOptions(w, p) /\ Begins(s, t)
    BY <1>3, <2>2
  <2>4. CASE p = Len(w)
    BY <1>2, <2>1, <2>3, <2>4, OptionsArg
  <2>5. CASE p < Len(w)
    <3>. DEFINE e == <<w[p], SubSeq(w, p + 1, Len(w))>>
    <3>1. e \in Answers
      <4>1. \A i \in p+1..Len(w) : w[i] \in STRING
        BY <1>1, <2>2, ElementOfSeq DEF Strings
      <4>2. SubSeq(w, p + 1, Len(w)) \in Strings
        BY <1>1, <2>2, <4>1, SubSeqProperties DEF Strings
      <4>. QED
        BY <2>2, <4>2 DEF Answers, Names
    <3>2. Options(w).found = Append(t, e)
      BY <2>1, <2>3, <2>5, OptionsArg
    <3>. HIDE DEF e
    <3>3. Begins(t, Append(t, e)) /\ Append(t, e) \in Found
      BY <3>1, BeginsAppend, AppendProperties DEF Found
    <3>4. Begins(s, Append(t, e))
      BY <2>3, <3>3, BeginsTransitive DEF Found
    <3>. QED
      BY <1>2, <3>2, <3>4
  <2>. QED
    BY <1>1, <2>2, <2>4, <2>5
<1>5. CASE \A i \in 2..Len(w) : w[i] \notin ArgFlags
  <2>1. Options(w).found = PlainOptions(w, Len(w) + 1)
    BY <1>5, OptionsPlain
  <2>2. Len(w) + 1 \in k..Len(w)+1
    BY <1>1
  <2>. QED
    BY <1>2, <1>3, <2>1, <2>2
<1>. QED
  BY <1>4, <1>5

LEMMA BeginsBehind ==
  ASSUME NEW s \in Found, NEW t \in Found, NEW u \in Found, Begins(t, u)
  PROVE  Begins(s \o t, s \o u)
<1>1. Len(s) \in Nat /\ Len(t) \in Nat /\ Len(u) \in Nat /\ Len(t) <= Len(u)
  BY LenProperties DEF Found, Begins
<1>2. /\ Len(s \o t) = Len(s) + Len(t) /\ Len(s \o u) = Len(s) + Len(u)
      /\ \A i \in 1..Len(s) + Len(t) : (s \o t)[i] = IF i <= Len(s) THEN s[i] ELSE t[i - Len(s)]
      /\ \A i \in 1..Len(s) + Len(u) : (s \o u)[i] = IF i <= Len(s) THEN s[i] ELSE u[i - Len(s)]
  BY ConcatProperties DEF Found
<1>3. ASSUME NEW i \in 1..Len(s) + Len(t)
      PROVE  (s \o u)[i] = (s \o t)[i]
  <2>1. i \in 1..Len(s) + Len(u)
    BY <1>1
  <2>2. CASE i <= Len(s)
    BY <1>2, <2>1, <2>2
  <2>3. CASE ~(i <= Len(s))
    <3>1. i - Len(s) \in 1..Len(t)
      BY <1>1, <2>3
    <3>2. u[i - Len(s)] = t[i - Len(s)]
      BY <3>1 DEF Begins
    <3>. QED
      BY <1>2, <2>1, <2>3, <3>2
  <2>. QED
    BY <2>2, <2>3
<1>. QED
  BY <1>1, <1>2, <1>3 DEF Begins

LEMMA ToldBegins ==
  ASSUME NEW r \in Readings
  PROVE  Told(r) \in Found /\ Begins(r.found, Told(r))
<1>1. r.found \in Found
  BY DEF Readings
<1>2. PICK e \in Answers : e = <<Unknown, <<>> >>
  <2>1. PICK n \in Names, t \in Strings : n = Unknown /\ t = <<>>
    BY EmptySeq, Zenon DEF Names, Strings
  <2>2. <<n, t>> \in Answers
    BY DEF Answers
  <2>. QED
    BY <2>1, <2>2
<1>3. /\ Append(r.found, e) \in Found /\ Begins(r.found, Append(r.found, e))
      /\ Begins(r.found, r.found)
  BY <1>1, BeginsSame, BeginsAppend, AppendProperties DEF Found
<1>. QED
  BY <1>1, <1>2, <1>3 DEF Told

\* The calls return what the words say, in its order.
LEMMA SeenBegins ==
  ASSUME ScanInv
  PROVE  /\ seen \in Found /\ Promised \in Found
         /\ Begins(seen, Promised)
         /\ opt = End => seen = Promised
<1>. DEFINE m == Known(argc - 1)
<1>1. Vector0 /\ argc \in Nat \ {0} /\ argc - 1 \in 0..argc-1
  BY DEF ScanInv, Vector0
<1>2. m \in Readings /\ m.found \in Found
  BY <1>1, KnownTypes
<1>3. Promised = Told(m)
  BY DEF Promised, Told, Meaning, Known
<1>. HIDE DEF m
<1>4. Promised \in Found /\ Begins(m.found, Promised)
  BY <1>2, <1>3, ToldBegins
<1>5. CASE opt = End
  <2>1. seen = Promised
    BY <1>3, <1>5 DEF ScanInv, Settled, m
  <2>. QED
    BY <1>4, <2>1, BeginsSame DEF Found
<1>6. CASE opt # End
  <2>1. At(Position) /\ (Between \/ Inside)
    BY <1>6 DEF ScanInv, InScan
  <2>2. optind \in 1..argc
    BY <1>1, <2>1 DEF At, Tidy, Position
  <2>3. PICK j \in 0..argc-1 : j = optind - 1
    BY <1>1, <2>2
  <2>4. PICK r \in Readings : r = Known(j) /\ r.found \in Found
    BY <1>1, KnownTypes
  <2>5. CASE Between /\ optind = argc
    <3>1. seen = Promised
      BY <1>3, <2>5 DEF Between, m
    <3>. QED
      BY <1>4, <1>6, <3>1, BeginsSame DEF Found
  <2>6. CASE Between /\ optind # argc
    <3>1. seen = r.found
      BY <1>1, <2>2, <2>3, <2>4, <2>6 DEF Between, Told
    <3>2. Begins(r.found, m.found)
      BY <1>1, <2>4, KnownGrows DEF Grows, m
    <3>3. Begins(seen, Promised)
      BY <1>2, <1>4, <2>4, <3>1, <3>2, BeginsTransitive DEF Found
    <3>. QED
      BY <1>4, <1>6, <2>4, <3>1, <3>3
  <2>7. CASE Inside
    <3>1. PICK k : Reads(r, optind, k)
      BY <2>3, <2>4, <2>7 DEF Inside
    <3>2. r = Known(optind - 1)
      BY <2>3, <2>4
    <3>. DEFINE w == given[optind]
    <3>3. w \in Strings /\ k \in 2..Len(w) /\ PlainOptions(w, k) \in Found /\ seen \in Found
      BY <1>1, <3>1, <3>2, ReadsTypes
    <3>4. /\ optind \in 1..argc-1 /\ r.waits = None /\ r.open /\ ~Nonoption(w) /\ w # Dashes
          /\ \A i \in 2..k-1 : w[i] \notin ArgFlags
          /\ seen = r.found \o PlainOptions(w, k)
      BY <3>1 DEF Reads
    <3>5. Known(optind).found = r.found \o Options(w).found
      BY <1>1, <3>2, <3>4, KnownOption
    <3>. HIDE DEF w
    <3>6. Options(w).found \in Found
      <4>1. Len(w) >= 2
        BY <3>3, <3>4 DEF Nonoption
      <4>. QED
        BY <3>3, <4>1, OptionsTypes
    <3>7. Begins(PlainOptions(w, k), Options(w).found)
      BY <3>3, <3>4, PlainBegins
    <3>8. Begins(seen, Known(optind).found)
      BY <2>4, <3>3, <3>4, <3>5, <3>6, <3>7, BeginsBehind
    <3>9. optind \in 0..argc-1 /\ argc - 1 \in optind..argc-1
      BY <1>1, <3>4
    <3>10. Begins(Known(optind).found, m.found) /\ Known(optind).found \in Found
      BY <1>1, <3>9, KnownGrows, KnownTypes DEF Grows, m
    <3>11. Begins(seen, m.found)
      BY <1>2, <3>3, <3>8, <3>10, BeginsTransitive DEF Found
    <3>12. Begins(seen, Promised)
      BY <1>2, <1>4, <3>3, <3>11, BeginsTransitive DEF Found
    <3>. QED
      BY <1>4, <1>6, <3>3, <3>12
  <2>. QED
    BY <2>1, <2>5, <2>6, <2>7
<1>. QED
  BY <1>5, <1>6

\* No call reads behind the end of the vector.
LEMMA NotBehind ==
  ASSUME ScanInv
  PROVE  ~Beyond
<1>1. Vector0 /\ argc \in Nat \ {0} /\ argc - 1 \in 0..argc-1
  BY DEF ScanInv, Vector0
<1>2. CASE opt = End
  <2>1. nextchar = <<>> /\ Sorted(argv, optind)
    BY <1>2 DEF ScanInv, Settled
  <2>2. Known(argc - 1).opts \in Seq(Strings) /\ Known(argc - 1).rest \in Seq(Strings)
    BY <1>1, KnownTypes
  <2>3. Len(Known(argc - 1).opts) \in Nat /\ Len(Known(argc - 1).rest) \in Nat
    BY <2>2, LenProperties
  <2>4. optind <= argc
    <3>1. PICK x \in Nat, y \in Nat : x = Len(Known(argc - 1).opts) /\ y = Len(Known(argc - 1).rest)
      BY <2>3
    <3>2. optind = 1 + x /\ x + y = argc - 1
      BY <2>1, <3>1 DEF Sorted
    <3>. QED
      BY <1>1, <3>2
  <2>5. Len(nextchar) = 0 /\ optind \in Int
    BY <2>1, <2>3 DEF Sorted
  <2>. QED
    BY <1>1, <2>4, <2>5 DEF Beyond
<1>3. CASE opt # End
  <2>1. At(Position) /\ (Between \/ Inside)
    BY <1>3 DEF ScanInv, InScan
  <2>2. optind \in 1..argc
    BY <1>1, <2>1 DEF At, Tidy, Position
  <2>3. CASE Between
    <3>1. nextchar = <<>> /\ Len(nextchar) = 0
      BY <2>3 DEF Between
    <3>. QED
      BY <1>1, <2>2, <3>1 DEF Beyond
  <2>4. CASE Inside
    <3>1. PICK k \in 3..Len(given[optind]) :
            /\ Reads(Known(optind - 1), optind, k)
            /\ nextchar = SubSeq(given[optind], k, Len(given[optind]))
      BY <2>4 DEF Inside
    <3>2. PICK r : r = Known(optind - 1)
      OBVIOUS
    <3>3. given[optind] \in Strings /\ k \in 2..Len(given[optind])
      BY <1>1, <3>1, <3>2, ReadsTypes
    <3>4. nextchar # <<>>
      BY <3>1, <3>3, HeadOfChars
    <3>5. optind \in 1..argc-1
      BY <3>1 DEF Reads
    <3>. QED
      BY <1>1, <3>4, <3>5 DEF Beyond
  <2>. QED
    BY <2>1, <2>3, <2>4
<1>. QED
  BY <1>2, <1>3
-----------------------------------------------------------------------------
(* The first scan of a process *)

\* The state in which the first scan of a process begins.
Beginning ==
  /\ argc \in Nat \ {0}
  /\ argv \in [Indices -> Strings]
  /\ given = argv
  /\ seen = <<>>
  /\ opt = None
  /\ InitStatics

LEMMA ScanBegins == Beginning => ScanInv
<1>. SUFFICES ASSUME Beginning PROVE ScanInv
  OBVIOUS
<1>1. /\ argc \in Nat \ {0} /\ argv \in [Indices -> Strings] /\ given = argv
      /\ seen = <<>> /\ opt = None /\ optind = 1 /\ first_nonopt = 1 /\ last_nonopt = 1
      /\ nextchar = <<>> /\ ordering \in Orderings
  BY DEF Beginning, InitStatics
<1>2. argc \in Nat \ {0} /\ argv \in [Indices -> Strings]
  BY <1>1
<1>3. Vector0 /\ ordering \in {"PERMUTE", "REQUIRE_ORDER"}
  BY <1>1, <1>2, OrderingAssumption DEF Vector0
<1>4. Known(0) = Unread
  BY <1>3, KnownDefined
<1>5. /\ Unread.found = <<>> /\ Unread.waits = None /\ Unread.open
      /\ Unread.opts = <<>> /\ Unread.rest = <<>>
  BY DEF Unread
<1>6. Between
  BY <1>1, <1>4, <1>5 DEF Between, Told
<1>7. At(Position)
  <2>1. Tidy(argv, 1, 1, 1, Unread)
    <3>1. Len(Unread.opts) = 0 /\ Len(Unread.rest) = 0
      BY <1>5
    <3>. QED
      BY <1>1, <1>2, <3>1 DEF Tidy
  <2>2. /\ Position.argv = argv /\ Position.first = 1 /\ Position.last = 1 /\ Position.optind = 1
        /\ Position \in Positions
    BY <1>1, <1>2 DEF Position, Positions
  <2>3. Known(1 - 1) = Unread
    BY <1>4
  <2>. HIDE DEF Position
  <2>. QED
    BY <2>1, <2>2, <2>3 DEF At
<1>8. opt # End
  BY <1>1 DEF None, End
<1>. QED
  BY <1>1, <1>3, <1>6, <1>7, <1>8 DEF ScanInv, InScan

LEMMA StutterScan == ScanInv /\ UNCHANGED getoptVars => ScanInv'
<1>. SUFFICES ASSUME ScanInv, UNCHANGED getoptVars PROVE ScanInv'
  OBVIOUS
<1>1. /\ argc' = argc /\ argv' = argv /\ optind' = optind /\ first_nonopt' = first_nonopt
      /\ last_nonopt' = last_nonopt /\ nextchar' = nextchar /\ ordering' = ordering
      /\ opt' = opt /\ given' = given /\ seen' = seen
  BY DEF getoptVars, statics
<1>2. /\ Vector0' = Vector0 /\ Indices' = Indices /\ Position' = Position
  BY <1>1 DEF Vector0, Indices, Position
<1>. QED
  BY <1>1, <1>2
    DEF ScanInv, InScan, Settled, At, Tidy, Known, Between, Inside, Reads, Sorted, Told, Positions
=============================================================================
