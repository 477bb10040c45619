-------------------------- MODULE GetoptScanProofs --------------------------
(***************************************************************************)
(* What getopt promises to a caller that scans a vector from the start of  *)
(* the process until it returns -1, for every vector of words, all option  *)
(* characters and both orderings.                                          *)
(***************************************************************************)
EXTENDS GetoptScan, GetoptProofs

(* The invariant *)

LEMMA InitScan == Init => ScanInv
<1>1. Init => Beginning
  BY VectorAssumption DEF Init, Beginning, Strings, Indices
<1>. QED
  BY <1>1, ScanBegins

\* The invariant of the scan holds in every reachable state.
THEOREM ScanInvariant == Spec => []ScanInv
<1>1. ScanInv /\ [Next]_getoptVars => ScanInv'
  BY ScanStep, StutterScan DEF Next, Call, Finished
<1>. QED
  BY <1>1, InitScan, PTL DEF Spec
-----------------------------------------------------------------------------
(* The promises *)

LEMMA BeginsPrefix ==
  ASSUME NEW S, NEW s \in Seq(S), NEW t \in Seq(S), Begins(s, t)
  PROVE  Prefix(s, t)
<1>1. Len(s) \in Nat /\ Len(t) \in Nat /\ Len(s) <= Len(t)
  BY LenProperties DEF Begins
<1>2. \A i \in 1..Len(s) : t[i] \in S
  BY <1>1, ElementOfSeq
<1>3. /\ SubSeq(t, 1, Len(s)) \in Seq(S)
      /\ Len(SubSeq(t, 1, Len(s))) = Len(s)
      /\ \A i \in 1..Len(s) : SubSeq(t, 1, Len(s))[i] = t[i]
  <2>1. /\ SubSeq(t, 1, Len(s)) \in Seq(S)
        /\ Len(SubSeq(t, 1, Len(s))) = IF 1 <= Len(s) THEN Len(s) - 1 + 1 ELSE 0
        /\ \A i \in 1..Len(s) - 1 + 1 : SubSeq(t, 1, Len(s))[i] = t[1 + i - 1]
    BY <1>1, <1>2, SubSeqProperties
  <2>2. Len(s) - 1 + 1 = Len(s) /\ \A i \in 1..Len(s) : 1 + i - 1 = i
    BY <1>1
  <2>. QED
    BY <1>1, <2>1, <2>2
<1>4. \A i \in 1..Len(s) : s[i] = SubSeq(t, 1, Len(s))[i]
  BY <1>3 DEF Begins
<1>5. s = SubSeq(t, 1, Len(s))
  BY <1>3, <1>4, SeqEqual
<1>. QED
  BY <1>1, <1>5 DEF Prefix

\* Every variable stays in its type and the indices in the vector.
THEOREM TypesHold == Spec => []TypeOK
<1>1. ScanInv => TypeOK
  <2>. SUFFICES ASSUME ScanInv PROVE TypeOK
    OBVIOUS
  <2>1. /\ argc \in Nat \ {0} /\ ordering \in {"PERMUTE", "REQUIRE_ORDER"}
        /\ opt \in {None, End, Unknown} \cup Flags \cup ArgFlags /\ argc - 1 \in 0..argc-1
        /\ Vector0
    BY DEF ScanInv, Vector0
  <2>2. CASE opt = End
    <3>1. Sorted(argv, optind) /\ first_nonopt \in 1..last_nonopt /\ last_nonopt \in 1..argc
      BY <2>2 DEF ScanInv, Settled
    <3>2. Known(argc - 1).opts \in Seq(Strings) /\ Known(argc - 1).rest \in Seq(Strings)
      BY <2>1, KnownTypes
    <3>3. PICK x \in Nat, y \in Nat : x = Len(Known(argc - 1).opts) /\ y = Len(Known(argc - 1).rest)
      BY <3>2, LenProperties
    <3>4. optind = 1 + x /\ x + y = argc - 1 /\ DOMAIN argv = Indices
      BY <3>1, <3>3 DEF Sorted
    <3>5. optind \in 1..argc
      BY <2>1, <3>4
    <3>. QED
      BY <2>1, <3>1, <3>4, <3>5 DEF TypeOK
  <2>3. CASE opt # End
    <3>1. At(Position)
      BY <2>3 DEF ScanInv, InScan
    <3>. QED
      BY <2>1, <3>1 DEF At, Tidy, Position, TypeOK
  <2>. QED
    BY <2>2, <2>3
<1>. QED
  BY <1>1, ScanInvariant, PTL

\* input.c:307: however a vector ends, no call reads behind its end.
THEOREM NeverReadsBeyond == Spec => []NeverBeyond
<1>1. ScanInv => NeverBeyond
  BY NotBehind DEF NeverBeyond
<1>. QED
  BY <1>1, ScanInvariant, PTL

\* getopt.c:457-464: the calls return each option of each option word with its
\* own argument, in the order of the words, though the words move meanwhile.
THEOREM OptionsToldInOrder == Spec => []ToldInOrder
<1>1. ScanInv => ToldInOrder
  BY SeenBegins, BeginsPrefix DEF ToldInOrder, Found
<1>. QED
  BY <1>1, ScanInvariant, PTL

\* The words p..q-1 and the ones from u to v-1 are a sequence.
LEMMA WordsTypes ==
  ASSUME NEW p \in Nat, NEW q \in Nat, p <= q, q <= argc, argc \in Nat,
         argv \in [Indices -> Strings]
  PROVE  /\ Words(p, q) \in Seq(Strings) /\ Len(Words(p, q)) = q - p
         /\ \A i \in 1..q-p : Words(p, q)[i] = argv[p + i - 1]
<1>1. ASSUME NEW i \in 1..q-p
      PROVE  argv[p + i - 1] \in Strings
  <2>1. p + i - 1 \in Indices
    BY DEF Indices
  <2>. QED
    BY <2>1
<1>2. q - p \in Nat /\ Words(p, q) \in [1..q-p -> Strings]
  BY <1>1 DEF Words
<1>3. PICK n \in Nat : n = q - p
  BY <1>2
<1>4. Words(p, q) \in Seq(Strings) /\ Len(Words(p, q)) = n
  BY <1>2, <1>3, SeqDef
<1>. QED
  BY <1>3, <1>4 DEF Words

\* While a scan goes on, the words before optind are what was read, in order.
LEMMA TidyArranged ==
  ASSUME Vector0, NEW r \in Readings, Tidy(argv, first_nonopt, last_nonopt, optind, r)
  PROVE  /\ Words(first_nonopt, last_nonopt) = r.rest
         /\ Words(1, first_nonopt) \o Words(last_nonopt, optind) = r.opts
<1>. DEFINE f == first_nonopt
            l == last_nonopt
            o == optind
<1>1. /\ f \in Nat /\ l \in Nat /\ o \in Nat /\ argc \in Nat
      /\ 1 <= f /\ f <= l /\ l <= o /\ o <= argc
      /\ argv \in [Indices -> Strings]
      /\ Len(r.opts) = f - 1 + o - l /\ Len(r.rest) = l - f
  BY DEF Tidy, Vector0
<1>2. r.opts \in Seq(Strings) /\ r.rest \in Seq(Strings)
  BY DEF Readings
<1>3. Words(f, l) = r.rest
  <2>1. /\ Words(f, l) \in Seq(Strings) /\ Len(Words(f, l)) = l - f
        /\ \A i \in 1..l-f : Words(f, l)[i] = argv[f + i - 1]
    BY <1>1, WordsTypes
  <2>2. ASSUME NEW i \in 1..l-f
        PROVE  r.rest[i] = argv[f + i - 1]
    <3>1. PICK j \in f..l-1 : j = f + i - 1 /\ j - f + 1 = i
      BY <1>1
    <3>2. r.rest[j - f + 1] = argv[j]
      BY DEF Tidy
    <3>. QED
      BY <3>1, <3>2
  <2>3. \A i \in 1..Len(Words(f, l)) : Words(f, l)[i] = r.rest[i]
    BY <2>1, <2>2
  <2>. QED
    BY <1>1, <1>2, <2>1, <2>3, SeqEqual
<1>4. Words(1, f) \o Words(l, o) = r.opts
  <2>1. PICK s \in Seq(Strings) : /\ s = Words(1, f) /\ Len(s) = f - 1
                                  /\ \A i \in 1..f-1 : s[i] = argv[1 + i - 1]
    BY <1>1, WordsTypes
  <2>2. PICK t \in Seq(Strings) : /\ t = Words(l, o) /\ Len(t) = o - l
                                  /\ \A i \in 1..o-l : t[i] = argv[l + i - 1]
    BY <1>1, WordsTypes
  <2>3. /\ s \o t \in Seq(Strings) /\ Len(s \o t) = (f - 1) + (o - l)
        /\ \A i \in 1..(f - 1) + (o - l) :
             (s \o t)[i] = IF i <= f - 1 THEN s[i] ELSE t[i - (f - 1)]
    BY <2>1, <2>2, ConcatProperties
  <2>4. Len(s \o t) = Len(r.opts)
    BY <1>1, <2>3
  <2>5. ASSUME NEW i \in 1..(f - 1) + (o - l)
        PROVE  (s \o t)[i] = r.opts[i]
    <3>1. CASE i <= f - 1
      <4>1. i \in 1..f-1 /\ 1 + i - 1 = i
        BY <1>1, <3>1
      <4>2. r.opts[i] = argv[i]
        BY <4>1 DEF Tidy
      <4>3. s[i] = argv[i]
        BY <2>1, <4>1
      <4>. QED
        BY <2>3, <3>1, <4>2, <4>3
    <3>2. CASE ~(i <= f - 1)
      <4>1. PICK j \in l..o-1 : j = l + (i - (f - 1)) - 1 /\ j - l + f = i
        BY <1>1, <3>2
      <4>2. i - (f - 1) \in 1..o-l
        BY <1>1, <3>2
      <4>3. r.opts[j - l + f] = argv[j]
        BY DEF Tidy
      <4>4. t[i - (f - 1)] = argv[j]
        BY <2>2, <4>1, <4>2
      <4>. QED
        BY <2>3, <3>2, <4>1, <4>3, <4>4
    <3>. QED
      BY <3>1, <3>2
  <2>6. \A i \in 1..Len(s \o t) : (s \o t)[i] = r.opts[i]
    BY <2>3, <2>5
  <2>. QED
    BY <1>2, <2>1, <2>2, <2>3, <2>4, <2>6, SeqEqual
<1>. QED
  BY <1>3, <1>4

\* At the end the options are followed by the other words.
LEMMA SortedArranged ==
  ASSUME Vector0, Sorted(argv, optind)
  PROVE  Words(1, argc) = Known(argc - 1).opts \o Known(argc - 1).rest
<1>1. argc \in Nat /\ 1 <= argc /\ argc - 1 \in 0..argc-1 /\ argv \in [Indices -> Strings]
  BY DEF Vector0, Sorted
<1>2. PICK r \in Readings : r = Known(argc - 1)
  BY <1>1, KnownTypes
<1>3. r.opts \in Seq(Strings) /\ r.rest \in Seq(Strings)
  BY DEF Readings
<1>4. PICK x \in Nat, y \in Nat : x = Len(r.opts) /\ y = Len(r.rest)
  BY <1>3, LenProperties
<1>5. optind = 1 + x /\ x + y = argc - 1
  BY <1>2, <1>4 DEF Sorted
<1>6. /\ r.opts \o r.rest \in Seq(Strings) /\ Len(r.opts \o r.rest) = x + y
      /\ \A i \in 1..x+y : (r.opts \o r.rest)[i] = IF i <= x THEN r.opts[i] ELSE r.rest[i - x]
  BY <1>3, <1>4, ConcatProperties
<1>7. PICK s \in Seq(Strings) : /\ s = Words(1, argc) /\ Len(s) = argc - 1
                                /\ \A i \in 1..argc-1 : s[i] = argv[1 + i - 1]
  BY <1>1, WordsTypes
<1>8. ASSUME NEW i \in 1..argc-1
      PROVE  s[i] = (r.opts \o r.rest)[i]
  <2>1. i \in 1..x+y /\ 1 + i - 1 = i
    BY <1>5
  <2>2. s[i] = argv[i]
    BY <1>7, <2>1
  <2>3. CASE i <= x
    <3>1. i \in 1..optind-1
      BY <1>5, <2>3
    <3>2. r.opts[i] = argv[i]
      BY <1>2, <3>1 DEF Sorted
    <3>. QED
      BY <1>6, <2>1, <2>2, <2>3, <3>2
  <2>4. CASE ~(i <= x)
    <3>1. i \in optind..argc-1 /\ i - optind + 1 = i - x
      BY <1>1, <1>5, <2>4
    <3>2. r.rest[i - optind + 1] = argv[i]
      BY <1>2, <3>1 DEF Sorted
    <3>. QED
      BY <1>6, <2>1, <2>2, <2>4, <3>1, <3>2
  <2>. QED
    BY <2>3, <2>4
<1>9. Len(s) = Len(r.opts \o r.rest) /\ \A i \in 1..Len(s) : s[i] = (r.opts \o r.rest)[i]
  BY <1>5, <1>6, <1>7, <1>8
<1>10. s = r.opts \o r.rest
  BY <1>6, <1>9, SeqEqual
<1>. QED
  BY <1>2, <1>7, <1>10

\* getopt.c:249-251, 290-293, 466-469: between two calls the non-options skipped
\* and the options scanned are in the order they were typed; at the end the
\* options come first, and no word is lost or doubled.
THEOREM WordsArranged == Spec => []Arranged
<1>1. ScanInv => Arranged
  <2>. SUFFICES ASSUME ScanInv PROVE Arranged
    OBVIOUS
  <2>1. Vector0 /\ argc \in Nat \ {0} /\ Meaning = Known(argc - 1)
    BY DEF ScanInv, Vector0, Meaning, Known
  <2>2. CASE opt = End
    <3>1. Sorted(argv, optind)
      BY <2>2 DEF ScanInv, Settled
    <3>2. argv[0] = given[0] /\ optind = 1 + Len(Meaning.opts)
      BY <2>1, <3>1 DEF Sorted
    <3>. QED
      BY <2>1, <2>2, <3>1, <3>2, SortedArranged DEF Arranged
  <2>3. CASE opt # End
    <3>1. Tidy(argv, first_nonopt, last_nonopt, optind, Known(optind - 1))
      BY <2>3 DEF ScanInv, InScan, At, Position
    <3>2. optind \in 1..argc
      BY <2>1, <3>1 DEF Tidy
    <3>3. PICK j \in 0..argc-1 : j = optind - 1
      BY <2>1, <3>2
    <3>4. PICK r \in Readings : r = Known(j) /\ r.opts \in Seq(Strings) /\ r.rest \in Seq(Strings)
      BY <2>1, KnownTypes
    <3>5. /\ Words(first_nonopt, last_nonopt) = r.rest
          /\ Words(1, first_nonopt) \o Words(last_nonopt, optind) = r.opts
      BY <2>1, <3>1, <3>3, <3>4, TidyArranged
    <3>6. PICK m \in Readings : m = Meaning /\ m.opts \in Seq(Strings) /\ m.rest \in Seq(Strings)
      <4>1. argc - 1 \in 0..argc-1
        BY <2>1
      <4>. QED
        BY <2>1, <4>1, KnownTypes
    <3>7. Begins(r.opts, m.opts) /\ Begins(r.rest, m.rest)
      <4>1. argc - 1 \in j..argc-1
        BY <2>1
      <4>. QED
        BY <2>1, <3>4, <3>6, <4>1, KnownGrows DEF Grows
    <3>8. Prefix(r.opts, m.opts) /\ Prefix(r.rest, m.rest)
      BY <3>4, <3>6, <3>7, BeginsPrefix
    <3>. QED
      BY <2>3, <3>5, <3>6, <3>8 DEF Arranged
  <2>. QED
    BY <2>2, <2>3
<1>. QED
  BY <1>1, ScanInvariant, PTL
=============================================================================
