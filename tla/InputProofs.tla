---------------------------- MODULE InputProofs ----------------------------
(***************************************************************************)
(* Proofs about Input, for every set of command lines and flags, and every *)
(* width of the numbers.                                                   *)
(***************************************************************************)
EXTENDS Input, FloatProofs, GetoptProofs

(* Type correctness *)

\* What a number that was read may be.
Readable == [kind : {"finite"}, n : Int] \cup {Inf, NaN, [kind |-> "inf", n |-> -1]}

LEMMA ReadableKinds ==
  ASSUME NEW f \in Readable
  PROVE  /\ f.kind \in {"finite", "inf", "nan"}
         /\ f.n \in Int
         /\ f.kind = "finite" => f = Finite(f.n)
         /\ f.kind = "inf" => f.n \in {1, -1}
         /\ f.kind = "nan" => f.n = 0
BY DEF Readable, Finite, Inf, NaN

LEMMA AsFloatTypes ==
  ASSUME NEW f \in Readable
  PROVE  /\ AsFloat(f) \in Readable
         /\ Negated(AsFloat(f)) \in Readable
<1>1. CASE f.kind = "finite"
  <2>1. f.n \in Int
    BY ReadableKinds
  <2>2. PICK r \in Int : r = Rounded(f.n)
    BY <2>1, RoundedInt
  <2>3. AsFloat(f) = [kind |-> "finite", n |-> r]
    BY <1>1, <2>2 DEF AsFloat, Finite
  <2>4. Negated(AsFloat(f)) = [kind |-> "finite", n |-> -r]
    BY <2>3 DEF Negated
  <2>. QED
    BY <2>3, <2>4 DEF Readable
<1>2. CASE f.kind # "finite"
  <2>1. AsFloat(f) = f /\ f \in {Inf, NaN, [kind |-> "inf", n |-> -1]}
    BY <1>2 DEF AsFloat, Readable
  <2>2. Negated(f) \in {Inf, NaN, [kind |-> "inf", n |-> -1]}
    BY <2>1 DEF Negated, Inf, NaN
  <2>. QED
    BY <2>1, <2>2 DEF Readable
<1>. QED
  BY <1>1, <1>2

LEMMA FloatsReadable ==
  ASSUME NEW t \in DOMAIN Floats
  PROVE  Floats[t] \in Readable
BY NumberAssumption DEF Readable

LEMMA StrtofTypes ==
  ASSUME NEW w
  PROVE  Strtof(w).val \in Readable
<1>1. CASE w # <<>> /\ w[1] \in DOMAIN Floats
  BY <1>1, FloatsReadable, AsFloatTypes DEF Strtof
<1>2. CASE ~(w # <<>> /\ w[1] \in DOMAIN Floats)
           /\ Len(w) > 1 /\ w[1] = "-" /\ w[2] \in DOMAIN Floats
  <2>1. Strtof(w).val = Negated(AsFloat(Floats[w[2]]))
    BY <1>2 DEF Strtof
  <2>. QED
    BY <1>2, <2>1, FloatsReadable, AsFloatTypes
<1>3. CASE /\ ~(w # <<>> /\ w[1] \in DOMAIN Floats)
           /\ ~(Len(w) > 1 /\ w[1] = "-" /\ w[2] \in DOMAIN Floats)
  BY <1>3 DEF Strtof, Readable, Finite
<1>. QED
  BY <1>1, <1>2, <1>3

\* Numbers that are not negative, or no numbers.
Unsigned(f) == f \in Readable /\ (f.kind = "finite" => f.n \in Nat)

LEMMA TimesUnsigned ==
  ASSUME NEW f, Unsigned(f), NEW k \in Nat
  PROVE  Unsigned(Times(f, k))
<1>1. CASE f.kind = "finite"
  <2>1. PICK n \in Nat : n = f.n * k
    BY <1>1 DEF Unsigned
  <2>2. PICK r \in Nat : r = Rounded(n)
    BY RoundedNear
  <2>3. Times(f, k) = [kind |-> "finite", n |-> r]
    BY <1>1, <2>1, <2>2 DEF Times, AsFloat, Finite
  <2>. QED
    BY <2>3 DEF Unsigned, Readable
<1>2. CASE f.kind # "finite"
  <2>1. Times(f, k) = f
    BY <1>2 DEF Times, AsFloat
  <2>. QED
    BY <2>1
<1>. QED
  BY <1>1, <1>2

LEMMA StartUnsigned ==
  ASSUME NEW w, ValidStart(w)
  PROVE  Unsigned(Start(w).val)
<1>1. Unsigned(Strtof(w).val)
  <2>1. PICK f \in Readable : f = Strtof(w).val
    BY StrtofTypes
  <2>. QED
    BY <2>1, ReadableKinds DEF ValidStart, IsNegative, Unsigned
<1>2. Kilo \in Nat /\ Mega \in Nat
  BY NumberAssumption
<1>3. PICK r : r = Strtof(w)
  OBVIOUS
<1>4. /\ Start(w).val \in {r.val, Times(r.val, Kilo), Times(r.val, Mega)}
  BY <1>3 DEF Start, apply_frequency_suffix
<1>. QED
  BY <1>1, <1>2, <1>3, <1>4, TimesUnsigned

LEMMA SecondUnsigned ==
  ASSUME NEW w, ~IsNegative(Second(w).val)
  PROVE  Unsigned(Second(w).val)
<1>1. PICK f \in Readable : f = Second(w).val
  BY StrtofTypes DEF Second
<1>. QED
  BY <1>1, ReadableKinds DEF IsNegative, Unsigned

LEMMA ToUint32Types ==
  ASSUME NEW f, Unsigned(f)
  PROVE  ToUint32(f) \subseteq 0..FreqSpan-1
<1>1. FreqSpan \in Nat \ {0} /\ PerHertz \in Nat \ {0}
  BY NumberAssumption
<1>2. CASE f.kind # "finite"
  BY <1>1, <1>2 DEF ToUint32
<1>3. CASE f.kind = "finite"
  <2>1. f.n \in Nat
    BY <1>3 DEF Unsigned
  <2>2. PICK h \in Nat : h = f.n \div PerHertz
    <3>1. f.n \div PerHertz \in Nat
      BY <1>1, <2>1, Division
    <3>. QED
      BY <3>1
  <2>3. h % FreqSpan \in 0..FreqSpan-1
    BY <1>1
  <2>4. ToUint32(f) = IF h < FreqSpan THEN {h} ELSE {0, FreqSpan - 1, h % FreqSpan}
    BY <1>3, <2>2 DEF ToUint32
  <2>. QED
    BY <1>1, <2>3, <2>4
<1>. QED
  BY <1>2, <1>3

LEMMA AtoiTypes ==
  ASSUME NEW w
  PROVE  Atoi(w) \in IntRange
<1>1. PICK half \in Nat : half = IntSpan \div 2 /\ IntSpan = 2 * half /\ half >= 4
  BY NumberAssumption
<1>2. PICK n \in Int :
        n = IF w # <<>> /\ w[1] \in DOMAIN Ints THEN Ints[w[1]]
            ELSE IF Len(w) > 1 /\ w[1] = "-" /\ w[2] \in DOMAIN Ints THEN -Ints[w[2]]
            ELSE 0
  BY NumberAssumption
<1>3. (n + half) % IntSpan \in 0..IntSpan-1
  BY <1>1
<1>4. Atoi(w) = ((n + half) % IntSpan) - half
  BY <1>1, <1>2, Zenon DEF Atoi
<1>. QED
  BY <1>1, <1>3, <1>4 DEF IntRange
LEMMA DefaultTypes == Default \in program_input_s
<1>1. FreqSpan \in Nat \ {0} /\ 0 \in IntRange /\ 3 \in IntRange
  <2>1. PICK half \in Nat : half = IntSpan \div 2 /\ half >= 4
    BY NumberAssumption
  <2>. QED
    BY <2>1, NumberAssumption DEF IntRange
<1>. QED
  BY <1>1 DEF Default, program_input_s

\* A field that an option sets keeps the struct in its type.
LEMMA FieldTypes ==
  ASSUME NEW i \in program_input_s, NEW c \in ArgFlags, NEW v \in IntRange
  PROVE  [i EXCEPT ![Field[c]] = v] \in program_input_s
<1>1. c \in {"t", "h", "c"}
  BY FieldAssumption DEF Field
<1>2. CASE c = "t"
  BY <1>2 DEF Field, program_input_s
<1>3. CASE c = "h"
  BY <1>3 DEF Field, program_input_s
<1>4. CASE c = "c"
  BY <1>4 DEF Field, program_input_s
<1>. QED
  BY <1>1, <1>2, <1>3, <1>4

LEMMA ArgumentIsOption ==
  ASSUME ArgumentInWord \/ ArgumentNext
  PROVE  opt' \in ArgFlags
BY DEF ArgumentInWord, ArgumentNext, Return

LEMMA ReturnsTypes ==
  ASSUME TypeOK, NEW r \in {"accepted", "rejected"}, Returns(r)
  PROVE  pc' = "idle" /\ result' = r /\ input' \in program_input_s
BY DefaultTypes DEF Returns, TypeOK

LEMMA TypesKept == TypeOK /\ [Next]_vars => TypeOK'
<1>. SUFFICES ASSUME TypeOK, [Next]_vars PROVE TypeOK'
  OBVIOUS
<1>. DEFINE Pcs == {"idle", "help", "scan", "range", "mode", "condense", "flags", "undefined"}
<1>1. CASE StartParse
  BY <1>1, DefaultTypes DEF StartParse, TypeOK
<1>2. CASE check_help_command
  BY <1>2, ReturnsTypes DEF check_help_command, TypeOK
<1>3. CASE check_scan_command
  <2>1. CASE IsScan(line)
    <3>1. [input EXCEPT !.subcommand = "scan"] \in program_input_s
      BY DEF TypeOK, program_input_s
    <3>. QED
      BY <1>3, <2>1, <3>1 DEF check_scan_command, TypeOK
  <2>2. CASE ~IsScan(line)
    BY <1>3, <2>2, ReturnsTypes DEF check_scan_command, Reject, TypeOK
  <2>. QED
    BY <2>1, <2>2
<1>4. CASE sanitize_frequency_range
  <2>. DEFINE w == line[2]
  <2>1. ASSUME NEW f \in 0..FreqSpan-1, NEW g \in 0..FreqSpan-1
        PROVE  [input EXCEPT !.freq_start = f, !.freq_end = g] \in program_input_s
    BY DEF TypeOK, program_input_s
  <2>2. CASE /\ OneFrequency(w)
             /\ \E f \in ToUint32(Start(w).val) :
                  input' = [input EXCEPT !.freq_start = f, !.freq_end = f]
             /\ pc' = "mode"
             /\ UNCHANGED result
    <3>1. ToUint32(Start(w).val) \subseteq 0..FreqSpan-1
      BY <2>2, StartUnsigned, ToUint32Types DEF OneFrequency
    <3>2. input' \in program_input_s
      BY <2>1, <2>2, <3>1
    <3>. QED
      BY <1>4, <2>2, <3>2 DEF sanitize_frequency_range, TypeOK
  <2>3. CASE /\ TwoFrequencies(w)
             /\ \E f \in ToUint32(Start(w).val), g \in ToUint32(Second(w).val) :
                  input' = [input EXCEPT !.freq_start = f, !.freq_end = g]
             /\ pc' = "mode"
             /\ UNCHANGED result
    <3>1. ToUint32(Start(w).val) \subseteq 0..FreqSpan-1
      BY <2>3, StartUnsigned, ToUint32Types DEF TwoFrequencies
    <3>2. ToUint32(Second(w).val) \subseteq 0..FreqSpan-1
      BY <2>3, SecondUnsigned, ToUint32Types DEF TwoFrequencies
    <3>3. input' \in program_input_s
      <4>1. PICK f \in ToUint32(Start(w).val) : \E g \in ToUint32(Second(w).val) :
              input' = [input EXCEPT !.freq_start = f, !.freq_end = g]
        BY <2>3, Zenon
      <4>2. PICK g \in ToUint32(Second(w).val) :
              input' = [input EXCEPT !.freq_start = f, !.freq_end = g]
        BY <4>1, Zenon
      <4>3. f \in 0..FreqSpan-1 /\ g \in 0..FreqSpan-1
        BY <3>1, <3>2, Zenon
      <4>. QED
        BY <2>1, <4>2, <4>3, Zenon
    <3>. QED
      BY <1>4, <2>3, <3>3 DEF sanitize_frequency_range, TypeOK
  <2>4. CASE Reject
    BY <1>4, <2>4, ReturnsTypes DEF sanitize_frequency_range, Reject, TypeOK
  <2>. QED
    BY <1>4, <2>2, <2>3, <2>4 DEF sanitize_frequency_range
<1>5. CASE demod_mode
  <2>1. ASSUME NEW m \in {"am", "fm", "wbfm"}
        PROVE  [input EXCEPT !.demod_mode = m] \in program_input_s
    BY DEF TypeOK, program_input_s
  <2>2. CASE /\ \E m \in {"am", "fm", "wbfm"} : input' = [input EXCEPT !.demod_mode = m]
             /\ pc' = "condense"
             /\ UNCHANGED result
    BY <1>5, <2>1, <2>2 DEF demod_mode, TypeOK
  <2>3. CASE Reject
    BY <1>5, <2>3, ReturnsTypes DEF demod_mode, Reject, TypeOK
  <2>4. CASE pc' = "undefined" /\ UNCHANGED <<input, result>>
    BY <1>5, <2>4 DEF demod_mode, TypeOK
  <2>. QED
    BY <1>5, <2>2, <2>3, <2>4 DEF demod_mode
<1>6. CASE condense_flags
  BY <1>6 DEF condense_flags, TypeOK
<1>7. CASE FlagsEnd
  BY <1>7, ReturnsTypes DEF FlagsEnd, TypeOK
<1>8. CASE FlagInvalid
  BY <1>8, ReturnsTypes DEF FlagInvalid, Reject, TypeOK
<1>9. CASE FlagIgnored
  BY <1>9 DEF FlagIgnored, TypeOK
<1>10. CASE FlagValue
  <2>1. CASE Reject
    BY <1>10, <2>1, ReturnsTypes DEF FlagValue, Reject, TypeOK
  <2>2. CASE /\ input' = [input EXCEPT ![Field[opt']] = Atoi(optarg')]
             /\ UNCHANGED <<pc, result>>
    <3>1. opt' \in ArgFlags
      BY <1>10, ArgumentIsOption DEF FlagValue
    <3>2. input' \in program_input_s
      BY <2>2, <3>1, AtoiTypes, FieldTypes DEF TypeOK
    <3>. QED
      BY <1>10, <2>2, <3>2 DEF FlagValue, TypeOK
  <2>. QED
    BY <1>10, <2>1, <2>2 DEF FlagValue
<1>11. CASE FlagsUndefined
  BY <1>11 DEF FlagsUndefined, TypeOK
<1>12. CASE UNCHANGED vars
  BY <1>12 DEF vars, inputVars, TypeOK
<1>. QED
  BY <1>1, <1>2, <1>3, <1>4, <1>5, <1>6, <1>7, <1>8, <1>9, <1>10, <1>11, <1>12
    DEF Next, Parse, Finished

\* Every variable stays in its type: every conversion ends in the range of the
\* field it is stored in, and no parse leaves a result behind while the next
\* one is under way.
THEOREM InputTypes == Spec => []TypeOK
<1>1. Init => TypeOK
  BY DefaultTypes DEF Init, TypeOK
<1>. QED
  BY <1>1, TypesKept, PTL DEF Spec

-----------------------------------------------------------------------------
(* The stages of a parse *)

\* What each stage of the parse has checked.
Stages ==
  /\ pc # "idle" => line \in Lines
  /\ pc \in {"scan", "range", "mode", "condense", "flags"} => ~IsHelp(line)
  /\ pc \in {"range", "mode", "condense", "flags"} =>
       IsScan(line) /\ input.subcommand = "scan"
  /\ pc \in {"mode", "condense", "flags"} => OneFrequency(line[2]) \/ TwoFrequencies(line[2])
  /\ pc \in {"condense", "flags"} => \E m \in {"am", "fm", "wbfm"} : IsMode(line[3], m)

LEMMA ScanNotHelp ==
  ASSUME NEW l, IsScan(l)
  PROVE  ~IsHelp(l)
BY DEF IsScan, IsHelp

LEMMA ArgumentIsNoEnd ==
  ASSUME ArgumentInWord \/ ArgumentNext
  PROVE  /\ Field[opt'] \in {"timeout", "hold_time", "cycles"}
         /\ opt' \notin {End, Unknown, None}
<1>1. opt' \in ArgFlags
  BY ArgumentIsOption
<1>. QED
  BY <1>1, FieldAssumption, FlagAssumption DEF Field

LEMMA StagesKept == TypeOK /\ Stages /\ [Next]_vars => Stages'
<1>. SUFFICES ASSUME TypeOK, Stages, [Next]_vars PROVE Stages'
  OBVIOUS
<1>1. CASE StartParse
  BY <1>1, AgainAssumption DEF StartParse, NextLines, Stages
<1>2. CASE check_help_command
  BY <1>2 DEF check_help_command, Returns, TypeOK, Stages
<1>3. CASE check_scan_command
  <2>1. CASE IsScan(line)
    <3>1. pc' = "range" /\ line' = line /\ input' = [input EXCEPT !.subcommand = "scan"]
      BY <1>3, <2>1 DEF check_scan_command
    <3>2. input'.subcommand = "scan"
      BY <3>1 DEF TypeOK, program_input_s
    <3>3. IsScan(line) /\ line \in Lines
      BY <1>3, <2>1 DEF check_scan_command, Stages
    <3>. QED
      BY <3>1, <3>2, <3>3, ScanNotHelp DEF Stages
  <2>2. CASE ~IsScan(line)
    BY <1>3, <2>2 DEF check_scan_command, Reject, Returns, Stages
  <2>. QED
    BY <2>1, <2>2
<1>4. CASE sanitize_frequency_range
  <2>. DEFINE w == line[2]
  <2>1. line' = line /\ line \in Lines /\ ~IsHelp(line) /\ IsScan(line) /\ input.subcommand = "scan"
    BY <1>4 DEF sanitize_frequency_range, Stages
  <2>2. CASE Reject
    BY <2>1, <2>2 DEF Reject, Returns, Stages
  <2>3. CASE /\ OneFrequency(w) \/ TwoFrequencies(w)
             /\ pc' = "mode"
             /\ \E f, g : input' = [input EXCEPT !.freq_start = f, !.freq_end = g]
    <3>1. input'.subcommand = "scan"
      BY <2>1, <2>3 DEF TypeOK, program_input_s
    <3>. HIDE DEF w
    <3>2. OneFrequency(line'[2]) \/ TwoFrequencies(line'[2])
      BY <2>1, <2>3 DEF w
    <3>. QED
      BY <2>1, <2>3, <3>1, <3>2 DEF Stages
  <2>. QED
    BY <1>4, <2>2, <2>3 DEF sanitize_frequency_range
<1>5. CASE demod_mode
  <2>1. line' = line /\ line \in Lines /\ ~IsHelp(line) /\ IsScan(line) /\ input.subcommand = "scan"
        /\ (OneFrequency(line[2]) \/ TwoFrequencies(line[2]))
    BY <1>5 DEF demod_mode, Stages
  <2>2. CASE \/ Reject
             \/ pc' = "undefined"
    BY <2>1, <2>2 DEF Reject, Returns, Stages
  <2>3. CASE /\ \E m \in {"am", "fm", "wbfm"} : /\ IsMode(line[3], m)
                                               /\ input' = [input EXCEPT !.demod_mode = m]
             /\ pc' = "condense"
    <3>1. input'.subcommand = "scan"
      BY <2>1, <2>3 DEF TypeOK, program_input_s
    <3>. QED
      BY <2>1, <2>3, <3>1 DEF Stages
  <2>. QED
    BY <1>5, <2>2, <2>3 DEF demod_mode
<1>6. CASE condense_flags
  BY <1>6 DEF condense_flags, Stages
<1>7. CASE FlagsEnd
  BY <1>7 DEF FlagsEnd, InFlags, Returns, Stages
<1>8. CASE FlagInvalid
  BY <1>8 DEF FlagInvalid, InFlags, Reject, Returns, Stages
<1>9. CASE FlagIgnored
  BY <1>9 DEF FlagIgnored, InFlags, Stages
<1>10. CASE FlagValue
  <2>1. pc = "flags" /\ line' = line
    BY <1>10 DEF FlagValue, InFlags
  <2>2. CASE Reject
    BY <2>1, <2>2 DEF Reject, Returns, Stages
  <2>3. CASE /\ input' = [input EXCEPT ![Field[opt']] = Atoi(optarg')]
             /\ UNCHANGED <<pc, result>>
    <3>1. Field[opt'] \in {"timeout", "hold_time", "cycles"}
      BY <1>10, ArgumentIsNoEnd DEF FlagValue
    <3>2. input'.subcommand = input.subcommand
      BY <2>3, <3>1 DEF TypeOK, program_input_s
    <3>. QED
      BY <2>1, <2>3, <3>2 DEF Stages
  <2>. QED
    BY <1>10, <2>2, <2>3 DEF FlagValue
<1>11. CASE FlagsUndefined
  BY <1>11 DEF FlagsUndefined, Stages
<1>12. CASE UNCHANGED vars
  BY <1>12 DEF vars, inputVars, Stages
<1>. QED
  BY <1>1, <1>2, <1>3, <1>4, <1>5, <1>6, <1>7, <1>8, <1>9, <1>10, <1>11, <1>12
    DEF Next, Parse, Finished

-----------------------------------------------------------------------------
(* Lines without flags *)

\* The words getopt is given are words.
LEMMA LineTypes ==
  ASSUME NEW l \in Lines
  PROVE  /\ Cardinality(DOMAIN l) \in Nat \ {0}
         /\ DOMAIN l = 0..Cardinality(DOMAIN l)-1
         /\ \A i \in DOMAIN l : l[i] \in Strings
BY LineAssumption DEF Strings

LEMMA ShortFormTypes ==
  ASSUME NEW w \in Strings
  PROVE  ShortForm(w) \in Strings
<1>. SUFFICES ASSUME ShortForm(w) # w PROVE ShortForm(w) \in Strings
  OBVIOUS
<1>1. PICK c \in STRING : c \in {"v", "t", "h", "c"} /\ ShortForm(w) = <<"-", c>>
  <2>1. "v" \in STRING /\ "t" \in STRING /\ "h" \in STRING /\ "c" \in STRING
    BY FieldAssumption, FlagAssumption DEF Field
  <2>. QED
    BY <2>1 DEF ShortForm
<1>2. PICK d \in STRING : d = "-"
  <2>1. w \in Seq(STRING) /\ Len(w) = 3 /\ w[1] = "-"
    BY DEF ShortForm, Strings
  <2>. QED
    BY <2>1, ElementOfSeq
<1>. QED
  BY <1>1, <1>2 DEF Strings

\* Words that are no options stay what they are.
LEMMA ShortFormSame ==
  ASSUME NEW w, Nonoption(w)
  PROVE  ShortForm(w) = w
BY DEF ShortForm, Nonoption

\* What a first call of getopt finds that no flag has gone before.
Fresh ==
  /\ optind = 1
  /\ first_nonopt = 1
  /\ last_nonopt \in Nat \ {0}
  /\ nextchar = <<>>
  /\ ordering \in {"PERMUTE", "REQUIRE_ORDER"}
  /\ memory = "null"

Condensed ==
  /\ argc = lineArgc
  /\ argv = [i \in DOMAIN line |-> ShortForm(line[i])]

\* What lines without flags leave behind, and how they were judged.
Alone ==
  flagless =>
    /\ Fresh
    /\ pc # "idle" => Flagless(line)
    /\ pc = "flags" => Condensed
    /\ pc = "undefined" => line[3] \in LongWords
    /\ result # "none" => (result = "accepted" <=> IsHelp(line) \/ WellFormed(line))

\* No word of such a line is an option.
LEMMA NoOptions ==
  ASSUME Stages, pc = "flags", Flagless(line), Condensed
  PROVE  /\ argc \in Nat /\ argc >= 4
         /\ \A i \in 1..argc-1 : Nonoption(argv[i])
<1>1. /\ line \in Lines /\ IsScan(line) /\ (OneFrequency(line[2]) \/ TwoFrequencies(line[2]))
      /\ \E m \in {"am", "fm", "wbfm"} : IsMode(line[3], m)
  BY DEF Stages
<1>2. PICK n \in Nat : n = argc /\ DOMAIN line = 0..n-1 /\ \A i \in 0..n-1 : line[i] \in Strings
  BY <1>1, LineTypes DEF Condensed, lineArgc
<1>3. n >= 4
  BY <1>1, <1>2 DEF IsScan
<1>4. Nonoption(line[1])
  BY <1>1 DEF IsScan, Word, Nonoption
<1>5. Nonoption(line[2])
  <2>1. ValidStart(line[2])
    BY <1>1 DEF OneFrequency, TwoFrequencies
  <2>. QED
    BY <1>2, <1>3, <2>1 DEF Flagless
<1>6. Nonoption(line[3])
  <2>1. Len(Lower(line[3])) = 1
    BY <1>1 DEF IsMode, Word
  <2>2. Len(line[3]) = 1
    BY <2>1, LowerAssumption DEF Lower
  <2>. QED
    BY <2>2 DEF Nonoption
<1>7. ASSUME NEW i \in 1..n-1 PROVE Nonoption(line[i])
  <2>1. i = 1 \/ i = 2 \/ i = 3 \/ i > 3
    OBVIOUS
  <2>2. i > 3 => Nonoption(line[i])
    BY <1>2 DEF Flagless
  <2>. QED
    BY <1>4, <1>5, <1>6, <2>1, <2>2
<1>8. ASSUME NEW i \in 1..n-1 PROVE Nonoption(argv[i])
  <2>1. argv[i] = ShortForm(line[i])
    BY <1>2 DEF Condensed
  <2>. QED
    BY <1>7, <2>1, ShortFormSame
<1>. QED
  BY <1>2, <1>3, <1>8
\* The scan of such a line is over with its first call, and optind is back at 1.
LEMMA NothingFound ==
  ASSUME Fresh, argc \in Nat, argc >= 4, \A i \in 1..argc-1 : Nonoption(argv[i])
  PROVE  /\ ~Beyond
         /\ ~InOption
         /\ ScanEnds \/ ScanStops =>
              /\ optind' = 1 /\ first_nonopt' = 1 /\ last_nonopt' \in Nat \ {0}
              /\ nextchar' = <<>> /\ ordering' = ordering /\ opt' = End
<1>1. ~Beyond
  <2>1. Len(nextchar) = 0
    BY DEF Fresh
  <2>. QED
    BY <2>1 DEF Fresh, Beyond
<1>2. PICK p : p = [argv |-> argv, optind |-> 1, first |-> 1, last |-> 1]
  OBVIOUS
<1>3. Rational(Position) = p
  <2>1. PICK last \in Nat \ {0} : last = last_nonopt
    BY DEF Fresh
  <2>2. Position = [argv |-> argv, optind |-> 1, first |-> 1, last |-> last]
    BY <2>1 DEF Fresh, Position
  <2>. DEFINE q == Position
  <2>3. /\ q = [argv |-> argv, optind |-> 1, first |-> 1, last |-> last]
        /\ (IF q.last > q.optind THEN q.optind ELSE q.last) = 1
        /\ (IF q.first > q.optind THEN q.optind ELSE q.first) = 1
    BY <2>1, <2>2
  <2>. HIDE DEF q
  <2>4. Rational(q) = [q EXCEPT !.last = 1, !.first = 1]
    BY <2>3, Zenon DEF Rational
  <2>. QED
    BY <1>2, <2>3, <2>4 DEF q
<1>4. CASE ordering = "PERMUTE"
  <2>1. PICK s : s = [argv |-> argv, optind |-> argc, first |-> 1, last |-> argc]
    OBVIOUS
  <2>2. NextOption(argv, 1) = argc
    <3>1. /\ NextOption(argv, 1) \in 1..argc
          /\ NextOption(argv, 1) < argc => ~Nonoption(argv[NextOption(argv, 1)])
      BY NextOptionFound
    <3>. QED
      BY <3>1
  <2>3. SkipNonoptions(p) = s
    <3>1. SkipNonoptions(p) = [p EXCEPT !.optind = argc, !.last = argc]
      BY <1>2, <2>2 DEF SkipNonoptions
    <3>. QED
      BY <1>2, <2>1, <3>1
  <2>4. SkipDashes(s) = s
    BY <2>1 DEF SkipDashes
  <2>5. Resumed = s
    BY <1>3, <1>4, <2>3, <2>4 DEF Resumed, Fresh
  <2>6. Resumed.optind = argc /\ Resumed.first = 1 /\ Resumed.last = argc
    BY <2>1, <2>5
  <2>. HIDE DEF Resumed
  <2>7. ~InOption
    BY <2>6 DEF InOption, Fresh
  <2>8. ~ScanStops
    BY <2>6 DEF ScanStops
  <2>9. ASSUME ScanEnds
        PROVE  /\ optind' = 1 /\ first_nonopt' = 1 /\ last_nonopt' = argc
               /\ nextchar' = <<>> /\ ordering' = ordering /\ opt' = End
    <3>1. Return(Resumed, 1, <<>>, End, <<>>)
      BY <2>6, <2>9 DEF ScanEnds
    <3>. QED
      BY <2>6, <3>1 DEF Return
  <2>. QED
    BY <1>1, <2>7, <2>8, <2>9
<1>5. CASE ordering = "REQUIRE_ORDER"
  <2>1. argv[1] # Dashes /\ Nonoption(argv[1])
    BY DEF Nonoption, Dashes
  <2>2. SkipDashes(p) = p
    BY <1>2, <2>1 DEF SkipDashes
  <2>3. Resumed = p
    BY <1>3, <1>5, <2>2 DEF Resumed, Fresh
  <2>4. Resumed.optind = 1 /\ Resumed.first = 1 /\ Resumed.last = 1 /\ Resumed.argv = argv
    BY <1>2, <2>3
  <2>. HIDE DEF Resumed
  <2>5. ~InOption
    BY <2>1, <2>4 DEF InOption, Fresh
  <2>6. ~ScanEnds
    BY <2>4 DEF ScanEnds
  <2>7. ASSUME ScanStops
        PROVE  /\ optind' = 1 /\ first_nonopt' = 1 /\ last_nonopt' = 1
               /\ nextchar' = <<>> /\ ordering' = ordering /\ opt' = End
    <3>1. Return(Resumed, 1, <<>>, End, <<>>)
      BY <2>4, <2>7 DEF ScanStops
    <3>. QED
      BY <2>4, <3>1 DEF Return
  <2>. QED
    BY <1>1, <2>5, <2>6, <2>7
<1>. QED
  BY <1>4, <1>5 DEF Fresh

LEMMA AloneKept == TypeOK /\ Stages /\ Alone /\ [Next]_vars => Alone'
<1>. SUFFICES ASSUME TypeOK, Stages, Alone, [Next]_vars, flagless' PROVE Alone'
  BY DEF Alone
<1>. DEFINE Unchanged == UNCHANGED <<memory, getoptVars>>
            Fine == IsHelp(line) \/ WellFormed(line)
<1>1. CASE StartParse
  BY <1>1 DEF StartParse, Alone, Fresh, getoptVars, statics
<1>. SUFFICES ASSUME ~StartParse PROVE Alone'
  BY <1>1
<1>2. line' = line /\ flagless' = flagless
  BY DEF Next, Parse, Finished, check_help_command, check_scan_command,
         sanitize_frequency_range, demod_mode, condense_flags, FlagsEnd, FlagInvalid,
         FlagIgnored, FlagValue, FlagsUndefined, InFlags, vars, inputVars
<1>3. /\ Fresh
      /\ pc # "idle" => Flagless(line)
      /\ pc = "flags" => Condensed
      /\ pc = "undefined" => line[3] \in LongWords
      /\ result # "none" => (result = "accepted" <=> Fine)
  BY <1>2 DEF Alone
<1>4. UNCHANGED getoptVars /\ memory' = memory => Fresh'
  BY <1>3 DEF Fresh, getoptVars, statics
<1>5. WellFormed(line) => IsScan(line) /\ ~IsHelp(line)
  BY ScanNotHelp DEF WellFormed
<1>6. CASE check_help_command
  BY <1>2, <1>3, <1>4, <1>6 DEF check_help_command, Returns, Alone, TypeOK
<1>7. CASE check_scan_command
  BY <1>2, <1>3, <1>4, <1>5, <1>7
    DEF check_scan_command, Reject, Returns, Alone, TypeOK, Stages, WellFormed
<1>8. CASE sanitize_frequency_range
  BY <1>2, <1>3, <1>4, <1>5, <1>8
    DEF sanitize_frequency_range, Reject, Returns, Alone, TypeOK, Stages, WellFormed
<1>9. CASE demod_mode
  BY <1>2, <1>3, <1>4, <1>5, <1>9
    DEF demod_mode, Reject, Returns, Alone, TypeOK, Stages, WellFormed
<1>10. CASE condense_flags
  <2>1. Fresh'
    BY <1>3, <1>10 DEF condense_flags, Fresh, statics
  <2>2. Condensed'
    BY <1>2, <1>10 DEF condense_flags, Condensed, lineArgc
  <2>. QED
    BY <1>2, <1>3, <1>10, <2>1, <2>2 DEF condense_flags, Alone, TypeOK
<1>11. CASE pc = "flags" /\ Parse
  <2>1. ~Beyond /\ ~InOption /\ memory # "freed"
    BY <1>3, <1>11, NoOptions, NothingFound DEF Fresh
  <2>2. FlagsEnd
    BY <1>11, <2>1 DEF Parse, check_help_command, check_scan_command,
      sanitize_frequency_range, demod_mode, condense_flags, FlagInvalid, FlagIgnored,
      FlagValue, FlagsUndefined, InvalidOption, ArgumentMissing, FlagFound, ArgumentInWord,
      ArgumentNext
  <2>3. ScanEnds \/ ScanStops
    BY <2>2 DEF FlagsEnd
  <2>4. /\ optind' = 1 /\ first_nonopt' = 1 /\ last_nonopt' \in Nat \ {0}
        /\ nextchar' = <<>> /\ ordering' = ordering
    BY <1>3, <1>11, <2>3, NoOptions, NothingFound
  <2>5. memory' = "null" /\ pc' = "idle" /\ result' = "accepted"
    BY <1>3, <2>2 DEF FlagsEnd, Returns, Fresh
  <2>6. Fresh'
    BY <1>3, <2>4, <2>5 DEF Fresh
  <2>7. WellFormed(line)
    BY <1>11 DEF Stages, WellFormed
  <2>. QED
    BY <1>2, <1>3, <2>5, <2>6, <2>7 DEF Alone
<1>12. CASE UNCHANGED vars
  BY <1>2, <1>3, <1>4, <1>12 DEF vars, inputVars, Alone, Condensed, lineArgc, getoptVars
<1>13. CASE Parse /\ pc # "flags"
  BY <1>6, <1>7, <1>8, <1>9, <1>10, <1>13 DEF Parse, FlagsEnd, FlagInvalid, FlagIgnored,
     FlagValue, FlagsUndefined, InFlags
<1>. QED
  BY <1>11, <1>12, <1>13 DEF Next, Finished

\* Lines without flags are judged each for itself, however many were parsed
\* before, and none reads memory that it should not but for a mode that is too
\* long.
THEOREM FlaglessJudgedAlone == Spec => []FlaglessAlike
<1>1. Init => TypeOK /\ Stages /\ Alone
  <2>1. Init => TypeOK
    BY DefaultTypes DEF Init, TypeOK
  <2>2. Init => Stages /\ Alone
    BY OrderingAssumption DEF Init, InitStatics, Stages, Alone, Fresh
  <2>. QED
    BY <2>1, <2>2
<1>2. TypeOK /\ Stages /\ Alone => FlaglessAlike
  BY DEF Alone, FlaglessAlike
<1>. QED
  BY <1>1, <1>2, TypesKept, StagesKept, AloneKept, PTL DEF Spec

-----------------------------------------------------------------------------
(* The first parse *)

\* The value v is that of the last option of s for c, and else the default.
Last(s, c, v) ==
  \/ v = Default[Field[c]] /\ \A n \in 1..Len(s) : s[n][1] # c
  \/ \E n \in 1..Len(s) : /\ s[n][1] = c
                          /\ \A k \in n+1..Len(s) : s[k][1] # c
                          /\ v = Atoi(s[n][2])

\* The options s are valid and have left their values in i.
Kept(s, i) ==
  /\ \A n \in 1..Len(s) : Valid(s[n])
  /\ \A c \in DOMAIN Field : Last(s, c, i[Field[c]])

\* The first parse, from the state in which the program starts.
FirstParse ==
  /\ parses \in {0, 1}
  /\ parses = 0 => pc = "idle" /\ result = "none"
  /\ pc = "idle" /\ result = "none" => parses = 0
  /\ parses = 0 \/ pc \in {"help", "scan", "range", "mode", "condense"} =>
       InitStatics /\ memory = "null"
  /\ pc = "help" => input = Default
  /\ pc \in {"scan", "range", "mode", "condense"} => Kept(<<>>, input)
  /\ pc = "flags" => memory # "freed" /\ opt # End /\ ScanInv /\ Kept(seen, input)
  /\ Accepted("scan") => WellFormed(line) /\ opt = End /\ ScanInv /\ Kept(seen, input)
  /\ result = "rejected" =>
       \/ ~WellFormed(line) /\ ~IsHelp(line)
       \/ ScanInv /\ \E n \in 1..Len(seen) : ~Valid(seen[n])
  /\ pc = "undefined" => line[3] \in LongWords

LEMMA Appended ==
  ASSUME NEW S, NEW s \in Seq(S), NEW e
  PROVE  /\ Len(s) \in Nat
         /\ Len(Append(s, e)) = Len(s) + 1
         /\ \A n \in 1..Len(s) : Append(s, e)[n] = s[n]
         /\ Append(s, e)[Len(s) + 1] = e
<1>1. s \in Seq(S \cup {e}) /\ e \in S \cup {e}
  OBVIOUS
<1>. QED
  BY <1>1, AppendProperties, LenProperties

\* An option for c gives c its value, and no other option does.
LEMMA LastAppended ==
  ASSUME NEW S, NEW s \in Seq(S), NEW e, NEW c, NEW v, Last(s, c, v)
  PROVE  /\ e[1] # c => Last(Append(s, e), c, v)
         /\ e[1] = c => Last(Append(s, e), c, Atoi(e[2]))
<1>. DEFINE t == Append(s, e)
<1>1. PICK l \in Nat : /\ l = Len(s) /\ Len(t) = l + 1
                       /\ \A n \in 1..l : t[n] = s[n]
                       /\ t[l + 1] = e
  BY Appended
<1>. HIDE DEF t
<1>2. ASSUME e[1] = c PROVE Last(t, c, Atoi(e[2]))
  <2>1. l + 1 \in 1..Len(t) /\ t[l + 1][1] = c /\ Atoi(e[2]) = Atoi(t[l + 1][2])
    BY <1>1, <1>2
  <2>2. \A k \in (l + 1) + 1..Len(t) : t[k][1] # c
    BY <1>1
  <2>. QED
    BY <2>1, <2>2 DEF Last
<1>3. ASSUME e[1] # c PROVE Last(t, c, v)
  <2>1. CASE v = Default[Field[c]] /\ \A n \in 1..l : s[n][1] # c
    <3>1. \A n \in 1..Len(t) : t[n][1] # c
      <4>1. \A n \in 1..Len(t) : n \in 1..l \/ n = l + 1
        BY <1>1
      <4>. QED
        BY <1>1, <1>3, <2>1, <4>1
    <3>. QED
      BY <2>1, <3>1 DEF Last
  <2>2. CASE \E n \in 1..l : /\ s[n][1] = c
                             /\ \A k \in n+1..l : s[k][1] # c
                             /\ v = Atoi(s[n][2])
    <3>1. PICK n \in 1..l : /\ s[n][1] = c
                            /\ \A k \in n+1..l : s[k][1] # c
                            /\ v = Atoi(s[n][2])
      BY <2>2
    <3>2. n \in 1..Len(t) /\ t[n][1] = c /\ v = Atoi(t[n][2])
      BY <1>1, <3>1
    <3>3. \A k \in n+1..Len(t) : t[k][1] # c
      <4>1. \A k \in n+1..Len(t) : (k \in n+1..l /\ k \in 1..l) \/ k = l + 1
        BY <1>1
      <4>. QED
        BY <1>1, <1>3, <3>1, <4>1
    <3>. QED
      BY <3>2, <3>3 DEF Last
  <2>. QED
    BY <1>1, <2>1, <2>2 DEF Last
<1>. QED
  BY <1>2, <1>3 DEF t

LEMMA DefaultKept == Kept(<<>>, Default)
<1>1. Len(<<>>) = 0
  OBVIOUS
<1>. QED
  BY <1>1 DEF Kept, Last

\* The fields of the options are kept.
SameFields(i, j) ==
  i.timeout = j.timeout /\ i.hold_time = j.hold_time /\ i.cycles = j.cycles

LEMMA FieldsKept ==
  ASSUME NEW i, NEW j, SameFields(i, j), NEW s, Kept(s, i)
  PROVE  Kept(s, j)
<1>1. ASSUME NEW c \in DOMAIN Field PROVE i[Field[c]] = j[Field[c]]
  BY DEF Field, SameFields
<1>. QED
  BY <1>1 DEF Kept

\* The option e, of which the struct keeps what there is to keep.
LEMMA KeptAppended ==
  ASSUME NEW S, NEW s \in Seq(S), NEW e, NEW i \in program_input_s, NEW j, Kept(s, i), Valid(e),
         \/ e[1] \notin DOMAIN Field /\ j = i
         \/ e[1] \in DOMAIN Field /\ j = [i EXCEPT ![Field[e[1]]] = Atoi(e[2])]
  PROVE  Kept(Append(s, e), j)
<1>1. \A n \in 1..Len(Append(s, e)) : Valid(Append(s, e)[n])
  <2>1. PICK l \in Nat : /\ l = Len(s) /\ Len(Append(s, e)) = l + 1
                         /\ \A n \in 1..l : Append(s, e)[n] = s[n]
                         /\ Append(s, e)[l + 1] = e
    BY Appended
  <2>2. \A n \in 1..l : Valid(s[n])
    BY <2>1 DEF Kept
  <2>3. \A n \in 1..l+1 : n \in 1..l \/ n = l + 1
    OBVIOUS
  <2>. HIDE DEF Valid
  <2>. QED
    BY <2>1, <2>2, <2>3
<1>2. ASSUME NEW c \in DOMAIN Field PROVE Last(Append(s, e), c, j[Field[c]])
  <2>1. Last(s, c, i[Field[c]])
    BY DEF Kept
  <2>2. CASE e[1] # c
    <3>1. j[Field[c]] = i[Field[c]]
      BY <2>2 DEF Field, program_input_s
    <3>. QED
      BY <2>1, <2>2, <3>1, LastAppended
  <2>3. CASE e[1] = c
    <3>1. j[Field[c]] = Atoi(e[2])
      BY <2>3 DEF Field, program_input_s
    <3>. QED
      BY <2>1, <2>3, <3>1, LastAppended
  <2>. QED
    BY <2>2, <2>3
<1>. QED
  BY <1>1, <1>2 DEF Kept
\* What the calls return, and what they add to what was returned.
LEMMA InvalidSeen ==
  ASSUME InvalidOption \/ ArgumentMissing
  PROVE  seen' = Append(seen, <<Unknown, <<>> >>) /\ opt' = Unknown
BY DEF InvalidOption, ArgumentMissing, Return, Unknown, End

LEMMA FlagSeen ==
  ASSUME FlagFound
  PROVE  /\ seen' = Append(seen, <<Char, <<>> >>) /\ opt' = Char
         /\ Char \in Flags /\ Char # End /\ Char # Unknown /\ Char \notin ArgFlags
<1>1. Char \in Flags /\ Char # End /\ Char # Unknown /\ Char \notin ArgFlags
  BY FlagAssumption DEF FlagFound
<1>. QED
  BY <1>1 DEF FlagFound, Return

LEMMA ValueSeen ==
  ASSUME ArgumentInWord \/ ArgumentNext
  PROVE  seen' = Append(seen, <<opt', optarg'>>) /\ opt' \in ArgFlags /\ opt' # End
                 /\ opt' # Unknown
<1>1. opt' \in ArgFlags /\ opt' # End /\ opt' # Unknown
  BY ArgumentIsOption, ArgumentIsNoEnd
<1>2. CASE ArgumentInWord
  BY <1>1, <1>2 DEF ArgumentInWord, Return
<1>3. CASE ArgumentNext
  BY <1>1, <1>3 DEF ArgumentNext, Return
<1>. QED
  BY <1>1, <1>2, <1>3

LEMMA EndSeen ==
  ASSUME ScanEnds \/ ScanStops
  PROVE  seen' = seen /\ opt' = End
BY DEF ScanEnds, ScanStops, Return

\* Once the words are condensed, the scan of getopt begins.
LEMMA CondensedBegins ==
  ASSUME condense_flags, line \in Lines, InitStatics
  PROVE  ScanInv'
<1>1. /\ argc' = lineArgc /\ argv' = [i \in DOMAIN line |-> ShortForm(line[i])]
      /\ given' = argv' /\ seen' = <<>> /\ opt' = None /\ UNCHANGED statics
  BY DEF condense_flags
<1>2. lineArgc \in Nat \ {0} /\ DOMAIN line = 0..lineArgc-1
      /\ \A i \in DOMAIN line : line[i] \in Strings
  BY LineTypes DEF lineArgc
<1>3. argv' \in [0..lineArgc-1 -> Strings]
  BY <1>1, <1>2, ShortFormTypes
<1>4. Beginning'
  BY <1>1, <1>2, <1>3 DEF Beginning, Indices, InitStatics, statics
<1>5. (Beginning => ScanInv)'
  BY ScanBegins, PTL
<1>. QED
  BY <1>4, <1>5
\* The stages in front of the flags.
LEMMA FirstStages ==
  ASSUME TypeOK, Stages, FirstParse,
         \/ check_help_command \/ check_scan_command \/ sanitize_frequency_range \/ demod_mode
  PROVE  FirstParse'
<1>1. UNCHANGED <<line, memory, parses, flagless, getoptVars>>
  BY DEF check_help_command, check_scan_command, sanitize_frequency_range, demod_mode
<1>2. /\ parses = 1 /\ InitStatics /\ memory = "null"
      /\ pc \in {"help", "scan", "range", "mode"}
      /\ result = "none"
  BY DEF FirstParse, TypeOK, check_help_command, check_scan_command,
         sanitize_frequency_range, demod_mode
<1>3. parses' = 1 /\ memory' = "null" /\ InitStatics'
  BY <1>1, <1>2 DEF InitStatics, getoptVars, statics
<1>4. WellFormed(line) => IsScan(line) /\ ~IsHelp(line)
  BY ScanNotHelp DEF WellFormed
<1>5. Kept(<<>>, input)
  BY <1>2, DefaultKept DEF FirstParse
<1>6. ASSUME pc' \in {"scan", "range", "mode", "condense"}, result' = "none", SameFields(input, input')
      PROVE  FirstParse'
  <2>1. Kept(<<>>, input')
    BY <1>5, <1>6, FieldsKept
  <2>. QED
    BY <1>3, <1>6, <2>1 DEF FirstParse, Accepted
<1>7. ASSUME Reject, ~WellFormed(line) /\ ~IsHelp(line) PROVE FirstParse'
  BY <1>1, <1>3, <1>7 DEF FirstParse, Accepted, Reject, Returns
<1>8. CASE check_help_command
  <2>1. input = Default /\ Default.subcommand = "help"
    BY <1>8 DEF check_help_command, FirstParse, Default
  <2>2. CASE IsHelp(line)
    <3>1. pc' = "idle" /\ result' = "accepted" /\ input' = Default
      BY <1>8, <2>1, <2>2 DEF check_help_command, Returns
    <3>2. input'.subcommand # "scan"
      BY <2>1, <3>1
    <3>. QED
      BY <1>3, <3>1, <3>2 DEF FirstParse, Accepted
  <2>3. CASE ~IsHelp(line)
    BY <1>2, <1>6, <1>8, <2>3 DEF check_help_command, SameFields
  <2>. QED
    BY <2>2, <2>3
<1>9. CASE check_scan_command
  <2>1. CASE IsScan(line)
    <3>1. pc' = "range" /\ result' = "none" /\ input' = [input EXCEPT !.subcommand = "scan"]
      BY <1>2, <1>9, <2>1 DEF check_scan_command
    <3>2. SameFields(input, input')
      BY <3>1 DEF SameFields, TypeOK, program_input_s
    <3>. QED
      BY <1>6, <3>1, <3>2
  <2>2. CASE ~IsScan(line)
    <3>1. Reject /\ pc = "scan"
      BY <1>9, <2>2 DEF check_scan_command
    <3>. QED
      BY <1>4, <1>7, <2>2, <3>1 DEF Stages
  <2>. QED
    BY <2>1, <2>2
<1>10. CASE sanitize_frequency_range
  <2>1. CASE Reject /\ ~OneFrequency(line[2]) /\ ~TwoFrequencies(line[2])
    <3>1. pc = "range"
      BY <1>10 DEF sanitize_frequency_range
    <3>. QED
      BY <1>7, <2>1, <3>1 DEF Stages, WellFormed
  <2>2. CASE /\ pc' = "mode" /\ UNCHANGED result
             /\ \E f, g : input' = [input EXCEPT !.freq_start = f, !.freq_end = g]
    <3>1. SameFields(input, input')
      BY <2>2 DEF SameFields, TypeOK, program_input_s
    <3>. QED
      BY <1>2, <1>6, <2>2, <3>1
  <2>. QED
    BY <1>10, <2>1, <2>2 DEF sanitize_frequency_range
<1>11. CASE demod_mode
  <2>1. CASE Reject /\ \A m \in {"am", "fm", "wbfm"} : ~IsMode(line[3], m)
    <3>1. pc = "mode"
      BY <1>11 DEF demod_mode
    <3>. QED
      BY <1>7, <2>1, <3>1 DEF Stages, WellFormed
  <2>2. CASE /\ pc' = "condense" /\ UNCHANGED result
             /\ \E m : input' = [input EXCEPT !.demod_mode = m]
    <3>1. SameFields(input, input')
      BY <2>2 DEF SameFields, TypeOK, program_input_s
    <3>. QED
      BY <1>2, <1>6, <2>2, <3>1
  <2>3. CASE line[3] \in LongWords /\ pc' = "undefined" /\ UNCHANGED <<input, result>>
    BY <1>1, <1>2, <1>3, <2>3 DEF FirstParse, Accepted
  <2>. QED
    BY <1>11, <2>1, <2>2, <2>3 DEF demod_mode
<1>. QED
  BY <1>8, <1>9, <1>10, <1>11

\* The flags.
LEMMA FirstFlags ==
  ASSUME TypeOK, Stages, FirstParse, Parse, pc = "flags"
  PROVE  FirstParse'
<1>1. /\ memory # "freed" /\ opt # End /\ ScanInv /\ Kept(seen, input) /\ parses = 1
      /\ result = "none" /\ input \in program_input_s
  BY DEF FirstParse, TypeOK
<1>2. seen \in Seq(Answers)
  BY <1>1, SeenBegins DEF Found
<1>3. ~Beyond
  BY <1>1, NotBehind
<1>4. WellFormed(line)
  BY DEF Stages, WellFormed
<1>5. getopt => ScanInv'
  BY <1>1, ScanStep
<1>6. CASE FlagsEnd
  <2>1. /\ ScanEnds \/ ScanStops
        /\ pc' = "idle" /\ result' = "accepted" /\ input' = input
        /\ line' = line /\ parses' = parses
    BY <1>6 DEF FlagsEnd, InFlags, Returns
  <2>2. getopt /\ seen' = seen /\ opt' = End
    BY <2>1, EndSeen DEF getopt
  <2>. QED
    BY <1>1, <1>4, <1>5, <2>1, <2>2 DEF FirstParse, Accepted
<1>7. CASE FlagInvalid
  <2>1. /\ InvalidOption \/ ArgumentMissing
        /\ pc' = "idle" /\ result' = "rejected" /\ parses' = parses
    BY <1>7 DEF FlagInvalid, InFlags, Reject, Returns
  <2>2. getopt /\ seen' = Append(seen, <<Unknown, <<>> >>)
    BY <2>1, InvalidSeen DEF getopt
  <2>3. PICK l \in Nat : /\ Len(seen') = l + 1
                         /\ seen'[l + 1] = <<Unknown, <<>> >>
    BY <1>2, <2>2, Appended
  <2>4. l + 1 \in 1..Len(seen') /\ ~Valid(seen'[l + 1])
    BY <2>3 DEF Valid
  <2>. QED
    BY <1>1, <1>5, <2>1, <2>2, <2>4 DEF FirstParse, Accepted
<1>8. CASE FlagIgnored
  <2>1. /\ FlagFound /\ pc' = pc /\ input' = input /\ result' = result /\ parses' = parses
        /\ memory' = IF nextchar = <<>> THEN "line" ELSE memory
    BY <1>8 DEF FlagIgnored, InFlags
  <2>2. /\ getopt /\ seen' = Append(seen, <<Char, <<>> >>) /\ opt' = Char /\ Char # End
        /\ Char # Unknown /\ Char \notin ArgFlags
    BY <2>1, FlagSeen DEF getopt
  <2>3. PICK e : e = <<Char, <<>> >> /\ e[1] = Char
    <3>1. PICK c, a : c = Char /\ a = <<>>
      OBVIOUS
    <3>2. PICK e : e = <<c, a>>
      OBVIOUS
    <3>3. e[1] = c
      BY <3>2
    <3>. QED
      BY <3>1, <3>2, <3>3
  <2>4. Valid(e) /\ e[1] \notin DOMAIN Field
    BY <2>2, <2>3, FieldAssumption DEF Valid
  <2>5. Kept(seen', input')
    BY <1>1, <1>2, <2>1, <2>2, <2>3, <2>4, KeptAppended
  <2>6. memory' # "freed"
    BY <1>1, <2>1
  <2>. QED
    BY <1>1, <1>5, <2>1, <2>2, <2>5, <2>6 DEF FirstParse, Accepted
<1>9. CASE FlagValue
  <2>1. /\ ArgumentInWord \/ ArgumentNext
        /\ memory' = "null" /\ parses' = parses /\ line' = line
    BY <1>9 DEF FlagValue, InFlags
  <2>2. /\ getopt /\ seen' = Append(seen, <<opt', optarg'>>)
        /\ opt' # End /\ opt' # Unknown /\ opt' \in ArgFlags
    BY <2>1, ValueSeen DEF getopt
  <2>3. PICK e : e = <<opt', optarg'>> /\ e[1] = opt' /\ e[2] = optarg'
    <3>1. PICK c, a : c = opt' /\ a = optarg'
      OBVIOUS
    <3>2. PICK e : e = <<c, a>>
      OBVIOUS
    <3>3. e[1] = c /\ e[2] = a
      BY <3>2
    <3>. QED
      BY <3>1, <3>2, <3>3
  <2>4. CASE Atoi(optarg') = 0
    <3>1. pc' = "idle" /\ result' = "rejected"
      BY <1>9, <2>4 DEF FlagValue, Reject, Returns
    <3>2. PICK l \in Nat : Len(seen') = l + 1 /\ seen'[l + 1] = e
      BY <1>2, <2>2, <2>3, Appended
    <3>3. l + 1 \in 1..Len(seen') /\ ~Valid(seen'[l + 1])
      BY <2>2, <2>3, <2>4, <3>2 DEF Valid
    <3>. QED
      BY <1>1, <1>5, <2>1, <2>2, <3>1, <3>3 DEF FirstParse, Accepted
  <2>5. CASE Atoi(optarg') # 0
    <3>1. input' = [input EXCEPT ![Field[opt']] = Atoi(optarg')] /\ UNCHANGED <<pc, result>>
      BY <1>9, <2>5 DEF FlagValue
    <3>2. Valid(e) /\ e[1] \in DOMAIN Field
      BY <2>2, <2>3, <2>5, FieldAssumption DEF Valid
    <3>3. Kept(seen', input')
      BY <1>1, <1>2, <2>2, <2>3, <3>1, <3>2, KeptAppended
    <3>. QED
      BY <1>1, <1>5, <2>1, <2>2, <3>1, <3>3 DEF FirstParse, Accepted
  <2>. QED
    BY <2>4, <2>5
<1>. QED
  BY <1>1, <1>3, <1>6, <1>7, <1>8, <1>9
    DEF Parse, check_help_command, check_scan_command, sanitize_frequency_range, demod_mode,
        condense_flags, FlagsUndefined

\* Every step of the first parse keeps it.
LEMMA FirstKept ==
  TypeOK /\ Stages /\ FirstParse /\ [Next]_vars /\ parses' \in {0, 1} => FirstParse'
<1>. SUFFICES ASSUME TypeOK, Stages, FirstParse, [Next]_vars, parses' \in {0, 1}
              PROVE  FirstParse'
  OBVIOUS
<1>1. CASE StartParse
  <2>1. /\ pc' = "help" /\ parses' = 1 /\ input' = Default /\ result' = "none"
        /\ memory' = memory /\ UNCHANGED statics /\ parses = 0
    BY <1>1 DEF StartParse, FirstParse, getoptVars
  <2>2. InitStatics' /\ memory' = "null"
    BY <2>1 DEF FirstParse, InitStatics, statics
  <2>. QED
    BY <2>1, <2>2 DEF FirstParse, Accepted
<1>2. CASE \/ check_help_command \/ check_scan_command \/ sanitize_frequency_range
           \/ demod_mode
  BY <1>2, FirstStages
<1>3. CASE condense_flags
  <2>1. /\ pc = "condense" /\ pc' = "flags" /\ opt' = None /\ seen' = <<>>
        /\ memory' = memory /\ input' = input /\ result' = result /\ parses' = parses
    BY <1>3 DEF condense_flags
  <2>2. InitStatics /\ memory = "null" /\ Kept(<<>>, input) /\ parses = 1 /\ result = "none"
    BY <2>1 DEF FirstParse, TypeOK
  <2>3. ScanInv'
    BY <1>3, <2>1, <2>2, CondensedBegins DEF Stages
  <2>4. None # End
    BY DEF None, End
  <2>. QED
    BY <2>1, <2>2, <2>3, <2>4 DEF FirstParse, Accepted
<1>4. CASE Parse /\ pc = "flags"
  BY <1>4, FirstFlags
<1>5. CASE UNCHANGED vars
  <2>1. UNCHANGED inputVars /\ UNCHANGED getoptVars
    BY <1>5 DEF vars
  <2>2. ScanInv => ScanInv'
    BY <2>1, StutterScan
  <2>3. opt' = opt /\ seen' = seen /\ InitStatics' = InitStatics
    BY <2>1 DEF getoptVars, statics, InitStatics
  <2>. QED
    BY <2>1, <2>2, <2>3 DEF FirstParse, Accepted, inputVars
<1>6. Parse => \/ check_help_command \/ check_scan_command \/ sanitize_frequency_range
               \/ demod_mode \/ condense_flags \/ pc = "flags"
  BY DEF Parse, FlagsEnd, FlagInvalid, FlagIgnored, FlagValue, FlagsUndefined, InFlags
<1>. QED
  BY <1>1, <1>2, <1>3, <1>4, <1>5, <1>6 DEF Next, Finished

\* What the first parse of a process does, however many follow.
First == parses \in Nat /\ (parses \in {0, 1} => FirstParse)

\* A parse is counted when it begins.
LEMMA ParsesCounted ==
  ASSUME [Next]_vars
  PROVE  parses' \in {parses, parses + 1}
<1>1. CASE StartParse
  BY <1>1 DEF StartParse
<1>2. CASE Parse
  BY <1>2 DEF Parse, check_help_command, check_scan_command, sanitize_frequency_range,
              demod_mode, condense_flags, FlagsEnd, FlagInvalid, FlagIgnored, FlagValue,
              FlagsUndefined, InFlags
<1>3. CASE UNCHANGED vars
  BY <1>3 DEF vars, inputVars
<1>. QED
  BY <1>1, <1>2, <1>3 DEF Next, Finished

\* The invariant of the first parse holds in every reachable state.
LEMMA FirstInvariant == Spec => [](TypeOK /\ Stages /\ First)
<1>1. Init => TypeOK /\ Stages /\ First
  <2>1. Init => TypeOK
    BY DefaultTypes DEF Init, TypeOK
  <2>2. Init => Stages /\ First
    BY DEF Init, Stages, First, FirstParse, Accepted
  <2>. QED
    BY <2>1, <2>2
<1>2. TypeOK /\ Stages /\ First /\ [Next]_vars => First'
  <2>. SUFFICES ASSUME TypeOK, Stages, First, [Next]_vars PROVE First'
    OBVIOUS
  <2>1. parses \in Nat /\ parses' \in {parses, parses + 1}
    BY ParsesCounted DEF First
  <2>2. parses' \in Nat /\ (parses' \in {0, 1} => parses \in {0, 1})
    BY <2>1
  <2>3. parses' \in {0, 1} => FirstParse'
    BY <2>2, FirstKept DEF First
  <2>. QED
    BY <2>2, <2>3 DEF First
<1>. QED
  BY <1>1, <1>2, TypesKept, StagesKept, PTL DEF Spec

\* What `Last' says is what the property reads off the sequence.
LEMMA LastIsValue ==
  ASSUME Promised \in Found, NEW c \in DOMAIN Field, NEW v, Last(Promised, c, v)
  PROVE  v = LastValue(c)
<1>. DEFINE I == {i \in DOMAIN Promised : Promised[i][1] = c}
<1>1. PICK l \in Nat : l = Len(Promised) /\ DOMAIN Promised = 1..l
  BY LenProperties DEF Found
<1>. HIDE DEF Promised
<1>2. CASE v = Default[Field[c]] /\ \A n \in 1..l : Promised[n][1] # c
  <2>1. I = {}
    BY <1>1, <1>2
  <2>. QED
    BY <1>2, <2>1 DEF LastValue
<1>3. CASE \E n \in 1..l : /\ Promised[n][1] = c
                           /\ \A k \in n+1..l : Promised[k][1] # c
                           /\ v = Atoi(Promised[n][2])
  <2>1. PICK n \in 1..l : /\ Promised[n][1] = c
                          /\ \A k \in n+1..l : Promised[k][1] # c
                          /\ v = Atoi(Promised[n][2])
    BY <1>3
  <2>2. n \in I /\ \A j \in I : j <= n
    BY <1>1, <2>1
  <2>3. \A i \in I : (\A j \in I : j <= i) => i = n
    <3>1. \A i \in I : i \in Nat
      BY <1>1
    <3>. QED
      BY <2>2, <3>1
  <2>. HIDE DEF I
  <2>4. (CHOOSE i \in I : \A j \in I : j <= i) = n
    BY <2>2, <2>3
  <2>5. LastValue(c) = Atoi(Promised[n][2])
    BY <2>2, <2>4, Zenon DEF LastValue, I
  <2>. QED
    BY <2>1, <2>5
<1>. QED
  BY <1>1, <1>2, <1>3 DEF Last

\* input.h:48-49: an accepted scan has in each field the value of the last flag
\* for it, wherever among the words it is and in whichever form it is written,
\* and no flag getopt was to look at is invalid, if it is the first line of its
\* process.
THEOREM FlagsAreHonoured == Spec => []FlagsHonoured
<1>1. TypeOK /\ Stages /\ First => FlagsHonoured
  <2>. SUFFICES ASSUME FirstParse, Accepted("scan")
                PROVE  /\ WellFormed(line)
                       /\ \A i \in DOMAIN Promised : Valid(Promised[i])
                       /\ \A c \in DOMAIN Field : input[Field[c]] = LastValue(c)
    BY DEF First, FlagsHonoured
  <2>1. WellFormed(line) /\ opt = End /\ ScanInv /\ Kept(seen, input)
    BY DEF FirstParse
  <2>2. seen = Promised /\ Promised \in Found
    BY <2>1, SeenBegins
  <2>3. Kept(Promised, input)
    BY <2>1, <2>2
  <2>4. DOMAIN Promised = 1..Len(Promised)
    BY <2>2, LenProperties DEF Found
  <2>5. \A i \in DOMAIN Promised : Valid(Promised[i])
    BY <2>3, <2>4 DEF Kept
  <2>6. \A c \in DOMAIN Field : input[Field[c]] = LastValue(c)
    BY <2>2, <2>3, LastIsValue DEF Kept
  <2>. QED
    BY <2>1, <2>5, <2>6
<1>. QED
  BY <1>1, FirstInvariant, PTL

\* A number above 0 is a start of a range, and is read with its word's first token.
LEMMA PositiveStart ==
  ASSUME NEW t, t \in DOMAIN Floats, Positive(t), NEW w, w # <<>>, w[1] = t
  PROVE  /\ Strtof(w) = [val |-> AsFloat(Floats[t]), end |-> Tail(w)]
         /\ ~IsNegative(Strtof(w).val)
         /\ ValidStart(w)
<1>1. PICK n \in Nat \ {0} : Floats[t] = Finite(n)
  BY NumberAssumption DEF Positive, Finite, Inf, NaN
<1>2. PICK r \in Nat \ {0} : r = Rounded(n)
  BY RoundedNear, RoundedZero
<1>3. AsFloat(Floats[t]) = Finite(r)
  BY <1>1, <1>2 DEF AsFloat, Finite
<1>4. Strtof(w) = [val |-> AsFloat(Floats[t]), end |-> Tail(w)]
  BY DEF Strtof
<1>5. Strtof(w).val = Finite(r)
  BY <1>3, <1>4
<1>. QED
  BY <1>4, <1>5 DEF ValidStart, IsNegative, IsZero, Finite

\* Where the word of a start goes on.
LEMMA StartGoesOn ==
  ASSUME NEW t, t \in DOMAIN Floats, Positive(t), NEW w, w # <<>>, w[1] = t
  PROVE  Start(w).end = IF Tail(w) # <<>> /\ Tail(w)[1] \in {"k", "M"} THEN Tail(Tail(w))
                        ELSE Tail(w)
<1>1. PICK r : r = Strtof(w) /\ r.end = Tail(w)
  BY PositiveStart
<1>2. Start(w) = apply_frequency_suffix(r)
  BY <1>1 DEF Start
<1>3. CASE r.end # <<>> /\ r.end[1] = "k"
  BY <1>1, <1>2, <1>3 DEF apply_frequency_suffix
<1>4. CASE r.end # <<>> /\ r.end[1] = "M"
  BY <1>1, <1>2, <1>4 DEF apply_frequency_suffix
<1>5. CASE r.end = <<>> \/ r.end[1] \notin {"k", "M"}
  BY <1>1, <1>2, <1>5 DEF apply_frequency_suffix
<1>. QED
  BY <1>3, <1>4, <1>5

\* The code takes every range of the documented form.
LEMMA DocumentedTaken ==
  ASSUME NEW w, DocumentedRange(w)
  PROVE  OneFrequency(w) \/ TwoFrequencies(w)
<1>1. PICK t \in DOMAIN Floats :
        /\ Positive(t)
        /\ \/ w \in {<<t>>, <<t, "k">>, <<t, "M">>}
           \/ \E u \in DOMAIN Floats :
                Positive(u) /\ w \in {<<t, "-", u>>, <<t, "k", "-", u>>, <<t, "M", "-", u>>}
  BY DEF DocumentedRange
<1>2. w # <<>> /\ w[1] = t
  BY <1>1
<1>3. ValidStart(w)
  BY <1>1, <1>2, PositiveStart
<1>4. PICK rest : rest = Tail(w)
  OBVIOUS
<1>5. Start(w).end = IF rest # <<>> /\ rest[1] \in {"k", "M"} THEN Tail(rest) ELSE rest
  BY <1>1, <1>2, <1>4, StartGoesOn
<1>6. CASE w \in {<<t>>, <<t, "k">>, <<t, "M">>}
  <2>. SUFFICES Start(w).end = <<>>
    BY <1>3 DEF OneFrequency
  <2>1. CASE w = <<t>>
    <3>1. rest = <<>>
      BY <1>4, <2>1
    <3>. QED
      BY <1>5, <3>1
  <2>2. CASE w = <<t, "k">>
    <3>1. rest = <<"k">>
      BY <1>4, <2>2
    <3>. QED
      BY <1>5, <3>1
  <2>3. CASE w = <<t, "M">>
    <3>1. rest = <<"M">>
      BY <1>4, <2>3
    <3>. QED
      BY <1>5, <3>1
  <2>. QED
    BY <1>6, <2>1, <2>2, <2>3
<1>7. ASSUME NEW u \in DOMAIN Floats, Positive(u),
             w \in {<<t, "-", u>>, <<t, "k", "-", u>>, <<t, "M", "-", u>>}
      PROVE  TwoFrequencies(w)
  <2>1. Start(w).end = <<"-", u>>
    <3>1. CASE w = <<t, "-", u>>
      BY <1>4, <1>5, <3>1
    <3>2. CASE w = <<t, "k", "-", u>>
      <4>1. rest = <<"k", "-", u>>
        BY <1>4, <3>2
      <4>. QED
        BY <1>5, <4>1
    <3>3. CASE w = <<t, "M", "-", u>>
      <4>1. rest = <<"M", "-", u>>
        BY <1>4, <3>3
      <4>. QED
        BY <1>5, <4>1
    <3>. QED
      BY <1>7, <3>1, <3>2, <3>3
  <2>2. Tail(Start(w).end) = <<u>>
    BY <2>1
  <2>3. /\ ~IsNegative(Strtof(<<u>>).val)
        /\ Strtof(<<u>>) = [val |-> AsFloat(Floats[u]), end |-> Tail(<<u>>)]
    BY <1>7, PositiveStart
  <2>4. Second(w) = Strtof(<<u>>)
    BY <2>2, Zenon DEF Second
  <2>. QED
    BY <1>3, <2>1, <2>3, <2>4 DEF TwoFrequencies
<1>. QED
  BY <1>1, <1>6, <1>7

\* input.h:48-49, input.c:284: a line is rejected for a reason only, and the
\* first parse touches memory that it should not only for a mode that is too
\* long for its copy.
THEOREM RejectedForReason == Spec => []FailsForReason
<1>1. TypeOK /\ Stages /\ First => FailsForReason
  <2>. SUFFICES ASSUME FirstParse
                PROVE  /\ result = "rejected" =>
                            \/ ~Documented(line)
                            \/ \E i \in DOMAIN Promised : ~Valid(Promised[i])
                       /\ pc = "undefined" => line[3] \in LongWords
    BY DEF First, FailsForReason
  <2>1. pc = "undefined" => line[3] \in LongWords
    BY DEF FirstParse
  <2>2. ASSUME ScanInv, NEW n \in 1..Len(seen), ~Valid(seen[n])
        PROVE  \E i \in DOMAIN Promised : ~Valid(Promised[i])
    <3>1. Promised \in Found /\ seen \in Found /\ Begins(seen, Promised)
      BY <2>2, SeenBegins
    <3>2. /\ DOMAIN Promised = 1..Len(Promised) /\ Len(Promised) \in Nat /\ Len(seen) \in Nat
      BY <3>1, LenProperties DEF Found
    <3>3. n \in DOMAIN Promised /\ Promised[n] = seen[n]
      BY <3>1, <3>2 DEF Begins
    <3>. QED
      BY <2>2, <3>3
  <2>3. Documented(line) => WellFormed(line) \/ IsHelp(line)
    BY DocumentedTaken DEF Documented, WellFormed
  <2>. QED
    BY <2>1, <2>2, <2>3 DEF FirstParse
<1>. QED
  BY <1>1, FirstInvariant, PTL

-----------------------------------------------------------------------------
(* The frequency *)

\* Two roundings lose less than twice what one may.
LEMMA TwoRoundings ==
  ASSUME NEW x \in Nat, NEW k \in Nat
  PROVE  /\ Rounded(Rounded(x) * k) \in Nat
         /\ Exact * Magnitude(Rounded(Rounded(x) * k) - x * k) <= 2 * (x * k)
<1>1. Exact \in Nat \ {0}
  BY ExactEven
<1>2. PICK a \in Nat : a = Rounded(x) /\ (Exact + 1) * Magnitude(a - x) <= x
  BY RoundedNear
<1>3. PICK m \in Nat : m = Magnitude(a - x) /\ a <= x + m /\ x <= a + m /\ (Exact + 1) * m <= x
  BY <1>2 DEF Magnitude
<1>4. PICK b \in Nat, n \in Nat, d \in Nat : b = a * k /\ n = x * k /\ d = m * k
  <2>1. a * k \in Nat /\ x * k \in Nat /\ m * k \in Nat
    OBVIOUS
  <2>. QED
    BY <2>1
<1>5. b <= n + d /\ n <= b + d
  <2>1. a * k <= (x + m) * k /\ x * k <= (a + m) * k
    BY <1>3
  <2>2. (x + m) * k = x * k + m * k /\ (a + m) * k = a * k + m * k
    OBVIOUS
  <2>. QED
    BY <1>4, <2>1, <2>2
<1>6. (Exact + 1) * d <= n
  <2>1. ((Exact + 1) * m) * k <= x * k
    BY <1>1, <1>3
  <2>2. ((Exact + 1) * m) * k = (Exact + 1) * (m * k)
    BY <1>1
  <2>. QED
    BY <1>4, <2>1, <2>2
<1>7. PICK c \in Nat : c = Rounded(b) /\ (Exact + 1) * Magnitude(c - b) <= b
  BY RoundedNear
<1>8. PICK e \in Nat : e = Magnitude(c - b) /\ c <= b + e /\ b <= c + e /\ (Exact + 1) * e <= b
  BY <1>7 DEF Magnitude
<1>9. PICK l \in Nat : l = Magnitude(c - n) /\ l <= e + d
  <2>1. c <= n + (e + d) /\ n <= c + (e + d) /\ c \in Int /\ n \in Int /\ e + d \in Nat
    BY <1>5, <1>8
  <2>2. CASE c - n < 0
    <3>1. Magnitude(c - n) = -(c - n)
      BY <2>2 DEF Magnitude
    <3>2. n - c \in Nat /\ n - c <= e + d /\ -(c - n) = n - c
      BY <2>1, <2>2
    <3>. QED
      BY <3>1, <3>2
  <2>3. CASE ~(c - n < 0)
    <3>1. Magnitude(c - n) = c - n
      BY <2>3 DEF Magnitude
    <3>2. c - n \in Nat /\ c - n <= e + d
      BY <2>1, <2>3
    <3>. QED
      BY <3>1, <3>2
  <2>. QED
    BY <2>2, <2>3
<1>10. Exact * l <= 2 * n
  <2>1. Exact * l <= Exact * (e + d)
    BY <1>1, <1>9
  <2>2. PICK p \in Nat, q \in Nat : p = Exact * e /\ q = Exact * d
    <3>1. Exact * e \in Nat /\ Exact * d \in Nat
      BY <1>1
    <3>. QED
      BY <3>1
  <2>3. /\ (Exact + 1) * e = p + e /\ (Exact + 1) * d = q + d
        /\ Exact * (e + d) = p + q
    BY <1>1, <2>2
  <2>. QED
    BY <1>1, <1>5, <1>6, <1>8, <2>1, <2>2, <2>3
<1>. QED
  BY <1>2, <1>4, <1>7, <1>9, <1>10

LEMMA OneRounding ==
  ASSUME NEW x \in Nat
  PROVE  /\ Rounded(x) \in Nat
         /\ Exact * Magnitude(Rounded(x) - x) <= 2 * x
<1>1. Exact \in Nat \ {0}
  BY ExactEven
<1>2. PICK a \in Nat : a = Rounded(x) /\ (Exact + 1) * Magnitude(a - x) <= x
  BY RoundedNear
<1>3. PICK m \in Nat : m = Magnitude(a - x) /\ (Exact + 1) * m <= x
  BY <1>2 DEF Magnitude
<1>4. (Exact + 1) * m = Exact * m + m /\ Exact * m \in Nat
  BY <1>1
<1>. QED
  BY <1>1, <1>2, <1>3, <1>4

\* What a word of one frequency becomes.
LEMMA OrdinaryStart ==
  ASSUME NEW w \in Strings, Ordinary(w)
  PROVE  /\ Typed(w) \in Nat
         /\ Start(w).val.kind = "finite" /\ Start(w).val.n \in Nat
         /\ Exact * Magnitude(Start(w).val.n - Typed(w)) <= 2 * Typed(w)
<1>1. w \in Seq(STRING) /\ w[1] \in DOMAIN Floats /\ Floats[w[1]].kind = "finite"
      /\ ValidStart(w) /\ Start(w).end = <<>>
  BY DEF Ordinary, OneFrequency, Strings
<1>2. PICK x \in Nat : Floats[w[1]] = Finite(x) /\ x = Floats[w[1]].n
  BY <1>1, NumberAssumption DEF Finite, Inf, NaN
<1>3. w # <<>>
  <2>. SUFFICES ASSUME w = <<>> PROVE FALSE
    OBVIOUS
  <2>1. Strtof(w) = [val |-> Finite(0), end |-> w]
    <3>1. ~(Len(w) > 1)
      <4>1. Len(<<>>) = 0
        BY EmptySeq
      <4>. QED
        BY <4>1
    <3>. QED
      BY <3>1, Zenon DEF Strtof
  <2>2. IsZero(Strtof(w).val)
    BY <2>1 DEF IsZero, Finite
  <2>. QED
    BY <1>1, <2>2, Zenon DEF ValidStart
<1>4. PICK r : r = Strtof(w) /\ r.val = Finite(Rounded(x)) /\ r.end = Tail(w)
  <2>1. Strtof(w) = [val |-> AsFloat(Floats[w[1]]), end |-> Tail(w)]
    BY <1>1, <1>3 DEF Strtof
  <2>2. AsFloat(Finite(x)) = Finite(Rounded(x))
    BY DEF AsFloat, Finite
  <2>3. AsFloat(Floats[w[1]]) = Finite(Rounded(x))
    BY <1>2, <2>2, Zenon
  <2>4. PICK v : v = Finite(Rounded(x)) /\ v = AsFloat(Floats[w[1]])
    BY <2>3, Zenon
  <2>5. Strtof(w).val = v /\ Strtof(w).end = Tail(w)
    BY <2>1, <2>4
  <2>. QED
    BY <2>4, <2>5, Zenon
<1>5. Kilo \in Nat \ {0} /\ Mega \in Nat \ {0}
  BY NumberAssumption
<1>6. PICK l \in Nat \ {0} : l = Len(w) /\ Len(Tail(w)) = l - 1 /\ Tail(w) \in Seq(STRING)
                             /\ \A i \in 1..l-1 : Tail(w)[i] = w[i + 1]
  BY <1>1, <1>3, EmptySeq, HeadTailProperties, LenProperties
<1>7. ASSUME NEW k \in Nat
      PROVE  Times(r.val, k) = Finite(Rounded(Rounded(x) * k))
  BY <1>4 DEF Times, AsFloat, Finite
<1>8. ASSUME NEW k \in Nat, Start(w).val = Times(r.val, k), Typed(w) = x * k
       PROVE  /\ Typed(w) \in Nat
              /\ Start(w).val.kind = "finite" /\ Start(w).val.n \in Nat
              /\ Exact * Magnitude(Start(w).val.n - Typed(w)) <= 2 * Typed(w)
  <2>1. PICK y \in Nat : /\ y = Rounded(Rounded(x) * k)
                         /\ Exact * Magnitude(y - x * k) <= 2 * (x * k)
    BY TwoRoundings
  <2>2. Start(w).val = Finite(y) /\ x * k \in Nat
    BY <1>7, <1>8, <2>1
  <2>. QED
    BY <1>8, <2>1, <2>2 DEF Finite
<1>9. CASE r.end # <<>> /\ r.end[1] = "k"
  <2>1. Start(w) = [val |-> Times(r.val, Kilo), end |-> Tail(r.end)]
    BY <1>4, <1>9 DEF Start, apply_frequency_suffix
  <2>2. Len(w) = 2 /\ w[2] = "k"
    <3>1. Tail(Tail(w)) = <<>> /\ Tail(w) # <<>> /\ Tail(w)[1] = "k"
      BY <1>1, <1>4, <1>9, <2>1
    <3>2. PICK t \in Seq(STRING) : t = Tail(w) /\ t # <<>> /\ Tail(t) = <<>> /\ t[1] = "k"
      BY <1>6, <3>1
    <3>3. Len(Tail(t)) = Len(t) - 1 /\ Len(Tail(t)) = 0 /\ Len(t) \in Nat
      BY <3>2, EmptySeq, HeadTailProperties, LenProperties
    <3>4. l = 2
      BY <1>6, <3>2, <3>3
    <3>. QED
      BY <1>6, <3>2, <3>4
  <2>3. w = <<w[1], "k">>
    BY <1>1, <2>2
  <2>4. Typed(w) = x * Kilo
    BY <1>2, <2>3, Zenon DEF Typed
  <2>. QED
    BY <1>5, <1>8, <2>1, <2>4
<1>10. CASE r.end # <<>> /\ r.end[1] = "M"
  <2>1. Start(w) = [val |-> Times(r.val, Mega), end |-> Tail(r.end)]
    BY <1>4, <1>10 DEF Start, apply_frequency_suffix
  <2>2. Len(w) = 2 /\ w[2] = "M"
    <3>1. Tail(Tail(w)) = <<>> /\ Tail(w) # <<>> /\ Tail(w)[1] = "M"
      BY <1>1, <1>4, <1>10, <2>1
    <3>2. PICK t \in Seq(STRING) : t = Tail(w) /\ t # <<>> /\ Tail(t) = <<>> /\ t[1] = "M"
      BY <1>6, <3>1
    <3>3. Len(Tail(t)) = Len(t) - 1 /\ Len(Tail(t)) = 0 /\ Len(t) \in Nat
      BY <3>2, EmptySeq, HeadTailProperties, LenProperties
    <3>4. l = 2
      BY <1>6, <3>2, <3>3
    <3>. QED
      BY <1>6, <3>2, <3>4
  <2>3. w = <<w[1], "M">> /\ w # <<w[1], "k">>
    BY <1>1, <2>2
  <2>4. Typed(w) = x * Mega
    BY <1>2, <2>3, Zenon DEF Typed
  <2>. QED
    BY <1>5, <1>8, <2>1, <2>4
<1>11. CASE ~(r.end # <<>> /\ r.end[1] = "k") /\ ~(r.end # <<>> /\ r.end[1] = "M")
  <2>1. Start(w) = r
    BY <1>4, <1>11 DEF Start, apply_frequency_suffix
  <2>2. Len(w) = 1
    BY <1>1, <1>4, <1>6, <2>1
  <2>3. w # <<w[1], "k">> /\ w # <<w[1], "M">>
    BY <2>2
  <2>4. Typed(w) = x * 1
    BY <1>2, <2>3, Zenon DEF Typed
  <2>5. PICK y \in Nat : y = Rounded(x) /\ Exact * Magnitude(y - x) <= 2 * x
    BY OneRounding
  <2>6. Typed(w) = x /\ Start(w).val = Finite(y)
    BY <1>4, <2>1, <2>4, <2>5
  <2>. QED
    BY <2>5, <2>6 DEF Finite
<1>. QED
  BY <1>9, <1>10, <1>11
\* The number that is stored for it.
LEMMA OrdinaryStored ==
  ASSUME NEW w \in Strings, Ordinary(w), NEW hertz \in 0..FreqSpan, Below(Typed(w), hertz),
         NEW f \in ToUint32(Start(w).val)
  PROVE  f \in 0..hertz-1 /\ Near(f, Typed(w))
<1>1. PICK h \in Nat \ {0} : h = TwoTo[FloatBits - 1] /\ Exact = 2 * h
  BY ExactEven
<1>2. PICK n \in Nat, c \in Nat :
        /\ n = Typed(w) /\ c = Start(w).val.n
        /\ Start(w).val.kind = "finite"
        /\ Exact * Magnitude(c - n) <= 2 * n
  BY OrdinaryStart
<1>3. PICK p \in Nat \ {0}, s \in Nat : p = PerHertz /\ s = hertz /\ s <= FreqSpan
  BY NumberAssumption
<1>4. (h + 1) * n < h * (p * s)
  BY <1>1, <1>2, <1>3 DEF Below
<1>5. PICK m \in Nat : m = Magnitude(c - n) /\ c <= n + m /\ n <= c + m
  <2>1. CASE c - n < 0
    <3>1. Magnitude(c - n) = -(c - n)
      BY <2>1 DEF Magnitude
    <3>2. n - c \in Nat /\ -(c - n) = n - c
      BY <2>1
    <3>. QED
      BY <3>1, <3>2
  <2>2. CASE ~(c - n < 0)
    <3>1. Magnitude(c - n) = c - n
      BY <2>2 DEF Magnitude
    <3>2. c - n \in Nat
      BY <2>2
    <3>. QED
      BY <3>1, <3>2
  <2>. QED
    BY <2>1, <2>2
<1>6. h * m <= n
  <2>1. (2 * h) * m <= 2 * n
    BY <1>1, <1>2, <1>5
  <2>2. (2 * h) * m = 2 * (h * m) /\ h * m \in Nat
    OBVIOUS
  <2>. QED
    BY <2>1, <2>2
<1>7. c < p * s
  <2>1. h * c <= h * (n + m)
    BY <1>5
  <2>2. h * (n + m) = h * n + h * m /\ (h + 1) * n = h * n + n /\ h * n \in Nat /\ h * m \in Nat
        /\ h * c \in Nat /\ h * (p * s) \in Nat /\ p * s \in Nat
    OBVIOUS
  <2>3. h * c < h * (p * s)
    BY <1>4, <1>6, <2>1, <2>2
  <2>. SUFFICES ASSUME ~(c < p * s) PROVE FALSE
    OBVIOUS
  <2>4. h * (p * s) <= h * c
    BY <2>2
  <2>. QED
    BY <2>2, <2>3, <2>4
<1>8. PICK t \in Nat, r \in Nat : t = c \div p /\ r < p /\ c = t * p + r
  <2>1. c \div p \in Nat /\ c % p \in Nat /\ c % p < p /\ c = (c \div p) * p + (c % p)
    <3>1. c \div p \in Int /\ c % p \in Nat /\ c % p < p /\ c = (c \div p) * p + (c % p)
      BY Division
    <3>2. c \div p >= 0
      OBVIOUS
    <3>. QED
      BY <3>1, <3>2
  <2>. QED
    BY <2>1
<1>9. t < s
  <2>1. t * p < p * s
    <3>1. t * p \in Nat /\ p * s \in Nat
      OBVIOUS
    <3>. QED
      BY <1>7, <1>8, <3>1
  <2>. SUFFICES ASSUME ~(t < s) PROVE FALSE
    OBVIOUS
  <2>2. p * s <= p * t /\ p * t = t * p
    OBVIOUS
  <2>. QED
    BY <2>1, <2>2
<1>10. f = t
  <2>1. t < FreqSpan
    BY <1>3, <1>9, NumberAssumption
  <2>. QED
    BY <1>2, <1>3, <1>8, <2>1 DEF ToUint32
<1>11. PICK l \in Nat : l = Magnitude(p * t - n) /\ l <= m + p
  <2>1. PICK u \in Nat : u = p * t /\ u = t * p
    OBVIOUS
  <2>2. u <= n + (m + p) /\ n <= u + (m + p)
    BY <1>5, <1>8, <2>1
  <2>3. CASE u - n < 0
    <3>1. Magnitude(u - n) = -(u - n)
      BY <2>3 DEF Magnitude
    <3>2. n - u \in Nat /\ n - u <= m + p /\ -(u - n) = n - u
      BY <2>2, <2>3
    <3>. QED
      BY <2>1, <3>1, <3>2
  <2>4. CASE ~(u - n < 0)
    <3>1. Magnitude(u - n) = u - n
      BY <2>4 DEF Magnitude
    <3>2. u - n \in Nat /\ u - n <= m + p
      BY <2>2, <2>4
    <3>. QED
      BY <2>1, <3>1, <3>2
  <2>. QED
    BY <2>3, <2>4
<1>12. h * (l - p) <= n
  <2>1. l - p \in Int /\ l - p <= m
    BY <1>11
  <2>2. PICK v \in Int : v = l - p /\ v <= m
    BY <2>1
  <2>3. h * v <= h * m
    BY <2>2
  <2>. QED
    BY <1>6, <2>2, <2>3
<1>. QED
  BY <1>1, <1>2, <1>3, <1>9, <1>10, <1>11, <1>12 DEF Near

\* Once the range is read, the struct has the frequency, for every bound on it
\* that the typed number respects; a struct that asks for help says so.
Stored(i, l) ==
  \A hertz \in 0..FreqSpan :
    Ordinary(l[2]) /\ Below(Typed(l[2]), hertz) =>
      /\ i.freq_start = i.freq_end
      /\ i.freq_start \in 0..hertz-1
      /\ Near(i.freq_start, Typed(l[2]))

Tuned ==
  /\ pc = "help" => input.subcommand = "help"
  /\ pc \in {"mode", "condense", "flags"} \/ Accepted("scan") => Stored(input, line)
  /\ pc \in {"condense", "flags"} \/ Accepted("scan") => IsMode(line[3], input.demod_mode)

LEMMA ReturnTuned ==
  ASSUME TypeOK, Tuned, line' = line,
         \/ Reject
         \/ Returns("accepted") /\ pc \in {"help", "flags"}
  PROVE  Tuned'
<1>1. pc' = "idle"
  BY DEF Reject, Returns
<1>2. CASE Reject
  BY <1>1, <1>2 DEF Reject, Returns, Tuned, Accepted
<1>3. CASE Returns("accepted") /\ pc = "help"
  <2>1. input' = input /\ input.subcommand = "help"
    BY <1>3 DEF Returns, Tuned
  <2>. QED
    BY <1>1, <2>1 DEF Tuned, Accepted
<1>4. CASE Returns("accepted") /\ pc = "flags"
  <2>1. input' = input /\ Stored(input, line) /\ IsMode(line[3], input.demod_mode)
    BY <1>4 DEF Returns, Tuned
  <2>2. Stored(input', line') /\ IsMode(line'[3], input'.demod_mode)
    BY <2>1
  <2>. QED
    BY <1>1, <2>2 DEF Tuned, Stored
<1>. QED
  BY <1>2, <1>3, <1>4

LEMMA TunedKept == TypeOK /\ Stages /\ Tuned /\ [Next]_vars => Tuned'
<1>. SUFFICES ASSUME TypeOK, Stages, Tuned, [Next]_vars PROVE Tuned'
  OBVIOUS
<1>. DEFINE Keeps == /\ input'.freq_start = input.freq_start
                     /\ input'.freq_end = input.freq_end
                     /\ line' = line
                     /\ \/ /\ pc = "mode"
                           /\ IsMode(line[3], input'.demod_mode)
                        \/ /\ pc \in {"condense", "flags"}
                           /\ input'.demod_mode = input.demod_mode
                     /\ pc' # "help"
<1>1. CASE StartParse
  BY <1>1 DEF StartParse, Default, Tuned, Accepted
<1>2. CASE check_help_command
  <2>1. CASE Returns("accepted")
    BY <1>2, <2>1, ReturnTuned DEF check_help_command
  <2>2. CASE pc' = "scan" /\ UNCHANGED <<input, result>>
    BY <1>2, <2>2 DEF check_help_command, Tuned, TypeOK, Accepted
  <2>. QED
    BY <1>2, <2>1, <2>2 DEF check_help_command
<1>3. CASE check_scan_command
  <2>1. CASE Reject
    BY <1>3, <2>1, ReturnTuned DEF check_scan_command
  <2>2. CASE pc' = "range" /\ UNCHANGED result
    BY <1>3, <2>2 DEF check_scan_command, Tuned, TypeOK, Accepted
  <2>. QED
    BY <1>3, <2>1, <2>2 DEF check_scan_command
<1>4. CASE sanitize_frequency_range
  <2>1. line' = line /\ pc = "range"
    BY <1>4, Zenon DEF sanitize_frequency_range
  <2>2. line' = line /\ line[2] \in Strings /\ pc = "range"
    <3>1. line \in Lines /\ 3 \in DOMAIN line
      BY <2>1 DEF Stages, IsScan
    <3>2. 2 \in DOMAIN line
      BY <3>1, LineTypes
    <3>. QED
      BY <2>1, <3>1, <3>2, LineTypes
  <2>3. CASE Reject
    BY <2>2, <2>3, ReturnTuned
  <2>4. CASE /\ OneFrequency(line[2])
             /\ \E f \in ToUint32(Start(line[2]).val) :
                  input' = [input EXCEPT !.freq_start = f, !.freq_end = f]
             /\ pc' = "mode"
             /\ UNCHANGED result
    <3>1. PICK f \in ToUint32(Start(line[2]).val) :
            input'.freq_start = f /\ input'.freq_end = f
      BY <2>4 DEF TypeOK, program_input_s
    <3>2. Stored(input', line)
      BY <2>2, <3>1, OrdinaryStored DEF Stored
    <3>3. Stored(input', line')
      BY <2>2, <3>2
    <3>. QED
      BY <2>2, <2>4, <3>3 DEF Tuned, Stored, Accepted, TypeOK
  <2>5. CASE TwoFrequencies(line[2]) /\ pc' = "mode" /\ UNCHANGED result
    <3>1. ~Ordinary(line[2])
      BY <2>5 DEF TwoFrequencies, Ordinary, OneFrequency
    <3>2. ~Ordinary(line'[2])
      BY <2>2, <3>1
    <3>. QED
      BY <2>2, <2>5, <3>2 DEF Tuned, Stored, Accepted, TypeOK
  <2>. QED
    BY <1>4, <2>3, <2>4, <2>5, Zenon DEF sanitize_frequency_range
<1>5. CASE Keeps
  <2>1. Stored(input, line)
    BY <1>5 DEF Tuned
  <2>2. Stored(input', line)
    BY <1>5, <2>1 DEF Stored
  <2>3. IsMode(line[3], input'.demod_mode)
    BY <1>5 DEF Tuned
  <2>4. Stored(input', line') /\ IsMode(line'[3], input'.demod_mode)
    BY <1>5, <2>2, <2>3
  <2>. QED
    BY <1>5, <2>4 DEF Tuned, Stored
<1>6. CASE demod_mode
  <2>1. CASE Reject
    BY <1>6, <2>1, ReturnTuned DEF demod_mode
  <2>2. CASE pc' = "undefined" /\ UNCHANGED <<input, result>>
    BY <1>6, <2>2 DEF demod_mode, Tuned, TypeOK, Accepted
  <2>3. CASE /\ \E m \in {"am", "fm", "wbfm"} : /\ IsMode(line[3], m)
                                               /\ input' = [input EXCEPT !.demod_mode = m]
             /\ pc' = "condense"
    <3>1. PICK m \in {"am", "fm", "wbfm"} : /\ IsMode(line[3], m)
                                           /\ input' = [input EXCEPT !.demod_mode = m]
      BY <2>3
    <3>2. /\ input'.demod_mode = m
          /\ input'.freq_start = input.freq_start
          /\ input'.freq_end = input.freq_end
      BY <3>1 DEF TypeOK, program_input_s
    <3>. QED
      BY <1>5, <1>6, <2>3, <3>1, <3>2 DEF demod_mode
  <2>. QED
    BY <1>6, <2>1, <2>2, <2>3 DEF demod_mode
<1>7. CASE condense_flags
  BY <1>5, <1>7 DEF condense_flags
<1>8. CASE FlagsEnd
  BY <1>8, ReturnTuned DEF FlagsEnd, InFlags
<1>9. CASE FlagInvalid
  BY <1>9, ReturnTuned DEF FlagInvalid, InFlags
<1>10. CASE FlagIgnored
  BY <1>5, <1>10 DEF FlagIgnored, InFlags
<1>11. CASE FlagValue
  <2>1. CASE Reject
    BY <1>11, <2>1, ReturnTuned DEF FlagValue, InFlags
  <2>2. CASE /\ input' = [input EXCEPT ![Field[opt']] = Atoi(optarg')]
             /\ UNCHANGED <<pc, result>>
    <3>1. Field[opt'] \in {"timeout", "hold_time", "cycles"}
      BY <1>11, ArgumentIsNoEnd DEF FlagValue
    <3>2. /\ input'.freq_start = input.freq_start
          /\ input'.freq_end = input.freq_end
          /\ input'.demod_mode = input.demod_mode
      BY <2>2, <3>1 DEF TypeOK, program_input_s
    <3>. QED
      BY <1>5, <1>11, <2>2, <3>2 DEF FlagValue, InFlags
  <2>. QED
    BY <1>11, <2>1, <2>2 DEF FlagValue
<1>12. CASE FlagsUndefined
  BY <1>12 DEF FlagsUndefined, Tuned, TypeOK, Accepted
<1>13. CASE UNCHANGED vars
  BY <1>13 DEF vars, inputVars, Tuned, Accepted, Stored
<1>. QED
  BY <1>1, <1>2, <1>3, <1>4, <1>6, <1>7, <1>8, <1>9, <1>10, <1>11, <1>12, <1>13
    DEF Next, Parse, Finished

LEMMA TunedAlways == Spec => []Tuned
<1>1. Init => TypeOK /\ Stages /\ Tuned
  BY DefaultTypes DEF Init, TypeOK, Stages, Tuned, Accepted
<1>. QED
  BY <1>1, TypesKept, StagesKept, TunedKept, PTL DEF Spec

\* input.c:129-132: an accepted scan of one frequency has what its numeral and
\* its suffix say together, up to two roundings to a float and the fraction of a
\* hertz, for every width of the significand and of the uint32_t, and however
\* many lines were parsed before, whenever a uint32_t holds it.
THEOREM FrequencyAsTyped == Spec => []FrequencyNear
<1>1. Tuned => FrequencyNear
  <2>1. FreqSpan \in 0..FreqSpan
    BY NumberAssumption
  <2>. QED
    BY <2>1 DEF Tuned, Stored, FrequencyNear
<1>. QED
  BY <1>1, TunedAlways, PTL
=============================================================================
