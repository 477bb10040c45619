------------------------------- MODULE Input -------------------------------
(***************************************************************************)
(* parse_program_input (src/input.c): one command line after the other is  *)
(* parsed in one process. The program parses one; the tests of the         *)
(* repository parse many, and the statics of getopt live on between them.  *)
(*                                                                         *)
(* The words of a line are sequences of tokens, as in Getopt. A numeral is *)
(* one token. Frequencies are counted in parts of a hertz, and rounded to  *)
(* what a float can hold wherever the code stores one.                     *)
(***************************************************************************)
EXTENDS Getopt, FiniteSets, TLC, Float

CONSTANTS
  Lines,      (* the command lines, functions on 0..n-1                    *)
  MaxParses,  (* bound: command lines parsed in one process                *)
  Again,      (* bound: the lines that share a process with another one    *)
  Floats,     (* numeral -> the number it denotes, in parts of a hertz     *)
  PerHertz,   (* how many parts a hertz has                                *)
  Ints,       (* numeral -> the number that atoi reads                     *)
  Kilo, Mega, (* the factors of the suffixes                               *)
  FreqSpan,   (* how many values a uint32_t has                            *)
  IntSpan,    (* how many values an int has                                *)
  ToLower,    (* word -> the same in lower case, where that differs        *)
  LongWords   (* the words of more than LARGEST_DEMOD_MODE_LEN characters  *)

VARIABLES
  pc,         (* where the parse is                                        *)
  line,       (* the argv parse_program_input was given                    *)
  input,      (* the program_input_s being filled                          *)
  result,     (* what the last parse returned                              *)
  memory,     (* what nextchar points into                                 *)
  parses,     (* history: how many parses have begun                       *)
  flagless    (* history: no line so far had a flag                        *)

inputVars == <<pc, line, input, result, memory, parses, flagless>>
vars == <<inputVars, getoptVars>>

\* What a float may be.
Finite(n) == [kind |-> "finite", n |-> n]
Inf       == [kind |-> "inf", n |-> 1]
NaN       == [kind |-> "nan", n |-> 0]

Default == [subcommand |-> "help", demod_mode |-> "fm", timeout |-> 0,
            hold_time |-> 3, cycles |-> 3, freq_start |-> 0, freq_end |-> 0]

ASSUME LineAssumption ==
  \A l \in Lines : /\ Cardinality(DOMAIN l) \in Nat \ {0}
                   /\ l \in [0..Cardinality(DOMAIN l)-1 -> Seq(STRING)]

ASSUME AgainAssumption == Again \subseteq Lines

ASSUME NumberAssumption ==
  /\ \A t \in DOMAIN Floats : Floats[t] \in [kind : {"finite"}, n : Nat] \cup {Inf, NaN}
  /\ \A t \in DOMAIN Ints : Ints[t] \in Int
  /\ {PerHertz, Kilo, Mega, FreqSpan} \subseteq Nat \ {0}
  /\ IntSpan \in Nat /\ IntSpan >= 8 /\ IntSpan % 2 = 0

ASSUME LowerAssumption == \A w \in DOMAIN ToLower : Len(ToLower[w]) = Len(w)

lineArgc == Cardinality(DOMAIN line)

Word(t) == <<t>>

-----------------------------------------------------------------------------
(* Numbers *)

AsFloat(f) == IF f.kind = "finite" THEN Finite(Rounded(f.n)) ELSE f

Negated(f) == [f EXCEPT !.n = -@]

\* strtof: the numeral at the head of a word, with its sign; 0 and the whole
\* word if there is none.
Strtof(w) ==
  IF w # <<>> /\ w[1] \in DOMAIN Floats
  THEN [val |-> AsFloat(Floats[w[1]]), end |-> Tail(w)]
  ELSE IF Len(w) > 1 /\ w[1] = "-" /\ w[2] \in DOMAIN Floats
  THEN [val |-> Negated(AsFloat(Floats[w[2]])), end |-> Tail(Tail(w))]
  ELSE [val |-> Finite(0), end |-> w]

\* Broken: no width.
MutUnbounded(w) ==
  IF w # <<>> /\ w[1] \in DOMAIN Ints THEN Ints[w[1]]
  ELSE IF Len(w) > 1 /\ w[1] = "-" /\ w[2] \in DOMAIN Ints THEN -Ints[w[2]]
  ELSE 0

\* atoi, which ignores what follows the number and keeps what fits an int.
Atoi(w) ==
  LET n == IF w # <<>> /\ w[1] \in DOMAIN Ints THEN Ints[w[1]]
           ELSE IF Len(w) > 1 /\ w[1] = "-" /\ w[2] \in DOMAIN Ints THEN -Ints[w[2]]
           ELSE 0
      half == IntSpan \div 2
  IN  ((n + half) % IntSpan) - half

\* The cast of a float to uint32_t cuts off the fraction. It is undefined
\* outside of the range of the type: builds keep the low bits, or give 0 or the
\* largest value.
ToUint32(f) ==
  IF f.kind # "finite" THEN {0, FreqSpan - 1}
  ELSE LET hertz == f.n \div PerHertz
       IN  IF hertz < FreqSpan THEN {hertz} ELSE {0, FreqSpan - 1, hertz % FreqSpan}

IsNegative(f) == f.kind # "nan" /\ f.n < 0

IsZero(f) == f.kind = "finite" /\ f.n = 0

\* *val *= k: the exact product, rounded again.
Times(f, k) == AsFloat(IF f.kind = "finite" THEN Finite(f.n * k) ELSE f)

\* Broken: `k' falls through to `M'.
MutFallsThrough(r) ==
  IF r.end # <<>> /\ r.end[1] = "k"
  THEN [val |-> Times(Times(r.val, Kilo), Mega), end |-> Tail(r.end)]
  ELSE IF r.end # <<>> /\ r.end[1] = "M" THEN [val |-> Times(r.val, Mega), end |-> Tail(r.end)]
  ELSE r

\* apply_frequency_suffix on a value that is not zero.
apply_frequency_suffix(r) ==
  IF r.end # <<>> /\ r.end[1] = "k" THEN [val |-> Times(r.val, Kilo), end |-> Tail(r.end)]
  ELSE IF r.end # <<>> /\ r.end[1] = "M" THEN [val |-> Times(r.val, Mega), end |-> Tail(r.end)]
  ELSE r

-----------------------------------------------------------------------------
(* The frequency range *)

ValidStart(w) == LET v == Strtof(w).val IN ~IsNegative(v) /\ ~IsZero(v)

Start(w) == apply_frequency_suffix(Strtof(w))

\* What follows the dash behind the start. The suffix of the second frequency
\* is not applied: the expression of line 221 calls nothing.
Second(w) == Strtof(Tail(Start(w).end))

OneFrequency(w) == ValidStart(w) /\ Start(w).end = <<>>

TwoFrequencies(w) ==
  /\ ValidStart(w)
  /\ Start(w).end # <<>> /\ Start(w).end[1] = "-"
  /\ ~IsNegative(Second(w).val)
  /\ Second(w).end = <<>>

-----------------------------------------------------------------------------
(* The parse *)

\* parse_program_input returns; after a rejection nobody has the struct.
Returns(r) ==
  /\ pc' = "idle"
  /\ result' = r
  /\ input' = IF r = "accepted" THEN input ELSE Default

Reject == Returns("rejected")

\* No word behind the mode may be a flag, nor what strtof takes for a frequency:
\* "-nan" is not negative.
Flagless(l) ==
  \A i \in DOMAIN l : i > 3 \/ (i = 2 /\ ValidStart(l[i])) => Nonoption(l[i])

\* Whether another line is parsed, and which.
MoreLines == parses < MaxParses /\ (parses = 0 \/ line \in Again)
NextLines == IF parses = 0 THEN Lines ELSE Again

StartParse ==
  /\ pc = "idle"
  /\ MoreLines
  /\ line' \in NextLines
  /\ input' = Default
  /\ result' = "none"
  /\ parses' = parses + 1
  /\ flagless' = (flagless /\ Flagless(line'))
  /\ pc' = "help"
  /\ UNCHANGED <<memory, getoptVars>>

IsHelp(l) == DOMAIN l = {0} \/ (DOMAIN l = {0, 1} /\ l[1] = Word("help"))

check_help_command ==
  /\ pc = "help"
  /\ IF IsHelp(line) THEN Returns("accepted")
     ELSE pc' = "scan" /\ UNCHANGED <<input, result>>
  /\ UNCHANGED <<line, memory, parses, flagless, getoptVars>>

IsScan(l) == l[1] = Word("scan") /\ 3 \in DOMAIN l

\* check_scan_command up to the number of words.
check_scan_command ==
  /\ pc = "scan"
  /\ IF IsScan(line)
     THEN /\ input' = [input EXCEPT !.subcommand = "scan"]
          /\ pc' = "range"
          /\ UNCHANGED result
     ELSE Reject
  /\ UNCHANGED <<line, memory, parses, flagless, getoptVars>>

sanitize_frequency_range ==
  /\ pc = "range"
  /\ LET w == line[2]
     IN  \/ /\ OneFrequency(w)
            /\ \E f \in ToUint32(Start(w).val) :
                 input' = [input EXCEPT !.freq_start = f, !.freq_end = f]
            /\ pc' = "mode"
            /\ UNCHANGED result
         \/ /\ TwoFrequencies(w)
            /\ \E f \in ToUint32(Start(w).val), g \in ToUint32(Second(w).val) :
                 input' = [input EXCEPT !.freq_start = f, !.freq_end = g]
            /\ pc' = "mode"
            /\ UNCHANGED result
         \/ /\ ~OneFrequency(w) /\ ~TwoFrequencies(w)
            /\ Reject
  /\ UNCHANGED <<line, memory, parses, flagless, getoptVars>>

Lower(w) == IF w \in DOMAIN ToLower THEN ToLower[w] ELSE w

IsMode(w, m) == m \in {"am", "fm", "wbfm"} /\ Lower(w) = Word(m)

\* The copy of a word that is too long has no end: lowering its case runs on
\* through the heap until a zero byte or the end of the memory.
demod_mode ==
  /\ pc = "mode"
  /\ LET w == line[3]
     IN  \/ \E m \in {"am", "fm", "wbfm"} :
              /\ IsMode(w, m)
              /\ input' = [input EXCEPT !.demod_mode = m]
              /\ pc' = "condense"
              /\ UNCHANGED result
         \/ /\ \A m \in {"am", "fm", "wbfm"} : ~IsMode(w, m)
            /\ Reject
         \/ /\ w \in LongWords
            /\ pc' = "undefined"
            /\ UNCHANGED <<input, result>>
  /\ UNCHANGED <<line, memory, parses, flagless, getoptVars>>

\* The short form of an expanded flag; every other word is copied.
ShortForm(w) ==
  IF w = <<"-", "-", "verbose">> THEN <<"-", "v">>
  ELSE IF w = <<"-", "-", "timeout">> THEN <<"-", "t">>
  ELSE IF w = <<"-", "-", "hold-time">> THEN <<"-", "h">>
  ELSE IF w = <<"-", "-", "cycles">> THEN <<"-", "c">>
  ELSE w

condense_flags ==
  /\ pc = "condense"
  /\ argc' = lineArgc
  /\ argv' = [i \in DOMAIN line |-> ShortForm(line[i])]
  /\ given' = argv'
  /\ seen' = <<>>
  /\ opt' = None
  /\ optarg' = <<>>
  /\ pc' = "flags"
  /\ UNCHANGED <<line, input, result, memory, parses, flagless, statics>>

-----------------------------------------------------------------------------
(* The loop over getopt *)

\* The field an option sets.
Field == [t |-> "timeout", h |-> "hold_time", c |-> "cycles"]

\* The option string of parse_program_input.
ASSUME FieldAssumption == Flags = {"v"} /\ ArgFlags = DOMAIN Field

InFlags == pc = "flags" /\ memory # "freed" /\ UNCHANGED <<line, parses, flagless>>

\* All flags are handled and the words are freed, though nextchar may point to
\* the end of the last one scanned.
FlagsEnd ==
  /\ InFlags
  /\ ScanEnds \/ ScanStops
  /\ Returns("accepted")
  /\ memory' = IF memory = "line" THEN "freed" ELSE memory

\* On every rejection from here the words of the line are leaked.
FlagInvalid ==
  /\ InFlags
  /\ \/ InvalidOption /\ memory' = "leaked"
     \/ ArgumentMissing /\ memory' = "null"
  /\ Reject

\* -v has no case in the switch.
FlagIgnored ==
  /\ InFlags
  /\ FlagFound
  /\ memory' = IF nextchar = <<>> THEN "line" ELSE memory
  /\ UNCHANGED <<pc, input, result>>

\* Broken: a value of 0 is stored.
MutTakesZero ==
  /\ InFlags
  /\ ArgumentInWord \/ ArgumentNext
  /\ memory' = "null"
  /\ input' = [input EXCEPT ![Field[opt']] = Atoi(optarg')]
  /\ UNCHANGED <<pc, result>>

\* Broken: every value is refused.
MutRefuses ==
  /\ InFlags
  /\ ArgumentInWord \/ ArgumentNext
  /\ memory' = "null"
  /\ Reject

FlagValue ==
  /\ InFlags
  /\ ArgumentInWord \/ ArgumentNext
  /\ memory' = "null"
  /\ IF Atoi(optarg') = 0 THEN Reject
     ELSE /\ input' = [input EXCEPT ![Field[opt']] = Atoi(optarg')]
          /\ UNCHANGED <<pc, result>>

\* getopt looks at a freed word, or behind the vector, because of an earlier
\* parse: what happens then is undefined, and the model stops.
FlagsUndefined ==
  /\ pc = "flags"
  /\ memory = "freed" \/ Beyond
  /\ pc' = "undefined"
  /\ UNCHANGED <<line, input, result, memory, parses, flagless, getoptVars>>

\* No further line is parsed.
Finished ==
  /\ pc = "undefined" \/ (pc = "idle" /\ ~MoreLines)
  /\ UNCHANGED vars

Init ==
  /\ pc = "idle"
  /\ line = (0 :> Word("rcs"))
  /\ input = Default
  /\ result = "none"
  /\ memory = "null"
  /\ parses = 0
  /\ flagless = TRUE
  /\ argc = 1
  /\ argv = line
  /\ given = line
  /\ seen = <<>>
  /\ opt = None
  /\ optarg = <<>>
  /\ InitStatics

Parse ==
  \/ check_help_command
  \/ check_scan_command
  \/ sanitize_frequency_range
  \/ demod_mode
  \/ condense_flags
  \/ FlagsEnd
  \/ FlagInvalid
  \/ FlagIgnored
  \/ FlagValue
  \/ FlagsUndefined

Next == StartParse \/ Parse \/ Finished

Spec == Init /\ [][Next]_vars

\* The parse is straight-line code of one thread.
FairSpec == Spec /\ WF_vars(Parse)

-----------------------------------------------------------------------------
(* Properties *)

Accepted(sub) == result = "accepted" /\ input.subcommand = sub

\* The values a field of an int may hold.
IntRange == LET half == IntSpan \div 2 IN -half..(half - 1)

program_input_s ==
  [subcommand : {"help", "scan"}, demod_mode : {"am", "fm", "wbfm"},
   timeout : IntRange, hold_time : IntRange, cycles : IntRange,
   freq_start : 0..FreqSpan-1, freq_end : 0..FreqSpan-1]

\* Every variable stays in its type.
TypeOK ==
  /\ pc \in {"idle", "help", "scan", "range", "mode", "condense", "flags", "undefined"}
  /\ result \in {"none", "accepted", "rejected"}
  /\ input \in program_input_s
  /\ memory \in {"null", "line", "leaked", "freed"}
  /\ result # "none" => pc = "idle"

\* What the checks in front of the flags make of a line by itself.
WellFormed(l) ==
  /\ IsScan(l)
  /\ OneFrequency(l[2]) \/ TwoFrequencies(l[2])
  /\ \E m \in {"am", "fm", "wbfm"} : IsMode(l[3], m)

\* An option as getopt should return it, with a value if it needs one.
Valid(o) == o[1] # Unknown /\ (o[1] \in ArgFlags => Atoi(o[2]) # 0)

\* What a field should be: the value of the last option that sets it.
LastValue(c) ==
  LET I == {i \in DOMAIN Promised : Promised[i][1] = c}
  IN  IF I = {} THEN Default[Field[c]]
      ELSE Atoi(Promised[CHOOSE i \in I : \A j \in I : j <= i][2])

\* input.h:48-49: an accepted scan, parsed first in its process, has in each field
\* the value of the last flag for it, wherever among the words it is and in
\* whichever form it is written, and no flag getopt was to look at is invalid.
FlagsHonoured ==
  parses = 1 /\ Accepted("scan") =>
    /\ WellFormed(line)
    /\ \A i \in DOMAIN Promised : Valid(Promised[i])
    /\ \A c \in DOMAIN Field : input[Field[c]] = LastValue(c)

\* A number above 0, as the user writes it, with or without a suffix.
Positive(t) == t \in DOMAIN Floats /\ Floats[t].kind = "finite" /\ Floats[t].n > 0

\* The frequencies input.c:117, 171 and 243-248 give as examples, but those of
\* which the second has a suffix (HelpExampleAccepted).
DocumentedRange(w) ==
  \E t \in DOMAIN Floats : Positive(t) /\
    \/ w \in {<<t>>, <<t, "k">>, <<t, "M">>}
    \/ \E u \in DOMAIN Floats :
         Positive(u) /\ w \in {<<t, "-", u>>, <<t, "k", "-", u>>, <<t, "M", "-", u>>}

Documented(l) ==
  \/ IsHelp(l)
  \/ /\ IsScan(l)
     /\ DocumentedRange(l[2])
     /\ \E m \in {"am", "fm", "wbfm"} : IsMode(l[3], m)

\* input.h:48-49, input.c:243-248: in the first parse of a process a line of the
\* documented form is rejected for an invalid flag only, and memory is misused
\* only for a mode that is too long for its copy (input.c:284): never in getopt.
\* test/input.cc:65-87 ("a valid frequency range input") expects such lines to be
\* rejected, against its own heading and these comments; here they are accepted.
FailsForReason ==
  parses = 1 =>
    /\ result = "rejected" =>
         ~Documented(line) \/ \E i \in DOMAIN Promised : ~Valid(Promised[i])
    /\ pc = "undefined" => line[3] \in LongWords

\* The number a word of one frequency denotes, by its numeral and its suffix.
Typed(w) ==
  Floats[w[1]].n * (IF w = <<w[1], "k">> THEN Kilo ELSE IF w = <<w[1], "M">> THEN Mega ELSE 1)

\* A word of one frequency that is a number.
Ordinary(w) ==
  /\ OneFrequency(w)
  /\ w[1] \in DOMAIN Floats
  /\ Floats[w[1]].kind = "finite"

\* Two roundings leave n below so many hertz.
Below(n, hertz) ==
  (TwoTo[FloatBits - 1] + 1) * n < TwoTo[FloatBits - 1] * (PerHertz * hertz)

\* Two numbers that two roundings and the loss of the fraction keep apart.
Near(hertz, n) ==
  TwoTo[FloatBits - 1] * (Magnitude(PerHertz * hertz - n) - PerHertz) <= n

\* input.c:127-139: the value becomes what suffix and numeral say together,
\* up to two roundings to a float and the fraction of a hertz, whenever a uint32_t
\* holds it. With 24 bits that is less than 14 Hz at 101.5 MHz. (The example of
\* line 131, 112.8M becoming 11280000, lacks a zero: the code makes 112800000 of it.)
FrequencyNear ==
  Accepted("scan") /\ Ordinary(line[2]) /\ Below(Typed(line[2]), FreqSpan) =>
    /\ input.freq_start = input.freq_end
    /\ Near(input.freq_start, Typed(line[2]))

\* Lines without flags do not disturb each other, however many are parsed in one
\* process, as test/input.cc does: each is judged by its own words, though not in
\* each case as that test expects (see FailsForReason and UnboundedRejected).
FlaglessAlike ==
  flagless =>
    /\ pc = "undefined" => line[3] \in LongWords
    /\ result # "none" => (result = "accepted" <=> IsHelp(line) \/ WellFormed(line))

\* The loop over getopt ends, from whatever state an earlier parse has left it in:
\* every parse returns, or runs into undefined behaviour, and which of the two is
\* what FailsForReason and FlaglessAlike say of first parses and flagless lines.
ParseEnds == pc # "idle" ~> pc \in {"idle", "undefined"}

\* input.c:113-121, the help text, gives "rcs scan 101.5M-109.5M wbfm" as an
\* example: two frequencies with a suffix each.
HelpExampleAccepted ==
  result = "rejected" =>
    ~ /\ DOMAIN line = 0..3
      /\ IsScan(line)
      /\ IsMode(line[3], "wbfm")
      /\ Len(line[2]) = 5 /\ line[2][2] = "M" /\ line[2][3] = "-" /\ line[2][5] = "M"
      /\ {line[2][1], line[2][4]} \subseteq {"101.5", "109.5"}

\* test/input.cc:47-60 expects frequencies that no uint32_t holds, infinities
\* and NaN among them, to be rejected.
UnboundedRejected ==
  Accepted("scan") =>
    LET f == Start(line[2]).val IN f.kind = "finite" /\ f.n \div PerHertz < FreqSpan
=============================================================================
