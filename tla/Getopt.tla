------------------------------ MODULE Getopt -------------------------------
(***************************************************************************)
(* The short-option part of GNU getopt (src/getopt/getopt.c), which        *)
(* input.c calls until it returns -1. Every call is one step; what the     *)
(* calls share are the static variables of getopt and the vector of words, *)
(* which getopt permutes while it scans.                                   *)
(*                                                                         *)
(* A word is a sequence of tokens: "-t5" is <<"-", "t", "5">>, where a     *)
(* token other than a dash or a flag may stand for several characters. The *)
(* vector is a function on 0..argc-1, as in C.                             *)
(***************************************************************************)
EXTENDS Integers, Sequences

CONSTANTS
  Flags,      (* the option characters without an argument                 *)
  ArgFlags,   (* the option characters followed by an argument             *)
  Orderings   (* the orderings the environment may ask for                 *)

ASSUME OrderingAssumption == Orderings \subseteq {"PERMUTE", "REQUIRE_ORDER"}

VARIABLES
  argc,         (* the number of words, program name included              *)
  argv,         (* the words, as permuted so far                           *)
  optind,       (* index of the next word to be scanned                    *)
  first_nonopt, (* the non-options skipped so far begin here               *)
  last_nonopt,  (* and end before this index                               *)
  nextchar,     (* what is left of the option word being scanned           *)
  ordering,     (* whether options are looked for behind other words       *)
  opt,          (* what the last call returned                             *)
  optarg,       (* the argument it found, <<>> for NULL or an empty word   *)
  given,        (* history: argv before the scan                           *)
  seen          (* history: what the calls returned, with the arguments    *)

statics    == <<optind, first_nonopt, last_nonopt, nextchar, ordering>>
getoptVars == <<argc, argv, statics, opt, optarg, given, seen>>

None    == "none"    \* no call yet for this vector
End     == "-1"
Unknown == "?"
Dashes  == <<"-", "-">>

ASSUME FlagAssumption ==
  /\ Flags \cup ArgFlags \subseteq STRING \ {"-", None, End, Unknown}
  /\ Flags \cap ArgFlags = {}

\* NONOPTION_P: a word that does not begin with a dash, or is nothing more.
Nonoption(word) == ~(Len(word) >= 2 /\ word[1] = "-")

-----------------------------------------------------------------------------
(* The position of a scan: the vector and the three indices *)

Position == [argv |-> argv, optind |-> optind, first |-> first_nonopt, last |-> last_nonopt]

\* The elements p..p+n-1 and q..q+n-1 of a vector change places.
Swapped(a, p, q, n) ==
  [i \in DOMAIN a |-> IF i \in p..p+n-1 THEN a[i - p + q]
                      ELSE IF i \in q..q+n-1 THEN a[i - q + p]
                      ELSE a[i]]

Indices == 0..argc-1
Moves   == [Indices -> Indices]   \* where each word of a vector came from

\* The variables of the loop of exchange.
Rounds == [bottom : 0..argc, middle : 0..argc, top : 0..argc, from : Moves]

\* The loop of exchange on the indices of the vector: the shorter of the
\* segments [bottom, middle) and [middle, top) goes to its place by swaps, and
\* the rest is exchanged again.
moved[s \in Rounds] ==
  LET low  == s.middle - s.bottom
      high == s.top - s.middle
  IN  IF low <= 0 \/ high <= 0 THEN s.from
      ELSE IF high > low
      THEN moved[[bottom |-> s.bottom, middle |-> s.middle, top |-> s.top - low,
                  from |-> Swapped(s.from, s.bottom, s.top - low, low)]]
      ELSE moved[[bottom |-> s.bottom + high, middle |-> s.middle, top |-> s.top,
                  from |-> Swapped(s.from, s.bottom, s.middle, high)]]

\* Where each word of a vector comes from when [first, last) and [last, optind)
\* change places.
From(p) == moved[[bottom |-> p.first, middle |-> p.last, top |-> p.optind,
                  from |-> [i \in Indices |-> i]]]

\* Broken: the records of where the non-options are stay behind.
MutForgetsRecords(p) ==
  [p EXCEPT !.argv = [i \in Indices |-> p.argv[From(p)[i]]]]

\* The options [last, optind) go in front of the non-options [first, last).
exchange(p) ==
  LET from == From(p)
  IN  [argv   |-> [i \in Indices |-> p.argv[from[i]]],
       optind |-> p.optind,
       first  |-> p.first + p.optind - p.last,
       last   |-> p.optind]

\* optind may have been moved back, or belong to an earlier and longer vector.
Rational(p) ==
  [p EXCEPT !.last  = IF @ > p.optind THEN p.optind ELSE @,
            !.first = IF @ > p.optind THEN p.optind ELSE @]

\* The first option at or behind index n, argc when there is none.
NextOption(a, n) ==
  CHOOSE k \in n..argc : /\ \A i \in n..k-1 : Nonoption(a[i])
                         /\ k < argc => ~Nonoption(a[k])

\* PERMUTE: options seen since the last non-options go in front of them, and
\* the non-options that follow are skipped.
SkipNonoptions(p) ==
  LET q == IF p.last = p.optind THEN p
           ELSE IF p.first # p.last THEN exchange(p)
           ELSE [p EXCEPT !.first = p.optind]
      n == NextOption(q.argv, q.optind)
  IN  [q EXCEPT !.optind = n, !.last = n]

\* The word `--' counts as an option, and all behind it as non-options.
SkipDashes(p) ==
  IF p.optind = argc \/ p.argv[p.optind] # Dashes THEN p
  ELSE LET q == [p EXCEPT !.optind = @ + 1]
           r == IF q.first = q.last THEN [q EXCEPT !.first = q.optind]
                ELSE IF q.last # q.optind THEN exchange(q)
                ELSE q
       IN  [r EXCEPT !.last = argc, !.optind = argc]

\* Where the scan goes on: in the word it is in, or at the next option.
Resumed ==
  IF nextchar # <<>> THEN Position
  ELSE LET p == Rational(Position)
       IN  SkipDashes(IF ordering = "PERMUTE" THEN SkipNonoptions(p) ELSE p)

-----------------------------------------------------------------------------
(* One call of getopt *)

\* The vector is read behind its end. A scan from its beginning never gets
\* here; one that starts with the statics of another vector may.
Beyond ==
  \/ nextchar = <<>> /\ optind > argc
  \/ Len(nextchar) = 1 /\ nextchar[1] \in ArgFlags /\ optind >= argc

Return(p, next, rest, c, arg) ==
  /\ argv' = p.argv
  /\ first_nonopt' = p.first
  /\ last_nonopt' = p.last
  /\ optind' = next
  /\ nextchar' = rest
  /\ opt' = c
  /\ optarg' = arg
  /\ seen' = IF c = End THEN seen ELSE Append(seen, <<c, arg>>)
  /\ UNCHANGED <<argc, ordering, given>>

\* Broken: optind stays behind the non-options.
MutEndsBehind ==
  /\ ~Beyond
  /\ nextchar = <<>>
  /\ LET p == Resumed
     IN  p.optind = argc /\ Return(p, p.optind, <<>>, End, <<>>)

\* Every word has been scanned: -1, with optind at the non-options, if any.
ScanEnds ==
  /\ ~Beyond
  /\ nextchar = <<>>
  /\ LET p == Resumed
     IN  /\ p.optind = argc
         /\ Return(p, IF p.first # p.last THEN p.first ELSE p.optind, <<>>, End, <<>>)

\* REQUIRE_ORDER: the first non-option ends the scan.
ScanStops ==
  /\ ~Beyond
  /\ nextchar = <<>>
  /\ LET p == Resumed
     IN  /\ p.optind # argc
         /\ Nonoption(p.argv[p.optind])
         /\ Return(p, p.optind, <<>>, End, <<>>)

\* An option character is to be handled next: Char, with Rest behind it in its
\* word. Stepped is the position once it is read: past the word if that is all.
InOption ==
  /\ ~Beyond
  /\ nextchar = <<>> => /\ Resumed.optind # argc
                        /\ ~Nonoption(Resumed.argv[Resumed.optind])

Chars   == IF nextchar # <<>> THEN nextchar ELSE Tail(Resumed.argv[Resumed.optind])
Char    == Head(Chars)
Rest    == Tail(Chars)
Stepped == [Resumed EXCEPT !.optind = IF Rest = <<>> THEN @ + 1 ELSE @]

InvalidOption ==
  /\ InOption
  /\ Char \notin Flags \cup ArgFlags
  /\ Return(Stepped, Stepped.optind, Rest, Unknown, <<>>)

\* Broken: the word is left after its first flag.
MutOneFlagPerWord ==
  /\ InOption
  /\ Char \in Flags
  /\ Return(Resumed, Resumed.optind + 1, <<>>, Char, <<>>)

\* Broken: nothing moves on, and the same flag is returned for ever.
MutStays ==
  /\ InOption
  /\ Char \in Flags
  /\ opt' = Char
  /\ UNCHANGED <<argc, argv, statics, optarg, given, seen>>

FlagFound ==
  /\ InOption
  /\ Char \in Flags
  /\ Return(Stepped, Stepped.optind, Rest, Char, <<>>)

\* Broken: the next word is skipped as well.
MutStepsTwice ==
  /\ InOption
  /\ Char \in ArgFlags
  /\ Rest # <<>>
  /\ Return(Stepped, Stepped.optind + 2, <<>>, Char, Rest)

\* The argument is the rest of the word.
ArgumentInWord ==
  /\ InOption
  /\ Char \in ArgFlags
  /\ Rest # <<>>
  /\ Return(Stepped, Stepped.optind + 1, <<>>, Char, Rest)

\* Broken: a last option takes its argument from behind the vector.
MutNeverMissing ==
  /\ InOption
  /\ Char \in ArgFlags
  /\ Rest = <<>> /\ Stepped.optind = argc
  /\ Return(Stepped, Stepped.optind + 1, <<>>, Char, <<>>)

\* There is no word left to be the argument.
ArgumentMissing ==
  /\ InOption
  /\ Char \in ArgFlags
  /\ Rest = <<>> /\ Stepped.optind = argc
  /\ Return(Stepped, Stepped.optind, <<>>, Unknown, <<>>)

\* The argument is the next word, whatever it looks like.
ArgumentNext ==
  /\ InOption
  /\ Char \in ArgFlags
  /\ Rest = <<>> /\ Stepped.optind # argc
  /\ Return(Stepped, Stepped.optind + 1, <<>>, Char, Stepped.argv[Stepped.optind])

getopt ==
  \/ ScanEnds
  \/ ScanStops
  \/ InvalidOption
  \/ FlagFound
  \/ ArgumentInWord
  \/ ArgumentMissing
  \/ ArgumentNext

\* The statics as the first call of a process sets them.
InitStatics ==
  /\ optind = 1
  /\ first_nonopt = 1
  /\ last_nonopt = 1
  /\ nextchar = <<>>
  /\ ordering \in Orderings
-----------------------------------------------------------------------------
(* What the words of a vector mean, found by reading them once from left to  *)
(* right, without indices and without moving a word                          *)

\* An option character without an argument.
PlainOption(c) == IF c \in Flags THEN <<c, <<>> >> ELSE <<Unknown, <<>> >>

\* What the characters of an option word in front of the p-th say, if none of
\* them has an argument.
PlainOptions(word, p) == [i \in 1..p-2 |-> PlainOption(word[i+1])]

\* The options in one option word up to the first one with an argument, and
\* that argument or, if the word ends before it, whom to give the next word.
Options(word) ==
  LET n == Len(word)
      p == IF \E i \in 2..n : word[i] \in ArgFlags
           THEN CHOOSE i \in 2..n : /\ word[i] \in ArgFlags
                                    /\ \A j \in 2..i-1 : word[j] \notin ArgFlags
           ELSE n + 1
  IN  [found |-> IF p < n THEN Append(PlainOptions(word, p), <<word[p], SubSeq(word, p + 1, n)>>)
                          ELSE PlainOptions(word, p),
       waits |-> IF p = n THEN word[n] ELSE None]

\* What has been read of a vector: `found' are the options, `waits' is an option
\* still without its argument, `open' tells whether options may follow, `opts'
\* and `rest' are the option words and the others in their order.
Unread == [found |-> <<>>, waits |-> None, open |-> TRUE, opts |-> <<>>, rest |-> <<>>]

\* One more word is read.
ReadOn(r, word, order) ==
  IF r.waits # None
  THEN [r EXCEPT !.found = Append(@, <<r.waits, word>>), !.waits = None,
                 !.opts = Append(@, word)]
  ELSE IF ~r.open \/ Nonoption(word)
  THEN [r EXCEPT !.rest = Append(@, word), !.open = @ /\ order = "PERMUTE"]
  ELSE IF word = Dashes
  THEN [r EXCEPT !.opts = Append(@, word), !.open = FALSE]
  ELSE [r EXCEPT !.found = @ \o Options(word).found, !.waits = Options(word).waits,
                 !.opts = Append(@, word)]

\* Reading(words, order)[n]: what words 1..n say.
Reading(words, order) ==
  LET R[n \in DOMAIN words] ==
        IF n = 0 THEN Unread ELSE ReadOn(R[n-1], words[n], order)
  IN  R

Meaning == Reading(given, ordering)[argc-1]

\* The options the words hold; one that misses its argument is invalid.
Promised == IF Meaning.waits = None THEN Meaning.found
            ELSE Append(Meaning.found, <<Unknown, <<>> >>)
=============================================================================
