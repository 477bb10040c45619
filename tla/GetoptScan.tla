----------------------------- MODULE GetoptScan -----------------------------
(***************************************************************************)
(* A caller that scans one vector with getopt from the start of the        *)
(* process until it returns -1, going on after invalid options, and what   *)
(* getopt promises to it. The promise is stated by reading the words once  *)
(* from left to right, without indices and without moving a word.          *)
(***************************************************************************)
EXTENDS Getopt, FiniteSets

CONSTANT Vectors   (* the argument vectors to scan *)

ASSUME VectorAssumption ==
  \A v \in Vectors : /\ Cardinality(DOMAIN v) \in Nat \ {0}
                     /\ v \in [0..Cardinality(DOMAIN v)-1 -> Seq(STRING)]

Init ==
  /\ argv \in Vectors
  /\ argc = Cardinality(DOMAIN argv)
  /\ given = argv
  /\ seen = <<>>
  /\ opt = None
  /\ optarg = <<>>
  /\ InitStatics

Call == opt # End /\ getopt

\* The scan is over.
Finished == opt = End /\ UNCHANGED getoptVars

Next == Call \/ Finished

Spec == Init /\ [][Next]_getoptVars

-----------------------------------------------------------------------------
(* Properties *)

\* The words p..q-1 of the vector, as a sequence.
Words(p, q) == [i \in 1..q-p |-> argv[p + i - 1]]

Prefix(s, t) == Len(s) <= Len(t) /\ s = SubSeq(t, 1, Len(s))

\* Every variable stays in its type and the indices in the vector.
TypeOK ==
  /\ argc \in Nat \ {0}
  /\ DOMAIN argv = Indices
  /\ first_nonopt \in 1..last_nonopt
  /\ last_nonopt \in 1..argc
  /\ optind \in 1..argc
  /\ ordering \in {"PERMUTE", "REQUIRE_ORDER"}
  /\ opt \in {None, End, Unknown} \cup Flags \cup ArgFlags

\* A scan from the start of the vector never reads behind its end, whatever
\* the last words are (input.c:307 hands getopt a vector without the NULL that
\* ends the one of main).
NeverBeyond == ~Beyond

\* getopt.c:457-464: the calls return each option of each option word with its
\* own argument, in the order of the words, though the words move meanwhile.
ToldInOrder ==
  /\ Prefix(seen, Promised)
  /\ opt = End => seen = Promised

\* getopt.c:249-251, 290-293: between two calls [first_nonopt, last_nonopt) are
\* the non-options skipped so far; the words before and between them and optind
\* are the options scanned, all in the order they were typed. getopt.c:466-469:
\* at the end the options, then the other words, keep their order, none lost or
\* doubled (input.c:337 frees each one once), and optind is the index of the
\* first of the others.
Arranged ==
  /\ opt # End =>
       /\ Prefix(Words(first_nonopt, last_nonopt), Meaning.rest)
       /\ Prefix(Words(1, first_nonopt) \o Words(last_nonopt, optind), Meaning.opts)
  /\ opt = End =>
       /\ Words(1, argc) = Meaning.opts \o Meaning.rest
       /\ argv[0] = given[0]
       /\ optind = 1 + Len(Meaning.opts)
=============================================================================
