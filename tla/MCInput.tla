------------------------------ MODULE MCInput ------------------------------
(***************************************************************************)
(* The instances of Input that TLC checks. A uint32_t has 24000 values, an *)
(* int 64, and the suffixes multiply by 10 and 100: 101.5M is 10150 Hz,    *)
(* 250M fits no uint32_t, 0.5 becomes 0, 128 wraps to 0 and 69 to 5. A     *)
(* float has eight bits: 101.625 is kept as 101.5, 101.5M as 10176 Hz.     *)
(***************************************************************************)
EXTENDS Input

MCFlags    == {"v"}
MCArgFlags == {"t", "h", "c"}

\* In eighths of a hertz.
MCFloats == ("101.5" :> Finite(812) @@ "101.625" :> Finite(813) @@ "109.5" :> Finite(876)
             @@ "120" :> Finite(960) @@ "250" :> Finite(2000) @@ "0.5" :> Finite(4) @@ "0" :> Finite(0)
             @@ "5" :> Finite(40) @@ "inf" :> Inf @@ "nan" :> NaN)
MCInts   == ("0" :> 0 @@ "5" :> 5 @@ "69" :> 69 @@ "128" :> 128)

MCToLower   == (<<"FM">> :> <<"fm">> @@ <<"Am">> :> <<"am">>)
MCLongWords == {<<"wbfm2">>}

Range == <<"101.5", "M">>
Modes == {<<"wbfm">>, <<"FM">>, <<"Am">>, <<"lsb">>, <<"wbfm2">>, <<"-", "v">>}

\* Frequency words: the shapes of test/input.cc and of the help text.
Ranges == {Range, <<"101.5">>, <<"101.5", "k">>, <<"101.625">>, <<"101.625", "k">>,
           <<"101.625", "M">>, <<"120", "M">>, <<"250", "M">>, <<"0.5">>, <<"0">>,
           <<"inf">>, <<"nan">>, <<"-", "nan">>, <<" ">>, <<"-", "101.5", "M">>, <<"e", "101.5">>,
           <<"101.5", "e">>, <<"101.5", "K">>, <<"101.5", "-", "109.5">>,
           <<"101.5", "k", "-", "109.5">>, <<"101.5", "M", "-", "109.5", "M">>,
           <<"101.5", "-", "-", "109.5">>, <<"101.5", "-">>, <<"109.5", "-", "101.5">>,
           <<"101.5", "-", "inf">>, <<"101.5", "-", "250", "M">>, <<"101.5", ".", "5">>}

\* The words behind the mode.
FlagWords == {<<"-", "v">>, <<"-", "-", "verbose">>, <<"-", "t", "5">>, <<"-", "h">>,
              <<"-", "-", "hold-time">>, <<"5">>, <<"0">>, <<"128">>, <<"-", "69">>,
              <<"-", "x">>, Dashes, <<"-", "v", "c", "5">>}
ThreeWords == {<<"-", "v">>, <<"-", "-", "hold-time">>, <<"-", "h">>, <<"5">>,
               <<"-", "69">>, Dashes}
FourWords  == {<<"-", "h">>, <<"-", "h", "69">>, <<"5">>}

Line(words) == [i \in 0..Len(words) |-> IF i = 0 THEN <<"rcs">> ELSE words[i]]

Unflagged == {Line(<<Word("scan"), r, m>>) : r \in Ranges, m \in Modes}

Short == {Line(<<>>)} \cup {Line(<<w>>) : w \in {Word("help"), Word("scan"), Word("sca")}}
         \cup {Line(<<Word("help"), <<"-", "v">> >>), Line(<<Word("scan"), Range>>)}

Flagged(S, n) == {Line(<<Word("scan"), Range, Word("fm")>> \o w) : w \in [1..n -> S]}

\* For two parses in a row. The first may leave getopt in the middle of a word,
\* or behind the end of the second line; flagless lines have four or five words.
AgainWords   == {<<"-", "v">>, <<"-", "x", "v">>, <<"-", "v", "t">>, <<"5">>}
MCAgainLines ==
  Short \cup UNION {Flagged(AgainWords, n) : n \in 0..2}
  \cup {Line(<<Word("scan"), r, Word("fm")>>) :
          r \in {<<"0">>, <<"-", "nan">>, <<"101.5", "-", "109.5">>}}
  \cup {Line(<<Word("scan"), Range, Word("lsb")>>)}

MCLines == Unflagged \cup UNION {Flagged(FlagWords, n) : n \in 1..2}
           \cup Flagged(ThreeWords, 3) \cup Flagged(FourWords, 4) \cup MCAgainLines
=============================================================================
