------------------------------ MODULE MCGetopt ------------------------------
(***************************************************************************)
(* All vectors of at most four words besides the program name out of nine, *)
(* and those of five and six words out of three, in which blocks of        *)
(* unequal length change places: a word, a flag, an option with its        *)
(* argument in the next word or in its own, two in one word, an invalid    *)
(* one, the two words of dashes only, and the empty word.                  *)
(***************************************************************************)
EXTENDS GetoptScan

MCFlags    == {"v"}
MCArgFlags == {"t"}

Plain == <<"scan">>
All   == {Plain, <<>>, <<"-">>, Dashes, <<"-", "v">>, <<"-", "t">>, <<"-", "t", "5">>,
          <<"-", "v", "t">>, <<"-", "x", "v">>}
Few   == {Plain, <<"-", "v">>, <<"-", "t">>}

Vector(words) ==
  [i \in 0..Len(words) |-> IF i = 0 THEN <<"rcs">> ELSE words[i]]

MCVectors == {Vector(w) : w \in UNION ({[1..n -> All] : n \in 0..4}
                                       \cup {[1..n -> Few] : n \in 5..6})}
=============================================================================
