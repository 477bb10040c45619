------------------------------- MODULE Float --------------------------------
(***************************************************************************)
(* How a float keeps an integer: with FloatBits significant bits (24 in    *)
(* the program), to the nearest number there is, ties to the even one.     *)
(***************************************************************************)
EXTENDS Integers

CONSTANT FloatBits  (* the width of the significand                        *)

ASSUME FloatAssumption == FloatBits \in Nat \ {0}

Magnitude(n) == IF n < 0 THEN -n ELSE n

TwoTo[n \in Nat] == IF n = 0 THEN 1 ELSE 2 * TwoTo[n - 1]

\* The distance of the floats around n, for n >= 0.
Spacing[n \in Nat] == IF n < TwoTo[FloatBits] THEN 1 ELSE 2 * Spacing[n \div 2]

Rounded(n) ==
  LET step == Spacing[Magnitude(n)]
      down == (n \div step) * step
      rest == n % step
  IN  IF 2 * rest < step \/ (2 * rest = step /\ (n \div step) % 2 = 0)
      THEN down ELSE down + step
=============================================================================
