------------------------------ MODULE MCRadio ------------------------------
(***************************************************************************)
(* The instance of Radio that TLC checks. The pipe holds three samples,    *)
(* the buffer starts at two and an int ends at 15, so that a capture of    *)
(* eight samples resizes twice and then overflows, unless memory ran out   *)
(* at the second resize. The hold times are one that is negative (atoi     *)
(* accepts it), one that a single tick ends and one that needs three. A    *)
(* text of three bytes ends in half a sample.                              *)
(***************************************************************************)
EXTENDS Radio

MCTimeouts    == {-1, 1, 3}
MCBannerSizes == {3, 4}
=============================================================================
