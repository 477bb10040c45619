-------------------------------- MODULE MCDb --------------------------------
(***************************************************************************)
(* Two instances that are started twice each and store two clips each: one *)
(* may be in the middle of a setup while the other starts, and each finds  *)
(* what an earlier start left.                                             *)
(***************************************************************************)
EXTENDS Db

CONSTANTS a, b

Both == {a, b}
=============================================================================
