------------------------------- MODULE MCVad -------------------------------
(***************************************************************************)
(* The instance of Vad that TLC checks. Windows have four samples, so that *)
(* two windows of silence end a segment and clips of up to eight windows   *)
(* hold several segments; it is called twice. A float has four bits: it    *)
(* keeps the bounds of closed segments, which are even, up to 32, and odd  *)
(* numbers up to 15 only.                                                  *)
(***************************************************************************)
EXTENDS Vad

SmallClips == {0, 3, 9, 16, 27, 32}
AllLevels  == {"speech", "between", "silence"}
=============================================================================
