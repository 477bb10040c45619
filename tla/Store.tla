------------------------------- MODULE Store --------------------------------
(***************************************************************************)
(* What the capture database promises, without files, schema or instances: *)
(* a call that stores a row takes effect at one moment between its start   *)
(* and its end, or never; it is answered truthfully, unless its caller     *)
(* dies; and what is stored stays. Db implements this module.              *)
(***************************************************************************)

CONSTANT Calls  (* the calls there may be, each with a row of its own      *)

VARIABLES
  pending,  (* the calls under way                                         *)
  ended,    (* the calls that were answered or abandoned                   *)
  stored,   (* the rows in the table, named by the calls that stored them  *)
  answers   (* what the calls were answered                                *)

vars == <<pending, ended, stored, answers>>

Init ==
  /\ pending = {}
  /\ ended = {}
  /\ stored = {}
  /\ answers = {}

Call(c) ==
  /\ c \notin pending \cup ended
  /\ pending' = pending \cup {c}
  /\ UNCHANGED <<ended, stored, answers>>

Commit(c) ==
  /\ c \in pending \ stored
  /\ stored' = stored \cup {c}
  /\ UNCHANGED <<pending, ended, answers>>

Return(c) ==
  /\ c \in pending
  /\ pending' = pending \ {c}
  /\ ended' = ended \cup {c}
  /\ answers' = answers \cup {[row |-> c, ok |-> c \in stored]}
  /\ UNCHANGED stored

\* The caller dies, and never learns whether its row was stored.
Abandon(c) ==
  /\ c \in pending
  /\ pending' = pending \ {c}
  /\ ended' = ended \cup {c}
  /\ UNCHANGED <<stored, answers>>

Next == \E c \in Calls : Call(c) \/ Commit(c) \/ Return(c) \/ Abandon(c)

Spec == Init /\ [][Next]_vars
=============================================================================
