------------------------------ MODULE Capture ------------------------------
(***************************************************************************)
(* What a scan of one frequency promises: no processes, no pipe, no buffer *)
(* and no clock. A source sends samples; the program listens to them for a *)
(* while, then answers once whether there is a voice in what it has heard. *)
(* Radio implements this module.                                           *)
(***************************************************************************)
EXTENDS Naturals, Sequences

CONSTANTS
  Audio,    (* the samples there may be                                    *)
  Lag,      (* how many samples the source may be ahead of the listener    *)
  MinClip   (* fewest samples in which there may be a voice                *)

VARIABLES
  stage,    (* "waiting", "listening", "closed", "answered" or "over"      *)
  sent,     (* the samples the source has sent                             *)
  clip,     (* the samples that were heard                                 *)
  spoiled,  (* the source never worked: nothing is promised about the clip *)
  answer    (* what was answered                                           *)

vars == <<stage, sent, clip, spoiled, answer>>

Init ==
  /\ stage = "waiting"
  /\ sent = <<>>
  /\ clip = <<>>
  /\ spoiled = FALSE
  /\ answer = "none"

Listen ==
  /\ stage = "waiting"
  /\ stage' = "listening"
  /\ UNCHANGED <<sent, clip, spoiled, answer>>

\* The source sends whether anybody still listens or not, but not too far ahead.
Send ==
  /\ stage # "waiting" /\ ~spoiled
  /\ Len(sent) < Len(clip) + Lag
  /\ \E s \in Audio : sent' = Append(sent, s)
  /\ UNCHANGED <<stage, clip, spoiled, answer>>

Spoil ==
  /\ stage # "waiting"
  /\ sent = <<>>
  /\ spoiled' = TRUE
  /\ UNCHANGED <<stage, sent, clip, answer>>

\* The next sample, none left out and none heard twice.
Hear ==
  /\ stage = "listening"
  /\ Len(clip) < Len(sent)
  /\ clip' = Append(clip, sent[Len(clip) + 1])
  /\ UNCHANGED <<stage, sent, spoiled, answer>>

Close ==
  /\ stage = "listening"
  /\ stage' = "closed"
  /\ UNCHANGED <<sent, clip, spoiled, answer>>

Answer ==
  /\ stage = "closed"
  /\ stage' = "answered"
  /\ answer' \in {"voice", "no_voice"}
  /\ answer' = "voice" => spoiled \/ Len(clip) >= MinClip
  /\ UNCHANGED <<sent, clip, spoiled>>

\* The scan may fail before it listens and behind the capture, never within.
End ==
  /\ stage \in {"waiting", "closed", "answered"}
  /\ stage' = "over"
  /\ UNCHANGED <<sent, clip, spoiled, answer>>

Next == Listen \/ Send \/ Spoil \/ Hear \/ Close \/ Answer \/ End

Spec == Init /\ [][Next]_vars
=============================================================================
