-------------------------------- MODULE Vad --------------------------------
(***************************************************************************)
(* Voice detection on a captured clip: RcsVad::has_voice_activity of       *)
(* src/vad.cc over the VadIterator of src/silero.cc. A call cuts the clip  *)
(* into windows, asks the model for the speech probability of each window  *)
(* (SpeechProbs), and runs a hysteresis over the probabilities that opens  *)
(* and closes speech segments and drops the short ones (DoVad).            *)
(*                                                                         *)
(* The code compares a probability with two values only, threshold and     *)
(* threshold - 0.15: a probability is "speech" at or above the first,      *)
(* "silence" below the second, "between" otherwise. Which one the model    *)
(* answers is open. The recurrent state and the context the model is given *)
(* are described by the windows they were computed from.                   *)
(***************************************************************************)
EXTENDS Integers, Sequences, Float

CONSTANTS
  SampleRate,    (* sample_rate                                            *)
  WindowMs,      (* window_size_ms                                         *)
  PadMs,         (* speech_pad_ms                                          *)
  MinSilenceMs,  (* min_silence_duration_ms                                *)
  MinSpeechMs,   (* min_speech_duration_ms                                 *)
  Levels,        (* the levels the model may answer                        *)
  ClipSizes,     (* the clip lengths, in samples                           *)
  MaxCalls       (* bound: calls of has_voice_activity on one RcsVad       *)

\* init_engine: durations become numbers of samples, in integer arithmetic.
min_silence_samples == (SampleRate * MinSilenceMs) \div 1000
speech_pad_samples  == (SampleRate * PadMs) \div 1000
window_size_samples == (SampleRate \div 1000) * WindowMs
min_speech_samples  == (SampleRate * MinSpeechMs) \div 1000

ASSUME EngineAssumption ==
  /\ window_size_samples \in Nat \ {0}
  /\ {speech_pad_samples, min_silence_samples, min_speech_samples} \subseteq Nat
ASSUME SpacingAssumption ==
  2 * speech_pad_samples <= min_silence_samples + window_size_samples
ASSUME LevelAssumption == Levels \subseteq {"speech", "between", "silence"}
ASSUME ClipAssumption  == ClipSizes \subseteq Nat
ASSUME CallAssumption  == MaxCalls \in Nat

VARIABLES
  phase,             (* what has_voice_activity is doing                   *)
  call,              (* how many times it has been called                  *)
  total_sample_size, (* the length of the clip                             *)
  j,                 (* offset of the next window in the clip              *)
  outputs_prob,      (* the levels answered for the windows so far         *)
  state,             (* windows that _state was computed from, since zero  *)
  context,           (* the window whose end is in _context, or Zeros      *)
  i,                 (* index of the next probability DoVad looks at       *)
  current_sample,    (* end of the last window DoVad looked at             *)
  triggered,         (* a segment is open                                  *)
  temp_end,          (* where the silence in it began, 0 if nowhere        *)
  speeches,          (* the segments DoVad has opened so far               *)
  found              (* the segments the last call returned                *)

inferVars == <<total_sample_size, j, outputs_prob, state, context>>
vadVars   == <<i, current_sample, triggered, temp_end, speeches>>
vars      == <<phase, call, inferVars, vadVars, found>>

Unset == -1            \* Interval has no constructor: end is indeterminate
Zeros == <<0, 0>>      \* no window: calls are counted from 1

Interval == [start : Int, end : Int]

Maximum(a, b) == IF a >= b THEN a ELSE b

\* Broken: the sentinel of temp_end is confused with that of an interval.
MutSentinel ==
  /\ triggered' = FALSE
  /\ current_sample' = 0
  /\ temp_end' = Unset
  /\ outputs_prob' = <<>>
  /\ state' = <<>>
  /\ context' = Zeros

\* Broken: the memory of the model is kept.
MutKeepsMemory ==
  /\ triggered' = FALSE
  /\ current_sample' = 0
  /\ temp_end' = 0
  /\ outputs_prob' = <<>>
  /\ UNCHANGED <<state, context>>

\* reset_states: everything that one call could leave behind for the next.
reset_states ==
  /\ triggered' = FALSE
  /\ current_sample' = 0
  /\ temp_end' = 0
  /\ outputs_prob' = <<>>
  /\ state' = <<>>
  /\ context' = Zeros

-----------------------------------------------------------------------------
\* has_voice_activity hands a clip to SpeechProbs, which resets the iterator.
StartCall ==
  /\ phase = "idle"
  /\ call < MaxCalls
  /\ phase' = "predict"
  /\ call' = call + 1
  /\ reset_states
  /\ total_sample_size' \in ClipSizes
  /\ j' = 0
  /\ i' = 0
  /\ speeches' = <<>>
  /\ found' = {}

\* One turn of the loop of SpeechProbs, with predict(): the model sees the
\* context and the window and its recurrent state, and updates both.
Predict ==
  /\ phase = "predict"
  /\ j + window_size_samples <= total_sample_size
  /\ \E level \in Levels : outputs_prob' = Append(outputs_prob, level)
  /\ state' = Append(state, <<call, j>>)
  /\ context' = <<call, j>>
  /\ j' = j + window_size_samples
  /\ UNCHANGED <<phase, call, total_sample_size, vadVars, found>>

\* Broken: the loop does not break at the incomplete window.
MutNoBreak ==
  /\ phase = "predict"
  /\ j + window_size_samples > total_sample_size
  /\ UNCHANGED vars

\* The samples behind the last full window are not looked at.
PredictDone ==
  /\ phase = "predict"
  /\ j + window_size_samples > total_sample_size
  /\ phase' = "vad"
  /\ UNCHANGED <<call, inferVars, vadVars, found>>

-----------------------------------------------------------------------------
(* The loop of DoVad, one action per branch *)

Level == outputs_prob[i + 1]

Step(level) ==
  /\ phase = "vad"
  /\ i < Len(outputs_prob)
  /\ Level = level
  /\ i' = i + 1
  /\ current_sample' = current_sample + window_size_samples
  /\ UNCHANGED <<phase, call, inferVars, found>>

\* Broken: a pad reaches before the clip.
MutOpened == [start |-> current_sample' - speech_pad_samples - window_size_samples,
              end   |-> Unset]

Opened == [start |-> Maximum(0, current_sample' - speech_pad_samples - window_size_samples),
           end   |-> Unset]

\* Broken: every window of speech opens a segment.
MutOpensAlways ==
  /\ Step("speech")
  /\ temp_end' = 0
  /\ triggered' = TRUE
  /\ speeches' = Append(speeches, Opened)

\* Broken: the silence noted before the speech is remembered.
MutKeepsSilence ==
  /\ Step("speech")
  /\ triggered' = TRUE
  /\ speeches' = IF triggered THEN speeches ELSE Append(speeches, Opened)
  /\ UNCHANGED temp_end

\* Speech forgets the silence noted before, and opens a segment if none is.
Speech ==
  /\ Step("speech")
  /\ temp_end' = 0
  /\ triggered' = TRUE
  /\ speeches' = IF triggered THEN speeches ELSE Append(speeches, Opened)

\* Between the two limits, or silent with no open segment, nothing changes.
Quiet ==
  /\ \/ Step("between")
     \/ ~triggered /\ Step("silence")
  /\ UNCHANGED <<triggered, temp_end, speeches>>

\* Silence in an open segment: note where it began, and close the segment
\* there once it has lasted long enough.
Silence ==
  /\ triggered
  /\ Step("silence")
  /\ LET began  == IF temp_end = 0 THEN current_sample' ELSE temp_end
         closes == current_sample' - began >= min_silence_samples
         end    == began + speech_pad_samples - window_size_samples
     IN  /\ temp_end' = IF closes THEN 0 ELSE began
         /\ triggered' = ~closes
         /\ speeches' = IF closes THEN [speeches EXCEPT ![Len(speeches)].end = end]
                                  ELSE speeches

\* Broken: the pads count as speech.
MutCountsPads(speech) == ~(speech.end - speech.start < min_speech_samples)

\* The test of remove_if: a segment without its padding must last long enough.
LongEnough(speech) ==
  ~((speech.end - speech_pad_samples) - (speech.start + speech_pad_samples)
      < min_speech_samples)

\* Broken: as long as the minimum is not long enough.
MutStrictFloats(speech) ==
  Rounded(Rounded(Rounded(speech.end) - speech_pad_samples)
            - Rounded(Rounded(speech.start) + speech_pad_samples))
    > Rounded(min_speech_samples)

\* The same test as the code computes it: the bounds are floats, and so is the
\* result of every operation.
FloatLongEnough(speech) ==
  ~(Rounded(Rounded(Rounded(speech.end) - speech_pad_samples)
              - Rounded(Rounded(speech.start) + speech_pad_samples))
      < Rounded(min_speech_samples))

\* Broken: the segment still open is not closed.
MutNotClosed == speeches

\* The segment still open ends with the clip.
Closed == IF triggered
          THEN [speeches EXCEPT ![Len(speeches)].end = total_sample_size]
          ELSE speeches

\* Behind the loop: close, erase the short segments, reset. What is left is
\* what GetSpeechTimestamps returns (in seconds); its order does not matter to
\* the caller, who only asks whether there is any.
Finish ==
  /\ phase = "vad"
  /\ i = Len(outputs_prob)
  /\ phase' = "idle"
  /\ found' = {speech \in {Closed[k] : k \in 1..Len(Closed)} : LongEnough(speech)}
  /\ reset_states
  /\ speeches' = <<>>
  /\ total_sample_size' = 0
  /\ UNCHANGED <<call, j, i>>

\* The answer of has_voice_activity.
has_voice_activity == found # {}

\* Every call has been answered.
Finished ==
  /\ phase = "idle"
  /\ call = MaxCalls
  /\ UNCHANGED vars

Init ==
  /\ phase = "idle"
  /\ call = 0
  /\ total_sample_size = 0
  /\ j = 0
  /\ outputs_prob = <<>>
  /\ state = <<>>
  /\ context = Zeros
  /\ i = 0
  /\ current_sample = 0
  /\ triggered = FALSE
  /\ temp_end = 0
  /\ speeches = <<>>
  /\ found = {}

Next ==
  \/ StartCall
  \/ Predict
  \/ PredictDone
  \/ Speech
  \/ Quiet
  \/ Silence
  \/ Finish
  \/ Finished

Spec == Init /\ [][Next]_vars

FairSpec == Spec /\ WF_vars(Next)

-----------------------------------------------------------------------------
(* What a call should answer, defined from the levels alone: no loop, no   *)
(* state carried along.                                                    *)

\* No speech in the windows s..c.
SpeechFree(p, s, c) == \A k \in s..c : p[k] # "speech"

\* The silent windows that a silence reaching to window c consists of.
SilenceBefore(p, c) == {s \in 1..c : p[s] = "silence" /\ SpeechFree(p, s, c)}

\* At the silent window c a silence has lasted for min_silence_samples.
EndsSpeech(p, c) ==
  /\ p[c] = "silence"
  /\ \E s \in SilenceBefore(p, c) : (c - s) * window_size_samples >= min_silence_samples

\* A segment starts at the first speech and at the first speech behind a
\* window where speech had ended.
StartsSpeech(p, a) ==
  /\ p[a] = "speech"
  /\ \A b \in 1..a-1 : p[b] = "speech" => \E c \in b..a : EndsSpeech(p, c)

Least(S) == CHOOSE x \in S : \A y \in S : x <= y

\* Where the segment that starts at window a ends.
EndOf(p, total, a) ==
  LET ends == {c \in a..Len(p) : EndsSpeech(p, c)}
  IN  IF ends = {} THEN total
      ELSE (Least(SilenceBefore(p, Least(ends))) - 1) * window_size_samples
             + speech_pad_samples

Reference(p, total) ==
  {s \in {[start |-> Maximum(0, (a - 1) * window_size_samples - speech_pad_samples),
           end   |-> EndOf(p, total, a)] : a \in {b \in 1..Len(p) : StartsSpeech(p, b)}} :
     s.end - s.start >= min_speech_samples + 2 * speech_pad_samples}

-----------------------------------------------------------------------------
(* Properties *)

\* Every variable stays in its type.
TypeOK ==
  /\ phase \in {"idle", "predict", "vad"}
  /\ call \in Nat
  /\ total_sample_size \in Nat
  /\ j \in Nat
  /\ outputs_prob \in Seq(Levels)
  /\ state \in Seq(Nat \X Nat)
  /\ context \in Nat \X Nat
  /\ i \in Nat
  /\ current_sample \in Nat
  /\ triggered \in BOOLEAN
  /\ temp_end \in Nat
  /\ speeches \in Seq(Interval)
  /\ found \subseteq Interval

\* The only segment whose end is indeterminate is the last one, and only while
\* it is open: nobody reads an end that was never written, the caller of DoVad
\* included, and speeches.back() exists wherever it is used.
OpenEnd ==
  /\ triggered => speeches # <<>>
  /\ \A k \in 1..Len(speeches) :
       speeches[k].end = Unset <=> triggered /\ k = Len(speeches)
  /\ \A speech \in found : speech.end # Unset

\* Segments are opened in order of time, end behind their start, and do not
\* overlap, although each one is padded on both sides; so do those returned.
SegmentsOrdered ==
  /\ \A k \in 1..Len(speeches) :
       /\ speeches[k].start >= 0
       /\ speeches[k].end # Unset => speeches[k].start < speeches[k].end
       /\ \A l \in 1..k-1 : speeches[l].end <= speeches[k].start
  /\ \A s, t \in found :
       /\ 0 <= s.start /\ s.start < s.end
       /\ s = t \/ s.end <= t.start \/ t.end <= s.start

\* The model hears each clip as if it were the first one: its recurrent state
\* comes from the earlier windows of this very clip, all of them and in order,
\* and its context is the window just before, or zeros.
FreshInference ==
  phase = "predict" =>
    /\ Len(state) * window_size_samples = j
    /\ \A k \in 1..Len(state) : state[k] = <<call, (k - 1) * window_size_samples>>
    /\ context = IF j = 0 THEN Zeros ELSE <<call, j - window_size_samples>>

\* This module computes with exact integers, the code with floats. The segments
\* that a silence has closed begin and end at multiples of what window and pad
\* have in common, which floats keep exactly in much longer clips than odd
\* numbers; only the segment that ends with the clip may be judged differently,
\* and only if its length is next to the limit.
RoundingHarmless ==
  phase = "vad" /\ i = Len(outputs_prob) =>
    \A k \in 1..Len(Closed) :
      LET s      == Closed[k]
          excess == s.end - s.start - min_speech_samples - 2 * speech_pad_samples
      IN  (FloatLongEnough(s) <=> LongEnough(s))
            \/ /\ triggered /\ k = Len(Closed)
               /\ Magnitude(excess) <= Spacing[total_sample_size]

Answers == phase = "vad" /\ phase' = "idle"

\* The segments a call returns are those the levels of its own clip define,
\* whatever the earlier calls on the same iterator were about.
MatchesReference ==
  [][Answers => found' = Reference(outputs_prob, total_sample_size)]_vars

\* An unbroken run of speech is reported wherever in the clip it lies, if it
\* lasts for the minimal duration and both pads.
LongSpeechHeard ==
  [][Answers /\ (\E a, b \in 1..Len(outputs_prob) :
                   /\ \A k \in a..b : outputs_prob[k] = "speech"
                   /\ (b - a + 1) * window_size_samples
                        >= min_speech_samples + 2 * speech_pad_samples)
       => has_voice_activity']_vars

\* No clip shorter than the minimal duration and both pads is ever reported.
ShortClipSilent ==
  [][Answers /\ has_voice_activity'
       => total_sample_size >= min_speech_samples + 2 * speech_pad_samples]_vars

\* Every call is answered: the window loop ends for every clip.
EveryCallAnswered == phase = "predict" ~> phase = "idle"

=============================================================================
