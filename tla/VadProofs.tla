----------------------------- MODULE VadProofs -----------------------------
(***************************************************************************)
(* Proofs about Vad, for every sample rate, window, pad and duration that  *)
(* satisfies the assumptions of Vad, and for clips of every length.        *)
(*                                                                         *)
(* The invariants about segments rest on two clocks that the code never    *)
(* compares: current_sample, which DoVad advances once per probability,    *)
(* and j, which SpeechProbs advanced once per window. Inductive ties both  *)
(* to the number of windows, and bounds the ends of the closed segments    *)
(* and the start of the open one by current_sample.                        *)
(***************************************************************************)
EXTENDS Vad, FloatProofs, SequenceTheorems, TLAPS

\* Outside the loop of DoVad there are no segments, and no answer within a call.
InvPhase ==
  /\ phase # "vad" => ~triggered /\ speeches = <<>>
  /\ phase = "predict" => i = 0 /\ current_sample = 0
  /\ phase # "idle" => found = {}

\* The two clocks count windows, and no window reaches behind the clip.
InvClock ==
  phase # "idle" =>
    /\ i <= Len(outputs_prob)
    /\ current_sample = i * window_size_samples
    /\ j = Len(outputs_prob) * window_size_samples
    /\ j <= total_sample_size

\* The open segment: where it may have started, and where it may end.
InvOpen ==
  /\ ~triggered => temp_end = 0
  /\ triggered =>
       /\ speeches # <<>>
       /\ current_sample >= window_size_samples
       /\ \/ speeches[Len(speeches)].start = 0
          \/ speeches[Len(speeches)].start
               <= current_sample - speech_pad_samples - window_size_samples
       /\ temp_end # 0 =>
            /\ window_size_samples < temp_end /\ temp_end <= current_sample
            /\ speeches[Len(speeches)].start
                 < temp_end + speech_pad_samples - window_size_samples

\* The closed segments end where the next one may start.
InvClosed ==
  \A k \in 1..Len(speeches) :
    speeches[k].end # Unset => /\ speeches[k].end > 0
                              /\ speeches[k].end <= current_sample - speech_pad_samples

Inductive ==
  /\ TypeOK
  /\ InvPhase
  /\ InvClock
  /\ InvOpen
  /\ InvClosed
  /\ OpenEnd
  /\ SegmentsOrdered

-----------------------------------------------------------------------------
(* Type correctness *)

\* Whatever is chosen with EXCEPT, a segment stays a segment.
LEMMA EndSet ==
  ASSUME NEW s \in Seq(Interval), s # <<>>, NEW e \in Int
  PROVE  /\ [s EXCEPT ![Len(s)].end = e] \in Seq(Interval)
         /\ Len([s EXCEPT ![Len(s)].end = e]) = Len(s)
         /\ \A k \in 1..Len(s) :
              /\ [s EXCEPT ![Len(s)].end = e][k].start = s[k].start
              /\ [s EXCEPT ![Len(s)].end = e][k].end
                   = IF k = Len(s) THEN e ELSE s[k].end
<1>1. Len(s) \in 1..Len(s)
  BY EmptySeq
<1>2. s[Len(s)] \in Interval
  BY <1>1, ElementOfSeq
<1>3. PICK seg \in Interval : seg = [s[Len(s)] EXCEPT !.end = e]
  BY <1>2 DEF Interval
<1>4. seg.start = s[Len(s)].start /\ seg.end = e
  BY <1>2, <1>3 DEF Interval
<1>5. [s EXCEPT ![Len(s)].end = e] = [s EXCEPT ![Len(s)] = seg]
  BY <1>3
<1>. QED
  BY <1>1, <1>3, <1>4, <1>5, ExceptSeq

\* The program starts in a state of the right types.
LEMMA TypeInit == Init => TypeOK
<1>1. <<>> \in Seq(Levels) /\ <<>> \in Seq(Nat \X Nat) /\ <<>> \in Seq(Interval)
  BY EmptySeq
<1>. SUFFICES ASSUME Init PROVE TypeOK
  OBVIOUS
<1>2. /\ {call, total_sample_size, j, i, current_sample, temp_end} \subseteq Nat
      /\ context \in Nat \X Nat
  BY DEF Init, Zeros
<1>3. triggered \in BOOLEAN
  BY DEF Init
<1>. QED
  BY <1>1, <1>2, <1>3, Zenon DEF Init, TypeOK

\* Every step keeps the types, provided DoVad closes only segments that exist.
LEMMA TypeStep ==
  ASSUME TypeOK, triggered => speeches # <<>>, [Next]_vars
  PROVE  TypeOK'
<1>. USE EngineAssumption
<1>1. <<>> \in Seq(Levels) /\ <<>> \in Seq(Nat \X Nat) /\ <<>> \in Seq(Interval)
  BY EmptySeq
<1>2. CASE StartCall
  <2>1. /\ {call', total_sample_size', j', i', current_sample', temp_end'} \subseteq Nat
        /\ context' \in Nat \X Nat
    BY <1>2, ClipAssumption DEF StartCall, reset_states, TypeOK, Zeros
  <2>2. triggered' \in BOOLEAN
    BY <1>2 DEF StartCall, reset_states
  <2>. QED
    BY <1>1, <1>2, <2>1, <2>2, Zenon DEF StartCall, reset_states, TypeOK
<1>3. CASE Predict
  <2>1. outputs_prob' \in Seq(Levels)
    BY <1>3, AppendProperties DEF Predict, TypeOK
  <2>2. state' \in Seq(Nat \X Nat)
    BY <1>3, AppendProperties DEF Predict, TypeOK
  <2>. QED
    BY <1>3, <2>1, <2>2 DEF Predict, TypeOK, vadVars
<1>4. CASE PredictDone
  BY <1>4 DEF PredictDone, TypeOK, inferVars, vadVars
<1>5. CASE Speech
  <2>1. current_sample' \in Nat
    BY <1>5 DEF Speech, Step, TypeOK
  <2>2. Opened \in Interval
    BY <2>1 DEF Opened, Interval, Maximum, Unset
  <2>3. speeches' \in Seq(Interval)
    BY <1>5, <2>2, AppendProperties DEF Speech, TypeOK
  <2>. QED
    BY <1>5, <2>1, <2>3 DEF Speech, Step, TypeOK, inferVars
<1>6. CASE Quiet
  BY <1>6, SMTT(30) DEF Quiet, Step, TypeOK, inferVars
<1>7. CASE Silence
  <2>. DEFINE began == IF temp_end = 0 THEN current_sample' ELSE temp_end
  <2>. current_sample \in Nat /\ i \in Nat
    BY DEF TypeOK
  <2>1. current_sample' \in Nat
    BY <1>7 DEF Silence, Step
  <2>2. began \in Nat /\ began + speech_pad_samples - window_size_samples \in Int
    BY <2>1 DEF TypeOK
  <2>3. speeches' \in Seq(Interval)
    BY <1>7, <2>2, EndSet DEF Silence, TypeOK
  <2>4. temp_end' \in Nat
    BY <1>7, <2>2 DEF Silence
  <2>5. triggered' \in BOOLEAN
    BY <1>7, Zenon DEF Silence
  <2>6. i' \in Nat
    BY <1>7 DEF Silence, Step
  <2>7. UNCHANGED <<phase, call, total_sample_size, j, outputs_prob, state, context, found>>
    BY <1>7 DEF Silence, Step, inferVars
  <2>. QED
    BY <2>1, <2>3, <2>4, <2>5, <2>6, <2>7 DEF TypeOK
<1>8. CASE Finish
  <2>1. Closed \in Seq(Interval)
    BY EndSet, SMTT(30) DEF Closed, TypeOK
  <2>2. found' \subseteq Interval
    BY <1>8, <2>1, ElementOfSeq DEF Finish
  <2>. QED
    BY <1>1, <1>8, <2>2 DEF Finish, reset_states, TypeOK, Zeros
<1>9. CASE UNCHANGED vars
  BY <1>9 DEF TypeOK, vars, inferVars, vadVars
<1>. QED
  BY <1>2, <1>3, <1>4, <1>5, <1>6, <1>7, <1>8, <1>9 DEF Next, Finished

-----------------------------------------------------------------------------
(* The invariants *)

\* Fewer windows are fewer samples.
LEMMA Windows ==
  ASSUME NEW a \in Nat, NEW b \in Nat, NEW w \in Nat
  PROVE  /\ (a + 1) * w = a * w + w
         /\ a <= b => a * w <= b * w
<1>1. (a + 1) * w = a * w + w
  OBVIOUS
<1>2. ASSUME a <= b PROVE a * w <= b * w
  <2>1. PICK d \in Nat : b = a + d
    BY <1>2
  <2>2. b * w = a * w + d * w /\ d * w >= 0
    BY <2>1
  <2>. QED
    BY <2>2
<1>. QED
  BY <1>1, <1>2

\* The program starts in a state that satisfies the invariant.
LEMMA InductiveInit == Init => Inductive
<1>. SUFFICES ASSUME Init PROVE Inductive
  OBVIOUS
<1>1. TypeOK
  BY TypeInit
<1>2. speeches = <<>> /\ Len(speeches) = 0 /\ found = {} /\ ~triggered /\ phase = "idle"
      /\ temp_end = 0
  BY EmptySeq DEF Init
<1>3. InvPhase /\ InvClock /\ InvOpen
  BY <1>2 DEF InvPhase, InvClock, InvOpen
<1>4. InvClosed /\ OpenEnd /\ SegmentsOrdered
  BY <1>2 DEF InvClosed, OpenEnd, SegmentsOrdered
<1>. QED
  BY <1>1, <1>3, <1>4 DEF Inductive

\* Every step keeps the two clocks.
LEMMA ClockStep ==
  ASSUME Inductive, [Next]_vars
  PROVE  InvPhase' /\ InvClock'
<1>. USE DEF Inductive, InvPhase, InvClock
<1>1. /\ window_size_samples \in Nat /\ i \in Nat /\ j \in Nat /\ current_sample \in Nat
      /\ total_sample_size \in Nat /\ outputs_prob \in Seq(Levels)
      /\ Len(outputs_prob) \in Nat
  BY EngineAssumption, LenProperties DEF TypeOK
<1>2. CASE StartCall
  BY <1>1, <1>2, ClipAssumption, EmptySeq DEF StartCall, reset_states
<1>3. CASE Predict
  <2>1. PICK n \in Nat : n = Len(outputs_prob)
    BY <1>1
  <2>2. Len(outputs_prob') = n + 1
    BY <1>1, <1>3, <2>1, AppendProperties DEF Predict
  <2>3. (n + 1) * window_size_samples = n * window_size_samples + window_size_samples
    BY <1>1, Windows
  <2>. QED
    BY <1>1, <1>3, <2>1, <2>2, <2>3 DEF Predict, vadVars
<1>4. CASE PredictDone
  BY <1>4 DEF PredictDone, inferVars, vadVars
<1>5. ASSUME NEW level, Step(level) PROVE InvPhase' /\ InvClock'
  <2>1. (i + 1) * window_size_samples = i * window_size_samples + window_size_samples
    BY <1>1, Windows
  <2>. QED
    BY <1>1, <1>5, <2>1 DEF Step, inferVars
<1>6. CASE Speech \/ Quiet \/ Silence
  BY <1>5, <1>6 DEF Speech, Quiet, Silence
<1>7. CASE Finish
  BY <1>7 DEF Finish, reset_states
<1>8. CASE UNCHANGED vars
  BY <1>8 DEF vars, inferVars, vadVars
<1>. QED
  BY <1>2, <1>3, <1>4, <1>6, <1>7, <1>8 DEF Next, Finished

\* The bounds of a segment are integers.
LEMMA SegmentTypes ==
  ASSUME NEW s \in Seq(Interval)
  PROVE  \A k \in 1..Len(s) : s[k].start \in Int /\ s[k].end \in Int
<1>. SUFFICES ASSUME NEW k \in 1..Len(s)
              PROVE  s[k].start \in Int /\ s[k].end \in Int
  OBVIOUS
<1>1. s[k] \in [start : Int, end : Int]
  BY ElementOfSeq DEF Interval
<1>. QED
  BY <1>1

\* What a step of the loop changes besides the segments.
LEMMA LoopStep ==
  ASSUME Inductive, NEW level, Step(level)
  PROVE  /\ current_sample \in Nat
         /\ current_sample' = current_sample + window_size_samples
         /\ found = {} /\ found' = {}
BY DEF Step, Inductive, InvPhase, TypeOK

\* Speech keeps the segments in order: a segment that is opened starts behind
\* the end of the one before, because of SpacingAssumption.
LEMMA SpeechStep ==
  ASSUME Inductive, Speech
  PROVE  InvOpen' /\ InvClosed' /\ OpenEnd' /\ SegmentsOrdered'
<1>1. /\ current_sample \in Nat
      /\ current_sample' = current_sample + window_size_samples
      /\ found' = {}
      /\ temp_end' = 0
      /\ triggered' = TRUE
  BY LoopStep DEF Speech
<1>2. window_size_samples \in Nat \ {0} /\ speech_pad_samples \in Nat
  BY EngineAssumption
<1>3. speeches \in Seq(Interval)
  BY DEF Inductive, TypeOK
<1>4. CASE triggered
  <2>1. speeches' = speeches
    BY <1>4 DEF Speech
  <2>2. speeches # <<>> /\ Len(speeches) \in 1..Len(speeches)
    BY <1>3, <1>4, EmptySeq DEF Inductive, OpenEnd
  <2>3. \A k \in 1..Len(speeches) : speeches[k].start \in Int /\ speeches[k].end \in Int
    BY <1>3, SegmentTypes
  <2>4. InvOpen'
    BY <1>1, <1>2, <1>4, <2>1, <2>2, <2>3 DEF Inductive, InvOpen
  <2>5. InvClosed'
    BY <1>1, <1>2, <2>1, <2>3 DEF Inductive, InvClosed
  <2>6. OpenEnd'
    BY <1>1, <1>4, <2>1, <2>2 DEF Inductive, OpenEnd
  <2>7. SegmentsOrdered'
    BY <1>1, <2>1 DEF Inductive, SegmentsOrdered
  <2>. QED
    BY <2>4, <2>5, <2>6, <2>7
<1>5. CASE ~triggered
  <2>1. PICK n \in Nat : n = Len(speeches)
    BY <1>3, LenProperties
  <2>2. /\ Opened \in Interval
        /\ Opened.end = Unset
        /\ Opened.start = Maximum(0, current_sample - speech_pad_samples)
    BY <1>1, <1>2 DEF Opened, Interval, Maximum, Unset
  <2>3. /\ speeches' # <<>> /\ Len(speeches') = n + 1
        /\ \A k \in 1..n : speeches'[k] = speeches[k]
        /\ speeches'[n + 1] = Opened
    BY <1>3, <1>5, <2>1, <2>2, AppendProperties DEF Speech
  <2>4. \A k \in 1..n :
          /\ speeches[k].start \in Int /\ speeches[k].end \in Int
          /\ speeches[k].end # Unset
          /\ speeches[k].end > 0
          /\ speeches[k].end <= current_sample - speech_pad_samples
    <3>1. \A k \in 1..n : speeches[k].start \in Int /\ speeches[k].end \in Int
      BY <1>3, <2>1, SegmentTypes
    <3>2. \A k \in 1..n : speeches[k].end # Unset
      BY <1>5, <2>1 DEF Inductive, OpenEnd
    <3>. QED
      BY <2>1, <3>1, <3>2 DEF Inductive, InvClosed
  <2>5. InvOpen'
    BY <1>1, <1>2, <2>2, <2>3 DEF InvOpen, Maximum
  <2>6. InvClosed'
    <3>. SUFFICES ASSUME NEW k \in 1..n + 1, speeches'[k].end # Unset
                  PROVE  /\ speeches'[k].end > 0
                         /\ speeches'[k].end <= current_sample' - speech_pad_samples
      BY <2>3 DEF InvClosed
    <3>1. k \in 1..n
      BY <2>2, <2>3
    <3>. QED
      BY <1>1, <1>2, <2>3, <2>4, <3>1
  <2>7. OpenEnd'
    <3>1. \A k \in 1..n + 1 : speeches'[k].end = Unset <=> k = n + 1
      BY <2>2, <2>3, <2>4
    <3>. QED
      BY <1>1, <2>3, <3>1 DEF OpenEnd
  <2>8. SegmentsOrdered'
    <3>. SUFFICES ASSUME NEW k \in 1..n + 1
                  PROVE  /\ speeches'[k].start >= 0
                         /\ speeches'[k].end # Unset => speeches'[k].start < speeches'[k].end
                         /\ \A l \in 1..k-1 : speeches'[l].end <= speeches'[k].start
      BY <1>1, <2>3 DEF SegmentsOrdered
    <3>1. CASE k \in 1..n
      BY <2>1, <2>3, <3>1 DEF Inductive, SegmentsOrdered
    <3>2. CASE k = n + 1
      <4>1. \A l \in 1..n : speeches'[l].end <= current_sample - speech_pad_samples
        BY <2>3, <2>4
      <4>. QED
        BY <1>1, <1>2, <2>2, <2>3, <2>4, <3>2, <4>1 DEF Maximum
    <3>. QED
      BY <3>1, <3>2
  <2>. QED
    BY <2>5, <2>6, <2>7, <2>8
<1>. QED
  BY <1>4, <1>5

\* Silence keeps the segments in order: the one it closes ends behind its start,
\* and early enough for the next, because of SpacingAssumption.
LEMMA SilenceStep ==
  ASSUME Inductive, Silence
  PROVE  InvOpen' /\ InvClosed' /\ OpenEnd' /\ SegmentsOrdered'
<1>. DEFINE began == IF temp_end = 0 THEN current_sample' ELSE temp_end
            closes == current_sample' - began >= min_silence_samples
            end == began + speech_pad_samples - window_size_samples
<1>1. /\ current_sample \in Nat
      /\ current_sample' = current_sample + window_size_samples
      /\ found' = {}
  BY LoopStep DEF Silence
<1>2. /\ window_size_samples \in Nat \ {0} /\ speech_pad_samples \in Nat
      /\ min_silence_samples \in Nat
      /\ 2 * speech_pad_samples <= min_silence_samples + window_size_samples
  BY EngineAssumption, SpacingAssumption
<1>3. speeches \in Seq(Interval) /\ triggered /\ temp_end \in Nat
  BY DEF Inductive, TypeOK, Silence
<1>4. PICK n \in Nat \ {0} : n = Len(speeches)
  BY <1>3, EmptySeq DEF Inductive, OpenEnd
<1>5. \A k \in 1..n : speeches[k].start \in Int /\ speeches[k].end \in Int
  BY <1>3, <1>4, SegmentTypes
<1>6. /\ current_sample >= window_size_samples
      /\ speeches[n].start >= 0
      /\ \/ speeches[n].start = 0
         \/ speeches[n].start <= current_sample - speech_pad_samples - window_size_samples
      /\ temp_end # 0 => /\ window_size_samples < temp_end
                         /\ temp_end <= current_sample
                         /\ speeches[n].start
                              < temp_end + speech_pad_samples - window_size_samples
  BY <1>3, <1>4 DEF Inductive, InvOpen, SegmentsOrdered
<1>7. /\ began \in Nat /\ window_size_samples < began /\ began <= current_sample'
      /\ speeches[n].start < end
  BY <1>1, <1>2, <1>3, <1>4, <1>5, <1>6
<1>. HIDE DEF began
<1>8. CASE closes
  <2>1. /\ triggered' = FALSE
        /\ temp_end' = 0
        /\ speeches' = [speeches EXCEPT ![Len(speeches)].end = end]
    BY <1>8 DEF Silence, began
  <2>2. /\ Len(speeches') = n
        /\ \A k \in 1..n : /\ speeches'[k].start = speeches[k].start
                           /\ speeches'[k].end = IF k = n THEN end ELSE speeches[k].end
    <3>1. end \in Int /\ speeches # <<>>
      BY <1>2, <1>4, <1>7, EmptySeq
    <3>. QED
      BY <1>3, <1>4, <2>1, <3>1, EndSet
  <2>3. end > 0 /\ end <= current_sample' - speech_pad_samples
    BY <1>1, <1>2, <1>7, <1>8
  <2>4. InvOpen'
    BY <2>1 DEF InvOpen
  <2>5. \A k \in 1..n-1 : speeches[k].end # Unset
    BY <1>4 DEF Inductive, OpenEnd
  <2>6. InvClosed'
    <3>. SUFFICES ASSUME NEW k \in 1..n
                  PROVE  /\ speeches'[k].end > 0
                         /\ speeches'[k].end <= current_sample' - speech_pad_samples
      BY <2>2 DEF InvClosed
    <3>1. CASE k = n
      BY <2>2, <2>3, <3>1
    <3>2. CASE k \in 1..n-1
      <4>1. /\ speeches[k].end > 0
            /\ speeches[k].end <= current_sample - speech_pad_samples
        BY <1>4, <2>5, <3>2 DEF Inductive, InvClosed
      <4>. QED
        BY <1>1, <1>2, <1>5, <2>2, <3>2, <4>1, SMTT(30)
    <3>. QED
      BY <3>1, <3>2
  <2>7. OpenEnd'
    <3>1. \A k \in 1..n : speeches'[k].end # Unset
      BY <2>2, <2>3, <2>5 DEF Unset
    <3>. QED
      BY <1>1, <2>1, <2>2, <3>1 DEF OpenEnd
  <2>8. SegmentsOrdered'
    <3>. SUFFICES ASSUME NEW k \in 1..n
                  PROVE  /\ speeches'[k].start >= 0
                         /\ speeches'[k].start < speeches'[k].end
                         /\ \A l \in 1..k-1 : speeches'[l].end <= speeches'[k].start
      BY <1>1, <2>2 DEF SegmentsOrdered
    <3>1. \A l \in 1..k-1 : speeches'[l].end = speeches[l].end
      BY <2>2
    <3>2. /\ speeches[k].start >= 0
          /\ speeches[k].end # Unset => speeches[k].start < speeches[k].end
          /\ \A l \in 1..k-1 : speeches[l].end <= speeches[k].start
      BY <1>4 DEF Inductive, SegmentsOrdered
    <3>3. speeches'[k].start < speeches'[k].end
      BY <1>7, <2>2, <2>5, <3>2
    <3>. QED
      BY <2>2, <3>1, <3>2, <3>3
  <2>. QED
    BY <2>4, <2>6, <2>7, <2>8
<1>9. CASE ~closes
  <2>1. triggered' = TRUE /\ temp_end' = began /\ speeches' = speeches
    BY <1>9 DEF Silence, began
  <2>2. InvOpen'
    BY <1>1, <1>2, <1>3, <1>4, <1>5, <1>6, <1>7, <2>1 DEF InvOpen, Inductive, OpenEnd
  <2>3. InvClosed'
    BY <1>1, <1>2, <1>4, <1>5, <2>1 DEF Inductive, InvClosed
  <2>4. OpenEnd'
    BY <1>1, <1>3, <2>1 DEF Inductive, OpenEnd
  <2>5. SegmentsOrdered'
    BY <1>1, <2>1 DEF Inductive, SegmentsOrdered
  <2>. QED
    BY <2>2, <2>3, <2>4, <2>5
<1>. QED
  BY <1>8, <1>9

\* What the close behind the loop does to the segments.
LEMMA ClosedSegments ==
  ASSUME Inductive
  PROVE  /\ Len(Closed) = Len(speeches)
         /\ \A k \in 1..Len(speeches) :
              /\ Closed[k].start = speeches[k].start
              /\ Closed[k].end = IF triggered /\ k = Len(speeches)
                                 THEN total_sample_size ELSE speeches[k].end
<1>1. speeches \in Seq(Interval) /\ total_sample_size \in Int
  BY DEF Inductive, TypeOK
<1>2. CASE triggered
  <2>1. speeches # <<>>
    BY <1>2 DEF Inductive, OpenEnd
  <2>. QED
    BY <1>1, <1>2, <2>1, EndSet DEF Closed
<1>3. CASE ~triggered
  BY <1>3 DEF Closed
<1>. QED
  BY <1>2, <1>3

\* What a call returns is in order too: the segment that the end of the clip
\* closes started within the clip.
LEMMA FinishStep ==
  ASSUME Inductive, Finish
  PROVE  InvOpen' /\ InvClosed' /\ OpenEnd' /\ SegmentsOrdered'
<1>1. /\ triggered' = FALSE /\ temp_end' = 0
      /\ speeches' = <<>> /\ Len(speeches') = 0
  BY EmptySeq DEF Finish, reset_states
<1>2. /\ window_size_samples \in Nat \ {0} /\ speech_pad_samples \in Nat
  BY EngineAssumption
<1>3. speeches \in Seq(Interval) /\ total_sample_size \in Nat /\ current_sample \in Nat
  BY DEF Inductive, TypeOK
<1>4. PICK n \in Nat : n = Len(speeches)
  BY <1>3, LenProperties
<1>5. current_sample <= total_sample_size
  BY DEF Finish, Inductive, InvClock
<1>6. \A k \in 1..n : speeches[k].start \in Int /\ speeches[k].end \in Int
  BY <1>3, <1>4, SegmentTypes
<1>7. \A k \in 1..n :
        /\ speeches[k].start >= 0
        /\ speeches[k].end # Unset => speeches[k].start < speeches[k].end
        /\ \A l \in 1..k-1 : speeches[l].end <= speeches[k].start
  BY <1>4 DEF Inductive, SegmentsOrdered
<1>8. /\ Len(Closed) = n
      /\ \A k \in 1..n :
           /\ Closed[k].start = speeches[k].start
           /\ Closed[k].end = IF triggered /\ k = n THEN total_sample_size
                                                     ELSE speeches[k].end
  BY <1>4, ClosedSegments
<1>9. \A k \in 1..n : /\ Closed[k].end # Unset
                      /\ Closed[k].start < Closed[k].end
                      /\ Closed[k].start >= 0
  <2>. SUFFICES ASSUME NEW k \in 1..n
                PROVE  /\ Closed[k].end # Unset
                       /\ Closed[k].start < Closed[k].end
                       /\ Closed[k].start >= 0
    OBVIOUS
  <2>1. CASE triggered /\ k = n
    <3>1. /\ current_sample >= window_size_samples
          /\ \/ speeches[n].start = 0
             \/ speeches[n].start
                  <= current_sample - speech_pad_samples - window_size_samples
      BY <1>4, <2>1 DEF Inductive, InvOpen
    <3>2. speeches[n].start < total_sample_size
      BY <1>2, <1>3, <1>5, <1>6, <2>1, <3>1
    <3>. QED
      BY <1>3, <1>7, <1>8, <2>1, <3>2 DEF Unset
  <2>2. CASE ~(triggered /\ k = n)
    <3>1. speeches[k].end # Unset
      BY <1>4, <2>2 DEF Inductive, OpenEnd
    <3>. QED
      BY <1>7, <1>8, <2>2, <3>1
  <2>. QED
    BY <2>1, <2>2
<1>10. \A k \in 1..n : \A l \in 1..k-1 : Closed[l].end <= Closed[k].start
  <2>. SUFFICES ASSUME NEW k \in 1..n, NEW l \in 1..k-1
                PROVE  Closed[l].end <= Closed[k].start
    OBVIOUS
  <2>1. l \in 1..n /\ l # n
    OBVIOUS
  <2>. QED
    BY <1>7, <1>8, <2>1
<1>11. \A s \in found' : \E k \in 1..n : s = Closed[k]
  BY <1>8 DEF Finish
<1>12. InvOpen'
  BY <1>1 DEF InvOpen
<1>13. InvClosed'
  BY <1>1 DEF InvClosed
<1>14. OpenEnd'
  <2>1. \A s \in found' : s.end # Unset
    BY <1>9, <1>11
  <2>. QED
    BY <1>1, <2>1 DEF OpenEnd
<1>15. SegmentsOrdered'
  <2>1. ASSUME NEW s \in found', NEW t \in found'
        PROVE  /\ 0 <= s.start /\ s.start < s.end
               /\ s = t \/ s.end <= t.start \/ t.end <= s.start
    <3>1. PICK k \in 1..n : s = Closed[k]
      BY <1>11
    <3>2. PICK l \in 1..n : t = Closed[l]
      BY <1>11
    <3>3. k = l \/ k \in 1..l-1 \/ l \in 1..k-1
      OBVIOUS
    <3>. QED
      BY <1>9, <1>10, <3>1, <3>2, <3>3
  <2>. QED
    BY <1>1, <2>1 DEF SegmentsOrdered
<1>. QED
  BY <1>12, <1>13, <1>14, <1>15

\* Every step keeps the invariant.
LEMMA InductiveStep == Inductive /\ [Next]_vars => Inductive'
<1>. SUFFICES ASSUME Inductive, [Next]_vars PROVE Inductive'
  OBVIOUS
<1>1. TypeOK'
  BY TypeStep DEF Inductive, OpenEnd
<1>2. InvPhase' /\ InvClock'
  BY ClockStep
<1>3. ASSUME UNCHANGED <<triggered, temp_end, speeches, found>>,
             current_sample' >= current_sample
      PROVE  InvOpen' /\ InvClosed' /\ OpenEnd' /\ SegmentsOrdered'
  <2>1. /\ current_sample \in Nat /\ current_sample' \in Nat
        /\ window_size_samples \in Nat /\ speech_pad_samples \in Nat
        /\ speeches \in Seq(Interval) /\ temp_end \in Nat
    BY <1>1, EngineAssumption DEF Inductive, TypeOK
  <2>2. \A k \in 1..Len(speeches) : speeches[k].start \in Int /\ speeches[k].end \in Int
    BY <2>1, SegmentTypes
  <2>3. InvOpen'
    <3>1. triggered => Len(speeches) \in 1..Len(speeches)
      BY <2>1, EmptySeq DEF Inductive, InvOpen
    <3>. QED
      BY <1>3, <2>1, <2>2, <3>1 DEF Inductive, InvOpen
  <2>4. InvClosed'
    BY <1>3, <2>1, <2>2 DEF Inductive, InvClosed
  <2>5. OpenEnd' /\ SegmentsOrdered'
    BY <1>3 DEF Inductive, OpenEnd, SegmentsOrdered
  <2>. QED
    BY <2>3, <2>4, <2>5
<1>4. InvOpen' /\ InvClosed' /\ OpenEnd' /\ SegmentsOrdered'
  <2>1. CASE StartCall
    <3>1. speeches' = <<>> /\ Len(speeches') = 0 /\ found' = {} /\ triggered' = FALSE
          /\ temp_end' = 0
      BY <2>1, EmptySeq DEF StartCall, reset_states
    <3>. QED
      BY <3>1 DEF InvOpen, InvClosed, OpenEnd, SegmentsOrdered
  <2>2. CASE Predict \/ PredictDone \/ UNCHANGED vars
    BY <1>3, <2>2 DEF Predict, PredictDone, vars, vadVars, Inductive, TypeOK
  <2>3. CASE Speech
    BY <2>3, SpeechStep
  <2>4. CASE Quiet
    <3>1. current_sample' >= current_sample /\ found' = found
      BY <2>4, LoopStep, EngineAssumption DEF Quiet
    <3>. QED
      BY <1>3, <2>4, <3>1 DEF Quiet
  <2>5. CASE Silence
    BY <2>5, SilenceStep
  <2>6. CASE Finish
    BY <2>6, FinishStep
  <2>. QED
    BY <2>1, <2>2, <2>3, <2>4, <2>5, <2>6 DEF Next, Finished
<1>. QED
  BY <1>1, <1>2, <1>4 DEF Inductive

\* What holds at every moment of every run.
LEMMA AlwaysInductive == Spec => []Inductive
BY InductiveInit, InductiveStep, PTL DEF Spec

\* The variables keep their types in every run, whatever the constants.
THEOREM TypeCorrect == Spec => []TypeOK
<1>. Inductive => TypeOK
  BY DEF Inductive
<1>. QED
  BY AlwaysInductive, PTL

\* silero.cc:165-196: no end of a segment is read that was never written, and
\* speeches.back() is never asked of an empty vector.
THEOREM EndsAreSet == Spec => []OpenEnd
<1>. Inductive => OpenEnd
  BY DEF Inductive
<1>. QED
  BY AlwaysInductive, PTL

\* silero.cc:148-207: the padded segments of every clip are in order, not empty
\* and apart from each other, provided the pads fit between two segments.
THEOREM SegmentsApart == Spec => []SegmentsOrdered
<1>. Inductive => SegmentsOrdered
  BY DEF Inductive
<1>. QED
  BY AlwaysInductive, PTL

\* Every step keeps what the model was given apart from the clips before.
LEMMA FreshStep ==
  ASSUME TypeOK, FreshInference, [Next]_vars
  PROVE  FreshInference'
<1>1. /\ window_size_samples \in Nat \ {0} /\ j \in Nat
      /\ state \in Seq(Nat \X Nat) /\ call \in Nat /\ <<call, j>> \in Nat \X Nat
  BY EngineAssumption DEF TypeOK
<1>2. CASE StartCall
  <2>1. state' = <<>> /\ Len(state') = 0 /\ j' = 0 /\ context' = Zeros
    BY <1>2, EmptySeq DEF StartCall, reset_states
  <2>. QED
    BY <1>1, <2>1 DEF FreshInference
<1>3. CASE Predict
  <2>1. PICK n \in Nat : n = Len(state)
    BY <1>1, LenProperties
  <2>2. /\ n * window_size_samples = j
        /\ \A k \in 1..n : state[k] = <<call, (k - 1) * window_size_samples>>
    BY <1>3, <2>1 DEF Predict, FreshInference
  <2>3. /\ Len(state') = n + 1
        /\ \A k \in 1..n : state'[k] = state[k]
        /\ state'[n + 1] = <<call, j>>
    BY <1>1, <1>3, <2>1, AppendProperties DEF Predict
  <2>4. /\ context' = <<call, j>> /\ call' = call
        /\ j' = j + window_size_samples /\ j' # 0 /\ j' - window_size_samples = j
    BY <1>1, <1>3 DEF Predict
  <2>5. (n + 1) * window_size_samples = j'
    BY <1>1, <2>2, <2>4, Windows
  <2>6. ASSUME NEW k \in 1..n+1
        PROVE  state'[k] = <<call', (k - 1) * window_size_samples>>
    <3>1. CASE k \in 1..n
      BY <2>2, <2>3, <2>4, <3>1
    <3>2. CASE k = n + 1
      BY <2>2, <2>3, <2>4, <3>2
    <3>. QED
      BY <3>1, <3>2
  <2>. QED
    BY <2>3, <2>4, <2>5, <2>6 DEF FreshInference
<1>4. CASE UNCHANGED vars
  BY <1>4 DEF vars, inferVars, vadVars, FreshInference
<1>5. CASE PredictDone \/ Speech \/ Quiet \/ Silence \/ Finish
  BY <1>5 DEF PredictDone, Speech, Quiet, Silence, Step, Finish, FreshInference
<1>. QED
  BY <1>2, <1>3, <1>4, <1>5 DEF Next, Finished

\* silero.cc:50-108: the model hears every clip as if it were the first one, in
\* however many calls on one iterator, and windows of whatever size.
THEOREM FreshMemory == Spec => []FreshInference
<1>1. Init => FreshInference
  BY DEF Init, FreshInference
<1>2. TypeOK /\ FreshInference /\ [Next]_vars => FreshInference'
  BY FreshStep
<1>. QED
  BY <1>1, <1>2, TypeCorrect, PTL DEF Spec

\* An answer comes only from the end of DoVad.
LEMMA AnswerFinishes ==
  ASSUME [Next]_vars, Answers
  PROVE  Finish
BY DEF Next, Answers, StartCall, Predict, PredictDone, Speech, Quiet, Silence, Step,
       Finished, vars

\* A voice lies within the clip, and so do the two pads around it.
LEMMA VoiceFits ==
  ASSUME Inductive, [Next]_vars, Answers, has_voice_activity'
  PROVE  total_sample_size >= min_speech_samples + 2 * speech_pad_samples
<1>1. Finish
  BY AnswerFinishes
<1>2. /\ speech_pad_samples \in Nat /\ min_speech_samples \in Nat
      /\ total_sample_size \in Nat /\ current_sample \in Nat
  BY EngineAssumption DEF Inductive, TypeOK
<1>3. PICK n \in Nat : n = Len(speeches)
  BY LenProperties DEF Inductive, TypeOK
<1>4. PICK k \in 1..n : LongEnough(Closed[k])
  BY <1>1, <1>3, ClosedSegments DEF Finish, has_voice_activity
<1>5. /\ speeches[k].start \in Int /\ speeches[k].end \in Int
      /\ speeches[k].start >= 0
  BY <1>3, SegmentTypes DEF Inductive, TypeOK, SegmentsOrdered
<1>6. Closed[k].start = speeches[k].start
  BY <1>3, ClosedSegments
<1>7. Closed[k].end \in Int /\ Closed[k].end <= total_sample_size
  <2>1. CASE triggered /\ k = n
    BY <1>2, <1>3, <2>1, ClosedSegments
  <2>2. CASE ~(triggered /\ k = n)
    <3>1. Closed[k].end = speeches[k].end
      BY <1>3, <2>2, ClosedSegments
    <3>2. speeches[k].end # Unset
      BY <1>3, <2>2 DEF Inductive, OpenEnd
    <3>3. speeches[k].end <= current_sample - speech_pad_samples
      BY <1>3, <3>2 DEF Inductive, InvClosed
    <3>4. current_sample <= total_sample_size
      BY <1>1 DEF Finish, Inductive, InvClock
    <3>. QED
      BY <1>2, <1>5, <3>1, <3>3, <3>4
  <2>. QED
    BY <2>1, <2>2
<1>. QED
  BY <1>2, <1>4, <1>5, <1>6, <1>7 DEF LongEnough

\* silero.cc:199-204, radio.c:156-162: a capture shorter than the minimal speech
\* and both pads is never reported as a voice, whatever the model answers. Radio
\* relies on it for its constant MinClip.
THEOREM ShortNeverHeard == Spec => ShortClipSilent
<1>1. Inductive /\ [Next]_vars =>
        [Answers /\ has_voice_activity'
           => total_sample_size >= min_speech_samples + 2 * speech_pad_samples]_vars
  BY VoiceFits
<1>. QED
  BY <1>1, AlwaysInductive, PTL DEF Spec, ShortClipSilent
-----------------------------------------------------------------------------
(* Rounding *)

\* A window and a pad have a power of two in common; a float keeps two pads, the
\* minimal speech, and this power times a significand is enough for every clip.
\* With the program's values: 32 divides 512 and 480, and clips of up to 2^29
\* samples, nine hours.
FloatsSuffice(n) ==
  /\ window_size_samples \in Grid(n) /\ speech_pad_samples \in Grid(n)
  /\ 2 * speech_pad_samples <= Exact /\ min_speech_samples <= Exact
  /\ \A total \in ClipSizes : total <= Exact * TwoTo[n]

\* The clocks and the bounds that were written are made of windows and pads.
InvGrid(n) ==
  /\ phase # "idle" => total_sample_size \in ClipSizes
  /\ current_sample \in Grid(n) /\ temp_end \in Grid(n)
  /\ \A k \in 1..Len(speeches) :
       /\ speeches[k].start \in Grid(n)
       /\ speeches[k].end # Unset => speeches[k].end \in Grid(n)

LEMMA GridInit ==
  ASSUME NEW n \in Nat, FloatsSuffice(n), Init
  PROVE  InvGrid(n)
<1>1. 0 \in Grid(n)
  BY GridSums DEF FloatsSuffice
<1>2. speeches = <<>> /\ Len(speeches) = 0
  BY EmptySeq DEF Init
<1>. QED
  BY <1>1, <1>2 DEF Init, InvGrid

\* Every step keeps the bounds on the grid.
LEMMA GridStep ==
  ASSUME NEW n \in Nat, FloatsSuffice(n), Inductive, InvGrid(n), [Next]_vars
  PROVE  InvGrid(n)'
<1>. DEFINE w == window_size_samples
            p == speech_pad_samples
<1>1. w \in Grid(n) /\ p \in Grid(n) /\ w \in Nat \ {0} /\ p \in Nat
  BY EngineAssumption DEF FloatsSuffice
<1>. HIDE DEF w, p
<1>2. 0 \in Grid(n)
  BY <1>1, GridSums
<1>3. /\ current_sample \in Nat /\ current_sample \in Grid(n) /\ temp_end \in Grid(n)
      /\ current_sample + w \in Grid(n)
  BY <1>1, GridSums DEF Inductive, TypeOK, InvGrid
<1>4. speeches \in Seq(Interval)
  BY DEF Inductive, TypeOK
<1>5. ASSUME NEW level, Step(level)
      PROVE  /\ phase' = "vad" /\ total_sample_size' \in ClipSizes
             /\ current_sample' = current_sample + w /\ current_sample' \in Grid(n)
  BY <1>3, <1>5 DEF Step, InvGrid, inferVars, w
<1>6. CASE StartCall
  <2>1. speeches' = <<>> /\ Len(speeches') = 0 /\ current_sample' = 0 /\ temp_end' = 0
        /\ total_sample_size' \in ClipSizes
    BY <1>6, EmptySeq DEF StartCall, reset_states
  <2>. QED
    BY <1>2, <2>1 DEF InvGrid
<1>7. CASE Predict \/ PredictDone \/ UNCHANGED vars
  BY <1>7 DEF Predict, PredictDone, vars, inferVars, vadVars, InvGrid
<1>8. CASE Speech
  <2>1. Step("speech") /\ temp_end' = 0
    BY <1>8 DEF Speech
  <2>2. /\ phase' = "vad" /\ total_sample_size' \in ClipSizes
        /\ current_sample' = current_sample + w /\ current_sample' \in Grid(n)
    BY <1>5, <2>1
  <2>3. CASE triggered
    <3>1. speeches' = speeches
      BY <1>8, <2>3 DEF Speech
    <3>. QED
      BY <1>2, <2>1, <2>2, <3>1 DEF InvGrid
  <2>4. CASE ~triggered
    <3>1. /\ Opened \in Interval /\ Opened.end = Unset
          /\ Opened.start = 0 \/ Opened.start = current_sample - p
      BY <1>1, <1>3, <2>2 DEF Opened, Interval, Maximum, Unset, w, p
    <3>2. Opened.start \in Grid(n)
      BY <1>1, <1>2, <1>3, <3>1, GridSums
    <3>3. PICK m \in Nat : m = Len(speeches)
      BY <1>4, LenProperties
    <3>4. /\ Len(speeches') = m + 1
          /\ \A k \in 1..m : speeches'[k] = speeches[k]
          /\ speeches'[m + 1] = Opened
      BY <1>4, <1>8, <2>4, <3>1, <3>3, AppendProperties DEF Speech
    <3>5. ASSUME NEW k \in 1..m + 1
          PROVE  /\ speeches'[k].start \in Grid(n)
                 /\ speeches'[k].end # Unset => speeches'[k].end \in Grid(n)
      <4>1. CASE k \in 1..m
        BY <3>3, <3>4, <4>1 DEF InvGrid
      <4>2. CASE k = m + 1
        BY <3>1, <3>2, <3>4, <4>2
      <4>. QED
        BY <4>1, <4>2
    <3>. QED
      BY <1>2, <2>1, <2>2, <3>4, <3>5 DEF InvGrid
  <2>. QED
    BY <2>3, <2>4
<1>9. CASE Quiet
  <2>1. \E level : Step(level)
    BY <1>9 DEF Quiet
  <2>2. /\ phase' = "vad" /\ total_sample_size' \in ClipSizes
        /\ current_sample' \in Grid(n)
    BY <1>5, <2>1
  <2>3. temp_end' = temp_end /\ speeches' = speeches
    BY <1>9 DEF Quiet
  <2>. QED
    BY <1>3, <2>2, <2>3 DEF InvGrid
<1>10. CASE Silence
  <2>. DEFINE began == IF temp_end = 0 THEN current_sample' ELSE temp_end
              closes == current_sample' - began >= min_silence_samples
              end == began + p - w
  <2>1. Step("silence") /\ triggered
    BY <1>10 DEF Silence
  <2>2. /\ phase' = "vad" /\ total_sample_size' \in ClipSizes
        /\ current_sample' \in Grid(n)
    BY <1>5, <2>1
  <2>3. began \in Grid(n)
    BY <1>3, <2>2
  <2>4. /\ temp_end' = IF closes THEN 0 ELSE began
        /\ speeches' = IF closes THEN [speeches EXCEPT ![Len(speeches)].end = end]
                                 ELSE speeches
    BY <1>10 DEF Silence, w, p
  <2>. HIDE DEF began, closes
  <2>5. end \in Grid(n) /\ end \in Int
    <3>1. p - w \in Grid(n)
      BY <1>1, GridSums
    <3>2. end \in Grid(n)
      BY <2>3, <3>1, GridSums
    <3>. QED
      BY <1>2, <3>2, GridSums
  <2>6. temp_end' \in Grid(n)
    BY <1>2, <2>3, <2>4
  <2>. HIDE DEF end
  <2>7. CASE closes
    <3>1. speeches' = [speeches EXCEPT ![Len(speeches)].end = end] /\ speeches # <<>>
      BY <2>1, <2>4, <2>7 DEF Inductive, OpenEnd
    <3>2. /\ Len(speeches') = Len(speeches)
          /\ \A k \in 1..Len(speeches) :
               /\ speeches'[k].start = speeches[k].start
               /\ speeches'[k].end = IF k = Len(speeches) THEN end ELSE speeches[k].end
      BY <1>4, <2>5, <3>1, EndSet
    <3>3. \A k \in 1..Len(speeches') :
            /\ speeches'[k].start \in Grid(n)
            /\ speeches'[k].end # Unset => speeches'[k].end \in Grid(n)
      BY <2>5, <3>2 DEF InvGrid
    <3>. QED
      BY <2>2, <2>6, <3>3 DEF InvGrid
  <2>8. CASE ~closes
    BY <2>2, <2>4, <2>6, <2>8 DEF InvGrid
  <2>. QED
    BY <2>7, <2>8
<1>11. CASE Finish
  <2>1. /\ phase' = "idle" /\ current_sample' = 0 /\ temp_end' = 0
        /\ speeches' = <<>> /\ Len(speeches') = 0
    BY <1>11, EmptySeq DEF Finish, reset_states
  <2>. QED
    BY <1>2, <2>1 DEF InvGrid
<1>. QED
  BY <1>6, <1>7, <1>8, <1>9, <1>10, <1>11 DEF Next, Finished
\* What the test computes in floats is exact apart from the end it starts from,
\* if the bounds and the pad are multiples of a power of two that a significand
\* of them reaches far enough.
LEMMA TestRounded ==
  ASSUME NEW d \in Nat, NEW b \in Nat, b = Exact * TwoTo[d],
         NEW p \in Nat, p = speech_pad_samples, p \in Grid(d), 2 * p <= Exact,
         NEW m \in Nat, m = min_speech_samples, m <= Exact,
         NEW speech,
         NEW s \in Nat, s = speech.start, s \in Grid(d), s + p <= b,
         NEW e \in Nat, e = Rounded(speech.end), e \in Grid(d), e <= b,
         s + 2 * p <= e + b
  PROVE  FloatLongEnough(speech) <=> e - s - 2 * p >= m
<1>. DEFINE x == e - p
            y == s + p
<1>1. Exact <= b /\ Exact \in Nat
  <2>1. Exact \in Nat /\ TwoTo[d] \in Nat \ {0}
    BY ExactEven, TwoToDefined
  <2>2. PICK t \in Nat \ {0} : t = TwoTo[d]
    BY <2>1
  <2>3. Exact * 1 <= Exact * t
    BY <2>1
  <2>. QED
    BY <2>1, <2>2, <2>3
<1>2. x \in Grid(d) /\ y \in Grid(d) /\ x - y \in Grid(d)
  <2>1. x \in Grid(d) /\ y \in Grid(d)
    BY GridSums
  <2>. QED
    BY <2>1, GridSums
<1>3. Magnitude(x) <= b /\ Magnitude(y) <= b /\ Magnitude(x - y) <= b /\ Magnitude(s) <= b
  BY <1>1 DEF Magnitude
<1>4. Rounded(x) = x /\ Rounded(y) = y /\ Rounded(x - y) = x - y /\ Rounded(s) = s
  BY <1>2, <1>3, GridExact
<1>5. Rounded(m) = m
  <2>1. m = 1 * m /\ Magnitude(m) <= Exact * 1
    BY <1>1 DEF Magnitude
  <2>2. m \in Grid(0)
    BY <2>1, TwoToDefined DEF Grid
  <2>. QED
    BY <2>1, <2>2, GridExact, TwoToDefined
<1>6. FloatLongEnough(speech) <=> ~(x - y < m)
  <2>1. FloatLongEnough(speech)
          <=> ~(Rounded(Rounded(e - p) - Rounded(Rounded(s) + p)) < Rounded(m))
    BY DEF FloatLongEnough
  <2>. QED
    BY <1>4, <1>5, <2>1
<1>7. ~(x - y < m) <=> e - s - 2 * p >= m
  OBVIOUS
<1>. QED
  BY <1>6, <1>7

\* Where the bounds of a segment lie when the clip is at its end.
LEMMA BoundsWithin ==
  ASSUME NEW n \in Nat, FloatsSuffice(n), Inductive, InvGrid(n),
         phase = "vad", i = Len(outputs_prob), NEW k \in 1..Len(Closed)
  PROVE  /\ Closed[k].start \in Grid(n) /\ Closed[k].start \in Nat
         /\ Closed[k].start = 0
              \/ Closed[k].start + speech_pad_samples <= total_sample_size
         /\ \/ triggered /\ k = Len(Closed) /\ Closed[k].end = total_sample_size
            \/ /\ Closed[k].end \in Grid(n) /\ Closed[k].end \in Nat
               /\ Closed[k].start < Closed[k].end
               /\ Closed[k].end <= total_sample_size
<1>1. /\ speech_pad_samples \in Nat /\ window_size_samples \in Nat
      /\ total_sample_size \in Nat /\ current_sample \in Nat
      /\ current_sample <= total_sample_size
  BY EngineAssumption DEF Inductive, TypeOK, InvClock
<1>2. k \in 1..Len(speeches) /\ Len(Closed) = Len(speeches)
  BY ClosedSegments
<1>3. /\ Closed[k].start = speeches[k].start
      /\ Closed[k].end = IF triggered /\ k = Len(speeches)
                         THEN total_sample_size ELSE speeches[k].end
  BY <1>2, ClosedSegments
<1>4. speeches[k].start \in Int /\ speeches[k].end \in Int
  BY <1>2, SegmentTypes DEF Inductive, TypeOK
<1>5. /\ speeches[k].start \in Grid(n) /\ speeches[k].start >= 0
      /\ speeches[k].end # Unset => /\ speeches[k].start < speeches[k].end
                                    /\ speeches[k].end \in Grid(n)
                                    /\ speeches[k].end > 0
                                    /\ speeches[k].end <= current_sample - speech_pad_samples
  BY <1>2 DEF Inductive, SegmentsOrdered, InvGrid, InvClosed
<1>6. CASE triggered /\ k = Len(speeches)
  <2>1. \/ speeches[k].start = 0
        \/ speeches[k].start <= current_sample - speech_pad_samples - window_size_samples
    BY <1>6 DEF Inductive, InvOpen
  <2>2. speeches[k].start = 0 \/ speeches[k].start + speech_pad_samples <= total_sample_size
    BY <1>1, <1>4, <2>1
  <2>. QED
    BY <1>2, <1>3, <1>4, <1>5, <1>6, <2>2
<1>7. CASE ~(triggered /\ k = Len(speeches))
  <2>1. speeches[k].end # Unset
    BY <1>2, <1>7 DEF Inductive, OpenEnd
  <2>. QED
    BY <1>1, <1>3, <1>4, <1>5, <1>7, <2>1
<1>. QED
  BY <1>6, <1>7
\* What rounding does to the verdict on a segment, once the clip is at its end.
LEMMA VerdictKept ==
  ASSUME NEW n \in Nat, FloatsSuffice(n), Inductive, InvGrid(n)
  PROVE  RoundingHarmless
<1>. SUFFICES ASSUME phase = "vad", i = Len(outputs_prob), NEW k \in 1..Len(Closed)
              PROVE  \/ FloatLongEnough(Closed[k]) <=> LongEnough(Closed[k])
                     \/ /\ triggered /\ k = Len(Closed)
                        /\ Magnitude(Closed[k].end - Closed[k].start - min_speech_samples
                                       - 2 * speech_pad_samples)
                             <= Spacing[total_sample_size]
  BY Zenon DEF RoundingHarmless
<1>. DEFINE speech == Closed[k]
            p == speech_pad_samples
            total == total_sample_size
            reach == Exact * TwoTo[n]
<1>1. /\ p \in Nat /\ min_speech_samples \in Nat /\ total \in Nat
      /\ p \in Grid(n) /\ 2 * p <= Exact /\ min_speech_samples <= Exact /\ total <= reach
  BY EngineAssumption DEF Inductive, TypeOK, FloatsSuffice, InvGrid
<1>2. /\ speech.start \in Grid(n) /\ speech.start \in Nat
      /\ speech.start = 0 \/ speech.start + p <= total
      /\ \/ triggered /\ k = Len(Closed) /\ speech.end = total
         \/ /\ speech.end \in Grid(n) /\ speech.end \in Nat
            /\ speech.start < speech.end /\ speech.end <= total
  BY BoundsWithin
<1>3. PICK t \in Nat \ {0} : t = TwoTo[n]
  BY TwoToDefined
<1>4. PICK h \in Nat \ {0} : h = TwoTo[FloatBits - 1] /\ Exact = 2 * h
  BY ExactEven
<1>5. PICK b \in Nat : b = Exact * t /\ b = reach /\ Exact <= b
  <2>1. Exact * 1 <= Exact * t
    BY <1>4
  <2>. QED
    BY <1>3, <1>4, <2>1
<1>6. PICK st \in Nat : st = speech.start
  BY <1>2
<1>. HIDE DEF speech, p, total, reach
<1>7. PICK m \in Nat : m = min_speech_samples
  BY <1>1
<1>8. PICK x \in Nat : x = Exact
  BY <1>4
<1>9. /\ p \in Nat /\ total \in Nat /\ 2 * p <= x /\ m <= x /\ total <= b
      /\ x = 2 * h /\ b = x * t /\ x <= b
      /\ st = 0 \/ st + p <= total
  BY <1>1, <1>2, <1>4, <1>5, <1>6, <1>7, <1>8
<1>10. ASSUME NEW end \in Nat, end = speech.end
       PROVE  LongEnough(speech) <=> end - st - 2 * p >= m
  <2>1. LongEnough(speech) <=> ~((end - p) - (st + p) < m)
    BY <1>6, <1>7, <1>10 DEF LongEnough, p
  <2>. QED
    BY <1>9, <2>1
<1>11. ASSUME NEW end \in Nat, end = speech.end, end \in Grid(n), end <= total,
              st + 2 * p <= end + b
       PROVE  FloatLongEnough(speech) <=> LongEnough(speech)
  <2>1. Rounded(end) = end
    <3>1. Magnitude(end) <= Exact * TwoTo[n]
      BY <1>3, <1>5, <1>9, <1>11 DEF Magnitude
    <3>. QED
      BY <1>11, <3>1, GridExact
  <2>2. st + p <= b /\ end <= b
    BY <1>9, <1>11
  <2>3. /\ p = speech_pad_samples /\ b = Exact * TwoTo[n] /\ 2 * p <= Exact /\ m <= Exact
        /\ st \in Grid(n) /\ p \in Grid(n) /\ end = Rounded(speech.end)
        /\ end \in Grid(n) /\ st + 2 * p <= end + b
        /\ p \in Nat /\ m = min_speech_samples /\ st = speech.start
    BY <1>9, <1>1, <1>2, <1>5, <1>6, <1>7, <1>11, <2>1 DEF p, reach
  <2>4. FloatLongEnough(speech) <=> end - st - 2 * p >= m
    BY <2>2, <2>3, TestRounded, SMTT(90)
  <2>. QED
    BY <1>10, <1>11, <2>4
<1>12. CASE triggered /\ k = Len(Closed) /\ speech.end = total
  <2>1. PICK d \in Nat : Spacing[total] = TwoTo[d] /\ total < Exact * TwoTo[d]
    BY <1>9, SpacingPower
  <2>2. PICK s \in Nat \ {0} : s = TwoTo[d]
    BY TwoToDefined
  <2>3. CASE d \in 0..n
    <3>1. PICK c \in Nat : c = Exact * s /\ x <= c /\ p + s <= c /\ total < c
      <4>1. PICK u \in Nat : u = h * s /\ u >= h /\ u >= s
        <5>1. h * s >= h * 1 /\ h * s >= 1 * s
          OBVIOUS
        <5>. QED
          BY <5>1
      <4>2. 2 * u = Exact * s
        BY <1>4, <4>1
      <4>3. total < 2 * u
        BY <2>1, <2>2, <4>2
      <4>4. x <= 2 * u /\ p + s <= 2 * u /\ 2 * u \in Nat
        BY <1>9, <4>1
      <4>. QED
        BY <4>2, <4>3, <4>4
    <3>2. PICK r \in Nat : r = Rounded(total)
      BY <1>9, RoundedNear
    <3>3. r \in Grid(d) /\ Magnitude(r - total) <= s
      BY <1>9, <2>1, <2>2, <3>2, RoundedGrid
    <3>4. total - s <= r /\ r <= total + s
      BY <1>9, <3>3 DEF Magnitude
    <3>5. r <= c
      <4>1. r < (Exact + 1) * s
        <5>1. (Exact + 1) * s = c + s
          BY <1>4, <3>1
        <5>. QED
          BY <1>9, <3>1, <3>4, <5>1
      <4>. QED
        BY <1>4, <2>2, <3>1, <3>3, <4>1, GridBelow, SMTT(30)
    <3>6. st \in Grid(d) /\ p \in Grid(d)
      BY <1>1, <1>2, <1>6, <2>3, GridFiner
    <3>7. st + p <= c /\ st + 2 * p <= r + c
      BY <1>9, <3>1, <3>4
    <3>8. FloatLongEnough(speech) <=> r - st - 2 * p >= m
      <4>1. /\ p = speech_pad_samples /\ c = Exact * TwoTo[d] /\ 2 * p <= Exact /\ m <= Exact
            /\ r = Rounded(speech.end)
        BY <1>1, <1>7, <1>12, <2>2, <3>1, <3>2 DEF p
      <4>. QED
        BY <1>6, <1>7, <1>9, <3>3, <3>5, <3>6, <3>7, <4>1, TestRounded
    <3>9. LongEnough(speech) <=> total - st - 2 * p >= m
      BY <1>9, <1>10, <1>12
    <3>10. CASE FloatLongEnough(speech) <=> LongEnough(speech)
      BY <3>10 DEF speech
    <3>11. CASE ~(FloatLongEnough(speech) <=> LongEnough(speech))
      <4>1. ~(r - st - 2 * p >= m <=> total - st - 2 * p >= m)
        BY <3>8, <3>9, <3>11
      <4>2. Magnitude(total - st - m - 2 * p) <= s
        BY <1>9, <3>4, <4>1 DEF Magnitude
      <4>. QED
        BY <1>6, <1>7, <1>12, <2>1, <2>2, <4>2 DEF speech, total, p
    <3>. QED
      BY <3>10, <3>11
  <2>4. CASE n + 1 <= d
    <3>1. 2 * t <= s
      <4>1. TwoTo[n + 1] = 2 * t /\ n + 1 \in Nat /\ n + 1 \in 0..d
        BY <1>3, <2>4, TwoToDefined
      <4>. QED
        BY <2>2, <4>1, GridFiner
    <3>2. h * s <= total
      <4>1. s # 1
        BY <3>1
      <4>2. total >= Exact
        <5>1. total \in Nat /\ Spacing[total] # 1
          BY <1>9, <2>1, <2>2, <4>1
        <5>2. ~(total < Exact)
          BY <5>1, SpacingBounds
        <5>. QED
          BY <1>4, <5>1, <5>2
      <4>3. TwoTo[FloatBits - 1] * Spacing[total] <= total
        BY <1>9, <4>2, SpacingBounds
      <4>. QED
        BY <1>4, <2>1, <2>2, <4>3
    <3>3. h * (2 * t) <= h * s
      BY <3>1
    <3>4. b = h * (2 * t)
      BY <1>9
    <3>5. total = b
      <4>1. PICK u \in Nat : u = h * s
        OBVIOUS
      <4>. QED
        BY <1>9, <3>2, <3>3, <3>4, <4>1
    <3>6. total \in Grid(n)
      <4>1. b = t * x /\ x \in Int
        BY <1>9
      <4>. QED
        BY <1>3, <3>5, <4>1 DEF Grid
    <3>7. total <= total /\ st + 2 * p <= total + b
      BY <1>9
    <3>8. FloatLongEnough(speech) <=> LongEnough(speech)
      BY <1>9, <1>11, <1>12, <3>6, <3>7
    <3>. QED
      BY <3>8 DEF speech
  <2>. QED
    BY <2>3, <2>4
<1>13. CASE /\ speech.end \in Grid(n) /\ speech.end \in Nat
            /\ speech.start < speech.end /\ speech.end <= total
  <2>1. PICK end \in Nat : end = speech.end /\ end \in Grid(n) /\ st < end /\ end <= total
    BY <1>6, <1>13
  <2>2. st + 2 * p <= end + b
    BY <1>9, <2>1
  <2>3. FloatLongEnough(speech) <=> LongEnough(speech)
    BY <1>11, <2>1, <2>2
  <2>. QED
    BY <2>3 DEF speech
<1>. QED
  BY <1>2, <1>12, <1>13

\* silero.cc:199-204: the bounds of a segment are floats, and the verdict on it is
\* the one of exact arithmetic, except for the segment that the end of the clip
\* closes when its length is within a rounding of the limit.
THEOREM FloatsHarmless ==
  ASSUME NEW n \in Nat, FloatsSuffice(n)
  PROVE  Spec => []RoundingHarmless
<1>1. Init => InvGrid(n)
  BY GridInit
<1>2. Inductive /\ InvGrid(n) /\ [Next]_vars => InvGrid(n)'
  BY GridStep
<1>3. Inductive /\ InvGrid(n) => RoundingHarmless
  BY VerdictKept
<1>. QED
  BY <1>1, <1>2, <1>3, AlwaysInductive, PTL DEF Spec
=============================================================================
