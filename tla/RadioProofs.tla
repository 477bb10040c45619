---------------------------- MODULE RadioProofs ----------------------------
(***************************************************************************)
(* Proofs about Radio, for every capacity of the pipe and of the buffer,   *)
(* every width of an int, every hold time and every length of the capture. *)
(*                                                                         *)
(* Inductive is the invariant all of them come from. It adds to the        *)
(* invariants themselves what the code relies on without saying it: when   *)
(* each of the two processes holds which end of the pipe, that nobody but  *)
(* rcs holds the dongle before the fork, and how full the buffer may be at *)
(* the head of the loop.                                                   *)
(***************************************************************************)
EXTENDS Radio, SequenceTheorems, TLAPS

BeforeFork    == ppc \in {"check", "announce", "spawn"}
BeforeCapture == BeforeFork \/ ppc = "forked"
ChildAlive    == cpc \in {"forked", "setup", "rtl_fm", "streaming"}

\* The child exists from the fork on, and holds the write end while it lives.
InvProcess ==
  /\ BeforeFork => cpc = "none"
  /\ ppc \in {"forked", "loop", "read", "vad", "kill", "close"} => cpc # "none"
  /\ cpc = "none" => childFate = "none" /\ pipe = <<>> /\ written = 0
  /\ cpc \in {"forked", "setup", "rtl_fm"} => written = 0
  /\ ChildAlive => childFate = "none" /\ "child" \in writers

\* Who can have the dongle open, and when.
InvDevice ==
  /\ device = "rcs" => ppc = "announce"
  /\ device = "child" => cpc = "streaming"

\* Nothing is captured before the loop, and there the buffer is never more
\* than full.
InvBuffer ==
  /\ BeforeCapture => radio_data = <<>>
  /\ ppc = "loop" => dataCap > 0 /\ data_len <= dataCap

\* The sample that is late is the last one.
InvLate ==
  /\ BeforeCapture => late = 0
  /\ ppc = "loop" => late = 0 \/ elapsed >= timeout
  /\ ppc = "read" => late = 0

Inductive ==
  /\ TypeOK
  /\ InvProcess
  /\ InvDevice
  /\ InvBuffer
  /\ InvLate
  /\ BufferSafe
  /\ OverflowOnlyWhenHuge
  /\ AtMostOneLate
  /\ HandOver
  /\ FullHoldTime

-----------------------------------------------------------------------------
(* Type correctness *)

\* The exit codes are exit codes.
LEMMA CodesAreExitCodes ==
  {EXIT_SUCCESS, PIPE_FAILED, NO_RADIO_DEVICE_FOUND, RTL_FM_FAILED, SIGABRT_STATUS,
   SIGSEGV_STATUS} \subseteq ExitCodes
BY DEF ExitCodes

\* The program starts in a state of the right types.
LEMMA TypeInit == Init => TypeOK
<1>1. <<>> \in Seq(Samples) /\ <<>> \in Seq(Nat)
  BY EmptySeq
<1>. QED
  BY <1>1 DEF Init, TypeOK, ExitCodes

\* A sample of the pipe, whole or half, is a sample in memory.
LEMMA ReadSampleTypes ==
  ASSUME TypeOK, ReadSample
  PROVE  radio_data' \in Seq(Samples) /\ pipe' \in Seq(Nat) /\ late' \in Nat
<1>1. pipe \in Seq(Nat) /\ radio_data \in Seq(Samples) /\ pipe # <<>>
  BY DEF TypeOK, ReadSample
<1>2. Len(pipe) \in Nat \ {0}
  BY <1>1, EmptySeq
<1>3. PICK n \in {1, 2} :
        /\ n <= Len(pipe)
        /\ n = IF Len(pipe) >= 2 THEN 2 ELSE 1
  BY <1>2
<1>4. (IF n = 2 THEN <<pipe[1], pipe[2]>> ELSE <<pipe[1], Unset>>) \in Samples
  BY <1>1, <1>2, <1>3, ElementOfSeq DEF Samples
<1>5. radio_data' \in Seq(Samples)
  BY <1>1, <1>3, <1>4, AppendProperties DEF ReadSample
<1>6. SubSeq(pipe, n + 1, Len(pipe)) \in Seq(Nat)
  <2>1. \A i \in n + 1 .. Len(pipe) : pipe[i] \in Nat
    BY <1>1, <1>2, <1>3, ElementOfSeq
  <2>. QED
    BY <1>2, <1>3, <2>1, SubSeqProperties
<1>. QED
  BY <1>3, <1>5, <1>6 DEF ReadSample, TypeOK

\* Every step keeps the types.
LEMMA TypeStep == TypeOK /\ [Next]_vars => TypeOK'
<1>. SUFFICES ASSUME TypeOK, [Next]_vars PROVE TypeOK'
  OBVIOUS
<1>. USE CodesAreExitCodes
<1>1. CASE DeviceOpen
  BY <1>1, ZenonT(30) DEF DeviceOpen, TypeOK, Exit, childVars, NO_RADIO_DEVICE_FOUND
<1>2. CASE DeviceAnnounceAndClose
  <2>1. \A n \in {0} \cup BannerSizes : n \in Nat
    BY BannerAssumption
  <2>2. stdoutBuf' \in Nat
    <3>1. stdoutBuf \in Nat
      BY DEF TypeOK
    <3>2. stdoutBuf' \in {0} \cup BannerSizes \/ stdoutBuf' = stdoutBuf
      BY <1>2 DEF DeviceAnnounceAndClose
    <3>. QED
      BY <2>1, <3>1, <3>2
  <2>3. exitCode' \in ExitCodes \cup {Running} /\ ppc' \in {"spawn", "exited"}
    BY <1>2 DEF DeviceAnnounceAndClose, TypeOK, Exit
  <2>. QED
    BY <1>2, <2>2, <2>3 DEF DeviceAnnounceAndClose, TypeOK, Exit, childVars
<1>3. CASE Spawn
  BY <1>3, ZenonT(30) DEF Spawn, TypeOK, Exit
<1>4. CASE StartCapture
  BY <1>4, CapAssumption DEF StartCapture, TypeOK, childVars
<1>5. CASE TimeUp
  BY <1>5 DEF TimeUp, TypeOK, childVars, pipeVars
<1>6. CASE PrepareRead
  <2>1. dataCap \in Nat /\ Doubled \subseteq {2 * dataCap, 0}
    BY DEF TypeOK, Doubled
  <2>2. dataCap' \in {2 * dataCap, 0, dataCap}
    BY <1>6, <2>1 DEF PrepareRead
  <2>3. dataCap' \in Nat
    BY <2>1, <2>2
  <2>. QED
    BY <1>6, <2>3 DEF PrepareRead, TypeOK, childVars, pipeVars
<1>7. CASE ReadSample
  BY <1>7, ReadSampleTypes DEF ReadSample, TypeOK, childVars
<1>8. CASE ReadFails
  BY <1>8 DEF ReadFails, TypeOK, childVars, pipeVars
<1>9. CASE VadThrows
  BY <1>9 DEF VadThrows, TypeOK, Exit, childVars
<1>10. CASE DetectVoice
  BY <1>10, ZenonT(30) DEF DetectVoice, TypeOK, Exit, childVars
<1>11. CASE KillChild
  BY <1>11 DEF KillChild, TypeOK, pipeVars
<1>12. CASE CloseAndReturn
  BY <1>12 DEF CloseAndReturn, TypeOK, Exit, childVars
<1>13. CASE ChildSetup
  BY <1>13 DEF ChildSetup, TypeOK, rcsVars
<1>14. CASE ExecRtlFm
  BY <1>14 DEF ExecRtlFm, TypeOK, rcsVars, pipeVars
<1>15. CASE ExecFails
  <2>1. [i \in 1..stdoutBuf |-> TextByte] \in Seq(Nat)
    BY DEF TypeOK, TextByte
  <2>2. pipe' \in Seq(Nat)
    BY <1>15, <2>1, ConcatProperties DEF ExecFails, TypeOK
  <2>. QED
    BY <1>15, <2>2 DEF ExecFails, TypeOK, ChildEnds, rcsVars
<1>16. CASE RtlFmOpensDevice
  BY <1>16, ZenonT(30) DEF RtlFmOpensDevice, TypeOK, ChildEnds, rcsVars
<1>17. CASE RtlFmWrites
  <2>1. Sample(written + 1) \in Seq(Nat)
    BY DEF Sample, TypeOK
  <2>2. pipe' \in Seq(Nat)
    BY <1>17, <2>1, ConcatProperties DEF RtlFmWrites, TypeOK
  <2>. QED
    BY <1>17, <2>2 DEF RtlFmWrites, TypeOK, rcsVars
<1>18. CASE RtlFmBrokenPipe
  BY <1>18 DEF RtlFmBrokenPipe, TypeOK, ChildEnds, rcsVars
<1>19. CASE RtlFmGivesUp
  BY <1>19 DEF RtlFmGivesUp, TypeOK, ChildEnds, rcsVars
<1>20. CASE ChildTerminated
  BY <1>20 DEF ChildTerminated, TypeOK, ChildEnds, rcsVars
<1>21. CASE Tick
  BY <1>21 DEF Tick, TypeOK, childVars, pipeVars
<1>22. CASE UNCHANGED vars
  BY <1>22 DEF TypeOK, vars, rcsVars, childVars, pipeVars
<1>. QED
  BY <1>1, <1>2, <1>3, <1>4, <1>5, <1>6, <1>7, <1>8, <1>9, <1>10, <1>11, <1>12, <1>13,
     <1>14, <1>15, <1>16, <1>17, <1>18, <1>19, <1>20, <1>21, <1>22
  DEF Next, RcsNext, ChildNext, Finished

\* The variables keep their types in every run, whatever the constants.
THEOREM TypeCorrect == Spec => []TypeOK
BY TypeInit, TypeStep, PTL DEF Spec
-----------------------------------------------------------------------------
(* The invariants *)

\* The program starts in a state that satisfies the invariant.
LEMMA InductiveInit == Init => Inductive
BY TypeInit, EmptySeq
DEF Init, Inductive, InvProcess, InvDevice, InvBuffer, InvLate, BufferSafe,
    OverflowOnlyWhenHuge, AtMostOneLate, HandOver, FullHoldTime, BeforeFork,
    BeforeCapture, ChildAlive, data_len

\* Every step keeps it.
LEMMA InductiveStep == Inductive /\ [Next]_vars => Inductive'
<1>. SUFFICES ASSUME Inductive, [Next]_vars PROVE Inductive'
  OBVIOUS
<1>. TypeOK /\ TypeOK'
  BY TypeStep DEF Inductive
<1>. USE DEF Inductive, InvProcess, InvDevice, InvBuffer, InvLate, BufferSafe,
             OverflowOnlyWhenHuge, AtMostOneLate, HandOver, FullHoldTime, BeforeFork,
             BeforeCapture, ChildAlive, data_len
<1>1. CASE DeviceOpen
  BY <1>1 DEF DeviceOpen, Exit, childVars, NO_RADIO_DEVICE_FOUND, TypeOK
<1>2. CASE DeviceAnnounceAndClose
  BY <1>2 DEF DeviceAnnounceAndClose, Exit, childVars, TypeOK
<1>3. CASE Spawn
  BY <1>3 DEF Spawn, Exit, TypeOK
<1>4. CASE StartCapture
  BY <1>4, CapAssumption, EmptySeq DEF StartCapture, childVars, TypeOK
<1>5. CASE TimeUp
  BY <1>5 DEF TimeUp, childVars, pipeVars, TypeOK
<1>6. CASE PrepareRead
  <2>1. Len(radio_data) \in Nat /\ elapsed \in Int /\ timeout \in Int
    BY TimeAssumption, LenProperties DEF TypeOK
  <2>. QED
    BY <1>6, <2>1, MemoryAssumption
    DEF PrepareRead, childVars, pipeVars, NeedsResize, Doubled, TypeOK
<1>7. CASE ReadSample
  BY <1>7 DEF ReadSample, childVars, TypeOK
<1>8. CASE ReadFails
  BY <1>8 DEF ReadFails, childVars, pipeVars, TypeOK
<1>9. CASE VadThrows
  BY <1>9 DEF VadThrows, Exit, childVars, TypeOK
<1>10. CASE DetectVoice
  BY <1>10 DEF DetectVoice, Exit, childVars, TypeOK
<1>11. CASE KillChild
  BY <1>11 DEF KillChild, pipeVars, TypeOK
<1>12. CASE CloseAndReturn
  BY <1>12 DEF CloseAndReturn, Exit, childVars, TypeOK
<1>13. CASE ChildSetup
  BY <1>13 DEF ChildSetup, rcsVars, TypeOK
<1>14. CASE ExecRtlFm
  BY <1>14 DEF ExecRtlFm, rcsVars, pipeVars, TypeOK
<1>15. CASE ExecFails
  BY <1>15 DEF ExecFails, rcsVars, ChildEnds, TypeOK
<1>16. CASE RtlFmOpensDevice
  BY <1>16 DEF RtlFmOpensDevice, rcsVars, ChildEnds, TypeOK
<1>17. CASE RtlFmWrites
  BY <1>17 DEF RtlFmWrites, rcsVars, TypeOK
<1>18. CASE RtlFmBrokenPipe
  BY <1>18 DEF RtlFmBrokenPipe, rcsVars, ChildEnds, TypeOK
<1>19. CASE RtlFmGivesUp
  BY <1>19 DEF RtlFmGivesUp, rcsVars, ChildEnds, TypeOK
<1>20. CASE ChildTerminated
  BY <1>20 DEF ChildTerminated, rcsVars, ChildEnds, TypeOK
<1>21. CASE Tick
  BY <1>21, TimeAssumption DEF Tick, childVars, pipeVars, TypeOK
<1>22. CASE UNCHANGED vars
  BY <1>22 DEF vars, rcsVars, childVars, pipeVars, TypeOK
<1>. QED
  BY <1>1, <1>2, <1>3, <1>4, <1>5, <1>6, <1>7, <1>8, <1>9, <1>10, <1>11, <1>12, <1>13, <1>14, <1>15, <1>16, <1>17, <1>18, <1>19, <1>20, <1>21, <1>22
  DEF Next, RcsNext, ChildNext, Finished

\* What holds of the program at every moment of every run.
LEMMA AlwaysInductive == Spec => []Inductive
BY InductiveInit, InductiveStep, PTL DEF Spec

\* radio.c:79-90: the resize in front of a read always leaves room for the sample
\* the read is about to store, however long the capture is.
THEOREM BufferIsSafe == Spec => []BufferSafe
<1>. Inductive => BufferSafe
  BY DEF Inductive
<1>. QED
  BY AlwaysInductive, PTL

\* radio.c:79-82: a clip is lost only in a capture that already holds about half as
\* many samples as there is memory for; with memory enough, as an int can count.
THEOREM OverflowIsRare == Spec => []OverflowOnlyWhenHuge
<1>. Inductive => OverflowOnlyWhenHuge
  BY DEF Inductive
<1>. QED
  BY AlwaysInductive, PTL

\* radio.c:76-90: although a read may block long past the hold time that was
\* checked before it, no more than one sample is stored behind the hold time.
THEOREM OneLateSample == Spec => []AtMostOneLate
<1>. Inductive => AtMostOneLate
  BY DEF Inductive
<1>. QED
  BY AlwaysInductive, PTL

\* radio.c:39-59, 132-146: rcs has always let go of the dongle before rtl_fm
\* wants it.
THEOREM DongleHandedOver == Spec => []HandOver
<1>. Inductive => HandOver
  BY DEF Inductive
<1>. QED
  BY AlwaysInductive, PTL

\* radio.c:76-96: only the death of the child and the loss of the buffer end a
\* capture before its time.
THEOREM CaptureLasts == Spec => []FullHoldTime
<1>. Inductive => FullHoldTime
  BY DEF Inductive
<1>. QED
  BY AlwaysInductive, PTL

-----------------------------------------------------------------------------
(* The order of the samples *)

\* The bytes of the samples behind the d-th, up to the w-th.
Bytes(d, w) == [k \in 1..2 * (w - d) |-> 2 * d + k]

\* No more samples are stored than were written; this makes the order of what is
\* stored inductive.
InvClip == /\ ClipInOrder
           /\ childFate # "exec_failed" => data_len <= written

\* Bytes(d, w) as a sequence.
LEMMA BytesProperties ==
  ASSUME NEW d \in Nat, NEW w \in Nat, NEW n \in Nat, n = 2 * (w - d)
  PROVE  /\ Bytes(d, w) \in Seq(Nat)
         /\ Len(Bytes(d, w)) = n
         /\ \A k \in 1..n : Bytes(d, w)[k] = 2 * d + k
<1>1. \A k \in 1..n : 2 * d + k \in Nat
  OBVIOUS
<1>. QED
  BY <1>1 DEF Bytes

\* One more sample written is two more bytes at the end.
LEMMA BytesWritten ==
  ASSUME NEW d \in Nat, NEW w \in Nat, d <= w
  PROVE  Bytes(d, w) \o Sample(w + 1) = Bytes(d, w + 1)
<1>1. PICK n \in Nat : n = 2 * (w - d)
  OBVIOUS
<1>2. PICK t : t = Sample(w + 1)
  OBVIOUS
<1>3. /\ t \in Seq(Nat)
      /\ Len(t) = 2
      /\ t[1] = 2 * d + n + 1
      /\ t[2] = 2 * d + n + 2
  BY <1>1, <1>2 DEF Sample
<1>4. PICK s : s = Bytes(d, w)
  OBVIOUS
<1>5. s \in Seq(Nat) /\ Len(s) = n /\ \A k \in 1..n : s[k] = 2 * d + k
  BY <1>1, <1>4, BytesProperties, ZenonT(30)
<1>6. PICK r : r = Bytes(d, w + 1)
  OBVIOUS
<1>7. r \in Seq(Nat) /\ Len(r) = n + 2 /\ \A k \in 1..n + 2 : r[k] = 2 * d + k
  <2>1. PICK v \in Nat : v = w + 1
    OBVIOUS
  <2>2. PICK m \in Nat : m = n + 2
    OBVIOUS
  <2>3. m = 2 * (v - d)
    BY <1>1, <2>1, <2>2
  <2>4. r = Bytes(d, v)
    BY <1>6, <2>1
  <2>5. /\ Bytes(d, v) \in Seq(Nat)
        /\ Len(Bytes(d, v)) = m
        /\ \A k \in 1..m : Bytes(d, v)[k] = 2 * d + k
    BY <2>3, BytesProperties
  <2>. QED
    BY <2>2, <2>4, <2>5
<1>8. /\ s \o t \in Seq(Nat)
      /\ Len(s \o t) = n + 2
      /\ \A k \in 1..n + 2 : (s \o t)[k] = IF k <= n THEN s[k] ELSE t[k - n]
  <2>1. /\ s \o t \in Seq(Nat)
        /\ Len(s \o t) = Len(s) + Len(t)
        /\ \A k \in 1..Len(s) + Len(t) :
             (s \o t)[k] = IF k <= Len(s) THEN s[k] ELSE t[k - Len(s)]
    BY <1>3, <1>5, ConcatProperties
  <2>. QED
    BY <2>1, <1>3, <1>5
<1>9. ASSUME NEW k \in 1..n + 2
      PROVE  (s \o t)[k] = r[k]
  <2>1. CASE k \in 1..n
    BY <2>1, <1>5, <1>7, <1>8
  <2>2. CASE k = n + 1
    <3>1. (s \o t)[k] = t[1]
      BY <2>2, <1>8
    <3>. QED
      BY <2>2, <3>1, <1>3, <1>7
  <2>3. CASE k = n + 2
    <3>1. (s \o t)[k] = t[2]
      BY <2>3, <1>8
    <3>. QED
      BY <2>3, <3>1, <1>3, <1>7
  <2>4. k \in 1..n \/ k = n + 1 \/ k = n + 2
    OBVIOUS
  <2>. QED
    BY <2>1, <2>2, <2>3, <2>4
<1>. QED
  BY <1>2, <1>4, <1>6, <1>7, <1>8, <1>9, SeqEqual

\* One sample read is two bytes less at the front.
LEMMA BytesRead ==
  ASSUME NEW d \in Nat, NEW w \in Nat, d < w
  PROVE  /\ <<Bytes(d, w)[1], Bytes(d, w)[2]>> = Sample(d + 1)
         /\ SubSeq(Bytes(d, w), 3, Len(Bytes(d, w))) = Bytes(d + 1, w)
<1>1. PICK n \in Nat : n >= 2 /\ n = 2 * (w - d)
  OBVIOUS
<1>2. PICK s : s = Bytes(d, w)
  OBVIOUS
<1>3. s \in Seq(Nat) /\ Len(s) = n /\ \A k \in 1..n : s[k] = 2 * d + k
  BY <1>1, <1>2, BytesProperties, ZenonT(30)
<1>4. PICK r : r = Bytes(d + 1, w)
  OBVIOUS
<1>5. r \in Seq(Nat) /\ Len(r) = n - 2 /\ \A k \in 1..n - 2 : r[k] = 2 * d + 2 + k
  <2>1. PICK e \in Nat : e = d + 1
    OBVIOUS
  <2>2. PICK m \in Nat : m = n - 2
    BY <1>1
  <2>3. m = 2 * (w - e)
    BY <1>1, <2>1, <2>2
  <2>4. r = Bytes(e, w)
    BY <1>4, <2>1
  <2>5. /\ Bytes(e, w) \in Seq(Nat)
        /\ Len(Bytes(e, w)) = m
        /\ \A k \in 1..m : Bytes(e, w)[k] = 2 * e + k
    BY <2>3, BytesProperties
  <2>. QED
    BY <2>1, <2>2, <2>4, <2>5
<1>6. /\ SubSeq(s, 3, n) \in Seq(Nat)
      /\ Len(SubSeq(s, 3, n)) = n - 2
      /\ \A k \in 1..n - 2 : SubSeq(s, 3, n)[k] = s[k + 2]
  <2>1. \A k \in 3..n : s[k] \in Nat
    BY <1>3
  <2>. QED
    BY <1>1, <2>1, SubSeqProperties
<1>7. \A k \in 1..n - 2 : SubSeq(s, 3, n)[k] = r[k]
  BY <1>3, <1>5, <1>6
<1>8. SubSeq(s, 3, n) = r
  BY <1>5, <1>6, <1>7, SeqEqual
<1>9. <<s[1], s[2]>> = Sample(d + 1)
  BY <1>1, <1>3 DEF Sample
<1>. QED
  BY <1>2, <1>3, <1>4, <1>8, <1>9

\* The order of the samples holds at the start.
LEMMA ClipInit == Init => InvClip
<1>. SUFFICES ASSUME Init PROVE InvClip
  OBVIOUS
<1>1. radio_data = <<>> /\ pipe = <<>> /\ written = 0
  BY DEF Init
<1>2. data_len = 0
  BY <1>1, EmptySeq DEF data_len
<1>3. Bytes(0, 0) = <<>>
  BY BytesProperties, EmptySeq
<1>. QED
  BY <1>1, <1>2, <1>3 DEF InvClip, ClipInOrder, Bytes

\* A write keeps it.
LEMMA ClipWrite ==
  ASSUME Inductive, InvClip, RtlFmWrites
  PROVE  InvClip'
<1>1. childFate # "exec_failed" /\ data_len \in Nat /\ written \in Nat
  BY LenProperties DEF Inductive, TypeOK, InvProcess, ChildAlive, RtlFmWrites, data_len
<1>2. pipe = Bytes(data_len, written) /\ data_len <= written
  BY <1>1 DEF InvClip, ClipInOrder, Bytes
<1>3. pipe' = Bytes(data_len, written + 1)
  BY <1>1, <1>2, BytesWritten DEF RtlFmWrites
<1>4. written' = written + 1 /\ radio_data' = radio_data /\ childFate' = childFate
  BY DEF RtlFmWrites, rcsVars
<1>. QED
  BY <1>1, <1>2, <1>3, <1>4 DEF InvClip, ClipInOrder, Bytes, data_len

\* A read keeps it: with a child that started, the pipe never holds half a sample.
LEMMA ClipRead ==
  ASSUME Inductive, InvClip, ReadSample, childFate # "exec_failed"
  PROVE  InvClip'
<1>1. PICK d \in Nat : d = Len(radio_data)
  BY LenProperties DEF Inductive, TypeOK
<1>2. PICK w \in Nat : w = written
  BY DEF Inductive, TypeOK
<1>3. pipe = Bytes(d, w) /\ d <= w
  BY <1>1, <1>2 DEF InvClip, ClipInOrder, Bytes, data_len
<1>4. d < w /\ Len(pipe) >= 2
  <2>1. PICK n \in Nat : n = 2 * (w - d)
    BY <1>3
  <2>2. Len(pipe) = n
    BY <1>3, <2>1, BytesProperties
  <2>3. n # 0
    BY <2>2, EmptySeq DEF ReadSample, Inductive, TypeOK
  <2>. QED
    BY <1>3, <2>1, <2>2, <2>3
<1>5. /\ radio_data' = Append(radio_data, Sample(d + 1))
      /\ pipe' = Bytes(d + 1, w)
  <2>1. /\ radio_data' = Append(radio_data, <<pipe[1], pipe[2]>>)
        /\ pipe' = SubSeq(pipe, 3, Len(pipe))
    BY <1>4 DEF ReadSample
  <2>. QED
    BY <1>3, <1>4, <2>1, BytesRead
<1>6. /\ Len(radio_data') = d + 1
      /\ \A i \in 1..d : radio_data'[i] = radio_data[i]
      /\ radio_data'[d + 1] = Sample(d + 1)
  <2>1. Sample(d + 1) \in Samples
    BY DEF Sample, Samples
  <2>. QED
    BY <1>1, <1>5, <2>1, AppendProperties DEF Inductive, TypeOK
<1>7. \A i \in 1..d + 1 : radio_data'[i] = Sample(i)
  <2>1. \A i \in 1..d : radio_data[i] = Sample(i)
    BY <1>1 DEF InvClip, ClipInOrder, data_len
  <2>. QED
    BY <1>6, <2>1
<1>8. written' = w /\ childFate' = childFate
  BY <1>2 DEF ReadSample, childVars
<1>9. data_len' = d + 1
  BY <1>6 DEF data_len
<1>10. ClipInOrder'
  BY <1>5, <1>7, <1>8, <1>9 DEF ClipInOrder, Bytes
<1>. QED
  BY <1>4, <1>8, <1>9, <1>10 DEF InvClip

\* Every step keeps it.
LEMMA ClipStep == Inductive /\ InvClip /\ [Next]_vars => InvClip'
<1>. SUFFICES ASSUME Inductive, InvClip, [Next]_vars PROVE InvClip'
  OBVIOUS
<1>1. CASE RtlFmWrites
  BY <1>1, ClipWrite
<1>2. CASE ReadSample /\ childFate # "exec_failed"
  BY <1>2, ClipRead
<1>3. CASE ReadSample /\ childFate = "exec_failed"
  BY <1>3 DEF ReadSample, childVars, InvClip, ClipInOrder
<1>4. CASE ExecFails
  BY <1>4 DEF ExecFails, ChildEnds, InvClip, ClipInOrder
<1>5. ASSUME UNCHANGED <<radio_data, pipe, written>>,
             childFate' = "exec_failed" <=> childFate = "exec_failed"
      PROVE  InvClip'
  BY <1>5 DEF InvClip, ClipInOrder, data_len
<1>6. CASE DeviceOpen \/ DeviceAnnounceAndClose \/ Spawn \/ StartCapture \/ TimeUp
           \/ PrepareRead \/ ReadFails
  BY <1>5, <1>6 DEF DeviceOpen, DeviceAnnounceAndClose, Spawn, StartCapture, TimeUp,
     PrepareRead, ReadFails, childVars, pipeVars
<1>7. CASE VadThrows \/ DetectVoice \/ KillChild \/ CloseAndReturn \/ Tick
  BY <1>5, <1>7 DEF VadThrows, DetectVoice, KillChild, CloseAndReturn, Tick, childVars,
     pipeVars
<1>8. CASE ChildSetup \/ ExecRtlFm
  BY <1>5, <1>8 DEF ChildSetup, ExecRtlFm, rcsVars, pipeVars
<1>9. CASE RtlFmOpensDevice \/ RtlFmBrokenPipe \/ RtlFmGivesUp \/ ChildTerminated
  <2>1. ChildAlive
    BY <1>9 DEF RtlFmOpensDevice, RtlFmBrokenPipe, RtlFmGivesUp, ChildTerminated, ChildAlive
  <2>2. childFate = "none"
    BY <2>1 DEF Inductive, InvProcess
  <2>3. UNCHANGED <<radio_data, pipe, written>> /\ childFate' # "exec_failed"
    BY <1>9, <2>2 DEF RtlFmOpensDevice, RtlFmBrokenPipe, RtlFmGivesUp, ChildTerminated,
       ChildEnds, rcsVars
  <2>. QED
    BY <1>5, <2>2, <2>3
<1>10. CASE UNCHANGED vars
  BY <1>5, <1>10 DEF vars, rcsVars, childVars, pipeVars
<1>. QED
  BY <1>1, <1>2, <1>3, <1>4, <1>6, <1>7, <1>8, <1>9, <1>10
  DEF Next, RcsNext, ChildNext, Finished

\* radio.c:84-95, 132-149: whatever the two processes do and whoever dies first,
\* every sample is stored whole, once and in the order rtl_fm wrote it.
THEOREM SamplesInOrder == Spec => []ClipInOrder
<1>. InvClip => ClipInOrder
  BY DEF InvClip
<1>. QED
  BY AlwaysInductive, ClipInit, ClipStep, PTL DEF Spec

-----------------------------------------------------------------------------
(* Radio implements Capture *)

\* The start of the program is the start of the promise.
LEMMA CaptureInit == Init => Scan!Init
<1>. SUFFICES ASSUME Init PROVE Scan!Init
  OBVIOUS
<1>1. Sent = <<>>
  BY DEF Init, Sent
<1>2. Stage = "waiting" /\ Heard = <<>> /\ Spoiled = FALSE /\ verdict = "none"
  BY DEF Init, Stage, Heard, Spoiled
<1>. QED
  BY <1>1, <1>2 DEF Scan!Init

\* Most steps cannot be seen from outside.
LEMMA Unseen ==
  ASSUME UNCHANGED <<Stage, written, radio_data, Spoiled, verdict>>
  PROVE  UNCHANGED Scan!vars
BY DEF Scan!vars, Sent, Heard

\* Some are seen as progress of the scan only.
LEMMA Progress ==
  ASSUME UNCHANGED <<written, radio_data, Spoiled>>
  PROVE  UNCHANGED <<Sent, Heard, Spoiled>>
BY DEF Sent, Heard

\* A write of rtl_fm sends the next sample.
LEMMA WriteSends ==
  ASSUME Inductive, InvClip, RtlFmWrites
  PROVE  Scan!Send
<1>1. ~Spoiled /\ Stage # "waiting"
  BY DEF Inductive, InvProcess, ChildAlive, BeforeFork, RtlFmWrites, Spoiled, Stage, TypeOK
<1>2. PICK d \in Nat : d = Len(radio_data)
  BY LenProperties DEF Inductive, TypeOK
<1>3. PICK w \in Nat : w = written
  BY DEF Inductive, TypeOK
<1>4. pipe = Bytes(d, w) /\ d <= w
  BY <1>1, <1>2, <1>3 DEF InvClip, ClipInOrder, Bytes, data_len, Spoiled
<1>5. PICK n \in Nat : n = 2 * (w - d)
  BY <1>4
<1>6. Len(pipe) = n
  BY <1>4, <1>5, BytesProperties
<1>7. w < d + PipeCapacity \div 2
  BY <1>5, <1>6, PipeAssumption DEF RtlFmWrites
<1>8. Heard = radio_data
  BY <1>1 DEF Heard
<1>9. Len(Sent) = w
  BY <1>3 DEF Sent
<1>10. Sent' = Append(Sent, Sample(w + 1))
  BY <1>3 DEF Sent, RtlFmWrites
<1>11. Sample(w + 1) \in {Sample(k) : k \in 1..MaxSamples}
  <2>1. w + 1 \in 1..MaxSamples
    BY <1>3, BoundAssumption DEF RtlFmWrites
  <2>. QED
    BY <2>1
<1>12. UNCHANGED <<Stage, Heard, Spoiled, verdict>>
  BY DEF RtlFmWrites, rcsVars, Stage, Heard, Spoiled
<1>. QED
  BY <1>1, <1>2, <1>7, <1>8, <1>9, <1>10, <1>11, <1>12 DEF Scan!Send

\* A read hears the next sample.
LEMMA ReadHears ==
  ASSUME Inductive, InvClip, ReadSample, ~Spoiled
  PROVE  Scan!Hear
<1>1. InvClip'
  BY ClipRead DEF Spoiled
<1>2. PICK d \in Nat : d = Len(radio_data)
  BY LenProperties DEF Inductive, TypeOK
<1>3. radio_data \in Seq(Samples) /\ radio_data' \in Seq(Samples)
  BY ReadSampleTypes DEF Inductive, TypeOK
<1>4. PICK s : radio_data' = Append(radio_data, s)
  BY DEF ReadSample
<1>5. Len(radio_data') = d + 1 /\ radio_data'[d + 1] = s
  BY <1>2, <1>3, <1>4
<1>6. UNCHANGED <<written, Spoiled, verdict, Stage>>
  BY DEF ReadSample, childVars, Spoiled, Stage
<1>7. d + 1 <= written /\ s = Sample(d + 1)
  BY <1>1, <1>5, <1>6 DEF InvClip, ClipInOrder, data_len, Spoiled
<1>8. written \in Nat
  BY DEF Inductive, TypeOK
<1>9. Len(Sent) = written /\ Sent[d + 1] = s
  BY <1>2, <1>7, <1>8 DEF Sent
<1>10. Heard = radio_data /\ Heard' = radio_data'
  BY <1>6 DEF Heard
<1>11. Stage = "listening"
  BY DEF ReadSample, Stage
<1>12. Sent' = Sent
  BY <1>6 DEF Sent
<1>. QED
  BY <1>2, <1>4, <1>6, <1>7, <1>8, <1>9, <1>10, <1>11, <1>12 DEF Scan!Hear

\* A failing exec spoils the capture, before anything was sent or heard.
LEMMA ExecSpoils ==
  ASSUME Inductive, InvClip, ExecFails
  PROVE  Scan!Spoil
<1>1. ~Spoiled /\ written = 0
  BY DEF Inductive, InvProcess, ChildAlive, ExecFails, Spoiled
<1>2. radio_data = <<>>
  <2>1. PICK d \in Nat : d = Len(radio_data)
    BY LenProperties DEF Inductive, TypeOK
  <2>2. d = 0
    BY <1>1, <2>1 DEF InvClip, data_len, Spoiled
  <2>. QED
    BY <2>1, <2>2, EmptySeq DEF Inductive, TypeOK
<1>3. Spoiled' /\ written' = 0 /\ radio_data' = <<>> /\ UNCHANGED <<Stage, verdict>>
  BY <1>1, <1>2 DEF ExecFails, ChildEnds, Spoiled, rcsVars, Stage
<1>4. Sent = <<>> /\ Sent' = <<>> /\ Heard = <<>> /\ Heard' = <<>>
  BY <1>1, <1>2, <1>3 DEF Sent, Heard
<1>5. Stage # "waiting"
  BY DEF Inductive, InvProcess, BeforeFork, ExecFails, Stage, TypeOK
<1>. QED
  BY <1>3, <1>4, <1>5 DEF Scan!Spoil, Spoiled

\* The answer comes from the closed clip.
LEMMA DetectAnswers ==
  ASSUME Inductive, DetectVoice
  PROVE  Scan!Answer \/ Scan!End
<1>1. Stage = "closed" /\ UNCHANGED <<Sent, Heard, Spoiled>>
  BY Progress DEF DetectVoice, childVars, Stage, Spoiled
<1>2. CASE dataCap = 0
  <2>1. Stage' = "over" /\ verdict' = verdict
    BY <1>2 DEF DetectVoice, Exit, Stage
  <2>. QED
    BY <1>1, <2>1 DEF Scan!End
<1>3. CASE dataCap # 0
  <2>1. /\ Stage' = "answered"
        /\ verdict' \in {"voice", "no_voice"}
        /\ verdict' = "voice" => Len(radio_data) >= MinClip
    BY <1>3 DEF DetectVoice, Stage, data_len
  <2>2. ~Spoiled => Heard = radio_data
    BY DEF Heard
  <2>. QED
    BY <1>1, <2>1, <2>2 DEF Scan!Answer
<1>. QED
  BY <1>2, <1>3

\* Every step is a step of the promise, or is not seen.
LEMMA CaptureStep ==
  Inductive /\ InvClip /\ [Next]_vars => [Scan!Next]_(Scan!vars)
<1>. SUFFICES ASSUME Inductive, InvClip, [Next]_vars
              PROVE  Scan!Next \/ UNCHANGED Scan!vars
  OBVIOUS
<1>1. CASE RtlFmWrites
  BY <1>1, WriteSends DEF Scan!Next
<1>2. CASE ReadSample /\ ~Spoiled
  BY <1>2, ReadHears DEF Scan!Next
<1>3. CASE ReadSample /\ Spoiled
  <2>1. UNCHANGED <<Stage, written, Spoiled, verdict>>
    BY <1>3 DEF ReadSample, childVars, Stage, Spoiled
  <2>2. UNCHANGED <<Sent, Heard>>
    BY <1>3, <2>1 DEF Sent, Heard
  <2>. QED
    BY <2>1, <2>2 DEF Scan!vars
<1>4. CASE ExecFails
  BY <1>4, ExecSpoils DEF Scan!Next
<1>5. CASE DetectVoice
  BY <1>5, DetectAnswers DEF Scan!Next
<1>6. CASE DeviceOpen \/ DeviceAnnounceAndClose \/ VadThrows \/ CloseAndReturn
  <2>1. UNCHANGED <<written, radio_data, Spoiled, verdict>>
    BY <1>6
    DEF DeviceOpen, DeviceAnnounceAndClose, VadThrows, CloseAndReturn, childVars, Spoiled
  <2>2. \/ Stage' = Stage
        \/ Stage \in {"waiting", "closed", "answered"} /\ Stage' = "over"
    BY <1>6
    DEF DeviceOpen, DeviceAnnounceAndClose, VadThrows, CloseAndReturn, Exit, Stage
  <2>. QED
    BY <2>1, <2>2, Unseen, Progress DEF Scan!Next, Scan!End
<1>7. CASE Spawn
  <2>1. UNCHANGED <<written, radio_data, Spoiled, verdict>>
    BY <1>7 DEF Spawn, Spoiled
  <2>2. Stage = "waiting" /\ Stage' \in {"listening", "over"}
    BY <1>7 DEF Spawn, Exit, Stage
  <2>. QED
    BY <2>1, <2>2, Progress DEF Scan!Next, Scan!Listen, Scan!End
<1>8. CASE TimeUp \/ ReadFails
  <2>1. UNCHANGED <<written, radio_data, Spoiled, verdict>>
    BY <1>8 DEF TimeUp, ReadFails, childVars, Spoiled
  <2>2. Stage = "listening" /\ Stage' = "closed"
    BY <1>8 DEF TimeUp, ReadFails, Stage
  <2>. QED
    BY <2>1, <2>2, Progress DEF Scan!Next, Scan!Close
<1>9. CASE StartCapture \/ PrepareRead \/ KillChild
  BY <1>9, Unseen DEF StartCapture, PrepareRead, KillChild, childVars, Stage, Spoiled
<1>10. CASE ChildSetup \/ ExecRtlFm
  BY <1>10, Unseen DEF ChildSetup, ExecRtlFm, rcsVars, Stage, Spoiled
<1>11. CASE RtlFmOpensDevice \/ RtlFmBrokenPipe \/ RtlFmGivesUp \/ ChildTerminated
  <2>1. ~Spoiled
    BY <1>11 DEF Inductive, InvProcess, ChildAlive, RtlFmOpensDevice, RtlFmBrokenPipe,
       RtlFmGivesUp, ChildTerminated, Spoiled
  <2>2. UNCHANGED <<Stage, written, radio_data, verdict>> /\ ~Spoiled'
    BY <1>11, <2>1 DEF RtlFmOpensDevice, RtlFmBrokenPipe, RtlFmGivesUp, ChildTerminated,
       ChildEnds, rcsVars, Stage, Spoiled
  <2>3. Spoiled' = Spoiled
    BY <2>1, <2>2 DEF Spoiled
  <2>. QED
    BY <2>2, <2>3, Unseen
<1>12. CASE Tick \/ UNCHANGED vars
  BY <1>12, Unseen DEF Tick, vars, rcsVars, childVars, Stage, Spoiled
<1>. QED
  BY <1>1, <1>2, <1>3, <1>4, <1>5, <1>6, <1>7, <1>8, <1>9, <1>10, <1>11, <1>12
  DEF Next, RcsNext, ChildNext, Finished

\* radio.c:99-172: for every pipe, buffer, int, hold time and fault, what the two
\* processes do together is what Capture promises.
THEOREM CaptureImplemented == Spec => ImplementsCapture
<1>. QED
  BY AlwaysInductive, ClipInit, ClipStep, CaptureInit, CaptureStep, PTL
  DEF Spec, ImplementsCapture, Scan!Spec
=============================================================================
