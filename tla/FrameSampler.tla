---------------------------- MODULE FrameSampler ----------------------------
(***************************************************************************)
(* Which frames of a video are sampled (video_analyzer/domain/             *)
(* frame_sampler.py), and that a resumed run which seeks (video_source.py) *)
(* samples exactly the ones that are left.                                 *)
(*                                                                         *)
(* The stride is the exact rational number of source frames per output     *)
(* frame, so all of the arithmetic is on integers.                         *)
(***************************************************************************)
EXTENDS Integers, Sequences

CONSTANTS
    Strides,    \* pairs <<p, q>>: p source frames for q output frames
    MaxFrames   \* bound on the length of the video

\* The target rate does not exceed the source rate.
ASSUME StridesAssumption == \A s \in Strides : s \in Nat \X Nat /\ s[1] >= s[2] /\ s[2] > 0
ASSUME MaxFramesAssumption == MaxFrames \in Nat

VARIABLES
    stride, total,  \* the video: its stride and the frames that can be grabbed
    cursor_slot,    \* the next output slot
    cursor_index,   \* its source index, the one the sampler waits for
    index,          \* the source index of the next grab
    taken           \* source indices sampled, in order, by this run and those it resumes

vars == <<stride, total, cursor_slot, cursor_index, index, taken>>

Max0(n) == IF n > 0 THEN n ELSE 0

\* math.ceil of a fraction
Ceiling_Floor(a, b) == a \div b
Ceiling(a, b) == -((-a) \div b)

\* floor(slot * stride + 1/2)
SourceIndexForSlot(slot) == (2 * slot * stride[1] + stride[2]) \div (2 * stride[2])

\* ceil((i + 1/2) / stride)
SlotAfterSourceIndex_NoHalf(i) == IF i < 0 THEN 0 ELSE Max0(Ceiling(i * stride[2], stride[1]))
SlotAfterSourceIndex(i) ==
    IF i < 0 THEN 0 ELSE Max0(Ceiling((2 * i + 1) * stride[2], 2 * stride[1]))

\* ceil((total - 1/2) / stride)
ExpectedFrameCount(n) ==
    IF n <= 0 THEN 0 ELSE Max0(Ceiling((2 * n - 1) * stride[2], 2 * stride[1]))

Init ==
    /\ stride \in Strides /\ total \in 0 .. MaxFrames
    /\ cursor_slot = 0 /\ cursor_index = SourceIndexForSlot(0)
    /\ index = 0 /\ taken = << >>

\* One turn of iter_sampled's loop, with FrameSampler.take.
Grab ==
    /\ index < total
    /\ IF index = cursor_index
       THEN /\ taken' = Append(taken, index)
            /\ cursor_slot' = cursor_slot + 1
            /\ cursor_index' = SourceIndexForSlot(cursor_slot + 1)
       ELSE UNCHANGED <<taken, cursor_slot, cursor_index>>
    /\ index' = index + 1
    /\ UNCHANGED <<stride, total>>

\* Where the loop starts, for a seek that lands anywhere.
StartAfterSeek_Trusted(target, landed) == landed
StartAfterSeek_Next(target, landed) == IF landed > target THEN 0 ELSE landed + 1
StartAfterSeek(target, landed) == IF landed > target THEN 0 ELSE landed

\* The run ends at any point, with n of its samples up to the last confirmed one;
\* a later run goes on after that one.
Resume ==
    \E n \in 0 .. Len(taken), landed \in 0 .. total :
        LET last == IF n = 0 THEN -1 ELSE taken[n] IN
        /\ taken' = SubSeq(taken, 1, n)
        /\ cursor_slot' = SlotAfterSourceIndex(last)
        /\ cursor_index' = SourceIndexForSlot(SlotAfterSourceIndex(last))
        /\ index' = IF cursor_index' > 0 THEN StartAfterSeek(cursor_index', landed) ELSE 0
        /\ UNCHANGED <<stride, total>>

Next == Grab \/ Resume

Spec == Init /\ [][Next]_vars

-----------------------------------------------------------------------------
(* Properties.                                                             *)

TypeOK ==
    /\ stride \in Strides /\ total \in 0 .. MaxFrames
    /\ cursor_slot \in 0 .. ExpectedFrameCount(total) /\ cursor_index \in Nat
    /\ index \in 0 .. total
    /\ taken \in Seq(0 .. total - 1)

\* The i-th sample is the frame of slot i, over any number of resumed runs: none is
\* repeated, none is skipped and no rounding error adds up.
TakenExact == \A i \in 1 .. Len(taken) : taken[i] = SourceIndexForSlot(i - 1)

\* A run that reaches the end of the video has sampled what was expected, wherever
\* its seek landed.
CountAsExpected == index = total => Len(taken) = ExpectedFrameCount(total)

\* "First output slot whose source index is strictly greater", for every index a
\* record can hold.
ResumeSlotIsFirst ==
    \A i \in -1 .. MaxFrames, k \in 0 .. MaxFrames + 1 :
        SourceIndexForSlot(k) > i <=> k >= SlotAfterSourceIndex(i)
=============================================================================
