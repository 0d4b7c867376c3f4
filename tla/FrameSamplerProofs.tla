------------------------- MODULE FrameSamplerProofs -------------------------
(***************************************************************************)
(* The sampler's arithmetic for every stride and every length of video.    *)
(***************************************************************************)
EXTENDS FrameSampler, TLAPS

\* What integer division gives.
LEMMA Division ==
    ASSUME NEW a \in Int, NEW b \in Nat \ {0}
    PROVE  /\ a \div b \in Int
           /\ b * (a \div b) <= a /\ a < b * (a \div b) + b
  OBVIOUS

\* floor(a/b) is at least c just when a/b is.
LEMMA FloorAtLeast ==
    ASSUME NEW a \in Int, NEW b \in Nat \ {0}, NEW c \in Int
    PROVE  a \div b >= c <=> a >= b * c
<1> DEFINE d == a \div b
<1>1. d \in Int /\ b * d <= a /\ a < b * d + b
  BY Division
<1> HIDE DEF d
<1>2. CASE d >= c
  <2>1. b * d >= b * c
    BY <1>1, <1>2
  <2>2. QED
    BY <1>1, <1>2, <2>1 DEF d
<1>3. CASE d < c
  <2>1. b * (d + 1) <= b * c
    BY <1>1, <1>3
  <2>2. b * (d + 1) = b * d + b
    BY <1>1
  <2>3. a < b * c
    BY <1>1, <2>1, <2>2
  <2>4. QED
    BY <1>1, <1>3, <2>3 DEF d
<1>4. QED
  BY <1>1, <1>2, <1>3

\* ceil(a/b) is at most c just when a/b is.
LEMMA CeilingAtMost ==
    ASSUME NEW a \in Int, NEW b \in Nat \ {0}, NEW c \in Int
    PROVE  Ceiling(a, b) \in Int /\ (Ceiling(a, b) <= c <=> a <= b * c)
<1>1. (-a) \div b \in Int
  BY Division
<1>2. (-a) \div b >= -c <=> -a >= b * (-c)
  BY FloorAtLeast
<1>3. b * (-c) = -(b * c) /\ b * c \in Int
  OBVIOUS
<1>4. QED
  BY <1>1, <1>2, <1>3 DEF Ceiling

\* The stride of a video: at least one source frame for each output frame.
Stride == stride \in Nat \X Nat /\ stride[1] >= stride[2] /\ stride[2] > 0

\* Slot k is past index i just when k is at least (i + 1/2) / stride.
LEMMA PastIndex ==
    ASSUME Stride, NEW k \in Nat, NEW i \in Int
    PROVE  /\ SourceIndexForSlot(k) \in Int
           /\ SourceIndexForSlot(k) > i <=> (2 * i + 1) * stride[2] <= 2 * stride[1] * k
<1>1. PICK p \in Nat, q \in Nat : stride[1] = p /\ stride[2] = q /\ q > 0
  BY DEF Stride
<1>2. /\ (2 * k * p + q) \div (2 * q) \in Int
      /\ (2 * k * p + q) \div (2 * q) >= i + 1 <=> 2 * k * p + q >= 2 * q * (i + 1)
  <2> DEFINE a == 2 * k * p + q
             b == 2 * q
             c == i + 1
  <2>1. a \in Int /\ b \in Nat \ {0} /\ c \in Int
    BY <1>1
  <2> HIDE DEF a, b, c
  <2>2. a \div b \in Int /\ (a \div b >= c <=> a >= b * c)
    BY <2>1, FloorAtLeast, Division
  <2>3. QED
    BY <2>2 DEF a, b, c
<1>3. /\ 2 * q * (i + 1) = (2 * i + 1) * q + q
      /\ 2 * k * p = 2 * p * k
  BY <1>1
<1>4. QED
  BY <1>1, <1>2, <1>3 DEF SourceIndexForSlot

\* "First output slot whose source index is strictly greater than source_index":
\* the slots past an index are those from slot_after_source_index on.
LEMMA ResumeSlot ==
    ASSUME Stride, NEW k \in Nat, NEW i \in Int, i >= -1
    PROVE  /\ SlotAfterSourceIndex(i) \in Nat
           /\ SourceIndexForSlot(k) > i <=> k >= SlotAfterSourceIndex(i)
<1>1. PICK p \in Nat, q \in Nat : stride[1] = p /\ stride[2] = q /\ q > 0 /\ p >= q
  BY DEF Stride
<1>2. SourceIndexForSlot(k) > i <=> (2 * i + 1) * q <= 2 * p * k
  BY <1>1, PastIndex
<1>3. CASE i < 0
  <2>1. (2 * i + 1) * q <= 0 /\ 0 <= 2 * p * k
    BY <1>1, <1>3
  <2>2. QED
    BY <1>1, <1>2, <1>3, <2>1 DEF SlotAfterSourceIndex
<1>4. CASE i >= 0
  <2> DEFINE a == (2 * i + 1) * q
             b == 2 * p
  <2>1. a \in Int /\ b \in Nat \ {0}
    BY <1>1
  <2>2. Ceiling(a, b) \in Int /\ (Ceiling(a, b) <= k <=> a <= b * k)
    BY <2>1, CeilingAtMost
  <2>3. SlotAfterSourceIndex(i) = Max0(Ceiling(a, b))
    BY <1>1, <1>4 DEF SlotAfterSourceIndex
  <2> HIDE DEF a
  <2>4. QED
    <3>1. SlotAfterSourceIndex(i) \in Nat /\ (k >= SlotAfterSourceIndex(i) <=> Ceiling(a, b) <= k)
      BY <2>2, <2>3 DEF Max0
    <3>2. QED
      BY <1>2, <2>2, <3>1 DEF a
<1>5. QED
  BY <1>3, <1>4

\* Indices grow with slots, so a slot is the one after the index before it.
LEMMA Increasing ==
    ASSUME Stride, NEW k \in Nat
    PROVE  /\ SourceIndexForSlot(k) \in Nat
           /\ SourceIndexForSlot(k + 1) > SourceIndexForSlot(k)
           /\ SlotAfterSourceIndex(SourceIndexForSlot(k)) = k + 1
<1> DEFINE i == SourceIndexForSlot(k)
<1>1. PICK p \in Nat, q \in Nat : stride[1] = p /\ stride[2] = q /\ q > 0 /\ p >= q
  BY DEF Stride
<1>2. i \in Int /\ (i > -1 <=> (2 * (-1) + 1) * q <= 2 * p * k)
  BY <1>1, PastIndex
<1>3. (2 * (-1) + 1) * q <= 0 /\ 0 <= 2 * p * k
  BY <1>1
<1>4. i \in Nat
  BY <1>2, <1>3, <1>1
<1>5. i > i - 1 <=> (2 * (i - 1) + 1) * q <= 2 * p * k
  BY <1>1, <1>4, PastIndex
<1>6. SourceIndexForSlot(k + 1) > i <=> (2 * i + 1) * q <= 2 * p * (k + 1)
  BY <1>1, <1>4, PastIndex
<1> HIDE DEF i
<1>7. (2 * i + 1) * q = (2 * (i - 1) + 1) * q + 2 * q
  BY <1>1, <1>4
<1>8. 2 * p * (k + 1) = 2 * p * k + 2 * p
  BY <1>1
<1>9. SourceIndexForSlot(k + 1) > i
  <2>1. (2 * (i - 1) + 1) * q \in Int /\ 2 * p * k \in Int
    BY <1>1, <1>4
  <2>2. (2 * (i - 1) + 1) * q <= 2 * p * k
    BY <1>4, <1>5
  <2>3. QED
    BY <1>1, <1>6, <1>7, <1>8, <2>1, <2>2
<1>10. /\ SlotAfterSourceIndex(i) \in Nat
       /\ k + 1 >= SlotAfterSourceIndex(i) /\ ~ (k >= SlotAfterSourceIndex(i))
  <2>1. ~ (SourceIndexForSlot(k) > i)
    BY <1>4 DEF i
  <2>2. QED
    BY <1>4, <1>9, <2>1, ResumeSlot
<1>11. SlotAfterSourceIndex(i) = k + 1
  BY <1>10
<1>12. QED
  BY <1>4, <1>9, <1>11 DEF i

\* The expected count is the slot after the last frame.
LEMMA CountIsSlot ==
    ASSUME Stride, NEW n \in Nat
    PROVE  ExpectedFrameCount(n) = SlotAfterSourceIndex(n - 1)
<1>1. CASE n = 0
  BY <1>1 DEF ExpectedFrameCount, SlotAfterSourceIndex
<1>2. CASE n > 0
  <2>1. 2 * n - 1 = 2 * (n - 1) + 1 /\ ~ (n <= 0) /\ ~ (n - 1 < 0)
    BY <1>2
  <2>2. QED
    BY <2>1 DEF ExpectedFrameCount, SlotAfterSourceIndex
<1>3. QED
  BY <1>1, <1>2

-----------------------------------------------------------------------------
(* The runs over one video.                                                *)

\* The sampler waits for the slot after what was sampled, and the loop has not
\* passed it, so that nothing can be skipped.
Cursor ==
    /\ cursor_slot = Len(taken) /\ cursor_index = SourceIndexForSlot(cursor_slot)
    /\ index <= cursor_index /\ index \in 0 .. total /\ total \in 0 .. MaxFrames
    /\ taken \in Seq(0 .. total - 1)

SamplerInv == Stride /\ stride \in Strides /\ Cursor /\ TakenExact

\* A video is opened before its first slot, which is its first frame.
LEMMA SamplerInit == Init => SamplerInv
<1> SUFFICES ASSUME Init PROVE SamplerInv
  OBVIOUS
<1>1. Stride
  BY StridesAssumption DEF Init, Stride
<1>2. SourceIndexForSlot(0) \in Nat
  BY <1>1, Increasing
<1>3. QED
  BY <1>1, <1>2 DEF Init, SamplerInv, Cursor, TakenExact

\* No grab and no resumption leaves the exact sequence of slots.
LEMMA SamplerStep == SamplerInv /\ [Next]_vars => SamplerInv'
<1> SUFFICES ASSUME SamplerInv, [Next]_vars PROVE SamplerInv'
  OBVIOUS
<1> USE DEF SamplerInv
<1>0. /\ Len(taken) \in Nat /\ \A k \in Nat : SourceIndexForSlot(k) \in Nat
      /\ \A k \in Nat : SourceIndexForSlot(k + 1) > SourceIndexForSlot(k)
      /\ \A i \in 1 .. Len(taken) : taken[i] \in 0 .. total - 1
  <2>1. Len(taken) \in Nat /\ \A i \in 1 .. Len(taken) : taken[i] \in 0 .. total - 1
    BY DEF Cursor
  <2>2. \A k \in Nat : SourceIndexForSlot(k) \in Nat /\ SourceIndexForSlot(k + 1) > SourceIndexForSlot(k)
    BY Increasing
  <2>3. QED
    BY <2>1, <2>2
<1>1. CASE UNCHANGED vars
  BY <1>1 DEF vars, Stride, Cursor, TakenExact, SourceIndexForSlot
<1>2. CASE Grab
  <2>1. /\ stride' = stride /\ total' = total /\ Stride'
        /\ \A k \in Nat : SourceIndexForSlot(k)' = SourceIndexForSlot(k)
    BY <1>2 DEF Grab, Stride, SourceIndexForSlot
  <2>2. CASE index = cursor_index
    <3>1. /\ taken' = Append(taken, index) /\ index' = index + 1
          /\ cursor_slot' = cursor_slot + 1
          /\ cursor_index' = SourceIndexForSlot(cursor_slot + 1)
          /\ index < total
      BY <1>2, <2>2 DEF Grab
    <3>2. index \in 0 .. total - 1
      BY <3>1 DEF Cursor
    <3>3. /\ taken' \in Seq(0 .. total - 1) /\ Len(taken') = Len(taken) + 1
          /\ \A i \in 1 .. Len(taken) : taken'[i] = taken[i]
          /\ taken'[Len(taken) + 1] = index
      BY <3>1, <3>2 DEF Cursor
    <3>4. Cursor'
      <4>1. cursor_index' > cursor_index /\ cursor_index' \in Nat /\ cursor_index \in Nat
        BY <1>0, <3>1 DEF Cursor
      <4>2. cursor_slot' = Len(taken) + 1 /\ Len(taken) + 1 \in Nat
        BY <1>0, <3>1 DEF Cursor
      <4>3. cursor_index' = SourceIndexForSlot(cursor_slot)'
        BY <2>1, <3>1, <4>2 DEF Cursor
      <4>4. index' <= cursor_index' /\ index' \in 0 .. total
        BY <2>2, <3>1, <3>2, <4>1 DEF Cursor
      <4>5. total' \in 0 .. MaxFrames
        BY <2>1 DEF Cursor
      <4>6. QED
        BY <2>1, <3>3, <4>2, <4>3, <4>4, <4>5 DEF Cursor
    <3>5. TakenExact'
      <4> SUFFICES ASSUME NEW i \in 1 .. Len(taken) + 1
                   PROVE  taken'[i] = SourceIndexForSlot(i - 1)
        BY <1>0, <2>1, <3>3 DEF TakenExact
      <4>1. CASE i \in 1 .. Len(taken)
        BY <3>3, <4>1 DEF TakenExact
      <4>2. CASE i = Len(taken) + 1
        BY <1>0, <2>2, <3>3, <4>2 DEF Cursor
      <4>3. Len(taken) \in Nat /\ (i \in 1 .. Len(taken) \/ i = Len(taken) + 1)
        BY DEF Cursor
      <4>4. QED
        BY <4>1, <4>2, <4>3
    <3>6. QED
      BY <2>1, <3>4, <3>5
  <2>3. CASE index # cursor_index
    <3>1. UNCHANGED <<taken, cursor_slot, cursor_index>> /\ index' = index + 1 /\ index < total
      BY <1>2, <2>3 DEF Grab
    <3>2. Cursor'
      BY <1>0, <2>1, <2>3, <3>1, SMTT(20) DEF Cursor
    <3>3. TakenExact'
      BY <1>0, <2>1, <3>1 DEF TakenExact
    <3>4. QED
      BY <2>1, <3>2, <3>3
  <2>4. QED
    BY <2>2, <2>3
<1>3. CASE Resume
  <2>1. PICK n \in 0 .. Len(taken), landed \in 0 .. total :
          LET last == IF n = 0 THEN -1 ELSE taken[n] IN
          /\ taken' = SubSeq(taken, 1, n)
          /\ cursor_slot' = SlotAfterSourceIndex(last)
          /\ cursor_index' = SourceIndexForSlot(SlotAfterSourceIndex(last))
          /\ index' = IF cursor_index' > 0 THEN StartAfterSeek(cursor_index', landed) ELSE 0
          /\ UNCHANGED <<stride, total>>
    BY <1>3 DEF Resume
  <2> DEFINE last == IF n = 0 THEN -1 ELSE taken[n]
  <2>2. /\ stride' = stride /\ total' = total /\ Stride'
        /\ \A k \in Nat : SourceIndexForSlot(k)' = SourceIndexForSlot(k)
    BY <2>1 DEF Stride, SourceIndexForSlot
  <2>3. SlotAfterSourceIndex(last) = n
    <3>1. CASE n = 0
      BY <3>1 DEF SlotAfterSourceIndex
    <3>2. CASE n > 0
      <4>1. n - 1 \in Nat /\ taken[n] = SourceIndexForSlot(n - 1)
        BY <1>0, <3>2 DEF TakenExact
      <4>2. SlotAfterSourceIndex(SourceIndexForSlot(n - 1)) = (n - 1) + 1
        BY <4>1, Increasing
      <4>3. QED
        BY <3>2, <4>1, <4>2
    <3>3. QED
      BY <1>0, <3>1, <3>2
  <2>4. /\ cursor_slot' = n /\ cursor_index' = SourceIndexForSlot(n)
        /\ SourceIndexForSlot(n) \in Nat /\ n \in Nat
    BY <1>0, <2>1, <2>3
  <2>5. /\ taken' \in Seq(0 .. total - 1) /\ Len(taken') = n
        /\ \A i \in 1 .. n : taken'[i] = taken[i]
    <3>1. taken \in Seq(0 .. total - 1) /\ n \in 0 .. Len(taken) /\ taken' = SubSeq(taken, 1, n)
      BY <2>1 DEF Cursor
    <3>2. /\ SubSeq(taken, 1, n) \in Seq(0 .. total - 1) /\ Len(SubSeq(taken, 1, n)) = n
          /\ \A i \in 1 .. n : SubSeq(taken, 1, n)[i] = taken[i]
      <4> DEFINE S == 0 .. total - 1
      <4>1. taken \in Seq(S) /\ Len(taken) \in Nat /\ n \in Int
        BY <3>1
      <4> HIDE DEF S
      <4>2. SubSeq(taken, 1, n) \in Seq(S)
        BY <3>1, <4>1
      <4>3. Len(SubSeq(taken, 1, n)) = n
        BY <3>1, <4>1
      <4>4. \A i \in 1 .. n : SubSeq(taken, 1, n)[i] = taken[i]
        BY <3>1, <4>1
      <4>5. QED
        BY <4>2, <4>3, <4>4 DEF S
    <3>3. QED
      BY <3>1, <3>2
  <2>6. index' \in 0 .. total /\ index' <= cursor_index'
    BY <2>1, <2>4 DEF StartAfterSeek, Cursor
  <2>7. Cursor'
    BY <2>2, <2>4, <2>5, <2>6 DEF Cursor
  <2>8. TakenExact'
    <3> SUFFICES ASSUME NEW i \in 1 .. n PROVE taken'[i] = SourceIndexForSlot(i - 1)
      BY <2>2, <2>4, <2>5 DEF TakenExact
    <3>1. i \in 1 .. Len(taken)
      BY <1>0, <2>4
    <3>2. QED
      BY <2>5, <3>1 DEF TakenExact
  <2>9. QED
    BY <2>2, <2>7, <2>8
<1>4. QED
  BY <1>1, <1>2, <1>3 DEF Next

\* Every reachable state satisfies the invariant.
LEMMA SamplerInductive == Spec => []SamplerInv
  BY SamplerInit, SamplerStep, PTL DEF Spec

\* Every sample is a frame of the video, so there are at most as many as expected.
LEMMA NoMoreThanExpected ==
    ASSUME SamplerInv
    PROVE  /\ Len(taken) \in Nat /\ ExpectedFrameCount(total) \in Nat
           /\ Len(taken) <= ExpectedFrameCount(total)
<1> DEFINE n == Len(taken)
           i == total - 1
<1>1. n \in Nat /\ total \in Nat /\ i \in Int /\ i >= -1 /\ Stride
  BY DEF SamplerInv, Cursor
<1>2. ExpectedFrameCount(total) = SlotAfterSourceIndex(i) /\ SlotAfterSourceIndex(i) \in Nat
  BY <1>1, CountIsSlot, ResumeSlot
<1>3. CASE n = 0
  BY <1>2, <1>3
<1>4. CASE n > 0
  <2>1. n - 1 \in Nat /\ taken[n] = SourceIndexForSlot(n - 1) /\ taken[n] \in 0 .. i
    BY <1>1, <1>4 DEF SamplerInv, Cursor, TakenExact
  <2>2. ~ (n - 1 >= SlotAfterSourceIndex(i))
    BY <1>1, <2>1, ResumeSlot
  <2>3. QED
    BY <1>1, <1>2, <2>2
<1>5. QED
  BY <1>1, <1>3, <1>4

\* The cursor never passes the expected count and the loop never the video's end.
THEOREM SamplerTypeCorrect == Spec => []TypeOK
<1>1. ASSUME SamplerInv PROVE TypeOK
  <2>1. Stride /\ cursor_slot \in Nat /\ cursor_index = SourceIndexForSlot(cursor_slot)
    BY <1>1 DEF SamplerInv, Cursor
  <2>2. cursor_index \in Nat
    BY <2>1, Increasing
  <2>3. cursor_slot \in 0 .. ExpectedFrameCount(total)
    BY <1>1, NoMoreThanExpected DEF SamplerInv, Cursor
  <2>4. QED
    BY <1>1, <2>2, <2>3 DEF SamplerInv, Cursor, TypeOK
<1>2. QED
  BY <1>1, SamplerInductive, PTL

\* Sampling is exact for every stride, every video and any number of resumed runs,
\* wherever their seeks land: slot by slot, nothing repeated, nothing skipped.
THEOREM SamplesExact == Spec => []TakenExact
<1>1. SamplerInv => TakenExact
  BY DEF SamplerInv
<1>2. QED
  BY <1>1, SamplerInductive, PTL

\* The slot a resumed run starts at is the first one past the checkpoint.
THEOREM ResumeSlotFirst == Spec => []ResumeSlotIsFirst
<1>1. SamplerInv => ResumeSlotIsFirst
  BY ResumeSlot DEF SamplerInv, ResumeSlotIsFirst
<1>2. QED
  BY <1>1, SamplerInductive, PTL

\* A run that reaches the end of a video has sampled what the closed form expects.
THEOREM CountExact == Spec => []CountAsExpected
<1>1. ASSUME SamplerInv, index = total PROVE Len(taken) = ExpectedFrameCount(total)
  <2> DEFINE n == Len(taken)
             i == total - 1
  <2>1. n \in Nat /\ total \in Nat /\ i \in Int /\ i >= -1 /\ Stride
    BY <1>1 DEF SamplerInv, Cursor
  <2>2. ExpectedFrameCount(total) = SlotAfterSourceIndex(i)
    BY <2>1, CountIsSlot
  <2>3. SourceIndexForSlot(n) > i /\ SourceIndexForSlot(n) \in Nat
    BY <1>1, <2>1, Increasing DEF SamplerInv, Cursor
  <2>4. n >= SlotAfterSourceIndex(i)
    BY <2>1, <2>3, ResumeSlot
  <2>5. QED
    BY <1>1, <2>2, <2>4, NoMoreThanExpected
<1>2. QED
  BY <1>1, SamplerInductive, PTL DEF CountAsExpected
=============================================================================
