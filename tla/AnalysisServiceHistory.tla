----------------------- MODULE AnalysisServiceHistory -----------------------
(***************************************************************************)
(* What the records, the runs and the answers of the analysis service say  *)
(* about what was sent, over any number of attempts at a job: for any      *)
(* number of processes, publishers, requests, frames and interruptions,    *)
(* and where a job must not be run twice at once, for one process.         *)
(***************************************************************************)
EXTENDS AnalysisServiceProofs

-----------------------------------------------------------------------------
(* What progress claims of a job's history.                                *)

\* The frames up to n of a job of which frames were accepted s times.
SentBy(s, n) == {f \in 0 .. n : s[f] > 0}

\* Progress p, of a job of which frames were accepted s times, those of c sent or passed
\* over, and those of u could not be decoded.
Claims(s, c, u, p) ==
    /\ 0 .. p.last \subseteq c \cup u
    /\ p.confirmed <= Cardinality(SentBy(s, p.last))
    /\ p.failed = 0 => 0 .. p.last \subseteq c

\* A run with progress p that decoded the slots before n: the frames that it has in its
\* queue q, and in hand h, are open.  After an error e, what was queued is forgotten.
Accounted(c, p, n, q, h, e) ==
    \A f \in 0 .. n - 1 :
        \/ f \in c \cup q \cup h
        \/ e /\ f > p.last /\ \A g \in h : g < f

Reaching(s, c, u, p, n, q, h, e) ==
    /\ Accounted(c \cup u, p, n, q, h, e)
    /\ p.failed = 0 => Accounted(c, p, n, q, h, e)
    /\ p.confirmed <= Cardinality(SentBy(s, p.last) \ (q \cup h))

\* A run counts a frame as failed once, and what earlier attempts counted.
Bounded(failed, attempts, u, n) ==
    \E a, b, c \in Nat :
        /\ a + 1 <= Cardinality(attempts)
        /\ b = Cardinality(u) /\ c = Cardinality(u \cap 0 .. n - 1)
        /\ failed <= a * b + c

\* The frames of a job, and those sent among the first, are finitely many.
LEMMA FramesFinite ==
    /\ IsFiniteSet(Frames)
    /\ \A u \in SUBSET Frames : IsFiniteSet(u) /\ Cardinality(u) \in Nat
    /\ \A s, n : n \in Int => IsFiniteSet(SentBy(s, n)) /\ Cardinality(SentBy(s, n)) \in Nat
<1>1. \A n \in Int : IsFiniteSet(0 .. n)
  BY FS_Interval
<1>2. IsFiniteSet(Frames)
  BY <1>1, SizesAssumption DEF Frames
<1>3. \A s, n : n \in Int => IsFiniteSet(SentBy(s, n))
  BY <1>1, FS_Subset DEF SentBy
<1>4. QED
  BY <1>2, <1>3, FS_Subset, FS_CardinalityType

\* A count of subsets.
LEMMA Fewer ==
    ASSUME NEW S, NEW T, IsFiniteSet(T), S \subseteq T
    PROVE  /\ IsFiniteSet(S) /\ Cardinality(S) \in Nat /\ Cardinality(T) \in Nat
           /\ Cardinality(S) <= Cardinality(T)
BY FS_Subset, FS_CardinalityType

\* Products of numbers that grow.
LEMMA ProductGrows ==
    ASSUME NEW a \in Nat, NEW b \in Nat, NEW x \in Nat, NEW y \in Nat, a <= x, b <= y
    PROVE  a * b <= x * y /\ a * b \in Nat /\ x * y \in Nat
OBVIOUS

\* A union of finitely many sets of at most m members.
LEMMA UnionBound ==
    ASSUME NEW I, IsFiniteSet(I), NEW F, NEW m \in Nat,
           \A i \in I : IsFiniteSet(F[i]) /\ Cardinality(F[i]) <= m
    PROVE  LET U == UNION {F[i] : i \in I} IN
           IsFiniteSet(U) /\ Cardinality(U) <= m * Cardinality(I)
<1> DEFINE U == UNION {F[i] : i \in I}
<1>1. PICK n, b : \A i \in I : n[i] \in Nat /\ n[i] <= m /\ b[i] \in Bijection(1 .. n[i], F[i])
  <2> DEFINE card == [i \in I |-> Cardinality(F[i])]
             count == [i \in I |-> CHOOSE g : g \in Bijection(1 .. Cardinality(F[i]), F[i])]
  <2>1. \A i \in I : card[i] \in Nat /\ card[i] <= m /\ count[i] \in Bijection(1 .. card[i], F[i])
    <3> SUFFICES ASSUME NEW i \in I
                 PROVE  card[i] \in Nat /\ card[i] <= m /\ count[i] \in Bijection(1 .. card[i], F[i])
      OBVIOUS
    <3>1. Cardinality(F[i]) \in Nat /\ Bijection(1 .. Cardinality(F[i]), F[i]) # {}
      BY FS_CardinalityType DEF ExistsBijection
    <3>2. QED
      BY <3>1
  <2>2. QED
    BY <2>1
<1>2. \A i \in I : \A k \in 1 .. n[i] : b[i][k] \in F[i]
  BY <1>1 DEF Bijection, Injection
<1>3. \A i \in I : \A x \in F[i] : \E k \in 1 .. m : k <= n[i] /\ b[i][k] = x
  <2> SUFFICES ASSUME NEW i \in I, NEW x \in F[i]
               PROVE  \E k \in 1 .. m : k <= n[i] /\ b[i][k] = x
    OBVIOUS
  <2>1. PICK k \in 1 .. n[i] : b[i][k] = x
    BY <1>1 DEF Bijection, Surjection
  <2>2. k \in 1 .. m /\ k <= n[i]
    BY <1>1
  <2>3. QED
    BY <2>1, <2>2
<1>4. CASE U = {}
  <2>1. Cardinality(I) \in Nat
    BY FS_CardinalityType
  <2>2. QED
    BY <1>4, <2>1, FS_EmptySet, ProductGrows
<1>5. ASSUME NEW z \in U
      PROVE  IsFiniteSet(U) /\ Cardinality(U) <= m * Cardinality(I)
  <2> DEFINE h == [x \in I \X (1 .. m) |-> IF x[2] <= n[x[1]] THEN b[x[1]][x[2]] ELSE z]
  <2>1. \A x \in I \X (1 .. m) : h[x] \in U
    <3> SUFFICES ASSUME NEW x \in I \X (1 .. m)
                 PROVE  h[x] \in U
      OBVIOUS
    <3>1. x[1] \in I /\ x[2] \in 1 .. m /\ n[x[1]] \in Nat
      BY <1>1
    <3>2. x[2] <= n[x[1]] => b[x[1]][x[2]] \in F[x[1]]
      BY <1>2, <3>1
    <3>3. QED
      BY <1>5, <3>1, <3>2
  <2>2. \A x \in U : \E y \in I \X (1 .. m) : h[y] = x
    <3> SUFFICES ASSUME NEW i \in I, NEW x \in F[i]
                 PROVE  \E y \in I \X (1 .. m) : h[y] = x
      OBVIOUS
    <3>1. PICK k \in 1 .. m : k <= n[i] /\ b[i][k] = x
      BY <1>3
    <3>2. h[<<i, k>>] = x /\ <<i, k>> \in I \X (1 .. m)
      BY <3>1
    <3>3. QED
      BY <3>2
  <2>3. h \in Surjection(I \X (1 .. m), U)
    BY <2>1, <2>2 DEF Surjection
  <2>4. /\ IsFiniteSet(I \X (1 .. m)) /\ Cardinality(I) \in Nat
        /\ Cardinality(I \X (1 .. m)) = Cardinality(I) * m
    <3>1. IsFiniteSet(1 .. m) /\ Cardinality(1 .. m) = m
      BY FS_Interval
    <3>2. QED
      BY <3>1, FS_Product, FS_CardinalityType
  <2>5. IsFiniteSet(U) /\ Cardinality(U) <= Cardinality(I) * m
    <3> HIDE DEF h, U
    <3>1. QED
      BY <2>3, <2>4, FS_Surjection
  <2>6. QED
    BY <2>4, <2>5
<1>6. QED
  BY <1>4, <1>5

\* What was true of a history stays true when more is sent or found undecodable.
LEMMA ClaimsKept ==
    ASSUME NEW s \in [Frames -> Nat], NEW t \in [Frames -> Nat], \A f \in Frames : s[f] <= t[f],
           NEW c, NEW d, c \subseteq d, NEW u, NEW v, u \subseteq v, NEW p \in Progress,
           Claims(s, c, u, p)
    PROVE  Claims(t, d, v, p)
<1>1. p.last \in Int /\ 0 .. p.last \subseteq Frames /\ p.confirmed \in Nat
  BY SizesAssumption DEF Progress, Frames
<1>2. SentBy(s, p.last) \subseteq SentBy(t, p.last)
  BY <1>1 DEF SentBy
<1>3. Cardinality(SentBy(s, p.last)) <= Cardinality(SentBy(t, p.last))
  BY <1>1, <1>2, FramesFinite, Fewer
<1>4. p.confirmed <= Cardinality(SentBy(t, p.last))
  BY <1>1, <1>3, FramesFinite DEF Claims
<1>5. QED
  BY <1>4 DEF Claims

\* No progress claims nothing.
LEMMA ClaimsOfNothing ==
    ASSUME NEW s, NEW c, NEW u
    PROVE  /\ Claims(s, c, u, NoProgress) /\ NoProgress \in Progress
           /\ Reaching(s, c, u, NoProgress, 0, {}, {}, FALSE)
<1>1. 0 .. -1 = {} /\ 0 .. 0 - 1 = {}
  OBVIOUS
<1>2. SentBy(s, -1) = {} /\ SentBy(s, -1) \ ({} \cup {}) = {}
  BY <1>1 DEF SentBy
<1>3. Cardinality(SentBy(s, -1)) = 0 /\ Cardinality(SentBy(s, -1) \ ({} \cup {})) = 0
  BY <1>2, FS_EmptySet
<1>4. NoProgress \in Progress
  BY SizesAssumption DEF NoProgress, Progress
<1>5. NoProgress.last = -1 /\ NoProgress.confirmed = 0
  BY DEF NoProgress
<1>6. Claims(s, c, u, NoProgress)
  BY <1>1, <1>3, <1>5 DEF Claims
<1>7. Accounted(c, NoProgress, 0, {}, {}, FALSE) /\ Accounted(c \cup u, NoProgress, 0, {}, {}, FALSE)
  BY <1>1 DEF Accounted
<1>8. NoProgress.confirmed <= Cardinality(SentBy(s, NoProgress.last) \ ({} \cup {}))
  <2>1. Cardinality(SentBy(s, NoProgress.last) \ ({} \cup {})) = 0
    BY <1>3, <1>5
  <2>2. QED
    BY <1>5, <2>1
<1>9. Reaching(s, c, u, NoProgress, 0, {}, {}, FALSE)
  BY <1>7, <1>8 DEF Reaching
<1>10. QED
  BY <1>4, <1>6, <1>9

\* A run that resumes a record reaches what the record claims.
LEMMA ReachingResumed ==
    ASSUME NEW s, NEW c, NEW u, NEW p \in Progress, Claims(s, c, u, p)
    PROVE  Reaching(s, c, u, p, p.last + 1, {}, {}, FALSE)
<1>1. p.last \in Int /\ 0 .. (p.last + 1) - 1 = 0 .. p.last
  BY DEF Progress
<1>2. SentBy(s, p.last) \ ({} \cup {}) = SentBy(s, p.last)
  OBVIOUS
<1>3. QED
  BY <1>1, <1>2 DEF Reaching, Accounted, Claims

\* What a run reaches, it reaches when the history grows.
LEMMA ReachingKept ==
    ASSUME NEW s \in [Frames -> Nat], NEW t \in [Frames -> Nat], \A f \in Frames : s[f] <= t[f],
           NEW c, NEW d, c \subseteq d, NEW u, NEW v, u \subseteq v, NEW p \in Progress,
           NEW n, NEW q, NEW h, NEW e, Reaching(s, c, u, p, n, q, h, e)
    PROVE  Reaching(t, d, v, p, n, q, h, e)
<1>1. p.last \in Int /\ 0 .. p.last \subseteq Frames /\ p.confirmed \in Nat
  BY SizesAssumption DEF Progress, Frames
<1> DEFINE S == SentBy(s, p.last) \ (q \cup h)
           T == SentBy(t, p.last) \ (q \cup h)
<1>2. S \subseteq T
  BY <1>1 DEF SentBy
<1>3. Cardinality(S) <= Cardinality(T) /\ Cardinality(S) \in Nat /\ Cardinality(T) \in Nat
  <2>1. IsFiniteSet(T)
    BY <1>1, FramesFinite, FS_Subset
  <2>2. QED
    BY <1>2, <2>1, Fewer
<1>4. p.confirmed <= Cardinality(T)
  <2>1. p.confirmed <= Cardinality(S)
    BY DEF Reaching
  <2> HIDE DEF S, T
  <2>2. QED
    BY <1>1, <1>3, <2>1
<1>5. Accounted(d \cup v, p, n, q, h, e) /\ (p.failed = 0 => Accounted(d, p, n, q, h, e))
  BY DEF Reaching, Accounted
<1>6. QED
  BY <1>4, <1>5 DEF Reaching

\* The frames that a run has confirmed are those it claims.
LEMMA ReachingClaims ==
    ASSUME NEW s, NEW c, NEW u, NEW p \in Progress, NEW n \in Int, NEW q, NEW h, NEW e,
           Reaching(s, c, u, p, n, q, h, e), p.last < n,
           \A f \in q : f > p.last, \A f \in h : f <= p.last => f \in c
    PROVE  Claims(s, c, u, p)
<1>1. p.last \in Int /\ p.confirmed \in Nat
  BY DEF Progress
<1>2. \A f \in 0 .. p.last : f \in 0 .. n - 1 /\ f \notin q /\ (f \in h => f \in c) /\ ~(f > p.last)
  BY <1>1
<1>3. 0 .. p.last \subseteq c \cup u /\ (p.failed = 0 => 0 .. p.last \subseteq c)
  BY <1>2 DEF Reaching, Accounted
<1> DEFINE S == SentBy(s, p.last) \ (q \cup h)
           T == SentBy(s, p.last)
<1>4. Cardinality(S) <= Cardinality(T) /\ Cardinality(S) \in Nat /\ Cardinality(T) \in Nat
  <2>1. IsFiniteSet(T) /\ S \subseteq T
    BY <1>1, FramesFinite
  <2>2. QED
    BY <2>1, Fewer
<1>5. p.confirmed <= Cardinality(T)
  <2>1. p.confirmed <= Cardinality(S)
    BY DEF Reaching
  <2> HIDE DEF S, T
  <2>2. QED
    BY <1>1, <1>4, <2>1
<1>6. QED
  BY <1>3, <1>5 DEF Claims

\* The next frame is decoded and queued.
LEMMA ReachingDecoded ==
    ASSUME NEW s, NEW c, NEW u, NEW p \in Progress, NEW n \in Frames, NEW q, NEW h,
           Reaching(s, c, u, p, n, q, h, FALSE), p.last < n
    PROVE  Reaching(s, c, u, p, n + 1, q \cup {n}, h, FALSE)
<1>1. n \in Nat /\ p.last \in Int /\ \A f \in 0 .. (n + 1) - 1 : f = n \/ f \in 0 .. n - 1
  BY DEF Frames, Progress
<1>2. SentBy(s, p.last) \ ((q \cup {n}) \cup h) = SentBy(s, p.last) \ (q \cup h)
  BY <1>1 DEF SentBy
<1>3. QED
  BY <1>1, <1>2 DEF Reaching, Accounted

\* The next frame cannot be decoded.
LEMMA ReachingSkipped ==
    ASSUME NEW s, NEW c, NEW u, NEW p \in Progress, NEW n \in Frames, NEW q, NEW h,
           Reaching(s, c, u, p, n, q, h, FALSE)
    PROVE  Reaching(s, c, u \cup {n}, [p EXCEPT !.failed = @ + 1], n + 1, q, h, FALSE)
<1> DEFINE r == [p EXCEPT !.failed = @ + 1]
<1>1. /\ n \in Nat /\ p.last \in Int /\ p.failed \in Nat
      /\ r.last = p.last /\ r.confirmed = p.confirmed /\ r.failed = p.failed + 1 /\ r.failed # 0
      /\ \A f \in 0 .. (n + 1) - 1 : f = n \/ f \in 0 .. n - 1
  BY DEF Frames, Progress
<1>2. Accounted(c \cup (u \cup {n}), r, n + 1, q, h, FALSE)
  BY <1>1 DEF Reaching, Accounted
<1>3. QED
  BY <1>1, <1>2 DEF Reaching

\* A publisher takes a frame.
LEMMA ReachingTaken ==
    ASSUME NEW s, NEW c, NEW u, NEW p, NEW n, NEW q, NEW h, NEW f \in q,
           Reaching(s, c, u, p, n, q, h, FALSE)
    PROVE  Reaching(s, c, u, p, n, q \ {f}, h \cup {f}, FALSE)
<1>1. (q \ {f}) \cup (h \cup {f}) = q \cup h
  OBVIOUS
<1>2. QED
  BY <1>1 DEF Reaching, Accounted

\* After an error what is queued is forgotten.
LEMMA ReachingForgotten ==
    ASSUME NEW s, NEW c, NEW u, NEW p \in Progress, NEW n, NEW q, NEW h, NEW e \in BOOLEAN,
           Reaching(s, c, u, p, n, q, h, e), \A f \in q : f > p.last /\ \A g \in h : g < f
    PROVE  Reaching(s, c, u, p, n, {}, h, TRUE)
<1>1. p.last \in Int /\ p.confirmed \in Nat
  BY DEF Progress
<1>2. Accounted(c \cup u, p, n, {}, h, TRUE) /\ (p.failed = 0 => Accounted(c, p, n, {}, h, TRUE))
  BY DEF Reaching, Accounted
<1> DEFINE S == SentBy(s, p.last) \ (q \cup h)
           T == SentBy(s, p.last) \ ({} \cup h)
<1>3. Cardinality(S) <= Cardinality(T) /\ Cardinality(S) \in Nat /\ Cardinality(T) \in Nat
  <2>1. IsFiniteSet(T) /\ S \subseteq T
    BY <1>1, FramesFinite, FS_Subset
  <2>2. QED
    BY <2>1, Fewer
<1>4. p.confirmed <= Cardinality(T)
  <2>1. p.confirmed <= Cardinality(S)
    BY DEF Reaching
  <2> HIDE DEF S, T
  <2>2. QED
    BY <1>1, <1>3, <2>1
<1>5. QED
  BY <1>2, <1>4 DEF Reaching

\* What record_confirmed does.
LEMMA ConfirmedProgress ==
    ASSUME NEW p \in Progress, NEW f \in Frames
    PROVE  /\ Confirmed(p, f) \in Progress /\ Confirmed(p, f).confirmed = p.confirmed + 1
           /\ Confirmed(p, f).failed = p.failed /\ Confirmed(p, f).last \in Int
           /\ Confirmed(p, f).last >= p.last /\ Confirmed(p, f).last >= f
           /\ Confirmed(p, f).last = p.last \/ Confirmed(p, f).last = f
<1>1. /\ p.confirmed + 1 \in Nat /\ p.last \in -1 .. NumFrames - 1 /\ f \in -1 .. NumFrames - 1
      /\ p.last \in Int /\ f \in Int
  BY SizesAssumption DEF Progress, Frames
<1> DEFINE l == IF f > p.last THEN f ELSE p.last
<1>2. l \in -1 .. NumFrames - 1 /\ l \in Int /\ l >= p.last /\ l >= f /\ (l = p.last \/ l = f)
  BY <1>1
<1>3. /\ Confirmed(p, f).confirmed = p.confirmed + 1 /\ Confirmed(p, f).failed = p.failed
      /\ Confirmed(p, f).last = l /\ Confirmed(p, f) \in Progress
  BY <1>1, <1>2 DEF Confirmed, Progress
<1>4. QED
  BY <1>2, <1>3

\* A frame that the broker has is confirmed.
LEMMA ReachingConfirmed ==
    ASSUME NEW s, NEW c, NEW u, NEW p \in Progress, NEW n, NEW q, NEW h, NEW f \in Frames,
           NEW e \in BOOLEAN, Reaching(s, c, u, p, n, q, h, e),
           f \in h, f \notin q, s[f] > 0, f \in c
    PROVE  Reaching(s, c, u, Confirmed(p, f), n, q, h \ {f}, e)
<1> DEFINE r == Confirmed(p, f)
           S == SentBy(s, p.last) \ (q \cup h)
           T == SentBy(s, r.last) \ (q \cup (h \ {f}))
<1>1. /\ p.last \in Int /\ p.confirmed \in Nat /\ f \in Nat
      /\ r.confirmed = p.confirmed + 1 /\ r.failed = p.failed /\ r.last \in Int
      /\ r.last >= p.last /\ r.last >= f /\ (r.last = p.last \/ r.last = f)
  BY ConfirmedProgress DEF Progress, Frames
<1> HIDE DEF r
<1>2. Accounted(c \cup u, r, n, q, h \ {f}, e) /\ (r.failed = 0 => Accounted(c, r, n, q, h \ {f}, e))
  <2>1. ASSUME NEW d, c \subseteq d, Accounted(d, p, n, q, h, e)
        PROVE  Accounted(d, r, n, q, h \ {f}, e)
    <3> SUFFICES ASSUME NEW x \in 0 .. n - 1
                 PROVE  \/ x \in d \cup q \cup (h \ {f})
                        \/ e /\ x > r.last /\ \A g \in h \ {f} : g < x
      BY DEF Accounted
    <3>1. CASE x \in d \cup q \cup h
      BY <2>1, <3>1
    <3>2. CASE e /\ x > p.last /\ \A g \in h : g < x
      BY <1>1, <3>2
    <3>3. QED
      BY <2>1, <3>1, <3>2 DEF Accounted
  <2>2. QED
    BY <1>1, <2>1 DEF Reaching
<1>3. S \cup {f} \subseteq T /\ f \notin S
  BY <1>1 DEF SentBy
<1>4. IsFiniteSet(S) /\ IsFiniteSet(T)
  BY <1>1, FramesFinite, FS_Subset
<1>5. /\ Cardinality(S \cup {f}) = Cardinality(S) + 1 /\ Cardinality(S \cup {f}) <= Cardinality(T)
      /\ Cardinality(S) \in Nat /\ Cardinality(T) \in Nat
  <2> HIDE DEF S, T
  <2>1. Cardinality(S \cup {f}) = Cardinality(S) + 1
    BY <1>3, <1>4, FS_AddElement
  <2>2. Cardinality(S \cup {f}) <= Cardinality(T)
    BY <1>3, <1>4, Fewer
  <2>3. QED
    BY <2>1, <2>2, <1>4, FS_CardinalityType
<1>6. r.confirmed <= Cardinality(T)
  <2>1. p.confirmed <= Cardinality(S)
    BY DEF Reaching
  <2> HIDE DEF S, T
  <2>2. QED
    BY <1>1, <1>5, <2>1
<1>7. Reaching(s, c, u, r, n, q, h \ {f}, e)
  BY <1>2, <1>6 DEF Reaching
<1>8. QED
  BY <1>7 DEF r



\* The bound on what is counted as failed survives growth.
LEMMA BoundKept ==
    ASSUME NEW x \in Nat, NEW A, NEW B, IsFiniteSet(B), A \subseteq B,
           NEW u \in SUBSET Frames, NEW v \in SUBSET Frames, u \subseteq v, NEW n \in Int,
           Bounded(x, A, u, n)
    PROVE  Bounded(x, B, v, n)
<1>1. PICK a, b, c \in Nat :
        /\ a + 1 <= Cardinality(A)
        /\ b = Cardinality(u) /\ c = Cardinality(u \cap 0 .. n - 1) /\ x <= a * b + c
  BY DEF Bounded
<1>2. /\ Cardinality(v) \in Nat /\ b <= Cardinality(v)
      /\ Cardinality(v \cap 0 .. n - 1) \in Nat /\ c <= Cardinality(v \cap 0 .. n - 1)
      /\ Cardinality(A) \in Nat /\ Cardinality(B) \in Nat /\ Cardinality(A) <= Cardinality(B)
  <2>1. IsFiniteSet(v) /\ v \cap 0 .. n - 1 \in SUBSET Frames
    BY FramesFinite
  <2>2. u \cap 0 .. n - 1 \subseteq v \cap 0 .. n - 1
    OBVIOUS
  <2>3. QED
    BY <1>1, <2>1, <2>2, FramesFinite, Fewer
<1>3. a * b <= a * Cardinality(v) /\ a * b \in Nat /\ a * Cardinality(v) \in Nat
  BY <1>1, <1>2, ProductGrows
<1>4. x <= a * Cardinality(v) + Cardinality(v \cap 0 .. n - 1)
  BY <1>1, <1>2, <1>3
<1>5. a + 1 <= Cardinality(B)
  BY <1>1, <1>2
<1>6. QED
  BY <1>1, <1>2, <1>4, <1>5 DEF Bounded

\* The next frame is counted at most once.
LEMMA BoundSkipped ==
    ASSUME NEW x \in Nat, NEW A, NEW u \in SUBSET Frames, NEW n \in Frames, Bounded(x, A, u, n)
    PROVE  Bounded(x + 1, A, u \cup {n}, n + 1)
<1>1. PICK a, b, c \in Nat :
        /\ a + 1 <= Cardinality(A)
        /\ b = Cardinality(u) /\ c = Cardinality(u \cap 0 .. n - 1) /\ x <= a * b + c
  BY DEF Bounded
<1> DEFINE v == u \cup {n}
           w == v \cap 0 .. (n + 1) - 1
<1>2. n \in Nat /\ v \in SUBSET Frames /\ w \in SUBSET Frames
  BY SizesAssumption DEF Frames
<1>3. w = (u \cap 0 .. n - 1) \cup {n} /\ n \notin u \cap 0 .. n - 1
  BY <1>2
<1>4. Cardinality(w) = c + 1
  <2>1. u \cap 0 .. n - 1 \in SUBSET Frames
    OBVIOUS
  <2>2. QED
    BY <1>1, <1>3, <2>1, FramesFinite, FS_AddElement
<1>5. Cardinality(v) \in Nat /\ b <= Cardinality(v)
  BY <1>1, <1>2, FramesFinite, Fewer
<1>6. a * b <= a * Cardinality(v) /\ a * b \in Nat /\ a * Cardinality(v) \in Nat
  BY <1>1, <1>5, ProductGrows
<1>7. x + 1 <= a * Cardinality(v) + Cardinality(w) /\ Cardinality(w) \in Nat
  BY <1>1, <1>4, <1>6
<1>8. QED
  BY <1>1, <1>5, <1>7 DEF Bounded

\* The next frame is not counted.
LEMMA BoundSent ==
    ASSUME NEW x \in Nat, NEW A, NEW u \in SUBSET Frames, NEW n \in Frames, Bounded(x, A, u, n)
    PROVE  Bounded(x, A, u, n + 1)
<1>1. PICK a, b, c \in Nat :
        /\ a + 1 <= Cardinality(A)
        /\ b = Cardinality(u) /\ c = Cardinality(u \cap 0 .. n - 1) /\ x <= a * b + c
  BY DEF Bounded
<1> DEFINE w == u \cap 0 .. (n + 1) - 1
<1>2. n \in Nat /\ u \cap 0 .. n - 1 \subseteq w /\ w \in SUBSET Frames
  BY DEF Frames
<1>3. Cardinality(w) \in Nat /\ c <= Cardinality(w)
  BY <1>1, <1>2, FramesFinite, Fewer
<1>4. a * b \in Nat
  BY ProductGrows
<1>5. x <= a * b + Cardinality(w)
  BY <1>1, <1>3, <1>4
<1>6. QED
  BY <1>1, <1>3, <1>5 DEF Bounded

\* What a run may have counted is within what its job's record may hold.
LEMMA BoundSaved ==
    ASSUME NEW x \in Nat, NEW A, IsFiniteSet(A), NEW u \in SUBSET Frames, NEW n \in Int, Bounded(x, A, u, n)
    PROVE  x <= Cardinality(A) * Cardinality(u)
<1>1. PICK a, b, c \in Nat :
        /\ a + 1 <= Cardinality(A)
        /\ b = Cardinality(u) /\ c = Cardinality(u \cap 0 .. n - 1) /\ x <= a * b + c
  BY DEF Bounded
<1>2. c <= b /\ Cardinality(A) \in Nat
  <2>1. u \cap 0 .. n - 1 \subseteq u /\ IsFiniteSet(u)
    BY FramesFinite
  <2>2. QED
    BY <1>1, <2>1, Fewer, FS_CardinalityType
<1>3. x <= (a + 1) * b
  BY <1>1, <1>2, ProductGrows
<1>4. (a + 1) * b <= Cardinality(A) * b /\ (a + 1) * b \in Nat /\ Cardinality(A) * b \in Nat
  BY <1>1, <1>2, ProductGrows
<1>5. QED
  BY <1>1, <1>3, <1>4

\* A first attempt starts from nothing.
LEMMA BoundFresh ==
    ASSUME NEW A, IsFiniteSet(A), A # {}, NEW u \in SUBSET Frames, NEW n \in Int
    PROVE  Bounded(0, A, u, n)
<1>1. Cardinality(A) \in Nat /\ 0 + 1 <= Cardinality(A)
  BY FS_CardinalityType, FS_EmptySet
<1>2. Cardinality(u) \in Nat /\ Cardinality(u \cap 0 .. n - 1) \in Nat
  <2>1. u \cap 0 .. n - 1 \in SUBSET Frames
    OBVIOUS
  <2>2. QED
    BY <2>1, FramesFinite
<1>3. 0 <= 0 * Cardinality(u) + Cardinality(u \cap 0 .. n - 1)
  BY <1>2
<1>4. QED
  BY <1>1, <1>2, <1>3 DEF Bounded

\* A new attempt starts from what its job's record holds.
LEMMA BoundResumed ==
    ASSUME NEW x \in Nat, NEW A, IsFiniteSet(A), NEW r, r \notin A,
           NEW u \in SUBSET Frames, NEW n \in Int, x <= Cardinality(A) * Cardinality(u)
    PROVE  Bounded(x, A \cup {r}, u, n)
<1>1. /\ Cardinality(A \cup {r}) = Cardinality(A) + 1 /\ Cardinality(A) \in Nat
      /\ Cardinality(u) \in Nat /\ Cardinality(u \cap 0 .. n - 1) \in Nat
  <2>1. u \cap 0 .. n - 1 \in SUBSET Frames
    OBVIOUS
  <2>2. QED
    BY <2>1, FramesFinite, FS_AddElement, FS_CardinalityType
<1>2. x <= Cardinality(A) * Cardinality(u) + Cardinality(u \cap 0 .. n - 1)
  BY <1>1, ProductGrows
<1>3. QED
  BY <1>1, <1>2 DEF Bounded

-----------------------------------------------------------------------------
(* The work of a run.                                                      *)

\* A request that has a run: it is about to start, or started.
HasRun == {"resuming", "creating"} \cup Live

\* The frames that were taken from the queue of a run and that it did not confirm.
InHand(r) == publishing[r] \cup confirming[r] \cup lost[r]

\* Only a run that goes on has work, and only one that was interrupted lost frames.
WorkKept(r) ==
    /\ IsFiniteSet(snapshots[r])
    /\ state[r] # "running" =>
         queue[r] = {} /\ publishing[r] = {} /\ confirming[r] = {} /\ snapshots[r] = {}
    /\ state[r] \notin Live \cup {"closing", "done"} => lost[r] = {} /\ verdict[r] = "none"
    /\ state[r] \in Live /\ verdict[r] # "error" => lost[r] = {}
    /\ verdict[r] = "error" => queue[r] = {}
    /\ state[r] = "running" => verdict[r] # "ended"

\* What is queued comes after what is in hand, and after what is confirmed.
WorkOrdered(r) ==
    /\ run[r].last < cursor[r]
    /\ \A f \in queue[r] \cup InHand(r) : f < cursor[r] /\ f # run[r].last
    /\ \A f \in queue[r] : f > run[r].last /\ \A g \in InHand(r) : g < f
    /\ publishing[r] \cap confirming[r] = {} /\ publishing[r] \cap lost[r] = {}
    /\ confirming[r] \cap lost[r] = {}

\* Each publisher has one frame in hand at most, and the highest that was confirmed was
\* in hand of one.
WorkBounded(r) ==
    /\ Busy(r) <= Publishers
    /\ Cardinality(InHand(r)) <= Publishers
    /\ Cardinality({f \in InHand(r) : f < run[r].last}) <= Publishers - 1

WorkInv == \A r \in Requests : WorkKept(r) /\ WorkOrdered(r) /\ WorkBounded(r)

\* The values of the variables of a run.
LEMMA RunTypes ==
    ASSUME TypeOK, NEW r \in Requests
    PROVE  /\ queue[r] \in SUBSET Frames /\ publishing[r] \in SUBSET Frames
           /\ confirming[r] \in SUBSET Frames /\ lost[r] \in SUBSET Frames
           /\ InHand(r) \in SUBSET Frames /\ snapshots[r] \in SUBSET Progress
           /\ run[r] \in Progress /\ run[r].last \in Int /\ run[r].confirmed \in Nat
           /\ run[r].failed \in Nat /\ cursor[r] \in Nat /\ cursor[r] <= NumFrames
           /\ \A f \in Frames : f \in Int
           /\ \A p \in Progress : p.last \in Int /\ p.confirmed \in Nat /\ p.failed \in Nat
<1>1. \A p \in Progress : p.last \in Int /\ p.confirmed \in Nat /\ p.failed \in Nat
  BY DEF Progress
<1>2. run[r] \in Progress /\ cursor[r] \in 0 .. NumFrames
  BY DEF TypeOK
<1>3. QED
  BY <1>1, <1>2, SizesAssumption DEF TypeOK, InHand, Frames

\* A step of a request moves no other request.
LEMMA OthersStay ==
    ASSUME TypeOK, NEW r \in Requests, Request(r), NEW q \in Requests, q # r
    PROVE  /\ state'[q] = state[q] /\ answer'[q] = answer[q] /\ job_id'[q] = job_id[q]
           /\ prior'[q] = prior[q] /\ run'[q] = run[q] /\ cursor'[q] = cursor[q]
           /\ verdict'[q] = verdict[q] /\ lost'[q] = lost[q] /\ queue'[q] = queue[q]
           /\ publishing'[q] = publishing[q] /\ confirming'[q] = confirming[q]
           /\ snapshots'[q] = snapshots[q]
<1>0. /\ DOMAIN state = Requests /\ DOMAIN answer = Requests /\ DOMAIN job_id = Requests
      /\ DOMAIN run = Requests /\ DOMAIN cursor = Requests /\ DOMAIN verdict = Requests
      /\ DOMAIN prior = Requests /\ DOMAIN lost = Requests /\ DOMAIN queue = Requests
      /\ DOMAIN publishing = Requests /\ DOMAIN confirming = Requests /\ DOMAIN snapshots = Requests
  BY DEF TypeOK
<1>1. state'[q] = state[q]
  <2>1. UNCHANGED state \/ \E s \in Admitted \cup {"done"} : Goes(r, s)
    BY DispatchStays
       DEF Request, Invalid, BadPath, Admit, Unavailable, Unopenable, Turned, Reserve, ReadPointer,
           ReadRecord, Start, RunReturns, Save, Mark, Escape, Close, Admitted, Reserving
  <2>2. QED
    BY <1>0, <2>1 DEF Goes
<1>2. answer'[q] = answer[q]
  <2>1. UNCHANGED answer \/ \E a : Answered(r, a)
    BY DispatchStays
       DEF Request, Invalid, BadPath, Admit, Unavailable, Unopenable, Turned, Reserve, ReadPointer,
           ReadRecord, Start, RunReturns, Save, Mark, Escape, Close
  <2>2. QED
    BY <1>0, <2>1 DEF Answered
<1>3. CASE ReadPointer(r) \/ ReadRecord(r) \/ RunReturns(r)
  BY <1>0, <1>1, <1>2, <1>3 DEF ReadPointer, ReadRecord, RunReturns, work, history
<1>4. CASE Dispatch(r)
  <2>1. UNCHANGED <<job_id, prior>>
    BY <1>4, DispatchStays
  <2>2. run'[q] = run[q] /\ cursor'[q] = cursor[q] /\ verdict'[q] = verdict[q]
    BY <1>0, <1>4
       DEF Dispatch, DecodeFrame, SkipFrame, TakeFrame, BrokerAccepts, Confirm, Checkpoint,
           CallRaises, HangUp
  <2>3. lost'[q] = lost[q] /\ queue'[q] = queue[q]
    BY <1>0, <1>4
       DEF Dispatch, DecodeFrame, SkipFrame, TakeFrame, BrokerAccepts, Confirm, Checkpoint,
           CallRaises, HangUp, GivesUp, work, history
  <2>4. publishing'[q] = publishing[q] /\ confirming'[q] = confirming[q]
    BY <1>0, <1>4
       DEF Dispatch, DecodeFrame, SkipFrame, TakeFrame, BrokerAccepts, Confirm, Checkpoint,
           CallRaises, HangUp, work
  <2>5. snapshots'[q] = snapshots[q]
    BY <1>0, <1>4
       DEF Dispatch, DecodeFrame, SkipFrame, TakeFrame, BrokerAccepts, Confirm, Checkpoint,
           CallRaises, HangUp, work
  <2>6. QED
    BY <1>1, <1>2, <2>1, <2>2, <2>3, <2>4, <2>5
<1>5. CASE ~(ReadPointer(r) \/ ReadRecord(r) \/ RunReturns(r) \/ Dispatch(r))
  <2>1. UNCHANGED <<local, history>>
    BY <1>5 DEF Request, Invalid, BadPath, Admit, Unavailable, Unopenable, Turned, Reserve, Start,
                Save, Mark, Escape, Close
  <2>2. QED
    BY <1>1, <1>2, <2>1 DEF local, work, history
<1>6. QED
  BY <1>3, <1>4, <1>5

\* What a step of a request outside the dispatch run does not change.
LEMMA QuietStays ==
    ASSUME NEW r \in Requests, Request(r), ~Dispatch(r)
    PROVE  /\ UNCHANGED <<queue, publishing, confirming, snapshots, lost, sent, undecodable>>
           /\ ReadRecord(r) \/ UNCHANGED <<prior, run, cursor>>
           /\ ReadRecord(r) \/ ReadPointer(r) \/ UNCHANGED job_id
           /\ RunReturns(r) \/ UNCHANGED verdict
BY DEF Request, Invalid, BadPath, Admit, Unavailable, Unopenable, Turned, Reserve, ReadPointer,
       ReadRecord, Start, RunReturns, Save, Mark, Escape, Close, local, work, history

\* Where it leads.
LEMMA QuietMoves ==
    ASSUME TypeOK, NEW r \in Requests, Request(r), ~Dispatch(r)
    PROVE  \/ /\ state[r] \in {"new", "opening"}
              /\ state'[r] \in {"opening", "pointer", "closing", "done"}
           \/ state[r] = "pointer" /\ state'[r] \in {"record", "creating"} /\ ReadPointer(r)
           \/ state[r] = "record" /\ state'[r] \in {"resuming", "creating"} /\ ReadRecord(r)
           \/ state[r] \in {"creating", "resuming"} /\ state'[r] = "running" /\ Start(r)
           \/ state[r] = "running" /\ state'[r] = "saving" /\ RunReturns(r)
           \/ state[r] = "saving" /\ state'[r] = "marking" /\ Save(r)
           \/ state[r] = "marking" /\ state'[r] = "closing" /\ Mark(r)
           \/ state[r] \in Reserving /\ state'[r] = "closing" /\ Escape(r)
           \/ state[r] = "closing" /\ state'[r] = "done"
<1>0. DOMAIN state = Requests
  BY DEF TypeOK
<1>1. \A s : Goes(r, s) => state'[r] = s
  BY <1>0 DEF Goes
<1>2. CASE Invalid(r) \/ BadPath(r) \/ Admit(r) \/ Unavailable(r) \/ Unopenable(r) \/ Turned(r) \/ Reserve(r)
  BY <1>1, <1>2 DEF Invalid, BadPath, Admit, Unavailable, Unopenable, Turned, Reserve
<1>3. CASE ReadPointer(r) \/ ReadRecord(r) \/ Start(r) \/ RunReturns(r)
  BY <1>1, <1>3 DEF ReadPointer, ReadRecord, Start, RunReturns
<1>4. CASE Save(r) \/ Mark(r) \/ Escape(r) \/ Close(r)
  BY <1>1, <1>4 DEF Save, Mark, Escape, Close
<1>5. QED
  BY <1>2, <1>3, <1>4 DEF Request

-----------------------------------------------------------------------------
(* What the steps of a dispatch run do to the run.                         *)

\* The next frame is decoded.
LEMMA DecodeMoves ==
    ASSUME TypeOK, NEW r \in Requests, DecodeFrame(r)
    PROVE  /\ verdict[r] = "none" /\ cursor[r] \in Frames
           /\ queue'[r] = queue[r] \cup {cursor[r]} /\ cursor'[r] = cursor[r] + 1
           /\ run'[r] = run[r] /\ publishing'[r] = publishing[r] /\ confirming'[r] = confirming[r]
           /\ snapshots'[r] = snapshots[r] /\ lost'[r] = lost[r] /\ verdict'[r] = verdict[r]
           /\ UNCHANGED <<redis, sent, undecodable, lost, interruptions, run, publishing, verdict>>
<1>1. r \in DOMAIN queue /\ r \in DOMAIN cursor
  BY DEF TypeOK
<1>2. cursor[r] \in Frames
  BY RunTypes, SizesAssumption DEF DecodeFrame, Frames
<1>3. QED
  BY <1>1, <1>2 DEF DecodeFrame, history

\* The next frame is not decodable.
LEMMA SkipMoves ==
    ASSUME TypeOK, HasJob, NEW r \in Requests, SkipFrame(r)
    PROVE  /\ verdict[r] = "none" /\ cursor[r] \in Frames
           /\ run'[r] = [run[r] EXCEPT !.failed = @ + 1] /\ cursor'[r] = cursor[r] + 1
           /\ run'[r].last = run[r].last /\ run'[r].confirmed = run[r].confirmed
           /\ run'[r].failed = run[r].failed + 1
           /\ queue'[r] = queue[r] /\ publishing'[r] = publishing[r] /\ confirming'[r] = confirming[r]
           /\ snapshots'[r] = snapshots[r] /\ lost'[r] = lost[r] /\ verdict'[r] = verdict[r]
           /\ job_id[r] \in Requests
           /\ undecodable'[job_id[r]] = undecodable[job_id[r]] \cup {cursor[r]}
           /\ \A j \in Requests : undecodable[j] \subseteq undecodable'[j]
           /\ UNCHANGED <<redis, sent, lost, interruptions, publishing, verdict>>
<1>1. r \in DOMAIN run /\ r \in DOMAIN cursor /\ job_id[r] \in Requests /\ DOMAIN undecodable = Requests
  BY DEF TypeOK, HasJob, Working, Live, SkipFrame
<1>2. cursor[r] \in Frames
  BY RunTypes, SizesAssumption DEF SkipFrame, Frames
<1>3. run[r] \in Progress
  BY RunTypes
<1>4. run'[r] = [run[r] EXCEPT !.failed = @ + 1]
  BY <1>1 DEF SkipFrame
<1>5. /\ run'[r].last = run[r].last /\ run'[r].confirmed = run[r].confirmed
      /\ run'[r].failed = run[r].failed + 1
  BY <1>3, <1>4 DEF Progress
<1>6. QED
  BY <1>1, <1>2, <1>4, <1>5 DEF SkipFrame, work

\* A publisher takes the first frame in the queue.
LEMMA TakeMoves ==
    ASSUME TypeOK, NEW r \in Requests, TakeFrame(r)
    PROVE  /\ Busy(r) < Publishers
           /\ \E f \in queue[r] :
                /\ \A g \in queue[r] : f <= g
                /\ queue'[r] = queue[r] \ {f} /\ publishing'[r] = publishing[r] \cup {f}
           /\ cursor'[r] = cursor[r] /\ run'[r] = run[r] /\ confirming'[r] = confirming[r]
           /\ snapshots'[r] = snapshots[r] /\ lost'[r] = lost[r] /\ verdict'[r] = verdict[r]
           /\ UNCHANGED <<redis, sent, undecodable, lost, interruptions, run, verdict>>
<1>1. r \in DOMAIN queue /\ r \in DOMAIN publishing
  BY DEF TypeOK
<1>2. QED
  BY <1>1 DEF TakeFrame, history

\* The broker accepts a frame.
LEMMA AcceptMoves ==
    ASSUME TypeOK, HasJob, NEW r \in Requests, BrokerAccepts(r)
    PROVE  /\ job_id[r] \in Requests
           /\ \E f \in publishing[r] :
                /\ publishing'[r] = publishing[r] \ {f} /\ confirming'[r] = confirming[r] \cup {f}
                /\ f \in Frames /\ sent'[job_id[r]][f] = sent[job_id[r]][f] + 1
                /\ \A j \in Requests : \A g \in Frames :
                     j # job_id[r] \/ g # f => sent'[j][g] = sent[j][g]
           /\ cursor'[r] = cursor[r] /\ run'[r] = run[r] /\ queue'[r] = queue[r]
           /\ snapshots'[r] = snapshots[r] /\ lost'[r] = lost[r] /\ verdict'[r] = verdict[r]
           /\ UNCHANGED <<redis, undecodable, lost, interruptions, run, verdict>>
<1>1. /\ r \in DOMAIN confirming /\ r \in DOMAIN publishing /\ job_id[r] \in Requests
      /\ sent \in [Requests -> [Frames -> Nat]]
  BY DEF TypeOK, HasJob, Working, Live, BrokerAccepts
<1>2. PICK f \in publishing[r] :
        /\ publishing' = [publishing EXCEPT ![r] = @ \ {f}]
        /\ confirming' = [confirming EXCEPT ![r] = @ \cup {f}]
        /\ sent' = [sent EXCEPT ![job_id[r]][f] = @ + 1]
  BY DEF BrokerAccepts
<1>3. f \in Frames
  BY <1>2, RunTypes
<1>4. /\ sent'[job_id[r]][f] = sent[job_id[r]][f] + 1
      /\ \A j \in Requests : \A g \in Frames : j # job_id[r] \/ g # f => sent'[j][g] = sent[j][g]
  BY <1>1, <1>2, <1>3
<1>5. QED
  BY <1>1, <1>2, <1>3, <1>4 DEF BrokerAccepts

\* A frame is confirmed, and a checkpoint may be due.
LEMMA ConfirmMoves ==
    ASSUME TypeOK, NEW r \in Requests, Confirm(r)
    PROVE  /\ \E f \in confirming[r] :
                /\ confirming'[r] = confirming[r] \ {f} /\ run'[r] = Confirmed(run[r], f)
                /\ \/ snapshots'[r] = snapshots[r] \cup {Confirmed(run[r], f)}
                   \/ snapshots'[r] = snapshots[r]
           /\ cursor'[r] = cursor[r] /\ queue'[r] = queue[r] /\ publishing'[r] = publishing[r]
           /\ lost'[r] = lost[r] /\ verdict'[r] = verdict[r]
           /\ UNCHANGED <<redis, sent, undecodable, lost, interruptions, publishing, verdict>>
<1>1. r \in DOMAIN confirming /\ r \in DOMAIN run /\ r \in DOMAIN snapshots
  BY DEF TypeOK
<1>2. QED
  BY <1>1 DEF Confirm, history

\* A checkpoint is written.
LEMMA CheckpointMoves ==
    ASSUME TypeOK, NEW r \in Requests, Checkpoint(r)
    PROVE  /\ \E s \in snapshots[r] : Saved(r, s) /\ snapshots'[r] = snapshots[r] \ {s}
           /\ cursor'[r] = cursor[r] /\ run'[r] = run[r] /\ queue'[r] = queue[r]
           /\ publishing'[r] = publishing[r] /\ confirming'[r] = confirming[r]
           /\ lost'[r] = lost[r] /\ verdict'[r] = verdict[r]
           /\ UNCHANGED <<sent, undecodable, lost, interruptions, run, publishing, verdict>>
<1>1. r \in DOMAIN snapshots
  BY DEF TypeOK
<1>2. QED
  BY <1>1 DEF Checkpoint, history

\* A call of a publisher raises.
LEMMA RaiseMoves ==
    ASSUME TypeOK, NEW r \in Requests, CallRaises(r)
    PROVE  /\ \/ /\ \E f \in publishing[r] :
                      publishing'[r] = publishing[r] \ {f} /\ lost'[r] = lost[r] \cup {f}
                 /\ confirming'[r] = confirming[r] /\ snapshots'[r] = snapshots[r] /\ UNCHANGED redis
              \/ /\ \E f \in confirming[r] :
                      confirming'[r] = confirming[r] \ {f} /\ lost'[r] = lost[r] \cup {f}
                 /\ publishing'[r] = publishing[r] /\ snapshots'[r] = snapshots[r] /\ UNCHANGED redis
              \/ /\ \E s \in snapshots[r] :
                      snapshots'[r] = snapshots[r] \ {s} /\ (Saved(r, s) \/ UNCHANGED redis)
                 /\ publishing'[r] = publishing[r] /\ confirming'[r] = confirming[r]
                 /\ lost'[r] = lost[r]
           /\ queue'[r] = {} /\ verdict'[r] = "error"
           /\ IF verdict[r] = "error" THEN UNCHANGED interruptions ELSE Interrupted
           /\ cursor'[r] = cursor[r] /\ run'[r] = run[r]
           /\ UNCHANGED <<sent, undecodable, run>>
<1>1. /\ r \in DOMAIN queue /\ r \in DOMAIN publishing /\ r \in DOMAIN confirming
      /\ r \in DOMAIN snapshots /\ r \in DOMAIN lost /\ r \in DOMAIN verdict
  BY DEF TypeOK
<1>2. QED
  BY <1>1 DEF CallRaises, GivesUp

\* The client hangs up.
LEMMA HangUpMoves ==
    ASSUME TypeOK, NEW r \in Requests, HangUp(r)
    PROVE  /\ verdict[r] = "none" /\ verdict'[r] = "aborted"
           /\ cursor'[r] = cursor[r] /\ run'[r] = run[r] /\ queue'[r] = queue[r]
           /\ publishing'[r] = publishing[r] /\ confirming'[r] = confirming[r]
           /\ lost'[r] = lost[r] /\ snapshots'[r] = snapshots[r]
           /\ UNCHANGED <<redis, sent, undecodable, lost, interruptions, run, publishing>>
<1>1. r \in DOMAIN verdict
  BY DEF TypeOK
<1>2. QED
  BY <1>1 DEF HangUp, work, history

\* A request that leaves its run, or never had one, has no work.
LEMMA NoWorkLeft ==
    ASSUME TypeOK, NEW r \in Requests, WorkKept(r), state[r] = "running" => Drained(r)
    PROVE  queue[r] = {} /\ publishing[r] = {} /\ confirming[r] = {} /\ snapshots[r] = {}
<1>1. CASE state[r] # "running"
  BY <1>1 DEF WorkKept
<1>2. CASE state[r] = "running"
  <2>1. IsFiniteSet(publishing[r]) /\ IsFiniteSet(confirming[r]) /\ IsFiniteSet(snapshots[r])
    BY RunTypes, FramesFinite DEF WorkKept
  <2>2. /\ Cardinality(publishing[r]) \in Nat /\ Cardinality(confirming[r]) \in Nat
        /\ Cardinality(snapshots[r]) \in Nat
    BY <2>1, FS_CardinalityType
  <2>3. /\ Cardinality(publishing[r]) = 0 /\ Cardinality(confirming[r]) = 0
        /\ Cardinality(snapshots[r]) = 0
    BY <1>2, <2>2 DEF Drained, Busy
  <2>4. QED
    BY <1>2, <2>1, <2>3, FS_EmptySet DEF Drained
<1>3. QED
  BY <1>1, <1>2

-----------------------------------------------------------------------------
(* The work of a run stays in order.                                       *)

\* The sizes of a set of frames that loses or gains one.
LEMMA OneLess ==
    ASSUME NEW S, IsFiniteSet(S), NEW x \in S
    PROVE  IsFiniteSet(S \ {x}) /\ Cardinality(S \ {x}) = Cardinality(S) - 1 /\ Cardinality(S) \in Nat
BY FS_RemoveElement, FS_CardinalityType

\* And one with another member.
LEMMA OneMore ==
    ASSUME NEW S, IsFiniteSet(S), NEW x
    PROVE  /\ IsFiniteSet(S \cup {x}) /\ Cardinality(S \cup {x}) <= Cardinality(S) + 1
           /\ Cardinality(S) \in Nat /\ Cardinality(S \cup {x}) \in Nat
BY FS_AddElement, FS_CardinalityType

\* The sizes of what a run has in hand.
LEMMA HandFinite ==
    ASSUME TypeOK, NEW r \in Requests, WorkKept(r)
    PROVE  /\ IsFiniteSet(publishing[r]) /\ IsFiniteSet(confirming[r]) /\ IsFiniteSet(snapshots[r])
           /\ IsFiniteSet(InHand(r)) /\ IsFiniteSet(lost[r])
           /\ Cardinality(publishing[r]) \in Nat /\ Cardinality(confirming[r]) \in Nat
           /\ Cardinality(snapshots[r]) \in Nat /\ Cardinality(InHand(r)) \in Nat
BY RunTypes, FramesFinite, FS_CardinalityType DEF WorkKept

\* Of what a run has in hand, at most so much as before.
LEMMA BoundedKept ==
    ASSUME TypeOK, TypeOK', NEW r \in Requests, WorkKept(r), WorkBounded(r), Busy(r)' <= Publishers,
           InHand(r)' \subseteq InHand(r), run'[r] = run[r]
    PROVE  WorkBounded(r)'
<1>1. IsFiniteSet(InHand(r))
  BY HandFinite
<1>2. Cardinality(InHand(r)') <= Publishers
  BY <1>1, Fewer, SizesAssumption DEF WorkBounded
<1> DEFINE S == {f \in InHand(r)' : f < run[r].last}
           T == {f \in InHand(r) : f < run[r].last}
<1>3. IsFiniteSet(T) /\ S \subseteq T
  BY <1>1, FS_Subset
<1>4. Cardinality(S) <= Cardinality(T) /\ Cardinality(S) \in Nat /\ Cardinality(T) \in Nat
  BY <1>3, Fewer
<1>5. Cardinality(S) <= Publishers - 1
  <2>1. Cardinality(T) <= Publishers - 1
    BY DEF WorkBounded
  <2> HIDE DEF S, T
  <2>2. QED
    BY <1>4, <2>1, SizesAssumption
<1>6. QED
  BY <1>2, <1>5 DEF WorkBounded

\* A step of the dispatch run keeps its own work in order.
LEMMA DispatchWork ==
    ASSUME TypeOK, TypeOK', HasJob, NEW r \in Requests, Dispatch(r),
           WorkKept(r), WorkOrdered(r), WorkBounded(r)
    PROVE  (WorkKept(r) /\ WorkOrdered(r) /\ WorkBounded(r))'
<1>0. state[r] = "running" /\ state'[r] = "running"
  BY DispatchStays
<1>1. /\ queue[r] \in SUBSET Frames /\ InHand(r) \in SUBSET Frames /\ run[r].last \in Int
      /\ cursor[r] \in Nat /\ \A f \in Frames : f \in Int
  BY RunTypes
<1>2. /\ IsFiniteSet(publishing[r]) /\ IsFiniteSet(confirming[r]) /\ IsFiniteSet(snapshots[r])
      /\ Cardinality(publishing[r]) \in Nat /\ Cardinality(confirming[r]) \in Nat
      /\ Cardinality(snapshots[r]) \in Nat /\ Busy(r) <= Publishers
  BY HandFinite DEF WorkBounded
<1>3. CASE DecodeFrame(r)
  <2>1. InHand(r)' = InHand(r) /\ Busy(r)' = Busy(r)
    BY <1>3, DecodeMoves DEF InHand, Busy
  <2>2. WorkBounded(r)'
    BY <1>2, <1>3, <2>1, DecodeMoves, BoundedKept
  <2>3. WorkKept(r)'
    BY <1>0, <1>3, DecodeMoves DEF WorkKept
  <2>4. WorkOrdered(r)'
    BY <1>1, <1>3, <2>1, DecodeMoves DEF WorkOrdered
  <2>5. QED
    BY <2>2, <2>3, <2>4
<1>4. CASE SkipFrame(r)
  <2>1. InHand(r)' = InHand(r) /\ Busy(r)' = Busy(r)
    BY <1>4, SkipMoves DEF InHand, Busy
  <2>2. WorkBounded(r)'
    BY <2>1, <1>4, SkipMoves DEF WorkBounded
  <2>3. WorkKept(r)'
    BY <1>0, <1>4, SkipMoves DEF WorkKept
  <2>4. WorkOrdered(r)'
    <3>1. /\ run'[r].last = run[r].last /\ cursor'[r] = cursor[r] + 1 /\ queue'[r] = queue[r]
          /\ publishing'[r] = publishing[r] /\ confirming'[r] = confirming[r] /\ lost'[r] = lost[r]
      BY <1>4, SkipMoves
    <3>2. \A f \in queue[r] \cup InHand(r) : f < cursor[r] => f < cursor[r] + 1
      BY <1>1
    <3>3. run[r].last < cursor[r] => run[r].last < cursor[r] + 1
      BY <1>1
    <3>4. QED
      BY <2>1, <3>1, <3>2, <3>3 DEF WorkOrdered
  <2>5. QED
    BY <2>2, <2>3, <2>4
<1>5. CASE TakeFrame(r)
  <2>1. PICK f \in queue[r] :
          /\ \A g \in queue[r] : f <= g
          /\ queue'[r] = queue[r] \ {f} /\ publishing'[r] = publishing[r] \cup {f}
    BY <1>5, TakeMoves
  <2>2. /\ Busy(r) < Publishers
        /\ cursor'[r] = cursor[r] /\ run'[r] = run[r] /\ confirming'[r] = confirming[r]
        /\ snapshots'[r] = snapshots[r] /\ lost'[r] = lost[r] /\ verdict'[r] = verdict[r]
    BY <1>5, TakeMoves
  <2>3. lost[r] = {} /\ verdict[r] # "error"
    BY <1>0, <2>1 DEF WorkKept, Live
  <2>4. InHand(r)' = InHand(r) \cup {f} /\ f > run[r].last /\ f \notin InHand(r)
    BY <1>1, <2>1, <2>2 DEF InHand, WorkOrdered
  <2>5. WorkKept(r)'
    BY <1>0, <2>1, <2>2, <2>3 DEF WorkKept
  <2>6. WorkOrdered(r)'
    BY <1>1, <2>1, <2>2, <2>3, <2>4 DEF WorkOrdered, InHand
  <2>7. Cardinality(publishing'[r]) <= Cardinality(publishing[r]) + 1 /\ Cardinality(publishing'[r]) \in Nat
    BY <1>2, <2>1, OneMore
  <2>8. Busy(r)' <= Publishers
    BY <1>2, <2>2, <2>7, SizesAssumption DEF Busy
  <2>9. Cardinality(InHand(r)') <= Publishers
    <3>1. InHand(r)' = publishing'[r] \cup confirming[r]
      BY <2>2, <2>3 DEF InHand
    <3>2. IsFiniteSet(publishing'[r])
      BY <1>2, <2>1, OneMore
    <3>3. publishing'[r] \cap confirming[r] = {}
      BY <2>4, <2>1 DEF WorkOrdered, InHand
    <3>4. Cardinality(publishing'[r] \cup confirming[r])
            = Cardinality(publishing'[r]) + Cardinality(confirming[r])
      <4>1. Cardinality(publishing'[r] \cup confirming[r])
              = Cardinality(publishing'[r]) + Cardinality(confirming[r])
                  - Cardinality(publishing'[r] \cap confirming[r])
        BY <1>2, <3>2, FS_Union
      <4>2. Cardinality(publishing'[r] \cap confirming[r]) = 0
        BY <3>3, FS_EmptySet
      <4>3. QED
        BY <1>2, <2>7, <4>1, <4>2
    <3>5. QED
      BY <1>2, <2>2, <2>7, <3>1, <3>4, SizesAssumption DEF Busy
  <2>10. {g \in InHand(r)' : g < run'[r].last} = {g \in InHand(r) : g < run[r].last}
    BY <1>1, <2>1, <2>2, <2>4
  <2>11. WorkBounded(r)'
    BY <2>8, <2>9, <2>10 DEF WorkBounded
  <2>12. QED
    BY <2>5, <2>6, <2>11
<1>6. CASE BrokerAccepts(r)
  <2>1. PICK f \in publishing[r] :
          publishing'[r] = publishing[r] \ {f} /\ confirming'[r] = confirming[r] \cup {f}
    BY <1>6, AcceptMoves
  <2>2. /\ cursor'[r] = cursor[r] /\ run'[r] = run[r] /\ queue'[r] = queue[r]
        /\ snapshots'[r] = snapshots[r] /\ lost'[r] = lost[r] /\ verdict'[r] = verdict[r]
    BY <1>6, AcceptMoves
  <2>3. InHand(r)' = InHand(r)
    BY <2>1, <2>2 DEF InHand
  <2>4. WorkKept(r)'
    BY <1>0, <2>1, <2>2 DEF WorkKept
  <2>5. WorkOrdered(r)'
    BY <2>1, <2>2, <2>3 DEF WorkOrdered
  <2>6. /\ Cardinality(publishing'[r]) = Cardinality(publishing[r]) - 1
        /\ Cardinality(confirming'[r]) <= Cardinality(confirming[r]) + 1
        /\ Cardinality(confirming'[r]) \in Nat
    BY <1>2, <2>1, OneLess, OneMore
  <2>7. Busy(r)' <= Publishers
    BY <1>2, <2>2, <2>6, SizesAssumption DEF Busy
  <2>8. QED
    BY <2>2, <2>3, <2>4, <2>5, <2>7, BoundedKept
<1>7. CASE Confirm(r)
  <2>1. PICK f \in confirming[r] :
          /\ confirming'[r] = confirming[r] \ {f} /\ run'[r] = Confirmed(run[r], f)
          /\ \/ snapshots'[r] = snapshots[r] \cup {Confirmed(run[r], f)}
             \/ snapshots'[r] = snapshots[r]
    BY <1>7, ConfirmMoves
  <2>2. /\ cursor'[r] = cursor[r] /\ queue'[r] = queue[r] /\ publishing'[r] = publishing[r]
        /\ lost'[r] = lost[r] /\ verdict'[r] = verdict[r]
    BY <1>7, ConfirmMoves
  <2>3. f \in InHand(r) /\ InHand(r)' = InHand(r) \ {f} /\ f \in Frames /\ f \in Int
    <3>1. f \in InHand(r) /\ f \in Frames /\ f \in Int
      BY <1>1, <2>1 DEF InHand
    <3>2. InHand(r)' = InHand(r) \ {f}
      BY <2>1, <2>2 DEF WorkOrdered, InHand
    <3>3. QED
      BY <3>1, <3>2
  <2>4. run'[r].last \in Int /\ (run'[r].last = run[r].last \/ run'[r].last = f)
    BY <2>1, <2>3, RunTypes, ConfirmedProgress
  <2>5. WorkKept(r)'
    <3>1. IsFiniteSet(snapshots'[r])
      BY <1>2, <2>1, OneMore
    <3>2. QED
      BY <1>0, <2>1, <2>2, <3>1 DEF WorkKept
  <2>6. WorkOrdered(r)'
    <3>1. run'[r].last < cursor'[r]
      BY <2>2, <2>3, <2>4 DEF WorkOrdered
    <3>2. \A g \in (queue[r] \cup InHand(r)) \ {f} : g < cursor[r] /\ g # run[r].last /\ g # f
      BY DEF WorkOrdered
    <3>3. \A g \in queue[r] : g > run[r].last /\ f < g /\ g # f
      BY <1>1, <2>3 DEF WorkOrdered
    <3>4. QED
      BY <2>1, <2>2, <2>3, <2>4, <3>1, <3>2, <3>3 DEF WorkOrdered
  <2>7. Busy(r)' <= Publishers
    <3>1. Cardinality(confirming'[r]) = Cardinality(confirming[r]) - 1
      BY <1>2, <2>1, OneLess
    <3>2. Cardinality(snapshots'[r]) <= Cardinality(snapshots[r]) + 1 /\ Cardinality(snapshots'[r]) \in Nat
      BY <1>2, <2>1, OneMore
    <3>3. QED
      BY <1>2, <2>2, <3>1, <3>2, SizesAssumption DEF Busy
  <2>8. IsFiniteSet(InHand(r)') /\ Cardinality(InHand(r)') <= Publishers - 1
    <3>1. IsFiniteSet(InHand(r)) /\ Cardinality(InHand(r)) <= Publishers
      BY HandFinite DEF WorkBounded
    <3>2. /\ IsFiniteSet(InHand(r) \ {f}) /\ Cardinality(InHand(r)) \in Nat
          /\ Cardinality(InHand(r) \ {f}) = Cardinality(InHand(r)) - 1
      BY <2>3, <3>1, OneLess
    <3>3. QED
      BY <2>3, <3>1, <3>2, SizesAssumption
  <2>9. Cardinality({g \in InHand(r)' : g < run'[r].last}) <= Publishers - 1
    <3> DEFINE S == {g \in InHand(r)' : g < run'[r].last}
    <3>1. Cardinality(S) <= Cardinality(InHand(r)') /\ Cardinality(S) \in Nat
          /\ Cardinality(InHand(r)') \in Nat
      BY <2>8, Fewer
    <3>2. QED
      BY <2>8, <3>1, SizesAssumption
  <2>10. WorkBounded(r)'
    <3>1. Cardinality(InHand(r)') <= Publishers
      BY <2>8, FS_CardinalityType, SizesAssumption
    <3>2. QED
      BY <2>7, <2>9, <3>1 DEF WorkBounded
  <2>11. QED
    BY <2>5, <2>6, <2>10
<1>8. CASE Checkpoint(r)
  <2>1. PICK s \in snapshots[r] : snapshots'[r] = snapshots[r] \ {s}
    BY <1>8, CheckpointMoves
  <2>2. /\ cursor'[r] = cursor[r] /\ run'[r] = run[r] /\ queue'[r] = queue[r]
        /\ publishing'[r] = publishing[r] /\ confirming'[r] = confirming[r]
        /\ lost'[r] = lost[r] /\ verdict'[r] = verdict[r]
    BY <1>8, CheckpointMoves
  <2>3. InHand(r)' = InHand(r)
    BY <2>2 DEF InHand
  <2>4. IsFiniteSet(snapshots'[r]) /\ Cardinality(snapshots'[r]) = Cardinality(snapshots[r]) - 1
    BY <1>2, <2>1, OneLess
  <2>5. WorkKept(r)' /\ WorkOrdered(r)'
    BY <1>0, <2>2, <2>3, <2>4 DEF WorkKept, WorkOrdered
  <2>6. Busy(r)' <= Publishers
    BY <1>2, <2>2, <2>4, SizesAssumption DEF Busy
  <2>7. QED
    BY <2>2, <2>3, <2>5, <2>6, BoundedKept
<1>9. CASE CallRaises(r)
  <2>1. /\ queue'[r] = {} /\ verdict'[r] = "error" /\ cursor'[r] = cursor[r] /\ run'[r] = run[r]
    BY <1>9, RaiseMoves
  <2>2. /\ InHand(r)' = InHand(r)
        /\ publishing'[r] \cap confirming'[r] = {} /\ publishing'[r] \cap lost'[r] = {}
        /\ confirming'[r] \cap lost'[r] = {}
    BY <1>9, RaiseMoves DEF InHand, WorkOrdered
  <2>3. IsFiniteSet(snapshots'[r]) /\ Busy(r)' <= Publishers
    <3>1. \/ /\ \E f \in publishing[r] : publishing'[r] = publishing[r] \ {f}
             /\ confirming'[r] = confirming[r] /\ snapshots'[r] = snapshots[r]
          \/ /\ \E f \in confirming[r] : confirming'[r] = confirming[r] \ {f}
             /\ publishing'[r] = publishing[r] /\ snapshots'[r] = snapshots[r]
          \/ /\ \E s \in snapshots[r] : snapshots'[r] = snapshots[r] \ {s}
             /\ publishing'[r] = publishing[r] /\ confirming'[r] = confirming[r]
      BY <1>9, RaiseMoves
    <3>2. \A S : \A x \in S : IsFiniteSet(S) =>
            /\ IsFiniteSet(S \ {x}) /\ Cardinality(S \ {x}) = Cardinality(S) - 1
            /\ Cardinality(S) \in Nat
      BY OneLess
    <3>3. IsFiniteSet(snapshots'[r])
      BY <1>2, <3>1, <3>2
    <3>4. Busy(r)' = Busy(r) - 1
      <4>1. \/ /\ Cardinality(publishing'[r]) = Cardinality(publishing[r]) - 1
               /\ confirming'[r] = confirming[r] /\ snapshots'[r] = snapshots[r]
            \/ /\ Cardinality(confirming'[r]) = Cardinality(confirming[r]) - 1
               /\ publishing'[r] = publishing[r] /\ snapshots'[r] = snapshots[r]
            \/ /\ Cardinality(snapshots'[r]) = Cardinality(snapshots[r]) - 1
               /\ publishing'[r] = publishing[r] /\ confirming'[r] = confirming[r]
        BY <1>2, <3>1, <3>2
      <4>2. QED
        BY <1>2, <4>1 DEF Busy
    <3>5. Busy(r) \in Nat
      BY <1>2 DEF Busy
    <3>6. QED
      BY <1>2, <3>3, <3>4, <3>5, SizesAssumption
  <2>4. WorkKept(r)' /\ WorkOrdered(r)'
    BY <1>0, <2>1, <2>2, <2>3 DEF WorkKept, WorkOrdered, Live
  <2>5. QED
    BY <2>1, <2>2, <2>3, <2>4, BoundedKept
<1>10. CASE HangUp(r)
  <2>1. InHand(r)' = InHand(r) /\ Busy(r)' = Busy(r)
    BY <1>10, HangUpMoves DEF InHand, Busy
  <2>2. WorkKept(r)' /\ WorkOrdered(r)'
    BY <1>0, <1>10, <2>1, HangUpMoves DEF WorkKept, WorkOrdered, Live
  <2>3. QED
    BY <1>2, <1>10, <2>1, <2>2, HangUpMoves, BoundedKept
<1>11. QED
  BY <1>3, <1>4, <1>5, <1>6, <1>7, <1>8, <1>9, <1>10 DEF Dispatch

\* So does any other step of its request.
LEMMA QuietWork ==
    ASSUME TypeOK, TypeOK', HasJob, NEW r \in Requests, Request(r), ~Dispatch(r),
           WorkKept(r), WorkOrdered(r), WorkBounded(r)
    PROVE  (WorkKept(r) /\ WorkOrdered(r) /\ WorkBounded(r))'
<1>1. UNCHANGED <<queue, publishing, confirming, snapshots, lost>>
  BY QuietStays
<1>2. InHand(r)' = InHand(r) /\ Busy(r)' = Busy(r)
  BY <1>1 DEF InHand, Busy
<1>3. CASE ReadRecord(r)
  <2>1. state[r] = "record" /\ state'[r] \in {"resuming", "creating"} /\ UNCHANGED verdict
    <3>1. DOMAIN state = Requests
      BY DEF TypeOK
    <3>2. QED
      BY <1>3, <3>1 DEF ReadRecord, Goes
  <2>2. queue[r] = {} /\ InHand(r) = {} /\ verdict[r] = "none"
    BY <2>1 DEF WorkKept, InHand, Live
  <2>3. run'[r].last < cursor'[r]
    <3>1. CASE UNCHANGED <<run, cursor>>
      BY <3>1 DEF WorkOrdered
    <3>2. CASE Resumable(job_id[r])
      <4>1. job_id[r] \in Requests
        BY <2>1 DEF HasJob, Working
      <4>2. /\ run'[r] = Seeded(jobs[job_id[r]]) /\ cursor'[r] = jobs[job_id[r]].last + 1
        BY <1>3, <3>2 DEF ReadRecord, StartSlot, TypeOK
      <4>3. run'[r].last = jobs[job_id[r]].last /\ jobs[job_id[r]].last \in Int
        BY <4>1, <4>2, ProgressTypes DEF Seeded, Progressed, Record
      <4>4. QED
        BY <4>2, <4>3
    <3>3. QED
      BY <1>3, <3>1, <3>2 DEF ReadRecord
  <2>4. WorkKept(r)' /\ WorkOrdered(r)'
    BY <1>1, <1>2, <2>1, <2>2, <2>3 DEF WorkKept, WorkOrdered, Live
  <2>5. WorkBounded(r)'
    <3>1. {f \in InHand(r)' : f < run'[r].last} = {} /\ Cardinality({}) = 0
      BY <1>2, <2>2, FS_EmptySet
    <3>2. QED
      <4>1. Cardinality({f \in InHand(r)' : f < run'[r].last}) <= Publishers - 1
        <5>1. Cardinality({f \in InHand(r)' : f < run'[r].last}) = 0
          BY <3>1
        <5>2. QED
          BY <5>1, SizesAssumption
      <4>2. QED
        BY <1>2, <4>1 DEF WorkBounded
  <2>6. QED
    BY <2>4, <2>5
<1>4. CASE ~ReadRecord(r)
  <2>1. UNCHANGED <<run, cursor>>
    BY <1>4, QuietStays
  <2>2. WorkOrdered(r)' /\ WorkBounded(r)'
    BY <1>1, <1>2, <2>1 DEF WorkOrdered, WorkBounded
  <2>3. state'[r] # "running" => queue[r] = {} /\ publishing[r] = {} /\ confirming[r] = {} /\ snapshots[r] = {}
    <3>1. state[r] = "running" => Drained(r)
      BY QuietMoves DEF RunReturns, Escape
    <3>2. QED
      BY <3>1, NoWorkLeft
  <2>4. /\ state'[r] \notin Live \cup {"closing", "done"} => lost[r] = {} /\ verdict'[r] = "none"
        /\ state'[r] \in Live /\ verdict'[r] # "error" => lost[r] = {}
        /\ verdict'[r] = "error" => queue[r] = {}
        /\ state'[r] = "running" => verdict'[r] # "ended"
    <3>1. CASE RunReturns(r)
      <4>1. /\ state[r] = "running" /\ state'[r] = "saving" /\ verdict'[r] # "none"
            /\ verdict'[r] # "error" => verdict[r] # "error"
            /\ verdict'[r] = "error" => verdict[r] = "error"
        BY <3>1 DEF RunReturns, Goes, TypeOK
      <4>2. QED
        BY <4>1 DEF WorkKept, Live
    <3>2. CASE ~RunReturns(r)
      <4>1. UNCHANGED verdict
        BY <3>2, QuietStays
      <4>2. QED
        BY <3>2, <4>1, QuietMoves DEF WorkKept, Live, Reserving
    <3>3. QED
      BY <3>1, <3>2
  <2>5. WorkKept(r)'
    BY <1>1, <2>3, <2>4 DEF WorkKept
  <2>6. QED
    BY <2>2, <2>5
<1>5. QED
  BY <1>3, <1>4

\* A step of a request keeps the work of all in order.
LEMMA RequestWork ==
    ASSUME TypeOK, TypeOK', HasJob, WorkInv, NEW r \in Requests, Request(r)
    PROVE  WorkInv'
<1> SUFFICES ASSUME NEW q \in Requests
             PROVE  (WorkKept(q) /\ WorkOrdered(q) /\ WorkBounded(q))'
  BY DEF WorkInv
<1>1. WorkKept(q) /\ WorkOrdered(q) /\ WorkBounded(q)
  BY DEF WorkInv
<1>2. CASE q = r
  BY <1>1, <1>2, DispatchWork, QuietWork
<1>3. CASE q # r
  <2>1. /\ state'[q] = state[q] /\ run'[q] = run[q] /\ cursor'[q] = cursor[q]
        /\ verdict'[q] = verdict[q] /\ lost'[q] = lost[q] /\ queue'[q] = queue[q]
        /\ publishing'[q] = publishing[q] /\ confirming'[q] = confirming[q]
        /\ snapshots'[q] = snapshots[q]
    BY <1>3, OthersStay
  <2>2. InHand(q)' = InHand(q) /\ Busy(q)' = Busy(q)
    BY <2>1 DEF InHand, Busy
  <2>3. QED
    BY <1>1, <2>1, <2>2 DEF WorkKept, WorkOrdered, WorkBounded
<1>4. QED
  BY <1>2, <1>3

-----------------------------------------------------------------------------
(* The records, the runs and the answers.                                  *)

\* The requests that have worked on a job, or do.
Attempts(j) == {r \in Requests : job_id[r] = j /\ state[r] # "record"}

\* The frames that the index of a run passed over, and that were not sent by it.
PassedOver(r) == {f \in publishing[r] \cup lost[r] : f < run[r].last}

\* The frames of a job that were sent, or that a run of it passed over.
Covered(j) ==
    {f \in Frames : sent[j][f] > 0 \/ \E r \in Requests : job_id[r] = j /\ f \in PassedOver(r)}

\* A request that has not chosen a job has no progress.
FreshInv ==
    \A r \in Requests :
        /\ state[r] \in {"new", "opening", "pointer"} => job_id[r] = None
        /\ state[r] \in {"new", "opening", "pointer", "record", "creating"}
             => run[r] = NoProgress /\ prior[r] = NoProgress /\ cursor[r] = 0
        /\ state[r] = "creating" => job_id[r] = r

\* Progress that a job's record may hold.
Fits(j, p) ==
    /\ Claims(sent[j], Covered(j), undecodable[j], p)
    /\ p.failed <= Cardinality(Attempts(j)) * Cardinality(undecodable[j])

RecordInv == \A j \in Requests : Fits(j, Progressed(jobs[j]))

RunTruthful(r) ==
    /\ Reaching(sent[job_id[r]], Covered(job_id[r]), undecodable[job_id[r]], run[r], cursor[r],
                queue[r], InHand(r), verdict[r] = "error")
    /\ Bounded(run[r].failed, Attempts(job_id[r]), undecodable[job_id[r]], cursor[r])
    /\ \A f \in confirming[r] : sent[job_id[r]][f] > 0
    /\ \A s \in snapshots[r] : Fits(job_id[r], s)

RunInv == \A r \in Requests : state[r] \in HasRun => RunTruthful(r)

VerdictInv ==
    \A r \in Requests : state[r] \in {"saving", "marking"} =>
        /\ verdict[r] # "none"
        /\ verdict[r] = "ended" => cursor[r] = NumFrames

AnswerKept(r) ==
    HttpStatus(answer[r]) = 200 =>
        /\ state[r] \in {"closing", "done"} /\ job_id[r] \in Requests
        /\ verdict[r] # "aborted" => \A f \in Frames :
             f \in Covered(job_id[r]) \/ (answer[r] = "PARTIAL" /\ f \in undecodable[job_id[r]])

AnswerInv == \A r \in Requests : AnswerKept(r)

HistoryInv == FreshInv /\ WorkInv /\ RecordInv /\ RunInv /\ VerdictInv /\ AnswerInv

\* The attempts at a job are finitely many.
LEMMA AttemptsFinite ==
    ASSUME NEW j
    PROVE  IsFiniteSet(Attempts(j)) /\ Cardinality(Attempts(j)) \in Nat
BY FS_Subset, FS_CardinalityType, RequestsAssumption DEF Attempts

\* The history only grows, whoever moves.
Grown ==
    /\ \A j \in Requests : \A f \in Frames : sent[j][f] <= sent'[j][f]
    /\ \A j \in Requests : undecodable[j] \subseteq undecodable'[j]
    /\ \A j \in Requests : Attempts(j) \subseteq Attempts(j)'
    /\ \A j \in Requests : Covered(j) \subseteq Covered(j)'

\* What a crash, a restart and silence do to a request.
Died(r) ==
    /\ state[r] \in Admitted /\ state'[r] = "done" /\ answer'[r] = "lost"
    /\ lost'[r] = lost[r] \cup publishing[r] /\ queue'[r] = {} /\ publishing'[r] = {}
    /\ confirming'[r] = {} /\ snapshots'[r] = {}

Same(r) ==
    /\ state'[r] = state[r] /\ answer'[r] = answer[r] /\ lost'[r] = lost[r]
    /\ queue'[r] = queue[r] /\ publishing'[r] = publishing[r]
    /\ confirming'[r] = confirming[r] /\ snapshots'[r] = snapshots[r]

OtherStep ==
    \/ \E j \in Requests : Silence(j)
    \/ \E p \in Replicas : Crash(p) \/ Restart(p)
    \/ UNCHANGED vars

\* A crash takes the work of the requests of its process.
LEMMA OtherMoves ==
    ASSUME TypeOK, OtherStep
    PROVE  /\ UNCHANGED <<host, job_id, prior, run, cursor, verdict, jobs, pointer, sent, undecodable>>
           /\ \A r \in Requests : Died(r) \/ Same(r)
<1>1. CASE \/ \E j \in Requests : Silence(j)
           \/ \E p \in Replicas : Restart(p)
           \/ UNCHANGED vars
  BY <1>1 DEF Silence, Restart, vars, local, work, history, redis, Same
<1>2. ASSUME NEW p \in Replicas, Crash(p)
      PROVE  /\ UNCHANGED <<host, job_id, prior, run, cursor, verdict, jobs, pointer, sent, undecodable>>
             /\ \A r \in Requests : Died(r) \/ Same(r)
  <2>1. UNCHANGED <<host, job_id, prior, run, cursor, verdict, jobs, pointer, sent, undecodable>>
    BY <1>2 DEF Crash, redis
  <2>2. ASSUME NEW r \in Requests PROVE Died(r) \/ Same(r)
    <3>1. CASE host[r] = p /\ state[r] \in Admitted
      BY <1>2, <3>1 DEF Crash, Died
    <3>2. CASE ~(host[r] = p /\ state[r] \in Admitted)
      BY <1>2, <3>2 DEF Crash, Same
    <3>3. QED
      BY <3>1, <3>2
  <2>3. QED
    BY <2>1, <2>2
<1>3. QED
  BY <1>1, <1>2 DEF OtherStep

\* Work stays in order when a process dies.
LEMMA OtherWork ==
    ASSUME TypeOK, TypeOK', WorkInv, OtherStep
    PROVE  WorkInv'
<1> SUFFICES ASSUME NEW r \in Requests
             PROVE  (WorkKept(r) /\ WorkOrdered(r) /\ WorkBounded(r))'
  BY DEF WorkInv
<1>1. WorkKept(r) /\ WorkOrdered(r) /\ WorkBounded(r)
  BY DEF WorkInv
<1>2. run'[r] = run[r] /\ cursor'[r] = cursor[r] /\ verdict'[r] = verdict[r] /\ (Died(r) \/ Same(r))
  BY OtherMoves
<1>3. CASE Died(r)
  <2>1. /\ state'[r] = "done" /\ queue'[r] = {} /\ publishing'[r] = {} /\ confirming'[r] = {}
        /\ snapshots'[r] = {} /\ InHand(r)' \subseteq InHand(r)
    BY <1>3 DEF Died, InHand
  <2>2. WorkKept(r)'
    BY <2>1, FS_EmptySet DEF WorkKept, Live
  <2>3. WorkOrdered(r)'
    BY <1>1, <1>2, <2>1 DEF WorkOrdered
  <2>4. Busy(r)' <= Publishers
    BY <2>1, FS_EmptySet, SizesAssumption DEF Busy
  <2>5. QED
    BY <1>1, <1>2, <2>1, <2>2, <2>3, <2>4, BoundedKept
<1>4. CASE Same(r)
  <2>1. InHand(r)' = InHand(r) /\ Busy(r)' = Busy(r)
    BY <1>4 DEF Same, InHand, Busy
  <2>2. QED
    BY <1>1, <1>2, <1>4, <2>1 DEF Same, WorkKept, WorkOrdered, WorkBounded
<1>5. QED
  BY <1>2, <1>3, <1>4

\* What a run passed over stays so, unless the broker accepts it.
LEMMA PassedOverKept ==
    ASSUME TypeOK, TypeOK', HasJob, WorkInv, NEW r \in Requests, Request(r), NEW f \in PassedOver(r)
    PROVE  /\ job_id'[r] = job_id[r]
           /\ f \in PassedOver(r)' \/ (job_id[r] \in Requests /\ f \in Frames /\ sent'[job_id[r]][f] > 0)
<1>1. f \in publishing[r] \cup lost[r] /\ f < run[r].last /\ f \in Frames /\ f \in Int
  BY RunTypes DEF PassedOver
<1>2. WorkKept(r)
  BY DEF WorkInv
<1>3. CASE Dispatch(r)
  <2>0. UNCHANGED job_id
    BY <1>3, DispatchStays
  <2>1. run'[r].last >= run[r].last /\ run'[r].last \in Int
    <3>1. CASE Confirm(r)
      <4>1. PICK g \in confirming[r] : run'[r] = Confirmed(run[r], g)
        BY <3>1, ConfirmMoves
      <4>2. g \in Frames /\ run[r] \in Progress
        BY RunTypes
      <4>3. QED
        BY <4>1, <4>2, ConfirmedProgress
    <3>2. CASE SkipFrame(r)
      <4>1. run'[r].last = run[r].last
        BY <3>2, SkipMoves
      <4>2. run[r].last \in Int
        BY RunTypes
      <4>3. QED
        BY <4>1, <4>2
    <3>3. CASE ~Confirm(r) /\ ~SkipFrame(r)
      BY <1>3, <3>3, RunTypes, DecodeMoves, TakeMoves, AcceptMoves, CheckpointMoves, RaiseMoves,
         HangUpMoves DEF Dispatch
    <3>4. QED
      BY <3>1, <3>2, <3>3
  <2>2. CASE f \in publishing'[r] \cup lost'[r]
    <3>1. f < run'[r].last
      BY <1>1, <2>1, RunTypes
    <3>2. QED
      BY <2>0, <2>2, <3>1 DEF PassedOver
  <2>3. CASE f \notin publishing'[r] \cup lost'[r]
    <3>1. BrokerAccepts(r)
      BY <1>1, <1>3, <2>3, DecodeMoves, SkipMoves, TakeMoves, ConfirmMoves, CheckpointMoves,
         RaiseMoves, HangUpMoves DEF Dispatch
    <3>2. PICK g \in publishing[r] :
            publishing'[r] = publishing[r] \ {g} /\ sent'[job_id[r]][g] = sent[job_id[r]][g] + 1
      BY <3>1, AcceptMoves
    <3>3. g = f /\ job_id[r] \in Requests
      BY <1>1, <2>3, <3>1, <3>2, AcceptMoves
    <3>4. sent[job_id[r]][f] \in Nat
      BY <1>1, <3>3 DEF TypeOK
    <3>5. QED
      BY <1>1, <2>0, <3>2, <3>3, <3>4
  <2>4. QED
    BY <2>2, <2>3
<1>4. CASE ~Dispatch(r)
  <2>1. state[r] \notin {"pointer", "record"}
    BY <1>1, <1>2 DEF WorkKept, Live
  <2>2. UNCHANGED <<run, job_id, publishing, lost>>
    BY <1>4, <2>1, QuietStays DEF ReadPointer, ReadRecord
  <2>3. QED
    BY <1>1, <2>2 DEF PassedOver
<1>5. QED
  BY <1>3, <1>4

\* What each step of a request does to the history and to its own attempt.
LEMMA RequestGrows ==
    ASSUME TypeOK, TypeOK', HasJob, FreshInv, WorkInv, NEW r \in Requests, Request(r)
    PROVE  Grown
<1>1. ASSUME NEW j \in Requests, NEW f \in Frames PROVE sent[j][f] <= sent'[j][f]
  <2>0. sent[j][f] \in Nat
    BY DEF TypeOK
  <2>1. CASE BrokerAccepts(r)
    BY <2>0, <2>1, AcceptMoves
  <2>2. CASE ~BrokerAccepts(r)
    <3>1. UNCHANGED sent
      BY <2>2, QuietStays, DecodeMoves, SkipMoves, TakeMoves, ConfirmMoves, CheckpointMoves,
         RaiseMoves, HangUpMoves DEF Dispatch
    <3>2. QED
      BY <2>0, <3>1
  <2>3. QED
    BY <2>1, <2>2
<1>2. \A j \in Requests : undecodable[j] \subseteq undecodable'[j]
  <2>1. CASE SkipFrame(r)
    BY <2>1, SkipMoves
  <2>2. CASE ~SkipFrame(r)
    BY <2>2, QuietStays, DecodeMoves, AcceptMoves, TakeMoves, ConfirmMoves, CheckpointMoves,
       RaiseMoves, HangUpMoves DEF Dispatch
  <2>3. QED
    BY <2>1, <2>2
<1>3. \A j \in Requests : Attempts(j) \subseteq Attempts(j)'
  <2>1. \/ state[r] \in {"new", "opening", "pointer", "record"}
        \/ job_id'[r] = job_id[r] /\ state'[r] # "record"
    <3>1. CASE Dispatch(r)
      BY <3>1, DispatchStays
    <3>2. CASE ~Dispatch(r)
      BY <3>2, QuietStays, QuietMoves DEF ReadPointer, ReadRecord, Reserving
    <3>3. QED
      BY <3>1, <3>2
  <2>2. \A j \in Requests :
          state[r] \in {"new", "opening", "pointer", "record"} => r \notin Attempts(j)
    BY RequestsAssumption DEF FreshInv, Attempts
  <2>3. QED
    BY <2>1, <2>2, OthersStay DEF Attempts
<1>4. ASSUME NEW j \in Requests, NEW f \in Covered(j) PROVE f \in Covered(j)'
  <2>0. f \in Frames
    BY DEF Covered
  <2>1. CASE sent[j][f] > 0
    <3>1. sent'[j][f] > 0
      <4>1. sent[j][f] \in Nat /\ sent'[j][f] \in Nat
        BY <2>0 DEF TypeOK
      <4>2. QED
        BY <1>1, <2>0, <2>1, <4>1
    <3>2. QED
      BY <2>0, <3>1 DEF Covered
  <2>2. ASSUME NEW q \in Requests, job_id[q] = j, f \in PassedOver(q)
        PROVE  f \in Covered(j)'
    <3>1. CASE q = r
      BY <2>0, <2>2, <3>1, PassedOverKept DEF Covered
    <3>2. CASE q # r
      <4>1. job_id'[q] = j /\ f \in PassedOver(q)'
        BY <2>2, <3>2, OthersStay DEF PassedOver
      <4>2. QED
        BY <2>0, <4>1 DEF Covered
    <3>3. QED
      BY <3>1, <3>2
  <2>3. QED
    BY <2>1, <2>2 DEF Covered
<1>5. QED
  BY <1>1, <1>2, <1>3, <1>4 DEF Grown

\* A crash takes nothing from the history.
LEMMA OtherGrows ==
    ASSUME TypeOK, TypeOK', OtherStep
    PROVE  Grown
<1>1. UNCHANGED <<job_id, run, sent, undecodable>> /\ \A r \in Requests : Died(r) \/ Same(r)
  BY OtherMoves
<1>2. \A j \in Requests : \A f \in Frames : sent[j][f] <= sent'[j][f]
  BY <1>1 DEF TypeOK
<1>3. \A j \in Requests : Attempts(j) \subseteq Attempts(j)'
  BY <1>1 DEF Attempts, Died, Same
<1>4. \A r \in Requests : PassedOver(r) \subseteq PassedOver(r)'
  BY <1>1 DEF PassedOver, Died, Same
<1>5. \A j \in Requests : Covered(j) \subseteq Covered(j)'
  BY <1>1, <1>4 DEF Covered
<1>6. QED
  BY <1>1, <1>2, <1>3, <1>5 DEF Grown

\* What a record may hold it may hold when the history has grown.
LEMMA FitsKept ==
    ASSUME TypeOK, TypeOK', Grown, NEW j \in Requests, NEW p \in Progress, Fits(j, p)
    PROVE  /\ Claims(sent'[j], Covered(j)', undecodable'[j], p)
           /\ p.failed <= Cardinality(Attempts(j)') * Cardinality(undecodable'[j])
<1>1. /\ sent[j] \in [Frames -> Nat] /\ sent'[j] \in [Frames -> Nat]
      /\ undecodable[j] \in SUBSET Frames /\ undecodable'[j] \in SUBSET Frames
      /\ p.failed \in Nat
  BY DEF TypeOK, Progress
<1>2. /\ \A f \in Frames : sent[j][f] <= sent'[j][f]
      /\ undecodable[j] \subseteq undecodable'[j] /\ Attempts(j) \subseteq Attempts(j)'
      /\ Covered(j) \subseteq Covered(j)'
  BY DEF Grown
<1>3. IsFiniteSet(Attempts(j)')
  BY FS_Subset, RequestsAssumption DEF Attempts
<1>4. Claims(sent'[j], Covered(j)', undecodable'[j], p)
  <2>1. Claims(sent[j], Covered(j), undecodable[j], p)
    BY DEF Fits
  <2>2. QED
    BY <1>1, <1>2, <2>1, ClaimsKept
<1>5. /\ Cardinality(Attempts(j)) \in Nat /\ Cardinality(Attempts(j)') \in Nat
      /\ Cardinality(Attempts(j)) <= Cardinality(Attempts(j)')
  BY <1>2, <1>3, Fewer
<1>6. /\ Cardinality(undecodable[j]) \in Nat /\ Cardinality(undecodable'[j]) \in Nat
      /\ Cardinality(undecodable[j]) <= Cardinality(undecodable'[j])
  BY <1>1, <1>2, FramesFinite, Fewer
<1> DEFINE now == Cardinality(Attempts(j)) * Cardinality(undecodable[j])
           next == Cardinality(Attempts(j)') * Cardinality(undecodable'[j])
<1>7. now <= next /\ now \in Nat /\ next \in Nat
  BY <1>5, <1>6, ProductGrows
<1>8. p.failed <= next
  <2>1. p.failed <= now
    BY DEF Fits
  <2> HIDE DEF now, next
  <2>2. QED
    BY <1>1, <1>7, <2>1
<1>9. QED
  BY <1>4, <1>8

\* What a run reached, it reached when the history has grown.
LEMMA ReachKept ==
    ASSUME TypeOK, TypeOK', Grown, NEW j \in Requests, NEW u \in SUBSET Frames, u \subseteq undecodable'[j],
           NEW p \in Progress, NEW n, NEW q, NEW h, NEW e,
           Reaching(sent[j], Covered(j), u, p, n, q, h, e)
    PROVE  Reaching(sent'[j], Covered(j)', undecodable'[j], p, n, q, h, e)
<1>1. /\ sent[j] \in [Frames -> Nat] /\ sent'[j] \in [Frames -> Nat]
      /\ \A f \in Frames : sent[j][f] <= sent'[j][f]
  BY DEF TypeOK, Grown
<1>2. Covered(j) \subseteq Covered(j)'
  BY DEF Grown
<1>3. QED
  BY <1>1, <1>2, ReachingKept

\* So is the count of what could not be decoded.
LEMMA CountKept ==
    ASSUME TypeOK, TypeOK', Grown, NEW j \in Requests, NEW x \in Nat, NEW n \in Int,
           Bounded(x, Attempts(j), undecodable[j], n)
    PROVE  Bounded(x, Attempts(j)', undecodable'[j], n)
<1>1. /\ undecodable[j] \in SUBSET Frames /\ undecodable'[j] \in SUBSET Frames
      /\ undecodable[j] \subseteq undecodable'[j] /\ Attempts(j) \subseteq Attempts(j)'
  BY DEF TypeOK, Grown
<1>2. IsFiniteSet(Attempts(j)')
  BY FS_Subset, RequestsAssumption DEF Attempts
<1>3. QED
  BY <1>1, <1>2, BoundKept

\* What a run claims stays true as long as it does not move.
LEMMA RunKept ==
    ASSUME TypeOK, TypeOK', Grown, NEW r \in Requests, job_id[r] \in Requests, RunTruthful(r),
           job_id'[r] = job_id[r], run'[r] = run[r], cursor'[r] = cursor[r],
           queue'[r] = queue[r], InHand(r)' = InHand(r),
           (verdict'[r] = "error") = (verdict[r] = "error"),
           confirming'[r] \subseteq confirming[r], snapshots'[r] \subseteq snapshots[r]
    PROVE  RunTruthful(r)'
<1> DEFINE j == job_id[r]
<1>1. /\ run[r] \in Progress /\ run[r].failed \in Nat /\ cursor[r] \in Int
      /\ undecodable[j] \in SUBSET Frames /\ undecodable[j] \subseteq undecodable'[j]
      /\ snapshots[r] \in SUBSET Progress /\ confirming[r] \in SUBSET Frames
  BY RunTypes DEF Grown, TypeOK
<1>2. Reaching(sent[j], Covered(j), undecodable[j], run[r], cursor[r], queue[r], InHand(r),
               verdict[r] = "error")
  BY DEF RunTruthful
<1>3. Reaching(sent'[j], Covered(j)', undecodable'[j], run[r], cursor[r], queue[r], InHand(r),
               verdict[r] = "error")
  BY <1>1, <1>2, ReachKept
<1>4. Bounded(run[r].failed, Attempts(j)', undecodable'[j], cursor[r])
  BY <1>1, CountKept DEF RunTruthful
<1>5. \A f \in confirming'[r] : sent'[j][f] > 0
  <2> SUFFICES ASSUME NEW f \in confirming'[r] PROVE sent'[j][f] > 0
    OBVIOUS
  <2>1. f \in Frames /\ sent[j][f] > 0
    BY <1>1 DEF RunTruthful
  <2>2. sent[j][f] \in Nat /\ sent'[j][f] \in Nat /\ sent[j][f] <= sent'[j][f]
    BY <2>1 DEF TypeOK, Grown
  <2>3. QED
    BY <2>1, <2>2
<1>6. \A s \in snapshots'[r] :
        /\ Claims(sent'[j], Covered(j)', undecodable'[j], s)
        /\ s.failed <= Cardinality(Attempts(j)') * Cardinality(undecodable'[j])
  BY <1>1, FitsKept DEF RunTruthful
<1>7. Reaching(sent'[job_id'[r]], Covered(job_id[r])', undecodable'[job_id'[r]], run'[r], cursor'[r],
               queue'[r], InHand(r)', verdict'[r] = "error")
  BY <1>3
<1>8. QED
  BY <1>4, <1>5, <1>6, <1>7 DEF RunTruthful, Fits


\* A run may be written to its job's record at any time.
LEMMA ReachingFits ==
    ASSUME NEW s, NEW c, NEW u \in SUBSET Frames, NEW A, IsFiniteSet(A), NEW p \in Progress,
           NEW n \in Int, NEW q, NEW h, NEW e,
           Reaching(s, c, u, p, n, q, h, e), Bounded(p.failed, A, u, n), p.last < n,
           \A f \in q : f > p.last, \A f \in h : f <= p.last => f \in c
    PROVE  Claims(s, c, u, p) /\ p.failed <= Cardinality(A) * Cardinality(u)
<1>1. p.failed \in Nat
  BY DEF Progress
<1>2. QED
  BY <1>1, ReachingClaims, BoundSaved

\* So its progress fits the record of its job.
LEMMA RunFits ==
    ASSUME TypeOK, NEW r \in Requests, job_id[r] \in Requests, WorkOrdered(r), RunTruthful(r)
    PROVE  Fits(job_id[r], run[r])
<1> DEFINE j == job_id[r]
<1>1. /\ run[r] \in Progress /\ run[r].last \in Int /\ cursor[r] \in Int
      /\ undecodable[j] \in SUBSET Frames /\ InHand(r) \in SUBSET Frames
      /\ \A f \in Frames : f \in Int
  BY RunTypes DEF TypeOK
<1>2. \A f \in InHand(r) : f <= run[r].last => f \in Covered(j)
  <2> SUFFICES ASSUME NEW f \in InHand(r), f <= run[r].last
               PROVE  f \in Covered(j)
    OBVIOUS
  <2>1. f \in Frames /\ f < run[r].last
    BY <1>1 DEF WorkOrdered
  <2>2. QED
    BY <2>1 DEF RunTruthful, InHand, Covered, PassedOver
<1>3. run[r].last < cursor[r] /\ \A f \in queue[r] : f > run[r].last
  BY DEF WorkOrdered
<1>4. /\ Reaching(sent[j], Covered(j), undecodable[j], run[r], cursor[r], queue[r], InHand(r),
                  verdict[r] = "error")
      /\ Bounded(run[r].failed, Attempts(j), undecodable[j], cursor[r])
  BY DEF RunTruthful
<1>5. QED
  BY <1>1, <1>2, <1>3, <1>4, AttemptsFinite, ReachingFits DEF Fits

\* A step of the dispatch run keeps its claims true.
LEMMA DispatchRuns ==
    ASSUME TypeOK, TypeOK', HasJob, Grown, NEW r \in Requests, Dispatch(r),
           WorkKept(r), WorkOrdered(r), WorkOrdered(r)', RunTruthful(r)
    PROVE  RunTruthful(r)'
<1> DEFINE j == job_id[r]
<1>0. /\ state[r] = "running" /\ UNCHANGED job_id /\ j \in Requests
  BY DispatchStays DEF HasJob, Working, Live
<1>1. /\ run[r] \in Progress /\ run[r].failed \in Nat /\ run[r].last \in Int /\ cursor[r] \in Nat
      /\ queue[r] \in SUBSET Frames /\ InHand(r) \in SUBSET Frames
      /\ undecodable[j] \in SUBSET Frames /\ undecodable[j] \subseteq undecodable'[j]
      /\ undecodable'[j] \in SUBSET Frames
      /\ snapshots[r] \in SUBSET Progress /\ confirming[r] \in SUBSET Frames
      /\ \A f \in Frames : f \in Int
  BY <1>0, RunTypes DEF Grown, TypeOK
<1>2. /\ Reaching(sent[j], Covered(j), undecodable[j], run[r], cursor[r], queue[r], InHand(r),
                  verdict[r] = "error")
      /\ Bounded(run[r].failed, Attempts(j), undecodable[j], cursor[r])
  BY DEF RunTruthful
<1>3. \A f \in Frames : sent[j][f] > 0 => sent'[j][f] > 0
  <2> SUFFICES ASSUME NEW f \in Frames, sent[j][f] > 0 PROVE sent'[j][f] > 0
    OBVIOUS
  <2>1. sent[j][f] \in Nat /\ sent'[j][f] \in Nat /\ sent[j][f] <= sent'[j][f]
    BY <1>0 DEF TypeOK, Grown
  <2>2. QED
    BY <2>1
<1>4. \A f \in confirming[r] : sent'[j][f] > 0
  BY <1>1, <1>3 DEF RunTruthful
<1>5. \A s \in snapshots[r] :
        /\ Claims(sent'[j], Covered(j)', undecodable'[j], s)
        /\ s.failed <= Cardinality(Attempts(j)') * Cardinality(undecodable'[j])
  BY <1>0, <1>1, FitsKept DEF RunTruthful
<1>6. CASE DecodeFrame(r)
  <2>1. /\ verdict[r] = "none" /\ cursor[r] \in Frames
        /\ queue'[r] = queue[r] \cup {cursor[r]} /\ cursor'[r] = cursor[r] + 1
        /\ run'[r] = run[r] /\ confirming'[r] = confirming[r] /\ snapshots'[r] = snapshots[r]
        /\ InHand(r)' = InHand(r) /\ verdict'[r] = verdict[r]
    BY <1>6, DecodeMoves DEF InHand
  <2>2. Reaching(sent[j], Covered(j), undecodable[j], run[r], cursor[r] + 1, queue[r] \cup {cursor[r]},
                 InHand(r), FALSE)
    <3>1. /\ (verdict[r] = "error") = FALSE /\ run[r].last < cursor[r]
      BY <2>1 DEF WorkOrdered
    <3>2. Reaching(sent[j], Covered(j), undecodable[j], run[r], cursor[r], queue[r], InHand(r), FALSE)
      BY <1>2, <3>1
    <3>3. QED
      BY <1>1, <2>1, <3>1, <3>2, ReachingDecoded
  <2>3. Reaching(sent'[j], Covered(j)', undecodable'[j], run[r], cursor[r] + 1,
                 queue[r] \cup {cursor[r]}, InHand(r), FALSE)
    BY <1>0, <1>1, <2>2, ReachKept
  <2>4. Bounded(run[r].failed, Attempts(j)', undecodable'[j], cursor[r] + 1)
    <3>1. Bounded(run[r].failed, Attempts(j), undecodable[j], cursor[r] + 1)
      BY <1>1, <1>2, <2>1, BoundSent
    <3>2. QED
      BY <1>0, <1>1, <3>1, CountKept
  <2>5. Reaching(sent'[j], Covered(j)', undecodable'[j], run'[r], cursor'[r], queue'[r], InHand(r)',
                 verdict'[r] = "error")
    BY <2>1, <2>3
  <2>6. QED
    BY <1>0, <1>4, <1>5, <2>1, <2>4, <2>5 DEF RunTruthful, Fits
<1>7. CASE SkipFrame(r)
  <2>1. /\ verdict[r] = "none" /\ cursor[r] \in Frames
        /\ queue'[r] = queue[r] /\ cursor'[r] = cursor[r] + 1
        /\ run'[r] = [run[r] EXCEPT !.failed = @ + 1] /\ run'[r].failed = run[r].failed + 1
        /\ confirming'[r] = confirming[r] /\ snapshots'[r] = snapshots[r]
        /\ InHand(r)' = InHand(r) /\ verdict'[r] = verdict[r]
        /\ undecodable'[j] = undecodable[j] \cup {cursor[r]}
    BY <1>7, SkipMoves DEF InHand
  <2>2. Reaching(sent[j], Covered(j), undecodable[j] \cup {cursor[r]}, run'[r], cursor[r] + 1, queue[r],
                 InHand(r), FALSE)
    <3>1. (verdict[r] = "error") = FALSE
      BY <2>1
    <3>2. Reaching(sent[j], Covered(j), undecodable[j], run[r], cursor[r], queue[r], InHand(r), FALSE)
      BY <1>2, <3>1
    <3>3. Reaching(sent[j], Covered(j), undecodable[j] \cup {cursor[r]},
                   [run[r] EXCEPT !.failed = @ + 1], cursor[r] + 1, queue[r], InHand(r), FALSE)
      BY <1>1, <2>1, <3>2, ReachingSkipped
    <3>4. QED
      BY <2>1, <3>3
  <2>3. Reaching(sent'[j], Covered(j)', undecodable'[j], run'[r], cursor[r] + 1, queue[r], InHand(r), FALSE)
    <3>1. run'[r] \in Progress /\ undecodable[j] \cup {cursor[r]} \in SUBSET Frames
          /\ undecodable[j] \cup {cursor[r]} \subseteq undecodable'[j]
      BY <1>0, <1>1, <2>1 DEF TypeOK
    <3>2. QED
      BY <1>0, <2>2, <3>1, ReachKept
  <2>4. Bounded(run'[r].failed, Attempts(j)', undecodable'[j], cursor[r] + 1)
    <3>1. Bounded(run[r].failed + 1, Attempts(j), undecodable'[j], cursor[r] + 1)
      BY <1>1, <1>2, <2>1, BoundSkipped
    <3>2. Attempts(j)' = Attempts(j)
      BY <1>0, DispatchStays DEF Attempts
    <3>3. QED
      BY <2>1, <3>1, <3>2
  <2>5. Reaching(sent'[j], Covered(j)', undecodable'[j], run'[r], cursor'[r], queue'[r], InHand(r)',
                 verdict'[r] = "error")
    BY <2>1, <2>3
  <2>6. QED
    BY <1>0, <1>4, <1>5, <2>1, <2>4, <2>5 DEF RunTruthful, Fits
<1>8. CASE TakeFrame(r)
  <2>1. PICK f \in queue[r] : queue'[r] = queue[r] \ {f} /\ publishing'[r] = publishing[r] \cup {f}
    BY <1>8, TakeMoves
  <2>2. /\ cursor'[r] = cursor[r] /\ run'[r] = run[r] /\ confirming'[r] = confirming[r]
        /\ snapshots'[r] = snapshots[r] /\ verdict'[r] = verdict[r]
        /\ InHand(r)' = InHand(r) \cup {f} /\ verdict[r] # "error"
    BY <1>8, <2>1, TakeMoves DEF InHand, WorkKept
  <2>3. Reaching(sent[j], Covered(j), undecodable[j], run[r], cursor[r], queue[r] \ {f},
                 InHand(r) \cup {f}, FALSE)
    <3>1. (verdict[r] = "error") = FALSE
      BY <2>2
    <3>2. Reaching(sent[j], Covered(j), undecodable[j], run[r], cursor[r], queue[r], InHand(r), FALSE)
      BY <1>2, <3>1
    <3>3. QED
      BY <2>1, <3>2, ReachingTaken
  <2>4. Reaching(sent'[j], Covered(j)', undecodable'[j], run[r], cursor[r], queue[r] \ {f},
                 InHand(r) \cup {f}, FALSE)
    BY <1>0, <1>1, <2>3, ReachKept
  <2>5. Bounded(run[r].failed, Attempts(j)', undecodable'[j], cursor[r])
    BY <1>0, <1>1, <1>2, CountKept
  <2>6. Reaching(sent'[j], Covered(j)', undecodable'[j], run'[r], cursor'[r], queue'[r], InHand(r)',
                 verdict'[r] = "error")
    BY <2>1, <2>2, <2>4
  <2>7. QED
    BY <1>0, <1>4, <1>5, <2>2, <2>5, <2>6 DEF RunTruthful, Fits
<1>9. CASE BrokerAccepts(r)
  <2>1. PICK f \in publishing[r] :
          /\ publishing'[r] = publishing[r] \ {f} /\ confirming'[r] = confirming[r] \cup {f}
          /\ f \in Frames /\ sent'[j][f] = sent[j][f] + 1
    BY <1>9, AcceptMoves
  <2>2. /\ cursor'[r] = cursor[r] /\ run'[r] = run[r] /\ queue'[r] = queue[r]
        /\ snapshots'[r] = snapshots[r] /\ verdict'[r] = verdict[r] /\ InHand(r)' = InHand(r)
    BY <1>9, <2>1, AcceptMoves DEF InHand
  <2>3. Reaching(sent'[j], Covered(j)', undecodable'[j], run[r], cursor[r], queue[r], InHand(r),
                 verdict[r] = "error")
    BY <1>0, <1>1, <1>2, ReachKept
  <2>4. Bounded(run[r].failed, Attempts(j)', undecodable'[j], cursor[r])
    BY <1>0, <1>1, <1>2, CountKept
  <2>5. \A g \in confirming'[r] : sent'[j][g] > 0
    <3>1. sent[j][f] \in Nat
      BY <1>0, <2>1 DEF TypeOK
    <3>2. sent'[j][f] > 0
      BY <2>1, <3>1
    <3>3. QED
      BY <1>4, <2>1, <3>2
  <2>6. Reaching(sent'[j], Covered(j)', undecodable'[j], run'[r], cursor'[r], queue'[r], InHand(r)',
                 verdict'[r] = "error")
    BY <2>2, <2>3
  <2>7. QED
    BY <1>0, <1>5, <2>2, <2>4, <2>5, <2>6 DEF RunTruthful, Fits
<1>10. CASE Confirm(r)
  <2>1. PICK f \in confirming[r] :
          /\ confirming'[r] = confirming[r] \ {f} /\ run'[r] = Confirmed(run[r], f)
          /\ \/ snapshots'[r] = snapshots[r] \cup {Confirmed(run[r], f)}
             \/ snapshots'[r] = snapshots[r]
    BY <1>10, ConfirmMoves
  <2>2. /\ cursor'[r] = cursor[r] /\ queue'[r] = queue[r] /\ publishing'[r] = publishing[r]
        /\ lost'[r] = lost[r] /\ verdict'[r] = verdict[r]
    BY <1>10, ConfirmMoves
  <2>3. f \in InHand(r) /\ InHand(r)' = InHand(r) \ {f} /\ f \in Frames
    <3>1. f \in InHand(r) /\ f \in Frames
      BY <1>1, <2>1 DEF InHand
    <3>2. InHand(r)' = InHand(r) \ {f}
      BY <2>1, <2>2 DEF WorkOrdered, InHand
    <3>3. QED
      BY <3>1, <3>2
  <2>4. f \notin queue[r] /\ sent[j][f] > 0 /\ f \in Covered(j)
    <3>1. f \notin queue[r]
      BY <1>1, <2>3 DEF WorkOrdered
    <3>2. sent[j][f] > 0
      BY <2>1 DEF RunTruthful
    <3>3. QED
      BY <2>3, <3>1, <3>2 DEF Covered
  <2>5. run'[r] \in Progress /\ run'[r].last \in Int /\ run'[r].failed = run[r].failed
    BY <1>1, <2>1, <2>3, ConfirmedProgress
  <2>6. Reaching(sent[j], Covered(j), undecodable[j], run'[r], cursor[r], queue[r], InHand(r) \ {f},
                 verdict[r] = "error")
    <3>1. (verdict[r] = "error") \in BOOLEAN
      OBVIOUS
    <3>2. Reaching(sent[j], Covered(j), undecodable[j], Confirmed(run[r], f), cursor[r], queue[r],
                   InHand(r) \ {f}, verdict[r] = "error")
      BY <1>1, <1>2, <2>3, <2>4, <3>1, ReachingConfirmed
    <3>3. QED
      BY <2>1, <3>2
  <2>7. Reaching(sent'[j], Covered(j)', undecodable'[j], run'[r], cursor[r], queue[r], InHand(r) \ {f},
                 verdict[r] = "error")
    BY <1>0, <1>1, <2>5, <2>6, ReachKept
  <2>8. Reaching(sent'[j], Covered(j)', undecodable'[j], run'[r], cursor'[r], queue'[r], InHand(r)',
                 verdict'[r] = "error")
    BY <2>2, <2>3, <2>7
  <2>9. Bounded(run'[r].failed, Attempts(j)', undecodable'[j], cursor'[r])
    <3>1. Bounded(run[r].failed, Attempts(j)', undecodable'[j], cursor[r])
      BY <1>0, <1>1, <1>2, CountKept
    <3>2. QED
      BY <2>2, <2>5, <3>1
  <2>10. /\ Claims(sent'[j], Covered(j)', undecodable'[j], run'[r])
         /\ run'[r].failed <= Cardinality(Attempts(j)') * Cardinality(undecodable'[j])
    <3>1. \A g \in InHand(r)' : g <= run'[r].last => g \in Covered(j)'
      <4> SUFFICES ASSUME NEW g \in InHand(r)', g <= run'[r].last
                   PROVE  g \in Covered(j)'
        OBVIOUS
      <4>1. g \in Frames /\ g \in Int
        BY <1>1, <2>3
      <4>2. g < run'[r].last
        <5>1. g # run'[r].last
          BY DEF WorkOrdered
        <5>2. QED
          BY <2>5, <4>1, <5>1
      <4>3. g \in confirming[r] \/ g \in publishing'[r] \cup lost'[r]
        BY <2>1, <2>2 DEF InHand
      <4>4. CASE g \in confirming[r]
        BY <1>0, <1>4, <4>1, <4>4 DEF Covered
      <4>5. CASE g \in publishing'[r] \cup lost'[r]
        <5>1. g \in PassedOver(r)'
          BY <4>2, <4>5 DEF PassedOver
        <5>2. job_id'[r] = j
          BY <1>0
        <5>3. QED
          BY <4>1, <5>1, <5>2 DEF Covered
      <4>6. QED
        BY <4>3, <4>4, <4>5
    <3>2. run'[r].last < cursor'[r] /\ (\A g \in queue'[r] : g > run'[r].last) /\ cursor'[r] \in Int
      BY <1>1, <2>2 DEF WorkOrdered
    <3>3. IsFiniteSet(Attempts(j)')
      BY FS_Subset, RequestsAssumption DEF Attempts
    <3>4. QED
      BY <1>1, <2>5, <2>8, <2>9, <3>1, <3>2, <3>3, ReachingFits
  <2>11. \A s \in snapshots'[r] :
           /\ Claims(sent'[j], Covered(j)', undecodable'[j], s)
           /\ s.failed <= Cardinality(Attempts(j)') * Cardinality(undecodable'[j])
    <3>1. \A s \in snapshots'[r] : s \in snapshots[r] \/ s = run'[r]
      BY <2>1
    <3>2. QED
      BY <1>5, <2>10, <3>1
  <2>12. QED
    BY <1>0, <1>4, <2>1, <2>8, <2>9, <2>11 DEF RunTruthful, Fits
<1>11. CASE Checkpoint(r)
  <2>1. /\ snapshots'[r] \subseteq snapshots[r]
        /\ cursor'[r] = cursor[r] /\ run'[r] = run[r] /\ queue'[r] = queue[r]
        /\ confirming'[r] = confirming[r] /\ verdict'[r] = verdict[r] /\ InHand(r)' = InHand(r)
    BY <1>11, CheckpointMoves DEF InHand
  <2>2. QED
    BY <1>0, <2>1, RunKept
<1>12. CASE CallRaises(r)
  <2>1. /\ queue'[r] = {} /\ verdict'[r] = "error" /\ cursor'[r] = cursor[r] /\ run'[r] = run[r]
        /\ InHand(r)' = InHand(r) /\ confirming'[r] \subseteq confirming[r]
        /\ snapshots'[r] \subseteq snapshots[r]
    BY <1>12, RaiseMoves DEF InHand
  <2>2. Reaching(sent[j], Covered(j), undecodable[j], run[r], cursor[r], {}, InHand(r), TRUE)
    <3>1. \A f \in queue[r] : f > run[r].last /\ \A g \in InHand(r) : g < f
      BY DEF WorkOrdered
    <3>2. (verdict[r] = "error") \in BOOLEAN
      OBVIOUS
    <3>3. QED
      BY <1>1, <1>2, <3>1, <3>2, ReachingForgotten
  <2>3. Reaching(sent'[j], Covered(j)', undecodable'[j], run[r], cursor[r], {}, InHand(r), TRUE)
    BY <1>0, <1>1, <2>2, ReachKept
  <2>4. Reaching(sent'[j], Covered(j)', undecodable'[j], run'[r], cursor'[r], queue'[r], InHand(r)',
                 verdict'[r] = "error")
    BY <2>1, <2>3
  <2>5. Bounded(run[r].failed, Attempts(j)', undecodable'[j], cursor[r])
    BY <1>0, <1>1, <1>2, CountKept
  <2>6. QED
    BY <1>0, <1>4, <1>5, <2>1, <2>4, <2>5 DEF RunTruthful, Fits
<1>13. CASE HangUp(r)
  <2>1. /\ snapshots'[r] = snapshots[r]
        /\ cursor'[r] = cursor[r] /\ run'[r] = run[r] /\ queue'[r] = queue[r]
        /\ confirming'[r] = confirming[r] /\ InHand(r)' = InHand(r)
        /\ (verdict'[r] = "error") = (verdict[r] = "error")
    BY <1>13, HangUpMoves DEF InHand
  <2>2. QED
    BY <1>0, <2>1, RunKept
<1>14. QED
  BY <1>6, <1>7, <1>8, <1>9, <1>10, <1>11, <1>12, <1>13 DEF Dispatch


\* A request without progress stays without until it reads a record or runs.
LEMMA RequestFresh ==
    ASSUME TypeOK, FreshInv, NEW r \in Requests, Request(r)
    PROVE  FreshInv'
<1> SUFFICES ASSUME NEW q \in Requests
             PROVE  /\ state'[q] \in {"new", "opening", "pointer"} => job_id'[q] = None
                    /\ state'[q] \in {"new", "opening", "pointer", "record", "creating"}
                         => run'[q] = NoProgress /\ prior'[q] = NoProgress /\ cursor'[q] = 0
                    /\ state'[q] = "creating" => job_id'[q] = q
  BY DEF FreshInv
<1>1. CASE q # r
  BY <1>1, OthersStay DEF FreshInv
<1>2. CASE q = r
  <2>1. CASE Dispatch(r)
    BY <1>2, <2>1, DispatchStays
  <2>2. CASE ReadPointer(r)
    BY <1>2, <2>2 DEF ReadPointer, Goes, TypeOK, FreshInv
  <2>3. CASE ReadRecord(r)
    BY <1>2, <2>3 DEF ReadRecord, Goes, TypeOK, FreshInv
  <2>4. CASE ~Dispatch(r) /\ ~ReadPointer(r) /\ ~ReadRecord(r)
    <3>1. UNCHANGED <<run, prior, cursor, job_id>>
      BY <2>4, QuietStays
    <3>2. \/ state[r] \in {"new", "opening"}
          \/ state'[r] \notin {"new", "opening", "pointer", "record", "creating"}
      BY <2>4, QuietMoves
    <3>3. \/ state'[r] \notin {"record", "creating"}
          \/ state[r] \notin {"new", "opening"}
      BY <2>4, QuietMoves
    <3>4. QED
      BY <1>2, <3>1, <3>2, <3>3 DEF FreshInv
  <2>5. QED
    BY <2>1, <2>2, <2>3, <2>4
<1>3. QED
  BY <1>1, <1>2

\* The records that a step of a request writes.
LEMMA RedisMoves ==
    ASSUME NEW r \in Requests, Request(r)
    PROVE  \/ UNCHANGED redis
           \/ state[r] = "creating" /\ Created(r)
           \/ state[r] = "resuming" /\ MarkedRunning(r)
           \/ state[r] = "running" /\ Dispatch(r) /\ \E s \in snapshots[r] : Saved(r, s)
           \/ state[r] = "saving" /\ Saved(r, run[r])
           \/ state[r] = "marking" /\ Marked(r)
BY DEF Request, Dispatch, Invalid, BadPath, Admit, Unavailable, Unopenable, Turned, Reserve, ReadPointer,
       ReadRecord, Start, DecodeFrame, SkipFrame, TakeFrame, BrokerAccepts, Confirm, Checkpoint,
       CallRaises, HangUp, RunReturns, Save, Mark, Escape, Close

\* What it does to the progress in them.
LEMMA RecordMoves ==
    ASSUME TypeOK, HasJob, NEW r \in Requests, Request(r), NEW j \in Requests
    PROVE  \/ Progressed(jobs'[j]) = Progressed(jobs[j])
           \/ Progressed(jobs'[j]) = NoProgress /\ state[r] = "creating" /\ j = r
           \/ Progressed(jobs'[j]) = run[r] /\ state[r] = "saving" /\ j = job_id[r]
           \/ /\ \E s \in snapshots[r] : Progressed(jobs'[j]) = s
              /\ state[r] = "running" /\ Dispatch(r) /\ j = job_id[r]
<1>1. \/ UNCHANGED jobs
      \/ state[r] = "creating" /\ Created(r)
      \/ state[r] = "resuming" /\ MarkedRunning(r)
      \/ state[r] = "running" /\ Dispatch(r) /\ \E s \in snapshots[r] : Saved(r, s)
      \/ state[r] = "saving" /\ Saved(r, run[r])
      \/ state[r] = "marking" /\ Marked(r)
  BY RedisMoves DEF redis
<1>2. state[r] \in Working => job_id[r] \in Requests
  BY DEF HasJob
<1>3. run[r] \in Progress /\ snapshots[r] \in SUBSET Progress /\ jobs \in [Requests -> Record]
  BY DEF TypeOK
<1>4. CASE UNCHANGED jobs
  BY <1>4
<1>5. CASE state[r] = "creating" /\ Created(r)
  BY <1>3, <1>5 DEF Created, Stamped, Progressed, NoProgress
<1>6. CASE state[r] = "resuming" /\ MarkedRunning(r)
  <2>1. job_id[r] \in Requests
    BY <1>2, <1>6 DEF Working
  <2>2. QED
    BY <1>3, <1>6, <2>1 DEF MarkedRunning, Stamped, Progressed, Record
<1>7. ASSUME NEW p \in Progress, Saved(r, p), state[r] \in Live
      PROVE  Progressed(jobs'[j]) = Progressed(jobs[j]) \/ (Progressed(jobs'[j]) = p /\ j = job_id[r])
  <2>1. job_id[r] \in Requests
    BY <1>2, <1>7 DEF Working
  <2>2. p = [confirmed |-> p.confirmed, failed |-> p.failed, last |-> p.last]
    BY DEF Progress
  <2>3. QED
    BY <1>3, <1>7, <2>1, <2>2 DEF Saved, Stamped, Progressed
<1>8. CASE state[r] = "marking" /\ Marked(r)
  <2>1. job_id[r] \in Requests
    BY <1>2, <1>8 DEF Working, Live
  <2>2. QED
    BY <1>3, <1>8, <2>1 DEF Marked, Stamped, Progressed, Record
<1>9. CASE state[r] = "saving" /\ Saved(r, run[r])
  BY <1>3, <1>7, <1>9 DEF Live
<1>10. CASE state[r] = "running" /\ Dispatch(r) /\ \E s \in snapshots[r] : Saved(r, s)
  <2>1. PICK s \in snapshots[r] : Saved(r, s)
    BY <1>10
  <2>2. s \in Progress
    BY <1>3
  <2>3. Progressed(jobs'[j]) = Progressed(jobs[j]) \/ (Progressed(jobs'[j]) = s /\ j = job_id[r])
    BY <1>7, <1>10, <2>1, <2>2 DEF Live
  <2>4. QED
    BY <1>10, <2>3
<1>11. QED
  BY <1>1, <1>4, <1>5, <1>6, <1>8, <1>9, <1>10

\* Records stay truthful.
LEMMA RequestRecords ==
    ASSUME TypeOK, TypeOK', HasJob, RecordInv, WorkInv, RunInv, Grown, NEW r \in Requests, Request(r)
    PROVE  RecordInv'
<1> SUFFICES ASSUME NEW j \in Requests
             PROVE  /\ Claims(sent'[j], Covered(j)', undecodable'[j], Progressed(jobs'[j]))
                    /\ Progressed(jobs'[j]).failed
                         <= Cardinality(Attempts(j)') * Cardinality(undecodable'[j])
  BY DEF RecordInv, Fits, Progressed
<1> DEFINE p == Progressed(jobs'[j])
<1>1. CASE p = Progressed(jobs[j])
  <2>1. Progressed(jobs[j]) \in Progress
    BY ProgressTypes
  <2>2. QED
    BY <1>1, <2>1, FitsKept DEF RecordInv
<1>2. CASE p = NoProgress
  <2>1. Claims(sent'[j], Covered(j)', undecodable'[j], NoProgress)
    BY ClaimsOfNothing
  <2>2. 0 <= Cardinality(Attempts(j)') * Cardinality(undecodable'[j])
    <3>1. Cardinality(Attempts(j)') \in Nat
      BY FS_Subset, FS_CardinalityType, RequestsAssumption DEF Attempts
    <3>2. undecodable'[j] \in SUBSET Frames
      BY DEF TypeOK
    <3>3. Cardinality(undecodable'[j]) \in Nat
      BY <3>2, FramesFinite
    <3>4. QED
      BY <3>1, <3>3, ProductGrows
  <2>3. NoProgress.failed = 0
    BY DEF NoProgress
  <2>4. QED
    BY <1>2, <2>1, <2>2, <2>3
<1>3. CASE p = run[r] /\ state[r] = "saving" /\ j = job_id[r]
  <2>1. RunTruthful(r) /\ run[r] \in Progress /\ WorkOrdered(r)
    BY <1>3 DEF RunInv, WorkInv, HasRun, Live, TypeOK
  <2>2. QED
    BY <1>3, <2>1, RunFits, FitsKept
<1>4. CASE (\E s \in snapshots[r] : p = s) /\ state[r] = "running" /\ j = job_id[r]
  <2>1. p \in Progress /\ Fits(j, p)
    BY <1>4, RunTypes DEF RunInv, RunTruthful, HasRun, Live
  <2>2. QED
    BY <2>1, FitsKept
<1>5. QED
  BY <1>1, <1>2, <1>3, <1>4, RecordMoves

\* A run that resumes a record.
LEMMA RunResumed ==
    ASSUME TypeOK, TypeOK', RecordInv, Grown, NEW r \in Requests, ReadRecord(r), WorkKept(r),
           state'[r] = "resuming", job_id[r] \in Requests
    PROVE  RunTruthful(r)'
<1> DEFINE j == job_id[r]
           p == Progressed(jobs[j])
<1>1. /\ state[r] = "record" /\ job_id'[r] = j /\ run'[r] = p /\ cursor'[r] = StartSlot(jobs[j])
      /\ UNCHANGED <<queue, publishing, confirming, snapshots, lost, verdict>>
  BY DEF ReadRecord, Goes, TypeOK, Seeded, work, history
<1>2. /\ p \in Progress /\ p.failed \in Nat /\ p.last + 1 \in Int /\ StartSlot(jobs[j]) = p.last + 1
  BY ProgressTypes DEF Progress, Progressed, StartSlot
<1>3. /\ queue'[r] = {} /\ InHand(r)' = {} /\ confirming'[r] = {} /\ snapshots'[r] = {}
      /\ verdict'[r] = "none"
  BY <1>1 DEF WorkKept, Live, InHand
<1>4. Fits(j, p)
  BY DEF RecordInv
<1>5. Reaching(sent'[j], Covered(j)', undecodable'[j], p, p.last + 1, {}, {}, FALSE)
  <2>1. Claims(sent'[j], Covered(j)', undecodable'[j], p)
    BY <1>1, <1>2, <1>4, FitsKept
  <2>2. QED
    BY <1>2, <2>1, ReachingResumed
<1>6. Bounded(p.failed, Attempts(j)', undecodable'[j], p.last + 1)
  <2>1. /\ r \notin Attempts(j) /\ undecodable[j] \in SUBSET Frames
        /\ undecodable'[j] \in SUBSET Frames /\ undecodable[j] \subseteq undecodable'[j]
    BY <1>1 DEF Attempts, TypeOK, Grown
  <2>2. p.failed <= Cardinality(Attempts(j)) * Cardinality(undecodable[j])
    BY <1>4 DEF Fits
  <2>3. Bounded(p.failed, Attempts(j) \cup {r}, undecodable[j], p.last + 1)
    BY <1>2, <2>1, <2>2, AttemptsFinite, BoundResumed
  <2>4. Attempts(j) \cup {r} \subseteq Attempts(j)' /\ IsFiniteSet(Attempts(j)')
    BY <1>1, FS_Subset, RequestsAssumption DEF Grown, Attempts
  <2>5. QED
    BY <1>2, <2>1, <2>3, <2>4, BoundKept
<1>7. Reaching(sent'[job_id'[r]], Covered(job_id[r])', undecodable'[job_id'[r]], run'[r], cursor'[r],
               queue'[r], InHand(r)', verdict'[r] = "error")
  BY <1>1, <1>2, <1>3, <1>5
<1>8. QED
  BY <1>1, <1>2, <1>3, <1>6, <1>7 DEF RunTruthful

\* A run that begins a job.
LEMMA RunFresh ==
    ASSUME TypeOK', FreshInv', NEW r \in Requests, state'[r] = "creating", WorkKept(r)'
    PROVE  RunTruthful(r)'
<1>1. job_id'[r] = r /\ run'[r] = NoProgress /\ cursor'[r] = 0
  BY DEF FreshInv
<1>2. /\ queue'[r] = {} /\ InHand(r)' = {} /\ confirming'[r] = {} /\ snapshots'[r] = {}
      /\ verdict'[r] = "none"
  BY DEF WorkKept, InHand, Live
<1>3. Bounded(0, Attempts(r)', undecodable'[r], 0)
  <2>1. r \in Attempts(r)' /\ IsFiniteSet(Attempts(r)') /\ undecodable'[r] \in SUBSET Frames
    BY <1>1, FS_Subset, RequestsAssumption DEF Attempts, TypeOK
  <2>2. QED
    BY <2>1, BoundFresh
<1>4. Reaching(sent'[r], Covered(r)', undecodable'[r], NoProgress, 0, {}, {}, FALSE)
  BY ClaimsOfNothing
<1>5. Covered(job_id[r])' = Covered(r)'
  BY <1>1 DEF Covered
<1>6. Reaching(sent'[job_id'[r]], Covered(job_id[r])', undecodable'[job_id'[r]], run'[r], cursor'[r],
               queue'[r], InHand(r)', verdict'[r] = "error")
  BY <1>1, <1>2, <1>4, <1>5
<1>7. QED
  BY <1>1, <1>2, <1>3, <1>6 DEF RunTruthful, NoProgress

\* Runs stay truthful.
LEMMA RequestRuns ==
    ASSUME TypeOK, TypeOK', HasJob, FreshInv', WorkInv, WorkInv', RecordInv, RunInv, Grown,
           NEW r \in Requests, Request(r)
    PROVE  RunInv'
<1> SUFFICES ASSUME NEW q \in Requests, state'[q] \in HasRun
             PROVE  RunTruthful(q)'
  BY DEF RunInv
<1>0. /\ \A s \in HasRun : s \in Working
      /\ WorkKept(r) /\ WorkOrdered(r) /\ WorkKept(r)' /\ WorkOrdered(r)'
  BY DEF HasRun, Working, WorkInv
<1>1. CASE q # r
  <2>1. /\ state'[q] = state[q] /\ job_id'[q] = job_id[q] /\ run'[q] = run[q]
        /\ cursor'[q] = cursor[q] /\ verdict'[q] = verdict[q] /\ queue'[q] = queue[q]
        /\ confirming'[q] = confirming[q] /\ snapshots'[q] = snapshots[q]
        /\ InHand(q)' = InHand(q)
    BY <1>1, OthersStay DEF InHand
  <2>2. RunTruthful(q) /\ job_id[q] \in Requests
    BY <1>0, <2>1 DEF RunInv, HasJob
  <2>3. QED
    BY <2>1, <2>2, RunKept
<1>2. CASE q = r /\ Dispatch(r)
  <2>1. state[r] \in HasRun
    BY <1>2, DispatchStays DEF HasRun, Live
  <2>2. RunTruthful(r)
    BY <2>1 DEF RunInv
  <2>3. QED
    BY <1>0, <1>2, <2>2, DispatchRuns
<1>3. CASE q = r /\ state'[r] = "creating"
  BY <1>0, <1>3, RunFresh
<1>4. CASE q = r /\ state'[r] = "resuming"
  <2>1. ReadRecord(r) /\ state[r] = "record"
    <3>1. ~Dispatch(r)
      BY <1>4, DispatchStays
    <3>2. QED
      BY <1>4, <3>1, QuietMoves
  <2>2. job_id[r] \in Requests
    BY <2>1 DEF HasJob, Working
  <2>3. QED
    BY <1>0, <1>4, <2>1, <2>2, RunResumed
<1>5. CASE q = r /\ ~Dispatch(r) /\ state'[r] \in Live
  <2>1. state[r] \in HasRun \ {"marking"} /\ (RunReturns(r) \/ UNCHANGED verdict)
    BY <1>5, QuietMoves, QuietStays DEF HasRun, Live
  <2>2. UNCHANGED <<job_id, run, cursor, queue, publishing, confirming, snapshots, lost>>
    BY <1>5, <2>1, QuietStays DEF ReadPointer, ReadRecord, HasRun, Live
  <2>3. InHand(r)' = InHand(r)
    BY <2>2 DEF InHand
  <2>4. (verdict'[r] = "error") = (verdict[r] = "error")
    <3>1. CASE RunReturns(r)
      BY <3>1 DEF RunReturns, TypeOK
    <3>2. CASE UNCHANGED verdict
      BY <3>2
    <3>3. QED
      BY <2>1, <3>1, <3>2
  <2>5. RunTruthful(r) /\ job_id[r] \in Requests
    BY <1>0, <2>1 DEF RunInv, HasJob
  <2>6. QED
    BY <1>5, <2>2, <2>3, <2>4, <2>5, RunKept
<1>6. QED
  BY <1>1, <1>2, <1>3, <1>4, <1>5 DEF HasRun

\* A verdict is given once, and "ended" only at the end of the video.
LEMMA RequestVerdicts ==
    ASSUME TypeOK, VerdictInv, NEW r \in Requests, Request(r)
    PROVE  VerdictInv'
<1> SUFFICES ASSUME NEW q \in Requests, state'[q] \in {"saving", "marking"}
             PROVE  verdict'[q] # "none" /\ (verdict'[q] = "ended" => cursor'[q] = NumFrames)
  BY DEF VerdictInv
<1>1. CASE q # r
  BY <1>1, OthersStay DEF VerdictInv
<1>2. CASE q = r
  <2>1. ~Dispatch(r)
    BY <1>2, DispatchStays
  <2>2. CASE state[r] = "running" /\ RunReturns(r)
    BY <1>2, <2>2 DEF RunReturns, TypeOK
  <2>3. CASE state[r] = "saving" /\ Save(r)
    BY <1>2, <2>3 DEF Save, local, VerdictInv
  <2>4. QED
    BY <1>2, <2>1, <2>2, <2>3, QuietMoves
<1>3. QED
  BY <1>1, <1>2


\* The only answers with status 200 are those of a run's outcome.
LEMMA Successes ==
    ASSUME NEW a, HttpStatus(a) = 200
    PROVE  a \in {"COMPLETED", "PARTIAL", "CANCELLED"}
BY DEF HttpStatus

\* An answer stays true.
LEMMA AnswerGrows ==
    ASSUME TypeOK, TypeOK', Grown, NEW q \in Requests, AnswerKept(q),
           job_id'[q] = job_id[q], answer'[q] = answer[q], verdict'[q] = verdict[q],
           state[q] \in {"closing", "done"} => state'[q] \in {"closing", "done"}
    PROVE  AnswerKept(q)'
<1> SUFFICES ASSUME HttpStatus(answer[q]) = 200
             PROVE  /\ state'[q] \in {"closing", "done"} /\ job_id[q] \in Requests
                    /\ verdict[q] # "aborted" => \A f \in Frames :
                         \/ f \in Covered(job_id[q])'
                         \/ answer[q] = "PARTIAL" /\ f \in undecodable'[job_id[q]]
  BY DEF AnswerKept
<1>1. /\ state[q] \in {"closing", "done"} /\ job_id[q] \in Requests
      /\ verdict[q] # "aborted" => \A f \in Frames :
           f \in Covered(job_id[q]) \/ (answer[q] = "PARTIAL" /\ f \in undecodable[job_id[q]])
  BY DEF AnswerKept
<1>2. PICK j \in Requests : j = job_id[q] /\ j = job_id'[q]
  BY <1>1
<1>3. Covered(j) \subseteq Covered(j)' /\ undecodable[j] \subseteq undecodable'[j]
  BY DEF Grown
<1>4. Covered(job_id[q]) = Covered(j) /\ Covered(job_id[q])' = Covered(j)'
  BY <1>2 DEF Covered
<1>5. QED
  BY <1>1, <1>2, <1>3, <1>4

\* A run that ends with 200 tells the truth.
LEMMA MarkAnswers ==
    ASSUME TypeOK, TypeOK', HasJob, WorkInv, RunInv, VerdictInv, Grown, NEW r \in Requests, Mark(r)
    PROVE  AnswerKept(r)'
<1>1. /\ state[r] = "marking" /\ state'[r] = "closing" /\ answer'[r] = Outcome(r)
      /\ job_id'[r] = job_id[r] /\ verdict'[r] = verdict[r]
  BY DEF Mark, Goes, Answered, TypeOK, local
<1>2. RunTruthful(r) /\ job_id[r] \in Requests /\ WorkKept(r)
  BY <1>1 DEF RunInv, WorkInv, HasRun, Live, HasJob, Working
<1>3. PICK j \in Requests : j = job_id[r] /\ j = job_id'[r]
  BY <1>1, <1>2
<1> SUFFICES ASSUME HttpStatus(answer'[r]) = 200, verdict[r] # "aborted", NEW f \in Frames
             PROVE  f \in Covered(j)' \/ (Outcome(r) = "PARTIAL" /\ f \in undecodable'[j])
  <2>1. Covered(job_id[r])' = Covered(j)'
    BY <1>3 DEF Covered
  <2>2. QED
    BY <1>1, <1>2, <1>3, <2>1 DEF AnswerKept
<1>4. Outcome(r) \in {"COMPLETED", "PARTIAL", "CANCELLED"}
  BY <1>1, Successes
<1>5. Outcome(r) = Status(r) /\ verdict[r] # "error" /\ ~TooManyFailures(r)
  BY <1>4 DEF Outcome
<1>6. verdict[r] = "ended" /\ cursor[r] = NumFrames
  BY <1>1, <1>5 DEF VerdictInv, TypeOK
<1>7. run[r].failed > 0 => Outcome(r) = "PARTIAL"
  BY <1>5, <1>6 DEF Status
<1>8. queue[r] = {} /\ InHand(r) = {} /\ (verdict[r] = "error") = FALSE
  BY <1>1, <1>2, <1>5 DEF WorkKept, InHand, Live
<1>9. Reaching(sent[j], Covered(j), undecodable[j], run[r], NumFrames, {}, {}, FALSE)
  <2>1. Covered(job_id[r]) = Covered(j)
    BY <1>3 DEF Covered
  <2>2. QED
    BY <1>2, <1>3, <1>6, <1>8, <2>1 DEF RunTruthful
<1>10. /\ f \in Covered(j) \/ f \in undecodable[j]
       /\ run[r].failed = 0 => f \in Covered(j)
  BY <1>9 DEF Reaching, Accounted, Frames
<1>11. run[r].failed > 0 \/ run[r].failed = 0
  BY RunTypes
<1>12. Covered(j) \subseteq Covered(j)' /\ undecodable[j] \subseteq undecodable'[j]
  BY DEF Grown
<1>13. QED
  BY <1>7, <1>10, <1>11, <1>12

\* Answers stay true.
LEMMA RequestAnswers ==
    ASSUME TypeOK, TypeOK', HasJob, WorkInv, RunInv, VerdictInv, AnswerInv, Grown,
           NEW r \in Requests, Request(r)
    PROVE  AnswerInv'
<1> SUFFICES ASSUME NEW q \in Requests PROVE AnswerKept(q)'
  BY DEF AnswerInv
<1>0. AnswerKept(q)
  BY DEF AnswerInv
<1>1. CASE q # r
  <2>1. /\ state'[q] = state[q] /\ answer'[q] = answer[q] /\ job_id'[q] = job_id[q]
        /\ verdict'[q] = verdict[q]
    BY <1>1, OthersStay
  <2>2. QED
    BY <1>0, <2>1, AnswerGrows
<1>2. CASE q = r
  <2>1. CASE Mark(r)
    BY <1>2, <2>1, MarkAnswers
  <2>2. CASE Close(r)
    <3>1. answer'[r] = answer[r] /\ job_id'[r] = job_id[r] /\ verdict'[r] = verdict[r] /\ state'[r] = "done"
      BY <2>2 DEF Close, local, Goes, TypeOK
    <3>2. QED
      BY <1>0, <1>2, <3>1, AnswerGrows
  <2>3. CASE ~Mark(r) /\ ~Close(r)
    <3>1. state[r] \notin {"closing", "done"}
      BY <2>3, DispatchStays
         DEF Request, Invalid, BadPath, Unavailable, Unopenable, Turned, Escape, Admit,
             Reserve, ReadPointer, ReadRecord, Start, RunReturns, Save, Reserving
    <3>2. HttpStatus(answer[r]) # 200
      BY <1>0, <1>2, <3>1 DEF AnswerKept
    <3>3. answer'[r] = answer[r] \/ answer'[r] \in Answers \ Statuses
      <4>1. UNCHANGED answer \/ \E a \in Answers \ Statuses : Answered(r, a)
        BY <2>3, DispatchStays
           DEF Request, Invalid, BadPath, Unavailable, Unopenable, Turned, Escape, Admit,
               Reserve, ReadPointer, ReadRecord, Start, RunReturns, Save, Answers, Statuses
      <4>2. QED
        BY <4>1 DEF Answered, TypeOK
    <3>4. HttpStatus(answer'[r]) # 200
      BY <3>2, <3>3, Successes DEF Statuses
    <3>5. QED
      BY <1>2, <3>4 DEF AnswerKept
  <2>4. QED
    BY <2>1, <2>2, <2>3
<1>3. QED
  BY <1>1, <1>2

\* Before anything happens nothing is claimed.
LEMMA HistoryInit == Init => HistoryInv
<1> SUFFICES ASSUME Init PROVE HistoryInv OBVIOUS
<1>1. /\ \A r \in Requests :
           /\ state[r] = "new" /\ job_id[r] = None /\ answer[r] = "none" /\ cursor[r] = 0
           /\ run[r] = NoProgress /\ prior[r] = NoProgress /\ verdict[r] = "none"
           /\ queue[r] = {} /\ publishing[r] = {} /\ confirming[r] = {} /\ snapshots[r] = {}
           /\ lost[r] = {}
      /\ \A j \in Requests : jobs[j] = NoRecord /\ undecodable[j] = {}
  BY DEF Init
<1>2. FreshInv
  BY <1>1 DEF FreshInv
<1>3. RunInv /\ VerdictInv
  BY <1>1 DEF RunInv, VerdictInv, HasRun, Live
<1>4. AnswerInv
  <2>1. HttpStatus("none") # 200
    BY Successes
  <2>2. QED
    BY <1>1, <2>1 DEF AnswerInv, AnswerKept
<1>5. RecordInv
  <2> SUFFICES ASSUME NEW j \in Requests
               PROVE  /\ Claims(sent[j], Covered(j), undecodable[j], NoProgress)
                      /\ 0 <= Cardinality(Attempts(j)) * Cardinality(undecodable[j])
    BY <1>1 DEF RecordInv, Fits, Progressed, NoRecord, NoProgress
  <2>1. Cardinality(undecodable[j]) \in Nat /\ Cardinality(Attempts(j)) \in Nat
    BY <1>1, FS_EmptySet, AttemptsFinite
  <2>2. 0 <= Cardinality(Attempts(j)) * Cardinality(undecodable[j])
    BY <2>1, ProductGrows
  <2>3. Claims(sent[j], Covered(j), undecodable[j], NoProgress)
    BY ClaimsOfNothing
  <2>4. QED
    BY <2>2, <2>3
<1>6. WorkInv
  <2> SUFFICES ASSUME NEW r \in Requests
               PROVE  WorkKept(r) /\ WorkOrdered(r) /\ WorkBounded(r)
    BY DEF WorkInv
  <2>1. WorkKept(r)
    BY <1>1, FS_EmptySet DEF WorkKept, Live
  <2>2. WorkOrdered(r)
    BY <1>1 DEF WorkOrdered, InHand, NoProgress
  <2>3. WorkBounded(r)
    <3>1. InHand(r) = {} /\ {f \in InHand(r) : f < run[r].last} = {}
      BY <1>1 DEF InHand
    <3>2. Busy(r) = 0
      <4>1. Cardinality({}) = 0
        BY FS_EmptySet
      <4>2. Busy(r) = Cardinality({}) + Cardinality({}) + Cardinality({})
        BY <1>1 DEF Busy
      <4>3. QED
        BY <4>1, <4>2
    <3>3. Cardinality({}) <= Publishers - 1 /\ Cardinality({}) <= Publishers /\ 0 <= Publishers
      BY FS_EmptySet, SizesAssumption
    <3>4. QED
      BY <3>1, <3>2, <3>3 DEF WorkBounded
  <2>4. QED
    BY <2>1, <2>2, <2>3
<1>7. QED
  BY <1>2, <1>3, <1>4, <1>5, <1>6 DEF HistoryInv

\* A crash, a restart and silence leave the history and what it says alone.
LEMMA OtherHistory ==
    ASSUME TypeOK, TypeOK', HasJob, HistoryInv, OtherStep
    PROVE  HistoryInv'
<1>1. /\ UNCHANGED <<host, job_id, prior, run, cursor, verdict, jobs, pointer, sent, undecodable>>
      /\ \A r \in Requests : Died(r) \/ Same(r)
  BY OtherMoves
<1>2. \A r \in Requests :
        \/ state'[r] = state[r] /\ answer'[r] = answer[r]
        \/ state[r] \in Admitted /\ state'[r] = "done" /\ answer'[r] = "lost"
  BY <1>1 DEF Died, Same
<1>3. Grown
  BY OtherGrows
<1>4. FreshInv' /\ VerdictInv' /\ WorkInv'
  BY <1>1, <1>2, OtherWork DEF HistoryInv, FreshInv, VerdictInv
<1>5. RecordInv'
  <2> SUFFICES ASSUME NEW j \in Requests
               PROVE  /\ Claims(sent'[j], Covered(j)', undecodable'[j], Progressed(jobs[j]))
                      /\ Progressed(jobs[j]).failed
                           <= Cardinality(Attempts(j)') * Cardinality(undecodable'[j])
    BY <1>1 DEF RecordInv, Fits
  <2>1. Progressed(jobs[j]) \in Progress
    BY ProgressTypes
  <2>2. QED
    BY <1>3, <2>1, FitsKept DEF HistoryInv, RecordInv
<1>6. RunInv'
  <2> SUFFICES ASSUME NEW r \in Requests, state'[r] \in HasRun PROVE RunTruthful(r)'
    BY DEF RunInv
  <2>1. state[r] \in HasRun /\ Same(r)
    BY <1>1 DEF HasRun, Live, Died, Same
  <2>2. RunTruthful(r) /\ job_id[r] \in Requests
    BY <2>1 DEF HistoryInv, RunInv, HasJob, HasRun, Working
  <2>3. queue'[r] = queue[r] /\ confirming'[r] = confirming[r] /\ snapshots'[r] = snapshots[r]
        /\ InHand(r)' = InHand(r)
    BY <2>1 DEF Same, InHand
  <2>4. QED
    BY <1>1, <1>3, <2>2, <2>3, RunKept
<1>7. AnswerInv'
  <2> SUFFICES ASSUME NEW r \in Requests PROVE AnswerKept(r)'
    BY DEF AnswerInv
  <2>1. CASE state'[r] = state[r] /\ answer'[r] = answer[r]
    BY <1>1, <1>3, <2>1, AnswerGrows DEF HistoryInv, AnswerInv
  <2>2. CASE answer'[r] = "lost"
    <3>1. HttpStatus("lost") # 200
      BY Successes
    <3>2. QED
      BY <2>2, <3>1 DEF AnswerKept
  <2>3. QED
    BY <1>2, <2>1, <2>2
<1>8. QED
  BY <1>4, <1>5, <1>6, <1>7 DEF HistoryInv

\* Every step keeps what records, runs and answers claim true.
LEMMA HistoryStep == ServiceInv /\ ServiceInv' /\ HistoryInv /\ [Next]_vars => HistoryInv' /\ Grown
<1> SUFFICES ASSUME ServiceInv, ServiceInv', HistoryInv, [Next]_vars PROVE HistoryInv' /\ Grown
  OBVIOUS
<1>0. TypeOK /\ TypeOK' /\ HasJob /\ HasJob'
  BY DEF ServiceInv
<1>1. FreshInv /\ WorkInv /\ RecordInv /\ RunInv /\ VerdictInv /\ AnswerInv
  BY DEF HistoryInv
<1>2. ASSUME NEW r \in Requests, Request(r) PROVE HistoryInv' /\ Grown
  <2>1. Grown
    BY <1>0, <1>1, <1>2, RequestGrows
  <2>2. FreshInv' /\ WorkInv'
    BY <1>0, <1>1, <1>2, RequestFresh, RequestWork
  <2>3. RecordInv'
    BY <1>0, <1>1, <1>2, <2>1, RequestRecords
  <2>4. RunInv'
    BY <1>0, <1>1, <1>2, <2>1, <2>2, RequestRuns
  <2>5. VerdictInv' /\ AnswerInv'
    BY <1>0, <1>1, <1>2, <2>1, RequestVerdicts, RequestAnswers
  <2>6. QED
    BY <2>1, <2>2, <2>3, <2>4, <2>5 DEF HistoryInv
<1>3. CASE OtherStep
  BY <1>0, <1>3, OtherHistory, OtherGrows
<1>4. QED
  BY <1>2, <1>3 DEF Next, Idle, OtherStep

\* Every reachable state satisfies it.
LEMMA HistoryInductive == Spec => [](ServiceInv /\ HistoryInv)
<1>1. Init => ServiceInv /\ HistoryInv
  BY ServiceInit, HistoryInit
<1>2. ServiceInv /\ HistoryInv /\ [Next]_vars => (ServiceInv /\ HistoryInv)'
  BY ServiceStep, HistoryStep
<1>3. QED
  BY <1>1, <1>2, PTL DEF Spec

-----------------------------------------------------------------------------
(* Whose jobs they are.                                                    *)

Exists(j) == jobs[j].status # "absent"

\* A request works on a job of its own key: its own, or one whose record exists.  A
\* record does not exist before the request that it is named after creates it.
OwnInv ==
    /\ \A r \in Requests : job_id[r] # None =>
         Key(job_id[r]) = Key(r) /\ (job_id[r] # r => Exists(job_id[r]))
    /\ \A k \in Keys : pointer[k] # None => Key(pointer[k]) = k /\ Exists(pointer[k])
    /\ \A r \in Requests :
         state[r] \in {"new", "opening", "pointer", "record", "creating"} => jobs[r] = NoRecord

\* A record that exists stays, and a request's step writes to no record but its
\* own and, creating, to that named after it.
LEMMA RecordsStay ==
    ASSUME TypeOK, HasJob, NEW r \in Requests, Request(r)
    PROVE  /\ \A j \in Requests : Exists(j) => Exists(j)'
           /\ \A j \in Requests : jobs'[j] = jobs[j]
                \/ (state[r] \in HasRun /\ j = job_id[r]) \/ (state[r] = "creating" /\ j = r)
<1>0. jobs \in [Requests -> Record]
  BY DEF TypeOK
<1>1. CASE UNCHANGED redis
  BY <1>1 DEF redis, Exists
<1>2. CASE state[r] = "creating" /\ Created(r)
  BY <1>0, <1>2 DEF Created, Stamped, Exists
<1>3. CASE state[r] = "resuming" /\ MarkedRunning(r)
  <2>1. job_id[r] \in Requests
    BY <1>3 DEF HasJob, Working
  <2>2. QED
    BY <1>0, <1>3, <2>1 DEF MarkedRunning, Stamped, Exists, HasRun, Record
<1>4. CASE state[r] \in {"running", "saving"} /\ \E p : Saved(r, p)
  <2>1. job_id[r] \in Requests
    BY <1>4 DEF HasJob, Working, Live
  <2>2. QED
    BY <1>0, <1>4, <2>1 DEF Saved, Stamped, Exists, HasRun, Live
<1>5. CASE state[r] = "marking" /\ Marked(r)
  <2>1. job_id[r] \in Requests
    BY <1>5 DEF HasJob, Working, Live
  <2>2. Status(r) # "absent"
    BY DEF Status
  <2>3. QED
    BY <1>0, <1>5, <2>1, <2>2 DEF Marked, Stamped, Exists, HasRun, Live, Record
<1>6. QED
  BY <1>1, <1>2, <1>3, <1>4, <1>5, RedisMoves

\* Requests keep to their key and to records that exist.
LEMMA RequestOwn ==
    ASSUME TypeOK, TypeOK', HasJob, FreshInv, OwnInv, NEW r \in Requests, Request(r)
    PROVE  OwnInv'
<1>0. Key(r) \in Keys /\ job_id[r] \in Requests \cup {None} /\ None \notin Requests
  BY RequestsAssumption DEF Key, TypeOK
<1>1. \A j \in Requests : Exists(j) => jobs'[j].status # "absent"
  BY RecordsStay DEF Exists
<1>2. ASSUME NEW q \in Requests, job_id'[q] # None
      PROVE  Key(job_id'[q]) = Key(q) /\ (job_id'[q] # q => jobs'[job_id'[q]].status # "absent")
  <2>1. CASE job_id'[q] = job_id[q]
    BY <1>1, <1>2, <2>1 DEF OwnInv, TypeOK
  <2>2. CASE job_id'[q] = q
    BY <2>2
  <2>3. CASE job_id'[q] # job_id[q] /\ job_id'[q] # q
    <3>1. q = r
      BY <2>3, OthersStay
    <3>2. ReadPointer(r) /\ job_id'[r] = pointer[Key(r)] /\ pointer[Key(r)] # None
      <4>1. ReadPointer(r) \/ ReadRecord(r)
        BY <2>3, <3>1, DispatchStays, QuietStays
      <4>2. QED
        BY <2>3, <3>1, <4>1 DEF ReadPointer, ReadRecord, TypeOK
    <3>3. Key(pointer[Key(r)]) = Key(r) /\ Exists(pointer[Key(r)]) /\ pointer[Key(r)] \in Requests
      BY <1>0, <3>2 DEF OwnInv, TypeOK
    <3>4. QED
      BY <1>1, <3>1, <3>2, <3>3
  <2>4. QED
    BY <2>1, <2>2, <2>3
<1>3. ASSUME NEW k \in Keys, pointer'[k] # None
      PROVE  Key(pointer'[k]) = k /\ jobs'[pointer'[k]].status # "absent"
  <2>1. CASE pointer'[k] = pointer[k]
    BY <1>1, <1>3, <2>1 DEF OwnInv, TypeOK
  <2>2. CASE pointer'[k] # pointer[k]
    <3>1. Created(r)
      BY <2>2, RedisMoves DEF redis, MarkedRunning, Saved, Marked
    <3>2. k = Key(r) /\ pointer'[k] = r /\ jobs'[r].status = "RUNNING"
      BY <1>0, <2>2, <3>1 DEF Created, Stamped, TypeOK
    <3>3. QED
      BY <3>2 DEF Exists
  <2>3. QED
    BY <2>1, <2>2
<1>4. ASSUME NEW q \in Requests, state'[q] \in {"new", "opening", "pointer", "record", "creating"}
      PROVE  jobs'[q] = NoRecord
  <2>1. state[q] \in {"new", "opening", "pointer", "record", "creating"}
        /\ (q = r => state[r] # "creating")
    <3>1. CASE q # r
      BY <1>4, <3>1, OthersStay
    <3>2. CASE q = r
      BY <1>4, <3>2, DispatchStays, QuietMoves
    <3>3. QED
      BY <3>1, <3>2
  <2>2. jobs[q] = NoRecord /\ ~Exists(q)
    BY <2>1 DEF OwnInv, Exists, NoRecord
  <2>3. ~(state[r] \in HasRun /\ q = job_id[r])
    <3>1. job_id[r] = q => q = r
      BY <1>0, <2>2 DEF OwnInv
    <3>2. QED
      BY <2>1, <3>1 DEF HasRun, Live
  <2>4. QED
    BY <2>1, <2>2, <2>3, RecordsStay
<1>5. QED
  BY <1>2, <1>3, <1>4 DEF OwnInv, Key, Exists

\* No other step changes a job, a record or a pointer.
LEMMA OtherOwn ==
    ASSUME TypeOK, OwnInv, OtherStep
    PROVE  OwnInv'
<1>1. /\ UNCHANGED <<job_id, jobs, pointer>>
      /\ \A r \in Requests : state'[r] = state[r] \/ state'[r] = "done"
  BY OtherMoves DEF Died, Same
<1>2. QED
  BY <1>1 DEF OwnInv, Key, Exists

-----------------------------------------------------------------------------
(* Records that are left RUNNING, and runs that were interrupted.          *)

\* An interruption may add one member to a set.
LEMMA OneMoreEach ==
    ASSUME interruptions \in Nat, NEW S, NEW T, IsFiniteSet(S), Cardinality(S) <= interruptions,
           \/ interruptions' = interruptions /\ T \subseteq S
           \/ interruptions' = interruptions + 1 /\ \E x : T \subseteq S \cup {x}
    PROVE  Cardinality(T) <= interruptions'
<1>1. Cardinality(S) \in Nat
  BY FS_CardinalityType
<1>2. CASE interruptions' = interruptions /\ T \subseteq S
  <2>1. Cardinality(T) \in Nat /\ Cardinality(T) <= Cardinality(S)
    BY <1>2, Fewer
  <2>2. QED
    BY <1>1, <1>2, <2>1
<1>3. ASSUME interruptions' = interruptions + 1, NEW x, T \subseteq S \cup {x}
      PROVE  Cardinality(T) <= interruptions'
  <2>1. /\ IsFiniteSet(S \cup {x}) /\ Cardinality(S \cup {x}) \in Nat
        /\ Cardinality(S \cup {x}) <= Cardinality(S) + 1
    BY OneMore
  <2>2. Cardinality(T) \in Nat /\ Cardinality(T) <= Cardinality(S \cup {x})
    BY <1>3, <2>1, Fewer
  <2>3. QED
    BY <1>1, <1>3, <2>1, <2>2
<1>4. QED
  BY <1>2, <1>3

\* A job that a request puts to work is no orphan, and a request leaves one behind
\* only when it is interrupted.
LEMMA RequestOrphans ==
    ASSUME TypeOK, TypeOK', HasJob, FreshInv, NEW r \in Requests, Request(r), NEW k \in Keys
    PROVE  \/ interruptions' = interruptions /\ Orphans(k)' \subseteq Orphans(k)
           \/ interruptions' = interruptions + 1 /\ \E x : Orphans(k)' \subseteq Orphans(k) \cup {x}
<1>0. \A q \in Requests : q # r => state'[q] = state[q] /\ job_id'[q] = job_id[q]
  BY OthersStay
<1>1. \A j \in Requests : jobs'[j] = jobs[j]
        \/ (state[r] \in HasRun /\ j = job_id[r]) \/ (state[r] = "creating" /\ j = r)
  BY RecordsStay
<1>2. CASE Escape(r)
  <2>1. interruptions' = interruptions + 1 /\ job_id' = job_id
    BY <1>2 DEF Escape, Interrupted, local
  <2>2. state[r] = "creating" => job_id[r] = r
    BY DEF FreshInv
  <2>3. Orphans(k)' \subseteq Orphans(k) \cup {job_id[r]}
    <3>1. \A j \in Requests : j # job_id[r] => jobs'[j] = jobs[j]
      BY <1>1, <2>2
    <3>2. QED
      BY <1>0, <2>1, <3>1 DEF Orphans, Key
  <2>4. QED
    BY <2>1, <2>3
<1>3. CASE Dispatch(r)
  <2>1. job_id' = job_id /\ state[r] \in Live /\ state'[r] \in Live
    BY <1>3, DispatchStays DEF Live
  <2>2. \A j \in Requests : j # job_id[r] => jobs'[j] = jobs[j]
    BY <1>1, <2>1 DEF Live
  <2>3. Orphans(k)' \subseteq Orphans(k)
    BY <1>0, <2>1, <2>2 DEF Orphans, Key
  <2>4. interruptions' = interruptions \/ interruptions' = interruptions + 1
    BY <1>3 DEF Dispatch, DecodeFrame, SkipFrame, TakeFrame, BrokerAccepts, Confirm, Checkpoint,
                CallRaises, HangUp, Interrupted
  <2>5. QED
    BY <2>3, <2>4
<1>4. CASE Start(r)
  <2>1. interruptions' = interruptions /\ job_id' = job_id /\ state[r] \notin Live /\ state'[r] \in Live
    BY <1>4 DEF Start, local, Goes, TypeOK, Live
  <2>2. state[r] = "creating" => job_id[r] = r
    BY DEF FreshInv
  <2>3. \A j \in Requests : j # job_id[r] => jobs'[j] = jobs[j]
    BY <1>1, <2>2
  <2>4. Orphans(k)' \subseteq Orphans(k)
    BY <1>0, <2>1, <2>3 DEF Orphans, Key
  <2>5. QED
    BY <2>1, <2>4
<1>5. CASE Save(r)
  <2>1. /\ interruptions' = interruptions /\ job_id' = job_id
        /\ state[r] \in Live /\ state'[r] \in Live
    BY <1>5 DEF Save, local, Goes, TypeOK, Live
  <2>2. \A j \in Requests : j # job_id[r] => jobs'[j] = jobs[j]
    BY <1>1, <2>1 DEF Live
  <2>3. Orphans(k)' \subseteq Orphans(k)
    BY <1>0, <2>1, <2>2 DEF Orphans, Key
  <2>4. QED
    BY <2>1, <2>3
<1>6. CASE Mark(r)
  <2>1. interruptions' = interruptions /\ job_id' = job_id /\ job_id[r] \in Requests /\ Marked(r)
    BY <1>6 DEF Mark, local, HasJob, Working, Live
  <2>2. jobs'[job_id[r]].status # "RUNNING"
    <3>1. Status(r) # "RUNNING"
      BY DEF Status
    <3>2. QED
      BY <2>1, <3>1 DEF Marked, Stamped, TypeOK, Record
  <2>3. \A j \in Requests : j # job_id[r] => jobs'[j] = jobs[j]
    BY <2>1 DEF Marked, Stamped, TypeOK
  <2>4. Orphans(k)' \subseteq Orphans(k)
    BY <1>0, <2>1, <2>2, <2>3 DEF Orphans, Key
  <2>5. QED
    BY <2>1, <2>4
<1>7. CASE \/ Invalid(r) \/ BadPath(r) \/ Admit(r) \/ Unavailable(r) \/ Unopenable(r) \/ Turned(r)
           \/ Reserve(r) \/ ReadPointer(r) \/ ReadRecord(r) \/ RunReturns(r) \/ Close(r)
  <2>1. interruptions' = interruptions /\ jobs' = jobs
    BY <1>7 DEF Invalid, BadPath, Admit, Unavailable, Unopenable, Turned, Reserve, ReadPointer,
                ReadRecord, RunReturns, Close, redis
  <2>2. state[r] \in Live => state'[r] \in Live /\ job_id'[r] = job_id[r]
    BY <1>7 DEF Invalid, BadPath, Admit, Unavailable, Unopenable, Turned, Reserve, ReadPointer,
                ReadRecord, RunReturns, Close, Goes, TypeOK, Live
  <2>3. Orphans(k)' \subseteq Orphans(k)
    BY <1>0, <2>1, <2>2 DEF Orphans, Key
  <2>4. QED
    BY <2>1, <2>3
<1>8. QED
  BY <1>2, <1>3, <1>4, <1>5, <1>6, <1>7 DEF Request

\* A process that dies leaves at most one record of a video RUNNING.
LEMMA CrashOrphans ==
    ASSUME TypeOK, TypeOK', HasJob, OneRunPerKey, OwnInv, NEW p \in Replicas, Crash(p), NEW k \in Keys
    PROVE  interruptions' = interruptions + 1 /\ \E x : Orphans(k)' \subseteq Orphans(k) \cup {x}
<1>1. /\ interruptions' = interruptions + 1 /\ UNCHANGED <<jobs, job_id>>
      /\ \A r \in Requests : state'[r] = IF host[r] = p /\ state[r] \in Admitted THEN "done" ELSE state[r]
  BY DEF Crash, Interrupted, local, redis
<1> DEFINE died == {r \in Requests : host[r] = p /\ state[r] \in Live /\ Key(r) = k}
<1>2. \A r, q \in died : r = q
  BY DEF OneRunPerKey, Live, Reserving
<1>3. \A j \in Orphans(k)' : j \in Orphans(k) \/ \E r \in died : job_id[r] = j
  <2> SUFFICES ASSUME NEW j \in Orphans(k)', j \notin Orphans(k)
               PROVE  \E r \in died : job_id[r] = j
    OBVIOUS
  <2>1. j \in Requests /\ Key(j) = k /\ jobs[j].status = "RUNNING"
    BY <1>1 DEF Orphans, Key
  <2>2. PICK r \in Requests : state[r] \in Live /\ job_id[r] = j
    BY <2>1 DEF Orphans
  <2>3. state'[r] \notin Live
    BY <1>1, <2>2 DEF Orphans
  <2>4. Key(r) = k
    BY <2>1, <2>2, RequestsAssumption DEF OwnInv
  <2>5. r \in died
    BY <1>1, <2>2, <2>3, <2>4
  <2>6. QED
    BY <2>2, <2>5
<1>4. CASE died = {}
  BY <1>1, <1>3, <1>4
<1>5. ASSUME NEW d \in died
      PROVE  interruptions' = interruptions + 1 /\ \E x : Orphans(k)' \subseteq Orphans(k) \cup {x}
  <2>1. Orphans(k)' \subseteq Orphans(k) \cup {job_id[d]}
    BY <1>2, <1>3
  <2>2. QED
    BY <1>1, <2>1
<1>6. QED
  BY <1>4, <1>5

\* The runs of a job that were interrupted.
Broken(j) == {r \in Requests : job_id[r] = j /\ (verdict[r] = "error" \/ lost[r] # {})}

BrokenInv == \A j \in Requests : Cardinality(Broken(j)) <= interruptions

\* A run breaks when a call of it raises.
LEMMA RequestBroken ==
    ASSUME TypeOK, WorkInv, NEW r \in Requests, Request(r), NEW j \in Requests
    PROVE  \/ interruptions' = interruptions /\ Broken(j)' \subseteq Broken(j)
           \/ interruptions' = interruptions + 1 /\ \E x : Broken(j)' \subseteq Broken(j) \cup {x}
<1>0. \A q \in Requests : q # r =>
        job_id'[q] = job_id[q] /\ verdict'[q] = verdict[q] /\ lost'[q] = lost[q]
  BY OthersStay
<1>1. CASE CallRaises(r)
  <2>1. job_id' = job_id
    BY <1>1, DispatchStays DEF Dispatch
  <2>2. Broken(j)' \subseteq Broken(j) \cup {r}
    BY <1>0, <2>1 DEF Broken
  <2>3. CASE verdict[r] = "error"
    <3>1. interruptions' = interruptions
      BY <1>1, <2>3, RaiseMoves
    <3>2. Broken(j)' \subseteq Broken(j)
      BY <1>0, <2>1, <2>3 DEF Broken
    <3>3. QED
      BY <3>1, <3>2
  <2>4. CASE verdict[r] # "error"
    <3>1. interruptions' = interruptions + 1
      BY <1>1, <2>4, RaiseMoves DEF Interrupted
    <3>2. QED
      BY <2>2, <3>1
  <2>5. QED
    BY <2>3, <2>4
<1>2. CASE Dispatch(r) /\ ~CallRaises(r)
  <2>1. job_id' = job_id
    BY <1>2, DispatchStays
  <2>2. interruptions' = interruptions /\ lost' = lost
    BY <1>2 DEF Dispatch, DecodeFrame, SkipFrame, TakeFrame, BrokerAccepts, Confirm, Checkpoint, HangUp,
                history
  <2>3. verdict'[r] = "error" => verdict[r] = "error"
    <3>1. CASE HangUp(r)
      BY <3>1, HangUpMoves
    <3>2. CASE ~HangUp(r)
      BY <1>2, <3>2 DEF Dispatch, DecodeFrame, SkipFrame, TakeFrame, BrokerAccepts, Confirm, Checkpoint
    <3>3. QED
      BY <3>1, <3>2
  <2>4. Broken(j)' \subseteq Broken(j)
    BY <1>0, <2>1, <2>2, <2>3 DEF Broken
  <2>5. QED
    BY <2>2, <2>4
<1>3. CASE ~Dispatch(r)
  <2>1. lost' = lost
    BY <1>3, QuietStays
  <2>2. verdict'[r] = "error" => verdict[r] = "error"
    BY <1>3, QuietStays DEF RunReturns, TypeOK
  <2>3. job_id'[r] = job_id[r] \/ (lost[r] = {} /\ verdict[r] # "error")
    <3>1. job_id' = job_id \/ state[r] \in {"pointer", "record"}
      BY <1>3, QuietStays DEF ReadPointer, ReadRecord
    <3>2. QED
      BY <3>1 DEF WorkInv, WorkKept, Live
  <2>4. Broken(j)' \subseteq Broken(j)
    BY <1>0, <2>1, <2>2, <2>3 DEF Broken
  <2>5. interruptions' = interruptions \/ interruptions' = interruptions + 1
    BY <1>3 DEF Request, Invalid, BadPath, Admit, Unavailable, Unopenable, Turned, Reserve, ReadPointer,
                ReadRecord, Start, RunReturns, Save, Mark, Escape, Close, Interrupted
  <2>6. QED
    BY <2>4, <2>5
<1>4. QED
  BY <1>1, <1>2, <1>3

\* A process that dies breaks at most one run of a job.
LEMMA CrashBroken ==
    ASSUME TypeOK, WorkInv, OneRunPerKey, OwnInv, NEW p \in Replicas, Crash(p), NEW j \in Requests
    PROVE  interruptions' = interruptions + 1 /\ \E x : Broken(j)' \subseteq Broken(j) \cup {x}
<1>1. interruptions' = interruptions + 1 /\ UNCHANGED <<verdict, job_id>>
  BY DEF Crash, Interrupted
<1> DEFINE died == {r \in Requests : host[r] = p /\ state[r] = "running" /\ Key(r) = Key(j)}
<1>2. \A r, q \in died : r = q
  BY DEF OneRunPerKey, Live, Reserving
<1>3. \A r \in Broken(j)' : r \in Broken(j) \/ r \in died
  <2> SUFFICES ASSUME NEW r \in Broken(j)', r \notin Broken(j)
               PROVE  r \in died
    OBVIOUS
  <2>1. r \in Requests /\ job_id[r] = j /\ lost[r] = {} /\ lost'[r] # {}
    BY <1>1 DEF Broken
  <2>2. host[r] = p /\ publishing[r] # {}
    BY <2>1 DEF Crash
  <2>3. state[r] = "running"
    BY <2>1, <2>2 DEF WorkInv, WorkKept
  <2>4. Key(r) = Key(j)
    BY <2>1, RequestsAssumption DEF OwnInv
  <2>5. QED
    BY <2>1, <2>2, <2>3, <2>4
<1>4. CASE died = {}
  BY <1>1, <1>3, <1>4
<1>5. ASSUME NEW d \in died
      PROVE  interruptions' = interruptions + 1 /\ \E x : Broken(j)' \subseteq Broken(j) \cup {x}
  <2>1. Broken(j)' \subseteq Broken(j) \cup {d}
    BY <1>2, <1>3
  <2>2. QED
    BY <1>1, <2>1
<1>6. QED
  BY <1>4, <1>5

\* Every step keeps both bounds.
LEMMA OrphansStep ==
    ServiceInv /\ ServiceInv' /\ FreshInv /\ WorkInv /\ OwnInv /\ OrphansBounded /\ BrokenInv
    /\ [Next]_vars => (OwnInv /\ OrphansBounded /\ BrokenInv)'
<1> SUFFICES ASSUME ServiceInv, ServiceInv', FreshInv, WorkInv, OwnInv, OrphansBounded, BrokenInv,
                    [Next]_vars
             PROVE  (OwnInv /\ OrphansBounded /\ BrokenInv)'
  OBVIOUS
<1>0. /\ TypeOK /\ TypeOK' /\ HasJob /\ OneRunPerKey /\ interruptions \in Nat
      /\ (\E r \in Requests : Request(r)) \/ OtherStep
  BY DEF ServiceInv, TypeOK, Next, Idle, OtherStep
<1>1. OwnInv'
  BY <1>0, RequestOwn, OtherOwn
<1>2. ASSUME NEW p \in Replicas, Crash(p)
      PROVE  /\ \A k \in Keys : Cardinality(Orphans(k)') <= interruptions'
             /\ \A j \in Requests : Cardinality(Broken(j)') <= interruptions'
  <2>1. ASSUME NEW k \in Keys PROVE Cardinality(Orphans(k)') <= interruptions'
    <3>1. IsFiniteSet(Orphans(k)) /\ Cardinality(Orphans(k)) <= interruptions
      BY FS_Subset, RequestsAssumption DEF Orphans, OrphansBounded
    <3>2. QED
      BY <1>0, <1>2, <3>1, CrashOrphans, OneMoreEach
  <2>2. ASSUME NEW j \in Requests PROVE Cardinality(Broken(j)') <= interruptions'
    <3>1. IsFiniteSet(Broken(j)) /\ Cardinality(Broken(j)) <= interruptions
      BY FS_Subset, RequestsAssumption DEF Broken, BrokenInv
    <3>2. QED
      BY <1>0, <1>2, <3>1, CrashBroken, OneMoreEach
  <2>3. QED
    BY <2>1, <2>2
<1>3. ASSUME NEW r \in Requests, Request(r)
      PROVE  /\ \A k \in Keys : Cardinality(Orphans(k)') <= interruptions'
             /\ \A j \in Requests : Cardinality(Broken(j)') <= interruptions'
  <2>1. ASSUME NEW k \in Keys PROVE Cardinality(Orphans(k)') <= interruptions'
    <3>1. IsFiniteSet(Orphans(k)) /\ Cardinality(Orphans(k)) <= interruptions
      BY FS_Subset, RequestsAssumption DEF Orphans, OrphansBounded
    <3>2. QED
      BY <1>0, <1>3, <3>1, RequestOrphans, OneMoreEach
  <2>2. ASSUME NEW j \in Requests PROVE Cardinality(Broken(j)') <= interruptions'
    <3>1. IsFiniteSet(Broken(j)) /\ Cardinality(Broken(j)) <= interruptions
      BY FS_Subset, RequestsAssumption DEF Broken, BrokenInv
    <3>2. QED
      BY <1>0, <1>3, <3>1, RequestBroken, OneMoreEach
  <2>3. QED
    BY <2>1, <2>2
<1>4. CASE (\E j \in Requests : Silence(j)) \/ (\E p \in Replicas : Restart(p)) \/ UNCHANGED vars
  <2>1. UNCHANGED <<interruptions, jobs, job_id, state, verdict, lost>>
    BY <1>4 DEF Silence, Restart, vars, local, redis, history
  <2>2. \A k \in Keys : Orphans(k)' = Orphans(k)
    BY <2>1 DEF Orphans, Key
  <2>3. \A j \in Requests : Broken(j)' = Broken(j)
    BY <2>1 DEF Broken
  <2>4. QED
    BY <1>1, <2>1, <2>2, <2>3 DEF OrphansBounded, BrokenInv
<1>5. (OrphansBounded /\ BrokenInv)'
  BY <1>0, <1>2, <1>3, <1>4 DEF OtherStep, OrphansBounded, BrokenInv
<1>6. QED
  BY <1>1, <1>5


-----------------------------------------------------------------------------
(* What the records and the answers say.                                   *)

\* Everything about jobs and their records.
JobsInv == ServiceInv /\ HistoryInv /\ OwnInv /\ OrphansBounded /\ BrokenInv

\* At first there is no job to account for.
LEMMA JobsInit == Init => JobsInv
<1> SUFFICES ASSUME Init PROVE JobsInv OBVIOUS
<1>1. OwnInv
  BY DEF Init, OwnInv
<1>2. OrphansBounded
  <2> SUFFICES ASSUME NEW k \in Keys PROVE Cardinality(Orphans(k)) <= interruptions
    BY DEF OrphansBounded
  <2>1. Orphans(k) = {}
    BY DEF Init, Orphans, NoRecord
  <2>2. QED
    BY <2>1, FS_EmptySet DEF Init
<1>3. BrokenInv
  <2> SUFFICES ASSUME NEW j \in Requests PROVE Cardinality(Broken(j)) <= interruptions
    BY DEF BrokenInv
  <2>1. Broken(j) = {}
    BY RequestsAssumption DEF Init, Broken
  <2>2. QED
    BY <2>1, FS_EmptySet DEF Init
<1>4. QED
  BY <1>1, <1>2, <1>3, ServiceInit, HistoryInit DEF JobsInv

\* Every step keeps the account of jobs.
LEMMA JobsStep == JobsInv /\ [Next]_vars => JobsInv'
<1> SUFFICES ASSUME JobsInv, [Next]_vars PROVE JobsInv'
  OBVIOUS
<1>1. ServiceInv' /\ HistoryInv'
  BY ServiceStep, HistoryStep DEF JobsInv
<1>2. FreshInv /\ WorkInv
  BY DEF JobsInv, HistoryInv
<1>3. OwnInv' /\ OrphansBounded' /\ BrokenInv'
  BY <1>1, <1>2, OrphansStep DEF JobsInv
<1>4. QED
  BY <1>1, <1>3 DEF JobsInv

\* Every reachable state satisfies it.
LEMMA JobsInductive == Spec => []JobsInv
BY JobsInit, JobsStep, PTL DEF Spec

\* A frame that was passed over, and never sent, is missing from a run that goes on or
\* was interrupted, and each lacks at most one for every other publisher.
LEMMA FewMissing ==
    ASSUME JobsInv, NEW j \in Requests, NEW S \in SUBSET Covered(j), \A f \in S : sent[j][f] = 0
    PROVE  IsFiniteSet(S) /\ Cardinality(S) <= MayBeMissing(j)
<1>0. /\ TypeOK /\ WorkInv /\ interruptions \in Nat /\ Publishers \in Nat \ {0}
      /\ Publishers - 1 \in Nat
  BY SizesAssumption DEF JobsInv, ServiceInv, HistoryInv, TypeOK
<1> DEFINE B == Broken(j)
           W == Underway(j)
           R == B \cup W
           F == [r \in R |-> PassedOver(r)]
           U == UNION {F[r] : r \in R}
<1>1. IsFiniteSet(B) /\ IsFiniteSet(W) /\ Cardinality(B) <= interruptions
  BY FS_Subset, RequestsAssumption DEF Broken, Underway, JobsInv, BrokenInv
<1>2. \A r \in R : IsFiniteSet(F[r]) /\ Cardinality(F[r]) <= Publishers - 1
  <2> SUFFICES ASSUME NEW r \in R
               PROVE  IsFiniteSet(F[r]) /\ Cardinality(F[r]) <= Publishers - 1
    OBVIOUS
  <2> DEFINE H == {f \in InHand(r) : f < run[r].last}
  <2>1. r \in Requests
    BY DEF Broken, Underway
  <2>2. Cardinality(H) <= Publishers - 1
    BY <1>0, <2>1 DEF WorkInv, WorkBounded
  <2>3. IsFiniteSet(H)
    BY <1>0, <2>1, RunTypes, FramesFinite, FS_Subset
  <2>4. PassedOver(r) \subseteq H
    BY DEF PassedOver, InHand
  <2>5. /\ IsFiniteSet(PassedOver(r)) /\ Cardinality(PassedOver(r)) \in Nat /\ Cardinality(H) \in Nat
        /\ Cardinality(PassedOver(r)) <= Cardinality(H)
    BY <2>3, <2>4, Fewer
  <2> HIDE DEF H
  <2>6. QED
    BY <1>0, <2>2, <2>5
<1>3. \A f \in S : \E r \in R : f \in F[r]
  <2> SUFFICES ASSUME NEW f \in S
               PROVE  \E r \in R : f \in F[r]
    OBVIOUS
  <2>1. PICK r \in Requests : job_id[r] = j /\ f \in PassedOver(r)
    BY DEF Covered
  <2>2. r \in R
    <3>1. f \in publishing[r] \/ f \in lost[r]
      BY <2>1 DEF PassedOver
    <3>2. f \in publishing[r] => state[r] = "running"
      BY <1>0 DEF WorkInv, WorkKept
    <3>3. QED
      BY <2>1, <3>1, <3>2 DEF Broken, Underway
  <2>3. QED
    BY <2>1, <2>2
<1>4. IsFiniteSet(R) /\ Cardinality(R) \in Nat /\ Cardinality(W) \in Nat
      /\ Cardinality(R) <= interruptions + Cardinality(W)
  <2>1. /\ IsFiniteSet(B \cup W) /\ IsFiniteSet(B \cap W)
        /\ Cardinality(B \cup W) = Cardinality(B) + Cardinality(W) - Cardinality(B \cap W)
    BY <1>1, FS_Union, FS_Subset
  <2>2. /\ Cardinality(B) \in Nat /\ Cardinality(W) \in Nat
        /\ Cardinality(B \cap W) \in Nat /\ Cardinality(B \cup W) \in Nat
    BY <1>1, <2>1, FS_CardinalityType
  <2> HIDE DEF B, W
  <2>3. QED
    BY <1>0, <1>1, <2>1, <2>2
<1>5. IsFiniteSet(U) /\ Cardinality(U) <= (Publishers - 1) * Cardinality(R)
  <2> HIDE DEF R, F
  <2>1. QED
    BY <1>0, <1>2, <1>4, UnionBound
<1>6. /\ IsFiniteSet(S) /\ Cardinality(S) \in Nat /\ Cardinality(U) \in Nat
      /\ Cardinality(S) <= Cardinality(U)
  <2>1. S \subseteq U
    BY <1>3
  <2>2. QED
    BY <1>5, <2>1, Fewer
<1>7. (Publishers - 1) * Cardinality(R) <= MayBeMissing(j)
  <2> DEFINE m == Publishers - 1
             x == Cardinality(R)
             y == interruptions + Cardinality(W)
  <2>1. m \in Nat /\ x \in Nat /\ y \in Nat /\ x <= y
    BY <1>0, <1>4
  <2>2. MayBeMissing(j) = m * y
    BY DEF MayBeMissing
  <2> HIDE DEF m, x, y
  <2>3. m * x <= m * y
    BY <2>1, ProductGrows
  <2>4. QED
    BY <2>2, <2>3 DEF m, x
<1>8. (Publishers - 1) * Cardinality(R) \in Nat /\ MayBeMissing(j) \in Int
  BY <1>0, <1>4, ProductGrows DEF MayBeMissing
<1> HIDE DEF R, U
<1>9. QED
  BY <1>5, <1>6, <1>7, <1>8

\* For any number of publishers, a job's record passes over few frames that were not
\* sent, one for every other publisher and run that goes on or was interrupted, and with
\* one publisher none; it counts no frame twice as confirmed and none more often as
\* failed than it was attempted: whatever fails, however many processes run a job at
\* once.
THEOREM RecordsAreTruthful == Spec => []RecordTruthful
<1>1. JobsInv => RecordTruthful
  <2> DEFINE missing(j) == {f \in 0 .. jobs[j].last : sent[j][f] = 0 /\ f \notin undecodable[j]}
  <2> SUFFICES ASSUME JobsInv, NEW j \in Requests
               PROVE  /\ Cardinality(missing(j)) <= MayBeMissing(j)
                      /\ jobs[j].confirmed <= Cardinality({f \in 0 .. jobs[j].last : sent[j][f] > 0})
                      /\ jobs[j].failed <=
                           Cardinality({r \in Requests : job_id[r] = j}) * Cardinality(undecodable[j])
    BY DEF RecordTruthful
  <2> DEFINE all == {r \in Requests : job_id[r] = j}
             p == Progressed(jobs[j])
  <2>0. jobs[j] \in Record /\ undecodable[j] \in SUBSET Frames
    BY DEF JobsInv, ServiceInv, TypeOK
  <2>1. p.last = jobs[j].last /\ p.confirmed = jobs[j].confirmed /\ p.failed = jobs[j].failed
    BY DEF Progressed
  <2>2. /\ Claims(sent[j], Covered(j), undecodable[j], p)
        /\ jobs[j].failed <= Cardinality(Attempts(j)) * Cardinality(undecodable[j])
    BY <2>1 DEF JobsInv, HistoryInv, RecordInv, Fits
  <2>3. Cardinality(missing(j)) <= MayBeMissing(j)
    <3>1. missing(j) \subseteq Covered(j)
      BY <2>1, <2>2 DEF Claims
    <3>2. QED
      BY <3>1, FewMissing
  <2>4. Cardinality(Attempts(j)) * Cardinality(undecodable[j]) <= Cardinality(all) * Cardinality(undecodable[j])
    <3>1. IsFiniteSet(all) /\ Attempts(j) \subseteq all
      BY FS_Subset, RequestsAssumption DEF Attempts
    <3>2. QED
      BY <2>0, <3>1, Fewer, FramesFinite, ProductGrows
  <2>5. jobs[j].failed <= Cardinality(all) * Cardinality(undecodable[j])
    <3>1. Cardinality(Attempts(j)) \in Nat /\ Cardinality(all) \in Nat /\ Cardinality(undecodable[j]) \in Nat
      BY <2>0, FramesFinite, AttemptsFinite, FS_Subset, FS_CardinalityType, RequestsAssumption
    <3> DEFINE x == Cardinality(Attempts(j)) * Cardinality(undecodable[j])
               y == Cardinality(all) * Cardinality(undecodable[j])
    <3>2. x \in Nat /\ y \in Nat /\ jobs[j].failed \in Nat
      BY <2>0, <3>1, ProductGrows DEF Record
    <3>3. x <= y /\ jobs[j].failed <= x
      BY <2>2, <2>4
    <3> HIDE DEF x, y
    <3>4. jobs[j].failed <= y
      BY <3>2, <3>3
    <3>5. QED
      BY <3>4 DEF y
  <2>6. jobs[j].confirmed <= Cardinality({f \in 0 .. jobs[j].last : sent[j][f] > 0})
    BY <2>1, <2>2 DEF Claims, SentBy
  <2>7. QED
    BY <2>3, <2>5, <2>6
<1>2. QED
  BY <1>1, JobsInductive, PTL

\* For any number of publishers, a client that did not hang up and is told COMPLETED
\* has every frame of its video sent, one that is told PARTIAL every frame that could
\* be decoded, but for one frame of every other publisher and run that goes on or was
\* interrupted, and with one publisher none: for any number of requests, processes,
\* attempts and failures.
THEOREM AnswersAreTruthful == Spec => []AnswerTruthful
<1>1. JobsInv => AnswerTruthful
  <2> DEFINE missing(r) == {f \in Frames : /\ sent[job_id[r]][f] = 0
                                           /\ answer[r] = "PARTIAL" => f \notin undecodable[job_id[r]]}
  <2> SUFFICES ASSUME JobsInv, NEW r \in Requests, HttpStatus(answer[r]) = 200, verdict[r] # "aborted"
               PROVE  Cardinality(missing(r)) <= MayBeMissing(job_id[r])
    BY DEF AnswerTruthful
  <2>1. /\ job_id[r] \in Requests
        /\ \A f \in Frames :
             f \in Covered(job_id[r]) \/ (answer[r] = "PARTIAL" /\ f \in undecodable[job_id[r]])
    BY DEF JobsInv, HistoryInv, AnswerInv, AnswerKept
  <2>2. missing(r) \subseteq Covered(job_id[r])
    BY <2>1
  <2>3. QED
    BY <2>1, <2>2, FewMissing
<1>2. QED
  BY <1>1, JobsInductive, PTL

\* An interruption, a crash or a call that raises, leaves at most one record of a
\* video RUNNING with nobody at work on it, with any number of processes and publishers;
\* every other way a run ends marks its record.
THEOREM OrphansAreBounded == Spec => []OrphansBounded
<1>1. JobsInv => OrphansBounded
  BY DEF JobsInv
<1>2. QED
  BY <1>1, JobsInductive, PTL

-----------------------------------------------------------------------------
(* One process.  Reservations are kept by a process, so what a job promises *)
(* over its attempts needs all requests to be served by the same one.      *)

OneProcess == \A p, q \in Replicas : p = q

\* What a run has is no less than what its job's record says, and exactly that once
\* it is saved.
AheadInv ==
    \A r \in Requests :
        /\ state[r] \in HasRun => NoLess(run[r], jobs[job_id[r]])
        /\ state[r] = "marking" => jobs[job_id[r]].last = run[r].last

\* A run goes on from what it resumes, and its checkpoints are of what it was since; one
\* publisher writes a checkpoint before it goes on.
SnapKept(r) ==
    /\ NoLess(run[r], prior[r])
    /\ \A s \in snapshots[r] :
         /\ NoLess(s, prior[r]) /\ NoLess(run[r], s)
         /\ Publishers = 1 => NoLess(s, run[r])

SnapInv == \A r \in Requests : state[r] \in HasRun => SnapKept(r)

\* A frame is sent again only after an interruption: those that a run has not passed, and
\* those that it is going to send, are a time behind, and all of them after an error.
RunSent(r) ==
    \A f \in Frames :
        /\ f \in publishing[r] \/ (f > run[r].last /\ f \notin confirming[r])
             => sent[job_id[r]][f] <= interruptions
        /\ verdict[r] = "error" =>
             /\ sent[job_id[r]][f] <= interruptions
             /\ f \in publishing[r] => sent[job_id[r]][f] + 1 <= interruptions

SentInv ==
    /\ ResendsBounded
    /\ \A r \in Requests : state[r] \in HasRun => RunSent(r)
    /\ \A j \in Requests : (\A r \in Requests : state[r] \in HasRun => job_id[r] # j) =>
         \A f \in Frames : f > jobs[j].last => sent[j][f] <= interruptions

\* With one process, requests of one key that hold the reservation are the same.
LEMMA OneByKey ==
    ASSUME OneProcess, TypeOK, OneRunPerKey, NEW r \in Requests, NEW q \in Requests,
           state[r] \in Reserving, state[q] \in Reserving, Key(r) = Key(q)
    PROVE  q = r
BY DEF OneProcess, TypeOK, OneRunPerKey

\* So a request that holds it is alone with its job, and with the one it may create.
LEMMA Alone ==
    ASSUME OneProcess, TypeOK, HasJob, OneRunPerKey, OwnInv, NEW r \in Requests, NEW q \in Requests,
           state[r] \in Reserving, state[q] \in HasRun, job_id[q] = job_id[r] \/ job_id[q] = r
    PROVE  q = r
<1>1. state[q] \in Reserving /\ job_id[q] \in Requests /\ None \notin Requests
  BY RequestsAssumption DEF HasRun, Live, Reserving, HasJob, Working
<1>2. Key(job_id[q]) = Key(q)
  BY <1>1 DEF OwnInv
<1>3. Key(q) = Key(r)
  BY <1>1, <1>2 DEF OwnInv
<1>4. QED
  BY <1>1, <1>3, OneByKey

\* Progress that is no less than another that is no less.
LEMMA NoLessStill ==
    ASSUME NEW p \in Progress, NEW q \in Progress, NEW s \in Progress
    PROVE  NoLess(p, p) /\ NoLess(p, NoProgress) /\ (NoLess(p, q) /\ NoLess(q, s) => NoLess(p, s))
<1>1. /\ p.last \in Int /\ q.last \in Int /\ s.last \in Int /\ p.last >= -1
      /\ p.confirmed \in Nat /\ q.confirmed \in Nat /\ s.confirmed \in Nat
  BY DEF Progress
<1>2. NoProgress.last = -1 /\ NoProgress.confirmed = 0
  BY DEF NoProgress
<1>3. QED
  BY <1>1, <1>2 DEF NoLess

\* The progress in a record is its progress.
LEMMA NoLessRecord ==
    ASSUME TypeOK, NEW j \in Requests
    PROVE  /\ Progressed(jobs[j]) \in Progress
           /\ \A p : (NoLess(p, Progressed(jobs[j])) <=> NoLess(p, jobs[j]))
           /\ \A p : (NoLess(Progressed(jobs[j]), p) <=> NoLess(jobs[j], p))
<1>1. jobs[j] \in Record
  BY DEF TypeOK
<1>2. Progressed(jobs[j]) \in Progress
  BY <1>1 DEF Record, Progress, Progressed
<1>3. Progressed(jobs[j]).last = jobs[j].last /\ Progressed(jobs[j]).confirmed = jobs[j].confirmed
  BY DEF Progressed
<1>4. QED
  BY <1>2, <1>3 DEF NoLess

\* A run only moves forward.
LEMMA RunForward ==
    ASSUME TypeOK, TypeOK', HasJob, NEW r \in Requests, Request(r), state[r] \in HasRun
    PROVE  NoLess(run'[r], run[r]) /\ job_id'[r] = job_id[r] /\ prior'[r] = prior[r]
<1>1. run[r] \in Progress /\ run'[r] \in Progress
  BY DEF TypeOK
<1>2. state[r] \notin {"pointer", "record"}
  BY DEF HasRun, Live
<1>3. UNCHANGED <<job_id, prior>>
  BY <1>2, DispatchStays, QuietStays DEF ReadPointer, ReadRecord
<1>4. CASE Confirm(r)
  <2>1. PICK f \in confirming[r] : run'[r] = Confirmed(run[r], f)
    BY <1>4, ConfirmMoves
  <2>2. f \in Frames
    BY <2>1, RunTypes
  <2>3. run'[r].confirmed >= run[r].confirmed /\ run'[r].last >= run[r].last
    BY <1>1, <2>1, <2>2, ConfirmedProgress DEF Progress
  <2>4. QED
    BY <1>3, <2>3 DEF NoLess
<1>5. CASE SkipFrame(r)
  <2>1. run'[r].last = run[r].last /\ run'[r].confirmed = run[r].confirmed
    BY <1>5, SkipMoves
  <2>2. QED
    BY <1>1, <1>3, <2>1 DEF NoLess, Progress
<1>6. CASE ~Confirm(r) /\ ~SkipFrame(r)
  <2>1. run'[r] = run[r]
    BY <1>2, <1>6, QuietStays, DecodeMoves, TakeMoves, AcceptMoves, CheckpointMoves, RaiseMoves, HangUpMoves
       DEF Dispatch, ReadRecord
  <2>2. QED
    BY <1>1, <1>3, <2>1, NoLessStill
<1>7. QED
  BY <1>4, <1>5, <1>6

\* How a request comes to a run.
LEMMA RunBegins ==
    ASSUME TypeOK, FreshInv', OwnInv', NEW r \in Requests, Request(r),
           state[r] \notin HasRun, state'[r] \in HasRun
    PROVE  /\ UNCHANGED <<jobs, sent, interruptions, verdict>> /\ state[r] \in {"pointer", "record"}
           /\ state'[r] # "marking" /\ run'[r] = prior'[r]
           /\ \/ job_id'[r] = r /\ jobs'[r] = NoRecord /\ run'[r] = NoProgress
              \/ /\ state[r] = "record" /\ job_id'[r] = job_id[r]
                 /\ run'[r] = Progressed(jobs[job_id[r]])
<1>1. ~Dispatch(r) /\ (ReadPointer(r) \/ ReadRecord(r)) /\ state'[r] \in {"creating", "resuming"}
  <2>1. ~Dispatch(r)
    BY DispatchStays DEF HasRun, Live
  <2>2. QED
    BY <2>1, QuietMoves DEF HasRun, Live, Reserving
<1>2. UNCHANGED <<jobs, sent, interruptions, verdict>> /\ state[r] \in {"pointer", "record"}
  BY <1>1 DEF ReadPointer, ReadRecord, redis, history
<1>3. CASE state'[r] = "creating"
  BY <1>1, <1>2, <1>3 DEF FreshInv, OwnInv
<1>4. CASE state'[r] = "resuming"
  <2>1. ReadRecord(r) /\ Resumable(job_id[r])
    BY <1>1, <1>4 DEF ReadPointer, ReadRecord, Goes, TypeOK
  <2>2. /\ job_id'[r] = job_id[r] /\ run'[r] = Progressed(jobs[job_id[r]])
        /\ prior'[r] = Progressed(jobs[job_id[r]])
    BY <2>1 DEF ReadRecord, TypeOK, Seeded
  <2>3. QED
    BY <1>2, <1>4, <2>1, <2>2 DEF ReadRecord
<1>5. QED
  BY <1>1, <1>3, <1>4

\* One publisher has no frame to confirm while it writes a checkpoint.
LEMMA OneAtATime ==
    ASSUME TypeOK, WorkInv, Publishers = 1, NEW r \in Requests, NEW f \in confirming[r]
    PROVE  snapshots[r] = {}
<1> DEFINE P == publishing[r]
           C == confirming[r]
           S == snapshots[r]
<1>1. IsFiniteSet(P) /\ IsFiniteSet(C) /\ IsFiniteSet(S)
  BY RunTypes, FramesFinite DEF WorkInv, WorkKept
<1>2. /\ Cardinality(P) \in Nat /\ Cardinality(C) \in Nat /\ Cardinality(S) \in Nat
      /\ Cardinality(C) # 0 /\ (Cardinality(S) = 0 => S = {})
  BY <1>1, FS_CardinalityType, FS_EmptySet
<1>3. Cardinality(P) + Cardinality(C) + Cardinality(S) <= 1
  BY DEF WorkInv, WorkBounded, Busy
<1> HIDE DEF P, C, S
<1>4. S = {}
  BY <1>2, <1>3
<1>5. QED
  BY <1>4 DEF S

\* A run keeps what it knows of its checkpoints.
LEMMA RunSnaps ==
    ASSUME TypeOK, TypeOK', HasJob, WorkInv, NEW r \in Requests, Request(r), state[r] \in HasRun, SnapKept(r)
    PROVE  SnapKept(r)'
<1>1. /\ run[r] \in Progress /\ run'[r] \in Progress /\ prior[r] \in Progress
      /\ snapshots[r] \in SUBSET Progress
  BY DEF TypeOK
<1>2. NoLess(run'[r], run[r]) /\ prior'[r] = prior[r]
  BY RunForward
<1>3. NoLess(run'[r], prior'[r])
  BY <1>1, <1>2, NoLessStill DEF SnapKept
<1>4. ASSUME NEW s \in snapshots[r]
      PROVE  /\ NoLess(s, prior'[r]) /\ NoLess(run'[r], s)
             /\ Publishers = 1 => NoLess(s, run'[r])
  <2>1. NoLess(s, prior'[r]) /\ NoLess(run'[r], s)
    BY <1>1, <1>2, <1>4, NoLessStill DEF SnapKept
  <2>2. ASSUME Publishers = 1 PROVE NoLess(s, run'[r])
    <3>1. ~Confirm(r)
      <4>1. confirming[r] = {}
        BY <2>2, OneAtATime
      <4>2. QED
        BY <4>1, ConfirmMoves
    <3>2. run'[r].last = run[r].last /\ run'[r].confirmed = run[r].confirmed
      <4>1. CASE SkipFrame(r)
        BY <4>1, SkipMoves
      <4>2. CASE ~SkipFrame(r)
        <5>1. state[r] # "record"
          BY DEF HasRun, Live
        <5>2. QED
          BY <3>1, <4>2, <5>1, QuietStays, DecodeMoves, TakeMoves, AcceptMoves, CheckpointMoves,
             RaiseMoves, HangUpMoves DEF Dispatch, ReadRecord
      <4>3. QED
        BY <4>1, <4>2
    <3>3. NoLess(s, run[r])
      BY <2>2 DEF SnapKept
    <3>4. QED
      BY <3>2, <3>3 DEF NoLess
  <2>3. QED
    BY <2>1, <2>2
<1>5. \A s \in snapshots'[r] : s \in snapshots[r] \/ s = run'[r]
  <2>1. CASE Confirm(r)
    BY <2>1, ConfirmMoves
  <2>2. CASE Checkpoint(r) \/ CallRaises(r)
    <3>1. snapshots'[r] = snapshots[r] \/ \E s \in snapshots[r] : snapshots'[r] = snapshots[r] \ {s}
      BY <2>2, CheckpointMoves, RaiseMoves
    <3>2. QED
      BY <3>1
  <2>3. CASE ~Confirm(r) /\ ~Checkpoint(r) /\ ~CallRaises(r)
    <3>1. snapshots'[r] = snapshots[r]
      BY <2>3, QuietStays, DecodeMoves, SkipMoves, TakeMoves, AcceptMoves, HangUpMoves DEF Dispatch
    <3>2. QED
      BY <3>1
  <2>4. QED
    BY <2>1, <2>2, <2>3
<1>6. NoLess(run'[r], run'[r])
  BY <1>1, NoLessStill
<1>7. QED
  BY <1>3, <1>4, <1>5, <1>6 DEF SnapKept

\* Every step of a request does.
LEMMA RequestSnaps ==
    ASSUME TypeOK, TypeOK', HasJob, WorkInv, FreshInv', OwnInv', SnapInv, NEW r \in Requests, Request(r)
    PROVE  SnapInv'
<1> SUFFICES ASSUME NEW q \in Requests, state'[q] \in HasRun
             PROVE  SnapKept(q)'
  BY DEF SnapInv, HasRun, Live
<1>1. CASE q # r
  <2>1. /\ state'[q] = state[q] /\ run'[q] = run[q] /\ prior'[q] = prior[q]
        /\ snapshots'[q] = snapshots[q]
    BY <1>1, OthersStay
  <2>2. SnapKept(q)
    BY <2>1 DEF SnapInv
  <2>3. QED
    BY <2>1, <2>2 DEF SnapKept
<1>2. CASE q = r /\ state[r] \in HasRun
  BY <1>2, RunSnaps DEF SnapInv
<1>3. CASE q = r /\ state[r] \notin HasRun
  <2>1. run'[r] = prior'[r] /\ state[r] \in {"pointer", "record"}
    BY <1>3, RunBegins
  <2>2. snapshots'[r] = {}
    <3>1. snapshots'[r] = snapshots[r]
      BY <2>1, DispatchStays, QuietStays
    <3>2. QED
      BY <2>1, <3>1 DEF WorkInv, WorkKept
  <2>3. run'[r] \in Progress
    BY DEF TypeOK
  <2>4. QED
    BY <1>3, <2>1, <2>2, <2>3, NoLessStill DEF SnapKept
<1>4. QED
  BY <1>1, <1>2, <1>3

\* A run stays ahead of its record.
LEMMA RequestAhead ==
    ASSUME OneProcess, TypeOK, TypeOK', HasJob, HasJob', OneRunPerKey, FreshInv', OwnInv, OwnInv',
           SnapInv, AheadInv, NEW r \in Requests, Request(r)
    PROVE  AheadInv'
<1> SUFFICES ASSUME NEW q \in Requests, state'[q] \in HasRun
             PROVE  /\ NoLess(run'[q], jobs'[job_id'[q]])
                    /\ state'[q] = "marking" => jobs'[job_id'[q]].last = run'[q].last
  BY DEF AheadInv, HasRun, Live
<1>1. CASE q # r
  <2>1. state'[q] = state[q] /\ job_id'[q] = job_id[q] /\ run'[q] = run[q] /\ job_id[q] \in Requests
    BY <1>1, OthersStay DEF HasJob, HasRun, Working
  <2>2. jobs'[job_id[q]] = jobs[job_id[q]]
    <3>1. ~(state[r] \in HasRun /\ job_id[q] = job_id[r]) /\ ~(state[r] = "creating" /\ job_id[q] = r)
      BY <1>1, <2>1, Alone DEF HasRun, Live, Reserving
    <3>2. QED
      BY <2>1, <3>1, RecordsStay
  <2>3. QED
    BY <2>1, <2>2 DEF AheadInv
<1>2. CASE q = r /\ state[r] \in HasRun
  <2>1. job_id'[r] = job_id[r] /\ job_id[r] \in Requests /\ NoLess(run'[r], run[r])
    BY <1>2, RunForward DEF HasJob, HasRun, Working
  <2> DEFINE j == job_id[r]
             p == Progressed(jobs'[j])
  <2>2. NoLess(run[r], Progressed(jobs[j])) /\ SnapKept(r)
    BY <1>2, <2>1, NoLessRecord DEF AheadInv, SnapInv
  <2>3. /\ run[r] \in Progress /\ run'[r] \in Progress /\ Progressed(jobs[j]) \in Progress
        /\ p \in Progress /\ snapshots[r] \in SUBSET Progress
    <3>1. Progressed(jobs[j]) \in Progress
      BY <2>1, NoLessRecord
    <3>2. jobs'[j] \in Record
      BY <2>1 DEF TypeOK
    <3>3. p \in Progress
      BY <3>2 DEF Progressed, Record, Progress
    <3>4. QED
      BY <3>1, <3>3 DEF TypeOK
  <2>4. \/ p = Progressed(jobs[j]) \/ p = NoProgress \/ p = run[r] \/ \E s \in snapshots[r] : p = s
    BY <2>1, RecordMoves
  <2>5. NoLess(run[r], p)
    <3>1. NoLess(run[r], NoProgress) /\ NoLess(run[r], run[r])
      BY <2>3, NoLessStill
    <3>2. \A s \in snapshots[r] : NoLess(run[r], s)
      BY <2>2 DEF SnapKept
    <3> HIDE DEF p
    <3>3. QED
      BY <2>2, <2>4, <3>1, <3>2
  <2>6. NoLess(run'[r], jobs'[j])
    <3>1. NoLess(run'[r], p)
      BY <2>1, <2>3, <2>5, NoLessStill
    <3>2. QED
      BY <3>1 DEF NoLess, Progressed
  <2>7. ASSUME state'[r] = "marking" PROVE jobs'[j].last = run'[r].last
    <3>1. Save(r)
      <4>1. ~Dispatch(r)
        BY <2>7, DispatchStays
      <4>2. QED
        BY <2>7, <4>1, QuietMoves
    <3>2. QED
      BY <2>1, <3>1 DEF Save, Saved, Stamped, TypeOK, local
  <2>8. QED
    BY <1>2, <2>1, <2>6, <2>7
<1>3. CASE q = r /\ state[r] \notin HasRun
  <2>1. state'[r] # "marking" /\ jobs' = jobs /\ run'[r] \in Progress
    BY <1>3, RunBegins DEF TypeOK
  <2>2. CASE job_id'[r] = r /\ jobs'[r] = NoRecord /\ run'[r] = NoProgress
    BY <1>3, <2>1, <2>2 DEF NoRecord, NoProgress, NoLess
  <2>3. CASE job_id'[r] = job_id[r] /\ run'[r] = Progressed(jobs[job_id[r]])
    <3>1. job_id[r] \in Requests
      BY <1>3, <2>3 DEF HasJob, HasRun, Working
    <3>2. NoLess(run'[r], Progressed(jobs[job_id[r]]))
      BY <2>1, <2>3, NoLessStill
    <3>3. QED
      BY <1>3, <2>1, <2>3, <3>1, <3>2, NoLessRecord
  <2>4. QED
    BY <1>3, <2>2, <2>3, RunBegins
<1>4. QED
  BY <1>1, <1>2, <1>3

\* A record's progress moves forward, but for a checkpoint that others overtook.
LEMMA ProgressForward ==
    ASSUME TypeOK, TypeOK', HasJob, OwnInv, SnapInv, AheadInv, NEW r \in Requests, Request(r),
           NEW j \in Requests
    PROVE  \/ NoLess(jobs'[j], jobs[j])
           \/ /\ Publishers > 1
              /\ state[r] = "running" /\ job_id[r] = j /\ NoLess(jobs'[j], prior[r])
<1> DEFINE p == Progressed(jobs'[j])
           o == Progressed(jobs[j])
<1>1. /\ p \in Progress /\ o \in Progress
      /\ \A x : NoLess(p, x) <=> NoLess(jobs'[j], x)
      /\ \A x : NoLess(x, o) <=> NoLess(x, jobs[j])
  <2>1. jobs'[j] \in Record
    BY DEF TypeOK
  <2>2. p \in Progress /\ \A x : NoLess(p, x) <=> NoLess(jobs'[j], x)
    BY <2>1 DEF Progressed, Record, Progress, NoLess
  <2>3. QED
    BY <2>2, NoLessRecord
<1>2. \/ p = o
      \/ p = NoProgress /\ state[r] = "creating" /\ j = r
      \/ p = run[r] /\ state[r] = "saving" /\ j = job_id[r]
      \/ (\E s \in snapshots[r] : p = s) /\ state[r] = "running" /\ j = job_id[r]
  BY RecordMoves
<1>3. CASE p = o
  BY <1>1, <1>3, NoLessStill
<1>4. CASE p = NoProgress /\ state[r] = "creating" /\ j = r
  <2>1. o = NoProgress
    BY <1>4 DEF OwnInv, NoRecord, NoProgress, Progressed
  <2>2. QED
    BY <1>1, <1>4, <2>1, NoLessStill
<1>5. CASE p = run[r] /\ state[r] = "saving" /\ j = job_id[r]
  <2>1. NoLess(run[r], jobs[j])
    BY <1>5 DEF AheadInv, HasRun, Live
  <2>2. QED
    BY <1>1, <1>5, <2>1
<1>6. ASSUME NEW s \in snapshots[r], p = s, state[r] = "running", j = job_id[r]
      PROVE  \/ NoLess(jobs'[j], jobs[j])
             \/ /\ Publishers > 1
                /\ state[r] = "running" /\ job_id[r] = j /\ NoLess(jobs'[j], prior[r])
  <2>1. SnapKept(r) /\ NoLess(run[r], o) /\ run[r] \in Progress
    BY <1>1, <1>6 DEF AheadInv, SnapInv, HasRun, Live, TypeOK
  <2>2. NoLess(jobs'[j], prior[r])
    BY <1>1, <1>6, <2>1 DEF SnapKept
  <2>3. CASE Publishers = 1
    <3>1. NoLess(p, run[r])
      BY <1>6, <2>1, <2>3 DEF SnapKept
    <3>2. NoLess(p, o)
      BY <1>1, <2>1, <3>1, NoLessStill
    <3>3. QED
      BY <1>1, <3>2
  <2>4. CASE Publishers # 1
    BY <1>6, <2>2, <2>4, SizesAssumption
  <2>5. QED
    BY <2>3, <2>4
<1>7. QED
  BY <1>2, <1>3, <1>4, <1>5, <1>6

\* Interruptions are counted one at a time.
LEMMA InterruptionsGrow ==
    ASSUME TypeOK, TypeOK', NEW r \in Requests, Request(r)
    PROVE  /\ interruptions \in Nat /\ interruptions' \in Nat /\ interruptions <= interruptions'
           /\ Escape(r) => interruptions' = interruptions + 1
<1>1. interruptions \in Nat /\ interruptions' \in Nat
  BY DEF TypeOK
<1>2. interruptions' = interruptions \/ interruptions' = interruptions + 1
  <2>1. CASE Dispatch(r)
    BY <2>1 DEF Dispatch, DecodeFrame, SkipFrame, TakeFrame, BrokerAccepts, Confirm, Checkpoint,
                CallRaises, HangUp, Interrupted
  <2>2. CASE ~Dispatch(r)
    BY <2>2 DEF Request, Invalid, BadPath, Admit, Unavailable, Unopenable, Turned, Reserve, ReadPointer,
                ReadRecord, Start, RunReturns, Save, Mark, Escape, Close, Interrupted
  <2>3. QED
    BY <2>1, <2>2
<1>3. Escape(r) => interruptions' = interruptions + 1
  BY DEF Escape, Interrupted
<1>4. QED
  BY <1>1, <1>2, <1>3

\* The numbers that an account of what was sent is about.
LEMMA SentTypes ==
    ASSUME TypeOK
    PROVE  /\ interruptions \in Nat
           /\ \A j \in Requests : \A f \in Frames : sent[j][f] \in Nat
           /\ \A j \in Requests : jobs[j].last \in Int
           /\ \A f \in Frames : f \in Int /\ f > -1
BY SizesAssumption DEF TypeOK, Record, Frames

\* A step of a dispatch run keeps its account.
LEMMA DispatchSent ==
    ASSUME TypeOK, TypeOK', HasJob, WorkInv, WorkInv', ResendsBounded, NEW r \in Requests, Dispatch(r),
           Request(r), RunSent(r)
    PROVE  /\ RunSent(r)' /\ job_id' = job_id /\ job_id[r] \in Requests
           /\ \A f \in Frames : sent'[job_id[r]][f] <= 1 + interruptions'
           /\ \A j \in Requests : j # job_id[r] => \A f \in Frames : sent'[j][f] = sent[j][f]
<1> DEFINE j == job_id[r]
<1>0. job_id' = job_id /\ j \in Requests
  BY DispatchStays DEF HasJob, Working, Live
<1>1. /\ interruptions \in Nat /\ interruptions' \in Nat /\ interruptions <= interruptions'
      /\ \A f \in Frames : sent[j][f] \in Nat /\ sent[j][f] <= 1 + interruptions /\ f \in Int
      /\ run[r].last \in Int /\ run'[r].last \in Int
  <2>1. run[r] \in Progress /\ run'[r] \in Progress
    BY DEF TypeOK
  <2>2. QED
    BY <1>0, <2>1, SentTypes, InterruptionsGrow DEF ResendsBounded, Progress
<1>2. WorkKept(r) /\ WorkOrdered(r) /\ publishing[r] \subseteq Frames
  BY RunTypes DEF WorkInv
<1>3. CASE BrokerAccepts(r)
  <2>1. PICK g \in publishing[r] :
          /\ publishing'[r] = publishing[r] \ {g} /\ confirming'[r] = confirming[r] \cup {g}
          /\ g \in Frames /\ sent'[j][g] = sent[j][g] + 1
          /\ \A k \in Requests : \A f \in Frames : k # j \/ f # g => sent'[k][f] = sent[k][f]
    BY <1>3, AcceptMoves
  <2>2. run'[r] = run[r] /\ verdict'[r] = verdict[r] /\ interruptions' = interruptions
    BY <1>3, AcceptMoves
  <2>3. sent[j][g] <= interruptions /\ (verdict[r] = "error" => sent[j][g] + 1 <= interruptions)
    BY <2>1 DEF RunSent
  <2>4. ASSUME NEW f \in Frames
        PROVE  /\ sent'[j][f] <= 1 + interruptions'
               /\ f \in publishing'[r] \/ (f > run'[r].last /\ f \notin confirming'[r])
                    => sent'[j][f] <= interruptions'
               /\ verdict'[r] = "error" =>
                    /\ sent'[j][f] <= interruptions'
                    /\ f \in publishing'[r] => sent'[j][f] + 1 <= interruptions'
    <3>1. CASE f = g
      BY <1>1, <2>1, <2>2, <2>3, <3>1
    <3>2. CASE f # g
      <4>1. sent'[j][f] = sent[j][f]
        BY <1>0, <2>1, <3>2
      <4>2. QED
        BY <1>1, <2>1, <2>2, <3>2, <4>1 DEF RunSent
    <3>3. QED
      BY <3>1, <3>2
  <2>5. QED
    BY <1>0, <2>1, <2>4 DEF RunSent
<1>4. CASE ~BrokerAccepts(r)
  <2>1. sent' = sent
    BY <1>4, DecodeMoves, SkipMoves, TakeMoves, ConfirmMoves, CheckpointMoves, RaiseMoves, HangUpMoves
       DEF Dispatch
  <2>2. CASE CallRaises(r)
    <3>1. publishing'[r] \subseteq publishing[r] /\ confirming'[r] \subseteq confirming[r]
      BY <2>2, RaiseMoves
    <3>2. run'[r] = run[r] /\ verdict'[r] = "error"
      BY <2>2, RaiseMoves
    <3>3. IF verdict[r] = "error" THEN interruptions' = interruptions ELSE interruptions' = interruptions + 1
      BY <2>2, RaiseMoves DEF Interrupted
    <3>4. ASSUME NEW f \in Frames
          PROVE  sent[j][f] <= interruptions' /\ (f \in publishing[r] => sent[j][f] + 1 <= interruptions')
      <4>1. CASE verdict[r] = "error"
        BY <3>3, <4>1 DEF RunSent
      <4>2. CASE verdict[r] # "error"
        <5>1. f \in publishing[r] => sent[j][f] <= interruptions
          BY DEF RunSent
        <5>2. QED
          BY <1>1, <3>3, <4>2, <5>1
      <4>3. QED
        BY <4>1, <4>2
    <3>5. RunSent(r)'
      BY <1>0, <2>1, <3>1, <3>2, <3>4 DEF RunSent
    <3>6. QED
      BY <1>0, <1>1, <2>1, <3>5
  <2>3. CASE ~CallRaises(r)
    <3>1. interruptions' = interruptions /\ (verdict'[r] = "error" => verdict[r] = "error")
      <4>1. CASE HangUp(r)
        BY <4>1, HangUpMoves
      <4>2. CASE ~HangUp(r)
        BY <1>4, <2>3, <4>2
           DEF Dispatch, DecodeFrame, SkipFrame, TakeFrame, Confirm, Checkpoint
      <4>3. QED
        BY <4>1, <4>2
    <3>2. ASSUME NEW f \in Frames, f \in publishing'[r] \/ (f > run'[r].last /\ f \notin confirming'[r])
          PROVE  f \in publishing[r] \/ (f > run[r].last /\ f \notin confirming[r])
      <4>1. CASE TakeFrame(r)
        <5>1. PICK g \in queue[r] : publishing'[r] = publishing[r] \cup {g}
          BY <4>1, TakeMoves
        <5>2. run'[r] = run[r] /\ confirming'[r] = confirming[r]
          BY <4>1, TakeMoves
        <5>3. g > run[r].last /\ g \notin confirming[r]
          BY <1>2, <5>1, RunTypes DEF WorkOrdered, InHand
        <5>4. QED
          BY <3>2, <5>1, <5>2, <5>3
      <4>2. CASE Confirm(r)
        <5>1. PICK g \in confirming[r] :
                confirming'[r] = confirming[r] \ {g} /\ run'[r] = Confirmed(run[r], g)
          BY <4>2, ConfirmMoves
        <5>2. publishing'[r] = publishing[r] /\ g \in Frames /\ run[r] \in Progress
          BY <4>2, <5>1, ConfirmMoves, RunTypes
        <5>3. run'[r].last >= run[r].last /\ run'[r].last >= g
          BY <5>1, <5>2, ConfirmedProgress
        <5>4. QED
          BY <1>1, <3>2, <5>1, <5>2, <5>3
      <4>3. CASE ~TakeFrame(r) /\ ~Confirm(r)
        <5>1. /\ publishing'[r] = publishing[r] /\ confirming'[r] = confirming[r]
              /\ run'[r].last = run[r].last
          BY <1>4, <2>3, <4>3, DecodeMoves, SkipMoves, CheckpointMoves, HangUpMoves DEF Dispatch
        <5>2. QED
          BY <3>2, <5>1
      <4>4. QED
        BY <4>1, <4>2, <4>3
    <3>3. verdict[r] = "error" => publishing'[r] \subseteq publishing[r]
      <4>1. verdict[r] = "error" => ~TakeFrame(r)
        BY <1>2, TakeMoves DEF WorkKept
      <4>2. QED
        BY <1>4, <2>3, <4>1, DecodeMoves, SkipMoves, ConfirmMoves, CheckpointMoves, HangUpMoves DEF Dispatch
    <3>4. RunSent(r)'
      BY <1>0, <2>1, <3>1, <3>2, <3>3 DEF RunSent
    <3>5. QED
      BY <1>0, <1>1, <2>1, <3>1, <3>4
  <2>4. QED
    BY <2>2, <2>3
<1>5. QED
  BY <1>3, <1>4

\* What a step of one request does to the account of another.
LEMMA OthersSent ==
    ASSUME TypeOK, TypeOK', NEW q \in Requests, RunSent(q), job_id[q] \in Requests,
           interruptions <= interruptions', \A f \in Frames : sent'[job_id[q]][f] = sent[job_id[q]][f],
           job_id'[q] = job_id[q], run'[q] = run[q], verdict'[q] = "error" => verdict[q] = "error",
           publishing'[q] = publishing[q], confirming'[q] = confirming[q]
    PROVE  RunSent(q)'
<1>1. /\ interruptions \in Nat /\ interruptions' \in Nat
      /\ \A f \in Frames : sent[job_id[q]][f] \in Nat
  BY DEF TypeOK
<1> SUFFICES ASSUME NEW f \in Frames
             PROVE  /\ f \in publishing[q] \/ (f > run[q].last /\ f \notin confirming[q])
                         => sent[job_id[q]][f] <= interruptions'
                    /\ verdict[q] = "error" =>
                         /\ sent[job_id[q]][f] <= interruptions'
                         /\ f \in publishing[q] => sent[job_id[q]][f] + 1 <= interruptions'
  BY DEF RunSent
<1>2. QED
  BY <1>1 DEF RunSent

\* Every step of a request keeps the account.
LEMMA RequestSent ==
    ASSUME OneProcess, TypeOK, TypeOK', HasJob, OneRunPerKey, FreshInv, FreshInv', WorkInv, WorkInv',
           OwnInv, OwnInv', AheadInv, SentInv, NEW r \in Requests, Request(r)
    PROVE  SentInv'
<1>0. /\ interruptions \in Nat /\ interruptions' \in Nat /\ interruptions <= interruptions'
      /\ \A j \in Requests : \A f \in Frames : sent[j][f] \in Nat /\ sent[j][f] <= 1 + interruptions
      /\ \A j \in Requests : jobs[j].last \in Int
      /\ \A f \in Frames : f \in Int /\ f > -1
  BY SentTypes, InterruptionsGrow DEF SentInv, ResendsBounded
<1>1. CASE Dispatch(r)
  <2>1. state' = state /\ state[r] = "running" /\ state[r] \in HasRun /\ state[r] \in Reserving
    BY <1>1, DispatchStays DEF HasRun, Live, Reserving
  <2>2. RunSent(r) /\ ResendsBounded
    BY <2>1 DEF SentInv
  <2>3. /\ RunSent(r)' /\ job_id' = job_id /\ job_id[r] \in Requests
        /\ \A f \in Frames : sent'[job_id[r]][f] <= 1 + interruptions'
        /\ \A j \in Requests : j # job_id[r] => \A f \in Frames : sent'[j][f] = sent[j][f]
    BY <1>1, <2>2, DispatchSent
  <2>4. ResendsBounded'
    <3>1. ASSUME NEW j \in Requests, NEW f \in Frames PROVE sent'[j][f] <= 1 + interruptions'
      <4>1. CASE j = job_id[r]
        BY <2>3, <4>1
      <4>2. CASE j # job_id[r]
        BY <1>0, <2>3, <4>2
      <4>3. QED
        BY <4>1, <4>2
    <3>2. QED
      BY <3>1 DEF ResendsBounded
  <2>5. ASSUME NEW q \in Requests, state[q] \in HasRun PROVE RunSent(q)'
    <3>1. CASE q = r
      BY <2>3, <3>1
    <3>2. CASE q # r
      <4>1. job_id[q] # job_id[r] /\ job_id[q] \in Requests
        BY <2>1, <2>5, <3>2, Alone DEF HasJob, HasRun, Working
      <4>2. RunSent(q)
        BY <2>5 DEF SentInv
      <4>3. QED
        BY <1>0, <2>3, <3>2, <4>1, <4>2, OthersSent, OthersStay
    <3>3. QED
      BY <3>1, <3>2
  <2>6. ASSUME NEW j \in Requests, \A q \in Requests : state[q] \in HasRun => job_id[q] # j,
               NEW f \in Frames, f > jobs'[j].last
        PROVE  sent'[j][f] <= interruptions'
    <3>1. j # job_id[r] /\ jobs'[j] = jobs[j]
      BY <2>1, <2>6, RecordsStay
    <3>2. sent[j][f] <= interruptions
      BY <2>6, <3>1 DEF SentInv
    <3>3. QED
      BY <1>0, <2>3, <3>1, <3>2
  <2>7. QED
    BY <2>1, <2>3, <2>4, <2>5, <2>6 DEF SentInv
<1>2. CASE ~Dispatch(r)
  <2>0. /\ UNCHANGED <<queue, publishing, confirming, sent>>
        /\ verdict'[r] = "error" => verdict[r] = "error"
    BY <1>2, QuietStays DEF RunReturns, TypeOK
  <2>1. ResendsBounded'
    BY <1>0, <2>0 DEF ResendsBounded
  <2>2. ASSUME NEW q \in Requests, state'[q] \in HasRun PROVE RunSent(q)'
    <3>1. CASE q # r
      <4>1. /\ state[q] \in HasRun /\ job_id'[q] = job_id[q] /\ run'[q] = run[q] /\ verdict'[q] = verdict[q]
            /\ job_id[q] \in Requests
        BY <2>2, <3>1, OthersStay DEF HasJob, HasRun, Working
      <4>2. RunSent(q)
        BY <4>1 DEF SentInv
      <4>3. QED
        BY <1>0, <2>0, <4>1, <4>2, OthersSent
    <3>2. CASE q = r /\ state[r] \in HasRun
      <4>1. state[r] # "record" /\ job_id'[r] = job_id[r] /\ job_id[r] \in Requests
        BY <3>2, RunForward DEF HasJob, HasRun, Live, Working
      <4>2. run'[r] = run[r]
        BY <1>2, <4>1, QuietStays DEF ReadRecord
      <4>3. RunSent(r)
        BY <3>2 DEF SentInv
      <4>4. QED
        BY <1>0, <2>0, <3>2, <4>1, <4>2, <4>3, OthersSent
    <3>3. CASE q = r /\ state[r] \notin HasRun
      <4>1. /\ state[r] \in {"pointer", "record"} /\ state[r] \in Reserving
            /\ jobs' = jobs /\ interruptions' = interruptions /\ verdict' = verdict
            /\ \/ job_id'[r] = r /\ jobs'[r] = NoRecord /\ run'[r] = NoProgress
               \/ /\ state[r] = "record" /\ job_id'[r] = job_id[r]
                  /\ run'[r] = Progressed(jobs[job_id[r]])
        BY <2>2, <3>3, RunBegins DEF Reserving
      <4>2. job_id'[r] \in Requests /\ jobs[job_id'[r]].last = run'[r].last
        <5>1. CASE job_id'[r] = r
          BY <4>1, <5>1 DEF NoRecord, NoProgress, Progressed
        <5>2. CASE job_id'[r] # r
          <6>1. job_id[r] \in Requests
            BY <4>1, <5>2 DEF HasJob, Working
          <6>2. QED
            BY <4>1, <5>2, <6>1 DEF Progressed
        <5>3. QED
          BY <5>1, <5>2
      <4>3. \A x \in Requests : state[x] \in HasRun => job_id[x] # job_id'[r]
        <5>1. CASE job_id'[r] = r
          BY <3>3, <4>1, <5>1, Alone
        <5>2. CASE job_id'[r] = job_id[r]
          BY <3>3, <4>1, <5>2, Alone
        <5>3. QED
          BY <4>1, <5>1, <5>2
      <4>4. \A f \in Frames : f > run'[r].last => sent[job_id'[r]][f] <= interruptions
        BY <4>2, <4>3 DEF SentInv
      <4>5. publishing[r] = {} /\ confirming[r] = {} /\ verdict[r] = "none"
        BY <4>1 DEF WorkInv, WorkKept, Live
      <4>6. QED
        BY <2>0, <3>3, <4>1, <4>4, <4>5 DEF RunSent
    <3>4. QED
      BY <3>1, <3>2, <3>3
  <2>3. ASSUME NEW j \in Requests, \A q \in Requests : state'[q] \in HasRun => job_id'[q] # j,
               NEW f \in Frames, f > jobs'[j].last
        PROVE  sent[j][f] <= interruptions'
    <3>1. CASE \A q \in Requests : state[q] \in HasRun => job_id[q] # j
      <4>1. jobs'[j] = jobs[j]
        <5>1. state[r] = "creating" => job_id[r] = r /\ state[r] \in HasRun
          BY DEF FreshInv, HasRun
        <5>2. QED
          BY <3>1, <5>1, RecordsStay
      <4>2. sent[j][f] <= interruptions
        BY <2>3, <3>1, <4>1 DEF SentInv
      <4>3. QED
        BY <1>0, <4>2
    <3>2. ASSUME NEW q \in Requests, state[q] \in HasRun, job_id[q] = j
          PROVE  sent[j][f] <= interruptions'
      <4>1. q = r
        BY <2>3, <3>2, OthersStay
      <4>2. job_id'[r] = j /\ state'[r] \notin HasRun
        BY <2>3, <3>2, <4>1, RunForward
      <4>3. Mark(r) \/ Escape(r)
        BY <1>2, <3>2, <4>1, <4>2, QuietMoves DEF HasRun, Live
      <4>4. CASE Escape(r)
        BY <1>0, <4>4, InterruptionsGrow
      <4>5. CASE Mark(r)
        <5>1. state[r] = "marking" /\ jobs'[j].last = jobs[j].last
          BY <3>2, <4>1, <4>5 DEF Mark, Marked, Stamped, TypeOK, Record
        <5>2. jobs[j].last = run[r].last /\ confirming[r] = {}
          BY <3>2, <4>1, <5>1 DEF AheadInv, WorkInv, WorkKept
        <5>3. RunSent(r)
          BY <3>2, <4>1 DEF SentInv
        <5>4. sent[j][f] <= interruptions
          BY <2>3, <3>2, <4>1, <5>1, <5>2, <5>3 DEF RunSent
        <5>5. QED
          BY <1>0, <5>4
      <4>6. QED
        BY <4>3, <4>4, <4>5
    <3>3. QED
      BY <3>1, <3>2
  <2>4. QED
    BY <2>0, <2>1, <2>2, <2>3 DEF SentInv
<1>3. QED
  BY <1>1, <1>2

\* A crash is an interruption; a restart and silence are nothing.
LEMMA OtherAttempts ==
    ASSUME TypeOK, TypeOK', HasJob, AheadInv, SnapInv, SentInv, OtherStep
    PROVE  (AheadInv /\ SnapInv /\ SentInv)'
<1>1. /\ UNCHANGED <<job_id, prior, run, verdict, jobs, sent>>
      /\ \A r \in Requests : Died(r) \/ Same(r)
  BY OtherMoves
<1>2. \A r \in Requests : state'[r] \in HasRun => state[r] \in HasRun /\ Same(r)
  <2>1. "done" \notin HasRun /\ \A r \in Requests : Died(r) => state'[r] = "done"
    BY DEF Died, HasRun, Live
  <2>2. \A r \in Requests : Same(r) => state'[r] = state[r]
    BY DEF Same
  <2>3. QED
    BY <1>1, <2>1, <2>2
<1>3. AheadInv'
  BY <1>1, <1>2 DEF AheadInv, HasRun, Live, Same
<1>4. SnapInv'
  BY <1>1, <1>2 DEF SnapInv, SnapKept, Same
<1>5. /\ interruptions \in Nat /\ interruptions' \in Nat
      /\ \A j \in Requests : \A f \in Frames : sent[j][f] \in Nat /\ sent[j][f] <= 1 + interruptions
  BY SentTypes DEF SentInv, ResendsBounded, TypeOK
<1>6. interruptions <= interruptions' /\ (interruptions' = interruptions + 1 \/ state' = state)
  BY <1>5 DEF OtherStep, Silence, Crash, Restart, vars, Interrupted
<1>7. ASSUME NEW r \in Requests, state'[r] \in HasRun PROVE RunSent(r)'
  <2>1. Same(r) /\ RunSent(r) /\ job_id[r] \in Requests
    BY <1>2, <1>7 DEF SentInv, HasJob, HasRun, Working
  <2>2. QED
    BY <1>1, <1>6, <2>1, OthersSent DEF Same
<1>8. ASSUME NEW j \in Requests, \A r \in Requests : state'[r] \in HasRun => job_id[r] # j,
             NEW f \in Frames, f > jobs[j].last
      PROVE  sent[j][f] <= interruptions'
  <2>1. CASE interruptions' = interruptions + 1
    BY <1>5, <2>1
  <2>2. CASE state' = state
    <3>1. sent[j][f] <= interruptions
      BY <1>8, <2>2 DEF SentInv
    <3>2. QED
      BY <1>5, <1>6, <3>1
  <2>3. QED
    BY <1>6, <2>1, <2>2
<1>9. ResendsBounded'
  BY <1>1, <1>5, <1>6 DEF ResendsBounded
<1>10. SentInv'
  BY <1>1, <1>7, <1>8, <1>9 DEF SentInv
<1>11. QED
  BY <1>3, <1>4, <1>10

\* Everything about attempts at a job in one process.
AttemptsInv == JobsInv /\ AheadInv /\ SnapInv /\ SentInv

\* At first nothing was attempted.
LEMMA AttemptsInit == Init => AttemptsInv
<1> SUFFICES ASSUME Init PROVE AttemptsInv OBVIOUS
<1>1. \A r \in Requests : state[r] \notin HasRun /\ state[r] # "marking"
  BY DEF Init, HasRun, Live
<1>2. AheadInv /\ SnapInv
  BY <1>1 DEF AheadInv, SnapInv
<1>3. \A j \in Requests : \A f \in Frames : sent[j][f] = 0 /\ interruptions = 0
  BY DEF Init
<1>4. SentInv
  BY <1>1, <1>3 DEF SentInv, ResendsBounded
<1>5. QED
  BY <1>2, <1>4, JobsInit DEF AttemptsInv

\* With one process every step keeps the account of attempts.
LEMMA AttemptsStep ==
    ASSUME OneProcess
    PROVE  AttemptsInv /\ [Next]_vars => AttemptsInv'
<1> SUFFICES ASSUME AttemptsInv, [Next]_vars PROVE AttemptsInv'
  OBVIOUS
<1>1. JobsInv /\ JobsInv' /\ AheadInv /\ SnapInv /\ SentInv
  BY JobsStep DEF AttemptsInv
<1>2. /\ TypeOK /\ TypeOK' /\ HasJob /\ HasJob' /\ OneRunPerKey /\ FreshInv /\ FreshInv'
      /\ OwnInv /\ OwnInv' /\ WorkInv /\ WorkInv'
  BY <1>1 DEF JobsInv, ServiceInv, HistoryInv
<1>3. ASSUME NEW r \in Requests, Request(r) PROVE (AheadInv /\ SnapInv /\ SentInv)'
  BY <1>1, <1>2, <1>3, RequestAhead, RequestSnaps, RequestSent
<1>4. (AheadInv /\ SnapInv /\ SentInv)'
  <2>1. (\E r \in Requests : Request(r)) \/ OtherStep
    BY DEF Next, Idle, OtherStep
  <2>2. QED
    BY <1>1, <1>2, <1>3, <2>1, OtherAttempts
<1>5. QED
  BY <1>1, <1>4 DEF AttemptsInv

\* With one process a job sends a frame again only after an interruption, however
\* many publishers it has, however many requests ask for the video at once and whatever
\* they resume.
THEOREM ResendsAreBounded ==
    ASSUME OneProcess
    PROVE  Spec => []ResendsBounded
<1>1. AttemptsInv => ResendsBounded
  BY DEF AttemptsInv, SentInv
<1>2. Init => AttemptsInv
  BY AttemptsInit
<1>3. AttemptsInv /\ [Next]_vars => AttemptsInv'
  BY AttemptsStep
<1>4. QED
  BY <1>1, <1>2, <1>3, PTL DEF Spec

\* With one process the progress in a job's record does not go back from one attempt
\* to the next, and with one publisher not at all; with several a checkpoint that others
\* overtook takes it back, while its run goes on, no further than to what the run
\* resumed.
THEOREM ProgressIsKept ==
    ASSUME OneProcess
    PROVE  Spec => ProgressKept
<1>1. Init => AttemptsInv
  BY AttemptsInit
<1>2. AttemptsInv /\ [Next]_vars => AttemptsInv'
  BY AttemptsStep
<1> DEFINE Kept == \A j \in Requests :
                     \/ NoLess(jobs'[j], jobs[j])
                     \/ /\ Publishers > 1
                        /\ \E r \in Requests :
                             state[r] = "running" /\ job_id[r] = j /\ NoLess(jobs'[j], prior[r])
<1>3. AttemptsInv /\ AttemptsInv' /\ [Next]_vars => [Kept]_vars
  <2> SUFFICES ASSUME AttemptsInv, AttemptsInv', Next PROVE Kept \/ UNCHANGED vars
    OBVIOUS
  <2>1. TypeOK /\ TypeOK' /\ HasJob /\ OwnInv /\ AheadInv /\ SnapInv
    BY DEF AttemptsInv, JobsInv, ServiceInv
  <2>2. ASSUME NEW r \in Requests, Request(r) PROVE Kept
    BY <2>1, <2>2, ProgressForward
  <2>3. CASE OtherStep
    <3>1. UNCHANGED jobs
      BY <2>1, <2>3, OtherMoves
    <3>2. \A j \in Requests : NoLess(jobs'[j], jobs[j])
      BY <2>1, <3>1 DEF TypeOK, Record, NoLess
    <3>3. QED
      BY <3>2
  <2>4. QED
    BY <2>2, <2>3 DEF Next, Idle, OtherStep
<1>4. QED
  BY <1>1, <1>2, <1>3, PTL DEF Spec, ProgressKept

\* With one process no job is run twice at once, even if a live run is silent for so
\* long that its record counts as abandoned: the reservation of its key stands.
THEOREM OneRunPerJobInProcess ==
    ASSUME OneProcess
    PROVE  Spec => []OneRunPerJob
<1>1. JobsInv => OneRunPerJob
  <2> SUFFICES ASSUME JobsInv, NEW r \in Requests, NEW q \in Requests,
                      state[r] \in Live, state[q] \in Live, job_id[r] = job_id[q]
               PROVE  q = r
    BY DEF OneRunPerJob
  <2>1. TypeOK /\ HasJob /\ OneRunPerKey /\ OwnInv
    BY DEF JobsInv, ServiceInv
  <2>2. state[r] \in Reserving /\ state[q] \in HasRun
    BY DEF Live, Reserving, HasRun
  <2>3. QED
    BY <2>1, <2>2, Alone
<1>2. QED
  BY <1>1, JobsInductive, PTL

=============================================================================
