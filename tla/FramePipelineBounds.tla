------------------------- MODULE FramePipelineBounds -------------------------
(***************************************************************************)
(* How much a dispatch run with several publishers can leave behind: the   *)
(* frames a checkpoint passes over and the frames a publish overtakes are  *)
(* fewer than the publishers, whatever fails.  And what its caller relies  *)
(* on: a run implements DispatchLedger.                                    *)
(***************************************************************************)
EXTENDS FramePipelineProofs

-----------------------------------------------------------------------------
\* Every index that is, or is about to be, in the job record is that of a frame
\* confirmed by this run or by the one it resumes; the counts lag the confirms.
Confirmable == {prior.last_source_index} \cup confirmed

CheckpointInv ==
    /\ last_source_index \in Confirmable
    /\ job.last_source_index \in Confirmable /\ job.frames_dispatched <= frames_confirmed
    /\ \A w \in Workers : worker[w] = "checkpoint" =>
          /\ snap[w].last_source_index \in Confirmable
          /\ snap[w].frames_dispatched <= frames_confirmed

\* A run starts with the record it resumes, all of it confirmed.
LEMMA CheckpointInit == Init => CheckpointInv
<1> SUFFICES ASSUME Init PROVE CheckpointInv
  OBVIOUS
<1>1. /\ prior \in Progress /\ job = prior /\ \A w \in Workers : worker[w] = "idle"
      /\ last_source_index = prior.last_source_index
      /\ frames_confirmed = prior.frames_dispatched
  BY PriorsAssumption DEF Init, SeededFrom
<1>2. prior.frames_dispatched \in Nat
  BY <1>1 DEF Progress
<1>3. QED
  BY <1>1, <1>2 DEF CheckpointInv, Confirmable

\* No step of a publisher saves an index that was not confirmed.
LEMMA CheckpointStep == TypeInv /\ CheckpointInv /\ [Next]_vars => CheckpointInv'
<1> SUFFICES ASSUME TypeInv, CheckpointInv, [Next]_vars PROVE CheckpointInv'
  OBVIOUS
<1>t. /\ frames_confirmed \in Nat /\ DOMAIN worker = Workers /\ DOMAIN snap = Workers
      /\ job.frames_dispatched \in Nat
      /\ \A w \in Workers : snap[w] \in Progress /\ snap[w].frames_dispatched \in Nat
  BY DEF TypeInv, TypeOK, Progress
<1> USE <1>t DEF CheckpointInv
<1>1. ASSUME NEW w \in Workers, Publisher(w) PROVE CheckpointInv'
  <2>0. prior' = prior
    BY <1>1 DEF Publisher
  <2> USE <2>0
  <2>1. CASE TakeFrame(w) \/ DrainFrame(w) \/ TakeStop(w) \/ StoreBlob(w) \/ BrokerAccepts(w)
    <3>1. /\ UNCHANGED <<snap, last_source_index, frames_confirmed, job, confirmed>>
          /\ \A v \in Workers : worker'[v] = "checkpoint" => worker[v] = "checkpoint"
      BY <2>1 DEF TakeFrame, DrainFrame, TakeStop, StoreBlob, BrokerAccepts, taskVars,
         stateVars, externalVars
    <3>2. QED
      BY <3>1 DEF Confirmable
  <2>2. CASE Confirm(w)
    <3>1. /\ confirmed' = confirmed \cup {item[w]} /\ frames_confirmed' = frames_confirmed + 1
          /\ last_source_index' \in {item[w], last_source_index} /\ job' = job
          /\ \A v \in Workers : v # w => snap'[v] = snap[v] /\ worker'[v] = worker[v]
          /\ worker'[w] = "checkpoint" =>
                /\ snap'[w].last_source_index = last_source_index'
                /\ snap'[w].frames_dispatched = frames_confirmed'
      BY <2>2 DEF Confirm, HighestConfirmed
    <3>2. Confirmable' = Confirmable \cup {item[w]}
      BY <3>1 DEF Confirmable
    <3>3. last_source_index' \in Confirmable' /\ job'.last_source_index \in Confirmable'
      BY <3>1, <3>2
    <3>4. QED
      BY <3>1, <3>2, <3>3
  <2>3. CASE SaveCheckpoint(w)
    <3>1. /\ worker[w] = "checkpoint" /\ job' = snap[w]
          /\ UNCHANGED <<last_source_index, frames_confirmed, confirmed>>
          /\ \A v \in Workers : worker'[v] = "checkpoint" =>
                worker[v] = "checkpoint" /\ snap'[v] = snap[v]
      BY <2>3 DEF SaveCheckpoint, stateVars
    <3>2. QED
      BY <3>1 DEF Confirmable
  <2>4. CASE CallRaises(w)
    <3>1. /\ job' = job \/ (worker[w] = "checkpoint" /\ job' = snap[w])
          /\ UNCHANGED <<last_source_index, frames_confirmed, confirmed>>
          /\ \A v \in Workers : worker'[v] = "checkpoint" =>
                worker[v] = "checkpoint" /\ snap'[v] = snap[v]
      BY <2>4 DEF CallRaises
    <3>2. QED
      BY <3>1 DEF Confirmable
  <2>5. QED
    BY <1>1, <2>1, <2>2, <2>3, <2>4 DEF Publisher
<1>2. ASSUME DecodeThread \/ ClientHangsUp \/ WatchdogPolls \/ Run \/ UNCHANGED vars
      PROVE  CheckpointInv'
  <2>1. UNCHANGED <<prior, worker, snap, last_source_index, frames_confirmed, job, confirmed>>
    BY <1>2 DEF DecodeThread, ClientHangsUp, WatchdogPolls, Run, vars, taskVars, stateVars,
       externalVars
  <2>2. QED
    BY <2>1 DEF Confirmable
<1>3. QED
  BY <1>1, <1>2 DEF Next, Finished

-----------------------------------------------------------------------------
\* h assigns to each publisher the frame it holds, or lost when a call failed:
\* everything up to a frame already taken is sent, undecodable or one of these.
\* The publisher of a sent frame has since gone on to a later one, or holds none.
Charged(h) ==
    /\ \A w \in Workers : item[w] # STOP => h[w] = item[w]
    /\ ~error => h = item
    /\ \A r \in References \cup (Held \ {STOP}) : \A f \in Start .. r :
          f \in References \cup undecodable \cup {h[w] : w \in Workers}
    /\ \A r \in References : \E w \in Workers : h[w] = STOP \/ h[w] >= r

ChargeInv == \E h \in [Workers -> Int] : Charged(h)

\* A run starts with no publisher charged with a frame.
LEMMA ChargeInit == Init => ChargeInv
<1> SUFFICES ASSUME Init PROVE ChargeInv
  OBVIOUS
<1>1. item \in [Workers -> Int] /\ References = {} /\ Held \ {STOP} = {}
  BY DEF Init, References, Held, STOP
<1>2. Charged(item)
  BY <1>1 DEF Charged
<1>3. QED
  BY <1>1, <1>2 DEF ChargeInv

\* A publisher that takes a frame or loses one to a failing call can be charged with it.
LEMMA ChargeStep ==
    /\ TypeInv /\ PlaceInv /\ CoverageInv /\ ChargeInv /\ [Next]_vars
    => ChargeInv'
<1> SUFFICES ASSUME TypeInv, PlaceInv, CoverageInv, ChargeInv, [Next]_vars
             PROVE  ChargeInv'
  OBVIOUS
<1>1. PICK h \in [Workers -> Int] : Charged(h)
  BY DEF ChargeInv
<1>t. /\ queue \in Seq(Int) /\ broker \in Seq(Int) /\ item \in [Workers -> Int]
      /\ DOMAIN worker = Workers /\ Start \in Nat /\ Horizon \in Int /\ STOP = -1
  BY PriorsAssumption, NumFramesAssumption
     DEF TypeInv, TypeOK, Frames, STOP, Start, Horizon
<1>v. References = Elements(broker) /\ References' = Elements(broker')
  BY DEF References, Elements
<1>r. References \subseteq Start .. Horizon - 1 /\ \A r \in References : r \in Int
  BY <1>v DEF PlaceInv, SentPlaces
<1> USE <1>t
<1>2. ASSUME NEW w \in Workers, Publisher(w) PROVE ChargeInv'
  <2>0. undecodable' = undecodable /\ Start' = Start
    BY <1>2 DEF Publisher, decoderVars, Start
  <2>1. CASE TakeFrame(w)
    <3>1. /\ queue # << >> /\ queue' = Tail(queue) /\ Head(queue) # STOP
          /\ ~error /\ error' = error /\ worker[w] = "idle"
          /\ item' = [item EXCEPT ![w] = Head(queue)] /\ broker' = broker /\ confirmed' = confirmed
      BY <2>1 DEF TakeFrame, Draining, stateVars, externalVars
    <3>2. /\ Head(queue) \in Int /\ Head(queue) \in Queued
          /\ Queued \subseteq Queued' \cup {Head(queue)}
          /\ \A f \in Queued' : Head(queue) < f
      BY <3>1, TailFacts DEF Queued, PlaceInv, QueuePlaces
    <3>3. item' \in [Workers -> Int] /\ item'[w] = Head(queue) /\ item[w] = STOP
          /\ \A v \in Workers : v # w => item'[v] = item[v]
      BY <3>1, <3>2 DEF TypeInv, Holding
    <3>4. h = item /\ References' = References
      BY <1>1, <1>v, <3>1 DEF Charged
    <3>5. Held \subseteq Held' \cup {STOP} /\ Held' \subseteq Held \cup {Head(queue)}
      BY <3>3 DEF Held
    <3>6. \A f \in Start .. Head(queue) : f \in References \cup undecodable \cup Held'
      <4> SUFFICES ASSUME NEW f \in Start .. Head(queue)
                   PROVE  f \in References \cup undecodable \cup Held'
        OBVIOUS
      <4>1. f \in Start .. Horizon - 1 /\ f # STOP
        BY <3>2 DEF PlaceInv, QueuePlaces
      <4>2. f \in undecodable \cup confirmed \cup Queued \cup Held
        BY <3>1, <4>1 DEF CoverageInv, Covered
      <4>3. confirmed \subseteq References
        BY DEF PlaceInv, ConfirmedPlaces
      <4>4. f \in Queued => f = Head(queue)
        BY <3>2
      <4>5. Head(queue) \in Held'
        BY <3>3 DEF Held
      <4>6. QED
        BY <3>5, <4>1, <4>2, <4>3, <4>4, <4>5
    <3>7. \A r \in References' \cup (Held' \ {STOP}) : \A f \in Start .. r :
             f \in References' \cup undecodable \cup Held'
      <4>1. \A r \in References \cup (Held \ {STOP}) : \A f \in Start .. r :
               f \in References \cup undecodable \cup Held
        <5>1. Held = {h[v] : v \in Workers}
          BY <3>4 DEF Held
        <5>2. QED
          BY <1>1, <5>1 DEF Charged
      <4>2. \A r \in References \cup (Held \ {STOP}) : \A f \in Start .. r :
               f \in References \cup undecodable \cup Held'
        BY <3>5, <4>1
      <4>3. QED
        BY <3>4, <3>5, <3>6, <4>2
    <3>8. \A r \in References' : \E v \in Workers : item'[v] = STOP \/ item'[v] >= r
      <4> SUFFICES ASSUME NEW r \in References
                   PROVE  \E v \in Workers : item'[v] = STOP \/ item'[v] >= r
        BY <3>4
      <4>1. PICK v \in Workers : item[v] = STOP \/ item[v] >= r
        BY <1>1, <3>4 DEF Charged
      <4>2. r < Head(queue) /\ r \in Int
        BY <1>r, <3>2 DEF PlaceInv, SentPlaces
      <4>3. CASE v = w
        BY <3>2, <3>3, <4>2, <4>3
      <4>4. CASE v # w
        BY <3>3, <4>1, <4>4
      <4>5. QED
        BY <4>3, <4>4
    <3>9. Charged(item)'
      BY <2>0, <3>7, <3>8 DEF Charged, Held
    <3>10. QED
      BY <3>3, <3>9 DEF ChargeInv
  <2>2. CASE DrainFrame(w) \/ TakeStop(w) \/ StoreBlob(w) \/ SaveCheckpoint(w)
    <3>1. UNCHANGED <<item, error, broker>>
      BY <2>2 DEF DrainFrame, TakeStop, StoreBlob, SaveCheckpoint, taskVars, stateVars,
         externalVars
    <3>2. Charged(h)'
      BY <1>1, <2>0, <3>1 DEF Charged, References, Held
    <3>3. QED
      BY <3>2 DEF ChargeInv
  <2>3. CASE BrokerAccepts(w)
    <3>1. worker[w] = "publish" /\ broker' = Append(broker, item[w]) /\ UNCHANGED <<item, error>>
      BY <2>3 DEF BrokerAccepts, stateVars
    <3>2. References' = References \cup {item[w]} /\ item[w] # STOP /\ h[w] = item[w]
      BY <1>1, <1>v, <3>1, AppendFacts DEF TypeInv, Holding, Charged
    <3>3. Held' = Held /\ item[w] \in Held /\ item[w] \in Int
      BY <3>1 DEF Held
    <3>4. Charged(h)'
      <4>1. \A r \in References' \cup (Held' \ {STOP}) : \A f \in Start .. r :
               f \in References' \cup undecodable \cup {h[v] : v \in Workers}
        BY <1>1, <3>2, <3>3 DEF Charged
      <4>2. \A r \in References' : \E v \in Workers : h[v] = STOP \/ h[v] >= r
        BY <1>1, <3>2, <3>3 DEF Charged
      <4>3. /\ \A v \in Workers : item'[v] # STOP => h[v] = item'[v]
            /\ ~error' => h = item'
        BY <1>1, <3>1 DEF Charged
      <4>4. QED
        BY <2>0, <4>1, <4>2, <4>3 DEF Charged
    <3>5. QED
      BY <3>4 DEF ChargeInv
  <2>4. CASE Confirm(w) /\ ~error
    <3>1. /\ item' = [item EXCEPT ![w] = STOP] /\ UNCHANGED <<broker, error>>
          /\ worker[w] = "confirm" /\ h = item
      BY <1>1, <2>4 DEF Confirm, Charged
    <3>2. item' \in [Workers -> Int] /\ item'[w] = STOP
          /\ \A v \in Workers : v # w => item'[v] = item[v]
      BY <3>1
    <3>3. item[w] \in References /\ References' = References
      BY <1>v, <3>1 DEF PlaceInv, ConfirmedPlaces
    <3>4. Held \subseteq Held' \cup {item[w]} /\ Held' \ {STOP} \subseteq Held \ {STOP}
      BY <3>2 DEF Held
    <3>5. \A r \in References' \cup (Held' \ {STOP}) : \A f \in Start .. r :
             f \in References' \cup undecodable \cup Held'
      <4>1. \A r \in References \cup (Held \ {STOP}) : \A f \in Start .. r :
               f \in References \cup undecodable \cup Held
        <5>1. Held = {h[v] : v \in Workers}
          BY <3>1 DEF Held
        <5>2. QED
          BY <1>1, <5>1 DEF Charged
      <4>2. QED
        BY <3>3, <3>4, <4>1
    <3>6. Charged(item)'
      BY <2>0, <3>2, <3>5 DEF Charged, Held
    <3>7. QED
      BY <3>2, <3>6 DEF ChargeInv
  <2>5. CASE (Confirm(w) /\ error) \/ CallRaises(w)
    <3>1. error' /\ item' = [item EXCEPT ![w] = STOP] /\ broker' = broker
      BY <2>5 DEF Confirm, CallRaises
    <3>2. /\ \A v \in Workers : item'[v] # STOP => item'[v] = item[v]
          /\ References' = References /\ Held' \ {STOP} \subseteq Held \ {STOP}
      BY <1>v, <3>1 DEF Held
    <3>3. Charged(h)'
      BY <1>1, <2>0, <3>1, <3>2 DEF Charged
    <3>4. QED
      BY <3>3 DEF ChargeInv
  <2>6. QED
    BY <1>2, <2>1, <2>2, <2>3, <2>4, <2>5 DEF Publisher
<1>3. ASSUME DecodeThread \/ ClientHangsUp \/ WatchdogPolls \/ Run \/ UNCHANGED vars
      PROVE  ChargeInv'
  <2>1. UNCHANGED <<item, error, broker>> /\ Start' = Start
    BY <1>3 DEF DecodeThread, ClientHangsUp, WatchdogPolls, Run, vars, taskVars, stateVars,
       externalVars, Start
  <2>2. undecodable \subseteq undecodable'
    BY <1>3 DEF DecodeThread, SeesAbort, SeesNoAbort, EndOfStream, DecodeRaises, YieldsFrame,
       YieldsFailure, PutFrame, ClientHangsUp, WatchdogPolls, Run, vars, decoderVars
  <2>3. References' = References /\ Held' = Held
    BY <2>1 DEF References, Held
  <2>4. \A r \in References' \cup (Held' \ {STOP}) : \A f \in Start .. r :
           f \in References' \cup undecodable' \cup {h[w] : w \in Workers}
    BY <1>1, <2>2, <2>3 DEF Charged
  <2>5. Charged(h)'
    BY <1>1, <2>1, <2>3, <2>4 DEF Charged
  <2>6. QED
    BY <2>5 DEF ChargeInv
<1>4. QED
  BY <1>2, <1>3 DEF Next, Finished

\* Frames charged to the publishers other than one are fewer than the publishers.
LEMMA FewerThanPublishers ==
    ASSUME NEW h \in [Workers -> Int], NEW w \in Workers,
           NEW S, S \subseteq {h[v] : v \in Workers \ {w}}
    PROVE  IsFiniteSet(S) /\ Cardinality(S) <= Cardinality(Workers) - 1
<1> DEFINE T == {h[v] : v \in Workers \ {w}}
           g == [v \in Workers \ {w} |-> h[v]]
<1>1. IsFiniteSet(Workers \ {w}) /\ Cardinality(Workers \ {w}) = Cardinality(Workers) - 1
  BY FS_RemoveElement, WorkersAssumption
<1>2. g \in Surjection(Workers \ {w}, T)
  BY DEF Surjection
<1>3. IsFiniteSet(T) /\ Cardinality(T) <= Cardinality(Workers \ {w})
  BY <1>1, <1>2, FS_Surjection
<1>4. /\ IsFiniteSet(S) /\ Cardinality(S) <= Cardinality(T)
      /\ Cardinality(S) \in Nat /\ Cardinality(T) \in Nat
  BY <1>3, FS_Subset, FS_CardinalityType
<1>5. QED
  BY <1>1, <1>3, <1>4, CardinalityWorkers

-----------------------------------------------------------------------------
\* The publishers other than one are charged with every frame that is earlier
\* than r and neither sent nor undecodable.
LEMMA EarlierAreCharged ==
    ASSUME IInv, NEW h \in [Workers -> Int], Charged(h), NEW w \in Workers,
           NEW r \in References \cup (Held \ {STOP}),
           h[w] = STOP \/ h[w] >= r,
           NEW S, \A f \in S : f \in Start .. r /\ f # r /\ f \notin References \cup undecodable
    PROVE  IsFiniteSet(S) /\ Cardinality(S) <= Cardinality(Workers) - 1
<1>t. Start \in Nat /\ STOP = -1
  BY PriorsAssumption, NumFramesAssumption DEF IInv, TypeInv, TypeOK, STOP, Start
<1>1. \A f \in S : f \in {h[v] : v \in Workers}
  BY DEF Charged
<1>2. \A f \in S : f # h[w]
  <2> SUFFICES ASSUME NEW f \in S, f = h[w] PROVE FALSE
    OBVIOUS
  <2>1. f \in Start .. r /\ f # r /\ f # STOP
    BY <1>t
  <2>2. f >= r /\ r \in Int
    <3>1. References \subseteq Int
      BY DEF IInv, PlaceInv, SentPlaces
    <3>2. Held \subseteq Int
      BY NumFramesAssumption DEF Held, IInv, TypeInv, TypeOK, Frames, STOP
    <3>3. QED
      BY <2>1, <3>1, <3>2
  <2>3. QED
    BY <2>1, <2>2
<1>3. S \subseteq {h[v] : v \in Workers \ {w}}
  BY <1>1, <1>2
<1>4. QED
  BY <1>3, FewerThanPublishers

Bounds == IInv /\ CheckpointInv /\ ChargeInv

\* Every publisher of every reachable state can be charged with what it left behind.
LEMMA BoundsInductive == Spec => []Bounds
<1>1. Init => CheckpointInv /\ ChargeInv
  BY CheckpointInit, ChargeInit
<1>2. IInv /\ CheckpointInv /\ ChargeInv /\ [Next]_vars => (CheckpointInv /\ ChargeInv)'
  BY CheckpointStep, ChargeStep DEF IInv
<1>3. QED
  BY <1>1, <1>2, Inductive, PTL DEF Spec, Bounds

\* The job record counts no more confirms than have arrived and holds the index
\* of a confirmed frame, for any number of publishers and any failures.
THEOREM CheckpointBehind == Spec => []CheckpointNeverAhead
<1>1. Bounds => CheckpointNeverAhead
  <2> SUFFICES ASSUME Bounds PROVE CheckpointNeverAhead
    OBVIOUS
  <2>1. frames_confirmed = prior.frames_dispatched + Cardinality(confirmed)
    BY DEF Bounds, IInv, CoverageInv, Counted
  <2>2. QED
    BY <2>1 DEF Bounds, CheckpointInv, Confirmable, CheckpointNeverAhead
<1>2. QED
  BY <1>1, BoundsInductive, PTL

\* Whatever fails, a checkpoint hides at most one frame per other publisher from
\* the run that resumes it.
THEOREM SeamGapIsBounded == Spec => []SeamGapBounded
<1>1. Bounds => SeamGapBounded
  <2> SUFFICES ASSUME Bounds PROVE Cardinality(SeamGap) <= Cardinality(Workers) - 1
    BY DEF SeamGapBounded
  <2> DEFINE r == job.last_source_index
  <2>1. SeamGap = {f \in Start .. r : f \notin References \cup undecodable}
    BY DEF SeamGap, Start
  <2>2. PICK h \in [Workers -> Int] : Charged(h)
    BY DEF Bounds, ChargeInv
  <2>3. CASE r = prior.last_source_index
    <3>1. SeamGap = {}
      BY <2>1, <2>3, PriorsAssumption, NumFramesAssumption
         DEF Bounds, IInv, TypeInv, TypeOK, Start
    <3>2. QED
      BY <3>1, FS_EmptySet, CardinalityWorkers
  <2>4. CASE r \in confirmed
    <3>1. r \in References
      BY <2>4 DEF Bounds, IInv, PlaceInv, ConfirmedPlaces
    <3>2. PICK w \in Workers : h[w] = STOP \/ h[w] >= r
      BY <2>2, <3>1 DEF Charged
    <3>3. \A f \in SeamGap : f \in Start .. r /\ f # r /\ f \notin References \cup undecodable
      BY <2>1, <3>1
    <3>4. QED
      BY <2>2, <3>1, <3>2, <3>3, EarlierAreCharged DEF Bounds
  <2>5. QED
    BY <2>3, <2>4 DEF Bounds, CheckpointInv, Confirmable
<1>2. QED
  BY <1>1, BoundsInductive, PTL

-----------------------------------------------------------------------------
\* The frames that the i-th accepted reference overtook.
Overtaken(i) ==
    {f \in prior.last_source_index + 1 .. broker[i] - 1 :
        f \notin undecodable /\ \A j \in 1 .. i - 1 : broker[j] # f}

\* Later steps of a run add no frame to those that a published one overtook.
LEMMA OvertakenShrinks ==
    ASSUME TypeInv, prior' = prior, undecodable \subseteq undecodable',
           NEW i \in DOMAIN broker, \A j \in 1 .. i : broker'[j] = broker[j],
           Cardinality(Overtaken(i)) <= Cardinality(Workers) - 1
    PROVE  Cardinality(Overtaken(i)') <= Cardinality(Workers) - 1
<1>1. /\ i \in Nat \ {0} /\ i \in 1 .. i /\ broker[i] \in Int
      /\ prior.last_source_index + 1 \in Int
  <2>1. broker \in Seq(Frames) /\ prior \in Priors
    BY DEF TypeInv, TypeOK
  <2>2. broker[i] \in Frames /\ i \in Nat \ {0}
    BY <2>1
  <2>3. QED
    BY <2>1, <2>2, PriorsAssumption, NumFramesAssumption DEF Frames
<1>2. Overtaken(i)' \subseteq Overtaken(i)
  BY <1>1 DEF Overtaken
<1>3. IsFiniteSet(Overtaken(i))
  <2>1. ASSUME NEW a \in Int, NEW b \in Int, a = prior.last_source_index + 1, b = broker[i] - 1
        PROVE  IsFiniteSet(Overtaken(i))
    <3>1. IsFiniteSet(a .. b) /\ Overtaken(i) \subseteq a .. b
      BY <2>1, FS_Interval DEF Overtaken
    <3>2. QED
      BY <3>1, FS_Subset
  <2>2. broker[i] - 1 \in Int
    BY <1>1
  <2>3. QED
    BY <1>1, <2>1, <2>2
<1>4. /\ Cardinality(Overtaken(i)') <= Cardinality(Overtaken(i))
      /\ Cardinality(Overtaken(i)) \in Nat /\ Cardinality(Overtaken(i)') \in Nat
  BY <1>2, <1>3, FS_Subset, FS_CardinalityType
<1>5. QED
  BY <1>4, CardinalityWorkers

\* A reference accepted by RabbitMQ overtook fewer frames than there are
\* publishers, for any number of them and any failures.
THEOREM OvertakingIsBounded == Spec => []OvertakingBounded
<1>0. OvertakingBounded = (\A i \in DOMAIN broker : Cardinality(Overtaken(i)) <= Cardinality(Workers) - 1)
  BY DEF OvertakingBounded, Overtaken
<1>1. Init => OvertakingBounded
  BY DEF Init, OvertakingBounded
<1>2. Bounds /\ OvertakingBounded /\ [Next]_vars => OvertakingBounded'
  <2> SUFFICES ASSUME Bounds, OvertakingBounded, [Next]_vars,
                      NEW i \in DOMAIN broker'
               PROVE  Cardinality(Overtaken(i)') <= Cardinality(Workers) - 1
    BY DEF OvertakingBounded, Overtaken
  <2>t. broker \in Seq(Int) /\ item \in [Workers -> Int] /\ TypeInv
    BY NumFramesAssumption DEF Bounds, IInv, TypeInv, TypeOK, Frames, STOP
  <2>p. prior' = prior /\ undecodable \subseteq undecodable'
    BY DEF Next, DecodeThread, SeesAbort, SeesNoAbort, EndOfStream, DecodeRaises, YieldsFrame,
       YieldsFailure, PutFrame, Publisher, ClientHangsUp, WatchdogPolls, Run, Finished, vars,
       decoderVars
  <2>1. CASE broker' = broker
    <3>1. \A j \in 1 .. i : broker'[j] = broker[j]
      BY <2>1
    <3>2. i \in DOMAIN broker /\ Cardinality(Overtaken(i)) <= Cardinality(Workers) - 1
      BY <1>0, <2>1
    <3>3. QED
      BY <2>t, <2>p, <3>1, <3>2, OvertakenShrinks
  <2>2. ASSUME NEW w \in Workers, Publisher(w), BrokerAccepts(w)
        PROVE  Cardinality(Overtaken(i)') <= Cardinality(Workers) - 1
    <3>1. broker' = Append(broker, item[w]) /\ worker[w] = "publish"
      BY <2>2 DEF BrokerAccepts
    <3>2. /\ Len(broker) \in Nat /\ DOMAIN broker = 1 .. Len(broker)
          /\ DOMAIN broker' = 1 .. Len(broker) + 1
          /\ broker'[Len(broker) + 1] = item[w] /\ item[w] \in Int
          /\ \A j \in 1 .. Len(broker) : broker'[j] = broker[j]
      BY <2>t, <3>1
    <3>3. CASE i \in DOMAIN broker
      <4>1. \A j \in 1 .. i : broker'[j] = broker[j]
        BY <3>2, <3>3
      <4>2. Cardinality(Overtaken(i)) <= Cardinality(Workers) - 1
        BY <1>0, <3>3
      <4>3. QED
        BY <2>t, <2>p, <3>3, <4>1, <4>2, OvertakenShrinks
    <3>4. CASE i = Len(broker) + 1
      <4>1. PICK h \in [Workers -> Int] : Charged(h)
        BY DEF Bounds, ChargeInv
      <4>2. item[w] \in Held \ {STOP} /\ h[w] = item[w]
        BY <2>t, <3>1, <4>1 DEF Held, TypeInv, Holding, Charged
      <4>3. \A f \in Overtaken(i)' :
               f \in Start .. item[w] /\ f # item[w] /\ f \notin References \cup undecodable
        <5>1. 1 .. i - 1 = DOMAIN broker /\ broker'[i] = item[w]
          BY <3>2, <3>4
        <5>2. prior.last_source_index + 1 \in Int
          BY <2>t, PriorsAssumption, NumFramesAssumption DEF TypeInv, TypeOK
        <5>3. ASSUME NEW f \in Overtaken(i)'
              PROVE  /\ f \in prior.last_source_index + 1 .. item[w] - 1
                     /\ f \notin undecodable /\ \A j \in DOMAIN broker : broker[j] # f
          BY <2>p, <3>2, <5>1 DEF Overtaken
        <5>4. QED
          BY <3>2, <5>2, <5>3 DEF Start, References
      <4>4. h[w] >= item[w]
        BY <3>2, <4>2
      <4>5. QED
        BY <4>1, <4>2, <4>3, <4>4, EarlierAreCharged DEF Bounds
    <3>5. QED
      BY <3>2, <3>3, <3>4
  <2>3. QED
    BY <2>1, <2>2 DEF Next, DecodeThread, Publisher, TakeFrame, DrainFrame, TakeStop, StoreBlob,
       Confirm, SaveCheckpoint, CallRaises, ClientHangsUp, WatchdogPolls, Run, Finished, vars,
       externalVars
<1>3. QED
  BY <1>1, <1>2, BoundsInductive, PTL DEF Spec

\* Two finite sets have together at most as many elements as their sizes add up to.
LEMMA UnionAtMost ==
    ASSUME NEW S, IsFiniteSet(S), NEW T, IsFiniteSet(T)
    PROVE  /\ IsFiniteSet(S \cup T) /\ Cardinality(S \cup T) \in Nat
           /\ Cardinality(S \cup T) <= Cardinality(S) + Cardinality(T)
<1>1. IsFiniteSet(S \cup T) /\ IsFiniteSet(S \cap T)
  BY FS_Union, FS_Subset
<1>2. /\ Cardinality(S) \in Nat /\ Cardinality(T) \in Nat /\ Cardinality(S \cap T) \in Nat
      /\ Cardinality(S \cup T) \in Nat
  BY <1>1, FS_CardinalityType
<1>3. Cardinality(S \cup T) = Cardinality(S) + Cardinality(T) - Cardinality(S \cap T)
  BY FS_Union
<1>4. QED
  BY <1>1, <1>2, <1>3

-----------------------------------------------------------------------------
\* Backpressure: while nothing has failed, decoding is ahead of the confirms by
\* what the queue and the publishers hold, plus one frame.
THEOREM LookaheadIsBounded == Spec => []BoundedLookahead
<1>1. IInv => BoundedLookahead
  <2> SUFFICES ASSUME IInv, ~error
               PROVE  cursor - Start - Cardinality(undecodable) - Cardinality(confirmed)
                        <= QueueSize + Cardinality(Workers) + 1
    BY DEF BoundedLookahead, Start
  <2>t. /\ queue \in Seq(Int) /\ Len(queue) <= QueueSize /\ QueueSize \in Nat
        /\ item \in [Workers -> Int] /\ cursor \in Int /\ Start \in Int /\ Horizon \in Int
        /\ Horizon >= cursor - 1
        /\ confirmed \subseteq Frames /\ undecodable \subseteq Frames
    BY PriorsAssumption, NumFramesAssumption, QueueSizeAssumption
       DEF IInv, TypeInv, TypeOK, Frames, STOP, Start, Horizon
  <2>1. /\ IsFiniteSet(undecodable) /\ Cardinality(undecodable) \in Nat
        /\ IsFiniteSet(confirmed) /\ Cardinality(confirmed) \in Nat
    BY <2>t, FiniteFrames
  <2>2. IsFiniteSet(Queued) /\ Cardinality(Queued) \in Nat /\ Cardinality(Queued) <= QueueSize
    <3>1. Len(queue) \in Nat /\ DOMAIN queue = 1 .. Len(queue)
      BY <2>t
    <3>2. IsFiniteSet(1 .. Len(queue)) /\ Cardinality(1 .. Len(queue)) = Len(queue)
      <4>1. Cardinality(1 .. Len(queue)) = IF 1 > Len(queue) THEN 0 ELSE Len(queue) - 1 + 1
        BY <3>1, FS_Interval
      <4>2. Cardinality(1 .. Len(queue)) = Len(queue)
        BY <3>1, <4>1
      <4>3. IsFiniteSet(1 .. Len(queue))
        BY <3>1, FS_Interval
      <4>4. QED
        BY <4>2, <4>3
    <3>3. queue \in Surjection(1 .. Len(queue), Elements(queue))
      <4>1. queue \in [1 .. Len(queue) -> Elements(queue)]
        BY <2>t, <3>1 DEF Elements
      <4>2. QED
        BY <3>1, <4>1 DEF Surjection, Elements
    <3>4. IsFiniteSet(Elements(queue)) /\ Cardinality(Elements(queue)) <= Len(queue)
      BY <3>2, <3>3, FS_Surjection
    <3>5. /\ IsFiniteSet(Queued) /\ Cardinality(Queued) <= Cardinality(Elements(queue))
          /\ Cardinality(Queued) \in Nat /\ Cardinality(Elements(queue)) \in Nat
      BY <3>4, FS_Subset, FS_CardinalityType DEF Queued
    <3>6. QED
      BY <2>t, <3>1, <3>4, <3>5
  <2>3. IsFiniteSet(Held) /\ Cardinality(Held) \in Nat /\ Cardinality(Held) <= Cardinality(Workers)
    <3>1. item \in Surjection(Workers, Held)
      BY <2>t DEF Surjection, Held
    <3>2. QED
      BY <3>1, WorkersAssumption, FS_Surjection, FS_CardinalityType
  <2> DEFINE A == undecodable \cup confirmed
             B == Queued \cup Held
  <2>4. IsFiniteSet(A) /\ Cardinality(A) \in Nat
        /\ Cardinality(A) <= Cardinality(undecodable) + Cardinality(confirmed)
    BY <2>1, UnionAtMost
  <2>5. IsFiniteSet(B) /\ Cardinality(B) \in Nat
        /\ Cardinality(B) <= Cardinality(Queued) + Cardinality(Held)
    BY <2>2, <2>3, UnionAtMost
  <2>6. IsFiniteSet(A \cup B) /\ Cardinality(A \cup B) \in Nat
        /\ Cardinality(A \cup B) <= Cardinality(A) + Cardinality(B)
    BY <2>4, <2>5, UnionAtMost
  <2>7. Start .. Horizon - 1 \subseteq A \cup B
    BY DEF IInv, CoverageInv, Covered
  <2>8. ASSUME NEW b \in Int, b = Horizon - 1
        PROVE  Horizon - Start <= Cardinality(A \cup B)
    <3>1. Cardinality(Start .. b) = IF Start > b THEN 0 ELSE b - Start + 1
      BY <2>t, FS_Interval
    <3>2. Cardinality(Start .. b) <= Cardinality(A \cup B)
      BY <2>6, <2>7, <2>8, FS_Subset
    <3>3. QED
      BY <2>t, <2>6, <2>8, <3>1, <3>2
  <2>9. Horizon - Start <= Cardinality(A \cup B)
    <3>1. Horizon - 1 \in Int
      BY <2>t
    <3> HIDE DEF A, B
    <3>2. QED
      BY <3>1, <2>8
  <2> HIDE DEF A, B
  <2>10. Horizon - Start <= Cardinality(undecodable) + Cardinality(confirmed)
                            + QueueSize + Cardinality(Workers)
    <3>1. /\ QueueSize \in Nat /\ Cardinality(Workers) \in Nat /\ Horizon \in Int /\ Start \in Int
      BY <2>t, CardinalityWorkers
    <3>2. QED
      BY <3>1, <2>1, <2>2, <2>3, <2>4, <2>5, <2>6, <2>9
  <2>11. QED
    BY <2>t, <2>1, <2>10, CardinalityWorkers
<1>2. QED
  BY <1>1, Inductive, PTL

-----------------------------------------------------------------------------
\* With a single publisher, the setting the integration tests use, the claims of
\* the documentation hold as they stand.

\* "No gap at the seam": a checkpoint passes over no frame.
THEOREM OnePublisherNoGap ==
    ASSUME Cardinality(Workers) = 1
    PROVE  Spec => []NoGapAtSeam
<1>1. TypeOK /\ SeamGapBounded => NoGapAtSeam
  <2> SUFFICES ASSUME TypeOK, SeamGapBounded PROVE SeamGap = {}
    BY DEF NoGapAtSeam
  <2>1. /\ prior.last_source_index + 1 \in Int /\ job.last_source_index \in Int
    BY PriorsAssumption, NumFramesAssumption DEF TypeOK, Progress
  <2>2. IsFiniteSet(SeamGap)
    <3>1. SeamGap \subseteq prior.last_source_index + 1 .. job.last_source_index
      BY DEF SeamGap
    <3>2. QED
      BY <2>1, <3>1, FS_Interval, FS_Subset
  <2>3. Cardinality(SeamGap) = 0
    BY <2>2, FS_CardinalityType DEF SeamGapBounded
  <2>4. QED
    BY <2>2, <2>3, FS_EmptySet
<1>2. QED
  BY <1>1, TypeCorrect, SeamGapIsBounded, PTL

\* "In dispatch order": the broker accepts the frames in video order.
THEOREM OnePublisherOrder ==
    ASSUME Cardinality(Workers) = 1
    PROVE  Spec => []DispatchOrder
<1>1. IInv /\ OvertakingBounded => DispatchOrder
  <2> SUFFICES ASSUME IInv, OvertakingBounded, NEW i \in DOMAIN broker, NEW j \in DOMAIN broker,
                      i < j, ~(broker[i] < broker[j])
               PROVE  FALSE
    BY DEF DispatchOrder
  <2>t. /\ broker \in Seq(Int) /\ prior.last_source_index + 1 \in Int /\ Start \in Int
        /\ i \in 1 .. Len(broker) /\ j \in 1 .. Len(broker)
        /\ broker[i] \in Int /\ broker[j] \in Int
    BY PriorsAssumption, NumFramesAssumption DEF IInv, TypeInv, TypeOK, Frames, Start
  <2>1. broker[i] # broker[j] /\ \A k \in 1 .. i - 1 : broker[k] # broker[j]
    BY <2>t DEF IInv, PlaceInv, SentPlaces, NoRepeat
  <2>2. broker[j] \in Start .. broker[i] - 1 /\ broker[j] \notin undecodable
    <3>1. broker[j] \in References
      BY DEF References
    <3>2. broker[j] \in Start .. Horizon - 1 /\ broker[j] \notin undecodable
      BY <3>1 DEF IInv, PlaceInv, SentPlaces
    <3>3. QED
      BY <2>t, <2>1, <3>2
  <2>3. broker[j] \in Overtaken(i)
    BY <2>1, <2>2 DEF Overtaken, Start
  <2>4. IsFiniteSet(Overtaken(i)) /\ Cardinality(Overtaken(i)) <= 0
    <3>1. ASSUME NEW b \in Int, b = broker[i] - 1 PROVE IsFiniteSet(Overtaken(i))
      <4>1. IsFiniteSet(prior.last_source_index + 1 .. b)
        BY <2>t, FS_Interval
      <4>2. Overtaken(i) \subseteq prior.last_source_index + 1 .. b
        BY <3>1 DEF Overtaken
      <4>3. QED
        BY <4>1, <4>2, FS_Subset
    <3>2. Cardinality(Overtaken(i)) <= Cardinality(Workers) - 1
      BY DEF OvertakingBounded, Overtaken
    <3>3. QED
      BY <2>t, <3>1, <3>2
  <2>5. QED
    BY <2>3, <2>4, FS_CardinalityType, FS_EmptySet
<1>2. QED
  BY <1>1, Inductive, OvertakingIsBounded, PTL

\* What one publisher w has confirmed since the record was last written: it is
\* counted by since_checkpoint, or by the checkpoint call on its way; a call that
\* failed leaves it idle for good.
LagInv(w) ==
    /\ error => worker[w] \in {"idle", "stopped"}
    /\ ~error /\ worker[w] # "checkpoint" =>
          frames_confirmed = job.frames_dispatched + since_checkpoint
    /\ worker[w] = "checkpoint" =>
          /\ snap[w].frames_dispatched = frames_confirmed
          /\ snap[w].last_source_index = last_source_index
          /\ since_checkpoint = 0
    /\ frames_confirmed >= job.frames_dispatched
    /\ frames_confirmed <= job.frames_dispatched + CheckpointEvery
    /\ last_source_index >= job.last_source_index

\* A publisher confirms at most CheckpointEvery frames between two checkpoints, and
\* the record it writes is never behind the one it replaces.
LEMMA LagStep ==
    ASSUME NEW w, Workers = {w}, TypeInv, TypeInv', LagInv(w), [Next]_vars
    PROVE  /\ LagInv(w)'
           /\ job' # job => /\ job'.last_source_index >= job.last_source_index
                            /\ job'.frames_dispatched >= job.frames_dispatched
<1>t. /\ w \in Workers /\ frames_confirmed \in Nat /\ CheckpointEvery \in Nat \ {0}
      /\ DOMAIN worker = Workers /\ DOMAIN snap = Workers
      /\ since_checkpoint \in 0 .. CheckpointEvery - 1 /\ error \in BOOLEAN
      /\ last_source_index \in Int /\ item[w] \in Int
      /\ job.frames_dispatched \in Nat /\ job.last_source_index \in Int
  <2>1. /\ w \in Workers /\ frames_confirmed \in Nat /\ DOMAIN worker = Workers
        /\ DOMAIN snap = Workers /\ since_checkpoint \in 0 .. CheckpointEvery - 1
        /\ error \in BOOLEAN /\ last_source_index \in -1 .. NumFrames - 1
        /\ item[w] \in Frames \cup {STOP} /\ job \in Progress
    BY DEF TypeInv, TypeOK
  <2>2. item[w] \in Int
    BY <2>1, NumFramesAssumption DEF Frames, STOP
  <2>3. last_source_index \in Int
    BY <2>1, NumFramesAssumption
  <2>4. job.frames_dispatched \in Nat /\ job.last_source_index \in Int
    BY <2>1 DEF Progress
  <2>5. QED
    BY <2>1, <2>2, <2>3, <2>4, CheckpointEveryAssumption
<1>1. CASE DecodeThread \/ ClientHangsUp \/ WatchdogPolls \/ Run \/ UNCHANGED vars
  <2>1. UNCHANGED <<worker, snap, frames_confirmed, last_source_index, error, since_checkpoint, job>>
    BY <1>1 DEF DecodeThread, ClientHangsUp, WatchdogPolls, Run, vars, taskVars, stateVars,
       externalVars
  <2>2. QED
    BY <2>1 DEF LagInv
<1>2. CASE TakeFrame(w) \/ DrainFrame(w) \/ TakeStop(w) \/ StoreBlob(w) \/ BrokerAccepts(w)
  <2>1. UNCHANGED <<snap, frames_confirmed, last_source_index, error, since_checkpoint, job>>
    BY <1>2 DEF TakeFrame, DrainFrame, TakeStop, StoreBlob, BrokerAccepts, taskVars, stateVars,
       externalVars
  <2>2. /\ worker[w] # "checkpoint" /\ worker'[w] # "checkpoint"
        /\ worker'[w] \in {"idle", "stopped"} \/ ~error
    BY <1>t, <1>2 DEF TakeFrame, DrainFrame, TakeStop, StoreBlob, BrokerAccepts, taskVars,
       Draining, LagInv
  <2>3. QED
    BY <2>1, <2>2 DEF LagInv
<1>3. CASE Confirm(w)
  <2>1. /\ worker[w] = "confirm" /\ ~error /\ error' = error /\ job' = job
        /\ frames_confirmed' = frames_confirmed + 1
        /\ frames_confirmed = job.frames_dispatched + since_checkpoint
        /\ since_checkpoint' = IF CheckpointDue THEN 0 ELSE since_checkpoint + 1
        /\ worker'[w] = IF CheckpointDue THEN "checkpoint" ELSE "idle"
        /\ CheckpointDue => /\ snap'[w].frames_dispatched = frames_confirmed'
                            /\ snap'[w].last_source_index = last_source_index'
    BY <1>t, <1>3 DEF Confirm, LagInv
  <2>2. last_source_index' >= last_source_index /\ last_source_index' \in Int
    BY <1>t, <1>3 DEF Confirm, HighestConfirmed
  <2>3. last_source_index' >= job.last_source_index
    BY <1>t, <2>2 DEF LagInv
  <2>4. /\ frames_confirmed' = job.frames_dispatched + (since_checkpoint + 1)
        /\ since_checkpoint + 1 <= CheckpointEvery
        /\ frames_confirmed' >= job.frames_dispatched
    BY <1>t, <2>1
  <2>5. frames_confirmed' <= job.frames_dispatched + CheckpointEvery
    BY <1>t, <2>4
  <2>6. QED
    BY <2>1, <2>3, <2>4, <2>5 DEF LagInv
<1>4. CASE SaveCheckpoint(w) \/ CallRaises(w)
  <2>1. /\ UNCHANGED <<frames_confirmed, last_source_index, since_checkpoint>>
        /\ worker'[w] = "idle"
        /\ job' = job \/ (worker[w] = "checkpoint" /\ job' = snap[w])
        /\ ~error' => error' = error /\ worker[w] = "checkpoint" /\ job' = snap[w]
    BY <1>t, <1>4 DEF SaveCheckpoint, CallRaises, stateVars
  <2>2. CASE worker[w] = "checkpoint" /\ job' = snap[w]
    <3>1. /\ job'.frames_dispatched = frames_confirmed /\ since_checkpoint = 0
          /\ job'.last_source_index = last_source_index
      BY <2>2 DEF LagInv
    <3>2. job'.frames_dispatched >= job.frames_dispatched
      BY <1>t, <3>1 DEF LagInv
    <3>3. job'.last_source_index >= job.last_source_index
      BY <1>t, <3>1 DEF LagInv
    <3>4. LagInv(w)'
      BY <1>t, <2>1, <3>1 DEF LagInv
    <3>5. QED
      BY <3>2, <3>3, <3>4
  <2>3. CASE job' = job /\ error'
    BY <2>1, <2>3 DEF LagInv
  <2>4. QED
    BY <1>t, <2>1, <2>2, <2>3
<1>5. QED
  <2>1. Next => DecodeThread \/ ClientHangsUp \/ WatchdogPolls \/ Run \/ UNCHANGED vars \/ Publisher(w)
    BY DEF Next, Finished
  <2>2. QED
    BY <1>1, <1>2, <1>3, <1>4, <2>1 DEF Publisher

\* A run starts with a record that counts all it has confirmed.
LEMMA LagInit ==
    ASSUME NEW w, Workers = {w}
    PROVE  Init => LagInv(w)
<1> SUFFICES ASSUME Init PROVE LagInv(w)
  OBVIOUS
<1>1. /\ prior \in Progress /\ job = prior /\ worker[w] = "idle" /\ since_checkpoint = 0
      /\ last_source_index = prior.last_source_index /\ ~error
      /\ frames_confirmed = prior.frames_dispatched
  BY PriorsAssumption DEF Init, SeededFrom
<1>2. prior.frames_dispatched \in Nat /\ prior.last_source_index \in Int /\ CheckpointEvery \in Nat
  BY <1>1, CheckpointEveryAssumption DEF Progress
<1>3. QED
  BY <1>1, <1>2 DEF LagInv

\* A crash of a run with one publisher forgets at most CheckpointEvery confirms.
THEOREM OnePublisherLag ==
    ASSUME Cardinality(Workers) = 1
    PROVE  Spec => []CheckpointLag
<1>0. PICK w : Workers = {w}
  BY WorkersAssumption, FS_Singleton
<1>1. TypeInv /\ LagInv(w) => CheckpointLag
  <2> SUFFICES ASSUME TypeInv, LagInv(w) PROVE CheckpointLag
    OBVIOUS
  <2>1. /\ frames_confirmed \in Nat /\ job.frames_dispatched \in Nat /\ CheckpointEvery \in Nat
        /\ frames_confirmed <= job.frames_dispatched + CheckpointEvery
    BY CheckpointEveryAssumption DEF TypeInv, TypeOK, Progress, LagInv
  <2>2. QED
    BY <2>1 DEF CheckpointLag
<1>2. TypeInv /\ TypeInv' /\ LagInv(w) /\ [Next]_vars => LagInv(w)'
  BY <1>0, LagStep
<1>3. Init => LagInv(w)
  BY <1>0, LagInit
<1>4. QED
  BY <1>1, <1>2, <1>3, TypeInit, TypeStep, PTL DEF Spec

\* The record that a run with one publisher writes never moves backwards.
THEOREM OnePublisherMonotone ==
    ASSUME Cardinality(Workers) = 1
    PROVE  Spec => CheckpointMonotone
<1> DEFINE Forward == /\ job'.last_source_index >= job.last_source_index
                      /\ job'.frames_dispatched >= job.frames_dispatched
<1>1. PICK w : Workers = {w}
  BY WorkersAssumption, FS_Singleton
<1>2. TypeInv /\ TypeInv' /\ LagInv(w) /\ [Next]_vars => LagInv(w)' /\ [Forward]_job
  BY <1>1, LagStep
<1>3. Init => LagInv(w)
  BY <1>1, LagInit
<1>4. QED
  BY <1>2, <1>3, TypeInit, TypeStep, PTL DEF Spec, CheckpointMonotone

-----------------------------------------------------------------------------
(* The run implements the ledger its caller relies on (DispatchLedger).   *)

\* A checkpoint that is about to be written points at a confirmed frame of this
\* run and counts from the record the run resumes up to what was confirmed.
SnapInv ==
    /\ confirmed # {} => last_source_index \in confirmed
    /\ \A w \in Workers : worker[w] = "checkpoint" =>
          /\ snap[w].last_source_index \in confirmed
          /\ snap[w].frames_dispatched \in prior.frames_dispatched .. frames_confirmed
          /\ snap[w].frames_failed \in prior.frames_failed .. frames_failed
    /\ watchdog => main = "decoding"

\* A run starts with no checkpoint under way.
LEMMA SnapInit == Init => SnapInv
BY DEF Init, SnapInv

\* The counters of a run are naturals that start at those of the record it resumes.
LEMMA Counters ==
    ASSUME IInv
    PROVE  /\ prior.frames_dispatched \in Nat /\ prior.frames_failed \in Nat
           /\ prior.last_source_index \in Int /\ NumFrames \in Nat
           /\ frames_confirmed \in Nat /\ frames_confirmed >= prior.frames_dispatched
           /\ frames_failed \in Nat /\ frames_failed >= prior.frames_failed
<1>1. /\ prior \in Progress /\ frames_confirmed \in Nat /\ frames_failed \in Nat
      /\ confirmed \subseteq Frames /\ undecodable \subseteq Frames
  BY PriorsAssumption DEF IInv, TypeInv, TypeOK
<1>2. Cardinality(confirmed) \in Nat /\ Cardinality(undecodable) \in Nat
  BY <1>1, FiniteFrames
<1>3. /\ frames_confirmed = prior.frames_dispatched + Cardinality(confirmed)
      /\ frames_failed = prior.frames_failed + Cardinality(undecodable)
  BY DEF IInv, CoverageInv, Counted
<1>4. QED
  BY <1>1, <1>2, <1>3, NumFramesAssumption DEF Progress

\* No step lets a pending checkpoint point anywhere else or count too much.
LEMMA SnapStep == IInv /\ IInv' /\ CheckpointInv /\ SnapInv /\ [Next]_vars => SnapInv'
<1> SUFFICES ASSUME IInv, IInv', CheckpointInv, SnapInv, [Next]_vars PROVE SnapInv'
  OBVIOUS
<1>t. /\ DOMAIN worker = Workers /\ DOMAIN snap = Workers
      /\ \A w \in Workers : snap[w] \in Progress
  BY DEF IInv, TypeInv, TypeOK
<1>1. ASSUME NEW w \in Workers, Publisher(w) PROVE SnapInv'
  <2>0. UNCHANGED <<prior, frames_failed, main, watchdog>>
    BY <1>1 DEF Publisher, mainVars
  <2>1. CASE TakeFrame(w) \/ DrainFrame(w) \/ TakeStop(w) \/ StoreBlob(w) \/ BrokerAccepts(w)
             \/ SaveCheckpoint(w) \/ CallRaises(w)
    <3>1. /\ UNCHANGED <<last_source_index, frames_confirmed, confirmed>>
          /\ \A v \in Workers : worker'[v] = "checkpoint" =>
                worker[v] = "checkpoint" /\ snap'[v] = snap[v]
      BY <1>t, <2>1 DEF TakeFrame, DrainFrame, TakeStop, StoreBlob, BrokerAccepts,
         SaveCheckpoint, CallRaises, taskVars, stateVars, externalVars
    <3>2. QED
      BY <2>0, <3>1 DEF SnapInv
  <2>2. CASE Confirm(w)
    <3>1. /\ confirmed' = confirmed \cup {item[w]} /\ frames_confirmed' = frames_confirmed + 1
          /\ last_source_index' = HighestConfirmed(item[w])
          /\ \A v \in Workers : v # w => snap'[v] = snap[v] /\ worker'[v] = worker[v]
          /\ worker'[w] = "checkpoint" =>
                /\ snap'[w].last_source_index = last_source_index'
                /\ snap'[w].frames_dispatched = frames_confirmed'
                /\ snap'[w].frames_failed = frames_failed
      BY <1>t, <2>2 DEF Confirm
    <3>2. last_source_index' \in confirmed'
      <4>1. CASE confirmed = {}
        <5>1. last_source_index = prior.last_source_index
          BY <4>1 DEF CheckpointInv, Confirmable
        <5>2. item[w] \in Start .. Horizon - 1
          BY <2>2 DEF Confirm, IInv, TypeInv, Holding, PlaceInv, HeldPlaces
        <5>3. item[w] > last_source_index
          BY <5>1, <5>2, Counters DEF Start
        <5>4. QED
          BY <3>1, <5>3 DEF HighestConfirmed
      <4>2. CASE confirmed # {}
        BY <3>1, <4>2 DEF SnapInv, HighestConfirmed
      <4>3. QED
        BY <4>1, <4>2
    <3>3. /\ frames_confirmed' \in prior'.frames_dispatched .. frames_confirmed'
          /\ frames_failed' \in prior'.frames_failed .. frames_failed'
      <4>1. /\ prior.frames_dispatched \in Nat /\ prior.frames_failed \in Nat
            /\ frames_confirmed \in Nat /\ frames_confirmed >= prior.frames_dispatched
            /\ frames_failed \in Nat /\ frames_failed >= prior.frames_failed
        BY Counters
      <4>2. QED
        BY <2>0, <3>1, <4>1
    <3>4. ASSUME NEW v \in Workers, v # w, worker'[v] = "checkpoint"
          PROVE  /\ snap'[v].last_source_index \in confirmed'
                 /\ snap'[v].frames_dispatched \in prior'.frames_dispatched .. frames_confirmed'
                 /\ snap'[v].frames_failed \in prior'.frames_failed .. frames_failed'
      <4>1. snap'[v] = snap[v] /\ worker[v] = "checkpoint" /\ frames_confirmed \in Nat
        BY <3>1, <3>4, Counters
      <4>2. QED
        BY <2>0, <3>1, <4>1, Counters DEF SnapInv
    <3>5. ASSUME worker'[w] = "checkpoint"
          PROVE  /\ snap'[w].last_source_index \in confirmed'
                 /\ snap'[w].frames_dispatched \in prior'.frames_dispatched .. frames_confirmed'
                 /\ snap'[w].frames_failed \in prior'.frames_failed .. frames_failed'
      BY <2>0, <3>1, <3>2, <3>3, <3>5
    <3>6. watchdog' => main' = "decoding"
      BY <2>0 DEF SnapInv
    <3>7. QED
      BY <3>2, <3>4, <3>5, <3>6 DEF SnapInv
  <2>3. QED
    BY <1>1, <2>1, <2>2 DEF Publisher
<1>2. ASSUME DecodeThread PROVE SnapInv'
  <2>1. /\ UNCHANGED <<prior, worker, snap, last_source_index, frames_confirmed, confirmed,
                       main, watchdog>>
        /\ frames_failed' \in {frames_failed, frames_failed + 1}
    BY <1>2 DEF DecodeThread, SeesAbort, SeesNoAbort, EndOfStream, DecodeRaises, YieldsFrame,
       YieldsFailure, PutFrame, taskVars, stateVars, mainVars, externalVars
  <2>2. \A w \in Workers : worker[w] = "checkpoint" =>
           snap[w].frames_failed \in prior.frames_failed .. frames_failed'
    BY <2>1, Counters DEF SnapInv
  <2>3. QED
    BY <2>1, <2>2 DEF SnapInv
<1>3. ASSUME ClientHangsUp \/ WatchdogPolls \/ Run \/ UNCHANGED vars PROVE SnapInv'
  <2>1. UNCHANGED <<prior, worker, snap, last_source_index, frames_confirmed, frames_failed,
                    confirmed>>
    BY <1>3 DEF ClientHangsUp, WatchdogPolls, Run, vars, taskVars, stateVars, externalVars
  <2>2. watchdog' => main' = "decoding"
    BY <1>3 DEF SnapInv, ClientHangsUp, WatchdogPolls, Run, DecodeReturns, PutSentinel,
       GatherPublishers, vars, mainVars
  <2>3. QED
    BY <2>1, <2>2 DEF SnapInv
<1>4. QED
  BY <1>1, <1>2, <1>3 DEF Next, Finished

-----------------------------------------------------------------------------
(* Every step of the run is a step of the ledger, or none.                 *)

LedgerInv == Bounds /\ SnapInv

\* What the ledger needs is an invariant.
LEMMA LedgerInductive == Spec => []LedgerInv
<1>1. LedgerInv /\ Bounds' /\ [Next]_vars => LedgerInv'
  BY SnapStep DEF LedgerInv, Bounds
<1>2. QED
  BY <1>1, SnapInit, BoundsInductive, PTL DEF Spec, LedgerInv

\* A run starts with an open ledger.
LEMMA LedgerInit == Init => Ledger!Init
BY DEF Init, Ledger!Init, Outcome

\* Where run() is decides whether the ledger is open.
LEMMA StillRunning ==
    /\ main \in {"decoding", "stopping"} => Outcome = "running"
    /\ main' \in {"decoding", "stopping"} => Outcome' = "running"
BY DEF Outcome

\* Once run() is over neither the thread nor a publisher nor the watchdog is left.
LEMMA NothingLeft ==
    ASSUME LedgerInv, main \notin {"decoding", "stopping"}, [Next]_vars
    PROVE  UNCHANGED vars
<1>1. /\ decoder \in {"done", "raised"} /\ \A w \in Workers : worker[w] = "stopped"
      /\ ~watchdog
  BY DEF LedgerInv, Bounds, IInv, TypeInv, TypeOK, SentinelInv, SnapInv
<1>2. ~DecodeThread
  BY <1>1 DEF DecodeThread, SeesAbort, SeesNoAbort, EndOfStream, DecodeRaises, YieldsFrame,
     YieldsFailure, PutFrame
<1>3. \A w \in Workers : ~Publisher(w)
  BY <1>1 DEF Publisher, TakeFrame, DrainFrame, TakeStop, StoreBlob, BrokerAccepts, Confirm,
     SaveCheckpoint, CallRaises
<1>4. ~ClientHangsUp /\ ~WatchdogPolls /\ ~Run
  BY <1>1 DEF ClientHangsUp, WatchdogPolls, Run, DecodeReturns, PutSentinel, GatherPublishers
<1>5. QED
  BY <1>2, <1>3, <1>4 DEF Next, Finished

\* The decode thread gives up a frame that was not sent, or leaves the ledger alone.
LEMMA DecodeStep ==
    ASSUME LedgerInv, main \in {"decoding", "stopping"}, DecodeThread
    PROVE  [Ledger!Next]_Ledger!vars
<1>1. /\ UNCHANGED <<prior, broker, confirmed, job, main>>
      /\ Outcome = "running" /\ Outcome' = Outcome
  BY StillRunning DEF DecodeThread, mainVars, externalVars
<1>2. CASE YieldsFailure
  <2>1. /\ decoder = "grab" /\ cursor < NumFrames /\ undecodable' = undecodable \cup {cursor}
    BY <1>2 DEF YieldsFailure
  <2>2. /\ cursor \in Int /\ cursor >= Start /\ prior.last_source_index \in Int
        /\ NumFrames \in Nat /\ Horizon = cursor
    BY <2>1, Counters DEF LedgerInv, Bounds, IInv, TypeInv, TypeOK, CursorPastStart, Start, Horizon
  <2>3. References \subseteq Start .. Horizon - 1 /\ undecodable \subseteq Start .. Horizon - 1
    BY DEF LedgerInv, Bounds, IInv, PlaceInv, SentPlaces, ConfirmedPlaces
  <2>4. cursor \in Ledger!Owed(NumFrames) /\ cursor \notin References \cup undecodable
    BY <2>1, <2>2, <2>3 DEF Start, Ledger!Owed
  <2>5. Ledger!Skip(cursor)
    BY <1>1, <2>1, <2>4 DEF Ledger!Skip, Ledger!Accepted, References
  <2>6. QED
    BY <1>1, <2>4, <2>5 DEF Ledger!Next
<1>3. CASE ~YieldsFailure
  BY <1>1, <1>3 DEF DecodeThread, SeesAbort, SeesNoAbort, EndOfStream, DecodeRaises,
     YieldsFrame, PutFrame, Ledger!vars
<1>4. QED
  BY <1>2, <1>3

\* The ledger counts as the run does: an instance has its own copy of FiniteSets.
LEMMA SameCardinality == \A S : Ledger!Cardinality(S) = Cardinality(S)
BY DEF Ledger!Cardinality, Cardinality, Ledger!IsFiniteSet, IsFiniteSet

\* A pending checkpoint is one that the ledger allows.
LEMMA SnapAllowed ==
    ASSUME LedgerInv, main \in {"decoding", "stopping"}, NEW w \in Workers,
           worker[w] = "checkpoint", job' = snap[w],
           UNCHANGED <<prior, broker, confirmed, undecodable, main>>
    PROVE  [Ledger!Next]_Ledger!vars
<1>1. /\ frames_confirmed = prior.frames_dispatched + Cardinality(confirmed)
      /\ frames_failed = prior.frames_failed + Cardinality(undecodable)
  BY DEF LedgerInv, Bounds, IInv, CoverageInv, Counted
<1>2. Outcome = "running" /\ Outcome' = Outcome
  BY StillRunning
<1>3. Ledger!Checkpoint
  <2>1. /\ snap[w].last_source_index \in confirmed
        /\ snap[w].frames_dispatched \in prior.frames_dispatched .. frames_confirmed
        /\ snap[w].frames_failed \in prior.frames_failed .. frames_failed
    BY DEF LedgerInv, SnapInv
  <2>2. QED
    BY <1>1, <1>2, <2>1, SameCardinality DEF Ledger!Checkpoint
<1>4. QED
  BY <1>2, <1>3 DEF Ledger!Next

\* A publisher accepts, confirms or checkpoints as the ledger allows.
LEMMA PublisherStep ==
    ASSUME LedgerInv, main \in {"decoding", "stopping"}, NEW w \in Workers, Publisher(w)
    PROVE  [Ledger!Next]_Ledger!vars
<1>1. /\ UNCHANGED <<prior, undecodable, main>>
      /\ Outcome = "running" /\ (UNCHANGED error => Outcome' = Outcome)
      /\ Outcome' = "running"
  BY StillRunning DEF Publisher, mainVars, decoderVars
<1>2. CASE TakeFrame(w) \/ DrainFrame(w) \/ TakeStop(w) \/ StoreBlob(w)
  BY <1>1, <1>2 DEF TakeFrame, DrainFrame, TakeStop, StoreBlob, externalVars, Ledger!vars
<1>i. /\ \A f \in Start .. Horizon - 1 : f \in Ledger!Owed(NumFrames)
      /\ item[w] # STOP => item[w] \in Start .. Horizon - 1 /\ item[w] \notin undecodable
      /\ References \subseteq Start .. Horizon - 1
      /\ worker[w] \in {"store", "publish", "confirm"} => item[w] # STOP
      /\ item[w] \in References => worker[w] = "confirm"
      /\ worker[w] = "confirm" => item[w] \in References
      /\ item[w] \notin confirmed
  <2>1. /\ cursor \in Int /\ cursor <= NumFrames /\ prior.last_source_index \in Int
        /\ NumFrames \in Nat /\ Horizon \in Int /\ Horizon <= NumFrames
    BY Counters DEF LedgerInv, Bounds, IInv, TypeInv, TypeOK, Horizon
  <2>2. \A f \in Start .. Horizon - 1 : f \in Ledger!Owed(NumFrames)
    BY <2>1 DEF Start, Ledger!Owed
  <2>3. QED
    BY <2>2 DEF LedgerInv, Bounds, IInv, TypeInv, Holding, PlaceInv, HeldPlaces, SentPlaces,
       ConfirmedPlaces
<1>3. CASE BrokerAccepts(w)
  <2>1. /\ worker[w] = "publish" /\ broker' = Append(broker, item[w])
        /\ UNCHANGED <<confirmed, job>>
    BY <1>3 DEF BrokerAccepts
  <2>2. item[w] \in Ledger!Owed(NumFrames) /\ item[w] \notin References \cup undecodable
    BY <1>i, <2>1
  <2>3. Ledger!Accept(item[w])
    BY <1>1, <2>1, <2>2 DEF Ledger!Accept, Ledger!Accepted, References
  <2>4. QED
    BY <1>1, <2>2, <2>3 DEF Ledger!Next
<1>4. CASE Confirm(w)
  <2>1. /\ worker[w] = "confirm" /\ confirmed' = confirmed \cup {item[w]}
        /\ UNCHANGED <<broker, job>>
    BY <1>4 DEF Confirm
  <2>2. item[w] \in Ledger!Owed(NumFrames) /\ item[w] \in References \ confirmed
    BY <1>i, <2>1
  <2>3. Ledger!Confirm(item[w])
    BY <1>1, <2>1, <2>2 DEF Ledger!Confirm, Ledger!Accepted, References
  <2>4. QED
    BY <1>1, <2>2, <2>3 DEF Ledger!Next
<1>5. CASE SaveCheckpoint(w)
  BY <1>1, <1>5, SnapAllowed DEF SaveCheckpoint
<1>6. CASE CallRaises(w)
  <2>1. /\ UNCHANGED <<broker, confirmed>>
        /\ job' = job \/ (worker[w] = "checkpoint" /\ job' = snap[w])
    BY <1>6 DEF CallRaises
  <2>2. CASE job' = job
    BY <1>1, <2>1, <2>2 DEF Ledger!vars
  <2>3. CASE worker[w] = "checkpoint" /\ job' = snap[w]
    BY <1>1, <2>1, <2>3, SnapAllowed
  <2>4. QED
    BY <2>1, <2>2, <2>3
<1>7. QED
  BY <1>2, <1>3, <1>4, <1>5, <1>6 DEF Publisher

\* run() closes the ledger when the publishers are gathered, and only then.
LEMMA RunStep ==
    ASSUME LedgerInv, LedgerInv', main \in {"decoding", "stopping"}, Run
    PROVE  [Ledger!Next]_Ledger!vars
<1>1. UNCHANGED <<prior, broker, confirmed, undecodable, job, error, abort, cursor, decoder, worker>>
      /\ Outcome = "running"
  BY StillRunning DEF Run, decoderVars, taskVars, stateVars, externalVars
<1>2. CASE DecodeReturns \/ PutSentinel
  <2>1. main' \in {"decoding", "stopping"}
    BY <1>2 DEF DecodeReturns, PutSentinel
  <2>2. QED
    BY <1>1, <2>1, StillRunning DEF Ledger!vars
<1>3. CASE GatherPublishers
  <2>1. main' \in {"raised", "returned"}
    BY <1>3 DEF GatherPublishers
  <2>2. CASE main' = "raised" \/ error
    <3>1. Outcome' \in {"error", "raised"}
      BY <1>1, <2>1, <2>2 DEF Outcome
    <3>2. Ledger!End
      BY <1>1, <3>1 DEF Ledger!End
    <3>3. QED
      BY <1>1, <3>2 DEF Ledger!Next
  <2>3. CASE main' = "returned" /\ ~error
    <3>1. DispatchComplete'
      BY ReturnComplete, PTL DEF LedgerInv, Bounds
    <3>2. /\ confirmed \cup undecodable = prior.last_source_index + 1 .. cursor - 1
          /\ confirmed \subseteq References
          /\ ~abort => cursor = NumFrames
      BY <1>1, <2>3, <3>1 DEF DispatchComplete, References
    <3>3. References \subseteq Start .. cursor - 1 /\ References \cap undecodable = {}
      <4>1. decoder # "put"
        BY <1>3 DEF GatherPublishers, LedgerInv, Bounds, IInv, SentinelInv
      <4>2. QED
        BY <4>1 DEF LedgerInv, Bounds, IInv, PlaceInv, SentPlaces, Horizon
    <3>4. References = confirmed
      BY <3>2, <3>3 DEF Start
    <3>5. Ledger!Settled(cursor)
      BY <3>2, <3>4 DEF Ledger!Settled, Ledger!Owed, Ledger!Accepted, References
    <3>6. cursor \in prior.last_source_index + 1 .. NumFrames
      BY Counters DEF LedgerInv, Bounds, IInv, TypeInv, TypeOK, CursorPastStart
    <3>7. Outcome' = IF abort THEN "aborted" ELSE "complete"
      BY <1>1, <2>3 DEF Outcome
    <3>8. Ledger!End
      <4>1. CASE abort
        BY <1>1, <3>5, <3>6, <3>7, <4>1 DEF Ledger!End
      <4>2. CASE ~abort
        BY <1>1, <3>2, <3>5, <3>7, <4>2 DEF Ledger!End
      <4>3. QED
        BY <4>1, <4>2
    <3>9. QED
      BY <1>1, <3>8 DEF Ledger!Next
  <2>4. QED
    BY <2>1, <2>2, <2>3
<1>4. QED
  BY <1>2, <1>3 DEF Run

\* Neither the client nor the watchdog touches the ledger.
LEMMA OtherStep ==
    ASSUME main \in {"decoding", "stopping"}, ClientHangsUp \/ WatchdogPolls
    PROVE  [Ledger!Next]_Ledger!vars
<1>1. UNCHANGED <<prior, broker, confirmed, undecodable, job, main>>
  BY DEF ClientHangsUp, WatchdogPolls, decoderVars, mainVars, externalVars
<1>2. QED
  BY <1>1, StillRunning DEF Ledger!vars

\* Refinement: whatever fails and however the tasks interleave, a dispatch run sends,
\* confirms, checkpoints and returns as the ledger says, for any number of publishers,
\* frames and queue slots and any record it resumes.
THEOREM LedgerImplemented == Spec => ImplementsLedger
<1>1. LedgerInv /\ LedgerInv' /\ [Next]_vars => [Ledger!Next]_Ledger!vars
  <2> SUFFICES ASSUME LedgerInv, LedgerInv', [Next]_vars PROVE [Ledger!Next]_Ledger!vars
    OBVIOUS
  <2>1. ASSUME UNCHANGED vars PROVE [Ledger!Next]_Ledger!vars
    BY <2>1 DEF vars, decoderVars, taskVars, stateVars, mainVars, externalVars, Ledger!vars, Outcome
  <2>2. CASE main \in {"decoding", "stopping"}
    BY <2>1, <2>2, DecodeStep, PublisherStep, RunStep, OtherStep DEF Next, Finished
  <2>3. CASE main \notin {"decoding", "stopping"}
    BY <2>1, <2>3, NothingLeft
  <2>4. QED
    BY <2>2, <2>3
<1>2. QED
  BY <1>1, LedgerInit, LedgerInductive, PTL DEF Spec, ImplementsLedger, Ledger!Spec
=============================================================================
