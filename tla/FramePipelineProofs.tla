------------------------- MODULE FramePipelineProofs -------------------------
EXTENDS FramePipeline, FiniteSetTheorems, TLAPS

\* A publisher holds a frame exactly while a call for it is outstanding.
Holding ==
    \A w \in Workers :
        worker[w] \in {"store", "publish", "confirm"} <=> item[w] # STOP

\* The sampler is never behind its first slot, and past it with a frame in hand.
CursorPastStart ==
    /\ cursor >= prior.last_source_index + 1
    /\ decoder = "put" => cursor > prior.last_source_index + 1

TypeInv == TypeOK /\ Holding /\ CursorPastStart

\* There is at least one publisher, and finitely many.
LEMMA CardinalityWorkers == Cardinality(Workers) \in Nat \ {0}
BY FS_CardinalityType, FS_EmptySet, WorkersAssumption

\* A run starts with every variable in its range.
LEMMA TypeInit == Init => TypeInv
<1> SUFFICES ASSUME Init PROVE TypeInv OBVIOUS
<1> USE DEF Init, STOP, FirstSlot, SeededFrom
<1>1. /\ prior \in Priors /\ prior \in Progress
      /\ prior.frames_dispatched \in Nat /\ prior.frames_failed \in Nat
      /\ prior.last_source_index \in -1 .. NumFrames - 1
  BY PriorsAssumption DEF Progress
<1>2. NoPrior \in Progress
  BY DEF NoPrior, Progress
<1>3. TypeOK
  <2>1. queue \in Seq(Frames \cup {STOP}) /\ Len(queue) <= QueueSize /\ broker \in Seq(Frames)
    BY QueueSizeAssumption
  <2>2. item \in [Workers -> Frames \cup {STOP}] /\ snap \in [Workers -> Progress]
    BY <1>2
  <2>3. cursor \in 0 .. NumFrames /\ stops \in 0 .. Cardinality(Workers)
        /\ since_checkpoint \in 0 .. CheckpointEvery - 1
    BY <1>1, CardinalityWorkers, NumFramesAssumption, CheckpointEveryAssumption
  <2>4. QED
    BY <1>1, <2>1, <2>2, <2>3 DEF TypeOK
<1>4. Holding
  BY DEF Holding
<1>5. CursorPastStart
  BY <1>1, NumFramesAssumption DEF CursorPastStart
<1>6. QED
  BY <1>3, <1>4, <1>5 DEF TypeInv

\* No step takes a variable out of its range.
LEMMA TypeStep == TypeInv /\ [Next]_vars => TypeInv'
<1> SUFFICES ASSUME TypeInv, [Next]_vars PROVE TypeInv'
  OBVIOUS
<1> USE CardinalityWorkers, NumFramesAssumption, QueueSizeAssumption,
        CheckpointEveryAssumption
    DEF TypeInv, TypeOK, Holding, CursorPastStart, Frames, STOP
<1> USE DEF decoderVars, taskVars, stateVars, mainVars, externalVars
<1>0. prior \in Progress /\ prior.last_source_index \in -1 .. NumFrames - 1
  BY PriorsAssumption
<1>1. ASSUME DecodeThread PROVE TypeInv'
  <2> USE <1>0, <1>1 DEF DecodeThread
  <2>1. CASE SeesAbort
    BY <2>1 DEF SeesAbort
  <2>2. CASE SeesNoAbort
    BY <2>2 DEF SeesNoAbort
  <2>3. CASE EndOfStream
    BY <2>3 DEF EndOfStream
  <2>4. CASE DecodeRaises
    BY <2>4 DEF DecodeRaises
  <2>5. CASE YieldsFrame
    BY <2>5, SMTT(20) DEF YieldsFrame
  <2>6. CASE YieldsFailure
    BY <2>6, SMTT(20) DEF YieldsFailure
  <2>7. CASE PutFrame
    <3>1. queue' = Append(queue, cursor - 1) /\ Len(queue) < QueueSize /\ cursor - 1 \in Frames
      BY <2>7 DEF PutFrame, HasRoom, Enqueued
    <3>2. queue' \in Seq(Frames \cup {STOP}) /\ Len(queue') <= QueueSize
      BY <3>1
    <3>3. decoder' = "check" /\ UNCHANGED <<cursor, undecodable, frames_failed>>
      BY <2>7 DEF PutFrame
    <3>4. QED
      BY <3>2, <3>3
  <2>8. QED
    BY <2>1, <2>2, <2>3, <2>4, <2>5, <2>6, <2>7
<1>2. ASSUME NEW w \in Workers, Publisher(w) PROVE TypeInv'
  <2> USE <1>2 DEF Publisher
  <2>1. CASE TakeFrame(w)
    BY <2>1 DEF TakeFrame, Draining
  <2>2. CASE DrainFrame(w)
    BY <2>2 DEF DrainFrame
  <2>3. CASE TakeStop(w)
    BY <2>3, SMTT(20) DEF TakeStop
  <2>4. CASE StoreBlob(w)
    BY <2>4 DEF StoreBlob
  <2>5. CASE BrokerAccepts(w)
    BY <2>5 DEF BrokerAccepts
  <2>6. CASE Confirm(w)
    <3> USE <2>6 DEF Confirm
    <3>1. item[w] \in Frames
      OBVIOUS
    <3>2. HighestConfirmed(item[w]) \in -1 .. NumFrames - 1
      BY <3>1 DEF HighestConfirmed
    <3>3. frames_confirmed' \in Nat /\ last_source_index' \in -1 .. NumFrames - 1
      BY <3>2
    <3>4. snap' \in [Workers -> Progress]
      BY <3>3, SMTT(20) DEF Progress
    <3>5. since_checkpoint' \in 0 .. CheckpointEvery - 1
      BY DEF CheckpointDue
    <3>6. confirmed' \subseteq Frames
      BY <3>1
    <3>7. /\ worker' \in [Workers -> {"idle", "store", "publish", "confirm", "checkpoint", "stopped"}]
          /\ item' \in [Workers -> Frames \cup {STOP}]
          /\ Holding'
      OBVIOUS
    <3>8. QED
      BY <3>3, <3>4, <3>5, <3>6, <3>7
  <2>7. CASE SaveCheckpoint(w)
    <3>1. job' \in Progress /\ snap' \in [Workers -> Progress]
      BY <2>7 DEF SaveCheckpoint, NoPrior, Progress
    <3>2. /\ worker' \in [Workers -> {"idle", "store", "publish", "confirm", "checkpoint", "stopped"}]
          /\ Holding'
      BY <2>7 DEF SaveCheckpoint
    <3>3. UNCHANGED <<queue, item, stateVars, abort, stored, broker, confirmed>>
      BY <2>7 DEF SaveCheckpoint
    <3>4. QED
      BY <3>1, <3>2, <3>3
  <2>8. CASE CallRaises(w)
    <3> USE <2>8 DEF CallRaises
    <3>1. stored' \subseteq Frames
      OBVIOUS
    <3>2. job' \in Progress /\ snap' \in [Workers -> Progress]
      BY DEF NoPrior, Progress
    <3>3. /\ worker' \in [Workers -> {"idle", "store", "publish", "confirm", "checkpoint", "stopped"}]
          /\ item' \in [Workers -> Frames \cup {STOP}]
          /\ Holding'
      OBVIOUS
    <3>4. QED
      BY <3>1, <3>2, <3>3
  <2>9. QED
    BY <2>1, <2>2, <2>3, <2>4, <2>5, <2>6, <2>7, <2>8
<1>3. ASSUME ClientHangsUp \/ WatchdogPolls PROVE TypeInv'
  BY <1>3, ZenonT(30) DEF ClientHangsUp, WatchdogPolls
<1>4. ASSUME Run PROVE TypeInv'
  <2> USE <1>4 DEF Run
  <2>1. CASE DecodeReturns
    <3>1. stops' \in 0 .. Cardinality(Workers) /\ main' = "stopping" /\ watchdog' = FALSE
      BY <2>1 DEF DecodeReturns, SentinelsNeeded
    <3>2. UNCHANGED queue
      BY <2>1 DEF DecodeReturns
    <3>3. QED
      BY <3>1, <3>2
  <2>2. CASE PutSentinel
    BY <2>2 DEF PutSentinel, HasRoom, Enqueued
  <2>3. CASE GatherPublishers
    BY <2>3 DEF GatherPublishers
  <2>4. QED
    BY <2>1, <2>2, <2>3
<1>5. ASSUME UNCHANGED vars PROVE TypeInv'
  BY <1>5 DEF vars
<1>6. QED
  BY <1>1, <1>2, <1>3, <1>4, <1>5 DEF Next, Finished

-----------------------------------------------------------------------------
\* Sentinels enter the queue only after the decode thread has ended, so no frame
\* is ever behind one, and a publisher that has taken one leaves no frame there.
SentinelInv ==
    /\ main # "decoding" => decoder \in {"done", "raised"}
    /\ \A i \in 1 .. Len(queue) :
          queue[i] = STOP =>
            /\ main # "decoding"
            /\ \A j \in 1 .. Len(queue) : i < j => queue[j] = STOP
    /\ \A w \in Workers :
          worker[w] = "stopped" =>
            /\ main # "decoding"
            /\ \A i \in 1 .. Len(queue) : queue[i] = STOP
    /\ main \in {"returned", "raised"} => \A w \in Workers : worker[w] = "stopped"


\* Sentinels stay behind every frame of the queue, whatever the tasks do.
LEMMA SentinelStep == TypeInv /\ SentinelInv /\ [Next]_vars => SentinelInv'
<1> SUFFICES ASSUME TypeInv, SentinelInv, [Next]_vars PROVE SentinelInv'
  OBVIOUS
<1> USE DEF TypeInv, TypeOK, Holding, CursorPastStart, SentinelInv, Frames, STOP
<1> USE DEF decoderVars, taskVars, stateVars, mainVars, externalVars
<1>1. ASSUME DecodeThread PROVE SentinelInv'
  <2> USE <1>1 DEF DecodeThread
  <2>1. CASE SeesAbort
    BY <2>1 DEF SeesAbort
  <2>2. CASE SeesNoAbort
    BY <2>2 DEF SeesNoAbort
  <2>3. CASE EndOfStream
    BY <2>3 DEF EndOfStream
  <2>4. CASE DecodeRaises
    BY <2>4 DEF DecodeRaises
  <2>5. CASE YieldsFrame
    BY <2>5 DEF YieldsFrame
  <2>6. CASE YieldsFailure
    BY <2>6 DEF YieldsFailure
  <2>7. CASE PutFrame
    <3>1. main = "decoding" /\ \A i \in 1 .. Len(queue) : queue[i] # STOP
      BY <2>7 DEF PutFrame
    <3>2. \A i \in 1 .. Len(queue') : queue'[i] # STOP
      <4>1. queue' = Append(queue, cursor - 1) /\ queue \in Seq(Int) /\ cursor - 1 \in Int
        BY <2>7, NumFramesAssumption DEF PutFrame, Enqueued
      <4>2. cursor - 1 # STOP
        BY <2>7, PriorsAssumption, NumFramesAssumption DEF PutFrame
      <4>3. /\ Len(queue') = Len(queue) + 1 /\ queue'[Len(queue) + 1] = cursor - 1
            /\ \A i \in 1 .. Len(queue) : queue'[i] = queue[i]
        BY <4>1
      <4>4. \A i \in 1 .. Len(queue) + 1 : i \in 1 .. Len(queue) \/ i = Len(queue) + 1
        BY <4>1
      <4>5. QED
        BY <3>1, <4>2, <4>3, <4>4
    <3>3. \A w \in Workers : worker[w] # "stopped"
      BY <3>1
    <3>4. QED
      BY <2>7, <3>1, <3>2, <3>3 DEF PutFrame
  <2>8. QED
    BY <2>1, <2>2, <2>3, <2>4, <2>5, <2>6, <2>7
<1>2. ASSUME NEW w \in Workers, Publisher(w) PROVE SentinelInv'
  <2> USE <1>2 DEF Publisher
  <2>1. CASE TakeFrame(w)
    BY <2>1 DEF TakeFrame, Draining
  <2>2. CASE DrainFrame(w)
    BY <2>2 DEF DrainFrame, Draining
  <2>3. CASE TakeStop(w)
    BY <2>3 DEF TakeStop
  <2>4. CASE StoreBlob(w)
    BY <2>4 DEF StoreBlob
  <2>5. CASE BrokerAccepts(w)
    BY <2>5 DEF BrokerAccepts
  <2>6. CASE Confirm(w)
    BY <2>6 DEF Confirm, HighestConfirmed, CheckpointDue
  <2>7. CASE SaveCheckpoint(w)
    BY <2>7 DEF SaveCheckpoint
  <2>8. CASE CallRaises(w)
    BY <2>8 DEF CallRaises
  <2>9. QED
    BY <2>1, <2>2, <2>3, <2>4, <2>5, <2>6, <2>7, <2>8
<1>3. ASSUME ClientHangsUp \/ WatchdogPolls PROVE SentinelInv'
  BY <1>3 DEF ClientHangsUp, WatchdogPolls
<1>4. ASSUME Run PROVE SentinelInv'
  <2> USE <1>4 DEF Run
  <2>1. CASE DecodeReturns
    BY <2>1 DEF DecodeReturns, SentinelsNeeded
  <2>2. CASE PutSentinel
    BY <2>2 DEF PutSentinel, HasRoom, Enqueued
  <2>3. CASE GatherPublishers
    BY <2>3 DEF GatherPublishers
  <2>4. QED
    BY <2>1, <2>2, <2>3
<1>5. ASSUME UNCHANGED vars PROVE SentinelInv'
  BY <1>5 DEF vars
<1>6. QED
  BY <1>1, <1>2, <1>3, <1>4, <1>5 DEF Next, Finished

-----------------------------------------------------------------------------
\* The frames the decode thread has let go of are those below the horizon.
Start == prior.last_source_index + 1
Horizon == IF decoder = "put" THEN cursor - 1 ELSE cursor

Elements(s) == {s[i] : i \in DOMAIN s}
Queued == Elements(queue) \ {STOP}

\* The frames of s, sentinels aside, are in video order.
InOrder(s) ==
    \A i, j \in DOMAIN s : i < j /\ s[i] # STOP /\ s[j] # STOP => s[i] < s[j]
NoRepeat(s) == \A i, j \in DOMAIN s : s[i] = s[j] => i = j

\* A frame let go of is in one place: reported undecodable, in the queue, with
\* one publisher, or sent.  The queue is in video order, and what has left it is
\* earlier in the video than what is still there.
QueuePlaces ==
    /\ Queued \subseteq Start .. Horizon - 1
    /\ Queued \cap undecodable = {}
    /\ InOrder(queue)

HeldPlaces ==
    /\ \A w \in Workers : item[w] # STOP =>
          /\ item[w] \in Start .. Horizon - 1 /\ item[w] \notin undecodable
          /\ \A f \in Queued : item[w] < f
    /\ \A v, w \in Workers : item[v] = item[w] /\ item[w] # STOP => v = w

SentPlaces ==
    /\ References \subseteq Start .. Horizon - 1
    /\ References \cap undecodable = {}
    /\ \A r \in References, f \in Queued : r < f
    /\ NoRepeat(broker)
    /\ \A w \in Workers : item[w] \in References => worker[w] = "confirm"

ConfirmedPlaces ==
    /\ \A w \in Workers : worker[w] = "confirm" => item[w] \in References
    /\ confirmed \subseteq References
    /\ \A w \in Workers : item[w] \notin confirmed
    /\ undecodable \subseteq Start .. Horizon - 1

PlaceInv == QueuePlaces /\ HeldPlaces /\ SentPlaces /\ ConfirmedPlaces

\* What queue.put and a publish do to a sequence, told through sets of its elements.
LEMMA AppendFacts ==
    ASSUME NEW s \in Seq(Int), NEW x \in Int
    PROVE  /\ Elements(Append(s, x)) = Elements(s) \cup {x}
           /\ InOrder(s) /\ (x = STOP \/ \A f \in Elements(s) \ {STOP} : f < x)
                => InOrder(Append(s, x))
           /\ NoRepeat(s) /\ x \notin Elements(s) => NoRepeat(Append(s, x))
<1>1. /\ Len(s) \in Nat /\ DOMAIN s = 1 .. Len(s) /\ DOMAIN Append(s, x) = 1 .. Len(s) + 1
      /\ Append(s, x)[Len(s) + 1] = x
      /\ \A i \in 1 .. Len(s) : Append(s, x)[i] = s[i] /\ s[i] \in Int
  OBVIOUS
<1>2. \A i \in DOMAIN Append(s, x) : i \in DOMAIN s \/ i = Len(s) + 1
  BY <1>1
<1>3. Elements(Append(s, x)) = Elements(s) \cup {x}
  BY <1>1, <1>2 DEF Elements
<1>4. ASSUME InOrder(s), x = STOP \/ \A f \in Elements(s) \ {STOP} : f < x
      PROVE  InOrder(Append(s, x))
  BY <1>1, <1>2, <1>4 DEF InOrder, Elements
<1>5. ASSUME NoRepeat(s), x \notin Elements(s) PROVE NoRepeat(Append(s, x))
  BY <1>1, <1>2, <1>5 DEF NoRepeat, Elements
<1>6. QED
  BY <1>3, <1>4, <1>5

\* What queue.get does to a sequence, told likewise.
LEMMA TailFacts ==
    ASSUME NEW s \in Seq(Int), s # << >>
    PROVE  /\ Elements(s) = Elements(Tail(s)) \cup {Head(s)}
           /\ Head(s) \in Int
           /\ InOrder(s) => InOrder(Tail(s))
           /\ InOrder(s) /\ Head(s) # STOP => \A f \in Elements(Tail(s)) \ {STOP} : Head(s) < f
<1>1. /\ Len(s) \in Nat \ {0} /\ DOMAIN s = 1 .. Len(s) /\ DOMAIN Tail(s) = 1 .. Len(s) - 1
      /\ s[1] = Head(s)
      /\ \A i \in 1 .. Len(s) - 1 : Tail(s)[i] = s[i + 1]
      /\ \A i \in 1 .. Len(s) : s[i] \in Int
  OBVIOUS
<1>2. \A i \in DOMAIN s : i = 1 \/ (i - 1 \in DOMAIN Tail(s) /\ s[i] = Tail(s)[i - 1])
  BY <1>1
<1>3. Elements(s) = Elements(Tail(s)) \cup {Head(s)}
  <2>1. ASSUME NEW x \in Elements(s) PROVE x \in Elements(Tail(s)) \cup {Head(s)}
    <3>1. PICK i \in DOMAIN s : x = s[i]
      BY DEF Elements
    <3>2. CASE i = 1
      BY <1>1, <3>1, <3>2
    <3>3. CASE i - 1 \in DOMAIN Tail(s) /\ s[i] = Tail(s)[i - 1]
      BY <3>1, <3>3 DEF Elements
    <3>4. QED
      BY <1>2, <3>2, <3>3
  <2>2. Elements(Tail(s)) \cup {Head(s)} \subseteq Elements(s)
    BY <1>1 DEF Elements
  <2>3. QED
    BY <2>1, <2>2
<1>4. ASSUME InOrder(s) PROVE InOrder(Tail(s))
  <2> SUFFICES ASSUME NEW i \in DOMAIN Tail(s), NEW j \in DOMAIN Tail(s),
                      i < j, Tail(s)[i] # STOP, Tail(s)[j] # STOP
               PROVE  Tail(s)[i] < Tail(s)[j]
    BY DEF InOrder
  <2>1. /\ Tail(s)[i] = s[i + 1] /\ Tail(s)[j] = s[j + 1] /\ i + 1 < j + 1
        /\ i + 1 \in DOMAIN s /\ j + 1 \in DOMAIN s
    BY <1>1, SMTT(20)
  <2>2. QED
    BY <1>4, <2>1 DEF InOrder
<1>5. ASSUME InOrder(s), Head(s) # STOP, NEW f \in Elements(Tail(s)) \ {STOP} PROVE Head(s) < f
  <2>1. PICK i \in DOMAIN Tail(s) : f = Tail(s)[i]
    BY <1>5 DEF Elements
  <2>2. f = s[i + 1] /\ i + 1 \in DOMAIN s /\ 1 < i + 1 /\ 1 \in DOMAIN s
    BY <1>1, <2>1
  <2>3. QED
    BY <1>1, <1>5, <2>2 DEF InOrder
<1>6. QED
  BY <1>1, <1>3, <1>4, <1>5

\* No step puts a frame into a second place, or the queue out of video order.
LEMMA PlaceStep == TypeInv /\ PlaceInv /\ [Next]_vars => PlaceInv'
<1> SUFFICES ASSUME TypeInv, PlaceInv, [Next]_vars PROVE PlaceInv'
  OBVIOUS
<1>t. /\ queue \in Seq(Int) /\ broker \in Seq(Int)
      /\ item \in [Workers -> Int] /\ DOMAIN worker = Workers
      /\ cursor \in Int /\ Start \in Nat
      /\ cursor >= Start /\ (decoder = "put" => cursor > Start)
      /\ \A w \in Workers : worker[w] \in {"store", "publish", "confirm"} <=> item[w] # STOP
  BY PriorsAssumption, NumFramesAssumption
     DEF TypeInv, TypeOK, Holding, CursorPastStart, Frames, STOP, Start
<1>u. QueuePlaces /\ HeldPlaces /\ SentPlaces /\ ConfirmedPlaces /\ STOP = -1
  BY DEF PlaceInv, STOP
<1>v. References = Elements(broker) /\ References' = Elements(broker')
  BY DEF References, Elements
<1> USE <1>t, <1>u, <1>v
<1>1. ASSUME DecodeThread PROVE PlaceInv'
  <2>0. UNCHANGED <<prior, worker, item, broker, confirmed>> /\ Start' = Start
    BY <1>1 DEF DecodeThread, taskVars, externalVars, Start
  <2> USE <2>0
  <2>1. CASE SeesAbort \/ SeesNoAbort \/ EndOfStream \/ DecodeRaises \/ YieldsFrame
    <3>1. UNCHANGED <<queue, undecodable>> /\ Horizon' = Horizon
      BY <2>1 DEF SeesAbort, SeesNoAbort, EndOfStream, DecodeRaises, YieldsFrame, Horizon
    <3>2. QED
      BY <3>1 DEF PlaceInv, Queued, QueuePlaces, HeldPlaces, SentPlaces, ConfirmedPlaces
  <2>2. CASE YieldsFailure
    <3>1. /\ Horizon = cursor /\ Horizon' = cursor + 1 /\ UNCHANGED queue
          /\ undecodable' = undecodable \cup {cursor}
      BY <2>2 DEF YieldsFailure, Horizon
    <3>2. QueuePlaces'
      BY <3>1 DEF QueuePlaces, Queued
    <3>3. HeldPlaces'
      BY <3>1 DEF HeldPlaces, Queued
    <3>4. SentPlaces'
      BY <3>1 DEF SentPlaces, Queued
    <3>5. ConfirmedPlaces'
      BY <3>1 DEF ConfirmedPlaces
    <3>6. QED
      BY <3>2, <3>3, <3>4, <3>5 DEF PlaceInv
  <2>3. CASE PutFrame
    <3>1. queue' = Append(queue, cursor - 1) /\ cursor - 1 \in Int
      BY <2>3 DEF PutFrame, Enqueued
    <3>2. Horizon = cursor - 1 /\ Horizon' = cursor /\ UNCHANGED undecodable
      BY <2>3 DEF PutFrame, Horizon
    <3>3. Queued' = Queued \cup {cursor - 1} /\ InOrder(queue')
      <4>1. cursor - 1 # STOP
        BY <2>3 DEF PutFrame
      <4>2. \A f \in Elements(queue) \ {STOP} : f < cursor - 1
        BY <3>2 DEF QueuePlaces, Queued
      <4>3. Elements(queue') = Elements(queue) \cup {cursor - 1} /\ InOrder(queue')
        BY <3>1, <4>2, AppendFacts DEF QueuePlaces
      <4>4. QED
        BY <4>1, <4>3 DEF Queued
    <3>4. QueuePlaces'
      <4>1. cursor - 1 \in Start .. cursor - 1 /\ cursor - 1 \notin undecodable
        BY <2>3, <3>2 DEF PutFrame, ConfirmedPlaces
      <4>2. QED
        BY <3>2, <3>3, <4>1 DEF QueuePlaces
    <3>5. HeldPlaces'
      BY <3>1, <3>2, <3>3 DEF HeldPlaces
    <3>6. SentPlaces'
      BY <3>1, <3>2, <3>3 DEF SentPlaces
    <3>7. ConfirmedPlaces'
      BY <3>1, <3>2, <3>3 DEF ConfirmedPlaces
    <3>8. QED
      BY <3>4, <3>5, <3>6, <3>7 DEF PlaceInv
  <2>4. QED
    BY <1>1, <2>1, <2>2, <2>3 DEF DecodeThread
<1>2. ASSUME NEW w \in Workers, Publisher(w) PROVE PlaceInv'
  <2>0. UNCHANGED undecodable /\ Start' = Start /\ Horizon' = Horizon
    BY <1>2 DEF Publisher, decoderVars, Start, Horizon
  <2> USE <2>0
  <2>1. CASE TakeFrame(w)
    <3>1. queue # << >> /\ queue' = Tail(queue)
      BY <2>1 DEF TakeFrame
    <3>2. /\ Head(queue) # STOP /\ Head(queue) \in Int
          /\ Queued = Queued' \cup {Head(queue)} /\ InOrder(queue')
          /\ \A f \in Queued' : Head(queue) < f
      BY <2>1, <3>1, TailFacts DEF TakeFrame, Queued, QueuePlaces
    <3>3. /\ worker[w] = "idle" /\ worker' = [worker EXCEPT ![w] = "store"]
          /\ item' = [item EXCEPT ![w] = Head(queue)] /\ UNCHANGED <<broker, confirmed>>
      BY <2>1 DEF TakeFrame, taskVars, externalVars
    <3>4. QueuePlaces'
      BY <3>1, <3>2, <3>3 DEF QueuePlaces
    <3>5. HeldPlaces'
      BY <3>1, <3>2, <3>3 DEF QueuePlaces, HeldPlaces
    <3>9. Head(queue) \notin References
      <4>1. Head(queue) \in Queued /\ ~(Head(queue) < Head(queue))
        BY <3>2
      <4>2. QED
        BY <4>1 DEF SentPlaces
    <3>10. \A v \in Workers : v # w => item'[v] = item[v] /\ worker'[v] = worker[v]
      BY <3>3
    <3>11. item'[w] = Head(queue) /\ worker'[w] = "store"
      BY <3>3
    <3>6. SentPlaces'
      BY <3>2, <3>3, <3>9, <3>10, <3>11 DEF SentPlaces
    <3>7. ConfirmedPlaces'
      <4>1. \A v \in Workers : worker'[v] = "confirm" => item'[v] \in References'
        BY <3>3, <3>10, <3>11 DEF ConfirmedPlaces
      <4>2. \A v \in Workers : item'[v] \notin confirmed'
        BY <3>3, <3>9, <3>10, <3>11 DEF ConfirmedPlaces
      <4>3. QED
        BY <3>3, <4>1, <4>2 DEF ConfirmedPlaces
    <3>8. QED
      BY <3>4, <3>5, <3>6, <3>7 DEF PlaceInv
  <2>2. CASE DrainFrame(w)
    <3>1. queue # << >> /\ queue' = Tail(queue)
      BY <2>2 DEF DrainFrame
    <3>2. Queued' \subseteq Queued /\ InOrder(queue')
      BY <2>2, <3>1, TailFacts DEF DrainFrame, Queued, QueuePlaces
    <3>3. UNCHANGED <<worker, item, broker, confirmed>>
      BY <2>2 DEF DrainFrame, taskVars, externalVars
    <3>4. QueuePlaces'
      BY <3>1, <3>2, <3>3 DEF QueuePlaces
    <3>5. HeldPlaces'
      BY <3>1, <3>2, <3>3 DEF HeldPlaces
    <3>6. SentPlaces'
      BY <3>1, <3>2, <3>3 DEF SentPlaces
    <3>7. ConfirmedPlaces'
      BY <3>1, <3>2, <3>3 DEF ConfirmedPlaces
    <3>8. QED
      BY <3>4, <3>5, <3>6, <3>7 DEF PlaceInv
  <2>3. CASE TakeStop(w)
    <3>1. queue # << >> /\ queue' = Tail(queue)
      BY <2>3 DEF TakeStop
    <3>2. Queued' \subseteq Queued /\ InOrder(queue')
      BY <2>3, <3>1, TailFacts DEF TakeStop, Queued, QueuePlaces
    <3>3. /\ worker[w] = "idle" /\ worker' = [worker EXCEPT ![w] = "stopped"]
          /\ UNCHANGED <<item, broker, confirmed>>
      BY <2>3 DEF TakeStop, taskVars, externalVars
    <3>4. QueuePlaces'
      BY <3>1, <3>2, <3>3 DEF QueuePlaces
    <3>5. HeldPlaces'
      BY <3>1, <3>2, <3>3 DEF HeldPlaces
    <3>6. SentPlaces'
      BY <3>1, <3>2, <3>3 DEF SentPlaces
    <3>7. ConfirmedPlaces'
      BY <3>1, <3>2, <3>3 DEF ConfirmedPlaces
    <3>8. QED
      BY <3>4, <3>5, <3>6, <3>7 DEF PlaceInv
  <2>4. CASE StoreBlob(w)
    <3>1. /\ worker[w] = "store" /\ worker' = [worker EXCEPT ![w] = "publish"]
          /\ UNCHANGED <<queue, item, broker, confirmed>>
      BY <2>4 DEF StoreBlob
    <3>2. QueuePlaces'
      BY <3>1 DEF QueuePlaces, Queued
    <3>3. HeldPlaces'
      BY <3>1 DEF HeldPlaces, Queued
    <3>4. SentPlaces'
      BY <3>1 DEF SentPlaces, Queued
    <3>5. ConfirmedPlaces'
      BY <3>1 DEF HeldPlaces, SentPlaces, ConfirmedPlaces
    <3>6. QED
      BY <3>2, <3>3, <3>4, <3>5 DEF PlaceInv
  <2>5. CASE BrokerAccepts(w)
    <3>1. broker' = Append(broker, item[w])
      BY <2>5 DEF BrokerAccepts
    <3>2. /\ worker[w] = "publish" /\ worker' = [worker EXCEPT ![w] = "confirm"]
          /\ UNCHANGED <<queue, item, confirmed>>
      BY <2>5 DEF BrokerAccepts
    <3>3. References' = References \cup {item[w]} /\ NoRepeat(broker') /\ item[w] # STOP
      BY <3>1, <3>2, AppendFacts DEF SentPlaces
    <3>4. QueuePlaces'
      BY <3>1, <3>2, <3>3 DEF QueuePlaces, Queued
    <3>5. HeldPlaces'
      BY <3>1, <3>2, <3>3 DEF HeldPlaces, Queued
    <3>6. SentPlaces'
      BY <3>1, <3>2, <3>3, ZenonT(30) DEF HeldPlaces, SentPlaces, Queued
    <3>7. ConfirmedPlaces'
      BY <3>1, <3>2, <3>3 DEF ConfirmedPlaces
    <3>8. QED
      BY <3>4, <3>5, <3>6, <3>7 DEF PlaceInv
  <2>6. CASE Confirm(w)
    <3>1. /\ worker[w] = "confirm" /\ confirmed' = confirmed \cup {item[w]}
          /\ \E p \in {"checkpoint", "idle"} : worker' = [worker EXCEPT ![w] = p]
          /\ item' = [item EXCEPT ![w] = STOP] /\ UNCHANGED <<queue, broker>>
      BY <2>6 DEF Confirm
    <3>2. QueuePlaces'
      BY <3>1 DEF QueuePlaces, Queued
    <3>3. HeldPlaces'
      BY <3>1 DEF HeldPlaces, Queued
    <3>4. SentPlaces'
      BY <3>1 DEF SentPlaces, Queued
    <3>5. ConfirmedPlaces'
      <4>1. /\ \A v \in Workers : v # w => item'[v] = item[v] /\ worker'[v] = worker[v]
            /\ item'[w] = STOP /\ worker'[w] # "confirm"
        BY <3>1
      <4>2. item[w] \in References /\ item[w] # STOP
        BY <3>1 DEF ConfirmedPlaces
      <4>3. \A v \in Workers : worker'[v] = "confirm" => item'[v] \in References'
        BY <3>1, <4>1 DEF ConfirmedPlaces
      <4>4. confirmed' \subseteq References' /\ undecodable' \subseteq Start' .. Horizon' - 1
        BY <3>1, <4>2 DEF ConfirmedPlaces
      <4>5. STOP \notin confirmed'
        BY <3>1, <4>2 DEF SentPlaces, ConfirmedPlaces
      <4>6. \A v \in Workers : v # w => item'[v] \notin confirmed'
        BY <3>1, <4>1, <4>2 DEF HeldPlaces, ConfirmedPlaces
      <4>7. QED
        BY <4>1, <4>3, <4>4, <4>5, <4>6 DEF ConfirmedPlaces
    <3>6. QED
      BY <3>2, <3>3, <3>4, <3>5 DEF PlaceInv
  <2>7. CASE SaveCheckpoint(w)
    <3>1. /\ worker[w] = "checkpoint" /\ worker' = [worker EXCEPT ![w] = "idle"]
          /\ UNCHANGED <<queue, item, broker, confirmed>>
      BY <2>7 DEF SaveCheckpoint
    <3>2. QueuePlaces'
      BY <3>1 DEF QueuePlaces, Queued
    <3>3. HeldPlaces'
      BY <3>1 DEF HeldPlaces, Queued
    <3>4. SentPlaces'
      BY <3>1 DEF SentPlaces, Queued
    <3>5. ConfirmedPlaces'
      BY <3>1 DEF HeldPlaces, SentPlaces, ConfirmedPlaces
    <3>6. QED
      BY <3>2, <3>3, <3>4, <3>5 DEF PlaceInv
  <2>8. CASE CallRaises(w)
    <3>1. /\ worker' = [worker EXCEPT ![w] = "idle"] /\ item' = [item EXCEPT ![w] = STOP]
          /\ UNCHANGED <<queue, broker, confirmed>>
      BY <2>8 DEF CallRaises
    <3>2. QueuePlaces'
      BY <3>1 DEF QueuePlaces, Queued
    <3>3. HeldPlaces'
      BY <3>1 DEF HeldPlaces, Queued
    <3>4. SentPlaces'
      BY <3>1 DEF SentPlaces, Queued
    <3>5. ConfirmedPlaces'
      BY <3>1 DEF HeldPlaces, SentPlaces, ConfirmedPlaces
    <3>6. QED
      BY <3>2, <3>3, <3>4, <3>5 DEF PlaceInv
  <2>9. QED
    BY <1>2, <2>1, <2>2, <2>3, <2>4, <2>5, <2>6, <2>7, <2>8 DEF Publisher
<1>3. ASSUME \/ ClientHangsUp \/ WatchdogPolls \/ UNCHANGED vars
             \/ Run /\ (DecodeReturns \/ GatherPublishers)
      PROVE  PlaceInv'
  <2>1. /\ UNCHANGED <<undecodable, queue, worker, item, broker, confirmed>>
        /\ Start' = Start /\ Horizon' = Horizon
    BY <1>3 DEF ClientHangsUp, WatchdogPolls, vars, Run, DecodeReturns, GatherPublishers,
       decoderVars, taskVars, externalVars, Start, Horizon
  <2>2. QED
    BY <2>1 DEF PlaceInv, Queued, QueuePlaces, HeldPlaces, SentPlaces, ConfirmedPlaces
<1>4. ASSUME Run PROVE PlaceInv'
  <2>0. /\ UNCHANGED <<undecodable, worker, item, broker, confirmed>>
        /\ Start' = Start /\ Horizon' = Horizon
    BY <1>4 DEF Run, decoderVars, taskVars, externalVars, Start, Horizon
  <2> USE <2>0
  <2>1. CASE PutSentinel
    <3>1. queue' = Append(queue, STOP) /\ STOP \in Int
      BY <2>1 DEF PutSentinel, Enqueued
    <3>2. TRUE
      BY <2>1 DEF PutSentinel
    <3>3. Queued' = Queued /\ InOrder(queue')
      BY <3>1, <3>2, AppendFacts DEF Queued, QueuePlaces
    <3>4. QueuePlaces'
      BY <3>1, <3>2, <3>3 DEF QueuePlaces
    <3>5. HeldPlaces'
      BY <3>1, <3>2, <3>3 DEF HeldPlaces
    <3>6. SentPlaces'
      BY <3>1, <3>2, <3>3 DEF SentPlaces
    <3>7. ConfirmedPlaces'
      BY <3>1, <3>2, <3>3 DEF ConfirmedPlaces
    <3>8. QED
      BY <3>4, <3>5, <3>6, <3>7 DEF PlaceInv
  <2>2. QED
    BY <1>3, <1>4, <2>1 DEF Run
<1>5. QED
  BY <1>1, <1>2, <1>3, <1>4 DEF Next, Finished

\* A run starts with an empty queue and every frame still to decode.
LEMMA OrderInit == Init => SentinelInv /\ PlaceInv
<1> SUFFICES ASSUME Init PROVE SentinelInv /\ PlaceInv
  OBVIOUS
<1>1. /\ queue = << >> /\ broker = << >> /\ confirmed = {} /\ undecodable = {}
      /\ \A w \in Workers : item[w] = STOP /\ worker[w] = "idle"
      /\ main = "decoding"
  BY DEF Init
<1>2. Queued = {} /\ References = {}
  BY <1>1 DEF Queued, References, Elements
<1>3. SentinelInv
  BY <1>1 DEF SentinelInv
<1>4. InOrder(queue) /\ NoRepeat(broker)
  BY <1>1 DEF InOrder, NoRepeat
<1>5. PlaceInv
  BY <1>1, <1>2, <1>4 DEF PlaceInv, QueuePlaces, HeldPlaces, SentPlaces, ConfirmedPlaces
<1>6. QED
  BY <1>3, <1>5

-----------------------------------------------------------------------------
\* A publisher that has stored its frame's blob still finds it in Redis.
BlobInv ==
    /\ References \subseteq stored
    /\ \A w \in Workers : worker[w] \in {"publish", "confirm"} => item[w] \in stored

\* No step publishes a frame whose blob is not stored.
LEMMA BlobStep == TypeInv /\ BlobInv /\ [Next]_vars => BlobInv'
<1> SUFFICES ASSUME TypeInv, BlobInv, [Next]_vars PROVE BlobInv'
  OBVIOUS
<1>t. broker \in Seq(Int) /\ item \in [Workers -> Int] /\ DOMAIN worker = Workers
  BY NumFramesAssumption DEF TypeInv, TypeOK, Frames, STOP
<1>v. References = Elements(broker) /\ References' = Elements(broker')
  BY DEF References, Elements
<1> USE <1>t, <1>v DEF BlobInv
<1>1. ASSUME NEW w \in Workers, Publisher(w) PROVE BlobInv'
  <2>1. CASE TakeFrame(w)
    <3>1. /\ worker' = [worker EXCEPT ![w] = "store"]
          /\ \A v \in Workers : v # w => item'[v] = item[v]
          /\ UNCHANGED <<stored, broker>>
      BY <2>1 DEF TakeFrame, externalVars
    <3>2. QED
      BY <3>1
  <2>2. CASE DrainFrame(w) \/ TakeStop(w) \/ SaveCheckpoint(w)
    <3>1. /\ \A v \in Workers : worker'[v] \in {worker[v], "stopped", "idle"}
          /\ UNCHANGED <<item, stored, broker>>
      BY <2>2 DEF DrainFrame, TakeStop, SaveCheckpoint, taskVars, externalVars
    <3>2. QED
      BY <3>1
  <2>3. CASE StoreBlob(w)
    BY <2>3 DEF StoreBlob
  <2>4. CASE BrokerAccepts(w)
    <3>1. broker' = Append(broker, item[w])
      BY <2>4 DEF BrokerAccepts
    <3>2. References' = References \cup {item[w]}
      BY <3>1, AppendFacts
    <3>3. QED
      BY <2>4, <3>2 DEF BrokerAccepts
  <2>5. CASE Confirm(w) \/ CallRaises(w)
    <3>1. /\ \A v \in Workers : v # w => item'[v] = item[v] /\ worker'[v] = worker[v]
          /\ worker'[w] \in {"idle", "checkpoint"}
          /\ stored \subseteq stored' /\ UNCHANGED broker
      BY <2>5 DEF Confirm, CallRaises
    <3>2. QED
      BY <3>1
  <2>6. QED
    BY <1>1, <2>1, <2>2, <2>3, <2>4, <2>5 DEF Publisher
<1>2. ASSUME DecodeThread \/ ClientHangsUp \/ WatchdogPolls \/ Run \/ UNCHANGED vars
      PROVE  BlobInv'
  <2>1. UNCHANGED <<worker, item, stored, broker>>
    BY <1>2 DEF DecodeThread, ClientHangsUp, WatchdogPolls, Run, vars, taskVars, externalVars
  <2>2. QED
    BY <2>1
<1>3. QED
  BY <1>1, <1>2 DEF Next, Finished

\* A run starts with nothing published.
LEMMA BlobInit == Init => BlobInv
BY DEF Init, BlobInv, References

-----------------------------------------------------------------------------
Held == {item[w] : w \in Workers}

\* Until something raises, every frame let go of is accounted for.
Covered == ~error => Start .. Horizon - 1 \subseteq undecodable \cup confirmed \cup Queued \cup Held

\* The two counters follow the frames they count.
Counted ==
    /\ frames_confirmed = prior.frames_dispatched + Cardinality(confirmed)
    /\ frames_failed = prior.frames_failed + Cardinality(undecodable)

\* The decode thread ends early only when it is told to.
Ended ==
    /\ decoder = "done" => abort \/ cursor = NumFrames
    /\ main = "returned" => decoder = "done"

CoverageInv == Covered /\ Counted /\ Ended

\* A video has finitely many frames, so the counters can be cardinalities.
LEMMA FiniteFrames ==
    ASSUME NEW S, S \subseteq Frames PROVE IsFiniteSet(S) /\ Cardinality(S) \in Nat
<1>1. IsFiniteSet(Frames)
  BY FS_Interval, NumFramesAssumption DEF Frames
<1>2. QED
  BY <1>1, FS_Subset, FS_CardinalityType

\* A run starts with its counters at those of the record it resumes.
LEMMA CoverageInit == Init => CoverageInv
<1> SUFFICES ASSUME Init PROVE CoverageInv
  OBVIOUS
<1>1. /\ prior \in Progress /\ confirmed = {} /\ undecodable = {} /\ decoder = "check"
      /\ main = "decoding" /\ cursor = prior.last_source_index + 1
      /\ frames_confirmed = prior.frames_dispatched /\ frames_failed = prior.frames_failed
  BY PriorsAssumption DEF Init, FirstSlot, SeededFrom
<1>2. prior.frames_dispatched \in Nat /\ prior.frames_failed \in Nat
      /\ prior.last_source_index \in Int
  BY <1>1 DEF Progress
<1>3. Covered
  BY <1>1, <1>2 DEF Covered, Start, Horizon
<1>4. Counted
  BY <1>1, <1>2, FS_EmptySet DEF Counted
<1>5. Ended
  BY <1>1 DEF Ended
<1>6. QED
  BY <1>3, <1>4, <1>5 DEF CoverageInv

\* Until something raises, no step drops a frame from the account or miscounts one.
LEMMA CoverageStep ==
    TypeInv /\ SentinelInv /\ PlaceInv /\ CoverageInv /\ [Next]_vars => CoverageInv'
<1> SUFFICES ASSUME TypeInv, SentinelInv, PlaceInv, CoverageInv, [Next]_vars
             PROVE  CoverageInv'
  OBVIOUS
<1>t. /\ queue \in Seq(Int) /\ item \in [Workers -> Int] /\ DOMAIN worker = Workers
      /\ cursor \in Int /\ Start \in Nat /\ cursor <= NumFrames /\ NumFrames \in Nat
      /\ confirmed \subseteq Frames /\ undecodable \subseteq Frames
      /\ prior.frames_dispatched \in Nat /\ prior.frames_failed \in Nat
  <2>1. Frames \cup {STOP} \subseteq Int
    BY NumFramesAssumption DEF Frames, STOP
  <2>2. queue \in Seq(Int) /\ item \in [Workers -> Int] /\ DOMAIN worker = Workers
    BY <2>1 DEF TypeInv, TypeOK
  <2>3. /\ Start \in Nat /\ prior.frames_dispatched \in Nat /\ prior.frames_failed \in Nat
    BY PriorsAssumption, NumFramesAssumption DEF TypeInv, TypeOK, Start, Progress
  <2>4. QED
    BY <2>2, <2>3, NumFramesAssumption DEF TypeInv, TypeOK
<1>s. main # "decoding" => decoder \in {"done", "raised"}
  BY DEF SentinelInv
<1>u. Covered /\ Counted /\ Ended /\ STOP = -1
  BY DEF CoverageInv, STOP
<1> USE <1>t, <1>s, <1>u
<1>1. ASSUME DecodeThread PROVE CoverageInv'
  <2>0. UNCHANGED <<prior, item, confirmed, error, frames_confirmed, main, abort>>
        /\ Start' = Start
    BY <1>1 DEF DecodeThread, taskVars, stateVars, mainVars, externalVars, Start
  <2> USE <2>0
  <2>1. CASE SeesAbort \/ SeesNoAbort \/ EndOfStream \/ DecodeRaises \/ YieldsFrame
    <3>1. UNCHANGED <<queue, undecodable, frames_failed>> /\ Horizon' = Horizon
      BY <2>1 DEF SeesAbort, SeesNoAbort, EndOfStream, DecodeRaises, YieldsFrame, Horizon
    <3>2. Covered' /\ Counted'
      BY <3>1 DEF Covered, Counted, Queued, Held
    <3>3. Ended'
      BY <2>1 DEF SeesAbort, SeesNoAbort, EndOfStream, DecodeRaises, YieldsFrame, Ended
    <3>4. QED
      BY <3>2, <3>3 DEF CoverageInv
  <2>2. CASE YieldsFailure
    <3>1. /\ Horizon = cursor /\ Horizon' = cursor + 1 /\ UNCHANGED queue
          /\ undecodable' = undecodable \cup {cursor} /\ frames_failed' = frames_failed + 1
          /\ decoder = "grab" /\ decoder' = "check"
      BY <2>2 DEF YieldsFailure, Horizon
    <3>2. cursor \notin undecodable
      BY <3>1 DEF PlaceInv, ConfirmedPlaces
    <3>3. Covered'
      BY <3>1 DEF Covered, Queued, Held
    <3>4. Counted'
      <4>1. IsFiniteSet(undecodable) /\ Cardinality(undecodable) \in Nat
        BY FiniteFrames
      <4>2. Cardinality(undecodable') = Cardinality(undecodable) + 1
        BY <3>1, <3>2, <4>1, FS_AddElement
      <4>3. QED
        BY <3>1, <4>1, <4>2 DEF Counted
    <3>5. Ended'
      BY <3>1 DEF Ended
    <3>6. QED
      BY <3>3, <3>4, <3>5 DEF CoverageInv
  <2>3. CASE PutFrame
    <3>1. queue' = Append(queue, cursor - 1) /\ cursor - 1 \in Int
      BY <2>3 DEF PutFrame, Enqueued
    <3>2. /\ Horizon = cursor - 1 /\ Horizon' = cursor
          /\ UNCHANGED <<undecodable, frames_failed>>
          /\ decoder = "put" /\ decoder' = "check"
      BY <2>3 DEF PutFrame, Horizon
    <3>3. Elements(queue') = Elements(queue) \cup {cursor - 1}
      BY <3>1, AppendFacts
    <3>4. Covered'
      BY <3>2, <3>3 DEF Covered, Queued, Held
    <3>5. Counted'
      BY <3>2 DEF Counted
    <3>6. Ended'
      BY <3>2 DEF Ended
    <3>7. QED
      BY <3>4, <3>5, <3>6 DEF CoverageInv
  <2>4. QED
    BY <1>1, <2>1, <2>2, <2>3 DEF DecodeThread
<1>2. ASSUME NEW w \in Workers, Publisher(w) PROVE CoverageInv'
  <2>0. /\ UNCHANGED <<prior, undecodable, frames_failed, decoder, cursor, main>>
        /\ Start' = Start /\ Horizon' = Horizon
    BY <1>2 DEF Publisher, decoderVars, mainVars, Start, Horizon
  <2> USE <2>0
  <2>1. (abort => abort') => Ended'
    BY DEF Ended
  <2>2. CASE TakeFrame(w) \/ DrainFrame(w) \/ TakeStop(w)
    <3>1. queue # << >> /\ queue' = Tail(queue) /\ UNCHANGED <<confirmed, error, abort, frames_confirmed>>
      BY <2>2 DEF TakeFrame, DrainFrame, TakeStop, stateVars, externalVars
    <3>2. Queued \subseteq Queued' \cup {Head(queue)}
      BY <3>1, TailFacts DEF Queued
    <3>3. ~error => \/ Head(queue) = STOP /\ UNCHANGED item
                    \/ item[w] = STOP /\ item' = [item EXCEPT ![w] = Head(queue)]
      BY <2>2 DEF TakeFrame, DrainFrame, TakeStop, Draining, taskVars, TypeInv, Holding
    <3>4. ~error => Queued \cup Held \subseteq Queued' \cup Held' \cup {STOP}
      <4>1. CASE Head(queue) = STOP /\ UNCHANGED item
        BY <3>2, <4>1 DEF Held, Queued
      <4>2. CASE item[w] = STOP /\ item' = [item EXCEPT ![w] = Head(queue)]
        <5>1. item'[w] = Head(queue) /\ \A v \in Workers : v # w => item'[v] = item[v]
          BY <4>2
        <5>2. Held \subseteq Held' \cup {STOP}
          BY <4>2, <5>1 DEF Held
        <5>3. Head(queue) \in Held'
          BY <5>1 DEF Held
        <5>4. QED
          BY <3>2, <5>2, <5>3
      <4>3. QED
        BY <3>3, <4>1, <4>2
    <3>5. STOP \notin Start .. Horizon - 1
      BY DEF Horizon
    <3>6. Covered'
      BY <3>1, <3>4, <3>5 DEF Covered
    <3>7. Counted'
      BY <3>1 DEF Counted
    <3>8. QED
      BY <2>1, <3>1, <3>6, <3>7 DEF CoverageInv
  <2>3. CASE StoreBlob(w) \/ BrokerAccepts(w) \/ SaveCheckpoint(w)
    <3>1. UNCHANGED <<queue, item, confirmed, error, abort, frames_confirmed>>
      BY <2>3 DEF StoreBlob, BrokerAccepts, SaveCheckpoint, stateVars
    <3>2. Covered' /\ Counted'
      BY <3>1 DEF Covered, Counted, Queued, Held
    <3>3. QED
      BY <2>1, <3>1, <3>2 DEF CoverageInv
  <2>4. CASE Confirm(w)
    <3>1. /\ confirmed' = confirmed \cup {item[w]} /\ frames_confirmed' = frames_confirmed + 1
          /\ item' = [item EXCEPT ![w] = STOP] /\ UNCHANGED <<queue, error, abort>>
      BY <2>4 DEF Confirm
    <3>2. item[w] \notin confirmed
      BY DEF PlaceInv, ConfirmedPlaces
    <3>3. Held \subseteq Held' \cup {item[w]}
      BY <3>1 DEF Held
    <3>4. Covered'
      BY <3>1, <3>3 DEF Covered, Queued
    <3>5. Counted'
      <4>1. IsFiniteSet(confirmed) /\ Cardinality(confirmed) \in Nat
        BY FiniteFrames
      <4>2. Cardinality(confirmed') = Cardinality(confirmed) + 1
        BY <3>1, <3>2, <4>1, FS_AddElement
      <4>3. frames_failed' = prior'.frames_failed + Cardinality(undecodable')
        BY DEF Counted
      <4>4. frames_confirmed = prior.frames_dispatched + Cardinality(confirmed)
        BY DEF Counted
      <4>5. frames_confirmed' = prior'.frames_dispatched + Cardinality(confirmed')
        BY <3>1, <4>1, <4>2, <4>4, SMTT(20)
      <4>6. QED
        BY <4>3, <4>5 DEF Counted
    <3>6. QED
      BY <2>1, <3>1, <3>4, <3>5 DEF CoverageInv
  <2>5. CASE CallRaises(w)
    <3>1. error' /\ abort' /\ UNCHANGED <<confirmed, frames_confirmed>>
      BY <2>5 DEF CallRaises
    <3>2. QED
      BY <2>1, <3>1 DEF CoverageInv, Covered, Counted
  <2>6. QED
    BY <1>2, <2>2, <2>3, <2>4, <2>5 DEF Publisher
<1>3. ASSUME ClientHangsUp \/ WatchdogPolls \/ Run \/ UNCHANGED vars PROVE CoverageInv'
  <2>1. /\ UNCHANGED <<prior, undecodable, frames_failed, decoder, cursor, item, confirmed,
                       error, frames_confirmed>>
        /\ Start' = Start /\ Horizon' = Horizon
    BY <1>3 DEF ClientHangsUp, WatchdogPolls, Run, vars, decoderVars, taskVars, stateVars,
       externalVars, Start, Horizon
  <2>2. Queued' = Queued
    <3>1. CASE Run /\ PutSentinel
      <4>1. queue' = Append(queue, STOP) /\ STOP \in Int
        BY <3>1 DEF PutSentinel, Enqueued
      <4>2. QED
        BY <4>1, AppendFacts DEF Queued
    <3>2. CASE UNCHANGED queue
      BY <3>2 DEF Queued
    <3>3. QED
      BY <1>3, <3>1, <3>2 DEF ClientHangsUp, WatchdogPolls, Run, DecodeReturns,
         GatherPublishers, vars
  <2>3. Covered' /\ Counted'
    BY <2>1, <2>2 DEF Covered, Counted, Held
  <2>4. (abort => abort') /\ (main' = "returned" => main = "returned" \/ decoder # "raised")
        /\ (main' = "returned" => main # "decoding")
    BY <1>3 DEF ClientHangsUp, WatchdogPolls, Run, DecodeReturns, PutSentinel,
       GatherPublishers, vars, mainVars
  <2>5. Ended'
    BY <2>1, <2>4 DEF Ended
  <2>6. QED
    BY <2>3, <2>5 DEF CoverageInv
<1>4. QED
  BY <1>1, <1>2, <1>3 DEF Next, Finished

-----------------------------------------------------------------------------
\* Every variable of a dispatch run keeps to its range: the queue never exceeds
\* its bound and no publisher holds anything but a frame of this video.
THEOREM TypeCorrect == Spec => []TypeOK
<1>1. TypeInv => TypeOK
  BY DEF TypeInv
<1>2. QED
  BY <1>1, TypeInit, TypeStep, PTL DEF Spec

\* The conjunction the safety theorems below rest on.
IInv == TypeInv /\ SentinelInv /\ PlaceInv /\ BlobInv /\ CoverageInv

\* The inductive invariant of a dispatch run, for every value of the constants: every
\* result about FramePipeline rests on it.
THEOREM Inductive == Spec => []IInv
<1>1. Init => IInv
  BY TypeInit, OrderInit, BlobInit, CoverageInit DEF IInv
<1>2. IInv /\ [Next]_vars => IInv'
  BY TypeStep, SentinelStep, PlaceStep, BlobStep, CoverageStep DEF IInv
<1>3. QED
  BY <1>1, <1>2, PTL DEF Spec

\* However many publishers there are, a run sends a frame at most once and never
\* one that the run it resumes had confirmed.
THEOREM AtMostOnce == Spec => []DispatchedAtMostOnce
<1>1. IInv => DispatchedAtMostOnce
  <2> SUFFICES ASSUME IInv PROVE DispatchedAtMostOnce
    OBVIOUS
  <2>1. /\ References \subseteq Start .. Horizon - 1 /\ NoRepeat(broker)
        /\ prior.last_source_index \in Int
    BY PriorsAssumption DEF IInv, PlaceInv, SentPlaces, TypeInv, TypeOK
  <2>2. \A i \in DOMAIN broker : broker[i] \in Start .. Horizon - 1
    BY <2>1 DEF References
  <2>3. \A i \in DOMAIN broker : broker[i] > prior.last_source_index
    BY <2>1, <2>2 DEF Start
  <2>4. QED
    BY <2>1, <2>3 DEF DispatchedAtMostOnce, NoRepeat
<1>2. QED
  BY <1>1, Inductive, PTL

\* No reference reaches RabbitMQ ahead of its blob, whichever calls fail.
THEOREM BlobFirst == Spec => []BlobBeforeReference
<1>1. IInv => BlobBeforeReference
  BY DEF IInv, BlobInv, BlobBeforeReference
<1>2. QED
  BY <1>1, Inductive, PTL

\* At its return a run without an error has nothing left in the queue or in hand.
LEMMA ReturnComplete == IInv => DispatchComplete
<1> SUFFICES ASSUME IInv, main = "returned", ~error
             PROVE  /\ confirmed \cup undecodable = Start .. cursor - 1
                    /\ confirmed \subseteq References
                    /\ ~abort => cursor = NumFrames
                    /\ frames_confirmed + frames_failed =
                         prior.frames_dispatched + prior.frames_failed + cursor - Start
  BY DEF DispatchComplete, Start
<1>1. /\ cursor \in Int /\ Start \in Int /\ cursor >= Start
      /\ prior.frames_dispatched \in Nat /\ prior.frames_failed \in Nat
      /\ confirmed \subseteq Frames /\ undecodable \subseteq Frames
  BY PriorsAssumption, NumFramesAssumption
     DEF IInv, TypeInv, TypeOK, CursorPastStart, Progress, Start
<1>2. decoder = "done" /\ Horizon = cursor /\ (~abort => cursor = NumFrames)
  BY DEF IInv, CoverageInv, Ended, Horizon
<1>3. \A w \in Workers : worker[w] = "stopped" /\ item[w] = STOP
  BY DEF IInv, SentinelInv, TypeInv, Holding
<1>4. Queued = {} /\ Held \subseteq {STOP}
  <2>1. PICK w \in Workers : worker[w] = "stopped"
    BY <1>3, WorkersAssumption
  <2>2. \A i \in 1 .. Len(queue) : queue[i] = STOP
    BY <2>1 DEF IInv, SentinelInv
  <2>3. Queued = {}
    BY <2>2 DEF IInv, TypeInv, TypeOK, Queued, Elements
  <2>4. QED
    BY <1>3, <2>3 DEF Held
<1>5. STOP \notin Start .. cursor - 1
  BY PriorsAssumption DEF IInv, TypeInv, TypeOK, Start, STOP
<1>6. /\ confirmed \subseteq References /\ References \cap undecodable = {}
      /\ References \subseteq Start .. cursor - 1 /\ undecodable \subseteq Start .. cursor - 1
  BY <1>2 DEF IInv, PlaceInv, SentPlaces, ConfirmedPlaces
<1>7. confirmed \cup undecodable = Start .. cursor - 1
  BY <1>2, <1>4, <1>5, <1>6 DEF IInv, CoverageInv, Covered
<1>8. Cardinality(confirmed) + Cardinality(undecodable) = cursor - Start
  <2>1. ASSUME NEW b \in Int, b = cursor - 1
        PROVE  Cardinality(Start .. b) = cursor - Start
    <3>1. Cardinality(Start .. b) = IF Start > b THEN 0 ELSE b - Start + 1
      BY <1>1, FS_Interval
    <3>2. QED
      BY <1>1, <2>1, <3>1
  <2>2. Cardinality(confirmed \cap undecodable) = 0
    BY <1>6, FS_EmptySet
  <2>3. /\ IsFiniteSet(confirmed) /\ Cardinality(confirmed) \in Nat
        /\ IsFiniteSet(undecodable) /\ Cardinality(undecodable) \in Nat
    BY <1>1, FiniteFrames
  <2>4. Cardinality(confirmed \cup undecodable) =
          Cardinality(confirmed) + Cardinality(undecodable) - Cardinality(confirmed \cap undecodable)
    BY <2>3, FS_Union
  <2>5. QED
    <3>1. cursor - 1 \in Int
      BY <1>1
    <3>2. Cardinality(confirmed \cup undecodable) = cursor - Start
      BY <1>7, <2>1, <3>1
    <3>3. QED
      BY <2>2, <2>3, <2>4, <3>2
<1>9. /\ frames_confirmed = prior.frames_dispatched + Cardinality(confirmed)
      /\ frames_failed = prior.frames_failed + Cardinality(undecodable)
  BY DEF IInv, CoverageInv, Counted
<1>10. Cardinality(confirmed) \in Nat /\ Cardinality(undecodable) \in Nat
  BY <1>1, FiniteFrames
<1>11. QED
  BY <1>1, <1>2, <1>6, <1>7, <1>8, <1>9, <1>10

\* The truthful 200: a run that returns without an error has confirmed or
\* reported every frame it passed, and its counters say so.
THEOREM TruthfulReturn == Spec => []DispatchComplete
BY ReturnComplete, Inductive, PTL
=============================================================================
