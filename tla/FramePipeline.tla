---------------------------- MODULE FramePipeline ----------------------------
(***************************************************************************)
(* One dispatch run of the video analyzer                                  *)
(* (video_analyzer/services/frame_pipeline.py):                            *)
(*                                                                         *)
(*   decode thread --(bounded queue)--> publisher tasks --> Redis, RabbitMQ *)
(*                                                                         *)
(* The decode thread is a real thread; the publishers, the disconnect      *)
(* watchdog and run() itself are asyncio tasks, so what lies between two   *)
(* awaits of a task is one action.  A frame is its output slot: slots and  *)
(* source indices increase together, so the two name the same frame.       *)
(***************************************************************************)
EXTENDS Integers, Sequences, FiniteSets

CONSTANTS
    Workers,          \* the publisher tasks (analyzer_publishers of them)
    NumFrames,        \* sampled frames in the video
    QueueSize,        \* analyzer_queue_size
    CheckpointEvery,  \* checkpoint_every
    Priors            \* the job records a run may be resumed from

\* The fields of a job record that a checkpoint writes.
Progress == [frames_dispatched : Nat, frames_failed : Nat, last_source_index : Int]

\* The record of a job that has confirmed nothing.
NoPrior == [frames_dispatched |-> 0, frames_failed |-> 0, last_source_index |-> -1]

ASSUME WorkersAssumption == IsFiniteSet(Workers) /\ Workers # {}
ASSUME NumFramesAssumption == NumFrames \in Nat
ASSUME QueueSizeAssumption == QueueSize \in Nat \ {0}
ASSUME CheckpointEveryAssumption == CheckpointEvery \in Nat \ {0}
ASSUME PriorsAssumption ==
    /\ Priors \subseteq Progress
    /\ \A p \in Priors : p.last_source_index \in -1 .. NumFrames - 1

Frames == 0 .. NumFrames - 1

\* The sentinel that ends a publisher; as `item' it stands for no frame.
STOP == -1

VARIABLES
    prior,      \* the record this run continues (NoPrior for a fresh run)
    decoder,    \* where the decode thread is
    cursor,     \* the slot the sampler waits for
    queue,      \* the asyncio.Queue
    worker,     \* where each publisher is
    item,       \* the frame each publisher holds
    snap,       \* the arguments of each publisher's checkpoint call
    frames_confirmed, frames_failed, last_source_index, error,  \* RunState
    since_checkpoint,
    abort,      \* the threading.Event
    watchdog,   \* is the disconnect watchdog running
    main,       \* where run() is
    stops,      \* sentinels run() has still to queue
    hungUp,     \* the client has disconnected
    stored,     \* frames whose blob Redis holds
    broker,     \* references RabbitMQ accepted, in order
    job,        \* the job record in Redis
    confirmed,  \* history: frames whose confirm arrived
    undecodable \* history: frames reported as DecodeFailure

decoderVars == <<decoder, cursor, undecodable>>
stateVars == <<frames_confirmed, last_source_index, error, since_checkpoint>>
taskVars == <<worker, item, snap>>
mainVars == <<main, stops, watchdog>>
externalVars == <<stored, broker, job, confirmed>>

vars == <<prior, decoderVars, queue, taskVars, stateVars, frames_failed, abort,
          mainVars, hungUp, externalVars>>

-----------------------------------------------------------------------------
(* Small pieces of the code that several actions share.                    *)

\* A resumed run samples from the first slot after the last confirmed one.
FirstSlot_Repeats == IF prior.last_source_index < 0 THEN 0 ELSE prior.last_source_index
FirstSlot == prior.last_source_index + 1

\* asyncio.Queue: a put waits for room and appends at the tail.
HasRoom_Always == TRUE
HasRoom == Len(queue) < QueueSize

Enqueued_Front(x) == <<x>> \o queue
Enqueued(x) == Append(queue, x)

\* A publisher that sees the error dispatches nothing more.
Draining_Never == FALSE
Draining == error

\* RunState.record_confirmed keeps the highest confirmed index.
HighestConfirmed_Decoded(f) == cursor - 1
HighestConfirmed(f) == IF f > last_source_index THEN f ELSE last_source_index

\* RunState.take_checkpoint_due, after record_confirmed counted this frame.
CheckpointDue_Late == since_checkpoint + 1 > CheckpointEvery
CheckpointDue == since_checkpoint + 1 >= CheckpointEvery

\* One sentinel is queued per publisher.
SentinelsNeeded_OneShort == Cardinality(Workers) - 1
SentinelsNeeded == Cardinality(Workers)

\* RunState() for a fresh run, RunState.resuming(prior) for a resumed one.
SeededFrom_Fresh(p) == NoPrior
SeededFrom(p) == p

-----------------------------------------------------------------------------
Init ==
    /\ prior \in Priors
    /\ decoder = "check" /\ cursor = FirstSlot
    /\ queue = << >>
    /\ worker = [w \in Workers |-> "idle"]
    /\ item = [w \in Workers |-> STOP]
    /\ snap = [w \in Workers |-> NoPrior]
    /\ frames_confirmed = SeededFrom(prior).frames_dispatched
    /\ frames_failed = SeededFrom(prior).frames_failed
    /\ last_source_index = SeededFrom(prior).last_source_index
    /\ error = FALSE /\ since_checkpoint = 0
    /\ abort = FALSE /\ watchdog = TRUE
    /\ main = "decoding" /\ stops = 0
    /\ hungUp = FALSE
    /\ stored = {} /\ broker = << >> /\ job = prior
    /\ confirmed = {} /\ undecodable = {}

-----------------------------------------------------------------------------
(* The decode thread: iter_sampled driven by _decode_into_queue.  It looks *)
(* at the abort flag before every grab; the second look after a put reads  *)
(* the same flag with nothing in between.                                  *)

SeesAbort ==
    /\ decoder = "check" /\ abort
    /\ decoder' = "done"
    /\ UNCHANGED <<cursor, undecodable, queue, frames_failed>>

SeesNoAbort ==
    /\ decoder = "check" /\ ~abort
    /\ decoder' = "grab"
    /\ UNCHANGED <<cursor, undecodable, queue, frames_failed>>

EndOfStream ==
    /\ decoder = "grab" /\ cursor >= NumFrames
    /\ decoder' = "done"
    /\ UNCHANGED <<cursor, undecodable, queue, frames_failed>>

DecodeRaises ==
    /\ decoder = "grab"
    /\ decoder' = "raised"
    /\ UNCHANGED <<cursor, undecodable, queue, frames_failed>>

YieldsFrame ==
    /\ decoder = "grab" /\ cursor < NumFrames
    /\ decoder' = "put" /\ cursor' = cursor + 1
    /\ UNCHANGED <<undecodable, queue, frames_failed>>

\* frames_failed is incremented here, on the thread, not on the event loop.
YieldsFailure ==
    /\ decoder = "grab" /\ cursor < NumFrames
    /\ decoder' = "check" /\ cursor' = cursor + 1
    /\ undecodable' = undecodable \cup {cursor}
    /\ frames_failed' = frames_failed + 1
    /\ UNCHANGED queue

\* The thread stays blocked in .result() until the queue has room.
PutFrame ==
    /\ decoder = "put" /\ HasRoom
    /\ queue' = Enqueued(cursor - 1)
    /\ decoder' = "check"
    /\ UNCHANGED <<cursor, undecodable, frames_failed>>

DecodeThread ==
    /\ \/ SeesAbort \/ SeesNoAbort \/ EndOfStream \/ DecodeRaises
       \/ YieldsFrame \/ YieldsFailure \/ PutFrame
    /\ UNCHANGED <<prior, taskVars, stateVars, abort, mainVars, hungUp, externalVars>>

-----------------------------------------------------------------------------
(* A publisher task: get, store.put, publish, confirm, sometimes a         *)
(* checkpoint.  Each of the awaits is a step, and each may raise.          *)

TakeFrame(w) ==
    /\ worker[w] = "idle" /\ queue # << >> /\ Head(queue) # STOP /\ ~Draining
    /\ worker' = [worker EXCEPT ![w] = "store"]
    /\ item' = [item EXCEPT ![w] = Head(queue)]
    /\ queue' = Tail(queue)
    /\ UNCHANGED <<snap, stateVars, abort, externalVars>>

DrainFrame(w) ==
    /\ worker[w] = "idle" /\ queue # << >> /\ Head(queue) # STOP /\ Draining
    /\ queue' = Tail(queue)
    /\ UNCHANGED <<taskVars, stateVars, abort, externalVars>>

TakeStop(w) ==
    /\ worker[w] = "idle" /\ queue # << >> /\ Head(queue) = STOP
    /\ worker' = [worker EXCEPT ![w] = "stopped"]
    /\ queue' = Tail(queue)
    /\ UNCHANGED <<item, snap, stateVars, abort, externalVars>>

StoreBlob_NotAwaited(w) ==
    /\ worker[w] = "store"
    /\ worker' = [worker EXCEPT ![w] = "publish"]
    /\ UNCHANGED <<stored, queue, item, snap, stateVars, abort, broker, job, confirmed>>

StoreBlob(w) ==
    /\ worker[w] = "store"
    /\ stored' = stored \cup {item[w]}
    /\ worker' = [worker EXCEPT ![w] = "publish"]
    /\ UNCHANGED <<queue, item, snap, stateVars, abort, broker, job, confirmed>>

\* RabbitMQ accepts the reference; its confirm is still on the way back.  Two
\* publishes in flight may be accepted in either order: each follows its own put
\* to Redis, and opening the channel takes no lock.
BrokerAccepts(w) ==
    /\ worker[w] = "publish"
    /\ broker' = Append(broker, item[w])
    /\ worker' = [worker EXCEPT ![w] = "confirm"]
    /\ UNCHANGED <<queue, item, snap, stateVars, abort, stored, job, confirmed>>

\* The confirm arrives: record_confirmed, and the arguments of the checkpoint
\* call are evaluated in the same step when one is due.
Confirm(w) ==
    /\ worker[w] = "confirm"
    /\ confirmed' = confirmed \cup {item[w]}
    /\ frames_confirmed' = frames_confirmed + 1
    /\ last_source_index' = HighestConfirmed(item[w])
    /\ since_checkpoint' = IF CheckpointDue THEN 0 ELSE since_checkpoint + 1
    /\ worker' = [worker EXCEPT ![w] = IF CheckpointDue THEN "checkpoint" ELSE "idle"]
    /\ snap' = IF CheckpointDue
               THEN [snap EXCEPT ![w] = [frames_dispatched |-> frames_confirmed',
                                         frames_failed |-> frames_failed,
                                         last_source_index |-> last_source_index']]
               ELSE snap
    /\ item' = [item EXCEPT ![w] = STOP]
    /\ UNCHANGED <<queue, error, abort, stored, broker, job>>

SaveCheckpoint(w) ==
    /\ worker[w] = "checkpoint"
    /\ job' = snap[w]
    /\ worker' = [worker EXCEPT ![w] = "idle"]
    /\ snap' = [snap EXCEPT ![w] = NoPrior]
    /\ UNCHANGED <<queue, item, stateVars, abort, stored, broker, confirmed>>

\* Any of the three calls may raise, before or after it took effect: for a
\* publish the two cases are the states "publish" and "confirm".
CallRaises(w) ==
    /\ worker[w] \in {"store", "publish", "confirm", "checkpoint"}
    /\ stored' \in IF worker[w] = "store" THEN {stored, stored \cup {item[w]}} ELSE {stored}
    /\ job' \in IF worker[w] = "checkpoint" THEN {job, snap[w]} ELSE {job}
    /\ error' = TRUE /\ abort' = TRUE
    /\ worker' = [worker EXCEPT ![w] = "idle"]
    /\ item' = [item EXCEPT ![w] = STOP]
    /\ snap' = [snap EXCEPT ![w] = NoPrior]
    /\ UNCHANGED <<queue, frames_confirmed, last_source_index, since_checkpoint,
                   broker, confirmed>>

Publisher(w) ==
    /\ \/ TakeFrame(w) \/ DrainFrame(w) \/ TakeStop(w)
       \/ StoreBlob(w) \/ BrokerAccepts(w) \/ Confirm(w) \/ SaveCheckpoint(w)
       \/ CallRaises(w)
    /\ UNCHANGED <<prior, decoderVars, frames_failed, mainVars, hungUp>>

-----------------------------------------------------------------------------
(* The disconnect watchdog.                                                *)

ClientHangsUp ==
    /\ ~hungUp /\ main \in {"decoding", "stopping"}
    /\ hungUp' = TRUE
    /\ UNCHANGED <<prior, decoderVars, queue, taskVars, stateVars, frames_failed, abort,
                   mainVars, externalVars>>

\* A poll either finds the client gone and sets the flag, or finds the flag
\* already set; both end the task.
WatchdogPolls ==
    /\ watchdog /\ (hungUp \/ abort)
    /\ abort' = TRUE /\ watchdog' = FALSE
    /\ UNCHANGED <<prior, decoderVars, queue, taskVars, stateVars, frames_failed,
                   main, stops, hungUp, externalVars>>

-----------------------------------------------------------------------------
(* run(): waits for the thread, queues one sentinel per publisher, gathers. *)

DecodeReturns_NotAwaited ==
    /\ main = "decoding"
    /\ main' = "stopping" /\ stops' = SentinelsNeeded /\ watchdog' = FALSE
    /\ UNCHANGED queue

DecodeReturns ==
    /\ main = "decoding" /\ decoder \in {"done", "raised"}
    /\ main' = "stopping" /\ stops' = SentinelsNeeded /\ watchdog' = FALSE
    /\ UNCHANGED queue

PutSentinel ==
    /\ main = "stopping" /\ stops > 0 /\ HasRoom
    /\ queue' = Enqueued(STOP)
    /\ stops' = stops - 1
    /\ UNCHANGED <<main, watchdog>>

\* The (state, aborted) pair is returned, or the decoder's exception leaves.
GatherPublishers ==
    /\ main = "stopping" /\ stops = 0 /\ \A w \in Workers : worker[w] = "stopped"
    /\ main' = IF decoder = "raised" THEN "raised" ELSE "returned"
    /\ UNCHANGED <<queue, stops, watchdog>>

Run ==
    /\ DecodeReturns \/ PutSentinel \/ GatherPublishers
    /\ UNCHANGED <<prior, decoderVars, taskVars, stateVars, frames_failed, abort, hungUp,
                   externalVars>>

Finished == main \in {"returned", "raised"} /\ UNCHANGED vars

Next ==
    \/ DecodeThread
    \/ \E w \in Workers : Publisher(w)
    \/ ClientHangsUp \/ WatchdogPolls
    \/ Run
    \/ Finished

Spec == Init /\ [][Next]_vars

\* The thread is scheduled, the event loop serves its ready tasks in turn, and
\* every call to Redis, RabbitMQ or the decoder returns or raises.  Nothing is
\* assumed of the client, and no call has to succeed.
FairSpec ==
    /\ Spec
    /\ WF_vars(DecodeThread)
    /\ \A w \in Workers : WF_vars(Publisher(w))
    /\ WF_vars(WatchdogPolls)
    /\ WF_vars(Run)

-----------------------------------------------------------------------------
(* Properties.                                                             *)

References == {broker[i] : i \in DOMAIN broker}

\* Every variable keeps to its range.
TypeOK ==
    /\ prior \in Priors
    /\ decoder \in {"check", "grab", "put", "done", "raised"}
    /\ cursor \in 0 .. NumFrames
    /\ queue \in Seq(Frames \cup {STOP}) /\ Len(queue) <= QueueSize
    /\ worker \in [Workers -> {"idle", "store", "publish", "confirm", "checkpoint", "stopped"}]
    /\ item \in [Workers -> Frames \cup {STOP}]
    /\ snap \in [Workers -> Progress]
    /\ frames_confirmed \in Nat /\ frames_failed \in Nat
    /\ last_source_index \in -1 .. NumFrames - 1
    /\ error \in BOOLEAN /\ since_checkpoint \in 0 .. CheckpointEvery - 1
    /\ abort \in BOOLEAN /\ watchdog \in BOOLEAN /\ hungUp \in BOOLEAN
    /\ main \in {"decoding", "stopping", "returned", "raised"}
    /\ stops \in 0 .. Cardinality(Workers)
    /\ stored \subseteq Frames /\ broker \in Seq(Frames) /\ job \in Progress
    /\ confirmed \subseteq Frames /\ undecodable \subseteq Frames

\* A reference never reaches RabbitMQ before the blob it names is in Redis, so
\* a detector cannot dead-letter a frame that was merely early.
BlobBeforeReference == References \subseteq stored

\* One run sends a frame at most once, and never one that the run it resumes
\* had already confirmed.
DispatchedAtMostOnce ==
    \A i \in DOMAIN broker :
        /\ broker[i] > prior.last_source_index
        /\ \A j \in DOMAIN broker : broker[i] = broker[j] => i = j

\* A run that returns without an error has confirmed or reported as failed
\* every frame the sampler passed, all of the video's when it was not aborted,
\* and its two counters add up to just those frames: the truthful 200.
DispatchComplete ==
    main = "returned" /\ ~error =>
        /\ confirmed \cup undecodable = prior.last_source_index + 1 .. cursor - 1
        /\ confirmed \subseteq References
        /\ ~abort => cursor = NumFrames
        /\ frames_confirmed + frames_failed =
             prior.frames_dispatched + prior.frames_failed + cursor - (prior.last_source_index + 1)

\* Frames a checkpoint passes over although RabbitMQ never accepted them: a run
\* resumed from that checkpoint does not send them.
SeamGap ==
    {f \in prior.last_source_index + 1 .. job.last_source_index :
        f \notin References \cup undecodable}

\* Whatever fails, and whenever the process dies, a checkpoint passes over at
\* most one frame per publisher other than the one that wrote it.
SeamGapBounded == Cardinality(SeamGap) <= Cardinality(Workers) - 1

\* "A checkpoint never claims progress the broker did not accept."
NoGapAtSeam == SeamGap = {}

\* When RabbitMQ accepts a frame, fewer frames than there are publishers are
\* both earlier in the video and not accepted yet.
OvertakingBounded ==
    \A i \in DOMAIN broker :
        Cardinality({f \in prior.last_source_index + 1 .. broker[i] - 1 :
                        f \notin undecodable /\ \A j \in 1 .. i - 1 : broker[j] # f})
          <= Cardinality(Workers) - 1

\* "Every frame of one video lands on one queue in dispatch order."
DispatchOrder == \A i, j \in DOMAIN broker : i < j => broker[i] < broker[j]

\* The job record counts no more confirms than have arrived, and the index it
\* holds is that of a frame confirmed by this run or an earlier one.
CheckpointNeverAhead ==
    /\ job.frames_dispatched <= prior.frames_dispatched + Cardinality(confirmed)
    /\ job.last_source_index \in {prior.last_source_index} \cup confirmed

\* Backpressure: while nothing has failed, the decode thread is ahead of the
\* confirms by what the queue and the publishers hold plus the frame in its hand.
BoundedLookahead ==
    ~error =>
        cursor - (prior.last_source_index + 1)
            - Cardinality(undecodable) - Cardinality(confirmed)
          <= QueueSize + Cardinality(Workers) + 1

\* With one publisher, a crash forgets at most CheckpointEvery confirms.
CheckpointLag == frames_confirmed - job.frames_dispatched <= CheckpointEvery

\* With one publisher, the job record never moves backwards.
CheckpointMonotone ==
    [][/\ job'.last_source_index >= job.last_source_index
       /\ job'.frames_dispatched >= job.frames_dispatched]_job

\* What run() has come to, in the words of its caller.
Outcome ==
    CASE main = "returned" /\ error -> "error"
      [] main = "returned" /\ ~error /\ abort -> "aborted"
      [] main = "returned" /\ ~error /\ ~abort -> "complete"
      [] main = "raised" -> "raised"
      [] OTHER -> "running"

Ledger == INSTANCE DispatchLedger WITH
    accepted <- broker, skipped <- undecodable, checkpoint <- job, outcome <- Outcome

\* The run keeps the promise its caller relies on, step by step: in particular no
\* publisher sends, confirms or writes a checkpoint after run() is over.
ImplementsLedger == Ledger!Spec

\* Sentinels reach every publisher whatever fails: the run ends.
Termination == <>(main \in {"returned", "raised"})
=============================================================================
