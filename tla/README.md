# A TLA+ model of the video processing pipeline

Two services process a video. The *video analyzer* samples frames of a file at a
requested rate, stores each as a JPEG in Redis and publishes a reference to it in
RabbitMQ; it answers 200 only after the broker has confirmed every reference. The
*stream detector* consumes the references, runs a detector on each frame and
hands the results, in batches, to the next service. This directory models the
parts of that code whose correctness depends on interleavings, failures and
ordering.

## 1. Inventory

| Component (source) | State | Operations | Hard part | What makes it correct |
|---|---|---|---|---|
| Dispatch pipeline `video_analyzer/services/frame_pipeline.py` | the bounded `asyncio.Queue`, `RunState` (counters, `last_source_index`, first error), the `abort` event, K publisher tasks, the decode thread, the disconnect watchdog | decode, put, take, store, publish, confirm, checkpoint, drain, abort, stop | a real thread and K+2 tasks; each call may fail; the client may hang up | truthful 200, nothing sent twice, blob before reference, checkpoint never ahead of the broker, dispatch order, backpressure, the run ends |
| Video source `domain/video_source.py` | position in the capture | grab, retrieve, seek | seek landing early or late, truncated file | the sampler sees every index it waits for |
| Frame sampler `domain/frame_sampler.py` | cursor slot and index | `take`, `slot_after_source_index`, `expected_frame_count` | exact rational arithmetic at the seam | no drift; the resume slot is the exact inverse |
| Analysis service `services/analysis_service.py` | semaphore slots, `_in_flight`, job records in Redis | admit, create or resume, run, record failure, finalise | concurrent requests, replicas, crashes, the 120 s staleness window | at most one live run per video and rate, reservations released on every path, the final status tells the truth |
| HTTP API `api/*.py` | none | analyze, get job, health | disconnect of the client; every way to refuse | a 200 is an answer about a run that did what it says; refusals hold nothing |
| Redis adapters `adapters/redis_store.py` | blobs, job hashes, resume pointers, dedup keys, each with a TTL | put/get, create, checkpoint, set_status, count, claim | blind writes, two services writing one hash, writes after the TTL, fail-open dedup | a checkpoint is a consistent snapshot; the pointer leads to a readable record |
| RabbitMQ publisher `adapters/rabbitmq.py` | one connection and one channel, made on demand and shared by every run and health probe | publish with confirm, reconnect, close | `_ensure_channel` awaits without a lock | connections do not pile up |
| RabbitMQ consumer `adapters/rabbitmq.py` | partition queues, channel, delivery tags, the inbox | consume, ack, nack | redelivery, prefetch, cumulative acks | per-video order, nothing settled early |
| In-memory adapters `adapters/memory.py` | lists, dicts and a clock in place of the broker and Redis | the same ports | what the tests show holds in production only as far as the doubles behave like the real stores | they promise what the ports promise, and answer as Redis does |
| Ports `ports.py` | none | the interfaces of both sets of adapters | | handed out until settled, settled once, marked when it comes back |
| Detector worker, processor, batcher `stream_detector/*.py` | counters, the pending batch, the batch timer | process, claim, add, flush, ack, nack, stop | crash or failure between claim, flush and ack; two flush triggers on one buffer | every delivery is settled, no result reported twice, none lost |
| Detector process `stream_detector/main.py` | connections, worker task | start, SIGTERM, crash | order of teardown | the last batch survives a clean stop |

How they interact: the HTTP handler calls the analysis service, which runs one
dispatch pipeline per request; the pipeline talks to Redis (blobs, checkpoints)
and RabbitMQ (references). The detector reads references from RabbitMQ and blobs
from Redis, claims dedup keys and counts processed frames in Redis. Job records in
Redis are written by both services.

The hazards of the code, each at its line, are in `PROJECT.json`.

## 2. Plan

1. `FramePipeline` (built): the dispatch run, the heart of "200 only after
   dispatching" and of checkpoint resume, with `FramePipelineProofs` and
   `FramePipelineBounds`.
2. `Detector` (built): consumer, processor, batcher and process of the detector
   replicas, against partition queues with delivery tags, prefetch, redelivery and
   cumulative acks; crashes, failed flushes and SIGTERM; with `DetectorProofs`, and
   `Subsequence` and `SubsequenceProofs` for taking elements out of a sequence. Still to
   do: a channel whose acks can raise while the process lives, and for several
   partitions those of the one-partition theorems that remain true.
3. `AnalysisService` (built): admission, reservation, job record, resume, staleness,
   with crashes and several processes; the run is that of `FramePipeline` without its
   tasks, with any number of publishers. `AnalysisServiceProofs` has the types, the
   reservation and the slots, `AnalysisServiceHistory` what holds from one attempt at a job
   to the next.
4. `FrameSampler` (built): slot and index arithmetic as pure operators, and the seek
   of a resumed run, with `FrameSamplerProofs`.
5. `DispatchLedger` (built): what a dispatch run promises its caller. `FramePipeline`
   implements it: a PROPERTY of `pipeline_safety` and the theorem of
   `FramePipelineBounds`.
6. `WorkQueue` (built): what the broker ports promise. `Detector` (with RabbitMQ) and
   `InMemoryBroker` (the double) both implement it, as PROPERTY of their runs.
7. `InMemoryBroker`, `PublisherChannel`, `Stores` (built): the adapters, with
   `AdapterProofs`.

Each module takes its sizes as CONSTANTS with named assumptions, has one action
per operation, and uses no RECURSIVE operator. New properties go into the existing
runs, one safety run for each module, rather than into runs of their own.

Every property that a passing run checks is also a theorem, some of them for one
publisher, one process or one partition where more of them break it (each such hypothesis
is explained below), but for the two liveness properties, `Termination` and
`EventuallySettled`: liveness under fairness is outside the prover's reach and stays with
TLC.

## 3. FramePipeline

### Correspondence

| Model | Code |
|---|---|
| `DecodeThread`: `SeesAbort`, `SeesNoAbort`, `EndOfStream`, `DecodeRaises`, `YieldsFrame`, `YieldsFailure`, `PutFrame` | `_decode_into_queue` driving `iter_sampled` on a worker thread; `PutFrame` is `run_coroutine_threadsafe(queue.put(item)).result()` |
| `Publisher(w)`: `TakeFrame`, `DrainFrame`, `TakeStop`, `StoreBlob`, `BrokerAccepts`, `Confirm`, `SaveCheckpoint`, `CallRaises` | `_publish_worker` and `_dispatch`, one step per await |
| `WatchdogPolls`, `ClientHangsUp` | `_cancel_watchdog`; `request.is_disconnected` |
| `Run`: `DecodeReturns`, `PutSentinel`, `GatherPublishers` | `FramePipeline.run` |
| `frames_confirmed`, `frames_failed`, `last_source_index`, `error`, `since_checkpoint` | `RunState` |
| `queue`, `abort` | the `asyncio.Queue`, the `threading.Event` |
| `stored`, `broker`, `job` | blobs in Redis, references accepted by RabbitMQ in order, the job hash |
| `confirmed`, `undecodable` | history variables; no guard reads them |

A frame is its output slot. What runs between two awaits of a task is one action,
because the tasks share one event loop; the decode thread is a real thread and
every look at `abort` and every put is a step of its own. Publishing is two
steps, the broker's acceptance and the confirm's arrival, so that a call may fail
with or without having taken effect. Two publishes in flight may be accepted in
either order: each follows its own Redis put, and `_ensure_channel` takes no
lock. A crash of the analyzer may come at any moment; what it would leave behind
is `job` and `broker`, and the invariants about these two hold in every state.

Left out: the blob's TTL, timestamps, JPEG bytes, log lines, source frames that
are not sampled, and cancellation of the request task by a server shutdown.

### Runs

| Run | Instance | Shows |
|---|---|---|
| `pipeline_safety` | 2 publishers, 5 frames, queue of 1, checkpoint every 2, four prior records; publishers symmetric | type correctness; blob before reference; at most once; the truthful return; the seam gap, overtaking and lookahead bounds; checkpoints not ahead of the confirms; the run implements `DispatchLedger` |
| `pipeline_single` | 1 publisher, 5 frames, queue of 2, checkpoint every 2, four prior records | the documented claims (no gap, dispatch order) and the checkpoint's lag and monotonicity |
| `pipeline_liveness` | 2 publishers, 3 frames, queue of 1, `FairSpec` | every run ends |
| `pipeline_gap` (violation) | 2 publishers, 3 frames, checkpoint every confirm | `NoGapAtSeam` fails |

Two publishers are enough for every race of a pair of tasks, and the bounds
(`Cardinality(Workers) - 1` and so on) are tight there. A queue of one slot makes
the decode thread and `run()` both wait for room; with five frames there can be
one in every place at once (in the thread's hand, in the queue, with either
publisher) and one more, so that a missing bound would show. The prior records
are a fresh one, one after a single confirmed frame, one after a decode failure,
and one after more confirms than a checkpoint interval. All failures (decoder, Redis, RabbitMQ) and the hang-up
may happen at any step. The state spaces are finite without a state constraint.

Deadlock is checked: `Finished` lets a finished run stutter, so any other state
without a successor would be reported.

### Fairness

`FairSpec` assumes that the decode thread is scheduled, that the event loop gives
every ready task a turn, and that each call returns or raises. asyncio's ready
queue is first-in first-out and `Queue` wakes waiters in order; the clients of
Redis and RabbitMQ end a call that cannot complete with an error. Nothing is
assumed of the client, and no call is assumed to succeed. Weak fairness is enough
because a task that is ready stays ready until it runs, with one exception: two
tasks waiting on the same queue. There the one that is not served becomes ready
again only when the queue has another item; sentinels are as many as publishers,
which is what makes the run end.

### Findings

* `pipeline_gap`: with more than one publisher (the default is 4) `last_source_index`
  is the highest confirmed index, not the end of the confirmed prefix. A frame that
  an earlier publisher still holds, or loses to an error, is passed over by a
  checkpoint, and a resumed run never sends it. The documentation says "No gap at
  the seam" (`src/README.md:381`) and "a checkpoint never claims progress the
  broker did not accept" (`messages.py:86-88`). `SeamGapBounded` says how bad it can
  get: one frame per publisher other than the one that wrote the checkpoint. For the
  service it means that a job with a lost frame, resumed, answers 200 COMPLETED without
  it; `AnswerTruthful` and `RecordTruthful` of `AnalysisService` bound how many frames
  that can be over a chain of attempts, and are exact for one publisher.

The same cause breaks the order of frames: each publisher awaits its own Redis put, so
with more than one of them the frames of a video can reach their partition queue out of
order, though `rabbitmq.py:109-110` and `src/README.md:308` promise it. No run
repeats the counterexample; `OvertakingBounded` is the bound that holds (a frame is
overtaken by fewer than there are publishers), and `DispatchOrder` is checked and proved
for one publisher.

### Proofs (`FramePipelineProofs`)

The theorems hold for every number of publishers, frames and queue slots, every
checkpoint interval and every set of prior records that satisfies the assumptions
of the module (`WorkersAssumption` and so on).

The inductive invariant `IInv` is the conjunction of

* `TypeInv`: `TypeOK`, with the facts that a publisher holds a frame exactly while
  a call for it is outstanding, and that the sampler's cursor is never behind its
  first slot (past it when the thread has a frame in hand);
* `SentinelInv`: sentinels enter the queue only after the decode thread has ended,
  so no frame is ever behind one, and after a publisher has stopped none is left;
* `PlaceInv`: a frame the thread has let go of is in one place (undecodable,
  queued, with one publisher, sent), and the queue is in video order with
  everything that left it earlier than what is still there;
* `BlobInv`: what is published, or about to be, is stored;
* `CoverageInv`: until something raises, every frame let go of is accounted for,
  and the two counters are the cardinalities of the two history sets.

`TypeOK` alone is not inductive (a held `STOP` could be stored), and neither is
`DispatchedAtMostOnce`: nothing in it prevents the queue from holding a frame that
was already sent. `TypeCorrect`, `AtMostOnce`, `BlobFirst` and `TruthfulReturn`
follow from `IInv`. The lemmas `AppendFacts` and `TailFacts` reduce the queue and the
log to sets, so that the steps need no index arithmetic.

### Proofs (`FramePipelineBounds`)

The quantitative results need to know where a frame that was passed over is.
`Charged(h)` says it: `h` assigns to each publisher the frame it holds, or held
when a call of its failed, such that everything up to a frame already taken was
sent, was undecodable or is charged to somebody; and for each sent frame some
publisher has gone on to a later one or holds none. `ChargeInv` (some `h` is a
charge) is inductive with `IInv`: a publisher that takes a frame is charged with
it, one whose call raises stays charged with what it lost, and from then on nobody
takes a new one. The frames that an index passes over are then charged to the
publishers other than one, so they are at most as many (`EarlierAreCharged`,
`FewerThanPublishers`). `CheckpointInv` says that every index in or on its way to
the job record was confirmed.

`CheckpointBehind`, `SeamGapIsBounded`, `OvertakingIsBounded` and
`LookaheadIsBounded` follow for any number of publishers. With one publisher the
bounds are zero, which gives the documented claims: `OnePublisherNoGap` and
`OnePublisherOrder`. `NoGapAtSeam` and `DispatchOrder` are thus false for two
publishers (run `pipeline_gap` for the first) and theorems for one.

With one publisher the record also follows the confirms closely. `LagInv` says that
what was confirmed since the record was last written is counted by `since_checkpoint`,
or by the checkpoint call under way, and that a publisher whose call failed never
begins another; then `OnePublisherLag` (a crash forgets at most `CheckpointEvery`
confirms) and `OnePublisherMonotone` (no step takes the record back). With two publishers
two checkpoints may be on their way at once and arrive in either order; then neither holds.

Only model-checked: `Termination`.

### The promise (`DispatchLedger`) and its proof (in `FramePipelineBounds`)

The ledger has no tasks, no queue and no order of work: it says which references were
accepted and confirmed, what was given up, what the job record says, and what
`run()` came to. Each frame a run owes is sent at most once and never after it was
given up; a checkpoint points at a confirmed frame and counts no more than was
confirmed and given up; a run that reports the end has heard of every frame it owed; a
run that reports an abort has done so up to where it stopped; and when it is over nothing
of it is left that could still send or write. `Ledger` in `FramePipeline` is the
refinement mapping; only `Outcome` is not a variable of the run itself.

`LedgerImplemented` proves it for every instance. On top of `IInv` and the bounds it
needs `SnapInv`: a checkpoint that is waiting for Redis points at a frame this run
confirmed and counts upwards from the record it resumed, and the watchdog ends with
the decoding. `NothingLeft` shows that neither the thread nor a publisher nor the
watchdog can step once `run()` is over, `ReturnComplete` (of `FramePipelineProofs`) that
what it returns is settled; then each action is a step of the ledger or a stutter
(`DecodeStep`, `PublisherStep`, `RunStep`, `OtherStep`).

## 4. Detector

### Correspondence

| Model | Code |
|---|---|
| `ready`, `redelivered`, `acked`, `dead`, `active` | the partition queues, RabbitMQ's redelivered flag, settled and dead-lettered messages, the single active consumer of each queue |
| `Deliver`, `fetched` | the broker's delivery within the prefetch, and `_pump`; the pumps of several partitions may interleave in any order before the inbox |
| `unacked` | the channel's unsettled deliveries in delivery-tag order |
| `Promote` | `x-single-active-consumer` |
| `TakeDelivery`, `ShedStale`, `LoadFails`, `Reject`, `Detected`, `Claim`, `ClaimFails`, `Duplicate`, `Add`, `Count` | `_handle` with `FrameProcessor.process`, one step per await |
| `pending`, `flushing`, `flusher`, `sunk` | `ResultBatcher._pending`, the batch swapped out by `_flush_locked`, who holds the lock, whether the sink has taken the batch |
| `AgeFlush`, `StopFlush`, `SinkAccepts`, `SinkFails`, `AckBatch` | the age watchdog, `stop()`, the three outcomes inside `_flush_locked` |
| `CountRaises`, `Sigterm`, `Exit`, `Crash`, `Restart` | the `finally` blocks of `DetectorWorker.run` and of `main.run`, the container |
| `claimed`, `processed` | dedup keys and `frames_processed` in Redis |
| `reported`, `shed` | history: results received by the next service, messages acknowledged as stale |

A message is its publish position; `FrameOf` says which frame it names, so that a
resumed job can publish one frame twice. Every step between two awaits is one
action; the batcher's lock is `flusher`. The sink may raise with or without having
delivered; the claim and the count may raise with or without effect. A cancelled
flush (SIGTERM, a dead consume loop) leaves the sink's thread running: the batch is
then delivered or not, and nothing is settled. The age of a batch and of a frame
are nondeterministic moments. Requeued messages return to their places, as
RabbitMQ does it for a queue with one consumer.

Left out: malformed bodies (dead-lettered by the pump before they are deliveries),
a broker connection lost while the process lives, and with it acks that raise; the
channel error that follows the ack of a tag already settled; TTLs of blobs and dedup keys
(so "at most once" is for the hour a key lives); a delivery by an abandoned sink
thread later than the step that abandoned it; the bound of the inbox, which the
per-consumer prefetch of one partition already implies.

### Runs

| Run | Instance | Shows |
|---|---|---|
| `detector_safety` | 2 symmetric replicas, 1 partition, 4 messages of which the last repeats the first frame, prefetch 2, batches of 2, every fault but a failing claim, 1 interruption, 1 failed flush | types; no frame reported twice; losses at most a batch per interruption or failed flush; the cumulative ack settles exactly the batch; no delivery leaks; the drift of `frames_processed`; only a requeued frame is ever overtaken; the replicas with RabbitMQ implement `WorkQueue` |
| `detector_liveness` | 1 replica, prefetch 2 below the batch size 3, failing claims too, `FairSpec` | every message ends acknowledged or dead-lettered |
| `detector_loss` (violation) | 2 replicas, 2 messages, one crash | `NoSilentDrop` fails |
| `detector_cumulative_ack` (violation) | 1 replica, 2 partitions, 3 messages, no fault | `MultipleAckSafe` fails |

Two replicas are a consumer and the standby that takes over; one partition is what
one video sees. Four messages fill a batch, start the next and leave one requeued
or repeated; a batch of two has a first and a last member. One interruption and one
failed flush combine in every order; the bounds of `LossBounded` and `CounterDrift`
are stated per interruption, so they say the same of more. With no interruption
and no failed flush `LossBounded` is `NoSilentDrop`. `ReportedAtMostOnce` needs
Redis to answer, since the claim fails open: that fault is in the liveness run
only. Several partitions are left to `detector_cumulative_ack`, because there the
safety run's `MultipleAckSafe` fails.

Deadlock is checked; `Idle` stutters once everything is settled.

`WorkQueue` is the promise of the broker ports: a published reference is queued, with a
consumer, or settled, never two of these; it is handed out again until it is settled;
what comes back is marked `redelivered`, whether it was requeued by the code or left behind by a
crash; and what was never handed out leaves its queue in publish order. It knows no
channels, tags, batches or replicas. `Queue` in `Detector` maps the ready lists, the
unsettled deliveries of all channels and the settled ones to it.

### Fairness

`FairSpec` assumes that RabbitMQ delivers while a consumer has room and promotes a
standby, that the consume loop and the batch timer of each replica get their turn
on the event loop, that calls return or raise, and that a container which went down
comes back (`restart: unless-stopped`). Interruptions and failures are not fair and
are bounded by `MaxInterruptions` and `MaxSinkFailures`; no call has to succeed.

### Findings

* `detector_loss`: the dedup key is claimed before the result is flushed and is
  never released. After a crash with a claimed frame in the buffer the broker does
  redeliver it, but the redelivery is acknowledged as a duplicate and the result is
  lost, against `src/README.md:332`, `batching.py:16-18` and `consumer.py:11`. A flush
  that fails loses its batch the same way (`batching.py:123-124`), and so does a SIGTERM
  that cancels a flush. `LossBounded` says how much: one batch each.
* `detector_cumulative_ack`: deliveries of several partitions share a channel and
  an inbox, and the inbox need not be in tag order; the cumulative ack of a batch
  then settles deliveries that are still waiting, against `batching.py:129-132`.

Results of one video may be sent out of publish order, though `src/README.md:303-309`
promises order per video: a frame requeued after a transient failure comes back
behind its prefetched successors, and a clean shutdown closes the connection before
the final flush (`main.py:83-87`), so that a standby may report later frames first.
`OvertakenOnlyIfRedelivered` is what holds: only a frame that went back to its queue
is overtaken.

### Proofs (`DetectorProofs`, `SubsequenceProofs`)

For any number of replicas and messages and any sizes and bounds. The actions are
first reduced to what they do to the one replica they are of (`DeliverStep`,
`SettleStep`, `SwapStep`, ... and an effect lemma for each; `Steps` joins them), so that an
invariant about each replica is shown once for the replica that moves and once for the
others. Everything rests on `Sound`: types, and for each replica how the states of its
loop, its lock and its batches go together (`Local`).

| Theorem | Inductive invariant |
|---|---|
| `NoFrameTwice` | `Once`: every claimed key stands for one result, in one handler's hand, in one batch, or reported |
| `DetectorTypes`, `AcknowledgementIsExact`, `NoDeliveryLeaks` | `OneQueue`: a message is ready, held by one replica, acknowledged or dead (`Placed`), and the unsettled deliveries of a replica are, in this order, its batch, the delivery at hand and the inbox (`Aligned`) |
| `DetectorImplementsQueue` | the same; every step takes one message, gives some back or settles some (`Moves`), and each of these is a step of `WorkQueue` or a stutter |
| `LossIsBounded` | `Accounted`: what was settled was claimed, and the claimed frames that nobody holds or has reported (`Gone`) are at most a batch for each interruption or failed flush |
| `DriftIsBounded` | `Counted`: the counter with the counts still due, against the reports with the results still held, summed over the replicas (`Total`) |
| `OrderIsKept` | `Sequenced`: but for messages that went back to their queue, what waits for the first time comes after all that has left the queue, each replica's deliveries are in order, and nothing it still holds comes before a result reported or held elsewhere (`Ranked`) |

Two hypotheses. `NoFrameTwice` holds for any number of partitions but assumes that no
claim fails (`"claim" \notin Faults`), because the code then goes on as if it had
claimed. The others assume one partition, and no more: with two, deliveries of one are
acknowledged with a batch of the other, so that `Aligned` is false, as
`detector_cumulative_ack` shows. `ReportedAtMostOnce` alone is not inductive (nothing in it
stops two batches from holding one frame), nor is `MultipleAckSafe` (nothing in it says
that the inbox lies behind the batch on the channel). A loop that dies keeps its
connection open for a moment, with nothing in its hands; `Aligned` has a case for it.

The lemmas of `SubsequenceProofs` say what `Only` and `Without` (module `Subsequence`)
leave of a sequence: the elements asked for, in their order, each once if it was there
once (`OnlyListed`, `OnlyIsWithin`), and what cutting out a block leaves (`CutOut`). They
are stated by ranks rather than recursively, which is why they can be proved.

Only model-checked: `EventuallySettled`.

## 5. AnalysisService

### Correspondence

| Model | Code |
|---|---|
| `Invalid`, `BadPath` | a body that `AnalyzeRequest` refuses; `resolve_video_path`, which refuses before a slot is taken |
| `Admit`, `Unavailable`, `Close` | `analyze`: the semaphore, `_require_infrastructure`, `source.close` and the release of the slot |
| `Unopenable` | `OpenCVVideoSource.__init__`: no video, or metadata that cannot be used |
| `Turned`, `Reserve` | the 422 and 409 of `_analyze`, and `_in_flight.add` |
| `Status`, `Outcome`, `HttpStatus` | the status the record gets, the job or error the client gets, and the handlers of `errors.py` |
| `ReadPointer`, `ReadRecord` | `_find_checkpoint`: the two reads of `find_by_resume_key`, then the decision |
| `Start` | `jobs.create` for a fresh job, `set_status(RUNNING)` for a resumed one |
| `DecodeFrame`, `SkipFrame` | the decode thread, which counts failures ahead of what is still queued |
| `TakeFrame`, `BrokerAccepts`, `Confirm`, `Checkpoint`, `CallRaises` | the publishers: which frame has its put or publish, its confirm, its checkpoint outstanding, and what a call that raises leaves behind |
| `HangUp`, `RunReturns` | the watchdog; the gather at the end of `run()` |
| `Save`, `Mark` | the last checkpoint and the status of `_record_failure` and `_finalise`, the answer, the release of the reservation |
| `Escape` | an exception nobody catches: a Redis error, or the decoder's |
| `Silence` | 120 s (`STALE_RUNNING_JOB_SEC`) without a write to a record |
| `slots`, `in_flight` | `_slots` and `_in_flight` of each process |
| `jobs`, `pointer`, `stale` | job hashes, `resume:` pointers, the age of `updated_at` |
| `run`, `cursor`, `verdict` | `RunState`, the sampler, the pair `run()` returns |
| `queue`, `publishing`, `confirming`, `snapshots` | the queue's frames, and those that publishers have in hand; the arguments of checkpoint calls, read before the await |
| `sent`, `undecodable`, `lost` | history variables; no guard reads them |

What runs between two awaits of a request is one action. A job is named by the
request that created it. The run is that of `FramePipeline` with the identity of its
tasks taken away: `Publishers` bounds the calls under way (`Busy`), frames are taken in
order and confirmed in any order, the index of `RunState` is the highest confirmed one,
and the checkpoints of two publishers may arrive in either order. The queue has no bound
here, the blob's put is part of the publish, and any confirm may be the one that makes a
checkpoint due; each of these allows more than the code. A call that raises may have
taken effect or not. A server that shuts down is a crash, or an exception that
escapes. Left out: TTLs of records and pointers and error texts (`Stores` has them, with
what an expiry does between the two reads of the lookup), metrics, the shape of
responses, and `frames_processed`, which `Detector` and `Stores` model.

### Runs

| Run | Instance | Shows |
|---|---|---|
| `service_safety` | 1 process, 2 publishers in each run, 3 symmetric requests for one video and rate, 2 slots, 2 frames, half of them may fail, 1 interruption | types; one run per key; no leaked slot or key; records and answers claim no more than the bound of unsent frames; resends and orphaned records bounded by the interruptions; progress goes back only within a run |
| `service_one_run` (violation) | 2 processes, 1 publisher, heartbeats kept, nothing fails but clients hang up | `OneRunPerJob` fails |

Three requests and two slots give a 429, a 409 and a resumption of a resumption; a
job with two frames has a checkpoint that is neither empty nor complete, and with the
ratio at one half both a PARTIAL and a FAILED end. With two publishers and two frames the
second is confirmed, checkpointed and resumed after while the first is lost, and the two
checkpoints of a run arrive in either order. The bounds are stated per interruption and
per publisher other than one, and are reached: without the term for the interruptions
`RecordTruthful` and `AnswerTruthful` fail, without that for the runs under way
`RecordTruthful` does, and without its exception `ProgressKept`. With one publisher they
say that nothing claimed is missing and that no step takes a record back. A live run that
is silent for 120 s is left out of this run: in one process its key is reserved, so that
nobody asks. Several processes are left to the violation run because two of them
may work on one job, and then the progress of a record, too, is that of whoever
writes last.

Deadlock is checked; `Idle` stutters once every request is answered. No liveness
property is stated: that a request is answered rests on the run's end, which
`pipeline_liveness` checks.

### Findings

* `service_one_run`: `_find_checkpoint` reads the record, `set_status(RUNNING)` is a
  later write that tests nothing, and the 409 guard is per process. Two processes that
  are asked for the same video both resume its job, against `src/README.md:563-564`
  and `analysis_service.py:46-49`. Within a process it cannot happen (`OneRunPerKey`).

Observed, and not against any statement of the repository: an exception that escapes
leaves the record RUNNING until a resubmission finds it stale; a resubmission within
120 s of a crash starts a fresh job and takes the resume pointer, so the crashed one
is never resumed; `frames_failed` counts a frame again each time a resumed run meets
it after the checkpoint, so that a PARTIAL job may become FAILED (`RecordTruthful`
bounds the count by one for each attempt and undecodable frame); a resumed job that
completes keeps the error text of the attempt that failed.

### Proofs (`AnalysisServiceProofs`)

For any number of processes, requests, keys, slots, frames and interruptions that
satisfies `RequestsAssumption` and `SizesAssumption`. The invariant `ServiceInv`
adds to `TypeOK` that a request past the choice of its job has one (`HasJob`), that
each process's semaphore counts the requests under way (`SlotsInv`), and that its
reservations are the keys of those that hold one, each held once (`ReservedInv`,
`OneRunPerKey`). `TypeOK` is not inductive (nothing in it stops a release from
taking the semaphore past its size), and neither is `OneRunPerKey` (a release could
take away another's reservation). Each request enters or leaves the set that is
counted one at a time (`SlotEntered`, `SlotLeft`), except in a crash (`CrashKeeps`).
`ServiceTypeCorrect`, `OneRunPerKeyInProcess` and `NothingIsLeaked` follow.

### Proofs (`AnalysisServiceHistory`)

What a record says rests on a chain of attempts: a run starts from a record, adds to
it, writes it back or dies, and the next run starts from what was written.
`HistoryInv` follows the chain. Of a run it says where the frames are: what is queued
comes after what was ever in a publisher's hand, each publisher holds one frame or has
lost one, and what the run has confirmed, read into a snapshot or sent is as its counters
say (`WorkInv`, `RunInv`). Of an index, in a record, a snapshot or a run's state, it
says that every frame up to it was sent, could not be decoded, or was passed over by some
request of the job, which has it in hand or lost it (`Claims`, `Covered`). A request that
was interrupted, or goes on, passes over at most one frame for each publisher other than
the one that confirmed the index; `FewMissing` adds these up over the interrupted requests
of a job and those under way (`UnionBound`), which is the bound of `RecordTruthful` and
`AnswerTruthful`. The invariant is inductive for any number of processes, since a process
that overwrites another's record writes something that is covered as well:
`RecordsAreTruthful`, `AnswersAreTruthful`. `JobsInv` adds that a request under way on a
job works on its own key and that the interrupted requests of a key are at most the
interruptions; `OrphansAreBounded` counts for each key the records that say
RUNNING with nobody at work, of which an interruption adds at most one.

`OneProcess` is the hypothesis of the remaining three, and run `service_one_run` shows
why: two processes may resume one job. Within one process at most one request works on
a key, so its run is never behind its record except by a snapshot that is not behind what
the run resumed (`AheadInv`, `SnapInv`), and a frame sent
beyond what records and runs count was sent by an attempt that was interrupted
(`SentInv`). Then `ResendsAreBounded`, `ProgressIsKept` and `OneRunPerJobInProcess`, for
any number of publishers; the last states for one process what the violation run refutes
for two.

## 6. FrameSampler

| Model | Code |
|---|---|
| `stride` | `_stride`, an exact `Fraction`, here a pair of integers |
| `SourceIndexForSlot`, `SlotAfterSourceIndex`, `ExpectedFrameCount` | the methods of the same names; `math.ceil` and `floor` by integer division |
| `Grab` | one turn of `iter_sampled`'s loop with `FrameSampler.take` |
| `Resume`, `StartAfterSeek` | a later run: `start_slot` from the checkpoint, a new sampler, `_seek_to` |
| `taken` | history: what this run and those it resumes have sampled |

A resumed run keeps the samples up to the checkpoint and seeks to its first index;
the seek may land anywhere, before it, on it or after it. The position the backend
reports after a seek is taken to be the true one. The conversion of a float rate to
a `Fraction` and the validation of rates are the assumption on `Strides`.

The run `sampler` takes all strides of at least one with numerators up to 9 and
denominators up to 4, those of 25 and 30000/1001 frames a second at the two rates the
API accepts, and videos up to 20 frames, resumed at any point any number of times;
these hold every rounding case (a stride that is whole, with half-way points, and
without) and several periods of the small strides.

### Proofs (`FrameSamplerProofs`)

For every set of strides and every length of video. `Division` states what integer
division gives; `FloorAtLeast` and `CeilingAtMost` turn floors and ceilings into
products; `PastIndex` and `ResumeSlot` show from them that the slots past an index are
those from `SlotAfterSourceIndex` on, and `Increasing` that the slot after a slot's
index is the next one. The invariant `SamplerInv` says that the cursor is the slot
after the last sample and that the loop has not passed its index; it is inductive
because a seek that lands past the target is not used. Then `SamplerTypeCorrect`,
`SamplesExact`, `ResumeSlotFirst` and `CountExact`: all properties of the run.

## 7. Adapters: InMemoryBroker, PublisherChannel, Stores

### Correspondence

| Model | Code |
|---|---|
| `InMemoryBroker`: `Publish`, `NextDelivery`, `Ack`, `AckBatch`, `NackRequeue`, `NackDead`, `Close` | `InMemoryBroker`, `InMemoryFramePublisher`, `InMemoryDelivery` and the consumer of `memory.py`; who settles is a consumer that acknowledges one delivery or a batch, as the detector does |
| `PublisherChannel`: `UseChannel`, `StartConnecting`, `Connected`, `Declared`, their failures, `Published`, `CloseConnection` | `_ensure_channel`, `publish`, `ping` and `close` of `RabbitMQFramePublisher`, one step per await; `Lose` is a channel the broker or the network closes |
| `Stores`: `Create`, `SetStatus` (in `Resume` and `Finish`), `Checkpoint`, `IncrementProcessed`, `GetJob` | the job repositories of `redis_store.py` and `memory.py`, given the same call in the same step |
| `Stores`: `ReadPointer`, `ReadRecord`, `Resume` | `find_by_resume_key` in its two reads, and the `set_status` of the request that resumes what it found; `FoundDouble` is the double's search |
| `Stores`: `PutBlob`, `GetBlob`, `Claim`, `Tick` | the frame stores, the dedup guards, and the clock by which Redis drops what expires |

The three share no state. `MCAdapters` puts them side by side, and a behaviour
exercises the one that `part` names. In `Stores`, the calls are those the two services
make: a run creates or resumes a job, checkpoints it and sets its status, or dies in
between; detectors claim keys and count frames at any time, after the job's TTL as well.
Calls are atomic but for the lookup, whose two reads are steps of their own: between them
the record may expire, a new job may take the pointer, or a write may come after the
record's end. Any number of lookups, for requests of any process, may be under way
(`named`, `resuming`). The pointer's TTL ends with its record's or later: `create` gives
both the same one in one transaction, nothing renews either, and Redis evicts nothing
(`noeviction`, `docker-compose.yml:56`), so that it outlives its record, which
`redis_store.py:112-113` calls normal, by moments only; the model lets it be a whole unit
of time. Calls that fail and a claim that fails open are in `AnalysisService`,
`FramePipeline` and `Detector`, where their callers are.

### Run

| Run | Instance | Shows |
|---|---|---|
| `adapters` | broker: 3 envelopes; channel: 3 callers, 2 lost channels, 1 failed set-up; stores: 2 jobs of one key, 1 frame, a job TTL of 2 and a frame TTL of 1 with the clock to 4, counts up to 2 | types; the double implements `WorkQueue`; what it settles early was redelivered; open connections are bounded; Redis and the doubles answer alike |

Three envelopes are a batch, one requeued behind it and one not. Three callers can all be
connecting when a channel appears, and two losses let that happen again to those that are
behind. Two jobs are the one the pointer names and an older one; with a TTL of 2 and a
clock to 4 a job expires, is written to or looked up afterwards, and a second one expires
after it. Callers, and jobs, are interchangeable. Deadlock is checked.

`AnswersAgree` is what a test on a double may be taken to say of Redis: until its TTL ends a
job reads the same from both, but for the error text; the pointer names the job that
the double's search finds, for as long as any job can be read; a blob is there or gone for both at the
same moment; and a key claimed in Redis is claimed in the double.
It also says what no single write shows (`LookupsAgree`): a hash written to after its TTL
cannot be read, and a lookup that comes to such a hash, or to one that has gone, misses no
job that it could resume but those created since it read the pointer. The exception is
real: without it the run finds a violation, and so it does for the stronger claim
that the pointer never outlives its record.

Observed, where the two sides or the intention and the code part:

* `set_status` without an error leaves the old text in Redis and clears it in the
  double, so a resumed job that completes shows an error only in production.
* A count or a checkpoint that comes after the TTL leaves a hash with a few fields and
  no TTL; `GET /jobs/{id}` then fails validation and answers 500, for good. The double
  ignores such a write.
* A lookup whose second read comes after the record's end finds nothing, and the request
  starts afresh; when a late write has come before it, the read fails validation and the
  request is answered 500. A record that ends between the lookup and `set_status(RUNNING)` is
  resumed as a hash without a TTL. The double finds the record in each case.
* A dedup key of the double never expires.
* A requeued envelope of the double keeps its tag and goes to the tail, while RabbitMQ
  gives it a new tag and its old place; a later cumulative ack of the double may
  therefore settle it while it is being worked on (`EarlyOnlyIfRedelivered` is the limit).
  Its `close()` requeues nothing.
* Publishers that find no channel at the same moment each connect. The connections that
  are overwritten stay open, after `close()` too; `ConnectionsBounded` says how many.

### Proofs (`AdapterProofs`)

* Broker double: `BrokerInv` says where envelopes are (`Handed`, `Waiting`): what waits
  for the first time was published after all that has come back and all that waits
  before it, and what was settled under the consumer's hands had come back before (`Kept`).
  `EarlySettlement` follows, and `BrokerImplementsQueue`: each step of the double is one
  of `WorkQueue` or a stutter.
* Shared channel: `ChannelInv` keeps a `Book` of who connected because of which unusable
  channel. A caller does not find the same channel unusable twice, so the open
  connections are at most the entries of the book and the failed declarations; those of
  a caller that has gone on belong to a channel that was lost or overwritten.
  `OpenConnections` is the bound, for any number of callers.
* Stores: `StoreInv` says that a hash is whole exactly while it has a TTL (`HashInv`),
  that jobs expire in the order in which they were created (`OrderInv`), that the pointer
  names the newest of them and does not go before it (`PointerInv`),
  and that Redis drops a blob at the moment the double finds it expired (`BlobInv`). A job
  that a lookup was given was created (`Created`), so that whatever can still be read when
  it has gone is newer.
  `StoresAgree` follows, for any jobs, frames and TTLs.
* `AdapterTypes` for the three side by side.

## 8. Not modelled

* How a path is resolved and compared with the video root, the hashes that make ids,
  partitions and resume keys, and the fields of requests and responses: computations on
  strings without state. Their outcomes (a refused path, a key, a partition) are in the
  models.
* The health endpoint, which reads two probes and keeps nothing (the probe's use of the
  shared channel is in `PublisherChannel`), logging, metrics, settings and wiring.
* Message bodies that do not parse, which the pump dead-letters before they are
  deliveries, and a broker connection that is lost while the detector lives.
* Cancellation of a request task by a server shutdown, other than as a crash or as an
  exception that escapes.
* The detector itself and the handler of its results: they are stubs, and their outcome
  is a nondeterministic choice in `Detector`.
