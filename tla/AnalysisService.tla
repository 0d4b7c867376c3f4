--------------------------- MODULE AnalysisService ---------------------------
(***************************************************************************)
(* The analysis service: the life of the jobs that POST /analyze creates   *)
(* (video_analyzer/services/analysis_service.py) and of their records in   *)
(* Redis (RedisJobRepository).                                             *)
(*                                                                         *)
(*   admit -> open, reserve -> find a checkpoint -> create or resume ->    *)
(*   run -> checkpoint -> status -> close                                  *)
(*                                                                         *)
(* One action is what runs between two awaits of a request.  The dispatch  *)
(* run is that of FramePipeline without its tasks: frames are decoded and  *)
(* taken in order, and several publishers store, publish and confirm them, *)
(* and write checkpoints, in any order.                                    *)
(***************************************************************************)
EXTENDS Integers, FiniteSets

CONSTANTS
    Replicas,           \* analyzer processes
    Requests,           \* POST /analyze requests
    Keys, KeyOf,        \* resume keys (a video at a rate), and that of each request
    MaxConcurrentJobs,  \* max_concurrent_jobs
    NumFrames,          \* frames to sample from each video
    Publishers,         \* analyzer_publishers
    RatioNum, RatioDen, \* max_frame_failure_ratio
    LiveMayBeSilent,    \* can a live run pass 120 s without a checkpoint?
    MaxInterruptions,   \* bound on crashes, and on runs and requests that fail
    None

Frames == 0 .. NumFrames - 1

ASSUME RequestsAssumption ==
    IsFiniteSet(Requests) /\ KeyOf \in [Requests -> Keys] /\ None \notin Requests
ASSUME SizesAssumption ==
    /\ MaxConcurrentJobs \in Nat \ {0} /\ NumFrames \in Nat /\ MaxInterruptions \in Nat
    /\ Publishers \in Nat \ {0}
    /\ RatioNum \in Nat /\ RatioDen \in Nat \ {0} /\ LiveMayBeSilent \in BOOLEAN

VARIABLES
    up,             \* is the process running
    slots,          \* _slots, the semaphore's value
    in_flight,      \* keys of _in_flight
    host,           \* the process that serves a request
    state, answer,  \* where the request is, and what it was answered
    job_id,         \* the job it works on, named by the request that created it
    prior, run,     \* the progress it resumes, and its RunState: confirmed, failed, last
    cursor,         \* the next frame its decoder samples
    queue,          \* frames decoded and not taken by a publisher
    publishing,     \* frames with a publisher, not accepted by the broker
    confirming,     \* frames accepted whose confirm has not arrived
    snapshots,      \* checkpoint calls under way, with what they write
    verdict,        \* how its dispatch run ended, or is going to
    jobs, pointer,  \* job records and resume pointers in Redis
    stale,          \* records older than STALE_RUNNING_JOB_SEC
    sent,           \* history: how often each frame of a job was accepted by RabbitMQ
    undecodable,    \* history: frames of a job that could not be decoded
    lost,           \* history: frames a request's run gave up, their call having raised
    interruptions

process == <<up, slots, in_flight>>
work == <<queue, publishing, confirming, snapshots>>
local == <<job_id, prior, run, cursor, work, verdict>>
redis == <<jobs, pointer, stale>>
history == <<sent, undecodable, lost>>
vars == <<process, host, state, answer, local, redis, history, interruptions>>

-----------------------------------------------------------------------------
Key(r) == KeyOf[r]

\* States that hold the reservation, an admission slot, a job that is being run.
Reserving == {"pointer", "record", "resuming", "creating", "running", "saving", "marking"}
Admitted == Reserving \cup {"opening", "closing"}
Live == {"running", "saving", "marking"}

NoProgress == [confirmed |-> 0, failed |-> 0, last |-> -1]
NoRecord == [status |-> "absent", confirmed |-> 0, failed |-> 0, last |-> -1]

\* The progress in a record, and RunState.resuming.
Progressed(record) ==
    [confirmed |-> record.confirmed, failed |-> record.failed, last |-> record.last]
Seeded_Fresh(record) == NoProgress
Seeded(record) == Progressed(record)

\* The first slot after the checkpoint.
StartSlot_Repeats(record) == IF record.last < 0 THEN 0 ELSE record.last
StartSlot(record) == record.last + 1

\* _find_checkpoint's conditions.
Resumable(j) ==
    /\ jobs[j].last >= 0
    /\ \/ jobs[j].status \in {"FAILED", "PARTIAL", "CANCELLED"}
       \/ jobs[j].status = "RUNNING" /\ j \in stale

TooManyFailures(r) == run[r].failed * RatioDen > RatioNum * (run[r].confirmed + run[r].failed)

\* The order in which _analyze and _finalise look at the outcome of a run.
Status(r) ==
    CASE verdict[r] = "error" \/ TooManyFailures(r) -> "FAILED"
      [] verdict[r] = "aborted" /\ ~TooManyFailures(r) -> "CANCELLED"
      [] verdict[r] = "ended" /\ ~TooManyFailures(r) /\ run[r].failed > 0 -> "PARTIAL"
      [] OTHER -> "COMPLETED"

\* What the client of a finished run is told: a job's status or an error code.
Outcome_ErrorForgotten(r) ==
    CASE verdict[r] = "aborted" -> "CANCELLED"
      [] verdict[r] # "aborted" /\ run[r].failed > 0 -> "PARTIAL"
      [] OTHER -> "COMPLETED"
Outcome(r) ==
    CASE verdict[r] = "error" -> "dispatch_incomplete"
      [] verdict[r] # "error" /\ TooManyFailures(r) -> "video_mostly_undecodable"
      [] OTHER -> Status(r)

\* The HTTP status of an answer.
HttpStatus(a) ==
    CASE a \in {"COMPLETED", "PARTIAL", "CANCELLED"} -> 200
      [] a = "invalid_file_path" -> 400
      [] a = "video_not_found" -> 404
      [] a = "job_already_running" -> 409
      [] a = "undecodable_video" -> 415
      [] a \in {"validation_error", "unusable_video_metadata", "invalid_frame_rate",
                "video_mostly_undecodable"} -> 422
      [] a = "too_many_concurrent_jobs" -> 429
      [] a = "internal_error" -> 500
      [] a = "dispatch_incomplete" -> 502
      [] a = "infrastructure_unavailable" -> 503
      [] OTHER -> 0

\* The reservation of r's key is taken back.
Released_Kept(r) == UNCHANGED in_flight
Released(r) == in_flight' = [in_flight EXCEPT ![host[r]] = @ \ {Key(r)}]

\* A request refused with 409 leaves the reservation to its owner.
Refused_Unreserves(r) == Released(r)
Refused(r) == UNCHANGED in_flight

Init ==
    /\ up = [p \in Replicas |-> TRUE]
    /\ slots = [p \in Replicas |-> MaxConcurrentJobs]
    /\ in_flight = [p \in Replicas |-> {}]
    /\ host \in [Requests -> Replicas]
    /\ state = [r \in Requests |-> "new"] /\ answer = [r \in Requests |-> "none"]
    /\ job_id = [r \in Requests |-> None]
    /\ prior = [r \in Requests |-> NoProgress] /\ run = [r \in Requests |-> NoProgress]
    /\ cursor = [r \in Requests |-> 0] /\ verdict = [r \in Requests |-> "none"]
    /\ queue = [r \in Requests |-> {}] /\ publishing = [r \in Requests |-> {}]
    /\ confirming = [r \in Requests |-> {}] /\ snapshots = [r \in Requests |-> {}]
    /\ lost = [r \in Requests |-> {}]
    /\ jobs = [j \in Requests |-> NoRecord] /\ pointer = [k \in Keys |-> None]
    /\ stale = {}
    /\ sent = [j \in Requests |-> [f \in Frames |-> 0]]
    /\ undecodable = [j \in Requests |-> {}]
    /\ interruptions = 0

-----------------------------------------------------------------------------
(* Steps of a request.                                                     *)

Goes(r, s) == state' = [state EXCEPT ![r] = s]
Answered(r, a) == answer' = [answer EXCEPT ![r] = a]
SlotReturned_Twice(r) == slots' = [slots EXCEPT ![host[r]] = @ + 2]
SlotReturned(r) == slots' = [slots EXCEPT ![host[r]] = @ + 1]

Interrupted ==
    /\ interruptions < MaxInterruptions
    /\ interruptions' = interruptions + 1

\* The body does not validate.
Invalid(r) ==
    /\ state[r] = "new" /\ up[host[r]]
    /\ Goes(r, "done") /\ Answered(r, "validation_error")
    /\ UNCHANGED <<process, host, local, redis, history, interruptions>>

\* The path leads outside the video root, or to nothing.
BadPath(r) ==
    /\ state[r] = "new" /\ up[host[r]]
    /\ Goes(r, "done") /\ \E a \in {"invalid_file_path", "video_not_found"} : Answered(r, a)
    /\ UNCHANGED <<process, host, local, redis, history, interruptions>>

\* The semaphore is looked at and taken without an await in between.
Admit(r) ==
    /\ state[r] = "new" /\ up[host[r]]
    /\ IF slots[host[r]] = 0
       THEN Goes(r, "done") /\ Answered(r, "too_many_concurrent_jobs") /\ UNCHANGED slots
       ELSE /\ slots' = [slots EXCEPT ![host[r]] = @ - 1]
            /\ Goes(r, "opening") /\ UNCHANGED answer
    /\ UNCHANGED <<up, in_flight, host, local, redis, history, interruptions>>

\* Redis or RabbitMQ is down.
Unavailable(r) ==
    /\ state[r] = "opening" /\ SlotReturned(r)
    /\ Goes(r, "done") /\ Answered(r, "infrastructure_unavailable")
    /\ UNCHANGED <<up, in_flight, host, local, redis, history, interruptions>>

\* The file cannot be opened as a video, or reports no usable rate.
Unopenable(r) ==
    /\ state[r] = "opening" /\ SlotReturned(r)
    /\ Goes(r, "done")
    /\ \E a \in {"undecodable_video", "unusable_video_metadata"} : Answered(r, a)
    /\ UNCHANGED <<up, in_flight, host, local, redis, history, interruptions>>

\* The rate does not fit the video, or the same key is in flight here.
Turned(r) ==
    /\ state[r] = "opening" /\ Refused(r)
    /\ \/ Answered(r, "invalid_frame_rate")
       \/ Key(r) \in in_flight[host[r]] /\ Answered(r, "job_already_running")
    /\ Goes(r, "closing")
    /\ UNCHANGED <<up, slots, host, local, redis, history, interruptions>>

Reserve(r) ==
    /\ state[r] = "opening" /\ Key(r) \notin in_flight[host[r]]
    /\ in_flight' = [in_flight EXCEPT ![host[r]] = @ \cup {Key(r)}]
    /\ Goes(r, "pointer")
    /\ UNCHANGED <<up, slots, host, answer, local, redis, history, interruptions>>

\* find_by_resume_key reads the pointer, then the record it names.
ReadPointer(r) ==
    /\ state[r] = "pointer"
    /\ IF pointer[Key(r)] = None
       THEN Goes(r, "creating") /\ job_id' = [job_id EXCEPT ![r] = r]
       ELSE Goes(r, "record") /\ job_id' = [job_id EXCEPT ![r] = pointer[Key(r)]]
    /\ UNCHANGED <<process, host, answer, prior, run, cursor, work, verdict, redis, history,
                   interruptions>>

ReadRecord(r) ==
    /\ state[r] = "record"
    /\ LET j == job_id[r] IN
       IF Resumable(j)
       THEN /\ prior' = [prior EXCEPT ![r] = Progressed(jobs[j])]
            /\ run' = [run EXCEPT ![r] = Seeded(jobs[j])]
            /\ cursor' = [cursor EXCEPT ![r] = StartSlot(jobs[j])]
            /\ Goes(r, "resuming") /\ UNCHANGED job_id
       ELSE /\ job_id' = [job_id EXCEPT ![r] = r]
            /\ Goes(r, "creating") /\ UNCHANGED <<prior, run, cursor>>
    /\ UNCHANGED <<process, host, answer, work, verdict, redis, history, interruptions>>

\* What the calls of the job repository do; each stamps updated_at.
Stamped(j, record) ==
    /\ jobs' = [jobs EXCEPT ![j] = record]
    /\ stale' = stale \ {j}

Created(r) ==
    /\ Stamped(r, [status |-> "RUNNING", confirmed |-> 0, failed |-> 0, last |-> -1])
    /\ pointer' = [pointer EXCEPT ![Key(r)] = r]

MarkedRunning(r) ==
    Stamped(job_id[r], [jobs[job_id[r]] EXCEPT !.status = "RUNNING"]) /\ UNCHANGED pointer

Saved_CountsFailed(r, p) ==
    /\ Stamped(job_id[r], [status |-> jobs[job_id[r]].status, failed |-> p.failed,
                           confirmed |-> p.confirmed + p.failed, last |-> p.last])
    /\ UNCHANGED pointer
Saved(r, p) ==
    /\ Stamped(job_id[r], [status |-> jobs[job_id[r]].status, confirmed |-> p.confirmed,
                           failed |-> p.failed, last |-> p.last])
    /\ UNCHANGED pointer

Marked_NotOnFailure(r) ==
    IF Status(r) = "FAILED"
    THEN UNCHANGED redis
    ELSE Stamped(job_id[r], [jobs[job_id[r]] EXCEPT !.status = Status(r)]) /\ UNCHANGED pointer
Marked(r) ==
    Stamped(job_id[r], [jobs[job_id[r]] EXCEPT !.status = Status(r)]) /\ UNCHANGED pointer

\* create for a fresh job, set_status for a resumed one.
Start(r) ==
    /\ \/ state[r] = "creating" /\ Created(r)
       \/ state[r] = "resuming" /\ MarkedRunning(r)
    /\ Goes(r, "running")
    /\ UNCHANGED <<process, host, answer, local, history, interruptions>>

-----------------------------------------------------------------------------
(* The dispatch run.                                                       *)

\* The decode thread samples the next frame.  What it still does after an abort is
\* as if it had done it before, since nothing else depends on it.
DecodeFrame(r) ==
    /\ state[r] = "running" /\ verdict[r] = "none" /\ cursor[r] < NumFrames
    /\ queue' = [queue EXCEPT ![r] = @ \cup {cursor[r]}]
    /\ cursor' = [cursor EXCEPT ![r] = @ + 1]
    /\ UNCHANGED <<process, host, state, answer, job_id, prior, run, publishing, confirming,
                   snapshots, verdict, redis, history, interruptions>>

SkipFrame(r) ==
    /\ state[r] = "running" /\ verdict[r] = "none" /\ cursor[r] < NumFrames
    /\ run' = [run EXCEPT ![r].failed = @ + 1]
    /\ cursor' = [cursor EXCEPT ![r] = @ + 1]
    /\ undecodable' = [undecodable EXCEPT ![job_id[r]] = @ \cup {cursor[r]}]
    /\ UNCHANGED <<process, host, state, answer, job_id, prior, work, verdict, redis, sent, lost,
                   interruptions>>

\* Publishers of r with a call under way.
Busy(r) ==
    Cardinality(publishing[r]) + Cardinality(confirming[r]) + Cardinality(snapshots[r])

TakeFrame(r) ==
    /\ state[r] = "running" /\ Busy(r) < Publishers
    /\ \E f \in queue[r] :
        /\ \A g \in queue[r] : f <= g
        /\ queue' = [queue EXCEPT ![r] = @ \ {f}]
        /\ publishing' = [publishing EXCEPT ![r] = @ \cup {f}]
    /\ UNCHANGED <<process, host, state, answer, job_id, prior, run, cursor, confirming, snapshots,
                   verdict, redis, history, interruptions>>

BrokerAccepts(r) ==
    /\ state[r] = "running"
    /\ \E f \in publishing[r] :
        /\ publishing' = [publishing EXCEPT ![r] = @ \ {f}]
        /\ confirming' = [confirming EXCEPT ![r] = @ \cup {f}]
        /\ sent' = [sent EXCEPT ![job_id[r]][f] = @ + 1]
    /\ UNCHANGED <<process, host, state, answer, job_id, prior, run, cursor, queue, snapshots,
                   verdict, redis, undecodable, lost, interruptions>>

\* record_confirmed: the index is the highest confirmed one.
Confirmed(p, f) ==
    [p EXCEPT !.confirmed = @ + 1, !.last = IF f > @ THEN f ELSE @]

\* A checkpoint is due after some of the confirms.
Confirm(r) ==
    /\ state[r] = "running"
    /\ \E f \in confirming[r] :
        /\ confirming' = [confirming EXCEPT ![r] = @ \ {f}]
        /\ run' = [run EXCEPT ![r] = Confirmed(@, f)]
        /\ \/ snapshots' = [snapshots EXCEPT ![r] = @ \cup {Confirmed(run[r], f)}]
           \/ UNCHANGED snapshots
    /\ UNCHANGED <<process, host, state, answer, job_id, prior, cursor, queue, publishing, verdict,
                   redis, history, interruptions>>

Checkpoint(r) ==
    /\ state[r] = "running"
    /\ \E s \in snapshots[r] :
        /\ Saved(r, s)
        /\ snapshots' = [snapshots EXCEPT ![r] = @ \ {s}]
    /\ UNCHANGED <<process, host, state, answer, job_id, prior, run, cursor, queue, publishing,
                   confirming, verdict, history, interruptions>>

\* A call of a publisher raises: a put or a publish before the broker has the frame, a
\* publish after it, or a checkpoint that was written or not.  The first one sets the
\* error, and from then on the publishers throw away what is queued.
GivesUp(r, f) == lost' = [lost EXCEPT ![r] = @ \cup {f}]

CallRaises(r) ==
    /\ state[r] = "running"
    /\ \/ \E f \in publishing[r] :
            /\ publishing' = [publishing EXCEPT ![r] = @ \ {f}] /\ GivesUp(r, f)
            /\ UNCHANGED <<confirming, snapshots, redis>>
       \/ \E f \in confirming[r] :
            /\ confirming' = [confirming EXCEPT ![r] = @ \ {f}] /\ GivesUp(r, f)
            /\ UNCHANGED <<publishing, snapshots, redis>>
       \/ \E s \in snapshots[r] :
            /\ snapshots' = [snapshots EXCEPT ![r] = @ \ {s}]
            /\ Saved(r, s) \/ UNCHANGED redis
            /\ UNCHANGED <<publishing, confirming, lost>>
    /\ queue' = [queue EXCEPT ![r] = {}] /\ verdict' = [verdict EXCEPT ![r] = "error"]
    /\ IF verdict[r] = "error" THEN UNCHANGED interruptions ELSE Interrupted
    /\ UNCHANGED <<process, host, state, answer, job_id, prior, run, cursor, sent, undecodable>>

\* The watchdog sees that the client is gone; what is decoded is still dispatched.
HangUp(r) ==
    /\ state[r] = "running" /\ verdict[r] = "none"
    /\ verdict' = [verdict EXCEPT ![r] = "aborted"]
    /\ UNCHANGED <<process, host, state, answer, job_id, prior, run, cursor, work, redis, history,
                   interruptions>>

Dispatch(r) ==
    \/ DecodeFrame(r) \/ SkipFrame(r) \/ TakeFrame(r) \/ BrokerAccepts(r) \/ Confirm(r)
    \/ Checkpoint(r) \/ CallRaises(r) \/ HangUp(r)

\* run() waits until every publisher has returned.
Drained(r) == queue[r] = {} /\ Busy(r) = 0

RunReturns(r) ==
    /\ state[r] = "running" /\ Drained(r) /\ Goes(r, "saving")
    /\ \/ verdict[r] = "none" /\ cursor[r] = NumFrames /\ verdict' = [verdict EXCEPT ![r] = "ended"]
       \/ verdict[r] \in {"aborted", "error"} /\ UNCHANGED verdict
    /\ UNCHANGED <<process, host, answer, job_id, prior, run, cursor, work, redis, history,
                   interruptions>>

-----------------------------------------------------------------------------
(* The outcome.                                                            *)

Save(r) ==
    /\ state[r] = "saving" /\ Saved(r, run[r])
    /\ Goes(r, "marking")
    /\ UNCHANGED <<process, host, answer, local, history, interruptions>>

Mark(r) ==
    /\ state[r] = "marking" /\ Marked(r)
    /\ Answered(r, Outcome(r))
    /\ Released(r) /\ Goes(r, "closing")
    /\ UNCHANGED <<up, slots, host, local, history, interruptions>>

\* An exception that nothing catches: from Redis, whose call may have taken effect,
\* or from the decoder, when the publishers are done.  The finally clauses run and the
\* record stays as it is.
Escape(r) ==
    /\ state[r] \in Reserving /\ Interrupted
    /\ state[r] = "running" => Drained(r)
    /\ \/ UNCHANGED redis
       \/ state[r] = "creating" /\ Created(r)
       \/ state[r] = "resuming" /\ MarkedRunning(r)
       \/ state[r] = "saving" /\ Saved(r, run[r])
       \/ state[r] = "marking" /\ Marked(r)
    /\ Answered(r, "internal_error") /\ Released(r) /\ Goes(r, "closing")
    /\ UNCHANGED <<up, slots, host, local, history>>

\* source.close() on a thread, then the slot.
Close(r) ==
    /\ state[r] = "closing" /\ SlotReturned(r)
    /\ Goes(r, "done")
    /\ UNCHANGED <<up, in_flight, host, answer, local, redis, history, interruptions>>

Request(r) ==
    \/ Invalid(r) \/ BadPath(r) \/ Admit(r)
    \/ Unavailable(r) \/ Unopenable(r) \/ Turned(r) \/ Reserve(r)
    \/ ReadPointer(r) \/ ReadRecord(r) \/ Start(r)
    \/ Dispatch(r) \/ RunReturns(r)
    \/ Save(r) \/ Mark(r) \/ Escape(r) \/ Close(r)

-----------------------------------------------------------------------------
(* The environment.                                                        *)

\* 120 s pass without a write to a record that says RUNNING; nobody asks the age of
\* another.
Silence(j) ==
    /\ jobs[j].status = "RUNNING" /\ j \notin stale
    /\ LiveMayBeSilent \/ \A r \in Requests : state[r] \in Live => job_id[r] # j
    /\ stale' = stale \cup {j}
    /\ UNCHANGED <<process, host, state, answer, local, jobs, pointer, history, interruptions>>

\* The process dies with its requests, their tasks, its semaphore and its reservations.
Crash(p) ==
    /\ up[p] /\ Interrupted
    /\ up' = [up EXCEPT ![p] = FALSE]
    /\ slots' = [slots EXCEPT ![p] = MaxConcurrentJobs]
    /\ in_flight' = [in_flight EXCEPT ![p] = {}]
    /\ LET died == {r \in Requests : host[r] = p /\ state[r] \in Admitted} IN
       /\ state' = [r \in Requests |-> IF r \in died THEN "done" ELSE state[r]]
       /\ answer' = [r \in Requests |-> IF r \in died THEN "lost" ELSE answer[r]]
       /\ lost' = [r \in Requests |-> IF r \in died THEN lost[r] \cup publishing[r] ELSE lost[r]]
       /\ queue' = [r \in Requests |-> IF r \in died THEN {} ELSE queue[r]]
       /\ publishing' = [r \in Requests |-> IF r \in died THEN {} ELSE publishing[r]]
       /\ confirming' = [r \in Requests |-> IF r \in died THEN {} ELSE confirming[r]]
       /\ snapshots' = [r \in Requests |-> IF r \in died THEN {} ELSE snapshots[r]]
    /\ UNCHANGED <<host, job_id, prior, run, cursor, verdict, redis, sent, undecodable>>

Restart(p) ==
    /\ ~up[p]
    /\ up' = [up EXCEPT ![p] = TRUE]
    /\ UNCHANGED <<slots, in_flight, host, state, answer, local, redis, history, interruptions>>

Idle == (\A r \in Requests : state[r] = "done") /\ UNCHANGED vars

Next ==
    \/ \E r \in Requests : Request(r) \/ Silence(r)
    \/ \E p \in Replicas : Crash(p) \/ Restart(p)
    \/ Idle

Spec == Init /\ [][Next]_vars

-----------------------------------------------------------------------------
(* Properties.                                                             *)

Progress == [confirmed : Nat, failed : Nat, last : -1 .. NumFrames - 1]
Statuses == {"absent", "RUNNING", "COMPLETED", "PARTIAL", "FAILED", "CANCELLED"}
Record == [status : Statuses, confirmed : Nat, failed : Nat, last : -1 .. NumFrames - 1]
Answers ==
    Statuses \cup
    {"none", "lost", "validation_error", "invalid_file_path", "video_not_found",
     "too_many_concurrent_jobs", "infrastructure_unavailable", "undecodable_video",
     "unusable_video_metadata", "invalid_frame_rate", "job_already_running",
     "dispatch_incomplete", "video_mostly_undecodable", "internal_error"}

TypeOK ==
    /\ up \in [Replicas -> BOOLEAN] /\ slots \in [Replicas -> 0 .. MaxConcurrentJobs]
    /\ in_flight \in [Replicas -> SUBSET Keys] /\ host \in [Requests -> Replicas]
    /\ state \in [Requests -> Admitted \cup {"new", "done"}]
    /\ answer \in [Requests -> Answers]
    /\ job_id \in [Requests -> Requests \cup {None}]
    /\ prior \in [Requests -> Progress] /\ run \in [Requests -> Progress]
    /\ cursor \in [Requests -> 0 .. NumFrames]
    /\ queue \in [Requests -> SUBSET Frames] /\ publishing \in [Requests -> SUBSET Frames]
    /\ confirming \in [Requests -> SUBSET Frames] /\ snapshots \in [Requests -> SUBSET Progress]
    /\ lost \in [Requests -> SUBSET Frames]
    /\ verdict \in [Requests -> {"none", "ended", "aborted", "error"}]
    /\ jobs \in [Requests -> Record]
    /\ pointer \in [Keys -> Requests \cup {None}] /\ stale \subseteq Requests
    /\ sent \in [Requests -> [Frames -> Nat]] /\ undecodable \in [Requests -> SUBSET Frames]
    /\ interruptions \in 0 .. MaxInterruptions

\* "Two concurrent runs of the same video at the same rate would dispatch every
\* frame twice": within a process at most one request holds a key.
OneRunPerKey ==
    \A r, q \in Requests :
        /\ state[r] \in Reserving /\ state[q] \in Reserving
        /\ host[r] = host[q] /\ Key(r) = Key(q)
        => r = q

\* Whatever way a request ends, its reservation and its slot are given back: a key
\* or a slot is held exactly by the requests that are under way.
NothingLeaks ==
    \A p \in Replicas :
        /\ in_flight[p] = {Key(r) : r \in {q \in Requests : host[q] = p /\ state[q] \in Reserving}}
        /\ slots[p] = MaxConcurrentJobs
             - Cardinality({r \in Requests : host[r] = p /\ state[r] \in Admitted})

\* The runs of a job that go on without an error: they may still send what they have
\* in hand.
Underway(j) == {r \in Requests : state[r] = "running" /\ job_id[r] = j /\ verdict[r] # "error"}

\* How many frames of a job may be passed over.  The index of a run is that of the
\* highest confirmed frame; every other publisher may hold an earlier one, and loses it
\* when the run is interrupted.
MayBeMissing(j) == (Publishers - 1) * (interruptions + Cardinality(Underway(j)))

\* A record claims few frames that the broker did not accept, over any number of
\* attempts: those up to its index were sent or are undecodable, but for one frame for
\* each other publisher and interruption; with one publisher there is none.  Its count
\* is of distinct frames that were sent.  What it counts as failed may count a frame
\* again in each attempt that starts before it, never more often.
RecordTruthful ==
    \A j \in Requests :
        /\ Cardinality({f \in 0 .. jobs[j].last : sent[j][f] = 0 /\ f \notin undecodable[j]})
             <= MayBeMissing(j)
        /\ jobs[j].confirmed <= Cardinality({f \in 0 .. jobs[j].last : sent[j][f] > 0})
        /\ jobs[j].failed <=
             Cardinality({r \in Requests : job_id[r] = j}) * Cardinality(undecodable[j])

\* "Returns 200 only after every extracted frame has been confirmed": unless the client
\* hung up, a completed job has sent every frame, a partial one every frame it could
\* decode, but for one frame for each publisher other than one and each interruption or
\* other run of the job still under way: a resumed job completes although what an earlier
\* attempt lost below its index is never sent.  With one publisher nothing is missing.
AnswerTruthful ==
    \A r \in Requests : HttpStatus(answer[r]) = 200 /\ verdict[r] # "aborted" =>
        Cardinality({f \in Frames :
                       /\ sent[job_id[r]][f] = 0
                       /\ answer[r] = "PARTIAL" => f \notin undecodable[job_id[r]]})
          <= MayBeMissing(job_id[r])

\* "No frame dispatched twice": a job repeats a frame only after an interruption.
ResendsBounded ==
    \A j \in Requests : \A f \in Frames : sent[j][f] <= 1 + interruptions

\* The records that say RUNNING although no request works on them, of one video at
\* one rate.
Orphans(k) ==
    {j \in Requests : /\ Key(j) = k /\ jobs[j].status = "RUNNING"
                      /\ \A r \in Requests : state[r] \in Live => job_id[r] # j}

\* A record says RUNNING only while a request works on it, or after an interruption:
\* each leaves at most one such record of a video behind.
OrphansBounded == \A k \in Keys : Cardinality(Orphans(k)) <= interruptions

\* A record's progress never goes back, from one attempt to the next either, except
\* that a checkpoint of one publisher may arrive after a later one of another: then it
\* goes back within the run, no further than to what the run resumed, and the run's end
\* restores it.
NoLess(p, q) == p.last >= q.last /\ p.confirmed >= q.confirmed

ProgressKept ==
    [][\A j \in Requests :
          \/ NoLess(jobs'[j], jobs[j])
          \/ /\ Publishers > 1
             /\ \E r \in Requests :
                  state[r] = "running" /\ job_id[r] = j /\ NoLess(jobs'[j], prior[r])]_vars

\* "A live job must never be resumed concurrently."
OneRunPerJob ==
    \A r, q \in Requests : state[r] \in Live /\ state[q] \in Live /\ job_id[r] = job_id[q] => r = q
=============================================================================
