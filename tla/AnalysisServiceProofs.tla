------------------------ MODULE AnalysisServiceProofs ------------------------
(***************************************************************************)
(* The analysis service for any number of processes, requests, keys,       *)
(* admission slots and interruptions.                                      *)
(***************************************************************************)
EXTENDS AnalysisService, FiniteSetTheorems, TLAPS

\* States in which a request has chosen the job it works on.
Working == {"record", "resuming", "creating"} \cup Live
HasJob == \A r \in Requests : state[r] \in Working => job_id[r] \in Requests

\* The requests of a process that hold an admission slot.
Under(p) == {r \in Requests : host[r] = p /\ state[r] \in Admitted}

SlotsInv == \A p \in Replicas : slots[p] = MaxConcurrentJobs - Cardinality(Under(p))

ReservedInv ==
    \A p \in Replicas :
        in_flight[p] = {Key(r) : r \in {q \in Requests : host[q] = p /\ state[q] \in Reserving}}

ServiceInv == TypeOK /\ HasJob /\ SlotsInv /\ ReservedInv /\ OneRunPerKey

\* The requests under way are finitely many, and none or more.
LEMMA UnderFinite ==
    ASSUME NEW p
    PROVE  IsFiniteSet(Under(p)) /\ Cardinality(Under(p)) \in Nat
BY FS_Subset, FS_CardinalityType, RequestsAssumption DEF Under

\* A process whose request holds a slot has a slot less than it could have.
LEMMA SlotTaken ==
    ASSUME TypeOK, SlotsInv, NEW r \in Requests, state[r] \in Admitted
    PROVE  slots[host[r]] + 1 \in 0 .. MaxConcurrentJobs
<1>1. host[r] \in Replicas /\ slots[host[r]] \in 0 .. MaxConcurrentJobs
  BY DEF TypeOK
<1>2. Cardinality(Under(host[r])) \in Nat \ {0}
  <2>1. r \in Under(host[r])
    BY DEF Under
  <2>2. QED
    BY <2>1, UnderFinite, FS_EmptySet
<1>3. slots[host[r]] = MaxConcurrentJobs - Cardinality(Under(host[r]))
  BY <1>1 DEF SlotsInv
<1>4. QED
  BY <1>1, <1>2, <1>3, SizesAssumption

\* The service starts with nothing under way.
LEMMA ServiceInit == Init => ServiceInv
<1> SUFFICES ASSUME Init PROVE ServiceInv OBVIOUS
<1>1. TypeOK
  BY RequestsAssumption, SizesAssumption
     DEF Init, TypeOK, Answers, Progress, Record, Statuses, NoProgress, NoRecord, Frames
<1>2. \A r \in Requests : state[r] = "new"
  BY DEF Init
<1>3. HasJob /\ OneRunPerKey
  BY <1>2 DEF HasJob, Working, OneRunPerKey, Reserving, Live
<1>4. SlotsInv
  <2> SUFFICES ASSUME NEW p \in Replicas
               PROVE  slots[p] = MaxConcurrentJobs - Cardinality(Under(p))
    BY DEF SlotsInv
  <2>1. Under(p) = {}
    BY <1>2 DEF Under, Admitted, Reserving
  <2>2. slots[p] = MaxConcurrentJobs /\ Cardinality(Under(p)) = 0
    BY <2>1, FS_EmptySet DEF Init
  <2>3. QED
    BY <2>2, SizesAssumption
<1>5. ReservedInv
  BY <1>2 DEF Init, ReservedInv, Reserving
<1>6. QED
  BY <1>1, <1>3, <1>4, <1>5 DEF ServiceInv

-----------------------------------------------------------------------------
(* Types.                                                                  *)

\* The values that a request writes to a record or takes from one are progress.
LEMMA ProgressTypes ==
    ASSUME TypeOK, NEW j \in Requests
    PROVE  /\ Seeded(jobs[j]) \in Progress /\ Progressed(jobs[j]) \in Progress
           /\ StartSlot(jobs[j]) \in 0 .. NumFrames
           /\ jobs[j] \in Record
           /\ \A s \in Statuses : [jobs[j] EXCEPT !.status = s] \in Record
<1>1. jobs[j] \in Record
  BY DEF TypeOK
<1>2. QED
  BY <1>1, SizesAssumption DEF Record, Seeded, Progressed, Progress, StartSlot, Statuses

\* A job's new record is a record.
LEMMA StampedType ==
    ASSUME TypeOK, NEW j \in Requests, NEW record \in Record, Stamped(j, record)
    PROVE  jobs' \in [Requests -> Record] /\ stale' \subseteq Requests
BY DEF Stamped, TypeOK

\* Each of the repository's calls leaves Redis well typed.
LEMMA RedisTypes ==
    ASSUME TypeOK, HasJob, NEW r \in Requests,
           \/ UNCHANGED redis
           \/ Created(r)
           \/ state[r] \in Working /\ (MarkedRunning(r) \/ Marked(r))
           \/ state[r] \in Working /\ \E p \in Progress : Saved(r, p)
    PROVE  /\ jobs' \in [Requests -> Record] /\ stale' \subseteq Requests
           /\ pointer' \in [Keys -> Requests \cup {None}]
<1>0. Key(r) \in Keys /\ pointer \in [Keys -> Requests \cup {None}]
  BY RequestsAssumption DEF Key, TypeOK
<1>1. CASE UNCHANGED redis
  BY <1>1 DEF redis, TypeOK
<1>2. CASE Created(r)
  <2>1. [status |-> "RUNNING", confirmed |-> 0, failed |-> 0, last |-> -1] \in Record
    BY SizesAssumption DEF Record, Statuses
  <2>2. QED
    BY <1>0, <1>2, <2>1, StampedType DEF Created
<1>3. CASE /\ state[r] \in Working
           /\ MarkedRunning(r) \/ Marked(r) \/ \E p \in Progress : Saved(r, p)
  <2>1. job_id[r] \in Requests /\ jobs[job_id[r]] \in Record
    BY <1>3, ProgressTypes DEF HasJob
  <2>2. CASE MarkedRunning(r)
    <3>1. [jobs[job_id[r]] EXCEPT !.status = "RUNNING"] \in Record
      BY <2>1, ProgressTypes DEF Statuses
    <3>2. QED
      BY <1>0, <2>1, <2>2, <3>1, StampedType DEF MarkedRunning
  <2>3. ASSUME NEW p \in Progress, Saved(r, p)
        PROVE  /\ jobs' \in [Requests -> Record] /\ stale' \subseteq Requests
               /\ pointer' \in [Keys -> Requests \cup {None}]
    <3>1. [status |-> jobs[job_id[r]].status, confirmed |-> p.confirmed,
           failed |-> p.failed, last |-> p.last] \in Record
      BY <2>1 DEF Record, Progress
    <3>2. QED
      BY <1>0, <2>1, <2>3, <3>1, StampedType DEF Saved
  <2>4. CASE Marked(r)
    <3>1. Status(r) \in Statuses
      BY DEF Status, Statuses
    <3>2. [jobs[job_id[r]] EXCEPT !.status = Status(r)] \in Record
      BY <2>1, <3>1, ProgressTypes
    <3>3. QED
      BY <1>0, <2>1, <2>4, <3>2, StampedType DEF Marked
  <2>5. QED
    BY <1>3, <2>2, <2>3, <2>4
<1>4. QED
  BY <1>1, <1>2, <1>3

\* A step of the dispatch run leaves alone all but what the run works with, and the record.
LEMMA DispatchStays ==
    ASSUME NEW r \in Requests, Dispatch(r)
    PROVE  state[r] = "running" /\ UNCHANGED <<up, slots, in_flight, host, state, answer, job_id, prior>>
BY DEF Dispatch, DecodeFrame, SkipFrame, TakeFrame, BrokerAccepts, Confirm, Checkpoint, CallRaises,
       HangUp, process

\* Nor does it take a variable out of its range.
LEMMA DispatchTypes ==
    ASSUME TypeOK, HasJob, NEW r \in Requests, Dispatch(r)
    PROVE  (TypeOK /\ HasJob)'
<1>1. state[r] = "running" /\ UNCHANGED <<up, slots, in_flight, host, state, answer, job_id, prior>>
  BY DispatchStays
<1>2. state[r] \in Working /\ job_id[r] \in Requests
  BY <1>1 DEF HasJob, Working, Live
<1>3. /\ run \in [Requests -> Progress] /\ run[r] \in Progress
      /\ cursor \in [Requests -> 0 .. NumFrames]
      /\ queue \in [Requests -> SUBSET Frames] /\ publishing \in [Requests -> SUBSET Frames]
      /\ confirming \in [Requests -> SUBSET Frames] /\ snapshots \in [Requests -> SUBSET Progress]
      /\ lost \in [Requests -> SUBSET Frames] /\ undecodable \in [Requests -> SUBSET Frames]
      /\ verdict \in [Requests -> {"none", "ended", "aborted", "error"}]
      /\ sent \in [Requests -> [Frames -> Nat]] /\ interruptions \in 0 .. MaxInterruptions
      /\ jobs \in [Requests -> Record] /\ stale \subseteq Requests
      /\ pointer \in [Keys -> Requests \cup {None}]
  BY DEF TypeOK
<1>4. ASSUME NEW f \in Frames PROVE Confirmed(run[r], f) \in Progress
  <2>1. /\ run[r].confirmed + 1 \in Nat /\ run[r].last \in -1 .. NumFrames - 1
        /\ f \in -1 .. NumFrames - 1
    BY <1>3, SizesAssumption DEF Progress, Frames
  <2>2. (IF f > run[r].last THEN f ELSE run[r].last) \in -1 .. NumFrames - 1
    BY <2>1
  <2>3. QED
    BY <1>3, <2>1, <2>2 DEF Confirmed, Progress
<1>5. cursor[r] < NumFrames => cursor[r] \in Frames /\ cursor[r] + 1 \in 0 .. NumFrames
  BY <1>3, SizesAssumption DEF Frames
<1>6. /\ cursor' \in [Requests -> 0 .. NumFrames] /\ queue' \in [Requests -> SUBSET Frames]
      /\ publishing' \in [Requests -> SUBSET Frames] /\ confirming' \in [Requests -> SUBSET Frames]
      /\ lost' \in [Requests -> SUBSET Frames] /\ undecodable' \in [Requests -> SUBSET Frames]
  <2>1. CASE DecodeFrame(r)
    <3>1. queue[r] \cup {cursor[r]} \in SUBSET Frames
      BY <1>3, <1>5, <2>1 DEF DecodeFrame
    <3>2. QED
      BY <1>3, <1>5, <2>1, <3>1 DEF DecodeFrame, history
  <2>6. CASE SkipFrame(r)
    <3>1. undecodable[job_id[r]] \cup {cursor[r]} \in SUBSET Frames
      BY <1>2, <1>3, <1>5, <2>6 DEF SkipFrame
    <3>2. QED
      BY <1>2, <1>3, <1>5, <2>6, <3>1 DEF SkipFrame, work
  <2>2. CASE TakeFrame(r) \/ BrokerAccepts(r) \/ Confirm(r)
    <3>1. CASE TakeFrame(r)
      <4>1. PICK f \in queue[r] : /\ queue' = [queue EXCEPT ![r] = @ \ {f}]
                                  /\ publishing' = [publishing EXCEPT ![r] = @ \cup {f}]
        BY <3>1 DEF TakeFrame
      <4>2. queue[r] \ {f} \in SUBSET Frames /\ publishing[r] \cup {f} \in SUBSET Frames
        BY <1>3, <4>1
      <4>3. QED
        BY <1>3, <3>1, <4>1, <4>2 DEF TakeFrame, history
    <3>2. CASE BrokerAccepts(r)
      <4>1. PICK f \in publishing[r] : /\ publishing' = [publishing EXCEPT ![r] = @ \ {f}]
                                       /\ confirming' = [confirming EXCEPT ![r] = @ \cup {f}]
        BY <3>2 DEF BrokerAccepts
      <4>2. publishing[r] \ {f} \in SUBSET Frames /\ confirming[r] \cup {f} \in SUBSET Frames
        BY <1>3, <4>1
      <4>3. QED
        BY <1>3, <3>2, <4>1, <4>2 DEF BrokerAccepts
    <3>3. CASE Confirm(r)
      <4>1. PICK f \in confirming[r] : confirming' = [confirming EXCEPT ![r] = @ \ {f}]
        BY <3>3 DEF Confirm
      <4>2. confirming[r] \ {f} \in SUBSET Frames
        BY <1>3, <4>1
      <4>3. QED
        BY <1>3, <3>3, <4>1, <4>2 DEF Confirm, history
    <3>4. QED
      BY <2>2, <3>1, <3>2, <3>3
  <2>3. CASE Checkpoint(r) \/ HangUp(r)
    BY <1>3, <2>3 DEF Checkpoint, HangUp, work, history
  <2>4. CASE CallRaises(r)
    <3>1. /\ UNCHANGED <<cursor, undecodable>> /\ queue' = [queue EXCEPT ![r] = {}]
          /\ UNCHANGED publishing \/ \E f \in Frames : publishing' = [publishing EXCEPT ![r] = @ \ {f}]
          /\ UNCHANGED confirming \/ \E f \in Frames : confirming' = [confirming EXCEPT ![r] = @ \ {f}]
          /\ UNCHANGED lost \/ \E f \in Frames : GivesUp(r, f)
      BY <1>3, <2>4 DEF CallRaises
    <3>2. \A f \in Frames : /\ publishing[r] \ {f} \in SUBSET Frames
                            /\ confirming[r] \ {f} \in SUBSET Frames
                            /\ lost[r] \cup {f} \in SUBSET Frames
      BY <1>3
    <3>3. publishing' \in [Requests -> SUBSET Frames]
      BY <1>3, <3>1, <3>2
    <3>4. confirming' \in [Requests -> SUBSET Frames]
      BY <1>3, <3>1, <3>2
    <3>5. lost' \in [Requests -> SUBSET Frames]
      <4>1. CASE UNCHANGED lost
        BY <1>3, <4>1
      <4>2. ASSUME NEW f \in Frames, lost' = [lost EXCEPT ![r] = @ \cup {f}]
            PROVE  lost' \in [Requests -> SUBSET Frames]
        BY <1>3, <3>2, <4>2
      <4>3. QED
        BY <3>1, <4>1, <4>2 DEF GivesUp
    <3>6. QED
      BY <1>3, <3>1, <3>3, <3>4, <3>5
  <2>5. QED
    BY <2>1, <2>2, <2>3, <2>4, <2>6 DEF Dispatch
<1>7. run' \in [Requests -> Progress] /\ snapshots' \in [Requests -> SUBSET Progress]
  <2>1. CASE SkipFrame(r)
    <3>1. [run[r] EXCEPT !.failed = @ + 1] \in Progress
      <4>1. run[r].failed + 1 \in Nat
        BY <1>3 DEF Progress
      <4>2. QED
        BY <1>3, <4>1 DEF Progress
    <3>2. QED
      BY <1>3, <2>1, <3>1 DEF SkipFrame, work
  <2>2. CASE Confirm(r)
    <3>1. PICK f \in confirming[r] :
            /\ run' = [run EXCEPT ![r] = Confirmed(@, f)]
            /\ \/ snapshots' = [snapshots EXCEPT ![r] = @ \cup {Confirmed(run[r], f)}]
               \/ UNCHANGED snapshots
      BY <2>2 DEF Confirm
    <3>2. Confirmed(run[r], f) \in Progress
      BY <1>3, <1>4, <3>1
    <3>3. QED
      BY <1>3, <3>1, <3>2
  <2>3. CASE DecodeFrame(r) \/ TakeFrame(r) \/ BrokerAccepts(r) \/ HangUp(r)
    BY <1>3, <2>3 DEF DecodeFrame, TakeFrame, BrokerAccepts, HangUp, work
  <2>4. CASE Checkpoint(r) \/ CallRaises(r)
    BY <1>3, <2>4 DEF Checkpoint, CallRaises
  <2>5. QED
    BY <2>1, <2>2, <2>3, <2>4 DEF Dispatch
<1>8. /\ verdict' \in [Requests -> {"none", "ended", "aborted", "error"}]
      /\ interruptions' \in 0 .. MaxInterruptions
  BY <1>3, SizesAssumption
     DEF Dispatch, DecodeFrame, SkipFrame, TakeFrame, BrokerAccepts, Confirm, Checkpoint, CallRaises,
         HangUp, Interrupted
<1>9. sent' \in [Requests -> [Frames -> Nat]]
  <2>1. CASE BrokerAccepts(r)
    <3>1. PICK f \in publishing[r] : sent' = [sent EXCEPT ![job_id[r]][f] = @ + 1]
      BY <2>1 DEF BrokerAccepts
    <3>2. f \in Frames /\ sent[job_id[r]] \in [Frames -> Nat]
      BY <1>2, <1>3, <3>1
    <3>3. [sent[job_id[r]] EXCEPT ![f] = @ + 1] \in [Frames -> Nat]
      BY <3>2
    <3>4. QED
      BY <1>2, <1>3, <3>1, <3>3
  <2>2. CASE ~BrokerAccepts(r)
    BY <1>3, <2>2 DEF Dispatch, DecodeFrame, SkipFrame, TakeFrame, Confirm, Checkpoint, CallRaises,
                      HangUp, history
  <2>3. QED
    BY <2>1, <2>2
<1>10. /\ jobs' \in [Requests -> Record] /\ stale' \subseteq Requests
       /\ pointer' \in [Keys -> Requests \cup {None}]
  <2>1. UNCHANGED redis \/ \E s \in snapshots[r] : Saved(r, s)
    BY DEF Dispatch, DecodeFrame, SkipFrame, TakeFrame, BrokerAccepts, Confirm, Checkpoint, CallRaises,
           HangUp
  <2>2. UNCHANGED redis \/ \E s \in Progress : Saved(r, s)
    BY <1>3, <2>1
  <2>3. QED
    BY <1>2, <2>2, RedisTypes
<1>11. TypeOK'
  BY <1>1, <1>6, <1>7, <1>8, <1>9, <1>10 DEF TypeOK
<1>12. QED
  BY <1>1, <1>11 DEF HasJob

\* No step of a request takes a variable out of its range, or works without a job.
LEMMA RequestTypes ==
    ASSUME TypeOK, HasJob, SlotsInv, NEW r \in Requests, Request(r)
    PROVE  (TypeOK /\ HasJob)'
<1>0. /\ host[r] \in Replicas /\ Key(r) \in Keys /\ interruptions \in 0 .. MaxInterruptions
      /\ run[r] \in Progress /\ cursor[r] \in 0 .. NumFrames
      /\ up \in [Replicas -> BOOLEAN] /\ host \in [Requests -> Replicas]
      /\ r \in Requests \cup {None}
  BY RequestsAssumption DEF TypeOK, Key
<1>1. \A s \in Working : state[r] = s => job_id[r] \in Requests
  BY DEF HasJob
<1>2. /\ in_flight \in [Replicas -> SUBSET Keys]
      /\ UNCHANGED in_flight \/ Released(r) \/ (\E k \in Keys : in_flight' = [in_flight EXCEPT ![host[r]] = @ \cup {k}])
           => in_flight' \in [Replicas -> SUBSET Keys]
  <2>1. in_flight \in [Replicas -> SUBSET Keys] /\ in_flight[host[r]] \in SUBSET Keys
    BY <1>0 DEF TypeOK
  <2>2. ASSUME Released(r) PROVE in_flight' \in [Replicas -> SUBSET Keys]
    BY <1>0, <2>1, <2>2 DEF Released
  <2>3. ASSUME NEW k \in Keys, in_flight' = [in_flight EXCEPT ![host[r]] = @ \cup {k}]
        PROVE  in_flight' \in [Replicas -> SUBSET Keys]
    BY <1>0, <2>1, <2>3
  <2>4. QED
    BY <2>1, <2>2, <2>3
<1>3. /\ slots \in [Replicas -> 0 .. MaxConcurrentJobs]
      /\ UNCHANGED slots \/ (SlotReturned(r) /\ state[r] \in Admitted)
           => slots' \in [Replicas -> 0 .. MaxConcurrentJobs]
  BY <1>0, SlotTaken DEF TypeOK, SlotReturned
<1>4. /\ jobs \in [Requests -> Record] /\ pointer \in [Keys -> Requests \cup {None}]
      /\ stale \subseteq Requests
  BY DEF TypeOK
<1>5. CASE Admit(r)
  <2>1. slots' \in [Replicas -> 0 .. MaxConcurrentJobs]
    BY <1>0, <1>3, <1>5, SizesAssumption DEF Admit
  <2>2. /\ state' \in [Requests -> Admitted \cup {"new", "done"}]
        /\ answer' \in [Requests -> Answers]
        /\ \A q \in Requests : state'[q] \in Working => state[q] \in Working
    <3>1. \E s \in {"done", "opening"} : Goes(r, s)
      BY <1>5 DEF Admit
    <3>2. UNCHANGED answer \/ \E a \in Answers : Answered(r, a)
      BY <1>5 DEF Admit, Answers
    <3>3. state' \in [Requests -> Admitted \cup {"new", "done"}]
      BY <3>1 DEF TypeOK, Admitted, Goes
    <3>4. answer' \in [Requests -> Answers]
      BY <3>2 DEF TypeOK, Answered
    <3>5. \A q \in Requests : state'[q] \in Working => state[q] \in Working
      BY <3>1 DEF TypeOK, Working, Live, Goes
    <3>6. QED
      BY <3>3, <3>4, <3>5
  <2>3. UNCHANGED <<up, in_flight, host, local, redis, history, interruptions>>
    BY <1>5 DEF Admit
  <2>4. QED
    BY <2>1, <2>2, <2>3 DEF TypeOK, HasJob, local, work, redis, history
<1>6. CASE Unavailable(r) \/ Unopenable(r) \/ Close(r)
  <2>1. slots' \in [Replicas -> 0 .. MaxConcurrentJobs]
    BY <1>3, <1>6 DEF Unavailable, Unopenable, Close, Admitted
  <2>2. /\ state' \in [Requests -> Admitted \cup {"new", "done"}]
        /\ answer' \in [Requests -> Answers]
        /\ \A q \in Requests : state'[q] \in Working => state[q] \in Working
    <3>1. \E s \in {"done"} : Goes(r, s)
      BY <1>6 DEF Unavailable, Unopenable, Close
    <3>2. UNCHANGED answer \/ \E a \in Answers : Answered(r, a)
      BY <1>6 DEF Unavailable, Unopenable, Close, Answers
    <3>3. state' \in [Requests -> Admitted \cup {"new", "done"}]
      BY <3>1 DEF TypeOK, Goes
    <3>4. answer' \in [Requests -> Answers]
      BY <3>2 DEF TypeOK, Answered
    <3>5. \A q \in Requests : state'[q] \in Working => state[q] \in Working
      BY <3>1 DEF TypeOK, Working, Live, Goes
    <3>6. QED
      BY <3>3, <3>4, <3>5
  <2>3. UNCHANGED <<up, in_flight, host, local, redis, history, interruptions>>
    BY <1>6 DEF Unavailable, Unopenable, Close
  <2>4. QED
    BY <2>1, <2>2, <2>3 DEF TypeOK, HasJob, local, work, redis, history
<1>7. CASE Turned(r)
  <2>1. in_flight' = in_flight
    BY <1>7 DEF Turned, Refused
  <2>2. QED
    BY <1>7, <2>1
       DEF Turned, TypeOK, HasJob, Working, Live, Admitted, Goes, Answered, Answers, local, work, redis, history
<1>8. CASE Reserve(r)
  <2>1. in_flight' \in [Replicas -> SUBSET Keys]
    BY <1>0, <1>2, <1>8 DEF Reserve
  <2>2. QED
    BY <1>8, <2>1
       DEF Reserve, TypeOK, HasJob, Working, Live, Admitted, Reserving, Goes, local, work, redis, history
<1>9. CASE ReadPointer(r)
  <2>1. pointer[Key(r)] \in Requests \cup {None}
    BY <1>0, <1>4
  <2>2. state' \in [Requests -> Admitted \cup {"new", "done"}]
    BY <1>9 DEF ReadPointer, TypeOK, Admitted, Reserving, Goes
  <2>3. /\ job_id' \in [Requests -> Requests \cup {None}]
        /\ job_id'[r] \in Requests /\ \A q \in Requests \ {r} : job_id'[q] = job_id[q]
    BY <1>0, <1>9, <2>1 DEF ReadPointer, TypeOK
  <2>4. \A q \in Requests \ {r} : state'[q] = state[q]
    BY <1>9 DEF ReadPointer, TypeOK, Goes
  <2>5. UNCHANGED <<process, host, answer, prior, run, cursor, work, verdict, redis, history,
                     interruptions>>
    BY <1>9 DEF ReadPointer
  <2>6. HasJob'
    BY <2>3, <2>4 DEF HasJob
  <2>7. QED
    BY <2>2, <2>3, <2>5, <2>6 DEF TypeOK, process, work, redis, history
<1>10. CASE ReadRecord(r)
  <2>1. job_id[r] \in Requests
    BY <1>1, <1>10 DEF ReadRecord, Working
  <2>2. /\ Seeded(jobs[job_id[r]]) \in Progress /\ Progressed(jobs[job_id[r]]) \in Progress
        /\ StartSlot(jobs[job_id[r]]) \in 0 .. NumFrames
    BY <2>1, ProgressTypes
  <2>3. /\ state' \in [Requests -> Admitted \cup {"new", "done"}]
        /\ \A q \in Requests \ {r} : state'[q] = state[q]
    BY <1>10 DEF ReadRecord, TypeOK, Admitted, Reserving, Goes
  <2>4. /\ job_id' \in [Requests -> Requests \cup {None}]
        /\ job_id'[r] \in Requests /\ \A q \in Requests \ {r} : job_id'[q] = job_id[q]
    BY <1>10, <2>1 DEF ReadRecord, TypeOK
  <2>5. /\ run' \in [Requests -> Progress] /\ cursor' \in [Requests -> 0 .. NumFrames]
        /\ prior' \in [Requests -> Progress]
    <3>1. /\ run \in [Requests -> Progress] /\ cursor \in [Requests -> 0 .. NumFrames]
          /\ prior \in [Requests -> Progress]
      BY DEF TypeOK
    <3>2. CASE Resumable(job_id[r])
      BY <1>10, <2>2, <3>1, <3>2 DEF ReadRecord
    <3>3. CASE ~Resumable(job_id[r])
      BY <1>10, <3>1, <3>3 DEF ReadRecord
    <3>4. QED
      BY <3>2, <3>3
  <2>6. UNCHANGED <<process, host, answer, work, verdict, redis, history, interruptions>>
    BY <1>10 DEF ReadRecord
  <2>7. HasJob'
    BY <2>3, <2>4 DEF HasJob
  <2>8. QED
    BY <2>3, <2>4, <2>5, <2>6, <2>7 DEF TypeOK, process, work, redis, history
<1>11. CASE Start(r)
  <2>1. jobs' \in [Requests -> Record] /\ stale' \subseteq Requests
        /\ pointer' \in [Keys -> Requests \cup {None}]
    BY <1>11, RedisTypes DEF Start, Working
  <2>2. job_id[r] \in Requests
    BY <1>1, <1>11 DEF Start, Working
  <2>3. QED
    BY <1>11, <2>1, <2>2
       DEF Start, TypeOK, HasJob, Working, Live, Admitted, Reserving, Goes, process, local, work, history
<1>12. CASE Dispatch(r)
  BY <1>12, DispatchTypes
<1>14. CASE RunReturns(r)
  BY <1>1, <1>14
     DEF RunReturns, TypeOK, HasJob, Working, Live, Admitted, Reserving, Goes, process, work, redis,
         history
<1>16. CASE Save(r)
  <2>1. jobs' \in [Requests -> Record] /\ stale' \subseteq Requests
        /\ pointer' \in [Keys -> Requests \cup {None}]
    BY <1>0, <1>16, RedisTypes DEF Save, Working, Live
  <2>2. job_id[r] \in Requests
    BY <1>1, <1>16 DEF Save, Working, Live
  <2>3. QED
    BY <1>16, <2>1, <2>2
       DEF Save, TypeOK, HasJob, Working, Live, Admitted, Reserving, Goes, process, local, work, history
<1>17. CASE Mark(r) \/ Escape(r)
  <2>1. jobs' \in [Requests -> Record] /\ stale' \subseteq Requests
        /\ pointer' \in [Keys -> Requests \cup {None}]
    BY <1>0, <1>17, RedisTypes DEF Mark, Escape, Working, Live
  <2>2. in_flight' \in [Replicas -> SUBSET Keys]
    BY <1>2, <1>17 DEF Mark, Escape
  <2>3. interruptions' \in 0 .. MaxInterruptions
    BY <1>0, <1>17, SizesAssumption DEF Mark, Escape, Interrupted
  <2>4. answer' \in [Requests -> Answers]
    BY <1>17 DEF Mark, Escape, Answered, TypeOK, Outcome, Status, Statuses, Answers
  <2>5. state' = [state EXCEPT ![r] = "closing"] /\ UNCHANGED <<up, slots, host, local, history>>
    BY <1>17 DEF Mark, Escape, Goes
  <2>6. QED
    BY <2>1, <2>2, <2>3, <2>4, <2>5 DEF TypeOK, HasJob, Working, Live, Admitted, local, work, history
<1>18. CASE Invalid(r) \/ BadPath(r)
  <2>1. PICK a \in Answers : Answered(r, a)
    BY <1>18 DEF Invalid, BadPath, Answers
  <2>2. Goes(r, "done") /\ UNCHANGED <<process, host, local, redis, history, interruptions>>
    BY <1>18 DEF Invalid, BadPath
  <2>3. QED
    BY <2>1, <2>2 DEF TypeOK, HasJob, Working, Live, Goes, Answered, process, local, work, redis, history
<1>19. QED
  BY <1>18, <1>5, <1>6, <1>7, <1>8, <1>9, <1>10, <1>11, <1>12, <1>14, <1>16, <1>17
     DEF Request

\* Nor does a step of the environment, or a stutter.
LEMMA OtherTypes ==
    ASSUME TypeOK, HasJob,
           (\E j \in Requests : Silence(j)) \/ (\E p \in Replicas : Crash(p) \/ Restart(p)) \/ UNCHANGED vars
    PROVE  (TypeOK /\ HasJob)'
<1>1. CASE \E j \in Requests : Silence(j)
  BY <1>1 DEF Silence, TypeOK, HasJob, process, local, work, history
<1>2. ASSUME NEW p \in Replicas, Crash(p) PROVE (TypeOK /\ HasJob)'
  <2>1. interruptions' \in 0 .. MaxInterruptions
    BY <1>2, SizesAssumption DEF Crash, Interrupted, TypeOK
  <2>2. slots' \in [Replicas -> 0 .. MaxConcurrentJobs]
    BY <1>2, SizesAssumption DEF Crash, TypeOK
  <2>3. /\ state' \in [Requests -> Admitted \cup {"new", "done"}]
        /\ answer' \in [Requests -> Answers]
        /\ \A r \in Requests : state'[r] \in Working => state[r] \in Working
    BY <1>2 DEF Crash, TypeOK, Working, Live, Answers
  <2>4. /\ UNCHANGED <<host, job_id, prior, run, cursor, verdict, redis, sent, undecodable>>
        /\ up' \in [Replicas -> BOOLEAN] /\ in_flight' \in [Replicas -> SUBSET Keys]
    BY <1>2 DEF Crash, TypeOK
  <2>5. /\ queue' \in [Requests -> SUBSET Frames] /\ publishing' \in [Requests -> SUBSET Frames]
        /\ confirming' \in [Requests -> SUBSET Frames] /\ snapshots' \in [Requests -> SUBSET Progress]
        /\ lost' \in [Requests -> SUBSET Frames]
    BY <1>2 DEF Crash, TypeOK
  <2>6. QED
    BY <2>1, <2>2, <2>3, <2>4, <2>5 DEF TypeOK, HasJob, redis
<1>3. ASSUME NEW p \in Replicas, Restart(p) PROVE (TypeOK /\ HasJob)'
  BY <1>3 DEF Restart, TypeOK, HasJob, local, work, redis, history
<1>4. CASE UNCHANGED vars
  BY <1>4 DEF vars, TypeOK, HasJob, process, local, work, redis, history
<1>5. QED
  BY <1>1, <1>2, <1>3, <1>4

-----------------------------------------------------------------------------
(* Slots.                                                                  *)

\* Slots stay right when nobody enters or leaves.
LEMMA SlotsKept ==
    ASSUME SlotsInv, UNCHANGED <<host, slots>>,
           \A q \in Requests : state'[q] \in Admitted <=> state[q] \in Admitted
    PROVE  SlotsInv'
<1>1. \A p \in Replicas : Under(p)' = Under(p)
  BY DEF Under
<1>2. QED
  BY <1>1 DEF SlotsInv

\* A request that is admitted takes a slot.
LEMMA SlotEntered ==
    ASSUME TypeOK, SlotsInv, NEW r \in Requests, UNCHANGED host,
           state[r] \notin Admitted, NEW s \in Admitted, state' = [state EXCEPT ![r] = s],
           slots' = [slots EXCEPT ![host[r]] = @ - 1]
    PROVE  SlotsInv'
<1> SUFFICES ASSUME NEW p \in Replicas
             PROVE  slots'[p] = MaxConcurrentJobs - Cardinality(Under(p)')
  BY DEF SlotsInv
<1>1. /\ slots[p] = MaxConcurrentJobs - Cardinality(Under(p)) /\ slots[p] \in Int
      /\ slots'[p] = IF p = host[r] THEN slots[p] - 1 ELSE slots[p]
  BY DEF SlotsInv, TypeOK
<1>2. Under(p)' = IF p = host[r] THEN Under(p) \cup {r} ELSE Under(p)
  BY DEF Under, TypeOK
<1>3. r \notin Under(p)
  BY DEF Under
<1>4. Cardinality(Under(p) \cup {r}) = Cardinality(Under(p)) + 1
  BY <1>3, UnderFinite, FS_AddElement
<1>5. QED
  BY <1>1, <1>2, <1>4, UnderFinite, SizesAssumption

\* A request that ends gives its slot back.
LEMMA SlotLeft ==
    ASSUME TypeOK, SlotsInv, NEW r \in Requests, UNCHANGED host,
           state[r] \in Admitted, state' = [state EXCEPT ![r] = "done"], SlotReturned(r)
    PROVE  SlotsInv'
<1> SUFFICES ASSUME NEW p \in Replicas
             PROVE  slots'[p] = MaxConcurrentJobs - Cardinality(Under(p)')
  BY DEF SlotsInv
<1>1. /\ slots[p] = MaxConcurrentJobs - Cardinality(Under(p)) /\ slots[p] \in Int
      /\ slots'[p] = IF p = host[r] THEN slots[p] + 1 ELSE slots[p]
  BY DEF SlotsInv, TypeOK, SlotReturned
<1>2. Under(p)' = Under(p) \ {r}
  BY DEF Under, TypeOK, Admitted, Reserving
<1>3. r \in Under(p) <=> p = host[r]
  BY DEF Under
<1>4. Cardinality(Under(p) \ {r}) = IF r \in Under(p) THEN Cardinality(Under(p)) - 1
                                                       ELSE Cardinality(Under(p))
  BY UnderFinite, FS_RemoveElement
<1>5. QED
  BY <1>1, <1>2, <1>3, <1>4, UnderFinite, SizesAssumption

\* No step of a request loses a slot or makes one.
LEMMA RequestSlots ==
    ASSUME TypeOK, SlotsInv, NEW r \in Requests, Request(r)
    PROVE  SlotsInv'
<1>1. CASE Admit(r)
  <2>1. CASE slots[host[r]] = 0
    BY <1>1, <2>1, SlotsKept DEF Admit, Goes, TypeOK, Admitted, Reserving
  <2>2. CASE slots[host[r]] # 0
    BY <1>1, <2>2, SlotEntered DEF Admit, Goes, Admitted, Reserving
  <2>3. QED
    BY <2>1, <2>2
<1>0. CASE Invalid(r) \/ BadPath(r)
  <2>1. UNCHANGED <<host, slots>>
    BY <1>0 DEF Invalid, BadPath, process
  <2>2. \A q \in Requests : state'[q] \in Admitted <=> state[q] \in Admitted
    BY <1>0 DEF Invalid, BadPath, Goes, TypeOK, Admitted, Reserving
  <2>3. QED
    BY <2>1, <2>2, SlotsKept
<1>2. CASE Unavailable(r) \/ Unopenable(r) \/ Close(r)
  BY <1>2, SlotLeft DEF Unavailable, Unopenable, Close, Goes, Admitted
<1>3. CASE Turned(r) \/ Reserve(r)
  <2>1. UNCHANGED <<host, slots>>
    BY <1>3 DEF Turned, Reserve
  <2>2. \A q \in Requests : state'[q] \in Admitted <=> state[q] \in Admitted
    BY <1>3 DEF Turned, Reserve, Goes, TypeOK, Admitted, Reserving
  <2>3. QED
    BY <2>1, <2>2, SlotsKept
<1>4. CASE ReadPointer(r) \/ ReadRecord(r) \/ Start(r)
  <2>1. UNCHANGED <<host, slots>>
    BY <1>4 DEF ReadPointer, ReadRecord, Start, process
  <2>2. \A q \in Requests : state'[q] \in Admitted <=> state[q] \in Admitted
    BY <1>4 DEF ReadPointer, ReadRecord, Start, Goes, TypeOK, Admitted, Reserving
  <2>3. QED
    BY <2>1, <2>2, SlotsKept
<1>5. CASE Dispatch(r)
  BY <1>5, DispatchStays, SlotsKept
<1>6. CASE RunReturns(r) \/ Save(r)
  <2>1. UNCHANGED <<host, slots>>
    BY <1>6 DEF RunReturns, Save, process
  <2>2. \A q \in Requests : state'[q] \in Admitted <=> state[q] \in Admitted
    BY <1>6 DEF RunReturns, Save, Goes, TypeOK, Admitted, Reserving
  <2>3. QED
    BY <2>1, <2>2, SlotsKept
<1>7. CASE Mark(r) \/ Escape(r)
  <2>1. UNCHANGED <<host, slots>>
    BY <1>7 DEF Mark, Escape
  <2>2. \A q \in Requests : state'[q] \in Admitted <=> state[q] \in Admitted
    BY <1>7 DEF Mark, Escape, Goes, TypeOK, Admitted, Reserving
  <2>3. QED
    BY <2>1, <2>2, SlotsKept
<1>8. QED
  BY <1>0, <1>1, <1>2, <1>3, <1>4, <1>5, <1>6, <1>7 DEF Request

-----------------------------------------------------------------------------
(* Reservations.                                                           *)

\* Reservations stay right when nobody takes or releases one.
LEMMA ReservationsKept ==
    ASSUME ReservedInv, OneRunPerKey, UNCHANGED <<host, in_flight>>,
           \A q \in Requests : state'[q] \in Reserving <=> state[q] \in Reserving
    PROVE  (ReservedInv /\ OneRunPerKey)'
<1>1. ReservedInv'
  BY DEF ReservedInv, Key
<1>2. OneRunPerKey'
  BY DEF OneRunPerKey, Key
<1>3. QED
  BY <1>1, <1>2

\* The requests of a process that hold a reservation.
Holders(p) == {q \in Requests : host[q] = p /\ state[q] \in Reserving}

\* A key is taken only when nobody in the process holds it.
LEMMA ReservationTaken ==
    ASSUME TypeOK, ReservedInv, OneRunPerKey, NEW r \in Requests, Reserve(r)
    PROVE  (ReservedInv /\ OneRunPerKey)'
<1>1. /\ \A q \in Requests : state'[q] \in Reserving <=> state[q] \in Reserving \/ q = r
      /\ UNCHANGED host /\ host[r] \in Replicas
  BY DEF Reserve, Goes, TypeOK, Reserving
<1>2. \A q \in Requests : state[q] \in Reserving /\ host[q] = host[r] => Key(q) # Key(r)
  BY <1>1 DEF ReservedInv, Reserve
<1>3. \A p \in Replicas :
        in_flight'[p] = IF p = host[r] THEN in_flight[p] \cup {Key(r)} ELSE in_flight[p]
  BY DEF Reserve, TypeOK
<1>4. ReservedInv'
  <2> SUFFICES ASSUME NEW p \in Replicas
               PROVE  in_flight'[p] = {Key(q) : q \in Holders(p)'}
    BY DEF ReservedInv, Holders, Key
  <2>1. Holders(p)' = IF p = host[r] THEN Holders(p) \cup {r} ELSE Holders(p)
    BY <1>1 DEF Holders
  <2>2. in_flight[p] = {Key(q) : q \in Holders(p)}
    BY DEF ReservedInv, Holders
  <2>3. QED
    BY <1>3, <2>1, <2>2, ZenonT(30)
<1>5. OneRunPerKey'
  BY <1>1, <1>2 DEF OneRunPerKey, Key
<1>6. QED
  BY <1>4, <1>5

\* The request that releases a key is the only one in the process that holds it.
LEMMA ReservationReleased ==
    ASSUME TypeOK, ReservedInv, OneRunPerKey, NEW r \in Requests, Mark(r) \/ Escape(r)
    PROVE  (ReservedInv /\ OneRunPerKey)'
<1>1. /\ \A q \in Requests : state'[q] \in Reserving <=> state[q] \in Reserving /\ q # r
      /\ UNCHANGED host /\ host[r] \in Replicas /\ state[r] \in Reserving
  BY DEF Mark, Escape, Goes, TypeOK, Reserving
<1>2. \A q \in Requests :
        state[q] \in Reserving /\ host[q] = host[r] /\ Key(q) = Key(r) => q = r
  BY <1>1 DEF OneRunPerKey
<1>3. \A p \in Replicas :
        in_flight'[p] = IF p = host[r] THEN in_flight[p] \ {Key(r)} ELSE in_flight[p]
  BY DEF Mark, Escape, Released, TypeOK
<1>4. ReservedInv'
  <2> SUFFICES ASSUME NEW p \in Replicas
               PROVE  in_flight'[p] = {Key(q) : q \in Holders(p)'}
    BY DEF ReservedInv, Holders, Key
  <2>1. Holders(p)' = Holders(p) \ {r}
    BY <1>1 DEF Holders
  <2>2. in_flight[p] = {Key(q) : q \in Holders(p)}
    BY DEF ReservedInv, Holders
  <2>3. p = host[r] => \A q \in Holders(p) : Key(q) = Key(r) => q = r
    BY <1>2 DEF Holders
  <2>4. p # host[r] => r \notin Holders(p)
    BY DEF Holders
  <2>5. p = host[r] => r \in Holders(p)
    BY <1>1 DEF Holders
  <2>6. QED
    BY <1>3, <2>1, <2>2, <2>3, <2>4, <2>5
<1>5. OneRunPerKey'
  BY <1>1 DEF OneRunPerKey, Key
<1>6. QED
  BY <1>4, <1>5

\* Reservations belong to the requests under way, one of each key in a process.
LEMMA RequestReservations ==
    ASSUME TypeOK, ReservedInv, OneRunPerKey, NEW r \in Requests, Request(r)
    PROVE  (ReservedInv /\ OneRunPerKey)'
<1>1. CASE Reserve(r)
  BY <1>1, ReservationTaken
<1>2. CASE Mark(r) \/ Escape(r)
  BY <1>2, ReservationReleased
<1>3. CASE \/ Invalid(r) \/ BadPath(r) \/ Admit(r) \/ Unavailable(r) \/ Unopenable(r)
          \/ Turned(r) \/ Close(r)
  <2>1. UNCHANGED <<host, in_flight>>
    BY <1>3 DEF Invalid, BadPath, Admit, Unavailable, Unopenable, Turned, Refused, Close, process
  <2>2. state[r] \notin Reserving /\ \E s \in {"done", "opening", "closing"} : Goes(r, s)
    BY <1>3 DEF Invalid, BadPath, Admit, Unavailable, Unopenable, Turned, Close, Reserving
  <2>3. \A q \in Requests : state'[q] \in Reserving <=> state[q] \in Reserving
    BY <2>2 DEF Goes, TypeOK, Reserving
  <2>4. QED
    BY <2>1, <2>3, ReservationsKept
<1>4. CASE ReadPointer(r) \/ ReadRecord(r) \/ Start(r)
  <2>1. UNCHANGED <<host, in_flight>>
    BY <1>4 DEF ReadPointer, ReadRecord, Start, process
  <2>2. \A q \in Requests : state'[q] \in Reserving <=> state[q] \in Reserving
    BY <1>4 DEF ReadPointer, ReadRecord, Start, Goes, TypeOK, Reserving
  <2>3. QED
    BY <2>1, <2>2, ReservationsKept
<1>5. CASE Dispatch(r)
  BY <1>5, DispatchStays, ReservationsKept
<1>6. CASE RunReturns(r) \/ Save(r)
  <2>1. UNCHANGED <<host, in_flight>>
    BY <1>6 DEF RunReturns, Save, process
  <2>2. \A q \in Requests : state'[q] \in Reserving <=> state[q] \in Reserving
    BY <1>6 DEF RunReturns, Save, Goes, TypeOK, Reserving
  <2>3. QED
    BY <2>1, <2>2, ReservationsKept
<1>7. QED
  BY <1>1, <1>2, <1>3, <1>4, <1>5, <1>6 DEF Request

-----------------------------------------------------------------------------
(* The invariant.                                                          *)

\* A process that dies holds no slot and no key afterwards, and others keep theirs.
LEMMA CrashKeeps ==
    ASSUME TypeOK, SlotsInv, ReservedInv, OneRunPerKey, NEW p \in Replicas, Crash(p)
    PROVE  (SlotsInv /\ ReservedInv /\ OneRunPerKey)'
<1>1. /\ UNCHANGED host
      /\ \A r \in Requests : state'[r] = IF host[r] = p /\ state[r] \in Admitted THEN "done" ELSE state[r]
      /\ \A q \in Replicas : slots'[q] = IF q = p THEN MaxConcurrentJobs ELSE slots[q]
      /\ \A q \in Replicas : in_flight'[q] = IF q = p THEN {} ELSE in_flight[q]
  BY DEF Crash, TypeOK
<1>2. \A r \in Requests :
        /\ state'[r] \in Admitted <=> state[r] \in Admitted /\ host[r] # p
        /\ state'[r] \in Reserving <=> state[r] \in Reserving /\ host[r] # p
  BY <1>1 DEF Admitted, Reserving
<1>3. SlotsInv'
  <2> SUFFICES ASSUME NEW q \in Replicas
               PROVE  slots'[q] = MaxConcurrentJobs - Cardinality(Under(q)')
    BY DEF SlotsInv
  <2>1. Under(q)' = IF q = p THEN {} ELSE Under(q)
    BY <1>1, <1>2 DEF Under
  <2>2. CASE q = p
    <3>1. Cardinality(Under(q)') = 0
      BY <2>1, <2>2, FS_EmptySet
    <3>2. QED
      BY <1>1, <2>2, <3>1, SizesAssumption
  <2>3. CASE q # p
    BY <1>1, <2>1, <2>3 DEF SlotsInv
  <2>4. QED
    BY <2>2, <2>3
<1>4. ReservedInv'
  BY <1>1, <1>2 DEF ReservedInv, Key
<1>5. OneRunPerKey'
  BY <1>1, <1>2 DEF OneRunPerKey, Key
<1>6. QED
  BY <1>3, <1>4, <1>5

\* Every step keeps the invariant.
LEMMA ServiceStep == ServiceInv /\ [Next]_vars => ServiceInv'
<1> SUFFICES ASSUME ServiceInv, [Next]_vars PROVE ServiceInv'
  OBVIOUS
<1>0. TypeOK /\ HasJob /\ SlotsInv /\ ReservedInv /\ OneRunPerKey
  BY DEF ServiceInv
<1>1. ASSUME NEW r \in Requests, Request(r) PROVE ServiceInv'
  BY <1>0, <1>1, RequestTypes, RequestSlots, RequestReservations DEF ServiceInv
<1>2. ASSUME NEW p \in Replicas, Crash(p) PROVE ServiceInv'
  BY <1>0, <1>2, OtherTypes, CrashKeeps DEF ServiceInv
<1>3. CASE (\E j \in Requests : Silence(j)) \/ (\E p \in Replicas : Restart(p)) \/ UNCHANGED vars
  <2>1. UNCHANGED <<host, state, slots, in_flight>>
    BY <1>3 DEF Silence, Restart, vars, process
  <2>2. (SlotsInv /\ ReservedInv /\ OneRunPerKey)'
    BY <1>0, <2>1, SlotsKept, ReservationsKept
  <2>3. QED
    BY <1>0, <1>3, <2>2, OtherTypes DEF ServiceInv
<1>4. QED
  BY <1>1, <1>2, <1>3 DEF Next, Idle

\* Every reachable state satisfies the invariant.
LEMMA ServiceInductive == Spec => []ServiceInv
BY ServiceInit, ServiceStep, PTL DEF Spec

\* Every variable of the service and of its records stays in its range, the
\* semaphore between zero and the number of slots.
THEOREM ServiceTypeCorrect == Spec => []TypeOK
<1>1. ServiceInv => TypeOK
  BY DEF ServiceInv
<1>2. QED
  BY <1>1, ServiceInductive, PTL

\* Within a process at most one request works on a video at a rate, whatever the
\* number of requests and the order of their steps.
THEOREM OneRunPerKeyInProcess == Spec => []OneRunPerKey
<1>1. ServiceInv => OneRunPerKey
  BY DEF ServiceInv
<1>2. QED
  BY <1>1, ServiceInductive, PTL

\* Whatever way requests end, keys and slots are held exactly by those under way.
THEOREM NothingIsLeaked == Spec => []NothingLeaks
<1>1. ServiceInv => NothingLeaks
  BY DEF ServiceInv, NothingLeaks, SlotsInv, ReservedInv, Under
<1>2. QED
  BY <1>1, ServiceInductive, PTL
=============================================================================
