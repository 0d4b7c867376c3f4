------------------------------- MODULE Stores -------------------------------
(***************************************************************************)
(* The store adapters: Redis (pipeline_common/adapters/redis_store.py) and *)
(* the doubles the tests run against (adapters/memory.py), given the same  *)
(* calls under one clock.  The calls are those of the two services: a run  *)
(* looks up the job to resume in two reads, creates or resumes it,         *)
(* checkpoints it and sets its status, any number of them at once;         *)
(* detectors claim keys and count frames at any time.                      *)
(*                                                                         *)
(* A job hash that lacks the fields only create writes is "half": what it  *)
(* holds does not matter, since no JobRecord can be made of it.            *)
(***************************************************************************)
EXTENDS Integers, Sequences, SequencesExt

CONSTANTS
    Jobs,           \* job ids, all of one video and rate
    Frames,         \* frames, for their blobs and dedup keys
    JobTtl,         \* ttl_sec of RedisJobRepository
    FrameTtl,       \* frame_ttl_sec, dedup_ttl_sec
    MaxTime, MaxProgress,  \* bounds on the clock and on what a job counts
    NoJob

ASSUME StoresAssumption ==
    /\ NoJob \notin Jobs
    /\ JobTtl \in Nat \ {0} /\ FrameTtl \in Nat \ {0} /\ MaxTime \in Nat /\ MaxProgress \in Nat

VARIABLES
    now,                \* the clock, in units of the TTLs
    hash, expires,      \* job hashes in Redis, and when each goes (Never without a TTL)
    pointer, pointerExpires,  \* the resume pointer
    records, order,     \* InMemoryJobRepository.records, and its insertion order
    blob, blobDouble,   \* when each blob expires, in Redis and in the double
    claim, claimed,     \* when each dedup key expires in Redis; InMemoryDedupGuard._claimed
    named,              \* jobs that the pointer gave to a lookup, to read their records
    resuming,           \* jobs that a lookup found, to set their status
    running             \* jobs that a dispatch run works on

redisVars == <<hash, expires, pointer, pointerExpires>>
doubleVars == <<records, order>>
lookupVars == <<named, resuming>>
jobVars == <<redisVars, doubleVars, lookupVars, running>>
frameVars == <<blob, blobDouble, claim, claimed>>
storeVars == <<now, jobVars, frameVars>>

Never == 0

NoRecord == [kind |-> "none", status |-> "none", last |-> -1, processed |-> 0, error |-> FALSE]
Half == [NoRecord EXCEPT !.kind = "half"]
Fresh == [NoRecord EXCEPT !.kind = "whole", !.status = "RUNNING"]

StoreInit ==
    /\ now = 1
    /\ hash = [j \in Jobs |-> NoRecord] /\ expires = [j \in Jobs |-> Never]
    /\ pointer = NoJob /\ pointerExpires = Never
    /\ records = [j \in Jobs |-> NoRecord] /\ order = << >>
    /\ blob = [f \in Frames |-> Never] /\ blobDouble = [f \in Frames |-> Never]
    /\ claim = [f \in Frames |-> Never] /\ claimed = {}
    /\ named = {} /\ resuming = {} /\ running = {}

-----------------------------------------------------------------------------
(* The clock.  Redis drops what expires.                                   *)

Past(t) == t # Never /\ t <= now'

Tick ==
    /\ now < MaxTime /\ now' = now + 1
    /\ hash' = [j \in Jobs |-> IF Past(expires[j]) THEN NoRecord ELSE hash[j]]
    /\ expires' = [j \in Jobs |-> IF Past(expires[j]) THEN Never ELSE expires[j]]
    /\ pointer' = IF Past(pointerExpires) THEN NoJob ELSE pointer
    /\ pointerExpires' = IF Past(pointerExpires) THEN Never ELSE pointerExpires
    /\ blob' = [f \in Frames |-> IF Past(blob[f]) THEN Never ELSE blob[f]]
    /\ claim' = [f \in Frames |-> IF Past(claim[f]) THEN Never ELSE claim[f]]
    /\ UNCHANGED <<doubleVars, blobDouble, claimed, lookupVars, running>>

-----------------------------------------------------------------------------
(* The job repository.                                                     *)

\* HSET and HINCRBY write to a hash whether it is there or not, and leave its TTL.
HashSet(j, record) == hash' = [hash EXCEPT ![j] = IF @.kind = "whole" THEN record ELSE Half]

\* The double ignores a job it does not know.
RecordSet(j, record) ==
    records' = [records EXCEPT ![j] = IF @.kind = "whole" THEN record ELSE @]

\* The two TTLs are those of two commands, and the pointer's is the later one.
Create(j) ==
    /\ j \notin ToSet(order)
    /\ hash' = [hash EXCEPT ![j] = Fresh] /\ expires' = [expires EXCEPT ![j] = now + JobTtl]
    /\ pointer' = j /\ pointerExpires' \in {now + JobTtl, now + JobTtl + 1}
    /\ records' = [records EXCEPT ![j] = Fresh] /\ order' = Append(order, j)
    /\ running' = running \cup {j}
    /\ UNCHANGED lookupVars

\* error=None leaves the field in Redis alone and clears it in the double.
SetStatus(j, status, error) ==
    /\ HashSet(j, [hash[j] EXCEPT !.status = status, !.error = @ \/ error])
    /\ RecordSet(j, [records[j] EXCEPT !.status = status, !.error = error])
    /\ UNCHANGED <<expires, pointer, pointerExpires, order>>

\* find_by_resume_key: Redis is asked for the pointer and then for the hash; the double
\* looks once.
FoundDouble == IF order = << >> THEN NoJob ELSE Last(order)

ReadPointer ==
    /\ named' = named \cup ({pointer} \ {NoJob})
    /\ UNCHANGED <<redisVars, doubleVars, resuming, running>>

\* _find_checkpoint: of a record that has gone there is nothing to resume, a half one
\* raises.
ReadRecord(j) ==
    /\ j \in named
    /\ hash[j].kind = "whole" /\ hash[j].status # "COMPLETED" /\ hash[j].last >= 0
    /\ resuming' = resuming \cup {j}
    /\ UNCHANGED <<redisVars, doubleVars, named, running>>

Resume(j) ==
    /\ j \in resuming
    /\ SetStatus(j, "RUNNING", FALSE)
    /\ running' = running \cup {j}
    /\ UNCHANGED lookupVars

Finish(j) ==
    /\ j \in running
    /\ SetStatus(j, "COMPLETED", FALSE) \/ SetStatus(j, "FAILED", TRUE)
    /\ running' = running \ {j}
    /\ UNCHANGED lookupVars

Die(j) ==
    /\ j \in running
    /\ running' = running \ {j}
    /\ UNCHANGED <<redisVars, doubleVars, lookupVars>>

\* checkpoint writes the run's progress and leaves frames_processed alone.
Checkpointed_Blind(j, last) ==
    HashSet(j, [hash[j] EXCEPT !.last = last, !.processed = 0])
Checkpointed_Next(j, last) == HashSet(j, [hash[j] EXCEPT !.last = last + 1])
Checkpointed(j, last) == HashSet(j, [hash[j] EXCEPT !.last = last])

Checkpoint(j) ==
    /\ j \in running
    /\ LET last == records[j].last + 1 IN
       /\ last < MaxProgress
       /\ Checkpointed(j, last)
       /\ RecordSet(j, [records[j] EXCEPT !.last = last])
    /\ UNCHANGED <<expires, pointer, pointerExpires, order, lookupVars, running>>

IncrementProcessed(j) ==
    /\ records[j].kind = "whole" /\ records[j].processed < MaxProgress
    /\ HashSet(j, [hash[j] EXCEPT !.processed = @ + 1])
    /\ RecordSet(j, [records[j] EXCEPT !.processed = @ + 1])
    /\ UNCHANGED <<expires, pointer, pointerExpires, order, lookupVars, running>>

Job(j) ==
    /\ \/ Create(j) \/ ReadPointer \/ ReadRecord(j) \/ Resume(j)
       \/ Finish(j) \/ Die(j) \/ Checkpoint(j) \/ IncrementProcessed(j)
    /\ UNCHANGED <<now, frameVars>>

\* GET /jobs/{id}: a half hash fails validation, which no handler expects.
GetJob(record) ==
    CASE record.kind = "none" -> 404 [] record.kind = "half" -> 500 [] OTHER -> 200

-----------------------------------------------------------------------------
(* Blobs and dedup keys.                                                   *)

PutBlob(f) ==
    /\ blob' = [blob EXCEPT ![f] = now + FrameTtl]
    /\ blobDouble' = [blobDouble EXCEPT ![f] = now + FrameTtl]
    /\ UNCHANGED <<claim, claimed>>

\* The double looks at the clock when it is asked, and drops the blob then.
HasBlob(f) == blob[f] # Never
ExpiredDouble(f) == now >= blobDouble[f]
HasBlobDouble(f) == blobDouble[f] # Never /\ ~ExpiredDouble(f)

GetBlob(f) ==
    /\ blobDouble' = [blobDouble EXCEPT ![f] = IF ExpiredDouble(f) THEN Never ELSE @]
    /\ UNCHANGED <<blob, claim, claimed>>

\* SET NX EX: a key that is there keeps its TTL.
Claim(f) ==
    /\ claim' = [claim EXCEPT ![f] = IF @ = Never THEN now + FrameTtl ELSE @]
    /\ claimed' = claimed \cup {f}
    /\ UNCHANGED <<blob, blobDouble>>

Frame(f) ==
    /\ PutBlob(f) \/ GetBlob(f) \/ Claim(f)
    /\ UNCHANGED <<now, jobVars>>

JobsNext == Tick \/ \E j \in Jobs : Job(j)
FramesNext == Tick \/ \E f \in Frames : Frame(f)

StoreNext == JobsNext \/ FramesNext

StoreSpec == StoreInit /\ [][StoreNext]_storeVars

-----------------------------------------------------------------------------
(* Properties.                                                             *)

Records ==
    [kind : {"none", "half", "whole"}, status : {"none", "RUNNING", "COMPLETED", "FAILED"},
     last : -1 .. MaxProgress - 1, processed : 0 .. MaxProgress, error : BOOLEAN]
Times == 0 .. MaxTime + JobTtl + FrameTtl + 2

StoreTypeOK ==
    /\ now \in 1 .. MaxTime + 1
    /\ hash \in [Jobs -> Records] /\ expires \in [Jobs -> Times]
    /\ pointer \in Jobs \cup {NoJob} /\ pointerExpires \in Times
    /\ records \in [Jobs -> Records] /\ order \in Seq(Jobs)
    /\ named \subseteq Jobs /\ resuming \subseteq Jobs /\ running \subseteq Jobs
    /\ blob \in [Frames -> Times] /\ blobDouble \in [Frames -> Times]
    /\ claim \in [Frames -> Times] /\ claimed \subseteq Frames

\* Until its TTL ends a job reads the same from Redis and from the double, whatever
\* is written by runs and detectors, except that Redis keeps an old error text.
JobsAgree ==
    \A j \in Jobs : expires[j] # Never =>
        /\ GetJob(hash[j]) = 200
        /\ [hash[j] EXCEPT !.error = records[j].error] = records[j]
        /\ records[j].error => hash[j].error

\* Job k was created after job j.
Newer(k, j) == \E a, b \in DOMAIN order : a < b /\ order[a] = j /\ order[b] = k

\* The pointer names the job that the double's search finds, and may outlive its hash,
\* as the adapter says; a write that comes after the end leaves a hash that cannot be
\* read and never goes.  A lookup that comes to a hash that has gone, or is half, misses
\* no job that it could resume but those that were created since it read the pointer.
LookupsAgree ==
    /\ \A j \in Jobs : expires[j] = Never => GetJob(hash[j]) # 200
    /\ pointer # NoJob => pointer = FoundDouble
    /\ pointer = NoJob => \A j \in Jobs : expires[j] = Never
    /\ \A j \in named \cup ({pointer} \ {NoJob}) : \A k \in Jobs :
         expires[j] = Never /\ expires[k] # Never => Newer(k, j)

\* A blob is there or gone for both at the same moment, and a dedup key that Redis
\* holds is held by the double too.
FramesAgree ==
    \A f \in Frames :
        /\ HasBlob(f) = HasBlobDouble(f)
        /\ claim[f] # Never => f \in claimed

\* "Any divergence fails the build": what the doubles and Redis answer, as far as
\* they agree.
AnswersAgree == JobsAgree /\ LookupsAgree /\ FramesAgree
=============================================================================
