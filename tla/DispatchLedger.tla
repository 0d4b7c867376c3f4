--------------------------- MODULE DispatchLedger ---------------------------
(***************************************************************************)
(* What a dispatch run promises its caller, the analysis service: which    *)
(* references were accepted and confirmed, what a checkpoint may say while *)
(* the run lasts, and what the run's return means.  No tasks, no queue, no *)
(* order of work.                                                          *)
(***************************************************************************)
EXTENDS Integers, Sequences, FiniteSets

CONSTANTS
    NumFrames,   \* sampled frames in the video
    Priors       \* the job records a run may be resumed from

VARIABLES
    prior,       \* the record this run continues
    accepted,    \* references RabbitMQ accepted, in order
    confirmed,   \* frames whose confirm arrived
    skipped,     \* frames reported as undecodable
    checkpoint,  \* the job record
    outcome      \* what run() came to

vars == <<prior, accepted, confirmed, skipped, checkpoint, outcome>>

Accepted == {accepted[i] : i \in DOMAIN accepted}

\* The frames from the first one this run owes up to the n-th.
Owed(n) == prior.last_source_index + 1 .. n - 1

Init ==
    /\ prior \in Priors
    /\ accepted = << >> /\ confirmed = {} /\ skipped = {}
    /\ checkpoint = prior /\ outcome = "running"

\* Each owed frame is sent at most once, and never one that was given up.
Accept(f) ==
    /\ f \in Owed(NumFrames) \ (Accepted \cup skipped)
    /\ accepted' = Append(accepted, f)
    /\ UNCHANGED <<prior, confirmed, skipped, checkpoint, outcome>>

Confirm(f) ==
    /\ f \in Accepted \ confirmed
    /\ confirmed' = confirmed \cup {f}
    /\ UNCHANGED <<prior, accepted, skipped, checkpoint, outcome>>

Skip(f) ==
    /\ f \in Owed(NumFrames) \ (Accepted \cup skipped)
    /\ skipped' = skipped \cup {f}
    /\ UNCHANGED <<prior, accepted, confirmed, checkpoint, outcome>>

\* A checkpoint counts confirmed and failed frames only, and points at one.
Checkpoint ==
    /\ checkpoint'.last_source_index \in confirmed
    /\ checkpoint'.frames_dispatched
         \in prior.frames_dispatched .. prior.frames_dispatched + Cardinality(confirmed)
    /\ checkpoint'.frames_failed
         \in prior.frames_failed .. prior.frames_failed + Cardinality(skipped)
    /\ UNCHANGED <<prior, accepted, confirmed, skipped, outcome>>

\* A run that ends without an error has heard of all it sent, and has dealt with
\* everything up to where it stopped, which is the end unless it was aborted.
Settled(n) == confirmed = Accepted /\ confirmed \cup skipped = Owed(n)

End ==
    /\ \/ outcome' = "complete" /\ Settled(NumFrames)
       \/ outcome' = "aborted" /\ \E n \in prior.last_source_index + 1 .. NumFrames : Settled(n)
       \/ outcome' \in {"error", "raised"}
    /\ UNCHANGED <<prior, accepted, confirmed, skipped, checkpoint>>

\* Once run() is over, nothing of it is left that could still send or write.
Next ==
    /\ outcome = "running"
    /\ \/ \E f \in Owed(NumFrames) : Accept(f) \/ Confirm(f) \/ Skip(f)
       \/ Checkpoint
       \/ End

Spec == Init /\ [][Next]_vars
=============================================================================
