--------------------------- MODULE DetectorProofs ---------------------------
(***************************************************************************)
(* Proofs about the stream detector.                                       *)
(*                                                                         *)
(* Each action is first reduced to what it does to the one replica it is   *)
(* of (the steps below); the invariants are then shown step by step.       *)
(***************************************************************************)
EXTENDS Detector, SubsequenceProofs

States == {"idle", "working", "claiming", "adding", "flushing", "counting", "stopping", "down"}

Types ==
    /\ ready \in [Partitions -> SUBSET Messages] /\ active \in [Partitions -> Replicas]
    /\ redelivered \subseteq Messages /\ acked \subseteq Messages /\ dead \subseteq Messages
    /\ connected \in [Replicas -> BOOLEAN]
    /\ unacked \in [Replicas -> Seq(Messages)]
    /\ fetched \in [Replicas -> [Partitions -> Seq(Messages)]]
    /\ state \in [Replicas -> States] /\ current \in [Replicas -> Messages \cup {None}]
    /\ pending \in [Replicas -> Seq(Messages)] /\ flushing \in [Replicas -> Seq(Messages)]
    /\ flusher \in [Replicas -> {"none", "worker", "timer", "stop"}]
    /\ sunk \in [Replicas -> BOOLEAN]
    /\ claimed \subseteq Messages /\ processed \in Nat
    /\ reported \in Seq(Messages) /\ shed \subseteq Messages
    /\ interruptions \in 0 .. MaxInterruptions /\ sinkFailures \in 0 .. MaxSinkFailures

-----------------------------------------------------------------------------
(* What the actions do, replica by replica.                                *)

SameChannel(d) == connected'[d] = connected[d] /\ unacked'[d] = unacked[d] /\ fetched'[d] = fetched[d]
SameLoop(d) == state'[d] = state[d] /\ current'[d] = current[d]
SameBatch(d) ==
    /\ pending'[d] = pending[d] /\ flushing'[d] = flushing[d]
    /\ flusher'[d] = flusher[d] /\ sunk'[d] = sunk[d]
Others(d) == \A e \in Replicas : e # d => SameChannel(e) /\ SameLoop(e) /\ SameBatch(e)

DeliverStep(d, p) ==
    /\ connected[d] /\ active[p] = d /\ MayDeliver(d, p)
    /\ \E m \in ready[p] :
        /\ \A n \in ready[p] : m <= n
        /\ ready'[p] = ready[p] \ {m} /\ \A o \in Partitions : o # p => ready'[o] = ready[o]
        /\ unacked'[d] = Append(unacked[d], m)
        /\ fetched'[d][p] = Append(fetched[d][p], m)
        /\ \A o \in Partitions : o # p => fetched'[d][o] = fetched[d][o]
    /\ connected'[d] = connected[d] /\ SameLoop(d) /\ SameBatch(d) /\ Others(d)
    /\ UNCHANGED <<redelivered, acked, dead, active, redisVars, reported, shed, boundVars>>

PromoteStep(p) ==
    /\ ~connected[active[p]] /\ connected[active'[p]]
    /\ \A o \in Partitions : o # p => active'[o] = active[o]
    /\ UNCHANGED <<queueVars, channelVars, loopVars, batchVars, redisVars, reported, shed, boundVars>>

TakeStep(d, p) ==
    /\ state[d] = "idle" /\ fetched[d][p] # << >>
    /\ current'[d] = Head(fetched[d][p]) /\ fetched'[d][p] = Tail(fetched[d][p])
    /\ \A o \in Partitions : o # p => fetched'[d][o] = fetched[d][o]
    /\ state'[d] = "working" /\ connected'[d] = connected[d] /\ unacked'[d] = unacked[d]
    /\ SameBatch(d) /\ Others(d)
    /\ UNCHANGED <<queueVars, active, redisVars, reported, shed, boundVars>>

\* The delivery at hand is settled on its own.
SettleStep(d) ==
    /\ state[d] \in {"working", "claiming"}
    /\ unacked'[d] = Without(unacked[d], {current[d]})
    /\ connected'[d] = connected[d] /\ fetched'[d] = fetched[d]
    /\ state'[d] = "idle" /\ current'[d] = None
    /\ SameBatch(d) /\ Others(d)
    /\ \/ /\ acked' = acked \cup {current[d]}
          /\ shed' = shed \cup {current[d]} \/ (shed' = shed /\ Frame(d) \in claimed)
          /\ UNCHANGED <<ready, redelivered, dead>>
       \/ dead' = dead \cup {current[d]} /\ UNCHANGED <<ready, redelivered, acked, shed>>
       \/ Requeue({current[d]}) /\ UNCHANGED <<acked, dead, shed>>
    /\ UNCHANGED <<active, redisVars, reported, boundVars>>

\* Only the loop goes on, and Redis with it.
LoopStep(d) ==
    /\ \/ state[d] = "working" /\ state'[d] = "claiming" /\ UNCHANGED redisVars
       \/ /\ state[d] = "claiming" /\ state'[d] = "adding"
          /\ claimed' = claimed \cup {Frame(d)} /\ Frame(d) \notin claimed /\ UNCHANGED processed
       \/ /\ "claim" \in Faults /\ state[d] = "claiming" /\ state'[d] = "adding"
          /\ claimed' \in {claimed, claimed \cup {Frame(d)}} /\ UNCHANGED processed
       \/ /\ state[d] = "counting" /\ state'[d] = "idle"
          /\ processed' = processed + 1 /\ UNCHANGED claimed
    /\ current'[d] = current[d] /\ SameChannel(d) /\ SameBatch(d) /\ Others(d)
    /\ UNCHANGED <<queueVars, active, reported, shed, boundVars>>

AddStep(d) ==
    /\ state[d] = "adding" /\ flusher[d] = "none" /\ Len(pending[d]) + 1 < BatchSize
    /\ pending'[d] = Append(pending[d], current[d])
    /\ state'[d] = "counting" /\ current'[d] = None
    /\ flushing'[d] = flushing[d] /\ flusher'[d] = flusher[d] /\ sunk'[d] = sunk[d]
    /\ SameChannel(d) /\ Others(d)
    /\ UNCHANGED <<queueVars, active, redisVars, reported, shed, boundVars>>

\* The buffer becomes the batch being flushed.
SwapStep(d) ==
    /\ flusher[d] = "none" /\ pending'[d] = << >> /\ sunk'[d] = sunk[d]
    /\ \/ /\ state[d] = "adding" /\ Len(pending[d]) + 1 >= BatchSize
          /\ flushing'[d] = Append(pending[d], current[d])
          /\ flusher'[d] = "worker" /\ state'[d] = "flushing" /\ current'[d] = None
       \/ /\ state[d] \notin {"stopping", "down"} /\ pending[d] # << >>
          /\ flushing'[d] = pending[d] /\ flusher'[d] = "timer" /\ SameLoop(d)
       \/ /\ state[d] = "stopping" /\ pending[d] # << >>
          /\ flushing'[d] = pending[d] /\ flusher'[d] = "stop" /\ SameLoop(d)
    /\ SameChannel(d) /\ Others(d)
    /\ UNCHANGED <<queueVars, active, redisVars, reported, shed, boundVars>>

AcceptStep(d) ==
    /\ flusher[d] # "none" /\ ~sunk[d]
    /\ reported' = reported \o flushing[d] /\ sunk'[d] = TRUE
    /\ pending'[d] = pending[d] /\ flushing'[d] = flushing[d] /\ flusher'[d] = flusher[d]
    /\ SameChannel(d) /\ SameLoop(d) /\ Others(d)
    /\ UNCHANGED <<queueVars, active, redisVars, shed, boundVars>>

\* The batch is settled or handed back, and the lock is free.
ReleaseStep(d) ==
    /\ flushing'[d] = << >> /\ flusher'[d] = "none" /\ sunk'[d] = FALSE
    /\ state'[d] = IF flusher[d] = "worker" THEN "counting" ELSE state[d]
    /\ current'[d] = current[d] /\ pending'[d] = pending[d]
    /\ connected'[d] = connected[d] /\ fetched'[d] = fetched[d] /\ Others(d)
    /\ \/ /\ sunk[d] /\ connected[d]
          /\ LET n == CumulativeUpTo(d, flushing[d]) IN
             /\ acked' = acked \cup ToSet(SubSeq(unacked[d], 1, n))
             /\ unacked'[d] = SubSeq(unacked[d], n + 1, Len(unacked[d]))
          /\ UNCHANGED <<ready, redelivered, reported, sinkFailures>>
       \/ /\ sunk[d] /\ ~connected[d]
          /\ unacked'[d] = unacked[d] /\ UNCHANGED <<acked, ready, redelivered, reported, sinkFailures>>
       \/ /\ flusher[d] # "none" /\ ~sunk[d]
          /\ reported' \in {reported, reported \o flushing[d]}
          /\ sinkFailures' = sinkFailures + 1
          /\ \/ /\ connected[d]
                /\ Requeue(ToSet(flushing[d]) \cap ToSet(unacked[d]))
                /\ unacked'[d] = Without(unacked[d], ToSet(flushing[d]))
             \/ ~connected[d] /\ unacked'[d] = unacked[d] /\ UNCHANGED <<ready, redelivered>>
          /\ UNCHANGED acked
    /\ UNCHANGED <<dead, active, redisVars, shed, interruptions>>

\* The batch being flushed is left alone; its results may still arrive.
AbandonedAt(d) ==
    /\ flushing'[d] = << >> /\ flusher'[d] = "none" /\ sunk'[d] = FALSE
    /\ reported' = reported \/ (~sunk[d] /\ reported' = reported \o flushing[d])

\* The consume loop dies with its connection open.
LoopDiesStep(d) ==
    /\ state[d] = "counting" /\ state'[d] = "stopping" /\ current'[d] = current[d]
    /\ AbandonedAt(d) /\ pending'[d] = pending[d] /\ SameChannel(d) /\ Others(d)
    /\ processed' \in {processed, processed + 1} /\ interruptions' = interruptions + 1
    /\ UNCHANGED <<queueVars, active, claimed, shed, sinkFailures>>

\* The connection goes, with the process (a crash), or before its batcher stops.
LeaveStep(d) ==
    /\ Requeue(ToSet(unacked[d]))
    /\ connected'[d] = FALSE /\ unacked'[d] = << >>
    /\ \A p \in Partitions : fetched'[d][p] = << >>
    /\ \/ /\ state[d] \notin {"stopping", "down"} /\ state'[d] = "stopping" /\ current'[d] = None
          /\ pending'[d] = pending[d] /\ AbandonedAt(d) /\ interruptions' = interruptions + 1
       \/ /\ state[d] # "down" /\ state'[d] = "down" /\ current'[d] = None
          /\ pending'[d] = << >> /\ AbandonedAt(d) /\ interruptions' = interruptions + 1
       \/ /\ state[d] = "stopping" /\ flusher[d] = "none" /\ pending[d] = << >>
          /\ state'[d] = "down" /\ current'[d] = current[d] /\ SameBatch(d)
          /\ UNCHANGED <<reported, interruptions>>
    /\ Others(d)
    /\ UNCHANGED <<acked, dead, active, redisVars, shed, sinkFailures>>

RestartStep(d) ==
    /\ state[d] = "down" /\ state'[d] = "idle" /\ current'[d] = current[d]
    /\ connected'[d] = TRUE /\ unacked'[d] = unacked[d] /\ fetched'[d] = fetched[d]
    /\ SameBatch(d) /\ Others(d)
    /\ UNCHANGED <<queueVars, active, redisVars, reported, shed, boundVars>>

ReplicaStep(d) ==
    \/ \E p \in Partitions : DeliverStep(d, p) \/ TakeStep(d, p)
    \/ SettleStep(d) \/ LoopStep(d) \/ AddStep(d) \/ SwapStep(d) \/ AcceptStep(d) \/ ReleaseStep(d)
    \/ LoopDiesStep(d) \/ LeaveStep(d) \/ RestartStep(d)

-----------------------------------------------------------------------------
\* What the assumptions on the constants say.
LEMMA Constants ==
    /\ NumMessages \in Nat /\ Messages \subseteq Nat \ {0} /\ None \notin Messages
    /\ FrameOf \in [Messages -> Messages] /\ PartitionOf \in [Messages -> Partitions]
    /\ Prefetch \in Nat /\ Prefetch > 0 /\ BatchSize \in Nat /\ BatchSize > 0
    /\ MaxInterruptions \in Nat /\ MaxSinkFailures \in Nat
  BY MessagesAssumption, SizesAssumption, BoundsAssumption DEF Messages, None

\* The least of the waiting messages.
LEMMA MinMember ==
    ASSUME NEW S \in SUBSET Messages, S # {}
    PROVE  Min(S) \in S /\ \A n \in S : Min(S) <= n
<1>1. S \in SUBSET Nat
  BY Constants
<1>2. \E x \in S : \A y \in S : x <= y
  BY <1>1, LeastNatural
<1>3. QED
  BY <1>2 DEF Min

\* Deliver does what DeliverStep says.
LEMMA DeliverEffect ==
    ASSUME Types, NEW d \in Replicas, NEW p \in Partitions, Deliver(d, p)
    PROVE  DeliverStep(d, p) /\ Types'
<1> DEFINE m == Min(ready[p])
<1>1. m \in ready[p] /\ \A n \in ready[p] : m <= n
  BY MinMember DEF Types, Deliver
<1>2. m \in Messages
  BY <1>1 DEF Types
<1> HIDE DEF m
<1>3. /\ connected[d] /\ active[p] = d /\ MayDeliver(d, p)
      /\ ready' = [ready EXCEPT ![p] = @ \ {m}]
      /\ unacked' = [unacked EXCEPT ![d] = Append(@, m)]
      /\ fetched' = [fetched EXCEPT ![d][p] = Append(@, m)]
      /\ UNCHANGED <<redelivered, acked, dead, active, connected, loopVars, batchVars, redisVars,
                     reported, shed, boundVars>>
  BY DEF Deliver, m
<1>4. ready' \in [Partitions -> SUBSET Messages]
  BY <1>3 DEF Types
<1>5. unacked' \in [Replicas -> Seq(Messages)]
  <2>1. Append(unacked[d], m) \in Seq(Messages)
    BY <1>2 DEF Types
  <2>2. QED
    BY <1>3, <2>1 DEF Types
<1>6. fetched' \in [Replicas -> [Partitions -> Seq(Messages)]]
  <2>1. Append(fetched[d][p], m) \in Seq(Messages)
    BY <1>2 DEF Types
  <2>2. [fetched[d] EXCEPT ![p] = Append(fetched[d][p], m)] \in [Partitions -> Seq(Messages)]
    BY <2>1 DEF Types
  <2>3. fetched' = [fetched EXCEPT ![d] = [fetched[d] EXCEPT ![p] = Append(fetched[d][p], m)]]
    BY <1>3 DEF Types
  <2>4. QED
    BY <2>2, <2>3 DEF Types
<1>7. Types'
  BY <1>3, <1>4, <1>5, <1>6 DEF Types, loopVars, batchVars, redisVars, boundVars
<1>8. /\ ready'[p] = ready[p] \ {m} /\ \A o \in Partitions : o # p => ready'[o] = ready[o]
      /\ unacked'[d] = Append(unacked[d], m)
      /\ fetched'[d][p] = Append(fetched[d][p], m)
      /\ \A o \in Partitions : o # p => fetched'[d][o] = fetched[d][o]
      /\ \A e \in Replicas : e # d => unacked'[e] = unacked[e] /\ fetched'[e] = fetched[e]
  BY <1>3 DEF Types
<1>9. DeliverStep(d, p)
  BY <1>1, <1>3, <1>8 DEF DeliverStep, SameChannel, SameLoop, SameBatch, Others, loopVars, batchVars
<1>10. QED
  BY <1>7, <1>9

\* Promote changes only who is the active consumer.
LEMMA PromoteEffect ==
    ASSUME Types, NEW p \in Partitions, Promote(p)
    PROVE  PromoteStep(p) /\ Types'
  BY DEF Types, Promote, PromoteStep, queueVars, channelVars, loopVars, batchVars, redisVars, boundVars

\* TakeDelivery does what TakeStep says.
LEMMA TakeEffect ==
    ASSUME Types, NEW d \in Replicas, TakeDelivery(d), UNCHANGED <<active, batchVars, reported, boundVars>>
    PROVE  Types' /\ \E p \in Partitions : TakeStep(d, p)
<1>1. PICK p \in Partitions :
        /\ fetched[d][p] # << >>
        /\ current' = [current EXCEPT ![d] = Head(fetched[d][p])]
        /\ fetched' = [fetched EXCEPT ![d][p] = Tail(@)]
  BY DEF TakeDelivery
<1>2. /\ state[d] = "idle" /\ state' = [state EXCEPT ![d] = "working"]
      /\ UNCHANGED <<queueVars, connected, unacked, redisVars, shed>>
  BY DEF TakeDelivery
<1>3. Head(fetched[d][p]) \in Messages /\ Tail(fetched[d][p]) \in Seq(Messages)
  BY <1>1, HeadTailProperties DEF Types
<1>4. fetched' \in [Replicas -> [Partitions -> Seq(Messages)]]
  <2>1. [fetched[d] EXCEPT ![p] = Tail(fetched[d][p])] \in [Partitions -> Seq(Messages)]
    BY <1>3 DEF Types
  <2>2. fetched' = [fetched EXCEPT ![d] = [fetched[d] EXCEPT ![p] = Tail(fetched[d][p])]]
    BY <1>1 DEF Types
  <2>3. QED
    BY <2>1, <2>2 DEF Types
<1>5. current' \in [Replicas -> Messages \cup {None}] /\ state' \in [Replicas -> States]
  BY <1>1, <1>2, <1>3 DEF Types, States
<1>6. Types'
  BY <1>2, <1>4, <1>5 DEF Types, queueVars, batchVars, redisVars, boundVars
<1>7. /\ current'[d] = Head(fetched[d][p]) /\ fetched'[d][p] = Tail(fetched[d][p])
      /\ \A o \in Partitions : o # p => fetched'[d][o] = fetched[d][o]
      /\ state'[d] = "working"
      /\ \A e \in Replicas : e # d =>
            current'[e] = current[e] /\ fetched'[e] = fetched[e] /\ state'[e] = state[e]
  BY <1>1, <1>2 DEF Types
<1>8. TakeStep(d, p)
  BY <1>1, <1>2, <1>7 DEF TakeStep, SameChannel, SameLoop, SameBatch, Others, batchVars
<1>9. QED
  BY <1>6, <1>8

\* Requeued messages keep the queues within their types.
LEMMA RequeueTypes ==
    ASSUME Types, NEW S \in SUBSET Messages, Requeue(S)
    PROVE  ready' \in [Partitions -> SUBSET Messages] /\ redelivered' \subseteq Messages
  BY DEF Types, Requeue, Of

\* A message settled on its own: what ShedStale, LoadFails, Reject and Duplicate share.
LEMMA SettleEffect ==
    ASSUME Types, NEW d \in Replicas, current[d] \in Messages,
           ShedStale(d) \/ LoadFails(d) \/ Reject(d) \/ Duplicate(d),
           UNCHANGED <<active, batchVars, reported, boundVars>>
    PROVE  Types' /\ SettleStep(d)
<1>1. /\ state[d] \in {"working", "claiming"}
      /\ unacked' = [unacked EXCEPT ![d] = Without(unacked[d], {current[d]})]
      /\ state' = [state EXCEPT ![d] = "idle"] /\ current' = [current EXCEPT ![d] = None]
      /\ UNCHANGED <<connected, fetched, redisVars>>
  BY DEF ShedStale, LoadFails, Reject, Duplicate, DuplicateSettled, Settle, LoadedBeforeClaim
<1>2. \/ /\ acked' = acked \cup {current[d]}
         /\ shed' = shed \cup {current[d]} \/ (shed' = shed /\ Frame(d) \in claimed)
         /\ UNCHANGED <<ready, redelivered, dead>>
      \/ dead' = dead \cup {current[d]} /\ UNCHANGED <<ready, redelivered, acked, shed>>
      \/ Requeue({current[d]}) /\ UNCHANGED <<acked, dead, shed>>
  BY DEF ShedStale, LoadFails, Reject, Duplicate, DuplicateSettled, Claimable
<1>3. Without(unacked[d], {current[d]}) \in Seq(Messages)
  BY WithoutIsWithin DEF Types
<1>4. /\ unacked' \in [Replicas -> Seq(Messages)] /\ state' \in [Replicas -> States]
      /\ current' \in [Replicas -> Messages \cup {None}]
  BY <1>1, <1>3 DEF Types, States
<1>5. /\ acked' \subseteq Messages /\ dead' \subseteq Messages /\ shed' \subseteq Messages
      /\ ready' \in [Partitions -> SUBSET Messages] /\ redelivered' \subseteq Messages
  BY <1>2, RequeueTypes DEF Types
<1>6. Types'
  BY <1>1, <1>4, <1>5 DEF Types, batchVars, redisVars, boundVars
<1>7. /\ unacked'[d] = Without(unacked[d], {current[d]}) /\ state'[d] = "idle" /\ current'[d] = None
      /\ \A e \in Replicas : e # d =>
            current'[e] = current[e] /\ unacked'[e] = unacked[e] /\ state'[e] = state[e]
  BY <1>1 DEF Types
<1>8. SettleStep(d)
  BY <1>1, <1>2, <1>7 DEF SettleStep, SameChannel, SameLoop, SameBatch, Others, batchVars
<1>9. QED
  BY <1>6, <1>8

\* The other steps of the loop move only the loop and the Redis keys.
LEMMA LoopEffect ==
    ASSUME Types, NEW d \in Replicas, state[d] = "claiming" => current[d] \in Messages,
           Detected(d) \/ Claim(d) \/ ClaimFails(d) \/ Count(d),
           UNCHANGED <<active, batchVars, reported, boundVars>>
    PROVE  Types' /\ LoopStep(d)
<1>1. UNCHANGED <<queueVars, channelVars, current, shed>>
  BY DEF Detected, Claim, ClaimFails, Count
<1>2. PICK s \in States : state' = [state EXCEPT ![d] = s]
  BY DEF Detected, Claim, ClaimFails, Count, States
<1>3. /\ state' \in [Replicas -> States] /\ state'[d] = s
      /\ \A e \in Replicas : e # d => state'[e] = state[e]
  BY <1>2 DEF Types
<1>4. \/ state[d] = "working" /\ state'[d] = "claiming" /\ UNCHANGED redisVars
      \/ /\ state[d] = "claiming" /\ state'[d] = "adding"
         /\ claimed' = claimed \cup {Frame(d)} /\ Frame(d) \notin claimed /\ UNCHANGED processed
      \/ /\ "claim" \in Faults /\ state[d] = "claiming" /\ state'[d] = "adding"
         /\ claimed' \in {claimed, claimed \cup {Frame(d)}} /\ UNCHANGED processed
      \/ /\ state[d] = "counting" /\ state'[d] = "idle"
         /\ processed' = processed + 1 /\ UNCHANGED claimed
  <2>1. CASE Detected(d)
    BY <2>1 DEF Types, Detected
  <2>2. CASE Claim(d)
    BY <2>2 DEF Types, Claim, Claimable
  <2>3. CASE ClaimFails(d)
    BY <2>3 DEF Types, ClaimFails
  <2>4. CASE Count(d)
    BY <2>4 DEF Types, Count
  <2>5. QED
    BY <2>1, <2>2, <2>3, <2>4
<1>5. claimed' \subseteq Messages /\ processed' \in Nat
  <2>1. state[d] = "claiming" => Frame(d) \in Messages
    BY Constants DEF Frame
  <2>2. claimed \subseteq Messages /\ processed \in Nat
    BY DEF Types
  <2>3. QED
    BY <1>4, <2>1, <2>2 DEF redisVars
<1>6. Types'
  BY <1>1, <1>3, <1>5 DEF Types, queueVars, channelVars, batchVars, boundVars
<1>7. LoopStep(d)
  BY <1>1, <1>3, <1>4
     DEF LoopStep, SameChannel, SameLoop, SameBatch, Others, channelVars, batchVars
<1>8. QED
  BY <1>6, <1>7

\* Add does what AddStep says.
LEMMA AddEffect ==
    ASSUME Types, NEW d \in Replicas, current[d] \in Messages, Add(d)
    PROVE  Types' /\ (AddStep(d) \/ SwapStep(d))
<1>1. Append(pending[d], current[d]) \in Seq(Messages) /\ pending[d] \in Seq(Messages)
      /\ Len(Append(pending[d], current[d])) = Len(pending[d]) + 1
  BY DEF Types
<1>2. /\ state[d] = "adding" /\ flusher[d] = "none" /\ current' = [current EXCEPT ![d] = None]
      /\ UNCHANGED <<queueVars, active, channelVars, sunk, redisVars, reported, shed, boundVars>>
  BY DEF Add
<1>3. current' \in [Replicas -> Messages \cup {None}] /\ current'[d] = None
      /\ \A e \in Replicas : e # d => current'[e] = current[e]
  BY <1>2 DEF Types
<1>4. CASE Len(Buffered(d)) >= BatchSize
  <2>1. /\ flushing' = [flushing EXCEPT ![d] = Append(pending[d], current[d])]
        /\ pending' = [pending EXCEPT ![d] = << >>]
        /\ flusher' = [flusher EXCEPT ![d] = "worker"]
        /\ state' = [state EXCEPT ![d] = "flushing"]
        /\ Len(pending[d]) + 1 >= BatchSize
    BY <1>1, <1>4 DEF Add, Buffered
  <2>2. /\ flushing' \in [Replicas -> Seq(Messages)] /\ pending' \in [Replicas -> Seq(Messages)]
        /\ flusher' \in [Replicas -> {"none", "worker", "timer", "stop"}]
        /\ state' \in [Replicas -> States]
    BY <1>1, <2>1 DEF Types, States
  <2>3. /\ flushing'[d] = Append(pending[d], current[d]) /\ pending'[d] = << >>
        /\ flusher'[d] = "worker" /\ state'[d] = "flushing"
        /\ \A e \in Replicas : e # d => /\ flushing'[e] = flushing[e] /\ pending'[e] = pending[e]
                                        /\ flusher'[e] = flusher[e] /\ state'[e] = state[e]
    BY <2>1 DEF Types
  <2>4. Types'
    BY <1>2, <1>3, <2>2 DEF Types, queueVars, channelVars, redisVars, boundVars
  <2>5. SwapStep(d)
    BY <1>2, <1>3, <2>1, <2>3
       DEF SwapStep, SameChannel, SameLoop, SameBatch, Others, channelVars
  <2>6. QED
    BY <2>4, <2>5
<1>5. CASE ~(Len(Buffered(d)) >= BatchSize)
  <2>1. /\ pending' = [pending EXCEPT ![d] = Append(pending[d], current[d])]
        /\ state' = [state EXCEPT ![d] = "counting"] /\ UNCHANGED <<flushing, flusher>>
        /\ Len(pending[d]) + 1 < BatchSize
    BY <1>1, <1>5, Constants DEF Add, Buffered
  <2>2. pending' \in [Replicas -> Seq(Messages)] /\ state' \in [Replicas -> States]
    BY <1>1, <2>1 DEF Types, States
  <2>3. /\ pending'[d] = Append(pending[d], current[d]) /\ state'[d] = "counting"
        /\ \A e \in Replicas : e # d => pending'[e] = pending[e] /\ state'[e] = state[e]
    BY <2>1 DEF Types
  <2>4. Types'
    BY <1>2, <1>3, <2>1, <2>2 DEF Types, queueVars, channelVars, redisVars, boundVars
  <2>5. AddStep(d)
    BY <1>2, <1>3, <2>1, <2>3
       DEF AddStep, SameChannel, SameLoop, SameBatch, Others, channelVars
  <2>6. QED
    BY <2>4, <2>5
<1>6. QED
  BY <1>4, <1>5

\* AgeFlush and StopFlush swap the buffer alike.
LEMMA SwapEffect ==
    ASSUME Types, NEW d \in Replicas, AgeFlush(d) \/ StopFlush(d),
           UNCHANGED <<active, current, redisVars, shed>>
    PROVE  Types' /\ SwapStep(d)
<1>1. /\ flusher[d] = "none" /\ pending[d] # << >>
      /\ flushing' = [flushing EXCEPT ![d] = pending[d]]
      /\ pending' = [pending EXCEPT ![d] = << >>]
      /\ UNCHANGED <<queueVars, channelVars, state, sunk, reported, boundVars>>
  BY DEF AgeFlush, StopFlush, AgeReached
<1>2. \/ state[d] \notin {"stopping", "down"} /\ flusher' = [flusher EXCEPT ![d] = "timer"]
      \/ state[d] = "stopping" /\ flusher' = [flusher EXCEPT ![d] = "stop"]
  BY DEF AgeFlush, StopFlush
<1>3. /\ flushing' \in [Replicas -> Seq(Messages)] /\ pending' \in [Replicas -> Seq(Messages)]
      /\ flusher' \in [Replicas -> {"none", "worker", "timer", "stop"}]
  <2>1. flushing' \in [Replicas -> Seq(Messages)] /\ pending' \in [Replicas -> Seq(Messages)]
    BY <1>1 DEF Types
  <2>2. flusher' \in [Replicas -> {"none", "worker", "timer", "stop"}]
    BY <1>2 DEF Types
  <2>3. QED
    BY <2>1, <2>2
<1>4. /\ flushing'[d] = pending[d] /\ pending'[d] = << >>
      /\ \/ state[d] \notin {"stopping", "down"} /\ flusher'[d] = "timer"
         \/ state[d] = "stopping" /\ flusher'[d] = "stop"
      /\ \A e \in Replicas : e # d => /\ flushing'[e] = flushing[e] /\ pending'[e] = pending[e]
                                      /\ flusher'[e] = flusher[e]
  <2>1. /\ flushing'[d] = pending[d] /\ pending'[d] = << >>
        /\ \A e \in Replicas : e # d => flushing'[e] = flushing[e] /\ pending'[e] = pending[e]
    BY <1>1 DEF Types
  <2>2. \/ state[d] \notin {"stopping", "down"} /\ flusher'[d] = "timer"
        \/ state[d] = "stopping" /\ flusher'[d] = "stop"
    BY <1>2 DEF Types
  <2>3. \A e \in Replicas : e # d => flusher'[e] = flusher[e]
    BY <1>2 DEF Types
  <2>4. QED
    BY <2>1, <2>2, <2>3
<1>5. Types'
  BY <1>1, <1>3 DEF Types, queueVars, channelVars, redisVars, boundVars
<1>6. SwapStep(d)
  BY <1>1, <1>4 DEF SwapStep, SameChannel, SameLoop, SameBatch, Others, channelVars
<1>7. QED
  BY <1>5, <1>6

\* The sink's answer adds the batch to what was reported.
LEMMA AcceptEffect ==
    ASSUME Types, NEW d \in Replicas, SinkAccepts(d), UNCHANGED <<active, current, redisVars, shed>>
    PROVE  Types' /\ AcceptStep(d)
<1>1. reported \o flushing[d] \in Seq(Messages)
  BY DEF Types
<1>2. /\ flusher[d] # "none" /\ ~sunk[d] /\ reported' = reported \o flushing[d]
      /\ sunk' = [sunk EXCEPT ![d] = TRUE]
      /\ UNCHANGED <<queueVars, channelVars, state, pending, flushing, flusher, boundVars>>
  BY DEF SinkAccepts
<1>3. sunk' \in [Replicas -> BOOLEAN] /\ sunk'[d] = TRUE
      /\ \A e \in Replicas : e # d => sunk'[e] = sunk[e]
  BY <1>2 DEF Types
<1>4. Types'
  BY <1>1, <1>2, <1>3 DEF Types, queueVars, channelVars, redisVars, boundVars
<1>5. AcceptStep(d)
  BY <1>2, <1>3 DEF AcceptStep, SameChannel, SameLoop, SameBatch, Others, channelVars
<1>6. QED
  BY <1>4, <1>5

\* The cumulative acknowledgement settles a prefix of the deliveries.
LEMMA CumulativeUpToRange ==
    ASSUME Types, NEW d \in Replicas
    PROVE  LET S == {0} \cup {i \in DOMAIN unacked[d] : unacked[d][i] \in ToSet(flushing[d])}
               n == CumulativeUpTo(d, flushing[d])
           IN  n \in S /\ n \in 0 .. Len(unacked[d]) /\ \A i \in S : i <= n
<1> DEFINE S == {0} \cup {i \in DOMAIN unacked[d] : unacked[d][i] \in ToSet(flushing[d])}
<1>1. unacked[d] \in Seq(Messages)
  BY DEF Types
<1>2. Len(unacked[d]) \in Nat /\ S \in SUBSET (0 .. Len(unacked[d])) /\ S # {}
  BY <1>1
<1>3. \E x \in S : \A y \in S : y <= x
  BY <1>2, GreatestNatural
<1>4. CumulativeUpTo(d, flushing[d]) = Max(S)
  BY DEF CumulativeUpTo
<1> HIDE DEF S
<1>5. Max(S) \in S /\ \A y \in S : y <= Max(S)
  BY <1>3 DEF Max
<1>6. QED
  BY <1>2, <1>4, <1>5 DEF S

\* AckBatch and SinkFails both let go of the batch and the lock.
LEMMA ReleaseEffect ==
    ASSUME Types, NEW d \in Replicas, AckBatch(d) \/ SinkFails(d),
           UNCHANGED <<active, current, redisVars, shed>>
    PROVE  Types' /\ ReleaseStep(d)
<1> DEFINE n == CumulativeUpTo(d, flushing[d])
<1>1. /\ Released(d) /\ UNCHANGED <<dead, connected, fetched, pending, interruptions>>
  BY DEF AckBatch, SinkFails, boundVars
<1>2. unacked[d] \in Seq(Messages) /\ flushing[d] \in Seq(Messages) /\ n \in 0 .. Len(unacked[d])
  BY CumulativeUpToRange DEF Types
<1>3. /\ SubSeq(unacked[d], n + 1, Len(unacked[d])) \in Seq(Messages)
      /\ SubSeq(unacked[d], 1, n) \in Seq(Messages)
      /\ ToSet(SubSeq(unacked[d], 1, n)) \subseteq Messages
  <2> HIDE DEF n
  <2>1. SubSeq(unacked[d], n + 1, Len(unacked[d])) \in Seq(Messages)
    BY <1>2, TailIsWithin
  <2>2. SubSeq(unacked[d], 1, n) \in Seq(Messages)
    BY <1>2, FrontIsWithin
  <2>3. QED
    BY <2>1, <2>2, ToSetMembers
<1>4. Without(unacked[d], ToSet(flushing[d])) \in Seq(Messages)
  BY <1>2, WithoutIsWithin
<1>5. ToSet(flushing[d]) \cap ToSet(unacked[d]) \in SUBSET Messages
  BY <1>2, ToSetMembers
<1> HIDE DEF n
<1>6. \/ /\ AckBatch(d) /\ sunk[d] /\ connected[d]
         /\ acked' = acked \cup ToSet(SubSeq(unacked[d], 1, n))
         /\ unacked' = [unacked EXCEPT ![d] = SubSeq(unacked[d], n + 1, Len(unacked[d]))]
         /\ UNCHANGED <<ready, redelivered, reported, sinkFailures>>
      \/ /\ AckBatch(d) /\ sunk[d] /\ ~connected[d]
         /\ UNCHANGED <<unacked, acked, ready, redelivered, reported, sinkFailures>>
      \/ /\ SinkFails(d) /\ flusher[d] # "none" /\ ~sunk[d]
         /\ reported' \in {reported, reported \o flushing[d]}
         /\ sinkFailures < MaxSinkFailures /\ sinkFailures' = sinkFailures + 1
         /\ \/ /\ connected[d]
               /\ Requeue(ToSet(flushing[d]) \cap ToSet(unacked[d]))
               /\ unacked' = [unacked EXCEPT ![d] = Without(unacked[d], ToSet(flushing[d]))]
            \/ ~connected[d] /\ UNCHANGED <<unacked, ready, redelivered>>
         /\ UNCHANGED acked
  BY DEF AckBatch, SinkFails, boundVars, n
<1>7. /\ acked' \subseteq Messages /\ unacked' \in [Replicas -> Seq(Messages)]
  <2>1. acked' \subseteq Messages
    BY <1>3, <1>6 DEF Types
  <2>2. \/ UNCHANGED unacked
        \/ unacked' = [unacked EXCEPT ![d] = SubSeq(unacked[d], n + 1, Len(unacked[d]))]
        \/ unacked' = [unacked EXCEPT ![d] = Without(unacked[d], ToSet(flushing[d]))]
    BY <1>6
  <2>3. unacked' \in [Replicas -> Seq(Messages)]
    BY <1>3, <1>4, <2>2 DEF Types
  <2>4. QED
    BY <2>1, <2>3
<1>8. ready' \in [Partitions -> SUBSET Messages] /\ redelivered' \subseteq Messages
  BY <1>5, <1>6, RequeueTypes DEF Types
<1>9. reported' \in Seq(Messages)
  <2>1. reported \o flushing[d] \in Seq(Messages)
    BY DEF Types
  <2>2. QED
    BY <1>6, <2>1 DEF Types
<1>10. sinkFailures' \in 0 .. MaxSinkFailures
  BY <1>6, Constants DEF Types
<1>11. /\ flushing' \in [Replicas -> Seq(Messages)] /\ sunk' \in [Replicas -> BOOLEAN]
       /\ flusher' \in [Replicas -> {"none", "worker", "timer", "stop"}]
       /\ state' \in [Replicas -> States]
  BY <1>1 DEF Types, Released, States
<1>12. Types'
  BY <1>1, <1>7, <1>8, <1>9, <1>10, <1>11 DEF Types, redisVars
<1>13. /\ flushing'[d] = << >> /\ flusher'[d] = "none" /\ sunk'[d] = FALSE
       /\ state'[d] = IF flusher[d] = "worker" THEN "counting" ELSE state[d]
       /\ \A e \in Replicas : e # d => /\ flushing'[e] = flushing[e] /\ flusher'[e] = flusher[e]
                                       /\ sunk'[e] = sunk[e] /\ state'[e] = state[e]
  BY <1>1 DEF Types, Released
<1>14. \A e \in Replicas : e # d => unacked'[e] = unacked[e]
  BY <1>6 DEF Types
<1>15. Others(d)
  BY <1>1, <1>13, <1>14 DEF Others, SameChannel, SameLoop, SameBatch
<1>16. \/ /\ sunk[d] /\ connected[d]
          /\ acked' = acked \cup ToSet(SubSeq(unacked[d], 1, n))
          /\ unacked'[d] = SubSeq(unacked[d], n + 1, Len(unacked[d]))
          /\ UNCHANGED <<ready, redelivered, reported, sinkFailures>>
       \/ /\ sunk[d] /\ ~connected[d]
          /\ unacked'[d] = unacked[d] /\ UNCHANGED <<acked, ready, redelivered, reported, sinkFailures>>
       \/ /\ flusher[d] # "none" /\ ~sunk[d]
          /\ reported' \in {reported, reported \o flushing[d]}
          /\ sinkFailures' = sinkFailures + 1
          /\ \/ /\ connected[d]
                /\ Requeue(ToSet(flushing[d]) \cap ToSet(unacked[d]))
                /\ unacked'[d] = Without(unacked[d], ToSet(flushing[d]))
             \/ ~connected[d] /\ unacked'[d] = unacked[d] /\ UNCHANGED <<ready, redelivered>>
          /\ UNCHANGED acked
  BY <1>6 DEF Types
<1>17. ReleaseStep(d)
  BY <1>1, <1>13, <1>15, <1>16 DEF ReleaseStep, n
<1>18. QED
  BY <1>12, <1>17

\* A flush cut short has delivered its batch or not.
LEMMA AbandonedEffect ==
    ASSUME Types, NEW d \in Replicas, Abandoned(d)
    PROVE  /\ AbandonedAt(d) /\ reported' \in Seq(Messages)
           /\ flushing' \in [Replicas -> Seq(Messages)] /\ sunk' \in [Replicas -> BOOLEAN]
           /\ flusher' \in [Replicas -> {"none", "worker", "timer", "stop"}]
           /\ \A e \in Replicas : e # d =>
                flushing'[e] = flushing[e] /\ flusher'[e] = flusher[e] /\ sunk'[e] = sunk[e]
<1>1. reported \o flushing[d] \in Seq(Messages)
  BY DEF Types
<1>2. reported' = reported \/ (~sunk[d] /\ reported' = reported \o flushing[d])
  BY DEF Abandoned
<1>3. /\ flushing' = [flushing EXCEPT ![d] = << >>]
      /\ flusher' = [flusher EXCEPT ![d] = "none"]
      /\ sunk' = [sunk EXCEPT ![d] = FALSE]
  BY DEF Abandoned
<1>4. reported' \in Seq(Messages)
  BY <1>1, <1>2 DEF Types
<1>5. QED
  BY <1>2, <1>3, <1>4 DEF Types, AbandonedAt

\* CountRaises ends the loop with the connection open.
LEMMA LoopDiesEffect ==
    ASSUME Types, NEW d \in Replicas, CountRaises(d), UNCHANGED <<active, shed, sinkFailures>>
    PROVE  Types' /\ LoopDiesStep(d)
<1>1. /\ Abandoned(d) /\ state[d] = "counting" /\ state' = [state EXCEPT ![d] = "stopping"]
      /\ processed' \in {processed, processed + 1}
      /\ interruptions < MaxInterruptions /\ interruptions' = interruptions + 1
      /\ UNCHANGED <<queueVars, channelVars, current, pending, claimed>>
  BY DEF CountRaises, MayInterrupt
<1>2. /\ AbandonedAt(d) /\ reported' \in Seq(Messages)
      /\ flushing' \in [Replicas -> Seq(Messages)] /\ sunk' \in [Replicas -> BOOLEAN]
      /\ flusher' \in [Replicas -> {"none", "worker", "timer", "stop"}]
      /\ \A e \in Replicas : e # d =>
           flushing'[e] = flushing[e] /\ flusher'[e] = flusher[e] /\ sunk'[e] = sunk[e]
  BY <1>1, AbandonedEffect
<1>3. /\ state' \in [Replicas -> States] /\ processed' \in Nat
      /\ interruptions' \in 0 .. MaxInterruptions
  BY <1>1, Constants DEF Types, States
<1>4. Types'
  BY <1>1, <1>2, <1>3 DEF Types, queueVars, channelVars
<1>5. state'[d] = "stopping" /\ \A e \in Replicas : e # d => state'[e] = state[e]
  BY <1>1 DEF Types
<1>6. LoopDiesStep(d)
  BY <1>1, <1>2, <1>5 DEF LoopDiesStep, Others, SameChannel, SameLoop, SameBatch, channelVars
<1>7. QED
  BY <1>4, <1>6

\* Sigterm, Crash and Exit give back what is unsettled.
LEMMA LeaveEffect ==
    ASSUME Types, NEW d \in Replicas, Sigterm(d) \/ Crash(d) \/ Exit(d),
           UNCHANGED <<active, shed, sinkFailures>>
    PROVE  Types' /\ LeaveStep(d)
<1>1. /\ Disconnected(d) /\ UNCHANGED <<acked, dead, redisVars>>
  BY DEF Sigterm, Crash, Exit
<1>2. ToSet(unacked[d]) \in SUBSET Messages
  BY ToSetMembers DEF Types
<1>3. /\ ready' \in [Partitions -> SUBSET Messages] /\ redelivered' \subseteq Messages
      /\ Requeue(ToSet(unacked[d]))
  BY <1>1, <1>2, RequeueTypes DEF Disconnected
<1>4. /\ connected' \in [Replicas -> BOOLEAN] /\ unacked' \in [Replicas -> Seq(Messages)]
      /\ connected'[d] = FALSE /\ unacked'[d] = << >>
      /\ \A e \in Replicas : e # d => connected'[e] = connected[e] /\ unacked'[e] = unacked[e]
  BY <1>1 DEF Types, Disconnected
<1>5. /\ fetched' \in [Replicas -> [Partitions -> Seq(Messages)]]
      /\ \A p \in Partitions : fetched'[d][p] = << >>
      /\ \A e \in Replicas : e # d => fetched'[e] = fetched[e]
  <2>1. [p \in Partitions |-> << >>] \in [Partitions -> Seq(Messages)]
    OBVIOUS
  <2>2. fetched' = [fetched EXCEPT ![d] = [p \in Partitions |-> << >>]]
    BY <1>1 DEF Disconnected
  <2>3. QED
    BY <2>1, <2>2 DEF Types
<1>6. CASE Sigterm(d) \/ Crash(d)
  <2>1. /\ Abandoned(d) /\ interruptions < MaxInterruptions /\ interruptions' = interruptions + 1
        /\ current' = [current EXCEPT ![d] = None]
        /\ \/ /\ state[d] \notin {"stopping", "down"} /\ state' = [state EXCEPT ![d] = "stopping"]
              /\ pending' = pending
           \/ /\ state[d] # "down" /\ state' = [state EXCEPT ![d] = "down"]
              /\ pending' = [pending EXCEPT ![d] = << >>]
    BY <1>6 DEF Sigterm, Crash, MayInterrupt
  <2>2. /\ AbandonedAt(d) /\ reported' \in Seq(Messages)
        /\ flushing' \in [Replicas -> Seq(Messages)] /\ sunk' \in [Replicas -> BOOLEAN]
        /\ flusher' \in [Replicas -> {"none", "worker", "timer", "stop"}]
        /\ \A e \in Replicas : e # d =>
             flushing'[e] = flushing[e] /\ flusher'[e] = flusher[e] /\ sunk'[e] = sunk[e]
    BY <2>1, AbandonedEffect
  <2>3. /\ state' \in [Replicas -> States] /\ current' \in [Replicas -> Messages \cup {None}]
        /\ pending' \in [Replicas -> Seq(Messages)] /\ interruptions' \in 0 .. MaxInterruptions
    <3>1. state' \in [Replicas -> States] /\ current' \in [Replicas -> Messages \cup {None}]
      BY <2>1 DEF Types, States
    <3>2. pending' \in [Replicas -> Seq(Messages)]
      <4>1. pending' = pending \/ pending' = [pending EXCEPT ![d] = << >>]
        BY <2>1
      <4>2. pending \in [Replicas -> Seq(Messages)] /\ << >> \in Seq(Messages)
        BY DEF Types
      <4>3. QED
        BY <4>1, <4>2
    <3>3. interruptions' \in 0 .. MaxInterruptions
      BY <2>1, Constants DEF Types
    <3>4. QED
      BY <3>1, <3>2, <3>3
  <2>4. Types'
    BY <1>1, <1>3, <1>4, <1>5, <2>2, <2>3 DEF Types, redisVars
  <2>5. /\ current'[d] = None
        /\ \/ /\ state[d] \notin {"stopping", "down"} /\ state'[d] = "stopping"
              /\ pending'[d] = pending[d]
           \/ state[d] # "down" /\ state'[d] = "down" /\ pending'[d] = << >>
        /\ \A e \in Replicas : e # d =>
             current'[e] = current[e] /\ state'[e] = state[e] /\ pending'[e] = pending[e]
    BY <2>1 DEF Types
  <2>6. LeaveStep(d)
    BY <1>1, <1>3, <1>4, <1>5, <2>1, <2>2, <2>5
       DEF LeaveStep, Others, SameChannel, SameLoop, SameBatch
  <2>7. QED
    BY <2>4, <2>6
<1>7. CASE Exit(d)
  <2>1. /\ state[d] = "stopping" /\ flusher[d] = "none" /\ pending[d] = << >>
        /\ state' = [state EXCEPT ![d] = "down"]
        /\ UNCHANGED <<current, batchVars, reported, interruptions>>
    BY <1>7 DEF Exit
  <2>2. state' \in [Replicas -> States] /\ state'[d] = "down"
        /\ \A e \in Replicas : e # d => state'[e] = state[e]
    BY <2>1 DEF Types, States
  <2>3. Types'
    BY <1>1, <1>3, <1>4, <1>5, <2>1, <2>2 DEF Types, batchVars, redisVars
  <2>4. LeaveStep(d)
    BY <1>1, <1>3, <1>4, <1>5, <2>1, <2>2
       DEF LeaveStep, Others, SameChannel, SameLoop, SameBatch, batchVars
  <2>5. QED
    BY <2>3, <2>4
<1>8. QED
  BY <1>6, <1>7

\* A container that comes back is idle and connected.
LEMMA RestartEffect ==
    ASSUME Types, NEW d \in Replicas, Restart(d), UNCHANGED <<active, shed, sinkFailures>>
    PROVE  Types' /\ RestartStep(d)
<1>1. /\ state[d] = "down" /\ connected' = [connected EXCEPT ![d] = TRUE]
      /\ state' = [state EXCEPT ![d] = "idle"]
      /\ UNCHANGED <<queueVars, unacked, fetched, current, batchVars, redisVars, reported,
                     interruptions, active, shed, sinkFailures>>
  BY DEF Restart
<1>2. /\ connected' \in [Replicas -> BOOLEAN] /\ state' \in [Replicas -> States]
      /\ connected'[d] = TRUE /\ state'[d] = "idle"
      /\ \A e \in Replicas : e # d => connected'[e] = connected[e] /\ state'[e] = state[e]
  BY <1>1 DEF Types, States
<1>3. Types'
  BY <1>1, <1>2 DEF Types, queueVars, batchVars, redisVars
<1>4. RestartStep(d)
  BY <1>1, <1>2
     DEF RestartStep, Others, SameChannel, SameLoop, SameBatch, batchVars, boundVars
<1>5. QED
  BY <1>3, <1>4
-----------------------------------------------------------------------------
(* Where each replica is: its loop, its batcher and its connection agree.   *)

Local(d) ==
    /\ current[d] # None <=> state[d] \in {"working", "claiming", "adding"}
    /\ flusher[d] = "worker" <=> state[d] = "flushing"
    /\ flusher[d] = "stop" => state[d] = "stopping"
    /\ flusher[d] = "timer" => state[d] \notin {"stopping", "down"}
    /\ flusher[d] = "none" <=> flushing[d] = << >>
    /\ sunk[d] => flusher[d] # "none"
    /\ flusher[d] # "none" => pending[d] = << >>
    /\ Len(pending[d]) < BatchSize /\ Len(flushing[d]) <= BatchSize
    /\ flusher[d] # "worker" => Len(flushing[d]) < BatchSize
    /\ state[d] = "down" => ~connected[d] /\ pending[d] = << >> /\ flusher[d] = "none"
    /\ ~connected[d] =>
          /\ state[d] \in {"stopping", "down"} /\ unacked[d] = << >>
          /\ \A p \in Partitions : fetched[d][p] = << >>

Sound == Types /\ \A d \in Replicas : Local(d)

\* The first state is sound.
LEMMA SoundInit == Init => Sound
<1> SUFFICES ASSUME Init PROVE Sound
  OBVIOUS
<1>1. /\ << >> \in Seq(Messages) /\ [p \in Partitions |-> << >>] \in [Partitions -> Seq(Messages)]
      /\ \A p \in Partitions : Of(Messages, p) \in SUBSET Messages
  BY DEF Of
<1>2. Types
  BY <1>1, Constants DEF Init, Types, States
<1>3. \A d \in Replicas : Local(d)
  BY Constants DEF Init, Local
<1>4. QED
  BY <1>2, <1>3 DEF Sound

\* A step of a replica keeps what relates its own variables.
LEMMA LocalStep ==
    ASSUME Types, Types', NEW d \in Replicas, Local(d), ReplicaStep(d)
    PROVE  Local(d)'
<1>1. /\ current[d] \in Messages \cup {None} /\ state[d] \in States /\ sunk[d] \in BOOLEAN
      /\ flusher[d] \in {"none", "worker", "timer", "stop"} /\ connected[d] \in BOOLEAN
      /\ pending[d] \in Seq(Messages) /\ flushing[d] \in Seq(Messages) /\ unacked[d] \in Seq(Messages)
      /\ \A p \in Partitions : fetched[d][p] \in Seq(Messages)
  BY DEF Types
<1>2. /\ BatchSize \in Nat /\ BatchSize > 0 /\ None \notin Messages
  BY Constants
<1>3. CASE \E p \in Partitions : DeliverStep(d, p)
  BY <1>3 DEF DeliverStep, SameLoop, SameBatch, Local
<1>4. CASE \E p \in Partitions : TakeStep(d, p)
  <2>1. PICK p \in Partitions : TakeStep(d, p)
    BY <1>4
  <2>2. current'[d] \in Messages
    BY <1>1, <2>1 DEF TakeStep
  <2>3. connected[d]
    BY <2>1 DEF TakeStep, Local
  <2>4. QED
    BY <1>2, <2>1, <2>2, <2>3 DEF TakeStep, SameBatch, Local
<1>5. CASE SettleStep(d)
  <2>1. connected[d] \/ unacked[d] = << >>
    BY DEF Local
  <2>2. connected[d]
    BY <1>5 DEF SettleStep, Local
  <2>3. /\ state'[d] = "idle" /\ current'[d] = None /\ connected'[d] = connected[d]
        /\ pending'[d] = pending[d] /\ flushing'[d] = flushing[d]
        /\ flusher'[d] = flusher[d] /\ sunk'[d] = sunk[d] /\ state[d] \in {"working", "claiming"}
    BY <1>5 DEF SettleStep, SameBatch
  <2>4. QED
    BY <2>2, <2>3 DEF Local
<1>6. CASE LoopStep(d)
  BY <1>6 DEF LoopStep, SameChannel, SameBatch, Local
<1>7. CASE AddStep(d)
  BY <1>1, <1>2, <1>7 DEF AddStep, SameChannel, Local
<1>8. CASE SwapStep(d)
  <2>1. Len(Append(pending[d], current[d])) = Len(pending[d]) + 1
        /\ Append(pending[d], current[d]) # << >>
    <3>1. pending[d] \in Seq(Messages \cup {None})
      BY <1>1
    <3>2. QED
      BY <1>1, <3>1, AppendProperties
  <2>2. flushing'[d] # << >> /\ Len(flushing'[d]) <= BatchSize
    BY <1>1, <1>2, <1>8, <2>1 DEF SwapStep, Local
  <2>3. Len(pending'[d]) < BatchSize
    BY <1>2, <1>8 DEF SwapStep
  <2>4. QED
    BY <1>8, <2>2, <2>3 DEF SwapStep, SameLoop, SameChannel, Local
<1>9. CASE AcceptStep(d)
  BY <1>9 DEF AcceptStep, SameChannel, SameLoop, Local
<1>10. CASE ReleaseStep(d)
  <2>1. connected[d] \/ unacked'[d] = unacked[d]
    BY <1>10 DEF ReleaseStep
  <2>2. Len(flushing'[d]) <= BatchSize /\ flushing'[d] = << >>
    BY <1>2, <1>10 DEF ReleaseStep
  <2>3. /\ flusher'[d] = "none" /\ sunk'[d] = FALSE
        /\ state'[d] = IF flusher[d] = "worker" THEN "counting" ELSE state[d]
        /\ current'[d] = current[d] /\ pending'[d] = pending[d]
        /\ connected'[d] = connected[d] /\ fetched'[d] = fetched[d]
    BY <1>10 DEF ReleaseStep
  <2>4. QED
    BY <2>1, <2>2, <2>3 DEF Local
<1>11. CASE LoopDiesStep(d)
  <2>1. Len(flushing'[d]) <= BatchSize
    BY <1>2, <1>11 DEF LoopDiesStep, AbandonedAt
  <2>2. QED
    BY <1>11, <2>1 DEF LoopDiesStep, AbandonedAt, SameChannel, Local
<1>12. CASE LeaveStep(d)
  <2>1. /\ connected'[d] = FALSE /\ unacked'[d] = << >>
        /\ \A p \in Partitions : fetched'[d][p] = << >>
        /\ flusher'[d] = "none" /\ flushing'[d] = << >> /\ sunk'[d] = FALSE
        /\ state'[d] \in {"stopping", "down"} /\ current'[d] = None
        /\ pending'[d] = << >> \/ (state'[d] = "stopping" /\ pending'[d] = pending[d])
    BY <1>1, <1>12 DEF LeaveStep, AbandonedAt, SameBatch, Local
  <2>2. Len(flushing'[d]) <= BatchSize /\ Len(pending'[d]) < BatchSize
    BY <1>2, <2>1 DEF Local
  <2>3. QED
    BY <2>1, <2>2 DEF Local
<1>13. CASE RestartStep(d)
  BY <1>13 DEF RestartStep, SameBatch, Local
<1>14. QED
  BY <1>3, <1>4, <1>5, <1>6, <1>7, <1>8, <1>9, <1>10, <1>11, <1>12, <1>13 DEF ReplicaStep

\* Every step is one replica's, a promotion or a stutter.
LEMMA Steps ==
    ASSUME Sound, [Next]_vars
    PROVE  /\ Types'
           /\ \/ UNCHANGED vars
              \/ \E p \in Partitions : PromoteStep(p)
              \/ \E d \in Replicas : ReplicaStep(d)
<1>1. CASE UNCHANGED vars \/ Idle
  BY <1>1 DEF Idle, vars, Sound, Types, queueVars, channelVars, loopVars, batchVars, redisVars, boundVars
<1>2. CASE Broker
  <2>1. CASE \E d \in Replicas, p \in Partitions : Deliver(d, p)
    BY <2>1, DeliverEffect DEF Sound, ReplicaStep
  <2>2. CASE \E p \in Partitions : Promote(p)
    BY <2>2, PromoteEffect DEF Sound
  <2>3. QED
    BY <1>2, <2>1, <2>2 DEF Broker
<1>3. ASSUME NEW d \in Replicas, Handle(d)
      PROVE  Types' /\ ReplicaStep(d)
  <2>1. current[d] \in Messages \cup {None} /\ Types
    BY DEF Sound, Types
  <2>2. state[d] \in {"working", "claiming", "adding"} => current[d] \in Messages
    BY <2>1 DEF Sound, Local
  <2>3. CASE Add(d)
    <3>1. state[d] = "adding"
      BY <2>3 DEF Add
    <3>2. QED
      BY <2>1, <2>2, <2>3, <3>1, AddEffect DEF ReplicaStep
  <2>4. CASE ~Add(d)
    <3>1. UNCHANGED <<active, batchVars, reported, boundVars>>
      BY <1>3, <2>4 DEF Handle
    <3>2. CASE TakeDelivery(d)
      BY <2>1, <3>1, <3>2, TakeEffect DEF ReplicaStep
    <3>3. CASE ShedStale(d) \/ LoadFails(d) \/ Reject(d) \/ Duplicate(d)
      <4>1. state[d] \in {"working", "claiming"}
        BY <3>3 DEF ShedStale, LoadFails, Reject, Duplicate
      <4>2. QED
        BY <2>1, <2>2, <3>1, <3>3, <4>1, SettleEffect DEF ReplicaStep
    <3>4. CASE Detected(d) \/ Claim(d) \/ ClaimFails(d) \/ Count(d)
      BY <2>1, <2>2, <3>1, <3>4, LoopEffect DEF ReplicaStep
    <3>5. QED
      BY <1>3, <2>4, <3>2, <3>3, <3>4 DEF Handle
  <2>5. QED
    BY <2>3, <2>4
<1>4. ASSUME NEW d \in Replicas, Flush(d)
      PROVE  Types' /\ ReplicaStep(d)
  <2>1. Types /\ UNCHANGED <<active, current, redisVars, shed>>
    BY <1>4 DEF Sound, Flush
  <2>2. CASE AgeFlush(d) \/ StopFlush(d)
    BY <2>1, <2>2, SwapEffect DEF ReplicaStep
  <2>3. CASE SinkAccepts(d)
    BY <2>1, <2>3, AcceptEffect DEF ReplicaStep
  <2>4. CASE AckBatch(d) \/ SinkFails(d)
    BY <2>1, <2>4, ReleaseEffect DEF ReplicaStep
  <2>5. QED
    BY <1>4, <2>2, <2>3, <2>4 DEF Flush
<1>5. ASSUME NEW d \in Replicas, Interruption(d) \/ Recovery(d)
      PROVE  Types' /\ ReplicaStep(d)
  <2>1. Types /\ UNCHANGED <<active, shed, sinkFailures>>
    BY <1>5 DEF Sound, Interruption, Recovery
  <2>2. CASE CountRaises(d)
    BY <2>1, <2>2, LoopDiesEffect DEF ReplicaStep
  <2>3. CASE Sigterm(d) \/ Crash(d) \/ Exit(d)
    BY <2>1, <2>3, LeaveEffect DEF ReplicaStep
  <2>4. CASE Restart(d)
    BY <2>1, <2>4, RestartEffect DEF ReplicaStep
  <2>5. QED
    BY <1>5, <2>2, <2>3, <2>4 DEF Interruption, Recovery
<1>6. QED
  BY <1>1, <1>2, <1>3, <1>4, <1>5 DEF Next

\* A replica's step leaves the others as they were.
LEMMA OthersOf ==
    ASSUME NEW d \in Replicas, ReplicaStep(d)
    PROVE  Others(d)
  BY DEF ReplicaStep, DeliverStep, TakeStep, SettleStep, LoopStep, AddStep, SwapStep, AcceptStep,
         ReleaseStep, LoopDiesStep, LeaveStep, RestartStep

\* Soundness is inductive.
LEMMA SoundStep == Sound /\ [Next]_vars => Sound'
<1> SUFFICES ASSUME Sound, [Next]_vars PROVE Sound'
  OBVIOUS
<1>1. Types /\ Types'
  BY Steps DEF Sound
<1>2. CASE UNCHANGED vars \/ \E p \in Partitions : PromoteStep(p)
  BY <1>1, <1>2 DEF Sound, PromoteStep, Local, vars, channelVars, loopVars, batchVars
<1>3. ASSUME NEW d \in Replicas, ReplicaStep(d)
      PROVE  \A e \in Replicas : Local(e)'
  <2>1. Local(d)'
    BY <1>1, <1>3, LocalStep DEF Sound
  <2>2. ASSUME NEW e \in Replicas, e # d
        PROVE  Local(e)'
    <3>1. SameChannel(e) /\ SameLoop(e) /\ SameBatch(e)
      BY <1>3, <2>2, OthersOf DEF Others
    <3>2. Local(e)
      BY DEF Sound
    <3>3. QED
      BY <3>1, <3>2 DEF Local, SameChannel, SameLoop, SameBatch
  <2>3. QED
    BY <2>1, <2>2
<1>4. QED
  BY <1>1, <1>2, <1>3, Steps DEF Sound
-----------------------------------------------------------------------------
(* The results a replica holds: the buffer, or the batch being flushed until *)
(* the sink has accepted it.                                               *)

Batch(d) ==
    IF sunk[d] THEN << >> ELSE IF flusher[d] = "none" THEN pending[d] ELSE flushing[d]

\* What a step makes of them: a result joins them, the sink gets them all, or an
\* interruption or a failed flush drops them all.
Reports(d) ==
    \/ Batch(d)' = Batch(d) /\ reported' = reported
    \/ /\ state[d] = "adding" /\ state'[d] # "adding" /\ UNCHANGED <<claimed, reported>>
       /\ Batch(d)' = Append(Batch(d), current[d])
    \/ /\ Batch(d)' = << >> /\ reported' = reported \o Batch(d)
    \/ /\ Batch(d)' = << >> /\ reported' = reported
       /\ interruptions' + sinkFailures' = interruptions + sinkFailures + 1

\* When the loop comes to the batcher.
Claims(d) ==
    /\ claimed \subseteq claimed'
    /\ state'[d] = "adding" =>
        \/ state[d] = "adding" /\ current'[d] = current[d]
        \/ /\ "claim" \notin Faults => Frame(d) \notin claimed
           /\ state[d] = "claiming" /\ current'[d] = current[d]
           /\ claimed' = claimed \cup {Frame(d)} \/ "claim" \in Faults

\* How a step moves results between batches and what was reported.
LEMMA ReportsStep ==
    ASSUME Sound, Types', NEW d \in Replicas, ReplicaStep(d)
    PROVE  Reports(d) /\ Claims(d)
<1>1. /\ pending[d] \in Seq(Messages) /\ flushing[d] \in Seq(Messages) /\ reported \in Seq(Messages)
      /\ sunk[d] \in BOOLEAN /\ Local(d) /\ interruptions \in Nat /\ sinkFailures \in Nat
      /\ sunk'[d] \in BOOLEAN
  BY Constants DEF Sound, Types
<1>2. reported \o << >> = reported
  BY <1>1
<1>3. CASE SameBatch(d) /\ UNCHANGED reported
  <2>1. Reports(d)
    BY <1>3 DEF SameBatch, Reports, Batch
  <2>2. Claims(d)
    BY <1>3 DEF ReplicaStep, DeliverStep, TakeStep, SettleStep, LoopStep, AddStep, SwapStep,
         AcceptStep, ReleaseStep, LoopDiesStep, LeaveStep, RestartStep, Claims, redisVars, SameLoop
  <2>3. QED
    BY <2>1, <2>2
<1>4. CASE AddStep(d)
  BY <1>1, <1>4 DEF AddStep, Reports, Claims, Batch, Local, redisVars
<1>5. CASE SwapStep(d)
  BY <1>1, <1>5 DEF SwapStep, Reports, Claims, Batch, Local, redisVars, SameLoop
<1>6. CASE AcceptStep(d)
  BY <1>1, <1>6 DEF AcceptStep, Reports, Claims, Batch, Local, redisVars, SameLoop
<1>7. CASE ReleaseStep(d)
  <2>1. /\ flusher[d] # "none" /\ flusher'[d] = "none" /\ pending'[d] = << >> /\ sunk'[d] = FALSE
    BY <1>1, <1>7 DEF ReleaseStep, Local
  <2>2. Batch(d)' = << >>
    BY <2>1 DEF Batch
  <2>3. CASE sunk[d]
    <3>1. Batch(d) = << >> /\ reported' = reported
      BY <2>3, <1>7 DEF Batch, ReleaseStep
    <3>2. QED
      BY <1>7, <2>2, <3>1 DEF Reports, Claims, ReleaseStep, redisVars
  <2>4. CASE ~sunk[d]
    <3>1. /\ Batch(d) = flushing[d] /\ reported' \in {reported, reported \o flushing[d]}
          /\ sinkFailures' = sinkFailures + 1 /\ interruptions' = interruptions
      BY <1>7, <2>1, <2>4 DEF Batch, ReleaseStep
    <3>2. Reports(d)
      BY <1>1, <2>2, <3>1 DEF Reports
    <3>3. Claims(d)
      BY <1>7 DEF Claims, ReleaseStep, redisVars
    <3>4. QED
      BY <3>2, <3>3
  <2>5. QED
    BY <2>3, <2>4
<1>8. ASSUME AbandonedAt(d), pending'[d] \in {pending[d], << >>}, UNCHANGED sinkFailures,
             interruptions' = interruptions + 1
      PROVE  Reports(d)
  <2>1. /\ flusher'[d] = "none" /\ sunk'[d] = FALSE
        /\ reported' = reported \/ (~sunk[d] /\ reported' = reported \o flushing[d])
    BY <1>8 DEF AbandonedAt
  <2>2. Batch(d)' = pending'[d]
    BY <2>1 DEF Batch
  <2>3. CASE flusher[d] = "none"
    <3>1. Batch(d) = pending[d] /\ flushing[d] = << >>
      BY <1>1, <2>3 DEF Local, Batch
    <3>2. reported' = reported
      BY <1>2, <2>1, <3>1
    <3>3. QED
      BY <1>1, <1>8, <2>2, <3>1, <3>2 DEF Reports
  <2>4. CASE flusher[d] # "none"
    <3>1. Batch(d)' = << >>
      BY <1>1, <1>8, <2>2, <2>4 DEF Local
    <3>2. reported' = reported \/ (Batch(d) = flushing[d] /\ reported' = reported \o flushing[d])
      BY <2>1, <2>4 DEF Batch
    <3>3. QED
      BY <1>1, <1>8, <3>1, <3>2 DEF Reports
  <2>5. QED
    BY <2>3, <2>4
<1>9. CASE LoopDiesStep(d)
  <2>1. Claims(d)
    BY <1>9 DEF LoopDiesStep, Claims
  <2>2. QED
    BY <1>8, <1>9, <2>1 DEF LoopDiesStep
<1>10. CASE LeaveStep(d)
  <2>1. Claims(d)
    BY <1>10 DEF LeaveStep, Claims, redisVars
  <2>2. CASE SameBatch(d) /\ UNCHANGED reported
    BY <1>3, <2>2
  <2>3. CASE ~(SameBatch(d) /\ UNCHANGED reported)
    <3>1. /\ AbandonedAt(d) /\ pending'[d] \in {pending[d], << >>}
          /\ UNCHANGED sinkFailures /\ interruptions' = interruptions + 1
      BY <1>10, <2>3 DEF LeaveStep
    <3>2. QED
      BY <1>8, <2>1, <3>1
  <2>4. QED
    BY <2>2, <2>3
<1>11. CASE (\E p \in Partitions : DeliverStep(d, p) \/ TakeStep(d, p)) \/ SettleStep(d)
            \/ LoopStep(d) \/ RestartStep(d)
  <2>1. SameBatch(d) /\ UNCHANGED reported
    BY <1>11 DEF DeliverStep, TakeStep, SettleStep, LoopStep, RestartStep
  <2>2. QED
    BY <1>3, <2>1
<1>12. QED
  BY <1>4, <1>5, <1>6, <1>7, <1>9, <1>10, <1>11 DEF ReplicaStep

\* The two halves of a batch are one sequence of messages.
LEMMA BatchType ==
    ASSUME Types
    PROVE  \A d \in Replicas : Batch(d) \in Seq(Messages)
  BY DEF Types, Batch

\* The other replicas' results, and their loops, are left alone.
LEMMA OthersKeep ==
    ASSUME NEW d \in Replicas, ReplicaStep(d), NEW e \in Replicas, e # d
    PROVE  /\ Batch(e)' = Batch(e) /\ state'[e] = state[e] /\ current'[e] = current[e]
           /\ connected'[e] = connected[e] /\ unacked'[e] = unacked[e] /\ fetched'[e] = fetched[e]
           /\ pending'[e] = pending[e] /\ flushing'[e] = flushing[e]
           /\ flusher'[e] = flusher[e] /\ sunk'[e] = sunk[e]
<1>1. SameChannel(e) /\ SameLoop(e) /\ SameBatch(e)
  BY OthersOf DEF Others
<1>2. QED
  BY <1>1 DEF SameChannel, SameLoop, SameBatch, Batch

-----------------------------------------------------------------------------
(* While Redis answers, no frame is reported twice.                        *)

\* The frames a sequence of messages names, and whether it names none twice.
Fr(s) == {FrameOf[s[i]] : i \in 1 .. Len(s)}
FD(s) == \A i, j \in 1 .. Len(s) : FrameOf[s[i]] = FrameOf[s[j]] => i = j

\* The frames of two sequences joined.
LEMMA FramesJoined ==
    ASSUME NEW s \in Seq(Messages), NEW t \in Seq(Messages)
    PROVE  /\ Fr(s \o t) = Fr(s) \cup Fr(t)
           /\ (FD(s) /\ FD(t) /\ Fr(s) \cap Fr(t) = {}) => FD(s \o t)
<1>1. /\ Len(s \o t) = Len(s) + Len(t) /\ Len(s) \in Nat /\ Len(t) \in Nat
      /\ \A i \in 1 .. Len(s) : (s \o t)[i] = s[i]
      /\ \A i \in 1 .. Len(t) : (s \o t)[Len(s) + i] = t[i]
      /\ \A i \in 1 .. (Len(s) + Len(t)) : i \in 1 .. Len(s) \/ i - Len(s) \in 1 .. Len(t)
  OBVIOUS
<1>3. Fr(s \o t) = Fr(s) \cup Fr(t)
  <2>1. ASSUME NEW x \in Fr(s \o t) PROVE x \in Fr(s) \cup Fr(t)
    <3>1. PICK i \in 1 .. (Len(s) + Len(t)) : x = FrameOf[(s \o t)[i]]
      BY <1>1, <2>1 DEF Fr
    <3>2. CASE i \in 1 .. Len(s)
      BY <1>1, <3>1, <3>2 DEF Fr
    <3>3. CASE i - Len(s) \in 1 .. Len(t)
      <4>1. (s \o t)[i] = t[i - Len(s)]
        <5>1. Len(s) + (i - Len(s)) = i
          BY <1>1
        <5>2. QED
          BY <1>1, <3>3, <5>1
      <4>2. QED
        BY <3>1, <3>3, <4>1 DEF Fr
    <3>4. QED
      BY <1>1, <3>2, <3>3
  <2>2. ASSUME NEW x \in Fr(s) PROVE x \in Fr(s \o t)
    <3>1. PICK i \in 1 .. Len(s) : x = FrameOf[s[i]]
      BY <2>2 DEF Fr
    <3>2. i \in 1 .. Len(s \o t) /\ x = FrameOf[(s \o t)[i]]
      BY <1>1, <3>1
    <3>3. QED
      BY <3>2 DEF Fr
  <2>3. ASSUME NEW x \in Fr(t) PROVE x \in Fr(s \o t)
    <3>1. PICK i \in 1 .. Len(t) : x = FrameOf[t[i]]
      BY <2>3 DEF Fr
    <3>2. Len(s) + i \in 1 .. Len(s \o t) /\ x = FrameOf[(s \o t)[Len(s) + i]]
      BY <1>1, <3>1
    <3>3. QED
      BY <3>2 DEF Fr
  <2>4. QED
    BY <2>1, <2>2, <2>3
<1>7. ASSUME FD(s), FD(t), Fr(s) \cap Fr(t) = {}
      PROVE  FD(s \o t)
  <2>1. SUFFICES ASSUME NEW i \in 1 .. (Len(s) + Len(t)), NEW j \in 1 .. (Len(s) + Len(t)),
                        FrameOf[(s \o t)[i]] = FrameOf[(s \o t)[j]]
                 PROVE  i = j
    BY <1>1 DEF FD
  <2>2. ASSUME NEW k \in 1 .. (Len(s) + Len(t)), k \notin 1 .. Len(s)
        PROVE  k - Len(s) \in 1 .. Len(t) /\ (s \o t)[k] = t[k - Len(s)]
    <3>1. Len(s) + (k - Len(s)) = k /\ k - Len(s) \in 1 .. Len(t)
      BY <1>1, <2>2
    <3>2. QED
      BY <1>1, <3>1
  <2>3. CASE i \in 1 .. Len(s) /\ j \in 1 .. Len(s)
    BY <1>1, <1>7, <2>1, <2>3 DEF FD
  <2>4. CASE i \notin 1 .. Len(s) /\ j \notin 1 .. Len(s)
    <3>1. i - Len(s) = j - Len(s)
      <4>1. /\ i - Len(s) \in 1 .. Len(t) /\ (s \o t)[i] = t[i - Len(s)]
            /\ j - Len(s) \in 1 .. Len(t) /\ (s \o t)[j] = t[j - Len(s)]
        BY <2>1, <2>2, <2>4
      <4>2. FrameOf[t[i - Len(s)]] = FrameOf[t[j - Len(s)]]
        BY <2>1, <4>1
      <4>3. \A k, l \in 1 .. Len(t) : FrameOf[t[k]] = FrameOf[t[l]] => k = l
        BY <1>7 DEF FD
      <4>4. QED
        BY <4>1, <4>2, <4>3
    <3>2. QED
      BY <1>1, <3>1
  <2>5. CASE i \in 1 .. Len(s) /\ j \notin 1 .. Len(s)
    <3>1. FrameOf[(s \o t)[i]] \in Fr(s) /\ FrameOf[(s \o t)[j]] \in Fr(t)
      BY <1>1, <2>2, <2>5 DEF Fr
    <3>2. QED
      BY <1>7, <2>1, <3>1
  <2>6. CASE i \notin 1 .. Len(s) /\ j \in 1 .. Len(s)
    <3>1. FrameOf[(s \o t)[j]] \in Fr(s) /\ FrameOf[(s \o t)[i]] \in Fr(t)
      BY <1>1, <2>2, <2>6 DEF Fr
    <3>2. QED
      BY <1>7, <2>1, <3>1
  <2>7. QED
    BY <2>3, <2>4, <2>5, <2>6
<1>8. QED
  BY <1>3, <1>7

\* The frames of a sequence with one more message.
LEMMA FramesAdded ==
    ASSUME NEW s \in Seq(Messages), NEW m \in Messages
    PROVE  /\ Fr(Append(s, m)) = Fr(s) \cup {FrameOf[m]}
           /\ (FD(s) /\ FrameOf[m] \notin Fr(s)) => FD(Append(s, m))
<1>1. Len(s) \in Nat
  OBVIOUS
<1>2. /\ Len(Append(s, m)) = Len(s) + 1 /\ Append(s, m)[Len(s) + 1] = m
      /\ \A i \in 1 .. Len(s) : Append(s, m)[i] = s[i]
  OBVIOUS
<1>4. Fr(Append(s, m)) = Fr(s) \cup {FrameOf[m]}
  <2>1. ASSUME NEW x \in Fr(Append(s, m)) PROVE x \in Fr(s) \cup {FrameOf[m]}
    <3>1. PICK i \in 1 .. (Len(s) + 1) : x = FrameOf[Append(s, m)[i]]
      BY <1>2, <2>1 DEF Fr
    <3>2. QED
      BY <1>1, <1>2, <3>1 DEF Fr
  <2>2. ASSUME NEW x \in Fr(s) PROVE x \in Fr(Append(s, m))
    <3>1. PICK i \in 1 .. Len(s) : x = FrameOf[s[i]]
      BY <2>2 DEF Fr
    <3>2. i \in 1 .. Len(Append(s, m)) /\ x = FrameOf[Append(s, m)[i]]
      BY <1>2, <3>1
    <3>3. QED
      BY <3>2 DEF Fr
  <2>3. FrameOf[m] \in Fr(Append(s, m))
    <3>1. Len(s) + 1 \in 1 .. Len(Append(s, m)) /\ FrameOf[m] = FrameOf[Append(s, m)[Len(s) + 1]]
      BY <1>1, <1>2
    <3>2. QED
      BY <3>1 DEF Fr
  <2>4. QED
    BY <2>1, <2>2, <2>3
<1>8. ASSUME FD(s), FrameOf[m] \notin Fr(s)
      PROVE  FD(Append(s, m))
  <2>1. SUFFICES ASSUME NEW i \in 1 .. (Len(s) + 1), NEW j \in 1 .. (Len(s) + 1),
                        FrameOf[Append(s, m)[i]] = FrameOf[Append(s, m)[j]]
                 PROVE  i = j
    BY <1>2 DEF FD
  <2>2. CASE i \in 1 .. Len(s) /\ j \in 1 .. Len(s)
    BY <1>2, <1>8, <2>1, <2>2 DEF FD
  <2>3. \A k \in 1 .. Len(s) : FrameOf[Append(s, m)[k]] \in Fr(s)
    BY <1>2 DEF Fr
  <2>4. \A k \in 1 .. (Len(s) + 1) : k \in 1 .. Len(s) \/ k = Len(s) + 1
    BY <1>1
  <2>5. QED
    BY <1>2, <1>8, <2>1, <2>2, <2>3, <2>4
<1>9. QED
  BY <1>4, <1>8

\* The frame of which the batcher is about to get the result.
At(d) == IF state[d] = "adding" THEN {Frame(d)} ELSE {}
OnHand(d) == Fr(Batch(d)) \cup At(d)

\* Every key in Redis stands for at most one result, held or reported.
Once ==
    /\ FD(reported) /\ Fr(reported) \subseteq claimed
    /\ \A d \in Replicas :
        /\ FD(Batch(d)) /\ OnHand(d) \subseteq claimed
        /\ Fr(Batch(d)) \cap At(d) = {} /\ OnHand(d) \cap Fr(reported) = {}
    /\ \A d, e \in Replicas : d # e => OnHand(d) \cap OnHand(e) = {}

\* At first no frame is anywhere twice.
LEMMA OnceInit == Init => Once
<1> SUFFICES ASSUME Init PROVE Once
  OBVIOUS
<1>1. reported = << >> /\ \A d \in Replicas : Batch(d) = << >> /\ At(d) = {}
  BY DEF Init, Batch, At
<1>2. Fr(<< >>) = {} /\ FD(<< >>)
  BY DEF Fr, FD
<1>3. QED
  BY <1>1, <1>2 DEF Once, OnHand

\* While claims do not fail, no step puts a frame in a second place.
LEMMA OnceStep ==
    ASSUME "claim" \notin Faults, Sound, Once, [Next]_vars
    PROVE  Once'
<1>1. Types /\ Types' /\ reported \in Seq(Messages)
  BY Steps DEF Sound, Types
<1>2. CASE UNCHANGED vars \/ \E p \in Partitions : PromoteStep(p)
  <2>1. UNCHANGED <<reported, claimed, pending, flushing, flusher, sunk, state, current>>
    BY <1>2 DEF PromoteStep, vars, channelVars, loopVars, batchVars, redisVars
  <2>2. \A d \in Replicas : Batch(d)' = Batch(d) /\ At(d)' = At(d) /\ OnHand(d)' = OnHand(d)
    BY <2>1 DEF Batch, At, OnHand, Frame
  <2>3. QED
    BY <2>1, <2>2 DEF Once
<1>3. ASSUME NEW d \in Replicas, ReplicaStep(d)
      PROVE  Once'
  <2> DEFINE b == Batch(d)
             new == claimed' \ claimed
  <2>1. Reports(d) /\ Claims(d) /\ Batch(d) \in Seq(Messages)
    BY <1>1, <1>3, ReportsStep, BatchType
  <2>2. claimed \subseteq claimed' /\ At(d)' \subseteq At(d) \cup new
    BY <2>1 DEF Claims, At, Frame
  <2>3. state[d] = "adding" => current[d] \in Messages /\ At(d) = {FrameOf[current[d]]}
    BY <1>1, Constants DEF Sound, Types, Local, At, Frame
  <2>4. /\ FD(b) /\ b \in Seq(Messages) /\ OnHand(d) = Fr(b) \cup At(d) /\ OnHand(d) \subseteq claimed
        /\ Fr(b) \cap At(d) = {} /\ OnHand(d) \cap Fr(reported) = {}
        /\ FD(reported) /\ Fr(reported) \subseteq claimed
    BY <2>1 DEF Once, OnHand
  <2>5. \/ Batch(d)' = b /\ reported' = reported
        \/ /\ state[d] = "adding" /\ At(d)' = {} /\ reported' = reported
           /\ Batch(d)' = Append(b, current[d])
        \/ Batch(d)' = << >> /\ reported' = reported \o b
        \/ Batch(d)' = << >> /\ reported' = reported
    BY <2>1 DEF Reports, At
  <2> HIDE DEF b
  <2>6. /\ FD(reported') /\ FD(Batch(d)')
        /\ \/ Fr(reported') = Fr(reported) /\ Fr(Batch(d)') \subseteq Fr(b)
           \/ /\ Fr(reported') = Fr(reported) /\ At(d)' = {} /\ Fr(Batch(d)') \subseteq Fr(b) \cup At(d)
           \/ Fr(reported') = Fr(reported) \cup Fr(b) /\ Fr(Batch(d)') = {}
    <3>1. CASE Batch(d)' = b /\ reported' = reported
      BY <2>4, <3>1
    <3>2. CASE /\ state[d] = "adding" /\ At(d)' = {} /\ reported' = reported
               /\ Batch(d)' = Append(b, current[d])
      BY <2>3, <2>4, <3>2, FramesAdded
    <3>3. CASE Batch(d)' = << >> /\ reported' = reported \o b
      <4>1. Fr(reported \o b) = Fr(reported) \cup Fr(b)
        BY <1>1, <2>4, FramesJoined
      <4>2. FD(reported \o b)
        BY <1>1, <2>4, FramesJoined
      <4>3. Fr(<< >>) = {} /\ FD(<< >>)
        BY DEF Fr, FD
      <4>4. QED
        BY <3>3, <4>1, <4>2, <4>3
    <3>4. CASE Batch(d)' = << >> /\ reported' = reported
      <4>1. Fr(<< >>) = {} /\ FD(<< >>)
        BY DEF Fr, FD
      <4>2. QED
        BY <2>4, <3>4, <4>1
    <3>5. QED
      BY <2>5, <3>1, <3>2, <3>3, <3>4
  <2>7. OnHand(d)' = Fr(Batch(d)') \cup At(d)'
    BY DEF OnHand
  <2>8. ASSUME NEW e \in Replicas, e # d
        PROVE  /\ Batch(e)' = Batch(e) /\ At(e)' = At(e) /\ OnHand(e)' = OnHand(e)
               /\ OnHand(e) \cap OnHand(d) = {} /\ FD(Batch(e)) /\ OnHand(e) \subseteq claimed
               /\ Fr(Batch(e)) \cap At(e) = {} /\ OnHand(e) \cap Fr(reported) = {}
    <3>1. Batch(e)' = Batch(e) /\ state'[e] = state[e] /\ current'[e] = current[e]
      BY <1>3, <2>8, OthersKeep
    <3>2. At(e)' = At(e)
      BY <3>1 DEF At, Frame
    <3>3. OnHand(e)' = OnHand(e)
      BY <3>1, <3>2 DEF OnHand
    <3>4. QED
      BY <2>8, <3>1, <3>2, <3>3 DEF Once
  <2>9. /\ OnHand(d)' \subseteq OnHand(d) \cup new /\ Fr(reported') \subseteq Fr(reported) \cup OnHand(d)
        /\ OnHand(d)' \cap Fr(reported') = {} /\ Fr(Batch(d)') \cap At(d)' = {}
    BY <2>2, <2>4, <2>6, <2>7
  <2>10. Fr(reported') \subseteq claimed' /\ OnHand(d)' \subseteq claimed'
    BY <2>2, <2>4, <2>9
  <2>11. ASSUME NEW e \in Replicas, e # d
         PROVE  /\ OnHand(e)' \subseteq claimed' /\ OnHand(e)' \cap Fr(reported') = {}
                /\ OnHand(e)' \cap OnHand(d)' = {}
    BY <2>2, <2>8, <2>9, <2>11
  <2>12. ASSUME NEW e \in Replicas, NEW f \in Replicas, e # f
         PROVE  OnHand(e)' \cap OnHand(f)' = {}
    <3>1. CASE e # d /\ f # d
      BY <2>8, <2>12, <3>1 DEF Once
    <3>2. CASE e = d \/ f = d
      BY <2>11, <2>12, <3>2
    <3>3. QED
      BY <3>1, <3>2
  <2>13. ASSUME NEW e \in Replicas
         PROVE  /\ FD(Batch(e)') /\ OnHand(e)' \subseteq claimed'
                /\ Fr(Batch(e)') \cap At(e)' = {} /\ OnHand(e)' \cap Fr(reported') = {}
    <3>1. CASE e = d
      BY <2>6, <2>9, <2>10, <3>1
    <3>2. CASE e # d
      BY <2>8, <2>11, <3>2
    <3>3. QED
      BY <3>1, <3>2
  <2>14. QED
    BY <2>6, <2>10, <2>12, <2>13 DEF Once, FD, Fr
<1>4. QED
  BY <1>2, <1>3, Steps

\* While Redis answers the claims, the next service receives no frame twice: for
\* any number of replicas, partitions and messages, whatever is redelivered, crashes
\* or is published twice.
THEOREM NoFrameTwice ==
    ASSUME "claim" \notin Faults
    PROVE  Spec => []ReportedAtMostOnce
<1>1. Init => Sound /\ Once
  BY SoundInit, OnceInit
<1>2. Sound /\ Once /\ [Next]_vars => (Sound /\ Once)'
  BY SoundStep, OnceStep
<1>3. Sound /\ Once => ReportedAtMostOnce
  <2> SUFFICES ASSUME Sound, Once PROVE ReportedAtMostOnce
    OBVIOUS
  <2>1. DOMAIN reported = 1 .. Len(reported)
    BY DEF Sound, Types
  <2>2. QED
    BY <2>1 DEF ReportedAtMostOnce, Once, FD
<1>4. QED
  BY <1>1, <1>2, <1>3, PTL DEF Spec
-----------------------------------------------------------------------------
(* The deliveries of a replica, lined up: the batch, the delivery at hand,  *)
(* what its inbox still holds.                                             *)

One(c) == IF c = None THEN 0 ELSE 1

Lined(u, b, c, f) ==
    /\ Len(u) = Len(b) + One(c) + Len(f)
    /\ \A i \in 1 .. Len(b) : u[i] = b[i]
    /\ c # None => u[Len(b) + 1] = c
    /\ \A i \in 1 .. Len(f) : u[Len(b) + One(c) + i] = f[i]

\* The same of sequences of messages.
LinedUp(u, b, c, f) ==
    /\ u \in Seq(Messages) /\ b \in Seq(Messages) /\ f \in Seq(Messages)
    /\ c \in Messages \cup {None} /\ Lined(u, b, c, f)

\* A delivery joins the deliveries and the inbox at their ends.
LEMMA LinedDelivered ==
    ASSUME NEW u \in Seq(Messages), NEW b \in Seq(Messages), NEW c \in Messages \cup {None},
           NEW f \in Seq(Messages), NEW m \in Messages, Lined(u, b, c, f)
    PROVE  Lined(Append(u, m), b, c, Append(f, m))
<1>1. /\ Len(u) \in Nat /\ Len(b) \in Nat /\ Len(f) \in Nat /\ One(c) \in {0, 1}
      /\ (c # None => One(c) = 1)
  BY DEF One
<1>2. /\ Len(Append(u, m)) = Len(u) + 1 /\ Append(u, m)[Len(u) + 1] = m
      /\ \A i \in 1 .. Len(u) : Append(u, m)[i] = u[i]
      /\ Len(Append(f, m)) = Len(f) + 1 /\ Append(f, m)[Len(f) + 1] = m
      /\ \A i \in 1 .. Len(f) : Append(f, m)[i] = f[i]
  OBVIOUS
<1>3. Len(u) = Len(b) + One(c) + Len(f)
  BY DEF Lined
<1>4. \A i \in 1 .. Len(b) : Append(u, m)[i] = b[i]
  BY <1>1, <1>2, <1>3 DEF Lined
<1>5. c # None => Append(u, m)[Len(b) + 1] = c
  BY <1>1, <1>2, <1>3 DEF Lined
<1>6. ASSUME NEW i \in 1 .. (Len(f) + 1)
      PROVE  Append(u, m)[Len(b) + One(c) + i] = Append(f, m)[i]
  <2>1. CASE i = Len(f) + 1
    <3>1. Len(b) + One(c) + i = Len(u) + 1
      <4>1. Len(b) \in Nat /\ Len(f) \in Nat /\ One(c) \in Nat
        BY <1>1
      <4>2. QED
        BY <1>3, <2>1, <4>1
    <3>2. QED
      BY <1>2, <2>1, <3>1
  <2>2. CASE i \in 1 .. Len(f)
    <3>1. Len(b) + One(c) + i \in 1 .. Len(u)
      BY <1>1, <1>3, <2>2
    <3>2. u[Len(b) + One(c) + i] = f[i]
      BY <2>2 DEF Lined
    <3>3. QED
      BY <1>2, <2>2, <3>1, <3>2
  <2>3. i = Len(f) + 1 \/ i \in 1 .. Len(f)
    BY <1>1
  <2>4. QED
    BY <2>1, <2>2, <2>3
<1>7. QED
  <2>1. Len(Append(u, m)) = Len(b) + One(c) + Len(Append(f, m))
    <3>1. One(c) \in Nat
      BY <1>1
    <3>2. Len(u) + 1 = Len(b) + One(c) + (Len(f) + 1)
      BY <1>1, <1>3, <3>1
    <3>3. QED
      BY <1>2, <3>2
  <2>2. \A i \in 1 .. Len(Append(f, m)) : Append(u, m)[Len(b) + One(c) + i] = Append(f, m)[i]
    BY <1>2, <1>6
  <2>3. QED
    BY <1>4, <1>5, <2>1, <2>2 DEF Lined

\* Taking the oldest of the inbox keeps the line.
LEMMA LinedTaken ==
    ASSUME NEW u \in Seq(Messages), NEW b \in Seq(Messages), NEW f \in Seq(Messages),
           f # << >>, Lined(u, b, None, f)
    PROVE  Lined(u, b, Head(f), Tail(f))
<1>1. /\ Len(u) \in Nat /\ Len(b) \in Nat /\ Len(f) \in Nat /\ Len(f) > 0 /\ One(None) = 0
      /\ Head(f) = f[1] /\ Head(f) \in Messages /\ Head(f) # None /\ One(Head(f)) = 1
  BY Constants DEF One
<1>2. Len(Tail(f)) = Len(f) - 1 /\ \A i \in 1 .. (Len(f) - 1) : Tail(f)[i] = f[i + 1]
  OBVIOUS
<1>3. /\ Len(u) = Len(b) + 0 + Len(f) /\ \A i \in 1 .. Len(b) : u[i] = b[i]
      /\ \A i \in 1 .. Len(f) : u[Len(b) + 0 + i] = f[i]
  BY <1>1 DEF Lined
<1>4. u[Len(b) + 1] = Head(f)
  <2>1. u[Len(b) + 0 + 1] = f[1]
    BY <1>1, <1>3
  <2>2. QED
    BY <1>1, <2>1
<1>5. ASSUME NEW i \in 1 .. (Len(f) - 1)
      PROVE  u[Len(b) + 1 + i] = Tail(f)[i]
  <2>1. i + 1 \in 1 .. Len(f) /\ Len(b) + 0 + (i + 1) = Len(b) + 1 + i
    BY <1>1
  <2>2. u[Len(b) + 0 + (i + 1)] = f[i + 1]
    BY <1>3, <2>1
  <2>3. QED
    BY <1>2, <2>1, <2>2
<1>6. Len(u) = Len(b) + 1 + Len(Tail(f))
  BY <1>1, <1>2, <1>3
<1>7. QED
  BY <1>1, <1>2, <1>3, <1>4, <1>5, <1>6 DEF Lined

\* A result that joins the buffer keeps the line.
LEMMA LinedAdded ==
    ASSUME NEW u \in Seq(Messages), NEW b \in Seq(Messages), NEW c \in Messages,
           NEW f \in Seq(Messages), Lined(u, b, c, f)
    PROVE  Lined(u, Append(b, c), None, f)
<1>1. /\ Len(u) \in Nat /\ Len(b) \in Nat /\ Len(f) \in Nat /\ c # None
      /\ One(c) = 1 /\ One(None) = 0
  BY Constants DEF One
<1>2. /\ Len(Append(b, c)) = Len(b) + 1 /\ Append(b, c)[Len(b) + 1] = c
      /\ \A i \in 1 .. Len(b) : Append(b, c)[i] = b[i]
  OBVIOUS
<1>3. /\ Len(u) = Len(b) + 1 + Len(f) /\ \A i \in 1 .. Len(b) : u[i] = b[i]
      /\ u[Len(b) + 1] = c /\ \A i \in 1 .. Len(f) : u[Len(b) + 1 + i] = f[i]
  BY <1>1 DEF Lined
<1>4. \A i \in 1 .. Len(Append(b, c)) : u[i] = Append(b, c)[i]
  BY <1>1, <1>2, <1>3
<1>5. \A i \in 1 .. Len(f) : u[Len(Append(b, c)) + 0 + i] = f[i]
  BY <1>1, <1>2, <1>3
<1>6. Len(u) = Len(Append(b, c)) + 0 + Len(f)
  BY <1>1, <1>2, <1>3
<1>7. QED
  BY <1>1, <1>4, <1>5, <1>6 DEF Lined

\* A delivery in the middle is settled on its own.
LEMMA LinedSettled ==
    ASSUME NEW u \in Seq(Messages), NEW b \in Seq(Messages), NEW c \in Messages,
           NEW f \in Seq(Messages), Lined(u, b, c, f), Distinct(u)
    PROVE  Lined(Without(u, {c}), b, None, f)
<1> DEFINE r == Without(u, {c})
<1>1. /\ Len(u) \in Nat /\ Len(b) \in Nat /\ Len(f) \in Nat /\ c # None
      /\ One(c) = 1 /\ One(None) = 0
  BY Constants DEF One
<1>2. /\ Len(u) = Len(b) + 1 + Len(f) /\ \A i \in 1 .. Len(b) : u[i] = b[i]
      /\ u[Len(b) + 1] = c /\ \A i \in 1 .. Len(f) : u[Len(b) + 1 + i] = f[i]
  BY <1>1 DEF Lined
<1>3. Block(u, {c}, Len(b), 1)
  <2>1. Len(b) + 1 \in 1 .. Len(u)
    BY <1>1, <1>2
  <2>2. \A i \in 1 .. Len(u) : u[i] = c <=> i = Len(b) + 1
    BY <1>2, <2>1 DEF Distinct
  <2>3. QED
    BY <1>1, <2>2 DEF Block
<1>4. /\ Len(r) = Len(u) - 1
      /\ \A i \in 1 .. (Len(u) - 1) : r[i] = IF i <= Len(b) THEN u[i] ELSE u[i + 1]
  <2>1. PICK n \in Nat, S \in {{c}} : n = 1 /\ S = {c}
    OBVIOUS
  <2>2. Len(b) + n <= Len(u) /\ Len(b) \in Nat /\ Block(u, S, Len(b), n)
    BY <1>1, <1>2, <1>3, <2>1
  <2>3. LET w == Without(u, S) IN
        /\ w \in Seq(Messages) /\ Len(w) = Len(u) - n
        /\ \A i \in 1 .. (Len(u) - n) : w[i] = IF i <= Len(b) THEN u[i] ELSE u[i + n]
    BY <2>2, CutOut
  <2>4. QED
    BY <2>1, <2>3
<1> HIDE DEF r
<1>5. \A i \in 1 .. Len(b) : r[i] = b[i]
  <2>1. \A i \in 1 .. Len(b) : i \in 1 .. (Len(u) - 1) /\ i <= Len(b)
    BY <1>1, <1>2
  <2>2. \A i \in 1 .. Len(b) : r[i] = u[i]
    BY <1>4, <2>1
  <2>3. QED
    BY <1>2, <2>2
<1>6. ASSUME NEW i \in 1 .. Len(f)
      PROVE  r[Len(b) + 0 + i] = f[i]
  <2>1. /\ Len(b) + 0 + i \in 1 .. (Len(u) - 1) /\ ~(Len(b) + 0 + i <= Len(b))
        /\ (Len(b) + 0 + i) + 1 = Len(b) + 1 + i
    BY <1>1, <1>2
  <2>2. QED
    BY <1>2, <1>4, <2>1
<1>7. Len(r) = Len(b) + 0 + Len(f)
  BY <1>1, <1>2, <1>4
<1>8. QED
  BY <1>1, <1>5, <1>6, <1>7 DEF Lined, r

\* The batch at the front is settled, or handed back.
LEMMA LinedReleased ==
    ASSUME NEW u \in Seq(Messages), NEW b \in Seq(Messages), NEW c \in Messages \cup {None},
           NEW f \in Seq(Messages), Lined(u, b, c, f)
    PROVE  /\ Lined(SubSeq(u, Len(b) + 1, Len(u)), << >>, c, f)
           /\ ToSet(SubSeq(u, 1, Len(b))) = ToSet(b) /\ Len(b) \in 0 .. Len(u)
           /\ Distinct(u) => Lined(Without(u, ToSet(b)), << >>, c, f)
<1>1. /\ Len(u) \in Nat /\ Len(b) \in Nat /\ Len(f) \in Nat /\ One(c) \in {0, 1}
      /\ (c # None => One(c) = 1)
  BY DEF One
<1>2. /\ Len(u) = Len(b) + One(c) + Len(f) /\ \A i \in 1 .. Len(b) : u[i] = b[i]
      /\ (c # None => u[Len(b) + 1] = c)
      /\ \A i \in 1 .. Len(f) : u[Len(b) + One(c) + i] = f[i]
  BY DEF Lined
<1>3. Len(b) \in 0 .. Len(u)
  BY <1>1, <1>2
<1>4. ASSUME NEW r \in Seq(Messages), Len(r) = Len(u) - Len(b),
             \A i \in 1 .. (Len(u) - Len(b)) : r[i] = u[i + Len(b)]
      PROVE  Lined(r, << >>, c, f)
  <2>1. Len(r) = Len(<< >>) + One(c) + Len(f)
    BY <1>1, <1>2, <1>4
  <2>2. c # None => r[Len(<< >>) + 1] = c
    <3>1. c # None => 1 \in 1 .. (Len(u) - Len(b))
      BY <1>1, <1>2
    <3>2. c # None => r[1] = u[1 + Len(b)]
      BY <1>4, <3>1
    <3>3. 1 + Len(b) = Len(b) + 1 /\ Len(<< >>) + 1 = 1
      BY <1>1
    <3>4. QED
      BY <1>2, <3>2, <3>3
  <2>3. ASSUME NEW i \in 1 .. Len(f)
        PROVE  r[Len(<< >>) + One(c) + i] = f[i]
    <3>1. /\ One(c) + i \in 1 .. (Len(u) - Len(b)) /\ Len(<< >>) + One(c) + i = One(c) + i
          /\ (One(c) + i) + Len(b) = Len(b) + One(c) + i
      <4>1. Len(b) \in Nat /\ Len(f) \in Nat /\ One(c) \in Nat /\ Len(<< >>) = 0
        BY <1>1
      <4>2. Len(u) = Len(b) + One(c) + Len(f)
        BY <1>2
      <4>3. QED
        BY <4>1, <4>2
    <3>2. r[One(c) + i] = u[(One(c) + i) + Len(b)]
      BY <1>4, <3>1
    <3>3. QED
      BY <1>2, <3>1, <3>2
  <2>4. QED
    BY <2>1, <2>2, <2>3 DEF Lined
<1>5. Lined(SubSeq(u, Len(b) + 1, Len(u)), << >>, c, f)
  <2> DEFINE r == SubSeq(u, Len(b) + 1, Len(u))
  <2>1. /\ r \in Seq(Messages) /\ Len(r) = Len(u) - Len(b)
        /\ \A i \in 1 .. Len(r) : r[i] = u[i + Len(b)]
    BY <1>3, TailIsWithin
  <2> HIDE DEF r
  <2>2. QED
    BY <1>4, <2>1 DEF r
<1>6. ToSet(SubSeq(u, 1, Len(b))) = ToSet(b)
  <2> DEFINE r == SubSeq(u, 1, Len(b))
  <2>1. r \in Seq(Messages) /\ Len(r) = Len(b) /\ \A i \in 1 .. Len(b) : r[i] = u[i]
    BY <1>3, FrontIsWithin
  <2> HIDE DEF r
  <2>2. \A x : x \in ToSet(r) <=> \E i \in 1 .. Len(b) : r[i] = x
    BY <2>1, ToSetMembers
  <2>3. \A x : x \in ToSet(b) <=> \E i \in 1 .. Len(b) : b[i] = x
    BY ToSetMembers
  <2>4. ToSet(r) = ToSet(b)
    BY <1>2, <2>1, <2>2, <2>3
  <2>5. QED
    BY <2>4 DEF r
<1>7. ASSUME Distinct(u)
      PROVE  Lined(Without(u, ToSet(b)), << >>, c, f)
  <2> DEFINE r == Without(u, ToSet(b))
  <2>1. \A x : x \in ToSet(b) <=> \E i \in 1 .. Len(b) : b[i] = x
    BY ToSetMembers
  <2>2. Block(u, ToSet(b), 0, Len(b))
    <3>1. ASSUME NEW i \in 1 .. Len(u)
          PROVE  u[i] \in ToSet(b) <=> (0 < i /\ i <= 0 + Len(b))
      <4>1. \A j \in 1 .. Len(b) : j \in 1 .. Len(u)
        BY <1>1, <1>2
      <4>2. u[i] \in ToSet(b) <=> \E j \in 1 .. Len(b) : u[j] = u[i]
        BY <1>2, <2>1
      <4>3. u[i] \in ToSet(b) <=> i \in 1 .. Len(b)
        BY <1>7, <4>1, <4>2 DEF Distinct
      <4>4. QED
        BY <1>1, <4>3
    <3>2. QED
      BY <3>1 DEF Block
  <2>3. /\ r \in Seq(Messages) /\ Len(r) = Len(u) - Len(b)
        /\ \A i \in 1 .. (Len(u) - Len(b)) : r[i] = IF i <= 0 THEN u[i] ELSE u[i + Len(b)]
    <3>1. 0 + Len(b) <= Len(u) /\ 0 \in Nat /\ Len(b) \in Nat
      BY <1>1, <1>2
    <3>2. QED
      BY <2>2, <3>1, CutOut
  <2> HIDE DEF r
  <2>4. \A i \in 1 .. (Len(u) - Len(b)) : r[i] = u[i + Len(b)]
    BY <2>3
  <2>5. QED
    BY <1>4, <2>3, <2>4 DEF r
<1>8. QED
  BY <1>3, <1>5, <1>6, <1>7

\* What is lined up is all there is.
LEMMA LinedMembers ==
    ASSUME NEW u, NEW b, NEW c, NEW f, LinedUp(u, b, c, f)
    PROVE  /\ ToSet(u) = ToSet(f) \cup ToSet(b) \cup ({c} \ {None}) /\ Len(f) <= Len(u)
           /\ Distinct(u) => Block(u, ToSet(b), 0, Len(b))
<1>a. /\ u \in Seq(Messages) /\ b \in Seq(Messages) /\ c \in Messages \cup {None}
      /\ f \in Seq(Messages) /\ Lined(u, b, c, f)
  BY DEF LinedUp
<1>1. /\ Len(u) \in Nat /\ Len(b) \in Nat /\ Len(f) \in Nat /\ One(c) \in {0, 1}
      /\ (c # None <=> One(c) = 1)
  BY <1>a DEF One
<1>2. /\ Len(u) = Len(b) + One(c) + Len(f) /\ \A i \in 1 .. Len(b) : u[i] = b[i]
      /\ (c # None => u[Len(b) + 1] = c)
      /\ \A i \in 1 .. Len(f) : u[Len(b) + One(c) + i] = f[i]
  BY <1>a DEF Lined
<1>3. /\ \A x : x \in ToSet(b) <=> \E i \in 1 .. Len(b) : b[i] = x
      /\ \A x : x \in ToSet(f) <=> \E i \in 1 .. Len(f) : f[i] = x
      /\ \A x : x \in ToSet(u) <=> \E i \in 1 .. Len(u) : u[i] = x
  BY <1>a, ToSetMembers
<1>4. ToSet(b) \subseteq ToSet(u)
  BY <1>1, <1>2, <1>3
<1>5. {c} \ {None} \subseteq ToSet(u)
  <2>1. c # None => Len(b) + 1 \in 1 .. Len(u)
    BY <1>1, <1>2
  <2>2. QED
    BY <1>2, <1>3, <2>1
<1>6. ASSUME NEW x \in ToSet(f) PROVE x \in ToSet(u)
  <2>1. PICK i \in 1 .. Len(f) : f[i] = x
    BY <1>3
  <2>2. Len(b) + One(c) + i \in 1 .. Len(u) /\ u[Len(b) + One(c) + i] = x
    BY <1>1, <1>2, <2>1
  <2>3. QED
    BY <1>3, <2>2
<1>7. ASSUME NEW x \in ToSet(u) PROVE x \in ToSet(f) \cup ToSet(b) \cup ({c} \ {None})
  <2>1. PICK i \in 1 .. Len(u) : u[i] = x
    BY <1>3
  <2>2. CASE i <= Len(b)
    BY <1>1, <1>2, <1>3, <2>1, <2>2
  <2>3. CASE i = Len(b) + 1 /\ c # None
    BY <1>2, <2>1, <2>3
  <2>4. CASE i > Len(b) + One(c)
    <3>1. i - (Len(b) + One(c)) \in 1 .. Len(f)
          /\ Len(b) + One(c) + (i - (Len(b) + One(c))) = i
      <4>1. Len(b) \in Nat /\ Len(f) \in Nat /\ One(c) \in Nat
        BY <1>1
      <4>2. Len(u) = Len(b) + One(c) + Len(f)
        BY <1>2
      <4>3. QED
        BY <2>4, <4>1, <4>2
    <3>2. f[i - (Len(b) + One(c))] = x
      BY <1>2, <2>1, <3>1
    <3>3. QED
      BY <1>3, <3>1, <3>2
  <2>5. QED
    BY <1>1, <2>1, <2>2, <2>3, <2>4
<1>8. Len(f) <= Len(u)
  BY <1>1, <1>2
<1>9. ASSUME Distinct(u), NEW i \in 1 .. Len(u)
      PROVE  u[i] \in ToSet(b) <=> i <= Len(b)
  <2>1. ASSUME u[i] \in ToSet(b) PROVE i <= Len(b)
    <3>1. PICK j \in 1 .. Len(b) : b[j] = u[i]
      BY <1>3, <2>1
    <3>2. j \in 1 .. Len(u) /\ u[j] = u[i]
      BY <1>1, <1>2, <3>1
    <3>3. QED
      BY <1>9, <3>1, <3>2 DEF Distinct
  <2>2. ASSUME i <= Len(b) PROVE u[i] \in ToSet(b)
    BY <1>1, <1>2, <1>3, <2>2
  <2>3. QED
    BY <2>1, <2>2
<1>10. Distinct(u) => Block(u, ToSet(b), 0, Len(b))
  <2>1. Distinct(u) => \A i \in 1 .. Len(u) : u[i] \in ToSet(b) <=> i <= Len(b)
    BY <1>9
  <2>2. QED
    BY <1>1, <2>1 DEF Block
<1>11. QED
  BY <1>4, <1>5, <1>6, <1>7, <1>8, <1>10
-----------------------------------------------------------------------------
(* With one partition: every message is in one place, and the deliveries of *)
(* a replica are lined up.  (With two, the cumulative acknowledgement also  *)
(* settles deliveries that are not in its batch: DetectorCumulativeAck.)    *)

Hold(d) == IF flusher[d] = "none" THEN pending[d] ELSE flushing[d]

\* A loop that died with its connection open may have left a batch behind.
Aligned(d, q) ==
    connected[d] =>
        \/ Lined(unacked[d], Hold(d), current[d], fetched[d][q])
        \/ state[d] = "stopping" /\ Hold(d) = << >> /\ Len(fetched[d][q]) <= Len(unacked[d])

Placed(q) ==
    /\ acked \cap dead = {} /\ ready[q] \cap (acked \cup dead) = {}
    /\ \A d \in Replicas :
        /\ Distinct(unacked[d]) /\ Len(unacked[d]) <= Prefetch
        /\ ToSet(unacked[d]) \cap (ready[q] \cup acked \cup dead) = {}
    /\ \A d, e \in Replicas : d # e => ToSet(unacked[d]) \cap ToSet(unacked[e]) = {}

OneQueue(q) == Partitions = {q} /\ Placed(q) /\ \A d \in Replicas : Aligned(d, q)

\* Messages change places one by one, or are settled or handed back together.
Taken(d, q) ==
    \E m \in ready[q] :
        /\ active[q] = d
        /\ \A n \in ready[q] : m <= n
        /\ ready'[q] = ready[q] \ {m} /\ unacked'[d] = Append(unacked[d], m)
        /\ Len(unacked[d]) < Prefetch
        /\ UNCHANGED <<acked, dead, redelivered>>

Given(d, q) ==
    \E S \in SUBSET ToSet(unacked[d]) :
        /\ ToSet(unacked'[d]) = ToSet(unacked[d]) \ S
        /\ Within(unacked'[d], unacked[d])
        /\ Distinct(unacked'[d]) /\ Len(unacked'[d]) <= Len(unacked[d])
        /\ \/ acked' = acked \cup S /\ UNCHANGED <<dead, redelivered>> /\ ready'[q] = ready[q]
           \/ dead' = dead \cup S /\ UNCHANGED <<acked, redelivered>> /\ ready'[q] = ready[q]
           \/ /\ ready'[q] = ready[q] \cup S /\ redelivered' = redelivered \cup S
              /\ UNCHANGED <<acked, dead>>

Kept(d) == unacked'[d] = unacked[d] /\ UNCHANGED <<ready, acked, dead, redelivered>>

Moves(d, q) == Taken(d, q) \/ Given(d, q) \/ Kept(d)

\* The invariant of one partition holds at first.
LEMMA OneQueueInit == ASSUME NEW q, Partitions = {q} PROVE Init => OneQueue(q)
<1> SUFFICES ASSUME Init PROVE OneQueue(q)
  OBVIOUS
<1>1. /\ ToSet(<< >>) = {} /\ Distinct(<< >>) /\ Len(<< >>) = 0 /\ One(None) = 0
  BY DEF ToSet, Distinct, One
<1>2. \A d \in Replicas : unacked[d] = << >> /\ fetched[d][q] = << >> /\ Hold(d) = << >> /\ current[d] = None
  BY DEF Init, Hold
<1>3. Lined(<< >>, << >>, None, << >>)
  BY <1>1 DEF Lined
<1>4. acked = {} /\ dead = {}
  BY DEF Init
<1>5. QED
  BY <1>1, <1>2, <1>3, <1>4, Constants DEF OneQueue, Placed, Aligned

\* The batch that the sink has accepted is all that its acknowledgement settles.
LEMMA BatchAcked ==
    ASSUME Sound, NEW q, OneQueue(q), NEW d \in Replicas, flusher[d] # "none", connected[d]
    PROVE  /\ Lined(unacked[d], flushing[d], current[d], fetched[d][q])
           /\ Distinct(unacked[d]) /\ Len(flushing[d]) \in 0 .. Len(unacked[d])
           /\ CumulativeUpTo(d, flushing[d]) = Len(flushing[d])
<1>1. /\ unacked[d] \in Seq(Messages) /\ flushing[d] \in Seq(Messages)
      /\ current[d] \in Messages \cup {None} /\ fetched[d][q] \in Seq(Messages)
  BY DEF Sound, Types, OneQueue
<1>2. Hold(d) = flushing[d] /\ flushing[d] # << >>
  BY DEF Hold, Sound, Local
<1>3. Lined(unacked[d], flushing[d], current[d], fetched[d][q]) /\ Distinct(unacked[d])
  BY <1>2 DEF OneQueue, Aligned, Placed
<1>4. Len(flushing[d]) \in 0 .. Len(unacked[d])
  BY <1>1, <1>3, LinedReleased
<1>5. \A i \in 1 .. Len(unacked[d]) : unacked[d][i] \in ToSet(flushing[d]) <=> i <= Len(flushing[d])
  <2>1. LinedUp(unacked[d], flushing[d], current[d], fetched[d][q])
    BY <1>1, <1>3 DEF LinedUp
  <2>2. Block(unacked[d], ToSet(flushing[d]), 0, Len(flushing[d]))
    BY <1>3, <2>1, LinedMembers
  <2>3. QED
    BY <1>1, <2>2 DEF Block
<1>6. CumulativeUpTo(d, flushing[d]) = Len(flushing[d])
  <2> DEFINE n == CumulativeUpTo(d, flushing[d])
             S == {0} \cup {i \in DOMAIN unacked[d] : unacked[d][i] \in ToSet(flushing[d])}
  <2>1. n \in S /\ n \in 0 .. Len(unacked[d]) /\ \A i \in S : i <= n
    BY CumulativeUpToRange DEF Sound
  <2>2. S = {0} \cup {i \in 1 .. Len(unacked[d]) : i <= Len(flushing[d])}
    BY <1>1, <1>5
  <2> HIDE DEF n, S
  <2>3. Len(flushing[d]) \in S
    BY <1>4, <2>2
  <2>4. n <= Len(flushing[d]) /\ Len(flushing[d]) <= n
    BY <1>4, <2>1, <2>2, <2>3
  <2>5. n = Len(flushing[d])
    BY <1>4, <2>1, <2>4
  <2>6. QED
    BY <2>5 DEF n
<1>7. QED
  BY <1>3, <1>4, <1>6

\* What a loop has at hand is not settled.
LEMMA CurrentHeld ==
    ASSUME Sound, NEW q, OneQueue(q), NEW d \in Replicas, current[d] # None
    PROVE  /\ current[d] \in Messages /\ current[d] \in ToSet(unacked[d]) /\ connected[d]
           /\ Lined(unacked[d], Hold(d), current[d], fetched[d][q])
<1>1. /\ unacked[d] \in Seq(Messages) /\ Hold(d) \in Seq(Messages)
      /\ current[d] \in Messages \cup {None} /\ fetched[d][q] \in Seq(Messages)
  BY DEF Sound, Types, OneQueue, Hold
<1>2. connected[d] /\ state[d] # "stopping"
  BY DEF Sound, Local
<1>3. Lined(unacked[d], Hold(d), current[d], fetched[d][q])
  BY <1>2 DEF OneQueue, Aligned
<1>4. current[d] \in ToSet(unacked[d])
  <2>1. LinedUp(unacked[d], Hold(d), current[d], fetched[d][q])
    BY <1>1, <1>3 DEF LinedUp
  <2>2. ToSet(unacked[d]) = ToSet(fetched[d][q]) \cup ToSet(Hold(d)) \cup ({current[d]} \ {None})
    BY <2>1, LinedMembers
  <2>3. QED
    BY <2>2
<1>5. QED
  BY <1>1, <1>2, <1>3, <1>4

\* With one partition everything requeued goes to it.
LEMMA RequeueOne ==
    ASSUME NEW q, Partitions = {q}, NEW S \in SUBSET Messages, Requeue(S)
    PROVE  ready'[q] = ready[q] \cup S /\ redelivered' = redelivered \cup S
<1>1. \A m \in S : PartitionOf[m] = q
  BY Constants
<1>2. Of(S, q) = S
  BY <1>1 DEF Of
<1>3. QED
  BY <1>2 DEF Requeue

\* Each replica step moves messages between queue and replica in one of a few ways.
LEMMA MovesStep ==
    ASSUME Sound, Types', NEW q, OneQueue(q), NEW d \in Replicas, ReplicaStep(d)
    PROVE  Moves(d, q)
<1>1. /\ unacked[d] \in Seq(Messages) /\ flushing[d] \in Seq(Messages) /\ Len(unacked[d]) \in Nat
      /\ Partitions = {q} /\ Distinct(unacked[d]) /\ ToSet(unacked[d]) \subseteq Messages
      /\ unacked'[d] \in Seq(Messages)
  <2>1. /\ unacked[d] \in Seq(Messages) /\ flushing[d] \in Seq(Messages) /\ Partitions = {q}
        /\ Distinct(unacked[d]) /\ unacked'[d] \in Seq(Messages)
    BY DEF Sound, Types, OneQueue, Placed
  <2>2. ToSet(unacked[d]) \subseteq Messages
    BY <2>1, ToSetMembers
  <2>3. QED
    BY <2>1, <2>2
<1>2. CASE \E p \in Partitions : DeliverStep(d, p)
  <2>1. DeliverStep(d, q)
    BY <1>1, <1>2
  <2>2. Len(unacked[d]) < Prefetch
    <3>1. Of(ToSet(unacked[d]), q) = ToSet(unacked[d])
      BY <1>1, Constants DEF Of
    <3>2. Cardinality(ToSet(unacked[d])) = Len(unacked[d])
      BY <1>1, DistinctCardinality
    <3>3. QED
      BY <2>1, <3>1, <3>2 DEF DeliverStep, MayDeliver
  <2>3. Taken(d, q)
    BY <2>1, <2>2 DEF DeliverStep, Taken
  <2>4. QED
    BY <2>3 DEF Moves
<1>3. CASE SettleStep(d)
  <2>1. state[d] \in {"working", "claiming"}
    BY <1>3 DEF SettleStep
  <2>2. current[d] # None
    BY <2>1 DEF Sound, Local
  <2>3. current[d] \in Messages /\ current[d] \in ToSet(unacked[d])
    BY <2>2, CurrentHeld
  <2> DEFINE S == {current[d]}
  <2>4. /\ unacked'[d] = Without(unacked[d], S) /\ ToSet(unacked'[d]) = ToSet(unacked[d]) \ S
        /\ Within(unacked'[d], unacked[d])
    BY <1>1, <1>3, WithoutIsWithin DEF SettleStep
  <2>5. Distinct(unacked'[d]) /\ Len(unacked'[d]) <= Len(unacked[d])
    BY <1>1, <2>4, WithinLength
  <2>6. S \in SUBSET Messages /\ S \in SUBSET ToSet(unacked[d])
    BY <2>3
  <2>7. \/ acked' = acked \cup S /\ UNCHANGED <<dead, redelivered>> /\ ready'[q] = ready[q]
        \/ dead' = dead \cup S /\ UNCHANGED <<acked, redelivered>> /\ ready'[q] = ready[q]
        \/ Requeue(S) /\ UNCHANGED <<acked, dead>>
    BY <1>3 DEF SettleStep
  <2> HIDE DEF S
  <2>8. Requeue(S) => ready'[q] = ready[q] \cup S /\ redelivered' = redelivered \cup S
    BY <1>1, <2>6, RequeueOne
  <2>9. Given(d, q)
    BY <2>4, <2>5, <2>6, <2>7, <2>8 DEF Given
  <2>10. QED
    BY <2>9 DEF Moves
<1>4. CASE ReleaseStep(d)
  <2> DEFINE n == CumulativeUpTo(d, flushing[d])
  <2>1. CASE /\ sunk[d] /\ connected[d]
             /\ acked' = acked \cup ToSet(SubSeq(unacked[d], 1, n))
             /\ unacked'[d] = SubSeq(unacked[d], n + 1, Len(unacked[d]))
             /\ UNCHANGED <<ready, redelivered>>
    <3>1. n \in 0 .. Len(unacked[d])
      BY CumulativeUpToRange DEF Sound
    <3> DEFINE S == ToSet(SubSeq(unacked[d], 1, n))
    <3>2. dead' = dead
      BY <1>4 DEF ReleaseStep
    <3> HIDE DEF n
    <3>3. ToSet(unacked'[d]) = ToSet(unacked[d]) \ S
      BY <1>1, <2>1, <3>1, FrontAndTail
    <3>4. S \subseteq ToSet(unacked[d])
      <4>1. SubSeq(unacked[d], 1, n) \in Seq(Messages) /\ Len(SubSeq(unacked[d], 1, n)) = n
            /\ \A i \in 1 .. n : SubSeq(unacked[d], 1, n)[i] = unacked[d][i]
        BY <1>1, <3>1, FrontIsWithin
      <4> DEFINE r == SubSeq(unacked[d], 1, n)
      <4> HIDE DEF r
      <4>a. r \in Seq(Messages) /\ Len(r) = n
        BY <4>1 DEF r
      <4>2. \A x : x \in ToSet(r) <=> \E i \in 1 .. n : r[i] = x
        BY <4>a, ToSetMembers
      <4>3. \A i \in 1 .. n : unacked[d][i] \in ToSet(unacked[d])
        <5>1. \A i \in 1 .. n : i \in 1 .. Len(unacked[d])
          BY <1>1, <3>1
        <5>2. \A x : x \in ToSet(unacked[d]) <=> \E i \in 1 .. Len(unacked[d]) : unacked[d][i] = x
          BY <1>1, ToSetMembers
        <5>3. QED
          BY <5>1, <5>2
      <4>4. QED
        BY <4>1, <4>2, <4>3 DEF r
    <3>5. Within(unacked'[d], unacked[d])
      BY <1>1, <2>1, <3>1, TailIsWithin
    <3>6. Distinct(unacked'[d]) /\ Len(unacked'[d]) <= Len(unacked[d])
      BY <1>1, <3>5, WithinLength
    <3>7. acked' = acked \cup S
      BY <2>1
    <3> HIDE DEF S
    <3>8. Given(d, q)
      BY <2>1, <3>2, <3>3, <3>4, <3>5, <3>6, <3>7 DEF Given
    <3>9. QED
      BY <3>8 DEF Moves
  <2>2. CASE unacked'[d] = unacked[d] /\ UNCHANGED <<acked, ready, redelivered>>
    BY <1>4, <2>2 DEF ReleaseStep, Moves, Kept
  <2>3. CASE /\ Requeue(ToSet(flushing[d]) \cap ToSet(unacked[d]))
             /\ unacked'[d] = Without(unacked[d], ToSet(flushing[d])) /\ UNCHANGED acked
    <3> DEFINE S == ToSet(flushing[d]) \cap ToSet(unacked[d])
    <3>1. /\ ToSet(unacked'[d]) = ToSet(unacked[d]) \ ToSet(flushing[d])
          /\ Within(unacked'[d], unacked[d])
      BY <1>1, <2>3, WithoutIsWithin
    <3>2. ToSet(unacked'[d]) = ToSet(unacked[d]) \ S
      BY <3>1
    <3>3. Distinct(unacked'[d]) /\ Len(unacked'[d]) <= Len(unacked[d])
      BY <1>1, <3>1, WithinLength
    <3>4. S \in SUBSET Messages /\ S \in SUBSET ToSet(unacked[d])
      BY <1>1
    <3>5. Requeue(S) /\ UNCHANGED <<acked, dead>>
      BY <1>4, <2>3 DEF ReleaseStep
    <3> HIDE DEF S
    <3>6. ready'[q] = ready[q] \cup S /\ redelivered' = redelivered \cup S
      BY <1>1, <3>4, <3>5, RequeueOne
    <3>7. Given(d, q)
      BY <3>1, <3>2, <3>3, <3>4, <3>5, <3>6 DEF Given
    <3>8. QED
      BY <3>7 DEF Moves
  <2>4. QED
    BY <1>4, <2>1, <2>2, <2>3 DEF ReleaseStep
<1>5. CASE LeaveStep(d)
  <2> DEFINE S == ToSet(unacked[d])
  <2>1. unacked'[d] = << >> /\ Requeue(S) /\ UNCHANGED <<acked, dead>>
    BY <1>5 DEF LeaveStep
  <2>2. ToSet(<< >>) = {} /\ Distinct(<< >>) /\ Len(<< >>) = 0
    BY DEF ToSet, Distinct
  <2>3. ready'[q] = ready[q] \cup S /\ redelivered' = redelivered \cup S
    BY <1>1, <2>1, RequeueOne
  <2>4. ToSet(unacked'[d]) = ToSet(unacked[d]) \ S /\ S \in SUBSET ToSet(unacked[d])
    BY <2>1, <2>2
  <2>5. /\ Distinct(unacked'[d]) /\ Len(unacked'[d]) <= Len(unacked[d])
        /\ Within(unacked'[d], unacked[d])
    BY <1>1, <2>1, <2>2, EmptyWithin
  <2> HIDE DEF S
  <2>6. Given(d, q)
    BY <2>1, <2>3, <2>4, <2>5 DEF Given
  <2>7. QED
    BY <2>6 DEF Moves
<1>6. CASE (\E p \in Partitions : TakeStep(d, p)) \/ LoopStep(d) \/ AddStep(d) \/ SwapStep(d)
           \/ AcceptStep(d) \/ LoopDiesStep(d) \/ RestartStep(d)
  <2>1. Kept(d)
    BY <1>6 DEF TakeStep, LoopStep, AddStep, SwapStep, AcceptStep, LoopDiesStep, RestartStep,
       Kept, SameChannel, queueVars
  <2>2. QED
    BY <2>1 DEF Moves
<1>7. QED
  BY <1>2, <1>3, <1>4, <1>5, <1>6 DEF ReplicaStep

\* A message stays in exactly one place.
LEMMA PlacedStep ==
    ASSUME Sound, Types', NEW q, OneQueue(q), NEW d \in Replicas, ReplicaStep(d)
    PROVE  Placed(q)'
<1>1. Moves(d, q)
  BY MovesStep
<1>2. /\ q \in Partitions /\ unacked[d] \in Seq(Messages) /\ Len(unacked[d]) \in Nat
      /\ ready[q] \subseteq Messages /\ unacked'[d] \in Seq(Messages) /\ Len(unacked'[d]) \in Nat
  <2>1. q \in Partitions
    BY DEF OneQueue
  <2>2. unacked[d] \in Seq(Messages) /\ ready[q] \subseteq Messages /\ unacked'[d] \in Seq(Messages)
    BY <2>1 DEF Sound, Types
  <2>3. QED
    BY <2>1, <2>2
<1>3. /\ acked \cap dead = {} /\ ready[q] \cap (acked \cup dead) = {}
      /\ Distinct(unacked[d]) /\ Len(unacked[d]) <= Prefetch
      /\ ToSet(unacked[d]) \cap (ready[q] \cup acked \cup dead) = {}
  BY DEF OneQueue, Placed
<1>4. ASSUME NEW e \in Replicas, e # d
      PROVE  /\ unacked'[e] = unacked[e] /\ Distinct(unacked[e]) /\ Len(unacked[e]) <= Prefetch
             /\ ToSet(unacked[e]) \cap (ready[q] \cup acked \cup dead) = {}
             /\ ToSet(unacked[e]) \cap ToSet(unacked[d]) = {}
  BY <1>4, OthersKeep DEF OneQueue, Placed
<1>5. /\ acked' \cap dead' = {} /\ ready'[q] \cap (acked' \cup dead') = {}
      /\ Distinct(unacked'[d]) /\ Len(unacked'[d]) <= Prefetch
      /\ ToSet(unacked'[d]) \cap (ready'[q] \cup acked' \cup dead') = {}
      /\ ToSet(unacked'[d]) \subseteq ToSet(unacked[d]) \cup ready[q]
      /\ ready'[q] \cup acked' \cup dead' \subseteq ToSet(unacked[d]) \cup ready[q] \cup acked \cup dead
  <2>1. CASE Taken(d, q)
    <3>1. PICK m \in ready[q] :
            /\ ready'[q] = ready[q] \ {m} /\ unacked'[d] = Append(unacked[d], m)
            /\ Len(unacked[d]) < Prefetch /\ UNCHANGED <<acked, dead, redelivered>>
      BY <2>1 DEF Taken
    <3>2. /\ Len(unacked'[d]) = Len(unacked[d]) + 1 /\ unacked'[d][Len(unacked[d]) + 1] = m
          /\ \A i \in 1 .. Len(unacked[d]) : unacked'[d][i] = unacked[d][i]
      BY <1>2, <3>1
    <3>3. ToSet(unacked'[d]) = ToSet(unacked[d]) \cup {m}
      <4>1. /\ \A x : x \in ToSet(unacked[d]) <=> \E i \in 1 .. Len(unacked[d]) : unacked[d][i] = x
            /\ \A x : x \in ToSet(unacked'[d]) <=> \E i \in 1 .. Len(unacked'[d]) : unacked'[d][i] = x
        BY <1>2, ToSetMembers
      <4>2. \A i \in 1 .. Len(unacked'[d]) : i \in 1 .. Len(unacked[d]) \/ i = Len(unacked[d]) + 1
        BY <1>2, <3>2
      <4>3. /\ Len(unacked[d]) + 1 \in 1 .. Len(unacked'[d])
            /\ \A i \in 1 .. Len(unacked[d]) : i \in 1 .. Len(unacked'[d])
        BY <1>2, <3>2
      <4>4. QED
        BY <3>2, <4>1, <4>2, <4>3
    <3>4. Distinct(unacked'[d])
      <4>1. \A i \in 1 .. Len(unacked[d]) : unacked[d][i] \in ToSet(unacked[d])
        BY <1>2, ToSetMembers
      <4>2. m \notin ToSet(unacked[d])
        BY <1>3, <3>1
      <4>3. \A i \in 1 .. Len(unacked'[d]) : i \in 1 .. Len(unacked[d]) \/ i = Len(unacked[d]) + 1
        BY <1>2, <3>2
      <4>4. QED
        BY <1>3, <3>2, <4>1, <4>2, <4>3 DEF Distinct
    <3>5. Len(unacked'[d]) <= Prefetch
      BY <1>2, <3>1, <3>2, Constants
    <3>6. QED
      BY <1>3, <3>1, <3>3, <3>4, <3>5
  <2>2. CASE Given(d, q)
    <3>1. PICK S \in SUBSET ToSet(unacked[d]) :
            /\ ToSet(unacked'[d]) = ToSet(unacked[d]) \ S
            /\ Distinct(unacked'[d]) /\ Len(unacked'[d]) <= Len(unacked[d])
            /\ \/ acked' = acked \cup S /\ UNCHANGED <<dead, redelivered>> /\ ready'[q] = ready[q]
               \/ dead' = dead \cup S /\ UNCHANGED <<acked, redelivered>> /\ ready'[q] = ready[q]
               \/ ready'[q] = ready[q] \cup S /\ UNCHANGED <<acked, dead>>
      BY <2>2 DEF Given
    <3>2. Len(unacked'[d]) <= Prefetch
      BY <1>2, <1>3, <3>1, Constants
    <3>3. QED
      BY <1>3, <3>1, <3>2
  <2>3. CASE Kept(d)
    BY <1>3, <2>3 DEF Kept
  <2>4. QED
    BY <1>1, <2>1, <2>2, <2>3 DEF Moves
<1>6. ASSUME NEW e \in Replicas
      PROVE  /\ Distinct(unacked'[e]) /\ Len(unacked'[e]) <= Prefetch
             /\ ToSet(unacked'[e]) \cap (ready'[q] \cup acked' \cup dead') = {}
             /\ e # d => ToSet(unacked'[e]) \cap ToSet(unacked'[d]) = {}
  <2>1. CASE e = d
    BY <1>5, <2>1
  <2>2. CASE e # d
    BY <1>4, <1>5, <2>2
  <2>3. QED
    BY <2>1, <2>2
<1>7. ASSUME NEW e \in Replicas, NEW f \in Replicas, e # f
      PROVE  ToSet(unacked'[e]) \cap ToSet(unacked'[f]) = {}
  <2>1. CASE e = d \/ f = d
    BY <1>6, <1>7, <2>1
  <2>2. CASE e # d /\ f # d
    BY <1>4, <1>7, <2>2 DEF OneQueue, Placed
  <2>3. QED
    BY <2>1, <2>2
<1>8. QED
  BY <1>5, <1>6, <1>7 DEF Placed, Distinct

\* The deliveries stay lined up: batch, buffer, message at hand, inbox.
LEMMA AlignedStep ==
    ASSUME Sound, Types', NEW q, OneQueue(q), NEW d \in Replicas, ReplicaStep(d)
    PROVE  Aligned(d, q)'
<1> DEFINE u == unacked[d]
           b == Hold(d)
           c == current[d]
           f == fetched[d][q]
<1>1. /\ u \in Seq(Messages) /\ b \in Seq(Messages) /\ c \in Messages \cup {None}
      /\ f \in Seq(Messages) /\ Partitions = {q} /\ Distinct(u)
      /\ Len(u) \in Nat /\ Len(f) \in Nat
  <2>1. Partitions = {q} /\ Distinct(u)
    BY DEF OneQueue, Placed
  <2>2. u \in Seq(Messages) /\ b \in Seq(Messages) /\ c \in Messages \cup {None} /\ f \in Seq(Messages)
    <3>1. q \in Partitions
      BY <2>1
    <3>2. u \in Seq(Messages) /\ c \in Messages \cup {None} /\ f \in Seq(Messages)
      BY <3>1 DEF Sound, Types
    <3>3. flushing[d] \in Seq(Messages) /\ pending[d] \in Seq(Messages)
      BY DEF Sound, Types
    <3>4. b \in Seq(Messages)
      BY <3>3 DEF Hold
    <3>5. QED
      BY <3>2, <3>4
  <2>3. QED
    BY <2>1, <2>2
<1>2. connected[d] /\ (state[d] # "stopping" \/ b # << >>) => Lined(u, b, c, f)
  BY DEF OneQueue, Aligned
<1>3. connected[d] => Len(f) <= Len(u)
  <2>1. Lined(u, b, c, f) => LinedUp(u, b, c, f)
    BY <1>1 DEF LinedUp
  <2>2. LinedUp(u, b, c, f) => Len(f) <= Len(u)
    BY LinedMembers
  <2>3. QED
    BY <2>1, <2>2 DEF OneQueue, Aligned
<1>4. state[d] \notin {"stopping", "down"} => connected[d]
  BY DEF Sound, Local
<1>5. c # None => Lined(u, b, c, f) /\ c \in Messages
  BY CurrentHeld
<1>6. CASE \E p \in Partitions : DeliverStep(d, p)
  <2>1. DeliverStep(d, q)
    BY <1>1, <1>6
  <2>2. PICK m \in ready[q] : unacked'[d] = Append(u, m) /\ fetched'[d][q] = Append(f, m)
    BY <2>1 DEF DeliverStep
  <2>3. m \in Messages
    BY <1>1 DEF Sound, Types
  <2>4. Hold(d)' = b /\ current'[d] = c /\ state'[d] = state[d] /\ connected'[d] = connected[d]
    BY <2>1 DEF DeliverStep, SameBatch, SameLoop, Hold
  <2>5. Lined(u, b, c, f) => Lined(Append(u, m), b, c, Append(f, m))
    BY <1>1, <2>3, LinedDelivered
  <2>6. connected[d] => Len(Append(f, m)) <= Len(Append(u, m))
    BY <1>1, <1>3, <2>3
  <2>7. QED
    BY <2>2, <2>4, <2>5, <2>6 DEF OneQueue, Aligned
<1>7. CASE \E p \in Partitions : TakeStep(d, p)
  <2>1. TakeStep(d, q)
    BY <1>1, <1>7
  <2>2. /\ state[d] = "idle" /\ f # << >> /\ current'[d] = Head(f) /\ fetched'[d][q] = Tail(f)
        /\ unacked'[d] = u /\ Hold(d)' = b
    BY <2>1 DEF TakeStep, SameBatch, Hold
  <2>3. c = None /\ Lined(u, b, c, f)
    BY <1>2, <1>4, <2>2 DEF Sound, Local
  <2>4. Lined(u, b, Head(f), Tail(f))
    BY <1>1, <2>2, <2>3, LinedTaken
  <2>5. QED
    BY <2>2, <2>4 DEF Aligned
<1>8. CASE SettleStep(d)
  <2>1. /\ c # None /\ unacked'[d] = Without(u, {c}) /\ current'[d] = None
        /\ fetched'[d] = fetched[d] /\ Hold(d)' = b
    BY <1>8 DEF SettleStep, SameBatch, Hold, Sound, Local
  <2>2. Lined(Without(u, {c}), b, None, f)
    BY <1>1, <1>5, <2>1, LinedSettled
  <2>3. QED
    BY <2>1, <2>2 DEF Aligned
<1>9. CASE LoopStep(d)
  <2>1. state[d] # "stopping" /\ state[d] # "down"
    BY <1>9 DEF LoopStep
  <2>2. Lined(u, b, c, f)
    BY <1>2, <1>4, <2>1
  <2>3. unacked'[d] = u /\ Hold(d)' = b /\ current'[d] = c /\ fetched'[d] = fetched[d]
    BY <1>9 DEF LoopStep, SameChannel, SameBatch, Hold
  <2>4. QED
    BY <2>2, <2>3 DEF Aligned
<1>10. ASSUME state[d] = "adding", flusher[d] = "none", current'[d] = None, SameChannel(d),
              Hold(d)' = Append(pending[d], c)
       PROVE  Aligned(d, q)'
  <2>1. b = pending[d] /\ c # None
    BY <1>10 DEF Hold, Sound, Local
  <2>2. Lined(u, Append(b, c), None, f)
    BY <1>1, <1>5, <2>1, LinedAdded
  <2>3. QED
    BY <1>10, <2>1, <2>2 DEF Aligned, SameChannel
<1>11. CASE AddStep(d)
  BY <1>10, <1>11 DEF AddStep, Hold
<1>12. CASE SwapStep(d)
  <2>1. CASE state[d] = "adding" /\ flushing'[d] = Append(pending[d], current[d])
             /\ flusher'[d] = "worker" /\ current'[d] = None
    BY <1>10, <1>12, <2>1 DEF SwapStep, Hold
  <2>2. CASE pending[d] # << >> /\ flushing'[d] = pending[d] /\ flusher'[d] # "none" /\ SameLoop(d)
    <3>1. b = pending[d] /\ Hold(d)' = b /\ SameChannel(d) /\ current'[d] = c
      BY <1>12, <2>2 DEF SwapStep, Hold, SameLoop
    <3>2. connected[d] => Lined(u, b, c, f)
      BY <1>2, <2>2, <3>1
    <3>3. QED
      BY <3>1, <3>2 DEF Aligned, SameChannel
  <2>3. QED
    BY <1>12, <2>1, <2>2 DEF SwapStep
<1>13. CASE AcceptStep(d)
  <2>1. Hold(d)' = b /\ SameLoop(d) /\ SameChannel(d)
    BY <1>13 DEF AcceptStep, Hold
  <2>2. QED
    BY <2>1 DEF OneQueue, Aligned, SameLoop, SameChannel
<1>14. CASE ReleaseStep(d)
  <2>1. /\ flusher[d] # "none" /\ Hold(d)' = << >> /\ current'[d] = c
        /\ connected'[d] = connected[d] /\ fetched'[d] = fetched[d]
    BY <1>14 DEF ReleaseStep, Hold, Sound, Local
  <2>2. SUFFICES ASSUME connected[d] PROVE Aligned(d, q)'
    BY <2>1 DEF Aligned
  <2>3. /\ Lined(u, flushing[d], c, f) /\ flushing[d] \in Seq(Messages)
        /\ CumulativeUpTo(d, flushing[d]) = Len(flushing[d])
    BY <2>1, <2>2, BatchAcked DEF Sound, Types
  <2>4. /\ Lined(SubSeq(u, Len(flushing[d]) + 1, Len(u)), << >>, c, f)
        /\ Lined(Without(u, ToSet(flushing[d])), << >>, c, f)
    BY <1>1, <2>3, LinedReleased
  <2>5. \/ unacked'[d] = SubSeq(u, Len(flushing[d]) + 1, Len(u))
        \/ unacked'[d] = Without(u, ToSet(flushing[d]))
    BY <1>14, <2>2, <2>3 DEF ReleaseStep
  <2>6. QED
    BY <2>1, <2>4, <2>5 DEF Aligned
<1>15. CASE LoopDiesStep(d)
  <2>1. /\ state[d] = "counting" /\ state'[d] = "stopping" /\ current'[d] = c
        /\ SameChannel(d) /\ flusher'[d] = "none" /\ pending'[d] = pending[d]
    BY <1>15 DEF LoopDiesStep, AbandonedAt
  <2>2. Hold(d)' = pending[d]
    BY <2>1 DEF Hold
  <2>3. CASE flusher[d] = "none"
    <3>1. Hold(d)' = b
      BY <2>2, <2>3 DEF Hold
    <3>2. Lined(u, b, c, f)
      BY <1>2, <1>4, <2>1
    <3>3. QED
      BY <2>1, <3>1, <3>2 DEF Aligned, SameChannel
  <2>4. CASE flusher[d] # "none"
    <3>1. Hold(d)' = << >>
      BY <2>2, <2>4 DEF Sound, Local
    <3>2. QED
      BY <1>3, <2>1, <3>1 DEF Aligned, SameChannel
  <2>5. QED
    BY <2>3, <2>4
<1>16. CASE LeaveStep(d)
  BY <1>16 DEF LeaveStep, Aligned
<1>17. CASE RestartStep(d)
  <2>1. state[d] = "down"
    BY <1>17 DEF RestartStep
  <2>2. /\ u = << >> /\ f = << >> /\ b = << >> /\ c = None
    BY <1>1, <2>1 DEF Sound, Local, Hold
  <2>3. unacked'[d] = u /\ fetched'[d] = fetched[d] /\ Hold(d)' = b /\ current'[d] = c
    BY <1>17 DEF RestartStep, SameBatch, Hold
  <2>4. Lined(<< >>, << >>, None, << >>)
    BY DEF Lined, One
  <2>5. QED
    BY <2>2, <2>3, <2>4 DEF Aligned
<1>18. QED
  BY <1>6, <1>7, <1>8, <1>9, <1>11, <1>12, <1>13, <1>14, <1>15, <1>16, <1>17 DEF ReplicaStep

\* The invariant of one partition is inductive.
LEMMA OneQueueStep ==
    ASSUME Sound, NEW q, OneQueue(q), [Next]_vars
    PROVE  OneQueue(q)'
<1>1. Types'
  BY Steps
<1>2. CASE UNCHANGED vars \/ \E p \in Partitions : PromoteStep(p)
  <2>1. UNCHANGED <<ready, acked, dead, unacked, connected, fetched, state, current, pending, flushing, flusher>>
    BY <1>2 DEF PromoteStep, vars, queueVars, channelVars, loopVars, batchVars
  <2>2. Placed(q)'
    BY <2>1 DEF OneQueue, Placed, Distinct
  <2>3. ASSUME NEW d \in Replicas
        PROVE  Aligned(d, q)'
    <3>1. Hold(d)' = Hold(d)
      BY <2>1 DEF Hold
    <3>2. Aligned(d, q)
      BY DEF OneQueue
    <3>3. QED
      BY <2>1, <3>1, <3>2 DEF Aligned
  <2>4. QED
    BY <2>2, <2>3 DEF OneQueue
<1>3. ASSUME NEW d \in Replicas, ReplicaStep(d)
      PROVE  OneQueue(q)'
  <2>1. Placed(q)' /\ Aligned(d, q)'
    BY <1>1, <1>3, PlacedStep, AlignedStep
  <2>2. ASSUME NEW e \in Replicas, e # d
        PROVE  Aligned(e, q)'
    <3>1. /\ connected'[e] = connected[e] /\ unacked'[e] = unacked[e] /\ fetched'[e] = fetched[e]
          /\ current'[e] = current[e] /\ state'[e] = state[e] /\ Hold(e)' = Hold(e)
      BY <1>3, <2>2, OthersKeep DEF Hold
    <3>2. Aligned(e, q)
      BY DEF OneQueue
    <3>3. QED
      BY <3>1, <3>2 DEF Aligned
  <2>3. \A e \in Replicas : Aligned(e, q)'
    BY <2>1, <2>2
  <2>4. QED
    BY <2>1, <2>3 DEF OneQueue
<1>4. QED
  BY <1>2, <1>3, Steps

\* Types, and the bounds on a batch and on an inbox, hold in every state when the
\* replicas share one partition: an inbox never holds more than the prefetch.
THEOREM DetectorTypes ==
    ASSUME NEW q, Partitions = {q}
    PROVE  Spec => []TypeOK
<1>1. Init => Sound /\ OneQueue(q)
  BY SoundInit, OneQueueInit
<1>2. Sound /\ OneQueue(q) /\ [Next]_vars => (Sound /\ OneQueue(q))'
  BY SoundStep, OneQueueStep
<1>3. Sound /\ OneQueue(q) => TypeOK
  <2> SUFFICES ASSUME Sound, OneQueue(q) PROVE TypeOK
    OBVIOUS
  <2>1. ASSUME NEW d \in Replicas, NEW p \in Partitions
        PROVE  fetched[d][p] \in Seq(Messages) /\ Len(fetched[d][p]) <= Prefetch
    <3>1. /\ unacked[d] \in Seq(Messages) /\ Hold(d) \in Seq(Messages)
          /\ current[d] \in Messages \cup {None} /\ fetched[d][p] \in Seq(Messages)
      BY DEF Sound, Types, Hold
    <3>2. p = q
      BY DEF OneQueue
    <3>3. connected[d] => Len(fetched[d][q]) <= Len(unacked[d])
      <4>1. Lined(unacked[d], Hold(d), current[d], fetched[d][q])
              => LinedUp(unacked[d], Hold(d), current[d], fetched[d][q])
        BY <3>1, <3>2 DEF LinedUp
      <4>2. LinedUp(unacked[d], Hold(d), current[d], fetched[d][q]) => Len(fetched[d][q]) <= Len(unacked[d])
        BY LinedMembers
      <4>3. QED
        BY <4>1, <4>2 DEF OneQueue, Aligned
    <3>4. ~connected[d] => fetched[d][p] = << >>
      BY DEF Sound, Local
    <3>5. Len(unacked[d]) <= Prefetch /\ Len(unacked[d]) \in Nat /\ Prefetch \in Nat
      BY <3>1, Constants DEF OneQueue, Placed
    <3>6. Len(fetched[d][p]) \in Nat
      BY <3>1
    <3>7. QED
      BY <3>1, <3>2, <3>3, <3>4, <3>5, <3>6
  <2>2. ASSUME NEW d \in Replicas
        PROVE  /\ unacked[d] \in Seq(Messages)
               /\ pending[d] \in Seq(Messages) /\ Len(pending[d]) < BatchSize
               /\ flushing[d] \in Seq(Messages) /\ Len(flushing[d]) <= BatchSize
    BY DEF Sound, Types, Local
  <2>3. Types
    BY DEF Sound
  <2>4. QED
    BY <2>1, <2>2, <2>3 DEF TypeOK, Types, States
<1>4. QED
  BY <1>1, <1>2, <1>3, PTL DEF Spec

\* The cumulative acknowledgement of a batch settles the deliveries of the batch and
\* no other, for any number of replicas that share one partition, whatever fails.
THEOREM AcknowledgementIsExact ==
    ASSUME NEW q, Partitions = {q}
    PROVE  Spec => []MultipleAckSafe
<1>1. Init => Sound /\ OneQueue(q)
  BY SoundInit, OneQueueInit
<1>2. Sound /\ OneQueue(q) /\ [Next]_vars => (Sound /\ OneQueue(q))'
  BY SoundStep, OneQueueStep
<1>3. Sound /\ OneQueue(q) => MultipleAckSafe
  <2> SUFFICES ASSUME Sound, OneQueue(q), NEW d \in Replicas, sunk[d], connected[d]
               PROVE  ToSet(SubSeq(unacked[d], 1, CumulativeUpTo(d, flushing[d]))) = ToSet(flushing[d])
    BY DEF MultipleAckSafe
  <2>1. flusher[d] # "none"
    BY DEF Sound, Local
  <2>2. /\ Lined(unacked[d], flushing[d], current[d], fetched[d][q])
        /\ CumulativeUpTo(d, flushing[d]) = Len(flushing[d])
    BY <2>1, BatchAcked
  <2>3. /\ unacked[d] \in Seq(Messages) /\ flushing[d] \in Seq(Messages)
        /\ current[d] \in Messages \cup {None} /\ fetched[d][q] \in Seq(Messages)
    BY DEF Sound, Types, OneQueue
  <2>4. ToSet(SubSeq(unacked[d], 1, Len(flushing[d]))) = ToSet(flushing[d])
    BY <2>2, <2>3, LinedReleased
  <2>5. QED
    BY <2>2, <2>4
<1>4. QED
  BY <1>1, <1>2, <1>3, PTL DEF Spec

\* What is unsettled is what the line is made of.
LEMMA HeldMembers ==
    ASSUME Sound, NEW d \in Replicas, NEW q \in Partitions,
           Lined(unacked[d], Hold(d), current[d], fetched[d][q])
    PROVE  ToSet(unacked[d]) =
             ToSet(fetched[d][q]) \cup ToSet(pending[d]) \cup ToSet(flushing[d]) \cup ({current[d]} \ {None})
<1>1. LinedUp(unacked[d], Hold(d), current[d], fetched[d][q])
  BY DEF Sound, Types, Hold, LinedUp
<1>2. ToSet(unacked[d]) = ToSet(fetched[d][q]) \cup ToSet(Hold(d)) \cup ({current[d]} \ {None})
  BY <1>1, LinedMembers
<1>3. ToSet(Hold(d)) = ToSet(pending[d]) \cup ToSet(flushing[d])
  <2>1. ToSet(<< >>) = {}
    BY DEF ToSet
  <2>2. flusher[d] = "none" => flushing[d] = << >> /\ Hold(d) = pending[d]
    BY DEF Sound, Local, Hold
  <2>3. flusher[d] # "none" => pending[d] = << >> /\ Hold(d) = flushing[d]
    BY DEF Sound, Local, Hold
  <2>4. QED
    BY <2>1, <2>2, <2>3
<1>4. QED
  BY <1>2, <1>3, Zenon

\* With one partition the inboxes of a replica are one.
LEMMA HeldUnion ==
    ASSUME NEW q, Partitions = {q}, NEW d
    PROVE  UNION {ToSet(fetched[d][p]) : p \in Partitions} = ToSet(fetched[d][q])
  OBVIOUS

\* No delivery leaks: a replica that runs holds, in its inbox, at hand or in its
\* batcher, exactly what the broker waits for it to settle.
THEOREM NoDeliveryLeaks ==
    ASSUME NEW q, Partitions = {q}
    PROVE  Spec => []HeldIsUnacked
<1>1. Init => Sound /\ OneQueue(q)
  BY SoundInit, OneQueueInit
<1>2. Sound /\ OneQueue(q) /\ [Next]_vars => (Sound /\ OneQueue(q))'
  BY SoundStep, OneQueueStep
<1>3. Sound /\ OneQueue(q) => HeldIsUnacked
  <2>1. ASSUME Sound, OneQueue(q), NEW d \in Replicas, state[d] \notin {"stopping", "down"}
        PROVE  ToSet(unacked[d]) =
                 (UNION {ToSet(fetched[d][p]) : p \in Partitions})
                     \cup ToSet(pending[d]) \cup ToSet(flushing[d]) \cup ({current[d]} \ {None})
    <3>1. Lined(unacked[d], Hold(d), current[d], fetched[d][q])
      BY <2>1 DEF Sound, Local, OneQueue, Aligned
    <3>2. UNION {ToSet(fetched[d][p]) : p \in Partitions} = ToSet(fetched[d][q])
      BY HeldUnion
    <3>3. ToSet(unacked[d]) =
            ToSet(fetched[d][q]) \cup ToSet(pending[d]) \cup ToSet(flushing[d]) \cup ({current[d]} \ {None})
      BY <2>1, <3>1, HeldMembers
    <3>4. QED
      BY <3>2, <3>3, Zenon
  <2>2. QED
    BY <2>1 DEF HeldIsUnacked
<1>4. QED
  BY <1>1, <1>2, <1>3, PTL DEF Spec

-----------------------------------------------------------------------------
(* The replicas keep to the broker ports.                                  *)

\* What was never handed out is handed out in publish order: the rest of the queue
\* was there before.
LEMMA MovesQueue ==
    ASSUME Sound, NEW q, OneQueue(q), NEW d \in Replicas, ReplicaStep(d), Types'
    PROVE  [Queue!Next]_(Queue!vars)
<1> DEFINE Q == UNION {ready[p] : p \in Partitions}
           H == UNION {ToSet(unacked[e]) : e \in Replicas}
           U == ToSet(unacked[d])
<1>1. Moves(d, q)
  BY MovesStep
<1>2. Q = ready[q] /\ Q' = ready'[q] /\ Q \subseteq Messages
  BY DEF OneQueue, Sound, Types
<1>3. /\ U \subseteq H /\ unacked[d] \in Seq(Messages) /\ unacked'[d] \in Seq(Messages)
  BY DEF Sound, Types
<1>4. \A e \in Replicas : e # d => unacked'[e] = unacked[e] /\ ToSet(unacked[e]) \cap U = {}
  BY OthersKeep DEF OneQueue, Placed
<1>5. ASSUME NEW S \in SUBSET U, ToSet(unacked'[d]) = U \ S
      PROVE  H' = H \ S
  <2>1. \A e \in Replicas : e # d => ToSet(unacked'[e]) = ToSet(unacked[e]) \ S
    BY <1>4, <1>5
  <2>2. \A e \in Replicas : ToSet(unacked'[e]) = ToSet(unacked[e]) \ S
    BY <1>5, <2>1
  <2>3. QED
    BY <2>2
<1>6. CASE Taken(d, q)
  <2>1. PICK m \in ready[q] :
          /\ \A n \in ready[q] : m <= n
          /\ ready'[q] = ready[q] \ {m} /\ unacked'[d] = Append(unacked[d], m)
          /\ UNCHANGED <<acked, dead, redelivered>>
    BY <1>6 DEF Taken
  <2>2. ToSet(unacked'[d]) = U \cup {m}
    <3>1. /\ \A x : x \in U <=> \E i \in 1 .. Len(unacked[d]) : unacked[d][i] = x
          /\ \A x : x \in ToSet(unacked'[d]) <=> \E i \in 1 .. Len(unacked'[d]) : unacked'[d][i] = x
      BY <1>3, ToSetMembers
    <3>2. /\ Len(unacked'[d]) = Len(unacked[d]) + 1 /\ unacked'[d][Len(unacked[d]) + 1] = m
          /\ \A i \in 1 .. Len(unacked[d]) : unacked'[d][i] = unacked[d][i]
          /\ Len(unacked[d]) \in Nat
      BY <1>2, <1>3, <2>1
    <3>3. \A i \in 1 .. Len(unacked'[d]) : i \in 1 .. Len(unacked[d]) \/ i = Len(unacked[d]) + 1
      BY <3>2
    <3>4. /\ Len(unacked[d]) + 1 \in 1 .. Len(unacked'[d])
          /\ \A i \in 1 .. Len(unacked[d]) : i \in 1 .. Len(unacked'[d])
      BY <3>2
    <3>5. QED
      BY <3>1, <3>2, <3>3, <3>4
  <2>3. H' = H \cup {m}
    <3>1. \A e \in Replicas : e # d => ToSet(unacked'[e]) = ToSet(unacked[e])
      BY <1>4
    <3>2. QED
      BY <2>2, <3>1
  <2>4. m \in Q /\ Q' = Q \ {m} /\ m \in Messages
    BY <1>2, <2>1
  <2>5. \A n \in Q \ redelivered : m <= n
    BY <1>2, <2>1
  <2> HIDE DEF Q, H, U
  <2>6. Queue!InOrder(m)
    BY <2>5 DEF Queue!InOrder, Q
  <2>7. Queue!Deliver(m)
    BY <2>1, <2>3, <2>4, <2>6 DEF Queue!Deliver, Q, H
  <2>8. QED
    BY <2>4, <2>7 DEF Queue!Next
<1>7. CASE Given(d, q)
  <2>1. PICK S \in SUBSET U :
          /\ ToSet(unacked'[d]) = U \ S
          /\ \/ acked' = acked \cup S /\ UNCHANGED <<dead, redelivered>> /\ ready'[q] = ready[q]
             \/ dead' = dead \cup S /\ UNCHANGED <<acked, redelivered>> /\ ready'[q] = ready[q]
             \/ /\ ready'[q] = ready[q] \cup S /\ redelivered' = redelivered \cup S
                /\ UNCHANGED <<acked, dead>>
    BY <1>7 DEF Given
  <2>2. H' = H \ S /\ S \in SUBSET H
    BY <1>3, <1>5, <2>1
  <2>3. \/ acked' = acked \cup S /\ UNCHANGED <<dead, redelivered>> /\ Q' = Q
        \/ dead' = dead \cup S /\ UNCHANGED <<acked, redelivered>> /\ Q' = Q
        \/ Q' = Q \cup S /\ redelivered' = redelivered \cup S /\ UNCHANGED <<acked, dead>>
    BY <1>2, <2>1
  <2> HIDE DEF Q, H, U
  <2>4. Queue!Ack(S) \/ Queue!DeadLetter(S) \/ Queue!Requeue(S)
    BY <2>2, <2>3 DEF Queue!Ack, Queue!DeadLetter, Queue!Requeue, Q, H
  <2>5. QED
    BY <2>2, <2>4 DEF Queue!Next, H
<1>8. CASE Kept(d)
  <2>1. Q' = Q /\ UNCHANGED <<acked, dead, redelivered>>
    BY <1>8 DEF Kept
  <2>2. H' = H
    <3>1. \A e \in Replicas : unacked'[e] = unacked[e]
      BY <1>4, <1>8 DEF Kept
    <3>2. QED
      BY <3>1
  <2> HIDE DEF Q, H, U
  <2>3. QED
    BY <2>1, <2>2 DEF Queue!vars, Q, H
<1>9. QED
  BY <1>1, <1>6, <1>7, <1>8 DEF Moves

\* Replicas that share one partition, their pumps, batches, crashes and shutdowns
\* together implement the queue that the broker ports promise.
THEOREM DetectorImplementsQueue ==
    ASSUME NEW q, Partitions = {q}
    PROVE  Spec => ImplementsQueue
<1>1. Init => Sound /\ OneQueue(q)
  BY SoundInit, OneQueueInit
<1>2. Sound /\ OneQueue(q) /\ [Next]_vars => (Sound /\ OneQueue(q))'
  BY SoundStep, OneQueueStep
<1>3. Init => Queue!Init
  <2> SUFFICES ASSUME Init PROVE Queue!Init
    OBVIOUS
  <2>1. UNION {ready[p] : p \in Partitions} \in SUBSET Messages
    BY DEF Init, Of
  <2>2. UNION {ToSet(unacked[d]) : d \in Replicas} = {}
    <3>1. \A d \in Replicas : ToSet(unacked[d]) = {}
      BY DEF Init, ToSet
    <3>2. QED
      BY <3>1
  <2>3. QED
    BY <2>1, <2>2 DEF Init, Queue!Init
<1>4. Sound /\ OneQueue(q) /\ [Next]_vars => [Queue!Next]_(Queue!vars)
  <2> SUFFICES ASSUME Sound, OneQueue(q), [Next]_vars PROVE [Queue!Next]_(Queue!vars)
    OBVIOUS
  <2>1. CASE UNCHANGED vars \/ \E p \in Partitions : PromoteStep(p)
    BY <2>1 DEF PromoteStep, vars, queueVars, channelVars, Queue!vars
  <2>2. CASE \E d \in Replicas : ReplicaStep(d)
    BY <2>2, Steps, MovesQueue
  <2>3. QED
    BY <2>1, <2>2, Steps
<1>5. QED
  BY <1>1, <1>2, <1>3, <1>4, PTL DEF Spec, ImplementsQueue, Queue!Spec
-----------------------------------------------------------------------------
(* What can be lost: a frame whose key is in Redis, that is neither with a  *)
(* replica nor reported.  Only an interruption or a failed flush adds to it.*)

Gone == {f \in claimed : f \notin Fr(reported) /\ \A d \in Replicas : f \notin OnHand(d)}

Accounted ==
    /\ \A m \in acked \ shed : FrameOf[m] \in claimed \cup Fr(reported)
    /\ \A d \in Replicas : sunk[d] => Fr(flushing[d]) \subseteq Fr(reported)
    /\ Cardinality(Gone) <= BatchSize * (interruptions + sinkFailures)

\* What a step does to the frames that can be lost.
Drops(d) ==
    /\ claimed \subseteq claimed' /\ claimed' \subseteq claimed \cup OnHand(d)'
    /\ Fr(reported) \subseteq Fr(reported')
    /\ \/ /\ interruptions' + sinkFailures' = interruptions + sinkFailures
          /\ OnHand(d) \subseteq OnHand(d)' \cup Fr(reported')
       \/ interruptions' + sinkFailures' = interruptions + sinkFailures + 1

\* How a step of a replica may drop claimed frames: at most one batch.
LEMMA DropsStep ==
    ASSUME Sound, Types', NEW d \in Replicas, ReplicaStep(d)
    PROVE  Drops(d)
<1>1. Reports(d) /\ Claims(d) /\ Batch(d) \in Seq(Messages) /\ reported \in Seq(Messages)
  BY ReportsStep, BatchType DEF Sound, Types
<1>2. interruptions \in Nat /\ sinkFailures \in Nat
  BY Constants DEF Sound, Types
<1>3. claimed' \subseteq claimed \cup At(d)'
  BY DEF ReplicaStep, DeliverStep, TakeStep, SettleStep, LoopStep, AddStep, SwapStep, AcceptStep,
         ReleaseStep, LoopDiesStep, LeaveStep, RestartStep, redisVars, At, Frame
<1>4. Fr(reported) \subseteq Fr(reported')
  <2>1. Fr(reported \o Batch(d)) = Fr(reported) \cup Fr(Batch(d))
    BY <1>1, FramesJoined
  <2>2. QED
    BY <1>1, <2>1 DEF Reports
<1>5. \/ interruptions' + sinkFailures' = interruptions + sinkFailures
      \/ interruptions' + sinkFailures' = interruptions + sinkFailures + 1
  <2>1. \/ UNCHANGED <<interruptions, sinkFailures>>
        \/ interruptions' = interruptions + 1 /\ UNCHANGED sinkFailures
        \/ sinkFailures' = sinkFailures + 1 /\ UNCHANGED interruptions
    <3>1. CASE ReleaseStep(d) \/ LoopDiesStep(d) \/ LeaveStep(d)
      BY <3>1 DEF ReleaseStep, LoopDiesStep, LeaveStep
    <3>2. CASE ~(ReleaseStep(d) \/ LoopDiesStep(d) \/ LeaveStep(d))
      BY <3>2 DEF ReplicaStep, DeliverStep, TakeStep, SettleStep, LoopStep, AddStep, SwapStep,
         AcceptStep, RestartStep, boundVars
    <3>3. QED
      BY <3>1, <3>2
  <2>2. QED
    BY <1>2, <2>1
<1>6. ASSUME interruptions' + sinkFailures' = interruptions + sinkFailures
      PROVE  OnHand(d) \subseteq OnHand(d)' \cup Fr(reported')
  <2>1. ASSUME state[d] = "adding"
        PROVE  \/ state'[d] = "adding" /\ current'[d] = current[d]
               \/ Batch(d)' = Append(Batch(d), current[d])
    <3>1. CASE AddStep(d)
      BY <3>1 DEF AddStep, Batch, Sound, Local
    <3>2. CASE SwapStep(d)
      BY <2>1, <3>2 DEF SwapStep, Batch, Sound, Local, SameLoop
    <3>3. CASE ~AddStep(d) /\ ~SwapStep(d)
      BY <1>2, <1>6, <2>1, <3>3
         DEF ReplicaStep, DeliverStep, TakeStep, SettleStep, LoopStep, AcceptStep,
             ReleaseStep, LoopDiesStep, LeaveStep, RestartStep, boundVars, SameLoop, Sound, Local
    <3>4. QED
      BY <3>1, <3>2, <3>3
  <2>2. /\ state[d] = "adding" => current[d] \in Messages
    BY Constants DEF Sound, Types, Local
  <2>3. At(d) \subseteq OnHand(d)'
    <3>1. CASE state[d] # "adding"
      BY <3>1 DEF At
    <3>2. CASE state[d] = "adding" /\ state'[d] = "adding" /\ current'[d] = current[d]
      BY <3>2 DEF At, OnHand, Frame
    <3>3. CASE state[d] = "adding" /\ Batch(d)' = Append(Batch(d), current[d])
      <4>1. Fr(Append(Batch(d), current[d])) = Fr(Batch(d)) \cup {FrameOf[current[d]]}
        BY <1>1, <2>2, <3>3, FramesAdded
      <4>2. QED
        BY <3>3, <4>1 DEF At, OnHand, Frame
    <3>4. QED
      BY <2>1, <3>1, <3>2, <3>3
  <2>4. Fr(Batch(d)) \subseteq OnHand(d)' \cup Fr(reported')
    <3>1. CASE Batch(d)' = Batch(d)
      BY <3>1 DEF OnHand
    <3>2. CASE state[d] = "adding" /\ Batch(d)' = Append(Batch(d), current[d])
      <4>1. Fr(Append(Batch(d), current[d])) = Fr(Batch(d)) \cup {FrameOf[current[d]]}
        BY <1>1, <2>2, <3>2, FramesAdded
      <4>2. QED
        BY <3>2, <4>1 DEF OnHand
    <3>3. CASE reported' = reported \o Batch(d)
      BY <1>1, <3>3, FramesJoined
    <3>4. QED
      BY <1>1, <1>2, <1>6, <3>1, <3>2, <3>3 DEF Reports
  <2>5. QED
    BY <2>3, <2>4 DEF OnHand
<1>7. QED
  BY <1>1, <1>3, <1>4, <1>5, <1>6 DEF Drops, Claims, OnHand

\* A sequence names no more frames than it has elements.
LEMMA FramesCount ==
    ASSUME NEW s \in Seq(Messages)
    PROVE  IsFiniteSet(Fr(s)) /\ Cardinality(Fr(s)) \in Nat /\ Cardinality(Fr(s)) <= Len(s)
<1> DEFINE D == 1 .. Len(s)
           f == [i \in D |-> FrameOf[s[i]]]
<1>1. Len(s) \in Nat /\ IsFiniteSet(D) /\ Cardinality(D) = Len(s)
  <2>1. Len(s) \in Nat
    OBVIOUS
  <2>2. QED
    BY <2>1, CountUpTo
<1>2. f \in [D -> Fr(s)] /\ \A x \in Fr(s) : \E i \in D : f[i] = x
  BY DEF Fr
<1> HIDE DEF D, f
<1>3. f \in Surjection(D, Fr(s))
  BY <1>2 DEF Surjection
<1>4. IsFiniteSet(Fr(s)) /\ Cardinality(Fr(s)) <= Cardinality(D)
  BY <1>1, <1>3, FS_Surjection
<1>5. QED
  BY <1>1, <1>4, FS_CardinalityType

\* A replica holds the frames of at most one batch.
LEMMA OnHandCount ==
    ASSUME Sound, NEW d \in Replicas
    PROVE  IsFiniteSet(OnHand(d)) /\ Cardinality(OnHand(d)) \in Nat /\ Cardinality(OnHand(d)) <= BatchSize
<1>1. Batch(d) \in Seq(Messages) /\ Len(Batch(d)) \in Nat
  BY BatchType DEF Sound
<1>2. /\ IsFiniteSet(Fr(Batch(d))) /\ Cardinality(Fr(Batch(d))) \in Nat
      /\ Cardinality(Fr(Batch(d))) <= Len(Batch(d))
  BY <1>1, FramesCount
<1>3. Len(Batch(d)) <= BatchSize /\ (state[d] = "adding" => Len(Batch(d)) < BatchSize)
  <2>1. Len(<< >>) = 0
    OBVIOUS
  <2>2. Len(pending[d]) < BatchSize /\ Len(flushing[d]) <= BatchSize
        /\ (flusher[d] # "worker" => Len(flushing[d]) < BatchSize)
        /\ (state[d] = "adding" => flusher[d] # "worker")
    BY DEF Sound, Local
  <2>3. Len(pending[d]) \in Nat /\ Len(flushing[d]) \in Nat
    BY DEF Sound, Types
  <2>4. QED
    BY <2>1, <2>2, <2>3, Constants DEF Batch
<1>4. CASE state[d] = "adding"
  <2>1. OnHand(d) = Fr(Batch(d)) \cup {Frame(d)}
    BY <1>4 DEF OnHand, At
  <2>2. /\ IsFiniteSet(OnHand(d))
        /\ Cardinality(OnHand(d)) \in {Cardinality(Fr(Batch(d))), Cardinality(Fr(Batch(d))) + 1}
    BY <1>2, <2>1, FS_AddElement
  <2>3. QED
    BY <1>1, <1>2, <1>3, <1>4, <2>2, Constants
<1>5. CASE state[d] # "adding"
  <2>1. OnHand(d) = Fr(Batch(d))
    BY <1>5 DEF OnHand, At
  <2>2. QED
    BY <1>1, <1>2, <1>3, <2>1, Constants
<1>6. QED
  BY <1>4, <1>5

\* At first nothing is claimed or gone.
LEMMA AccountedInit == Init => Accounted
<1> SUFFICES ASSUME Init PROVE Accounted
  OBVIOUS
<1>1. acked = {} /\ claimed = {} /\ interruptions = 0 /\ sinkFailures = 0
      /\ \A d \in Replicas : ~sunk[d]
  BY DEF Init
<1>2. Gone = {}
  BY <1>1 DEF Gone
<1>3. Cardinality(Gone) = 0
  BY <1>2, FS_EmptySet
<1>4. BatchSize * (0 + 0) = 0
  BY Constants
<1>5. QED
  BY <1>1, <1>3, <1>4 DEF Accounted

\* What is settled and not stale is a duplicate, or was just reported.
LEMMA NewlyAcked ==
    ASSUME Sound, Types', NEW q, OneQueue(q), NEW d \in Replicas, ReplicaStep(d),
           sunk[d] => Fr(flushing[d]) \subseteq Fr(reported),
           NEW m \in acked' \ shed', m \notin acked \ shed
    PROVE  FrameOf[m] \in claimed \cup Fr(reported)
<1>1. CASE SettleStep(d)
  <2>1. m = current[d] /\ Frame(d) \in claimed
    BY <1>1 DEF SettleStep
  <2>2. QED
    BY <2>1 DEF Frame
<1>2. CASE ReleaseStep(d)
  <2>1. /\ sunk[d] /\ connected[d] /\ shed' = shed
        /\ acked' = acked \cup ToSet(SubSeq(unacked[d], 1, CumulativeUpTo(d, flushing[d])))
    BY <1>2 DEF ReleaseStep
  <2>2. flusher[d] # "none"
    BY <2>1 DEF Sound, Local
  <2>3. /\ Lined(unacked[d], flushing[d], current[d], fetched[d][q])
        /\ CumulativeUpTo(d, flushing[d]) = Len(flushing[d])
    BY <2>1, <2>2, BatchAcked
  <2>4. /\ unacked[d] \in Seq(Messages) /\ flushing[d] \in Seq(Messages)
        /\ current[d] \in Messages \cup {None} /\ fetched[d][q] \in Seq(Messages)
    <3>1. q \in Partitions
      BY DEF OneQueue
    <3>2. QED
      BY <3>1 DEF Sound, Types
  <2>5. ToSet(SubSeq(unacked[d], 1, Len(flushing[d]))) = ToSet(flushing[d])
    BY <2>3, <2>4, LinedReleased
  <2>6. m \in ToSet(flushing[d])
    BY <2>1, <2>3, <2>5
  <2>7. \E i \in 1 .. Len(flushing[d]) : flushing[d][i] = m
    BY <2>4, <2>6, ToSetMembers
  <2>8. FrameOf[m] \in Fr(flushing[d])
    BY <2>7 DEF Fr
  <2>9. QED
    BY <2>1, <2>8
<1>3. CASE ~SettleStep(d) /\ ~ReleaseStep(d)
  BY <1>3 DEF ReplicaStep, DeliverStep, TakeStep, LoopStep, AddStep, SwapStep, AcceptStep,
       LoopDiesStep, LeaveStep, RestartStep, queueVars
<1>4. QED
  BY <1>1, <1>2, <1>3

\* A batch that the sink has accepted is reported.
LEMMA SunkStep ==
    ASSUME Sound, Types', NEW d \in Replicas, ReplicaStep(d), sunk'[d],
           sunk[d] => Fr(flushing[d]) \subseteq Fr(reported)
    PROVE  Fr(flushing'[d]) \subseteq Fr(reported')
<1>1. Fr(reported) \subseteq Fr(reported') /\ reported \in Seq(Messages) /\ flushing[d] \in Seq(Messages)
  BY DropsStep DEF Drops, Sound, Types
<1>2. CASE AcceptStep(d)
  <2>1. Fr(reported \o flushing[d]) = Fr(reported) \cup Fr(flushing[d])
    BY <1>1, FramesJoined
  <2>2. QED
    BY <1>2, <2>1 DEF AcceptStep
<1>3. CASE ~AcceptStep(d)
  <2>1. sunk[d] /\ flushing'[d] = flushing[d]
    BY <1>3 DEF ReplicaStep, DeliverStep, TakeStep, SettleStep, LoopStep, AddStep, SwapStep,
       ReleaseStep, LoopDiesStep, LeaveStep, RestartStep, AbandonedAt, SameBatch, Sound, Local
  <2>2. QED
    BY <1>1, <2>1
<1>4. QED
  BY <1>2, <1>3

\* Gone frames are finitely many, so that they can be counted.
LEMMA GoneFinite ==
    ASSUME Types
    PROVE  IsFiniteSet(Gone) /\ Cardinality(Gone) \in Nat /\ Gone \subseteq claimed
<1>1. Gone \subseteq claimed /\ claimed \subseteq 1 .. NumMessages
  BY DEF Gone, Types, Messages
<1>2. IsFiniteSet(1 .. NumMessages)
  BY Constants, FS_Interval
<1>3. IsFiniteSet(Gone)
  BY <1>1, <1>2, FS_Subset
<1>4. QED
  BY <1>1, <1>3, FS_CardinalityType

\* One more interruption or failed flush, one more batch.
LEMMA OneBatchMore ==
    ASSUME NEW b \in Nat, NEW t \in Nat
    PROVE  b * (t + 1) = b * t + b /\ b * t \in Nat
  OBVIOUS

\* A step adds to the gone frames only what a replica dropped.
LEMMA GoneStep ==
    ASSUME Sound, Types', NEW d \in Replicas, ReplicaStep(d),
           Cardinality(Gone) <= BatchSize * (interruptions + sinkFailures)
    PROVE  Cardinality(Gone') <= BatchSize * (interruptions' + sinkFailures')
<1> DEFINE t == interruptions + sinkFailures
           G == Gone
           H == Gone'
<1>1. Drops(d)
  BY DropsStep
<1>2. /\ IsFiniteSet(G) /\ Cardinality(G) \in Nat
      /\ IsFiniteSet(H) /\ Cardinality(H) \in Nat
  <2>1. Types
    BY DEF Sound
  <2>2. IsFiniteSet(Gone') /\ Cardinality(Gone') \in Nat
    <3>1. Gone' \subseteq claimed' /\ claimed' \subseteq 1 .. NumMessages
      BY DEF Gone, Types, Messages
    <3>2. IsFiniteSet(1 .. NumMessages)
      BY Constants, FS_Interval
    <3>3. IsFiniteSet(Gone')
      BY <3>1, <3>2, FS_Subset
    <3>4. QED
      BY <3>3, FS_CardinalityType
  <2>3. QED
    BY <2>1, <2>2, GoneFinite
<1>3. \A e \in Replicas : e # d => OnHand(e)' = OnHand(e)
  BY OthersKeep DEF OnHand, At, Frame
<1>4. ASSUME NEW f \in H
      PROVE  /\ f \in G \cup OnHand(d)
             /\ f \notin Fr(reported') /\ f \notin OnHand(d)'
  <2>1. /\ f \in claimed' /\ f \notin Fr(reported') /\ \A e \in Replicas : f \notin OnHand(e)'
    BY <1>4 DEF Gone
  <2>2. f \in claimed /\ f \notin Fr(reported)
    BY <1>1, <2>1 DEF Drops
  <2>3. \A e \in Replicas : e # d => f \notin OnHand(e)
    BY <1>3, <2>1
  <2>4. f \in OnHand(d) \/ f \in G
    BY <2>2, <2>3 DEF Gone
  <2>5. QED
    BY <2>1, <2>4
<1>5. BatchSize \in Nat /\ t \in Nat
  BY Constants DEF Sound, Types
<1>6. CASE interruptions' + sinkFailures' = t /\ OnHand(d) \subseteq OnHand(d)' \cup Fr(reported')
  <2>1. H \subseteq G
    BY <1>4, <1>6
  <2> HIDE DEF G, H
  <2>2. Cardinality(H) <= Cardinality(G)
    BY <1>2, <2>1, FS_Subset
  <2> HIDE DEF t
  <2>3. Cardinality(H) <= BatchSize * t
    <3>1. Cardinality(G) <= BatchSize * t
      BY DEF G, t
    <3>2. BatchSize * t \in Nat
      BY <1>5
    <3> DEFINE x == BatchSize * t
    <3> HIDE DEF x
    <3>3. Cardinality(G) <= x /\ x \in Nat
      BY <3>1, <3>2 DEF x
    <3>4. Cardinality(H) <= x
      BY <1>2, <2>2, <3>3
    <3>5. QED
      BY <3>4 DEF x
  <2>4. QED
    BY <1>6, <2>3 DEF H
<1>7. CASE interruptions' + sinkFailures' = t + 1
  <2> DEFINE O == OnHand(d)
  <2>1. IsFiniteSet(O) /\ Cardinality(O) \in Nat /\ Cardinality(O) <= BatchSize
    BY OnHandCount
  <2>2. H \subseteq G \cup O
    BY <1>4
  <2> HIDE DEF G, H, O
  <2>3. /\ IsFiniteSet(G \cup O) /\ Cardinality(G \cup O) <= Cardinality(G) + Cardinality(O)
    <3>1. /\ IsFiniteSet(G \cup O) /\ IsFiniteSet(G \cap O)
          /\ Cardinality(G \cup O) = Cardinality(G) + Cardinality(O) - Cardinality(G \cap O)
      BY <1>2, <2>1, FS_Union, FS_Intersection
    <3>2. Cardinality(G \cap O) \in Nat /\ Cardinality(G \cup O) \in Nat
      BY <3>1, FS_CardinalityType
    <3>3. QED
      BY <1>2, <2>1, <3>1, <3>2
  <2>4. Cardinality(H) <= Cardinality(G \cup O) /\ Cardinality(G \cup O) \in Nat
    BY <2>2, <2>3, FS_Subset, FS_CardinalityType
  <2> HIDE DEF t
  <2> DEFINE x == BatchSize * t
             y == BatchSize * (t + 1)
  <2>5. x \in Nat /\ y = x + BatchSize
    BY <1>5, OneBatchMore
  <2>6. Cardinality(G) <= x
    BY DEF G, t
  <2> HIDE DEF x, y
  <2>7. Cardinality(H) <= y
    BY <1>2, <1>5, <2>1, <2>3, <2>4, <2>5, <2>6
  <2>8. QED
    BY <1>7, <2>7 DEF y, H
<1>8. QED
  BY <1>1, <1>6, <1>7 DEF Drops

\* The count of gone frames is paid for by failures.
LEMMA AccountedStep ==
    ASSUME Sound, NEW q, OneQueue(q), Accounted, [Next]_vars
    PROVE  Accounted'
<1>1. Types'
  BY Steps
<1>2. CASE UNCHANGED vars \/ \E p \in Partitions : PromoteStep(p)
  <2>1. UNCHANGED <<acked, shed, claimed, reported, sunk, flushing, flusher, pending, state, current,
                    interruptions, sinkFailures>>
    BY <1>2 DEF PromoteStep, vars, queueVars, loopVars, batchVars, redisVars, boundVars
  <2>2. Gone' = Gone
    <3>1. \A d \in Replicas : OnHand(d)' = OnHand(d)
      BY <2>1 DEF OnHand, Batch, At, Frame
    <3>2. QED
      BY <2>1, <3>1 DEF Gone
  <2>3. QED
    BY <2>1, <2>2 DEF Accounted
<1>3. ASSUME NEW d \in Replicas, ReplicaStep(d)
      PROVE  Accounted'
  <2>1. claimed \subseteq claimed' /\ Fr(reported) \subseteq Fr(reported')
    BY <1>1, <1>3, DropsStep DEF Drops
  <2>2. ASSUME NEW m \in acked' \ shed' PROVE FrameOf[m] \in claimed' \cup Fr(reported')
    <3>1. FrameOf[m] \in claimed \cup Fr(reported)
      <4>1. CASE m \in acked \ shed
        BY <4>1 DEF Accounted
      <4>2. CASE m \notin acked \ shed
        BY <1>1, <1>3, <2>2, <4>2, NewlyAcked DEF Accounted
      <4>3. QED
        BY <4>1, <4>2
    <3>2. QED
      BY <2>1, <3>1
  <2>3. ASSUME NEW e \in Replicas, sunk'[e] PROVE Fr(flushing'[e]) \subseteq Fr(reported')
    <3>1. CASE e = d
      BY <1>1, <1>3, <2>3, <3>1, SunkStep DEF Accounted
    <3>2. CASE e # d
      <4>1. sunk'[e] = sunk[e] /\ flushing'[e] = flushing[e]
        BY <1>3, <3>2, OthersKeep
      <4>2. QED
        BY <2>1, <2>3, <4>1 DEF Accounted
    <3>3. QED
      BY <3>1, <3>2
  <2>4. Cardinality(Gone') <= BatchSize * (interruptions' + sinkFailures')
    BY <1>1, <1>3, GoneStep DEF Accounted
  <2>5. QED
    BY <2>2, <2>3, <2>4 DEF Accounted, Fr
<1>4. QED
  BY <1>2, <1>3, Steps

\* A crash, a shutdown, a dead consume loop or a failed flush loses the results of at
\* most one batch, and nothing else loses any: for any number of replicas that share
\* one partition, and any sizes of the prefetch and the batch.
THEOREM LossIsBounded ==
    ASSUME NEW q, Partitions = {q}
    PROVE  Spec => []LossBounded
<1> DEFINE I == Sound /\ OneQueue(q) /\ Accounted
<1>1. Init => I
  BY SoundInit, OneQueueInit, AccountedInit
<1>2. I /\ [Next]_vars => I'
  BY SoundStep, OneQueueStep, AccountedStep
<1>3. I => LossBounded
  <2> SUFFICES ASSUME I PROVE Cardinality(Lost) <= BatchSize * (interruptions + sinkFailures)
    BY DEF LossBounded
  <2>1. Lost \subseteq Gone
    <3>1. SUFFICES ASSUME NEW f \in Lost PROVE f \in Gone
      OBVIOUS
    <3>2. PICK m \in acked \ shed : f = FrameOf[m]
      BY <3>1 DEF Lost
    <3>3. \A s \in Seq(Messages) : Fr(s) = {FrameOf[n] : n \in ToSet(s)}
      <4>1. ASSUME NEW s \in Seq(Messages) PROVE Fr(s) = {FrameOf[n] : n \in ToSet(s)}
        <5>1. \A x : x \in ToSet(s) <=> \E i \in 1 .. Len(s) : s[i] = x
          BY ToSetMembers
        <5>2. QED
          BY <5>1 DEF Fr
      <4>2. QED
        BY <4>1
    <3>4. f \notin Fr(reported)
      <4>1. f \notin {FrameOf[n] : n \in ToSet(reported)}
        BY <3>1 DEF Lost
      <4>2. reported \in Seq(Messages)
        BY DEF Sound, Types
      <4>3. QED
        BY <3>3, <4>1, <4>2
    <3>5. f \in claimed
      BY <3>2, <3>4 DEF Accounted
    <3>6. ASSUME NEW d \in Replicas PROVE f \notin OnHand(d)
      <4>1. f \notin InHand(d)
        BY <3>1 DEF Lost
      <4>2. /\ f \notin {FrameOf[n] : n \in ToSet(pending[d])}
            /\ f \notin {FrameOf[n] : n \in ToSet(flushing[d])}
            /\ f \notin At(d)
        BY <4>1 DEF InHand, At
      <4>3. pending[d] \in Seq(Messages) /\ flushing[d] \in Seq(Messages)
        BY DEF Sound, Types
      <4>4. f \notin Fr(pending[d]) /\ f \notin Fr(flushing[d])
        BY <3>3, <4>2, <4>3
      <4>6. f \notin Fr(<< >>)
        BY DEF Fr
      <4>5. QED
        BY <4>2, <4>4, <4>6 DEF OnHand, Batch
    <3>7. QED
      BY <3>4, <3>5, <3>6 DEF Gone
  <2>2. IsFiniteSet(Gone) /\ Cardinality(Gone) \in Nat
    BY GoneFinite DEF Sound
  <2>3. Cardinality(Lost) <= Cardinality(Gone) /\ Cardinality(Lost) \in Nat
    BY <2>1, <2>2, FS_Subset, FS_CardinalityType
  <2> DEFINE x == BatchSize * (interruptions + sinkFailures)
  <2>4. Cardinality(Gone) <= x
    BY DEF Accounted
  <2>5. x \in Nat
    <3>1. BatchSize \in Nat /\ interruptions + sinkFailures \in Nat
      BY Constants DEF Sound, Types
    <3>2. QED
      BY <3>1, OneBatchMore
  <2> HIDE DEF x
  <2>6. Cardinality(Lost) <= x
    BY <2>2, <2>3, <2>4, <2>5
  <2>7. QED
    BY <2>6 DEF x
<1>4. QED
  BY <1>1, <1>2, <1>3, PTL DEF Spec
-----------------------------------------------------------------------------
(* frames_processed and what the next service has received.                *)

\* The sum of f over the replicas, as the number of units in it.
Units(f) == {x \in Replicas \X (1 .. BatchSize) : x[2] <= f[x[1]]}
Total(f) == Cardinality(Units(f))
Shares == [Replicas -> 0 .. BatchSize]

\* Sums over the replicas are sums: what one replica adds, the total adds.
LEMMA TotalChange ==
    ASSUME NEW f \in Shares, NEW g \in Shares, NEW d \in Replicas,
           \A e \in Replicas : e # d => g[e] = f[e]
    PROVE  \E r \in Nat : Total(f) = r + f[d] /\ Total(g) = r + g[d]
<1> DEFINE R == {x \in Replicas \X (1 .. BatchSize) : x[1] # d /\ x[2] <= f[x[1]]}
           M(h) == {d} \X (1 .. h[d])
<1>1. BatchSize \in Nat
  BY Constants
<1>2. IsFiniteSet(R) /\ Cardinality(R) \in Nat
  <2>1. IsFiniteSet(Replicas) /\ IsFiniteSet(1 .. BatchSize)
    BY <1>1, ReplicasAssumption, FS_Interval
  <2>2. IsFiniteSet(Replicas \X (1 .. BatchSize))
    BY <2>1, FS_Product
  <2>3. R \subseteq Replicas \X (1 .. BatchSize)
    OBVIOUS
  <2>4. QED
    BY <2>2, <2>3, FS_Subset, FS_CardinalityType
<1>3. ASSUME NEW h \in Shares, \A e \in Replicas : e # d => h[e] = f[e]
      PROVE  Total(h) = Cardinality(R) + h[d]
  <2>1. h[d] \in Nat /\ h[d] <= BatchSize
    BY <1>1, <1>3 DEF Shares
  <2>2. Units(h) = R \cup M(h)
    <3>1. ASSUME NEW x \in Units(h) PROVE x \in R \cup M(h)
      BY <1>3, <2>1, <3>1 DEF Units
    <3>2. ASSUME NEW x \in R PROVE x \in Units(h)
      BY <1>3, <3>2 DEF Units
    <3>3. ASSUME NEW x \in M(h) PROVE x \in Units(h)
      <4>1. x[1] = d /\ x[2] \in 1 .. h[d] /\ x = <<x[1], x[2]>>
        BY <3>3
      <4>2. x[2] \in 1 .. BatchSize /\ x[2] <= h[d]
        BY <1>1, <2>1, <4>1
      <4>3. QED
        BY <4>1, <4>2 DEF Units
    <3>4. QED
      BY <3>1, <3>2, <3>3
  <2>3. R \cap M(h) = {}
    OBVIOUS
  <2>4. IsFiniteSet(M(h)) /\ Cardinality(M(h)) = h[d]
    <3>1. IsFiniteSet({d}) /\ Cardinality({d}) = 1
      BY FS_Singleton
    <3>2. IsFiniteSet(1 .. h[d]) /\ Cardinality(1 .. h[d]) = h[d]
      BY <2>1, CountUpTo
    <3>3. /\ IsFiniteSet({d} \X (1 .. h[d]))
          /\ Cardinality({d} \X (1 .. h[d])) = Cardinality({d}) * Cardinality(1 .. h[d])
      <4>1. IsFiniteSet({d}) /\ IsFiniteSet(1 .. h[d])
        BY <3>1, <3>2
      <4>2. QED
        BY <4>1, FS_Product, Zenon
    <3>4. Cardinality({d}) * Cardinality(1 .. h[d]) = h[d]
      BY <2>1, <3>1, <3>2
    <3>5. QED
      BY <3>3, <3>4
  <2> HIDE DEF R, M
  <2>5. Cardinality(R \cup M(h)) = Cardinality(R) + Cardinality(M(h)) - Cardinality(R \cap M(h))
    BY <1>2, <2>4, FS_Union
  <2>6. Cardinality(R \cap M(h)) = 0
    BY <2>3, FS_EmptySet
  <2>7. QED
    BY <1>2, <2>1, <2>2, <2>4, <2>5, <2>6 DEF Total
<1> HIDE DEF R
<1>4. Total(f) = Cardinality(R) + f[d] /\ Total(g) = Cardinality(R) + g[d]
  BY <1>3
<1>5. QED
  BY <1>2, <1>4

\* The sum of nothing.
LEMMA TotalZero ==
    ASSUME NEW f \in Shares, \A d \in Replicas : f[d] = 0
    PROVE  Total(f) = 0
<1>1. Units(f) = {}
  BY Constants DEF Units
<1>2. QED
  BY <1>1, FS_EmptySet DEF Total

\* Totals are naturals.
LEMMA TotalType ==
    ASSUME NEW f \in Shares
    PROVE  Total(f) \in Nat
<1>1. PICK d \in Replicas : TRUE
  BY ReplicasAssumption
<1>2. PICK r \in Nat : Total(f) = r + f[d]
  BY TotalChange
<1>3. f[d] \in Nat
  BY Constants DEF Shares
<1>4. QED
  BY <1>2, <1>3

\* Results that reached the batcher and are not counted yet; results not reported yet.
Uncounted == [d \in Replicas |-> IF state[d] \in {"flushing", "counting"} THEN 1 ELSE 0]
Unreported == [d \in Replicas |-> Len(Batch(d))]

\* Both have a bound, so that their sums are finite.
LEMMA SharesType ==
    ASSUME Sound
    PROVE  Uncounted \in Shares /\ Unreported \in Shares
<1>1. BatchSize \in Nat /\ BatchSize > 0
  BY Constants
<1>2. ASSUME NEW d \in Replicas PROVE Len(Batch(d)) \in 0 .. BatchSize
  <2>1. /\ Len(pending[d]) \in Nat /\ Len(flushing[d]) \in Nat /\ Len(<< >>) = 0
    BY DEF Sound, Types
  <2>2. Len(pending[d]) < BatchSize /\ Len(flushing[d]) <= BatchSize
    BY DEF Sound, Local
  <2>3. QED
    BY <1>1, <2>1, <2>2 DEF Batch
<1>3. Unreported \in Shares
  BY <1>2 DEF Unreported, Shares
<1>4. ASSUME NEW d \in Replicas PROVE (IF state[d] \in {"flushing", "counting"} THEN 1 ELSE 0) \in 0 .. BatchSize
  BY <1>1
<1>5. Uncounted \in Shares
  BY <1>4 DEF Uncounted, Shares
<1>6. QED
  BY <1>3, <1>5

\* Every result that reaches a batcher is counted once and reported once, but for one
\* batch for each interruption or failed flush and one count for each interruption.
Counted ==
    /\ processed + Total(Uncounted) <=
         Len(reported) + Total(Unreported) + BatchSize * (interruptions + sinkFailures)
    /\ Len(reported) + Total(Unreported) <= processed + Total(Uncounted) + interruptions

\* What a step of a replica adds to the results counted, or in line for it (c), and to
\* the results reported or in line for it (r).
Tallied(c0, c1, r0, r1) ==
    \/ /\ c1 = c0 /\ r1 = r0 /\ UNCHANGED <<interruptions, sinkFailures>>
    \/ /\ c1 = c0 + 1 /\ r1 = r0 + 1 /\ UNCHANGED <<interruptions, sinkFailures>>
    \/ /\ c1 = c0 /\ r1 <= r0 /\ r0 <= r1 + BatchSize
       /\ sinkFailures' = sinkFailures + 1 /\ UNCHANGED interruptions
    \/ /\ c1 <= c0 /\ c0 <= c1 + 1 /\ r1 <= r0 /\ r0 <= r1 + BatchSize
       /\ interruptions' = interruptions + 1 /\ UNCHANGED sinkFailures

Tally(d) ==
    Tallied(processed + Uncounted[d], processed' + Uncounted'[d],
            Len(reported) + Len(Batch(d)), Len(reported') + Len(Batch(d)'))

\* A flush that is cut short loses its batch or not, and at most one count.
LEMMA AbandonedTally ==
    ASSUME Sound, Types', NEW d \in Replicas, AbandonedAt(d), pending'[d] \in {pending[d], << >>},
           interruptions' = interruptions + 1, UNCHANGED sinkFailures,
           processed' + Uncounted'[d] \in {processed + Uncounted[d], (processed + Uncounted[d]) - 1}
    PROVE  Tally(d)
<1>1. /\ flusher'[d] = "none" /\ sunk'[d] = FALSE
      /\ reported' = reported \/ (~sunk[d] /\ reported' = reported \o flushing[d])
  BY DEF AbandonedAt
<1>2. Batch(d)' = pending'[d]
  BY <1>1 DEF Batch
<1>3. /\ reported \in Seq(Messages) /\ pending[d] \in Seq(Messages) /\ flushing[d] \in Seq(Messages)
      /\ processed \in Nat /\ Uncounted[d] \in {0, 1} /\ Len(<< >>) = 0
      /\ reported \o << >> = reported
  BY DEF Sound, Types, Uncounted
<1>4. /\ Len(reported) \in Nat /\ Len(Batch(d)) \in 0 .. BatchSize /\ BatchSize \in Nat
      /\ Len(reported \o flushing[d]) = Len(reported) + Len(flushing[d])
  <2>1. Len(Batch(d)) \in 0 .. BatchSize
    BY SharesType DEF Unreported, Shares
  <2>2. QED
    BY <1>3, <2>1, Constants
<1>5. /\ Len(reported') + Len(Batch(d)') <= Len(reported) + Len(Batch(d))
      /\ Len(reported) + Len(Batch(d)) <= (Len(reported') + Len(Batch(d)')) + BatchSize
  <2>1. CASE flusher[d] = "none"
    <3>1. Batch(d) = pending[d] /\ flushing[d] = << >>
      BY <2>1 DEF Sound, Local, Batch
    <3>2. reported' = reported
      BY <1>1, <1>3, <3>1
    <3>3. Len(Batch(d)') \in {Len(Batch(d)), 0}
      BY <1>2, <1>3, <3>1
    <3>4. QED
      BY <1>4, <3>2, <3>3
  <2>2. CASE flusher[d] # "none"
    <3>1. pending[d] = << >> /\ (sunk[d] => Batch(d) = << >>) /\ (~sunk[d] => Batch(d) = flushing[d])
      BY <2>2 DEF Sound, Local, Batch
    <3>2. Len(Batch(d)') = 0
      BY <1>2, <1>3, <3>1
    <3>3. Len(reported') = Len(reported) \/ Len(reported') = Len(reported) + Len(Batch(d))
      BY <1>1, <1>4, <3>1
    <3>4. QED
      BY <1>4, <3>2, <3>3
  <2>3. QED
    BY <2>1, <2>2
<1>6. /\ processed' + Uncounted'[d] <= processed + Uncounted[d]
      /\ processed + Uncounted[d] <= (processed' + Uncounted'[d]) + 1
  BY <1>3
<1>7. QED
  BY <1>5, <1>6 DEF Tally, Tallied

\* Each step of a replica keeps the two tallies together, but for what it may lose.
LEMMA TallyStep ==
    ASSUME Sound, Types', NEW d \in Replicas, ReplicaStep(d)
    PROVE  Tally(d)
<1>1. /\ reported \in Seq(Messages) /\ pending[d] \in Seq(Messages) /\ flushing[d] \in Seq(Messages)
      /\ processed \in Nat /\ processed' \in Nat /\ Len(<< >>) = 0 /\ sunk[d] \in BOOLEAN
      /\ Len(reported) \in Nat /\ Batch(d) \in Seq(Messages) /\ Len(Batch(d)) \in Nat
      /\ state[d] \in States
  BY BatchType DEF Sound, Types
<1>2. /\ Uncounted[d] = IF state[d] \in {"flushing", "counting"} THEN 1 ELSE 0
      /\ Uncounted'[d] = IF state'[d] \in {"flushing", "counting"} THEN 1 ELSE 0
  BY DEF Uncounted
<1>3. ASSUME SameBatch(d), UNCHANGED <<reported, interruptions, sinkFailures>>,
             processed' + Uncounted'[d] = processed + Uncounted[d]
      PROVE  Tally(d)
  <2>1. Batch(d)' = Batch(d)
    BY <1>3 DEF SameBatch, Batch
  <2>2. QED
    BY <1>3, <2>1 DEF Tally, Tallied
<1>4. CASE (\E p \in Partitions : DeliverStep(d, p) \/ TakeStep(d, p)) \/ SettleStep(d)
            \/ LoopStep(d) \/ RestartStep(d)
  <2>1. SameBatch(d) /\ UNCHANGED <<reported, interruptions, sinkFailures>>
    BY <1>4 DEF DeliverStep, TakeStep, SettleStep, LoopStep, RestartStep, boundVars
  <2>2. \/ processed' = processed /\ Uncounted'[d] = Uncounted[d]
        \/ processed' = processed + 1 /\ Uncounted[d] = 1 /\ Uncounted'[d] = 0
    BY <1>2, <1>4 DEF DeliverStep, TakeStep, SettleStep, LoopStep, RestartStep, SameLoop, redisVars
  <2>3. processed' + Uncounted'[d] = processed + Uncounted[d]
    BY <1>1, <1>2, <2>2
  <2>4. QED
    BY <1>3, <2>1, <2>3
<1>5. ASSUME state[d] = "adding", state'[d] \in {"flushing", "counting"},
             Batch(d)' = Append(Batch(d), current[d]), current[d] \in Messages,
             UNCHANGED <<processed, reported, interruptions, sinkFailures>>
      PROVE  Tally(d)
  <2>1. Len(Batch(d)') = Len(Batch(d)) + 1
    BY <1>1, <1>5
  <2>2. processed' + Uncounted'[d] = (processed + Uncounted[d]) + 1
    BY <1>1, <1>2, <1>5
  <2>3. Len(reported') + Len(Batch(d)') = (Len(reported) + Len(Batch(d))) + 1
    BY <1>1, <1>5, <2>1
  <2>4. QED
    BY <1>5, <2>2, <2>3 DEF Tally, Tallied
<1>6. CASE AddStep(d)
  <2>1. current[d] \in Messages
    BY <1>6, Constants DEF AddStep, Sound, Types, Local
  <2>2. /\ flusher[d] = "none" /\ flusher'[d] = "none" /\ sunk[d] = FALSE /\ sunk'[d] = FALSE
        /\ pending'[d] = Append(pending[d], current[d])
    BY <1>1, <1>6 DEF AddStep, Sound, Local
  <2>3. Batch(d)' = Append(Batch(d), current[d])
    BY <2>2 DEF Batch
  <2>4. /\ state[d] = "adding" /\ state'[d] = "counting"
        /\ UNCHANGED <<processed, reported, interruptions, sinkFailures>>
    BY <1>6 DEF AddStep, redisVars, boundVars
  <2>5. QED
    BY <1>5, <2>1, <2>3, <2>4
<1>7. CASE SwapStep(d)
  <2>1. /\ flusher[d] = "none" /\ flusher'[d] # "none" /\ sunk[d] = FALSE /\ sunk'[d] = FALSE
        /\ UNCHANGED <<processed, reported, interruptions, sinkFailures>>
    BY <1>1, <1>7 DEF SwapStep, Sound, Local, redisVars, boundVars
  <2>2. Batch(d) = pending[d] /\ Batch(d)' = flushing'[d]
    BY <2>1 DEF Batch
  <2>3. CASE flushing'[d] = pending[d] /\ SameLoop(d)
    <3>1. processed' + Uncounted'[d] = processed + Uncounted[d]
      BY <1>2, <2>1, <2>3 DEF SameLoop
    <3>2. QED
      BY <2>1, <2>2, <2>3, <3>1 DEF Tally, Tallied
  <2>4. CASE state[d] = "adding" /\ flushing'[d] = Append(pending[d], current[d]) /\ state'[d] = "flushing"
    <3>1. current[d] \in Messages
      BY <2>4, Constants DEF Sound, Types, Local
    <3>2. QED
      BY <1>5, <2>1, <2>2, <2>4, <3>1
  <2>5. QED
    BY <1>7, <2>3, <2>4 DEF SwapStep
<1>8. CASE AcceptStep(d)
  <2>1. /\ Batch(d) = flushing[d] /\ Batch(d)' = << >> /\ reported' = reported \o flushing[d]
        /\ UNCHANGED <<processed, interruptions, sinkFailures>> /\ state'[d] = state[d]
    BY <1>8 DEF AcceptStep, Batch, redisVars, boundVars, SameLoop
  <2>2. Len(reported') + Len(Batch(d)') = Len(reported) + Len(Batch(d))
    BY <1>1, <2>1
  <2>3. processed' + Uncounted'[d] = processed + Uncounted[d]
    BY <1>2, <2>1
  <2>4. QED
    BY <2>1, <2>2, <2>3 DEF Tally, Tallied
<1>9. CASE ReleaseStep(d)
  <2>1. /\ flusher[d] # "none" /\ flusher'[d] = "none" /\ pending'[d] = << >> /\ sunk'[d] = FALSE
        /\ UNCHANGED <<processed, interruptions>>
        /\ state'[d] = IF flusher[d] = "worker" THEN "counting" ELSE state[d]
        /\ (flusher[d] = "worker" <=> state[d] = "flushing")
    BY <1>9 DEF ReleaseStep, Sound, Local, redisVars
  <2>2. Batch(d)' = << >>
    BY <2>1 DEF Batch
  <2>3. processed' + Uncounted'[d] = processed + Uncounted[d]
    BY <1>2, <2>1
  <2>4. CASE sunk[d]
    <3>1. Batch(d) = << >> /\ reported' = reported /\ sinkFailures' = sinkFailures
      BY <2>4, <1>9 DEF Batch, ReleaseStep
    <3>2. QED
      BY <2>1, <2>2, <2>3, <3>1 DEF Tally, Tallied
  <2>5. CASE ~sunk[d]
    <3>1. /\ Batch(d) = flushing[d] /\ reported' \in {reported, reported \o flushing[d]}
          /\ sinkFailures' = sinkFailures + 1
      BY <1>9, <2>1, <2>5 DEF Batch, ReleaseStep
    <3>2. Len(flushing[d]) <= BatchSize /\ BatchSize \in Nat
      BY Constants DEF Sound, Local
    <3>3. /\ Len(reported') + Len(Batch(d)') <= Len(reported) + Len(Batch(d))
          /\ Len(reported) + Len(Batch(d)) <= (Len(reported') + Len(Batch(d)')) + BatchSize
      BY <1>1, <2>2, <3>1, <3>2
    <3>4. QED
      BY <2>1, <2>3, <3>1, <3>3 DEF Tally, Tallied
  <2>6. QED
    BY <2>4, <2>5
<1>10. CASE LoopDiesStep(d)
  <2>1. /\ state[d] = "counting" /\ state'[d] = "stopping" /\ processed' \in {processed, processed + 1}
        /\ AbandonedAt(d) /\ pending'[d] = pending[d] /\ interruptions' = interruptions + 1
        /\ UNCHANGED sinkFailures
    BY <1>10 DEF LoopDiesStep
  <2>2. processed' + Uncounted'[d] \in {processed + Uncounted[d], (processed + Uncounted[d]) - 1}
    BY <1>1, <1>2, <2>1
  <2>3. QED
    BY <2>1, <2>2, AbandonedTally
<1>11. CASE LeaveStep(d)
  <2>1. CASE /\ AbandonedAt(d) /\ pending'[d] \in {pending[d], << >>}
             /\ interruptions' = interruptions + 1 /\ state'[d] \in {"stopping", "down"}
    <3>1. processed' = processed /\ sinkFailures' = sinkFailures
      BY <1>11 DEF LeaveStep, redisVars
    <3>2. processed' + Uncounted'[d] \in {processed + Uncounted[d], (processed + Uncounted[d]) - 1}
      BY <1>1, <1>2, <2>1, <3>1
    <3>3. QED
      BY <2>1, <3>1, <3>2, AbandonedTally
  <2>2. CASE state[d] = "stopping" /\ state'[d] = "down" /\ SameBatch(d) /\ UNCHANGED <<reported, interruptions>>
    <3>1. processed' = processed /\ sinkFailures' = sinkFailures
      BY <1>11 DEF LeaveStep, redisVars
    <3>2. processed' + Uncounted'[d] = processed + Uncounted[d]
      BY <1>1, <1>2, <2>2, <3>1
    <3>3. QED
      BY <1>3, <2>2, <3>1, <3>2
  <2>3. QED
    BY <1>11, <2>1, <2>2 DEF LeaveStep
<1>12. QED
  BY <1>4, <1>6, <1>7, <1>8, <1>9, <1>10, <1>11 DEF ReplicaStep

\* At first nothing is counted or reported.
LEMMA CountedInit == Sound /\ Init => Counted
<1> SUFFICES ASSUME Sound, Init PROVE Counted
  OBVIOUS
<1>1. /\ processed = 0 /\ reported = << >> /\ interruptions = 0 /\ sinkFailures = 0
      /\ \A d \in Replicas : state[d] = "idle" /\ Batch(d) = << >>
  BY DEF Init, Batch
<1>2. \A d \in Replicas : Uncounted[d] = 0 /\ Unreported[d] = 0
  BY <1>1 DEF Uncounted, Unreported
<1>3. Total(Uncounted) = 0 /\ Total(Unreported) = 0
  BY <1>2, SharesType, TotalZero
<1>4. BatchSize * (0 + 0) = 0 /\ Len(<< >>) = 0
  BY Constants
<1>5. QED
  BY <1>1, <1>3, <1>4 DEF Counted

\* The same with the bound of the first total, and the batch it grows by.
Settled(p, c, p1, c1, l, m, l1, m1, x, y, i, j) ==
    \/ p1 + c1 = p + c /\ l1 + m1 = l + m /\ y = x /\ j = i
    \/ p1 + c1 = p + c + 1 /\ l1 + m1 = l + m + 1 /\ y = x /\ j = i
    \/ /\ p1 + c1 = p + c /\ l1 + m1 <= l + m /\ l + m <= l1 + m1 + BatchSize
       /\ y = x + BatchSize /\ j = i
    \/ /\ p1 + c1 <= p + c /\ p + c <= p1 + c1 + 1
       /\ l1 + m1 <= l + m /\ l + m <= l1 + m1 + BatchSize
       /\ y = x + BatchSize /\ j = i + 1

\* The two totals, of one replica and of the others.
Together(p, u, c, l, n, m, x, i) ==
    p + (u + c) <= l + (n + m) + x /\ l + (n + m) <= p + (u + c) + i

\* The two totals stay together, whatever step is taken.
LEMMA CountedStep == Sound /\ Sound' /\ Counted /\ [Next]_vars => Counted'
<1> SUFFICES ASSUME Sound, Sound', Counted, [Next]_vars PROVE Counted'
  OBVIOUS
<1>1. /\ Types' /\ Uncounted \in Shares /\ Unreported \in Shares
      /\ Uncounted' \in Shares /\ Unreported' \in Shares
  <2>1. Uncounted' \in Shares /\ Unreported' \in Shares
    <3>1. (Uncounted \in Shares /\ Unreported \in Shares)'
      BY SharesType, PTL
    <3>2. QED
      BY <3>1 DEF Shares
  <2>2. QED
    BY <2>1, SharesType DEF Sound
<1>2. SUFFICES
        /\ processed' + Total(Uncounted') <=
             Len(reported') + Total(Unreported') + BatchSize * (interruptions' + sinkFailures')
        /\ Len(reported') + Total(Unreported') <= processed' + Total(Uncounted') + interruptions'
  BY DEF Counted, Total, Units
<1>3. CASE UNCHANGED vars \/ \E p \in Partitions : PromoteStep(p)
  <2>1. UNCHANGED <<processed, reported, state, pending, flushing, flusher, sunk,
                    interruptions, sinkFailures>>
    BY <1>3 DEF PromoteStep, vars, loopVars, batchVars, redisVars, boundVars
  <2>2. Uncounted' = Uncounted /\ Unreported' = Unreported
    BY <2>1 DEF Uncounted, Unreported, Batch
  <2>3. QED
    BY <2>1, <2>2 DEF Counted
<1>4. ASSUME NEW d \in Replicas, ReplicaStep(d)
      PROVE  /\ processed' + Total(Uncounted') <=
                  Len(reported') + Total(Unreported') + BatchSize * (interruptions' + sinkFailures')
             /\ Len(reported') + Total(Unreported') <= processed' + Total(Uncounted') + interruptions'
  <2>1. Tally(d)
    BY <1>1, <1>4, TallyStep
  <2>2. \A e \in Replicas : e # d => Uncounted'[e] = Uncounted[e] /\ Unreported'[e] = Unreported[e]
    <3>1. ASSUME NEW e \in Replicas, e # d
          PROVE  Batch(e)' = Batch(e) /\ state'[e] = state[e]
      BY <1>4, <3>1, OthersKeep
    <3>2. QED
      BY <3>1 DEF Uncounted, Unreported
  <2>3. PICK u \in Nat : Total(Uncounted) = u + Uncounted[d] /\ Total(Uncounted') = u + Uncounted'[d]
    BY <1>1, <2>2, TotalChange
  <2>4. PICK n \in Nat : Total(Unreported) = n + Unreported[d] /\ Total(Unreported') = n + Unreported'[d]
    BY <1>1, <2>2, TotalChange
  <2>5. Unreported[d] = Len(Batch(d)) /\ Unreported'[d] = Len(Batch(d)')
    BY DEF Unreported
  <2> DEFINE t == interruptions + sinkFailures
             x == BatchSize * t
             y == BatchSize * (interruptions' + sinkFailures')
             N == Unreported[d]
             M == Unreported'[d]
             C == Uncounted[d]
             D == Uncounted'[d]
  <2>6. /\ processed \in Nat /\ processed' \in Nat /\ interruptions \in Nat /\ sinkFailures \in Nat
        /\ Len(reported) \in Nat /\ Len(reported') \in Nat /\ BatchSize \in Nat
        /\ interruptions' \in Nat
    BY <1>1, Constants DEF Sound, Types
  <2>7. C \in Nat /\ D \in Nat /\ N \in Nat /\ M \in Nat
    BY <1>1, <2>6 DEF Shares
  <2>8. Tallied(processed + C, processed' + D, Len(reported) + N, Len(reported') + M)
    BY <2>1, <2>5 DEF Tally
  <2>9. x \in Nat /\ (interruptions' + sinkFailures' = t => y = x)
        /\ (interruptions' + sinkFailures' = t + 1 => y = x + BatchSize)
    BY <2>6, OneBatchMore
  <2>10. Together(processed, u, C, Len(reported), n, N, x, interruptions)
    BY <2>3, <2>4 DEF Counted, Together
  <2> HIDE DEF x, y, N, M, C, D
  <2>11. /\ y \in Nat
         /\ \/ y = x /\ interruptions' = interruptions
            \/ y = x + BatchSize /\ interruptions' = interruptions
            \/ y = x + BatchSize /\ interruptions' = interruptions + 1
    <3>1. \/ interruptions' + sinkFailures' = t /\ interruptions' = interruptions
          \/ interruptions' + sinkFailures' = t + 1 /\ interruptions' = interruptions
          \/ interruptions' + sinkFailures' = t + 1 /\ interruptions' = interruptions + 1
      BY <2>6, <2>8 DEF Tallied
    <3>2. x + BatchSize \in Nat
      BY <2>6, <2>9
    <3>3. QED
      BY <2>9, <3>1, <3>2
  <2>12. Settled(processed, C, processed', D, Len(reported), N, Len(reported'), M, x, y,
                 interruptions, interruptions')
    <3>1. CASE UNCHANGED <<interruptions, sinkFailures>>
      <4>1. y = x
        BY <2>9, <3>1
      <4>2. \/ /\ processed' + D = processed + C
               /\ Len(reported') + M = Len(reported) + N
            \/ /\ processed' + D = processed + C + 1
               /\ Len(reported') + M = Len(reported) + N + 1
        BY <2>6, <2>8, <3>1 DEF Tallied
      <4>3. QED
        BY <3>1, <4>1, <4>2 DEF Settled
    <3>2. CASE sinkFailures' = sinkFailures + 1 /\ interruptions' = interruptions
      <4>1. y = x + BatchSize
        BY <2>6, <2>9, <3>2
      <4>2. /\ processed' + D = processed + C /\ Len(reported') + M <= Len(reported) + N
            /\ Len(reported) + N <= Len(reported') + M + BatchSize
        BY <2>6, <2>8, <3>2 DEF Tallied
      <4>3. QED
        BY <3>2, <4>1, <4>2 DEF Settled
    <3>3. CASE interruptions' = interruptions + 1 /\ sinkFailures' = sinkFailures
      <4>1. y = x + BatchSize
        BY <2>6, <2>9, <3>3
      <4>2. /\ processed' + D <= processed + C /\ processed + C <= processed' + D + 1
            /\ Len(reported') + M <= Len(reported) + N
            /\ Len(reported) + N <= Len(reported') + M + BatchSize
        BY <2>6, <2>8, <3>3 DEF Tallied
      <4>3. QED
        BY <3>3, <4>1, <4>2 DEF Settled
    <3>4. QED
      BY <2>8, <3>1, <3>2, <3>3 DEF Tallied
  <2>13. Together(processed', u, D, Len(reported'), n, M, y, interruptions')
    <3>1. u \in Nat /\ n \in Nat
      BY <2>3, <2>4
    <3>2. interruptions \in Nat /\ interruptions' \in Nat /\ x \in Nat /\ y \in Nat
      BY <2>6, <2>9, <2>11
    <3>3. processed \in Nat /\ processed' \in Nat /\ Len(reported) \in Nat /\ Len(reported') \in Nat
      BY <2>6
    <3>4. QED
      <4>1. PICK p \in Nat, p1 \in Nat, l \in Nat, l1 \in Nat :
              p = processed /\ p1 = processed' /\ l = Len(reported) /\ l1 = Len(reported')
        BY <3>3
      <4>2. PICK c \in Nat, c1 \in Nat, m \in Nat, m1 \in Nat : c = C /\ c1 = D /\ m = N /\ m1 = M
        BY <2>7
      <4>3. PICK a \in Nat, b \in Nat, i \in Nat, j \in Nat :
              a = x /\ b = y /\ i = interruptions /\ j = interruptions'
        BY <3>2
      <4>4. Settled(p, c, p1, c1, l, m, l1, m1, a, b, i, j)
        BY <2>12, <4>1, <4>2, <4>3
      <4>5. Together(p, u, c, l, n, m, a, i)
        BY <2>10, <4>1, <4>2, <4>3
      <4>6. Together(p1, u, c1, l1, n, m1, b, j)
        BY <4>4, <4>5, Constants DEF Settled, Together
      <4>7. QED
        BY <4>1, <4>2, <4>3, <4>6
  <2>14. QED
    BY <2>3, <2>4, <2>13 DEF Together, y, N, M, C, D
<1>5. QED
  BY <1>3, <1>4, Steps

\* Once its queue is drained an idle replica has nothing left to report.
LEMMA DrainedIsReported ==
    ASSUME Sound, NEW q, OneQueue(q), Drained
    PROVE  \A d \in Replicas : Uncounted[d] = 0 /\ Unreported[d] = 0
<1> SUFFICES ASSUME NEW d \in Replicas PROVE Uncounted[d] = 0 /\ Unreported[d] = 0
  OBVIOUS
<1>1. state[d] = "idle" /\ acked \cup dead = Messages
  BY DEF Drained
<1>2. connected[d]
  BY <1>1 DEF Sound, Local
<1>3. /\ unacked[d] \in Seq(Messages) /\ Hold(d) \in Seq(Messages)
      /\ current[d] \in Messages \cup {None} /\ fetched[d][q] \in Seq(Messages)
  <2>1. q \in Partitions
    BY DEF OneQueue
  <2>2. /\ unacked[d] \in Seq(Messages) /\ current[d] \in Messages \cup {None}
        /\ fetched[d][q] \in Seq(Messages)
    BY <2>1 DEF Sound, Types
  <2>3. flushing[d] \in Seq(Messages) /\ pending[d] \in Seq(Messages)
    BY DEF Sound, Types
  <2>4. QED
    BY <2>2, <2>3 DEF Hold
<1>4. LinedUp(unacked[d], Hold(d), current[d], fetched[d][q])
  <2>1. Lined(unacked[d], Hold(d), current[d], fetched[d][q])
    BY <1>1, <1>2 DEF OneQueue, Aligned
  <2>2. QED
    BY <1>3, <2>1 DEF LinedUp
<1>5. ToSet(Hold(d)) \subseteq ToSet(unacked[d])
  <2>1. ToSet(unacked[d]) = ToSet(fetched[d][q]) \cup ToSet(Hold(d)) \cup ({current[d]} \ {None})
    BY <1>4, LinedMembers
  <2>2. QED
    BY <2>1
<1>6. ToSet(unacked[d]) \subseteq Messages /\ ToSet(unacked[d]) \cap (acked \cup dead) = {}
  <2>1. ToSet(unacked[d]) \cap (acked \cup dead) = {}
    BY DEF OneQueue, Placed
  <2>2. QED
    BY <1>3, <2>1, ToSetMembers
<1>7. ToSet(Hold(d)) = {}
  BY <1>1, <1>5, <1>6
<1>8. Hold(d) = << >>
  <2>1. \A x : x \in ToSet(Hold(d)) <=> \E i \in 1 .. Len(Hold(d)) : Hold(d)[i] = x
    BY <1>3, ToSetMembers
  <2>2. \A i \in 1 .. Len(Hold(d)) : FALSE
    BY <1>7, <2>1
  <2>3. Len(Hold(d)) \in Nat
    BY <1>3
  <2>4. Len(Hold(d)) = 0
    <3>1. Len(Hold(d)) > 0 => 1 \in 1 .. Len(Hold(d))
      BY <2>3
    <3>2. QED
      BY <2>2, <2>3, <3>1
  <2>5. QED
    BY <1>3, <2>4
<1>9. Batch(d) = << >>
  BY <1>8 DEF Batch, Hold
<1>10. QED
  BY <1>1, <1>9 DEF Uncounted, Unreported

\* frames_processed and the results received part by no more than one batch for each
\* interruption or failed flush, and one frame for each interruption, for any number of
\* replicas that share one partition; equal if there is neither.
THEOREM DriftIsBounded ==
    ASSUME NEW q, Partitions = {q}
    PROVE  Spec => []CounterDrift
<1> DEFINE I == Sound /\ OneQueue(q) /\ Counted
<1>1. Init => I
  BY SoundInit, OneQueueInit, CountedInit
<1>2. I /\ [Next]_vars => I'
  BY SoundStep, OneQueueStep, CountedStep
<1>3. I => CounterDrift
  <2> SUFFICES ASSUME I, Drained
               PROVE  /\ processed <= Len(reported) + BatchSize * (interruptions + sinkFailures)
                      /\ Len(reported) <= processed + interruptions
    BY DEF CounterDrift
  <2>1. Total(Uncounted) = 0 /\ Total(Unreported) = 0
    BY DrainedIsReported, SharesType, TotalZero
  <2>2. processed \in Nat /\ Len(reported) \in Nat
    BY DEF Sound, Types
  <2>3. processed + 0 = processed /\ Len(reported) + 0 = Len(reported)
    BY <2>2
  <2>4. QED
    BY <2>1, <2>3 DEF Counted
<1>4. QED
  BY <1>1, <1>2, <1>3, PTL DEF Spec
-----------------------------------------------------------------------------
(* The order of a partition.  A message that was never handed back was      *)
(* delivered when all that is older had been, and all that was delivered    *)
(* after it is younger.                                                     *)

\* What comes later in s is younger, or had gone back to its queue.
InOrder(s, r) == \A i, j \in 1 .. Len(s) : (i < j /\ s[j] < s[i]) => s[j] \in r

\* The members of s are no younger than those of M that have not gone back.
Behind(M, s, r) == \A m \in M \ r, n \in ToSet(s) : n <= m

\* What was never delivered, and what a replica has not reported yet.
Fresh(q) == ready[q] \ redelivered
AtHand(d, q) == ({current[d]} \ {None}) \cup ToSet(fetched[d][q])
Rest(d, q) == ToSet(Batch(d)) \cup AtHand(d, q)

Ranked(d, q) ==
    /\ ToSet(Batch(d)) \cap Fresh(q) = {}
    /\ unacked[d] # << >> => active[q] = d
    /\ InOrder(unacked[d], redelivered)
    /\ ~connected[d] => ToSet(Batch(d)) \subseteq redelivered
    /\ Behind(Rest(d, q), reported, redelivered)
    /\ \A e \in Replicas : e # d => Behind(Rest(d, q), Batch(e), redelivered)

Queued(q) == \A m \in Fresh(q), n \in Messages \ Fresh(q) : n < m

Sequenced(q) ==
    /\ Queued(q)
    /\ ToSet(reported) \cap Fresh(q) = {}
    /\ InOrder(reported, redelivered)
    /\ \A d \in Replicas : Ranked(d, q)

\* The members of two sequences joined, and the order of them.
LEMMA JoinedInOrder ==
    ASSUME NEW s \in Seq(Messages), NEW t \in Seq(Messages), NEW r
    PROVE  /\ s \o t \in Seq(Messages) /\ ToSet(s \o t) = ToSet(s) \cup ToSet(t)
           /\ (InOrder(s, r) /\ InOrder(t, r) /\ Behind(ToSet(t), s, r)) => InOrder(s \o t, r)
<1>1. /\ Len(s \o t) = Len(s) + Len(t) /\ Len(s) \in Nat /\ Len(t) \in Nat /\ s \o t \in Seq(Messages)
      /\ \A i \in 1 .. Len(s) : (s \o t)[i] = s[i]
      /\ \A i \in 1 .. Len(t) : (s \o t)[Len(s) + i] = t[i]
  OBVIOUS
<1>2. ASSUME NEW i \in 1 .. (Len(s) + Len(t)), i \notin 1 .. Len(s)
      PROVE  i - Len(s) \in 1 .. Len(t) /\ (s \o t)[i] = t[i - Len(s)]
  <2>1. Len(s) + (i - Len(s)) = i /\ i - Len(s) \in 1 .. Len(t)
    BY <1>1, <1>2
  <2>2. QED
    BY <1>1, <2>1
<1>3. /\ \A x : x \in ToSet(s) <=> \E i \in 1 .. Len(s) : s[i] = x
      /\ \A x : x \in ToSet(t) <=> \E i \in 1 .. Len(t) : t[i] = x
      /\ \A x : x \in ToSet(s \o t) <=> \E i \in 1 .. Len(s \o t) : (s \o t)[i] = x
  BY <1>1, ToSetMembers
<1>4. ToSet(s \o t) = ToSet(s) \cup ToSet(t)
  <2>1. ASSUME NEW x \in ToSet(s \o t) PROVE x \in ToSet(s) \cup ToSet(t)
    <3>1. PICK i \in 1 .. (Len(s) + Len(t)) : (s \o t)[i] = x
      BY <1>1, <1>3, <2>1
    <3>2. CASE i \in 1 .. Len(s)
      BY <1>1, <1>3, <3>1, <3>2
    <3>3. CASE i \notin 1 .. Len(s)
      BY <1>2, <1>3, <3>1, <3>3
    <3>4. QED
      BY <3>2, <3>3
  <2>2. ASSUME NEW x \in ToSet(s) PROVE x \in ToSet(s \o t)
    <3>1. PICK i \in 1 .. Len(s) : s[i] = x
      BY <1>3, <2>2
    <3>2. i \in 1 .. Len(s \o t) /\ (s \o t)[i] = x
      BY <1>1, <3>1
    <3>3. QED
      BY <1>3, <3>2
  <2>3. ASSUME NEW x \in ToSet(t) PROVE x \in ToSet(s \o t)
    <3>1. PICK i \in 1 .. Len(t) : t[i] = x
      BY <1>3, <2>3
    <3>2. Len(s) + i \in 1 .. Len(s \o t) /\ (s \o t)[Len(s) + i] = x
      BY <1>1, <3>1
    <3>3. QED
      BY <1>3, <3>2
  <2>4. QED
    BY <2>1, <2>2, <2>3
<1>5. ASSUME InOrder(s, r), InOrder(t, r), Behind(ToSet(t), s, r)
      PROVE  InOrder(s \o t, r)
  <2>1. SUFFICES ASSUME NEW i \in 1 .. (Len(s) + Len(t)), NEW j \in 1 .. (Len(s) + Len(t)),
                        i < j, (s \o t)[j] < (s \o t)[i]
                 PROVE  (s \o t)[j] \in r
    BY <1>1 DEF InOrder
  <2>2. CASE j \in 1 .. Len(s)
    <3>1. i \in 1 .. Len(s)
      BY <1>1, <2>1, <2>2
    <3>2. (s \o t)[i] = s[i] /\ (s \o t)[j] = s[j]
      BY <1>1, <2>2, <3>1
    <3>3. QED
      BY <1>5, <2>1, <2>2, <3>1, <3>2 DEF InOrder
  <2>3. CASE j \notin 1 .. Len(s) /\ i \notin 1 .. Len(s)
    <3>1. /\ i - Len(s) \in 1 .. Len(t) /\ (s \o t)[i] = t[i - Len(s)]
          /\ j - Len(s) \in 1 .. Len(t) /\ (s \o t)[j] = t[j - Len(s)]
      BY <1>2, <2>3
    <3>2. i - Len(s) < j - Len(s)
      BY <1>1, <2>1
    <3>3. QED
      BY <1>5, <2>1, <3>1, <3>2 DEF InOrder
  <2>4. CASE j \notin 1 .. Len(s) /\ i \in 1 .. Len(s)
    <3>1. (s \o t)[j] \in ToSet(t) /\ (s \o t)[i] \in ToSet(s)
      <4>1. j - Len(s) \in 1 .. Len(t) /\ (s \o t)[j] = t[j - Len(s)]
        BY <1>2, <2>4
      <4>2. (s \o t)[i] = s[i]
        BY <1>1, <2>4
      <4>3. QED
        BY <1>3, <2>4, <4>1, <4>2
    <3>2. (s \o t)[j] \in Messages /\ (s \o t)[i] \in Messages
      BY <3>1, ToSetMembers
    <3>3. (s \o t)[j] \notin r => (s \o t)[i] <= (s \o t)[j]
      BY <1>5, <3>1 DEF Behind
    <3>4. (s \o t)[j] \in Nat /\ (s \o t)[i] \in Nat
      BY <3>2, Constants
    <3>5. QED
      BY <2>1, <3>3, <3>4
  <2>5. QED
    BY <2>2, <2>3, <2>4
<1>6. QED
  BY <1>1, <1>4, <1>5

\* One message more.
LEMMA AppendedInOrder ==
    ASSUME NEW s \in Seq(Messages), NEW m \in Messages, NEW r
    PROVE  /\ Append(s, m) \in Seq(Messages) /\ ToSet(Append(s, m)) = ToSet(s) \cup {m}
           /\ (InOrder(s, r) /\ Behind({m}, s, r)) => InOrder(Append(s, m), r)
<1> DEFINE t == << m >>
<1>1. t \in Seq(Messages) /\ Append(s, m) = s \o t /\ Len(t) = 1 /\ t[1] = m
  OBVIOUS
<1>2. ToSet(t) = {m}
  <2>1. \A x : x \in ToSet(t) <=> \E i \in 1 .. Len(t) : t[i] = x
    BY <1>1, ToSetMembers
  <2>2. QED
    BY <1>1, <2>1
<1>3. InOrder(t, r)
  BY <1>1 DEF InOrder
<1> HIDE DEF t
<1>4. QED
  BY <1>1, <1>2, <1>3, JoinedInOrder

\* Settled deliveries leave the others in order, and what goes back only excuses more.
LEMMA WithinInOrder ==
    ASSUME NEW s \in Seq(Messages), NEW t \in Seq(Messages), Within(t, s),
           NEW r, NEW r1, r \subseteq r1, InOrder(s, r)
    PROVE  InOrder(t, r1)
<1>1. PICK e \in [1 .. Len(t) -> 1 .. Len(s)] :
        /\ \A k \in 1 .. Len(t) : t[k] = s[e[k]]
        /\ \A k, l \in 1 .. Len(t) : k < l => e[k] < e[l]
  BY DEF Within
<1>2. ASSUME NEW i \in 1 .. Len(t), NEW j \in 1 .. Len(t), i < j, t[j] < t[i]
      PROVE  t[j] \in r1
  <2>1. e[i] \in 1 .. Len(s) /\ e[j] \in 1 .. Len(s) /\ e[i] < e[j] /\ t[i] = s[e[i]] /\ t[j] = s[e[j]]
    BY <1>1, <1>2
  <2>2. QED
    BY <1>2, <2>1 DEF InOrder
<1>3. QED
  BY <1>2 DEF InOrder

\* A line that is in order: the batch is, and what is at hand is behind it.
LEMMA LineInOrder ==
    ASSUME NEW u, NEW b, NEW c, NEW f, LinedUp(u, b, c, f), NEW r, InOrder(u, r)
    PROVE  InOrder(b, r) /\ Behind(({c} \ {None}) \cup ToSet(f), b, r)
<1>1. /\ u \in Seq(Messages) /\ b \in Seq(Messages) /\ f \in Seq(Messages)
      /\ c \in Messages \cup {None} /\ Lined(u, b, c, f)
  BY DEF LinedUp
<1>2. /\ Len(u) \in Nat /\ Len(b) \in Nat /\ Len(f) \in Nat /\ One(c) \in {0, 1}
      /\ (c # None => One(c) = 1)
  BY <1>1 DEF One
<1>3. /\ Len(u) = Len(b) + One(c) + Len(f) /\ \A i \in 1 .. Len(b) : u[i] = b[i]
      /\ c # None => u[Len(b) + 1] = c
      /\ \A i \in 1 .. Len(f) : u[Len(b) + One(c) + i] = f[i]
  BY <1>1 DEF Lined
<1>4. \A i \in 1 .. Len(b) : i \in 1 .. Len(u)
  BY <1>2, <1>3
<1>5. InOrder(b, r)
  BY <1>3, <1>4 DEF InOrder
<1>6. ASSUME NEW m \in ((({c} \ {None}) \cup ToSet(f)) \ r), NEW n \in ToSet(b)
      PROVE  n <= m
  <2>1. PICK i \in 1 .. Len(b) : b[i] = n
    BY <1>1, ToSetMembers
  <2>2. \E j \in 1 .. Len(u) : j > Len(b) /\ u[j] = m
    <3>1. CASE m = c /\ c # None
      BY <1>2, <1>3, <3>1
    <3>2. CASE m \in ToSet(f)
      <4>1. PICK k \in 1 .. Len(f) : f[k] = m
        BY <1>1, <3>2, ToSetMembers
      <4>2. Len(b) + One(c) + k \in 1 .. Len(u) /\ Len(b) + One(c) + k > Len(b)
        BY <1>2, <1>3
      <4>3. QED
        BY <1>3, <4>1, <4>2
    <3>3. QED
      BY <1>6, <3>1, <3>2
  <2>3. PICK j \in 1 .. Len(u) : j > Len(b) /\ u[j] = m
    BY <2>2
  <2>4. i \in 1 .. Len(u) /\ i < j /\ u[i] = n
    BY <1>2, <1>3, <1>4, <2>1, <2>3
  <2>5. ~(m < n)
    BY <1>6, <2>3, <2>4 DEF InOrder
  <2>6. m \in Messages /\ n \in Messages
    BY <1>1, <2>3, <2>4
  <2>7. m \in Nat /\ n \in Nat
    BY <2>6, Constants
  <2>8. QED
    BY <2>5, <2>7
<1>7. QED
  BY <1>5, <1>6 DEF Behind

\* A replica's results are in order, older than what it has at hand, and while it
\* has some that did not go back, its partition's active consumer.
LEMMA BatchInOrder ==
    ASSUME Sound, NEW q, OneQueue(q), NEW d \in Replicas, Ranked(d, q)
    PROVE  /\ InOrder(Batch(d), redelivered) /\ Behind(AtHand(d, q), Batch(d), redelivered)
           /\ connected[d] => ToSet(Batch(d)) \subseteq ToSet(unacked[d])
           /\ ~(Rest(d, q) \subseteq redelivered) => active[q] = d
<1> DEFINE u == unacked[d]
           b == Hold(d)
           c == current[d]
           f == fetched[d][q]
<1>1. /\ u \in Seq(Messages) /\ b \in Seq(Messages) /\ c \in Messages \cup {None}
      /\ f \in Seq(Messages) /\ Partitions = {q}
  <2>1. q \in Partitions /\ Partitions = {q}
    BY DEF OneQueue
  <2>2. u \in Seq(Messages) /\ c \in Messages \cup {None} /\ f \in Seq(Messages)
    BY <2>1 DEF Sound, Types
  <2>3. flushing[d] \in Seq(Messages) /\ pending[d] \in Seq(Messages)
    BY DEF Sound, Types
  <2>4. QED
    BY <2>1, <2>2, <2>3 DEF Hold
<1>2. Batch(d) = b \/ Batch(d) = << >>
  BY DEF Batch, Hold
<1>3. InOrder(<< >>, redelivered) /\ ToSet(<< >>) = {}
  BY DEF InOrder, ToSet
<1>4. /\ InOrder(u, redelivered) /\ (~connected[d] => ToSet(Batch(d)) \subseteq redelivered)
      /\ (u # << >> => active[q] = d)
  BY DEF Ranked
<1>5. CASE ~connected[d]
  <2>1. /\ f = << >> /\ state[d] \in {"stopping", "down"}
    BY <1>1, <1>5 DEF Sound, Local
  <2>2. c = None
    BY <2>1 DEF Sound, Local
  <2>3. AtHand(d, q) = {}
    BY <1>3, <2>1, <2>2 DEF AtHand
  <2>4. \A i \in 1 .. Len(Batch(d)) : Batch(d)[i] \in ToSet(Batch(d))
    BY <1>1, <1>2, <1>3, ToSetMembers
  <2>5. InOrder(Batch(d), redelivered)
    BY <1>4, <1>5, <2>4 DEF InOrder
  <2>6. Rest(d, q) \subseteq redelivered
    BY <1>4, <1>5, <2>3 DEF Rest
  <2>7. QED
    BY <1>5, <2>3, <2>5, <2>6 DEF Behind
<1>6. CASE connected[d] /\ Lined(u, b, c, f)
  <2>1. LinedUp(u, b, c, f)
    BY <1>1, <1>6 DEF LinedUp
  <2>2. InOrder(b, redelivered) /\ Behind(({c} \ {None}) \cup ToSet(f), b, redelivered)
    BY <1>4, <2>1, LineInOrder
  <2>3. ToSet(u) = ToSet(f) \cup ToSet(b) \cup ({c} \ {None})
    BY <2>1, LinedMembers
  <2>4. ToSet(Batch(d)) \subseteq ToSet(b)
    BY <1>2, <1>3
  <2>5. InOrder(Batch(d), redelivered) /\ Behind(AtHand(d, q), Batch(d), redelivered)
    BY <1>2, <1>3, <2>2 DEF AtHand, Behind
  <2>6. Rest(d, q) \subseteq ToSet(u)
    BY <2>3, <2>4 DEF Rest, AtHand
  <2>7. u = << >> => Rest(d, q) = {}
    BY <1>3, <2>6
  <2>8. QED
    BY <1>4, <2>3, <2>4, <2>5, <2>7
<1>7. CASE connected[d] /\ state[d] = "stopping" /\ b = << >> /\ Len(f) <= Len(u)
  <2>1. Batch(d) = << >> /\ c = None
    BY <1>2, <1>7 DEF Sound, Local
  <2>2. InOrder(Batch(d), redelivered) /\ Behind(AtHand(d, q), Batch(d), redelivered)
    BY <1>3, <2>1 DEF Behind
  <2>3. u = << >> => Rest(d, q) = {}
    <3>1. u = << >> => f = << >>
      BY <1>1, <1>7
    <3>2. QED
      BY <1>3, <2>1, <3>1 DEF Rest, AtHand
  <2>4. QED
    BY <1>3, <1>4, <2>1, <2>2, <2>3
<1>8. QED
  BY <1>5, <1>6, <1>7 DEF OneQueue, Aligned

\* Nothing becomes fresh; what is delivered fresh is the oldest of what is.
LEMMA FreshStep ==
    ASSUME Sound, Types', NEW q, OneQueue(q), Queued(q), NEW d \in Replicas, ReplicaStep(d)
    PROVE  /\ Queued(q)' /\ Fresh(q)' \subseteq Fresh(q) /\ redelivered \subseteq redelivered'
<1>1. Moves(d, q)
  BY MovesStep
<1>2. /\ q \in Partitions /\ ready[q] \subseteq Messages
      /\ \A m \in Fresh(q), n \in Messages \ Fresh(q) : n < m
  <2>1. q \in Partitions
    BY DEF OneQueue
  <2>2. QED
    BY <2>1 DEF Sound, Types, Queued
<1>3. CASE Taken(d, q)
  <2>1. PICK m \in ready[q] :
          (\A n \in ready[q] : m <= n) /\ ready'[q] = ready[q] \ {m} /\ redelivered' = redelivered
    BY <1>3 DEF Taken
  <2>2. Fresh(q)' = Fresh(q) \ {m}
    BY <2>1 DEF Fresh
  <2>3. ASSUME NEW x \in Fresh(q)', NEW n \in Messages \ Fresh(q)'
        PROVE  n < x
    <3>1. CASE n = m
      <4>1. x \in ready[q] /\ x # m /\ m <= x
        BY <2>1, <2>2 DEF Fresh
      <4>2. x \in Nat /\ m \in Nat
        BY <1>2, <4>1, Constants
      <4>3. QED
        BY <3>1, <4>1, <4>2
    <3>2. CASE n # m
      BY <1>2, <2>2, <2>3, <3>2
    <3>3. QED
      BY <3>1, <3>2
  <2>4. QED
    BY <2>1, <2>2, <2>3 DEF Queued
<1>4. CASE Given(d, q)
  <2>1. PICK S \in SUBSET ToSet(unacked[d]) :
          \/ redelivered' = redelivered /\ ready'[q] = ready[q]
          \/ ready'[q] = ready[q] \cup S /\ redelivered' = redelivered \cup S
    BY <1>4 DEF Given
  <2>2. S \cap ready[q] = {}
    BY <2>1 DEF OneQueue, Placed
  <2>3. Fresh(q)' = Fresh(q) /\ redelivered \subseteq redelivered'
    BY <2>1, <2>2 DEF Fresh
  <2>4. QED
    BY <2>3 DEF Queued
<1>5. CASE Kept(d)
  BY <1>2, <1>5 DEF Kept, Fresh, Queued
<1>6. QED
  BY <1>1, <1>3, <1>4, <1>5 DEF Moves

\* Only a delivery, of the oldest that waits, adds to what a replica has at hand.
LEMMA AtHandStep ==
    ASSUME Sound, Types', NEW q, OneQueue(q), NEW d \in Replicas, ReplicaStep(d)
    PROVE  \/ AtHand(d, q)' \subseteq AtHand(d, q)
           \/ /\ Batch(d)' = Batch(d) /\ reported' = reported
              /\ \E m \in ready[q] : AtHand(d, q)' \subseteq AtHand(d, q) \cup {m}
<1>1. Partitions = {q} /\ q \in Partitions
  BY DEF OneQueue
<1>2. fetched[d][q] \in Seq(Messages) /\ ready[q] \subseteq Messages
  <2>1. fetched \in [Replicas -> [Partitions -> Seq(Messages)]] /\ ready \in [Partitions -> SUBSET Messages]
    BY DEF Sound, Types
  <2>2. QED
    BY <1>1, <2>1
<1>3. CASE \E p \in Partitions : DeliverStep(d, p)
  <2>1. DeliverStep(d, q)
    BY <1>1, <1>3
  <2>2. PICK m \in ready[q] : fetched'[d][q] = Append(fetched[d][q], m)
    BY <2>1 DEF DeliverStep
  <2>3. ToSet(Append(fetched[d][q], m)) = ToSet(fetched[d][q]) \cup {m}
    BY <1>2, AppendedInOrder
  <2>4. current'[d] = current[d] /\ Batch(d)' = Batch(d) /\ reported' = reported
    BY <2>1 DEF DeliverStep, SameLoop, SameBatch, Batch
  <2>5. QED
    BY <2>2, <2>3, <2>4 DEF AtHand
<1>4. CASE \E p \in Partitions : TakeStep(d, p)
  <2>1. TakeStep(d, q)
    BY <1>1, <1>4
  <2>2. /\ fetched[d][q] # << >> /\ current'[d] = Head(fetched[d][q])
        /\ fetched'[d][q] = Tail(fetched[d][q])
    BY <2>1 DEF TakeStep
  <2> DEFINE f == fetched[d][q]
  <2>3. /\ Len(f) \in Nat /\ Len(f) > 0 /\ Head(f) = f[1] /\ Tail(f) \in Seq(Messages)
        /\ Len(Tail(f)) = Len(f) - 1 /\ \A i \in 1 .. Len(Tail(f)) : Tail(f)[i] = f[i + 1]
    BY <1>2, <2>2
  <2>4. \A x : x \in ToSet(f) <=> \E i \in 1 .. Len(f) : f[i] = x
    BY <1>2, ToSetMembers
  <2>5. \A x : x \in ToSet(Tail(f)) <=> \E i \in 1 .. Len(Tail(f)) : Tail(f)[i] = x
    BY <2>3, ToSetMembers
  <2>6. Head(f) \in ToSet(f)
    BY <2>3, <2>4
  <2>7. ToSet(Tail(f)) \subseteq ToSet(f)
    <3>1. \A i \in 1 .. Len(Tail(f)) : i + 1 \in 1 .. Len(f)
      BY <2>3
    <3>2. QED
      BY <2>3, <2>4, <2>5, <3>1
  <2> HIDE DEF f
  <2>8. QED
    BY <2>2, <2>6, <2>7 DEF AtHand, f
<1>5. CASE SettleStep(d) \/ LoopStep(d) \/ AddStep(d) \/ SwapStep(d) \/ AcceptStep(d)
           \/ ReleaseStep(d) \/ LoopDiesStep(d) \/ RestartStep(d)
  <2>1. current'[d] \in {current[d], None} /\ fetched'[d] = fetched[d]
    BY <1>5 DEF SettleStep, LoopStep, AddStep, SwapStep, AcceptStep, ReleaseStep, LoopDiesStep,
       RestartStep, SameLoop, SameChannel
  <2>2. QED
    BY <2>1 DEF AtHand
<1>6. CASE LeaveStep(d)
  <2>1. current'[d] \in {current[d], None} /\ fetched'[d][q] = << >>
    BY <1>1, <1>6 DEF LeaveStep
  <2>2. ToSet(<< >>) = {}
    BY DEF ToSet
  <2>3. QED
    BY <2>1, <2>2 DEF AtHand
<1>7. QED
  BY <1>3, <1>4, <1>5, <1>6 DEF ReplicaStep

\* How a step changes what a replica has not reported yet.
LEMMA RestStep ==
    ASSUME Sound, Types', NEW q, OneQueue(q), NEW d \in Replicas, ReplicaStep(d)
    PROVE  /\ ToSet(Batch(d)') \subseteq ToSet(Batch(d)) \cup ({current[d]} \ {None})
           /\ \/ reported' = reported
              \/ reported' = reported \o Batch(d) /\ Rest(d, q)' \subseteq AtHand(d, q)
           /\ \/ Rest(d, q)' \subseteq Rest(d, q)
              \/ /\ Batch(d)' = Batch(d) /\ reported' = reported
                 /\ \E m \in ready[q] : Rest(d, q)' \subseteq Rest(d, q) \cup {m}
<1>1. Reports(d)
  BY ReportsStep
<1>2. \/ AtHand(d, q)' \subseteq AtHand(d, q)
      \/ /\ Batch(d)' = Batch(d) /\ reported' = reported
         /\ \E m \in ready[q] : AtHand(d, q)' \subseteq AtHand(d, q) \cup {m}
  BY AtHandStep
<1>3. Rest(d, q) = ToSet(Batch(d)) \cup AtHand(d, q) /\ Rest(d, q)' = ToSet(Batch(d)') \cup AtHand(d, q)'
  BY DEF Rest
<1>4. ToSet(<< >>) = {} /\ Batch(d) \in Seq(Messages) /\ ({current[d]} \ {None}) \subseteq AtHand(d, q)
  BY BatchType DEF Sound, ToSet, AtHand
<1>5. state[d] = "adding" => current[d] \in Messages /\ current[d] # None
  <2>1. current[d] \in Messages \cup {None}
    BY DEF Sound, Types
  <2>2. QED
    BY <2>1 DEF Sound, Local
<1>6. CASE Batch(d)' = Batch(d) /\ reported' = reported
  BY <1>2, <1>3, <1>6
<1>7. CASE Batch(d)' # Batch(d) /\ state[d] = "adding" /\ Batch(d)' = Append(Batch(d), current[d])
           /\ reported' = reported
  <2>1. ToSet(Batch(d)') = ToSet(Batch(d)) \cup {current[d]}
    BY <1>4, <1>5, <1>7, AppendedInOrder
  <2>2. QED
    BY <1>2, <1>3, <1>4, <1>5, <1>7, <2>1
<1>8. CASE /\ ~(Batch(d)' = Batch(d) /\ reported' = reported) /\ Batch(d)' = << >>
           /\ reported' = reported \o Batch(d) \/ reported' = reported
  BY <1>2, <1>3, <1>4, <1>8
<1>9. QED
  BY <1>1, <1>6, <1>7, <1>8 DEF Reports

\* What a replica has not reported, and that never went back, stays behind what
\* has been reported, and behind what the other replicas have flushed or buffered.
LEMMA RestRanked ==
    ASSUME Sound, Types', NEW q, OneQueue(q), Sequenced(q), NEW d \in Replicas, ReplicaStep(d)
    PROVE  \A e \in Replicas :
             /\ Behind(Rest(e, q), reported, redelivered)'
             /\ \A f \in Replicas : f # e => Behind(Rest(e, q), Batch(f), redelivered)'
<1>1. /\ q \in Partitions /\ ready[q] \subseteq Messages /\ reported \in Seq(Messages)
      /\ \A e \in Replicas : Batch(e) \in Seq(Messages)
  <2>1. q \in Partitions
    BY DEF OneQueue
  <2>2. QED
    BY <2>1, BatchType DEF Sound, Types
<1>2. redelivered \subseteq redelivered'
  BY FreshStep DEF Sequenced
<1>3. \A e, f \in Replicas : e # f =>
        /\ Behind(Rest(e, q), reported, redelivered) /\ Behind(Rest(e, q), Batch(f), redelivered)
        /\ ToSet(Batch(f)) \cap Fresh(q) = {} /\ ToSet(reported) \cap Fresh(q) = {}
  BY DEF Sequenced, Ranked
<1>4. Behind(Rest(d, q), reported, redelivered) /\ ToSet(reported) \cap Fresh(q) = {}
  BY DEF Sequenced, Ranked
<1>5. Behind(AtHand(d, q), Batch(d), redelivered)
  BY BatchInOrder DEF Sequenced
<1>6. ASSUME NEW e \in Replicas, e # d
      PROVE  Batch(e)' = Batch(e) /\ Rest(e, q)' = Rest(e, q)
  BY <1>6, OthersKeep DEF Rest, AtHand
<1>7. ToSet(reported') = ToSet(reported) \/
        (ToSet(reported') = ToSet(reported) \cup ToSet(Batch(d)) /\ Rest(d, q)' \subseteq AtHand(d, q))
  <2>1. ToSet(reported \o Batch(d)) = ToSet(reported) \cup ToSet(Batch(d))
    BY <1>1, JoinedInOrder
  <2>2. QED
    BY <2>1, RestStep
<1>8. ASSUME NEW m \in Rest(d, q)' \ redelivered'
      PROVE  m \in Rest(d, q) \ redelivered \/ (m \in Fresh(q) /\ UNCHANGED <<Batch(d), reported>>)
  BY <1>2, <1>8, RestStep DEF Fresh
<1>9. ASSUME NEW m \in Fresh(q), NEW n \in Messages, n \notin Fresh(q)
      PROVE  n <= m
  <2>1. n < m
    BY <1>9 DEF Sequenced, Queued
  <2>2. n \in Nat /\ m \in Nat
    BY <1>1, <1>9, Constants DEF Fresh
  <2>3. QED
    BY <2>1, <2>2
<1>10. Behind(Rest(d, q), reported, redelivered)'
  <2>1. SUFFICES ASSUME NEW m \in Rest(d, q)' \ redelivered', NEW n \in ToSet(reported')
                 PROVE  n <= m
    BY DEF Behind
  <2>2. CASE m \in Rest(d, q) \ redelivered
    <3>1. CASE n \in ToSet(reported)
      BY <1>4, <2>2, <3>1 DEF Behind
    <3>2. CASE n \notin ToSet(reported)
      <4>1. n \in ToSet(Batch(d)) /\ m \in AtHand(d, q)
        BY <1>7, <2>1, <3>2
      <4>2. QED
        BY <1>5, <2>2, <4>1 DEF Behind
    <3>3. QED
      BY <3>1, <3>2
  <2>3. CASE m \in Fresh(q) /\ reported' = reported
    <3>1. n \in Messages /\ n \notin Fresh(q)
      BY <1>1, <1>4, <2>1, <2>3, ToSetMembers
    <3>2. QED
      BY <1>9, <2>3, <3>1
  <2>4. QED
    BY <1>8, <2>1, <2>2, <2>3
<1>11. ASSUME NEW f \in Replicas, f # d
       PROVE  Behind(Rest(d, q), Batch(f), redelivered)'
  <2>1. SUFFICES ASSUME NEW m \in Rest(d, q)' \ redelivered', NEW n \in ToSet(Batch(f)')
                 PROVE  n <= m
    BY DEF Behind
  <2>2. n \in ToSet(Batch(f))
    BY <1>6, <1>11, <2>1
  <2>3. CASE m \in Rest(d, q) \ redelivered
    BY <1>3, <1>11, <2>2, <2>3 DEF Behind
  <2>4. CASE m \in Fresh(q)
    <3>1. n \in Messages
      BY <1>1, <2>2, ToSetMembers
    <3>2. n \notin Fresh(q)
      BY <1>3, <1>11, <2>2
    <3>3. QED
      BY <1>9, <2>4, <3>1, <3>2
  <2>5. QED
    BY <1>8, <2>1, <2>3, <2>4
<1>12. ASSUME NEW e \in Replicas, e # d
       PROVE  Behind(Rest(e, q), reported, redelivered)'
  <2>1. SUFFICES ASSUME NEW m \in Rest(e, q)' \ redelivered', NEW n \in ToSet(reported')
                 PROVE  n <= m
    BY DEF Behind
  <2>2. m \in Rest(e, q) \ redelivered
    BY <1>2, <1>6, <1>12, <2>1
  <2>3. n \in ToSet(reported) \/ n \in ToSet(Batch(d))
    BY <1>7, <2>1
  <2>4. QED
    BY <1>3, <1>12, <2>2, <2>3 DEF Behind
<1>13. ASSUME NEW e \in Replicas, NEW f \in Replicas, e # d, f # e
       PROVE  Behind(Rest(e, q), Batch(f), redelivered)'
  <2>1. SUFFICES ASSUME NEW m \in Rest(e, q)' \ redelivered', NEW n \in ToSet(Batch(f)')
                 PROVE  n <= m
    BY DEF Behind
  <2>2. m \in Rest(e, q) \ redelivered
    BY <1>2, <1>6, <1>13, <2>1
  <2>3. n \in ToSet(Batch(f))
    <3>1. CASE f # d
      BY <1>6, <2>1, <3>1
    <3>2. CASE f = d
      <4>1. active[q] = e
        BY <1>13, <2>2, BatchInOrder DEF Sequenced
      <4>2. current[d] = None
        <5>1. current[d] # None => unacked[d] # << >>
          <6>1. ToSet(<< >>) = {}
            BY DEF ToSet
          <6>2. QED
            BY <6>1, CurrentHeld
        <5>2. unacked[d] # << >> => active[q] = d
          BY DEF Sequenced, Ranked
        <5>3. QED
          BY <1>13, <4>1, <5>1, <5>2
      <4>3. ToSet(Batch(d)') \subseteq ToSet(Batch(d)) \cup ({current[d]} \ {None})
        BY RestStep
      <4>4. QED
        BY <2>1, <3>2, <4>2, <4>3
    <3>3. QED
      BY <3>1, <3>2
  <2>4. QED
    BY <1>3, <1>13, <2>2, <2>3 DEF Behind
<1>14. QED
  BY <1>10, <1>11, <1>12, <1>13

\* The deliveries stay in order, and what a closed connection leaves has gone back.
LEMMA DeliveriesRanked ==
    ASSUME Sound, Types', NEW q, OneQueue(q), Sequenced(q), NEW d \in Replicas, ReplicaStep(d)
    PROVE  /\ InOrder(unacked[d], redelivered)'
           /\ unacked'[d] # << >> => active'[q] = d
           /\ ~connected'[d] => ToSet(Batch(d)') \subseteq redelivered'
           /\ ToSet(Batch(d)') \cap Fresh(q)' = {}
<1>1. /\ q \in Partitions /\ ready[q] \subseteq Messages /\ unacked[d] \in Seq(Messages)
      /\ unacked'[d] \in Seq(Messages) /\ ToSet(unacked[d]) \subseteq Messages
  <2>1. q \in Partitions
    BY DEF OneQueue
  <2>2. ready[q] \subseteq Messages /\ unacked[d] \in Seq(Messages) /\ unacked'[d] \in Seq(Messages)
    BY <2>1 DEF Sound, Types
  <2>3. QED
    BY <2>1, <2>2, ToSetMembers
<1>2. /\ InOrder(unacked[d], redelivered) /\ ToSet(Batch(d)) \cap Fresh(q) = {}
      /\ (unacked[d] # << >> => active[q] = d)
      /\ (~connected[d] => ToSet(Batch(d)) \subseteq redelivered)
      /\ \A m \in Fresh(q), n \in Messages \ Fresh(q) : n < m
  BY DEF Sequenced, Ranked, Queued
<1>3. redelivered \subseteq redelivered' /\ Fresh(q)' \subseteq Fresh(q)
  BY FreshStep DEF Sequenced
<1>4. ToSet(unacked[d]) \cap ready[q] = {}
  BY DEF OneQueue, Placed
<1>5. ToSet(Batch(d)') \subseteq ToSet(Batch(d)) \cup ({current[d]} \ {None})
  BY RestStep
<1>6. ({current[d]} \ {None}) \subseteq ToSet(unacked[d])
  BY CurrentHeld
<1>7. ToSet(Batch(d)') \cap Fresh(q)' = {}
  <2>1. Fresh(q) \subseteq ready[q]
    BY DEF Fresh
  <2>2. QED
    BY <1>2, <1>3, <1>4, <1>5, <1>6, <2>1
<1>8. active' = active
  BY DEF ReplicaStep, DeliverStep, TakeStep, SettleStep, LoopStep, AddStep, SwapStep, AcceptStep,
     ReleaseStep, LoopDiesStep, LeaveStep, RestartStep
<1>9. Moves(d, q)
  BY MovesStep
<1>10. unacked'[d] # << >> => active'[q] = d
  <2>1. CASE Taken(d, q)
    BY <1>8, <2>1 DEF Taken
  <2>2. CASE Given(d, q)
    <3>1. Len(unacked'[d]) <= Len(unacked[d])
      BY <2>2 DEF Given
    <3>2. unacked[d] = << >> => unacked'[d] = << >>
      BY <1>1, <3>1
    <3>3. QED
      BY <1>2, <1>8, <3>2
  <2>3. CASE Kept(d)
    BY <1>2, <1>8, <2>3 DEF Kept
  <2>4. QED
    BY <1>9, <2>1, <2>2, <2>3 DEF Moves
<1>11. InOrder(unacked[d], redelivered)'
  <2>1. CASE Taken(d, q)
    <3>1. PICK m \in ready[q] : unacked'[d] = Append(unacked[d], m) /\ redelivered' = redelivered
      BY <2>1 DEF Taken
    <3>2. m \in Messages
      BY <1>1
    <3>3. Behind({m}, unacked[d], redelivered)
      <4>1. ASSUME NEW n \in ToSet(unacked[d]), m \notin redelivered
            PROVE  n <= m
        <5>1. m \in Fresh(q) /\ n \in Messages \ Fresh(q)
          BY <1>1, <1>4, <4>1 DEF Fresh
        <5>2. n < m
          BY <1>2, <5>1
        <5>3. n \in Nat /\ m \in Nat
          BY <1>1, <3>2, Constants
        <5>4. QED
          BY <5>2, <5>3
      <4>2. QED
        BY <4>1 DEF Behind
    <3>4. InOrder(Append(unacked[d], m), redelivered)
      BY <1>1, <1>2, <3>2, <3>3, AppendedInOrder
    <3>5. QED
      BY <3>1, <3>4
  <2>2. CASE Given(d, q)
    <3>1. Within(unacked'[d], unacked[d])
      BY <2>2 DEF Given
    <3>2. InOrder(unacked'[d], redelivered')
      BY <1>1, <1>2, <1>3, <3>1, WithinInOrder
    <3>3. QED
      BY <3>2
  <2>3. CASE Kept(d)
    BY <1>2, <2>3 DEF Kept
  <2>4. QED
    BY <1>9, <2>1, <2>2, <2>3 DEF Moves
<1>12. ASSUME ~connected'[d]
       PROVE  ToSet(Batch(d)') \subseteq redelivered'
  <2>1. CASE ~connected[d]
    <3>1. current[d] = None
      BY CurrentHeld, <2>1
    <3>2. QED
      BY <1>2, <1>3, <1>5, <2>1, <3>1
  <2>2. CASE connected[d]
    <3>1. LeaveStep(d)
      BY <1>12, <2>2 DEF ReplicaStep, DeliverStep, TakeStep, SettleStep, LoopStep, AddStep,
         SwapStep, AcceptStep, ReleaseStep, LoopDiesStep, RestartStep, SameChannel
    <3>2. Requeue(ToSet(unacked[d])) /\ Partitions = {q}
      BY <3>1 DEF LeaveStep, OneQueue
    <3>3. redelivered' = redelivered \cup ToSet(unacked[d])
      BY <1>1, <3>2, RequeueOne
    <3>4. ToSet(Batch(d)) \subseteq ToSet(unacked[d])
      BY <2>2, BatchInOrder DEF Sequenced
    <3>5. QED
      BY <1>5, <1>6, <3>3, <3>4
  <2>3. QED
    BY <2>1, <2>2
<1>13. QED
  BY <1>7, <1>10, <1>11, <1>12

\* The order of the partition is kept by a step of a replica.
LEMMA SequencedReplicaStep ==
    ASSUME Sound, Types', NEW q, OneQueue(q), Sequenced(q), NEW d \in Replicas, ReplicaStep(d)
    PROVE  Sequenced(q)'
<1>1. Queued(q)' /\ Fresh(q)' \subseteq Fresh(q) /\ redelivered \subseteq redelivered'
  BY FreshStep DEF Sequenced
<1>2. /\ reported \in Seq(Messages) /\ Batch(d) \in Seq(Messages)
      /\ InOrder(reported, redelivered) /\ ToSet(reported) \cap Fresh(q) = {}
      /\ ToSet(Batch(d)) \cap Fresh(q) = {} /\ Behind(Rest(d, q), reported, redelivered)
  BY BatchType DEF Sound, Types, Sequenced, Ranked
<1>3. InOrder(Batch(d), redelivered) /\ Behind(ToSet(Batch(d)), reported, redelivered)
  <2>1. InOrder(Batch(d), redelivered)
    BY BatchInOrder DEF Sequenced
  <2>2. QED
    BY <1>2, <2>1 DEF Rest, Behind
<1>4. /\ InOrder(reported \o Batch(d), redelivered)
      /\ ToSet(reported \o Batch(d)) = ToSet(reported) \cup ToSet(Batch(d))
  BY <1>2, <1>3, JoinedInOrder
<1>5. reported' = reported \/ reported' = reported \o Batch(d)
  BY RestStep
<1>6. InOrder(reported', redelivered) /\ ToSet(reported') \cap Fresh(q) = {}
  BY <1>2, <1>4, <1>5
<1>7. ToSet(reported') \cap Fresh(q)' = {}
  BY <1>1, <1>6
<1>8. InOrder(reported, redelivered)'
  BY <1>1, <1>6 DEF InOrder
<1>9. ASSUME NEW e \in Replicas
      PROVE  Ranked(e, q)'
  <2>1. /\ Behind(Rest(e, q), reported, redelivered)'
        /\ \A f \in Replicas : f # e => Behind(Rest(e, q), Batch(f), redelivered)'
    BY RestRanked
  <2>2. CASE e = d
    BY <2>1, <2>2, DeliveriesRanked DEF Ranked
  <2>3. CASE e # d
    <3>1. Batch(e)' = Batch(e) /\ unacked'[e] = unacked[e] /\ connected'[e] = connected[e]
      BY <2>3, OthersKeep
    <3>2. /\ ToSet(Batch(e)) \cap Fresh(q) = {} /\ (unacked[e] # << >> => active[q] = e)
          /\ InOrder(unacked[e], redelivered)
          /\ (~connected[e] => ToSet(Batch(e)) \subseteq redelivered)
      BY DEF Sequenced, Ranked
    <3>3. active' = active
      BY DEF ReplicaStep, DeliverStep, TakeStep, SettleStep, LoopStep, AddStep, SwapStep,
         AcceptStep, ReleaseStep, LoopDiesStep, LeaveStep, RestartStep
    <3>4. InOrder(unacked[e], redelivered')
      BY <1>1, <3>2 DEF InOrder
    <3>5. ToSet(Batch(e)') \cap Fresh(q)' = {} /\ (unacked'[e] # << >> => active'[q] = e)
      BY <1>1, <3>1, <3>2, <3>3
    <3>6. (~connected'[e] => ToSet(Batch(e)') \subseteq redelivered') /\ InOrder(unacked[e], redelivered)'
      BY <1>1, <3>1, <3>2, <3>4
    <3>7. QED
      BY <2>1, <3>5, <3>6 DEF Ranked
  <2>4. QED
    BY <2>2, <2>3
<1>10. QED
  BY <1>1, <1>7, <1>8, <1>9 DEF Sequenced

\* At first every message is fresh.
LEMMA SequencedInit ==
    ASSUME NEW q, Partitions = {q}
    PROVE  Init => Sequenced(q)
<1> SUFFICES ASSUME Init PROVE Sequenced(q)
  OBVIOUS
<1>1. Of(Messages, q) = Messages
  BY Constants DEF Of
<1>2. ready[q] = Messages /\ redelivered = {} /\ reported = << >>
  BY <1>1 DEF Init
<1>3. \A d \in Replicas :
        /\ connected[d] /\ unacked[d] = << >> /\ Batch(d) = << >> /\ current[d] = None
        /\ fetched[d][q] = << >>
  BY DEF Init, Batch
<1>4. ToSet(<< >>) = {} /\ \A r : InOrder(<< >>, r)
  BY DEF ToSet, InOrder
<1>5. Queued(q)
  BY <1>2 DEF Queued, Fresh
<1>6. \A d \in Replicas : Rest(d, q) = {}
  BY <1>3, <1>4 DEF Rest, AtHand
<1>7. \A d \in Replicas : Ranked(d, q)
  BY <1>3, <1>4, <1>6 DEF Ranked, Behind
<1>8. QED
  BY <1>2, <1>4, <1>5, <1>7 DEF Sequenced

\* The order of the partition is kept by every step: a standby is promoted only
\* once the connection of the active consumer is closed.
LEMMA SequencedStep ==
    ASSUME Sound, Types', NEW q, OneQueue(q), Sequenced(q), [Next]_vars
    PROVE  Sequenced(q)'
<1>1. CASE UNCHANGED vars \/ \E p \in Partitions : PromoteStep(p)
  <2>1. /\ UNCHANGED <<ready, redelivered, reported, unacked, connected, fetched, current, pending,
                       flushing, flusher, sunk>>
        /\ active'[q] = active[q] \/ ~connected[active[q]]
    BY <1>1 DEF PromoteStep, vars, queueVars, channelVars, loopVars, batchVars, OneQueue
  <2>2. /\ Fresh(q)' = Fresh(q) /\ Queued(q)' = Queued(q)
        /\ \A d \in Replicas : Batch(d)' = Batch(d) /\ Rest(d, q)' = Rest(d, q)
    BY <2>1 DEF Fresh, Queued, Batch, Rest, AtHand
  <2>3. ASSUME NEW d \in Replicas
        PROVE  Ranked(d, q)'
    <3>1. Ranked(d, q)
      BY DEF Sequenced
    <3>2. unacked'[d] # << >> => active'[q] = d
      <4>1. ~connected[d] => unacked[d] = << >>
        BY DEF Sound, Local
      <4>2. QED
        BY <2>1, <3>1, <4>1 DEF Ranked
    <3>3. QED
      BY <2>1, <2>2, <3>1, <3>2 DEF Ranked
  <2>4. QED
    BY <2>1, <2>2, <2>3 DEF Sequenced
<1>2. ASSUME NEW d \in Replicas, ReplicaStep(d)
      PROVE  Sequenced(q)'
  BY <1>2, SequencedReplicaStep
<1>3. QED
  BY <1>1, <1>2, Steps

\* Whatever fails, on one partition a result overtakes another only if the one it
\* overtakes had gone back to its queue: single-active-consumer hand-over, failed
\* flushes and shutdowns reorder nothing that is delivered once.
THEOREM OrderIsKept ==
    ASSUME NEW q, Partitions = {q}
    PROVE  Spec => []OvertakenOnlyIfRedelivered
<1>1. Sequenced(q) /\ Sound => OvertakenOnlyIfRedelivered
  <2>1. SUFFICES ASSUME Sequenced(q), Sound PROVE OvertakenOnlyIfRedelivered
    OBVIOUS
  <2>2. InOrder(reported, redelivered) /\ reported \in Seq(Messages)
    BY <2>1 DEF Sequenced, Sound, Types
  <2>3. DOMAIN reported = 1 .. Len(reported)
    BY <2>2
  <2>4. QED
    BY <2>2, <2>3 DEF OvertakenOnlyIfRedelivered, InOrder
<1>2. Init => Sound /\ OneQueue(q) /\ Sequenced(q)
  BY SoundInit, OneQueueInit, SequencedInit
<1>3. Sound /\ OneQueue(q) /\ Sequenced(q) /\ [Next]_vars => Sound' /\ OneQueue(q)' /\ Sequenced(q)'
  <2>1. SUFFICES ASSUME Sound, OneQueue(q), Sequenced(q), [Next]_vars
                 PROVE  Sound' /\ OneQueue(q)' /\ Sequenced(q)'
    OBVIOUS
  <2>2. Sound' /\ Types'
    BY <2>1, SoundStep DEF Sound
  <2>3. OneQueue(q)'
    BY <2>1, OneQueueStep
  <2>4. QED
    BY <2>1, <2>2, <2>3, SequencedStep
<1>4. QED
  BY <1>1, <1>2, <1>3, PTL DEF Spec
=============================================================================
