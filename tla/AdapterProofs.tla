--------------------------- MODULE AdapterProofs ---------------------------
(***************************************************************************)
(* Proofs about the adapters: the broker double, the shared publisher      *)
(* channel, and the stores beside their doubles.                           *)
(***************************************************************************)
EXTENDS MCAdapters, SubsequenceProofs

-----------------------------------------------------------------------------
(* The broker double.                                                      *)

\* What the consumer has at hand is in no queue, and nothing that waits for the
\* first time was published before it; it is overtaken only by what came back.
Handed(h, q, r, p) ==
    /\ Distinct(h)
    /\ \A i \in 1 .. Len(h) :
          /\ h[i] <= p
          /\ \A j \in 1 .. Len(q) : q[j] # h[i] /\ (q[j] \notin r => h[i] < q[j])
    /\ \A i, j \in 1 .. Len(h) : (i < j /\ h[j] < h[i]) => h[j] \in r

\* What waits for the first time was published after all that came back and all
\* that waits before it.
Waiting(q, r, p) ==
    /\ Distinct(q)
    /\ \A j \in 1 .. Len(q) :
          /\ q[j] <= p
          /\ q[j] \notin r =>
               (\A i \in 1 .. Len(q) : i < j => q[i] < q[j]) /\ \A t \in r : t < q[j]
    /\ \A t \in r : t <= p

\* A delivery that was settled under the consumer's hands was acknowledged, and had
\* come back before.
Kept(h, u, a, r) ==
    /\ u \subseteq ToSet(h)
    /\ ToSet(h) \ u \subseteq a \cap r

BrokerInv ==
    /\ BrokerTypeOK
    /\ Handed(hand, ready, redelivered, published)
    /\ Waiting(ready, redelivered, published)
    /\ Kept(hand, unacked, acked, redelivered)
    /\ \A t \in acked \cup dead : t <= published

\* Tags are naturals, as many as publishes may succeed.
LEMMA TagsAreNaturals == Tags \subseteq Nat /\ FailAfter \in Nat
  BY FailAfterAssumption DEF Tags

\* A consumer that settles some of what it has at hand keeps the rest in order.
LEMMA HandShrinks ==
    ASSUME NEW h \in Seq(Tags), NEW g \in Seq(Tags), NEW q, NEW r, NEW p,
           Within(g, h), Handed(h, q, r, p)
    PROVE  Handed(g, q, r, p)
<1>1. PICK e \in [1 .. Len(g) -> 1 .. Len(h)] :
        /\ \A k \in 1 .. Len(g) : g[k] = h[e[k]]
        /\ \A k, l \in 1 .. Len(g) : k < l => e[k] < e[l]
  BY DEF Within
<1>2. Distinct(g)
  BY DistinctWithin DEF Handed
<1>3. ASSUME NEW i \in 1 .. Len(g)
      PROVE  /\ g[i] <= p
             /\ \A j \in 1 .. Len(q) : q[j] # g[i] /\ (q[j] \notin r => g[i] < q[j])
  BY <1>1 DEF Handed
<1>4. ASSUME NEW i \in 1 .. Len(g), NEW j \in 1 .. Len(g), i < j, g[j] < g[i]
      PROVE  g[j] \in r
  BY <1>1, <1>4 DEF Handed
<1>5. QED
  BY <1>2, <1>3, <1>4 DEF Handed

\* The invariant holds when nothing is published yet.
LEMMA BrokerInitInv == BrokerInit => BrokerInv
<1> SUFFICES ASSUME BrokerInit PROVE BrokerInv
  OBVIOUS
<1>1. BrokerTypeOK
  <2>1. published \in 0 .. FailAfter
    BY TagsAreNaturals DEF BrokerInit
  <2>2. ready \in Seq(Tags) /\ hand \in Seq(Tags)
    BY DEF BrokerInit
  <2>3. closed \in BOOLEAN
    BY Zenon DEF BrokerInit
  <2>4. QED
    BY <2>1, <2>2, <2>3 DEF BrokerInit, BrokerTypeOK
<1>2. Len(hand) = 0 /\ Len(ready) = 0 /\ ToSet(hand) = {}
  BY DEF BrokerInit, ToSet
<1>3. QED
  BY <1>1, <1>2 DEF BrokerInit, BrokerInv, Handed, Waiting, Kept, Distinct

\* Publishing: the new tag is above all there are.
LEMMA PublishInv ==
    ASSUME BrokerInv, Publish
    PROVE  BrokerInv'
<1> DEFINE n == published + 1
<1>1. /\ ready \in Seq(Tags) /\ hand \in Seq(Tags) /\ redelivered \subseteq Tags
      /\ published \in 0 .. FailAfter
  BY DEF BrokerInv, BrokerTypeOK
<1>2. /\ n \in Tags /\ published' = n /\ ready' = Append(ready, n)
      /\ UNCHANGED <<unacked, redelivered, acked, dead, hand, closed>>
  BY <1>1, TagsAreNaturals DEF Publish, Tags
<1>3. /\ ready' \in Seq(Tags) /\ Len(ready') = Len(ready) + 1 /\ ready'[Len(ready) + 1] = n
      /\ \A i \in 1 .. Len(ready) : ready'[i] = ready[i]
  BY <1>1, <1>2
<1>4. /\ \A i \in 1 .. Len(ready) : ready[i] \in Nat /\ ready[i] < n
      /\ \A i \in 1 .. Len(hand) : hand[i] \in Nat /\ hand[i] < n
      /\ \A t \in redelivered : t < n
  <2>1. /\ \A i \in 1 .. Len(ready) : ready[i] \in Tags /\ ready[i] <= published
        /\ \A i \in 1 .. Len(hand) : hand[i] \in Tags /\ hand[i] <= published
        /\ \A t \in redelivered : t \in Tags /\ t <= published
    BY <1>1 DEF BrokerInv, Handed, Waiting
  <2>2. \A t \in Tags : t \in Nat /\ (t <= published => t < n)
    BY <1>1, TagsAreNaturals
  <2>3. QED
    BY <2>1, <2>2
<1>5. BrokerTypeOK'
  BY <1>2, <1>3, TagsAreNaturals DEF BrokerInv, BrokerTypeOK, Tags
<1>6. Handed(hand, ready', redelivered, n)
  <2>1. Distinct(hand)
        /\ \A i, j \in 1 .. Len(hand) : (i < j /\ hand[j] < hand[i]) => hand[j] \in redelivered
    BY DEF BrokerInv, Handed
  <2>2. ASSUME NEW i \in 1 .. Len(hand), NEW j \in 1 .. Len(ready')
        PROVE  ready'[j] # hand[i] /\ (ready'[j] \notin redelivered => hand[i] < ready'[j])
    <3>1. CASE j = Len(ready) + 1
      BY <1>3, <1>4, <3>1
    <3>2. CASE j # Len(ready) + 1
      <4>1. j \in 1 .. Len(ready)
        BY <1>1, <1>3, <3>2
      <4>2. QED
        BY <1>3, <4>1 DEF BrokerInv, Handed
    <3>3. QED
      BY <3>1, <3>2
  <2>3. \A i \in 1 .. Len(hand) : hand[i] <= n
    BY <1>1, <1>4
  <2> HIDE DEF n
  <2>4. QED
    BY <2>1, <2>2, <2>3 DEF Handed
<1>7. Waiting(ready', redelivered, n)
  <2>1. Distinct(ready')
    <3> SUFFICES ASSUME NEW i \in 1 .. Len(ready'), NEW j \in 1 .. Len(ready'), ready'[i] = ready'[j]
                 PROVE  i = j
      BY DEF Distinct
    <3>1. CASE i \in 1 .. Len(ready) /\ j \in 1 .. Len(ready)
      BY <1>3, <3>1 DEF BrokerInv, Waiting, Distinct
    <3>2. CASE i = Len(ready) + 1 \/ j = Len(ready) + 1
      <4>1. \A k \in 1 .. Len(ready) : ready'[k] # n
        BY <1>3, <1>4
      <4>2. QED
        BY <1>1, <1>3, <3>2, <4>1
    <3>3. QED
      BY <1>1, <1>3, <3>1, <3>2
  <2>2. ASSUME NEW j \in 1 .. Len(ready')
        PROVE  /\ ready'[j] <= n
               /\ ready'[j] \notin redelivered =>
                    /\ \A i \in 1 .. Len(ready') : i < j => ready'[i] < ready'[j]
                    /\ \A t \in redelivered : t < ready'[j]
    <3>1. CASE j = Len(ready) + 1
      <4>1. \A i \in 1 .. Len(ready') : i < j => i \in 1 .. Len(ready)
        BY <1>1, <1>3, <3>1
      <4>2. n <= n
        BY <1>1
      <4> HIDE DEF n
      <4>3. QED
        BY <1>3, <1>4, <3>1, <4>1, <4>2
    <3>2. CASE j # Len(ready) + 1
      <4>1. j \in 1 .. Len(ready) /\ \A i \in 1 .. Len(ready') : i < j => i \in 1 .. Len(ready)
        BY <1>1, <1>3, <3>2
      <4>2. ready'[j] = ready[j] /\ ready[j] <= n
        BY <1>1, <1>3, <1>4, <4>1
      <4>3. ready[j] \notin redelivered =>
              /\ \A i \in 1 .. Len(ready) : i < j => ready[i] < ready[j]
              /\ \A t \in redelivered : t < ready[j]
        BY <4>1 DEF BrokerInv, Waiting
      <4>4. QED
        BY <1>3, <4>1, <4>2, <4>3
    <3>3. QED
      BY <3>1, <3>2
  <2>3. \A t \in redelivered : t <= n
    BY <1>1, <1>4, TagsAreNaturals
  <2>4. QED
    BY <2>1, <2>2, <2>3 DEF Waiting
<1>8. \A t \in acked \cup dead : t <= n
  BY <1>1, TagsAreNaturals DEF BrokerInv, BrokerTypeOK
<1>9. QED
  BY <1>2, <1>5, <1>6, <1>7, <1>8 DEF BrokerInv

\* Handing out the oldest: what waits for the first time is younger than all at hand.
LEMMA NextDeliveryInv ==
    ASSUME BrokerInv, NextDelivery
    PROVE  BrokerInv'
<1> DEFINE t == ready[1]
           n == Len(hand)
<1>1. /\ ready \in Seq(Tags) /\ hand \in Seq(Tags) /\ redelivered \subseteq Tags
      /\ published \in 0 .. FailAfter /\ n \in Nat
  BY DEF BrokerInv, BrokerTypeOK
<1>2. /\ ready # << >> /\ t \in Tags /\ Len(ready) \in Nat \ {0} /\ Head(ready) = t
      /\ ready' \in Seq(Tags) /\ Len(ready') = Len(ready) - 1
      /\ \A i \in 1 .. Len(ready') : ready'[i] = ready[i + 1] /\ i + 1 \in 1 .. Len(ready)
  BY <1>1 DEF NextDelivery
<1>3. /\ hand' \in Seq(Tags) /\ Len(hand') = n + 1 /\ hand'[n + 1] = t
      /\ \A i \in 1 .. n : hand'[i] = hand[i]
      /\ \A i \in 1 .. Len(hand') : i \in 1 .. n \/ i = n + 1
  BY <1>1, <1>2 DEF NextDelivery
<1>4. unacked' = unacked \cup {t} /\ UNCHANGED <<redelivered, acked, dead, published, closed>>
  BY <1>2 DEF NextDelivery
<1>5. BrokerTypeOK'
  BY <1>2, <1>3, <1>4 DEF BrokerInv, BrokerTypeOK
<1>6. /\ \A i \in 1 .. n : hand[i] # t /\ hand[i] \in Nat /\ (t \notin redelivered => hand[i] < t)
      /\ \A j \in 1 .. Len(ready') :
            ready'[j] # t /\ (ready'[j] \notin redelivered => t < ready'[j])
      /\ t <= published
  <2>1. 1 \in 1 .. Len(ready)
    BY <1>2
  <2>2. \A i \in 1 .. n : hand[i] # t /\ (t \notin redelivered => hand[i] < t)
    BY <2>1 DEF BrokerInv, Handed
  <2>3. ASSUME NEW j \in 1 .. Len(ready')
        PROVE  ready'[j] # t /\ (ready'[j] \notin redelivered => t < ready'[j])
    <3>1. j + 1 \in 1 .. Len(ready) /\ ready'[j] = ready[j + 1] /\ 1 < j + 1
      BY <1>2
    <3>2. ready[j + 1] # t
      BY <2>1, <3>1 DEF BrokerInv, Waiting, Distinct
    <3>3. ready[j + 1] \notin redelivered => ready[1] < ready[j + 1]
      BY <2>1, <3>1 DEF BrokerInv, Waiting
    <3>4. QED
      BY <3>1, <3>2, <3>3
  <2>4. t <= published
    BY <2>1 DEF BrokerInv, Waiting
  <2>5. \A i \in 1 .. n : hand[i] \in Nat
    <3>1. \A i \in 1 .. n : hand[i] \in Tags
      BY <1>1
    <3>2. QED
      BY <3>1, TagsAreNaturals
  <2>6. QED
    BY <2>2, <2>3, <2>4, <2>5
<1> HIDE DEF t, n
<1>7. Handed(hand', ready', redelivered, published)
  <2>1. Distinct(hand')
    <3> SUFFICES ASSUME NEW i \in 1 .. Len(hand'), NEW j \in 1 .. Len(hand'), hand'[i] = hand'[j]
                 PROVE  i = j
      BY DEF Distinct
    <3>1. CASE i \in 1 .. n /\ j \in 1 .. n
      BY <1>3, <3>1 DEF BrokerInv, Handed, Distinct, n
    <3>2. CASE i = n + 1 \/ j = n + 1
      BY <1>1, <1>3, <1>6, <3>2
    <3>3. QED
      BY <1>3, <3>1, <3>2
  <2>2. ASSUME NEW i \in 1 .. Len(hand')
        PROVE  /\ hand'[i] <= published
               /\ \A j \in 1 .. Len(ready') :
                    ready'[j] # hand'[i] /\ (ready'[j] \notin redelivered => hand'[i] < ready'[j])
    <3>1. CASE i \in 1 .. n
      BY <1>2, <1>3, <3>1 DEF BrokerInv, Handed, n
    <3>2. CASE i = n + 1
      <4>1. hand'[i] = t
        BY <1>3, <3>2
      <4>2. QED
        BY <1>6, <4>1
    <3>3. QED
      BY <1>3, <3>1, <3>2
  <2>3. ASSUME NEW i \in 1 .. Len(hand'), NEW j \in 1 .. Len(hand'), i < j, hand'[j] < hand'[i]
        PROVE  hand'[j] \in redelivered
    <3>1. CASE j \in 1 .. n
      <4>1. i \in 1 .. n
        BY <1>1, <1>3, <2>3, <3>1
      <4>2. QED
        BY <1>3, <2>3, <3>1, <4>1 DEF BrokerInv, Handed, n
    <3>2. CASE j = n + 1
      <4>1. i \in 1 .. n
        BY <1>1, <1>3, <2>3, <3>2
      <4>2. t < hand[i] /\ hand[i] \in Nat /\ t \in Nat
        BY <1>2, <1>3, <1>6, <2>3, <3>2, <4>1, TagsAreNaturals
      <4>3. t \in redelivered
        BY <1>6, <4>1, <4>2
      <4>4. QED
        BY <1>3, <3>2, <4>3
    <3>3. QED
      BY <1>3, <3>1, <3>2
  <2>4. QED
    BY <2>1, <2>2, <2>3 DEF Handed
<1>8. Waiting(ready', redelivered, published)
  <2>1. Distinct(ready')
    BY <1>2 DEF BrokerInv, Waiting, Distinct
  <2>2. ASSUME NEW j \in 1 .. Len(ready')
        PROVE  /\ ready'[j] <= published
               /\ ready'[j] \notin redelivered =>
                    /\ \A i \in 1 .. Len(ready') : i < j => ready'[i] < ready'[j]
                    /\ \A u \in redelivered : u < ready'[j]
    <3>1. j + 1 \in 1 .. Len(ready) /\ ready'[j] = ready[j + 1]
      BY <1>2
    <3>2. /\ ready[j + 1] <= published
          /\ ready[j + 1] \notin redelivered =>
               /\ \A i \in 1 .. Len(ready) : i < j + 1 => ready[i] < ready[j + 1]
               /\ \A u \in redelivered : u < ready[j + 1]
      BY <3>1 DEF BrokerInv, Waiting
    <3>3. \A i \in 1 .. Len(ready') : i < j =>
             i + 1 \in 1 .. Len(ready) /\ i + 1 < j + 1 /\ ready'[i] = ready[i + 1]
      BY <1>2
    <3>4. QED
      BY <3>1, <3>2, <3>3
  <2>3. QED
    BY <2>1, <2>2 DEF BrokerInv, Waiting
<1>9. Kept(hand', unacked', acked, redelivered)
  <2>1. ToSet(hand') = ToSet(hand) \cup {t}
    <3>1. \A x : x \in ToSet(hand') <=> \E i \in 1 .. Len(hand') : hand'[i] = x
      BY <1>3, ToSetMembers
    <3>2. \A x : x \in ToSet(hand) <=> \E i \in 1 .. n : hand[i] = x
      BY <1>1, ToSetMembers DEF n
    <3>3. n + 1 \in 1 .. Len(hand') /\ \A i \in 1 .. n : i \in 1 .. Len(hand')
      BY <1>1, <1>3
    <3>4. QED
      BY <1>3, <3>1, <3>2, <3>3
  <2>2. QED
    BY <1>4, <2>1 DEF BrokerInv, Kept
<1>10. QED
  BY <1>4, <1>5, <1>7, <1>8, <1>9 DEF BrokerInv

\* A single settlement takes one delivery from the consumer's hands.
LEMMA SettleOneInv ==
    ASSUME BrokerInv, NEW tag \in ToSet(hand), Ack(tag) \/ NackDead(tag)
    PROVE  BrokerInv'
<1>1. /\ hand \in Seq(Tags) /\ ToSet(hand) \subseteq Tags /\ tag \in Tags
  BY ToSetMembers DEF BrokerInv, BrokerTypeOK
<1>2. /\ hand' = Without(hand, {tag}) /\ unacked' = unacked \ {tag}
      /\ acked \subseteq acked' /\ acked' \subseteq acked \cup {tag}
      /\ dead' \subseteq dead \cup {tag}
      /\ UNCHANGED <<ready, redelivered, published, closed>>
  BY DEF Ack, Acked, NackDead
<1>3. hand' \in Seq(Tags) /\ Within(hand', hand) /\ ToSet(hand') = ToSet(hand) \ {tag}
  BY <1>1, <1>2, WithoutIsWithin
<1>4. BrokerTypeOK'
  BY <1>1, <1>2, <1>3 DEF BrokerInv, BrokerTypeOK
<1>5. Handed(hand', ready, redelivered, published)
  BY <1>1, <1>3, HandShrinks DEF BrokerInv
<1>6. Kept(hand', unacked', acked', redelivered)
  BY <1>2, <1>3 DEF BrokerInv, Kept
<1>7. tag <= published
  BY <1>1, ToSetMembers DEF BrokerInv, Handed
<1>8. QED
  BY <1>2, <1>4, <1>5, <1>6, <1>7 DEF BrokerInv

\* A cumulative acknowledgement settles nothing outside the batch but what has come
\* back: the rest of the hand that is older has been overtaken.
LEMMA AckBatchInv ==
    ASSUME BrokerInv, NEW n \in 1 .. Len(hand), AckBatch(n)
    PROVE  BrokerInv'
<1> DEFINE batch == SubSeq(hand, 1, n)
           top == Max(ToSet(batch))
<1>1. /\ hand \in Seq(Tags) /\ ToSet(hand) \subseteq Tags /\ n \in 0 .. Len(hand)
      /\ batch \in Seq(Tags) /\ Len(batch) = n /\ \A i \in 1 .. n : batch[i] = hand[i]
  BY ToSetMembers, FrontIsWithin DEF BrokerInv, BrokerTypeOK
<1>2. /\ hand' = SubSeq(hand, n + 1, Len(hand)) /\ unacked' = unacked \ UpTo(top)
      /\ acked' = acked \cup UpTo(top) /\ UNCHANGED <<ready, redelivered, dead, published, closed>>
  BY DEF AckBatch, Acked
<1>3. /\ hand' \in Seq(Tags) /\ Within(hand', hand) /\ Len(hand') = Len(hand) - n
      /\ \A i \in 1 .. Len(hand') : hand'[i] = hand[i + n]
  BY <1>1, <1>2, TailIsWithin
<1>4. top \in ToSet(batch) /\ \A t \in ToSet(batch) : t <= top
  <2>1. ToSet(batch) \subseteq Nat /\ ToSet(batch) # {}
    <3> HIDE DEF batch
    <3>1. batch[1] \in ToSet(batch) /\ ToSet(batch) \subseteq Tags
      BY <1>1, ToSetMembers
    <3>2. QED
      BY <3>1, TagsAreNaturals
  <2>2. \E x \in ToSet(batch) : \A y \in ToSet(batch) : y <= x
    <3>1. ToSet(batch) \in SUBSET (0 .. FailAfter)
      <4> HIDE DEF batch
      <4>1. ToSet(batch) \subseteq Tags
        BY <1>1, ToSetMembers
      <4>2. QED
        BY <4>1, TagsAreNaturals DEF Tags
    <3>2. QED
      BY <2>1, <3>1, GreatestNatural, TagsAreNaturals
  <2>3. \E x \in ToSet(batch) : \A y \in ToSet(batch) : x >= y
    BY <2>1, <2>2
  <2> HIDE DEF batch
  <2>4. top \in ToSet(batch) /\ \A t \in ToSet(batch) : top >= t
    BY <2>3 DEF Max
  <2>5. QED
    BY <2>1, <2>4
<1>5. PICK m \in 1 .. n : hand[m] = top
  <2> HIDE DEF batch, top
  <2>1. QED
    BY <1>1, <1>4, ToSetMembers
<1>6. \A i \in 1 .. n : hand[i] <= top
  <2> HIDE DEF batch, top
  <2>1. QED
    BY <1>1, <1>4, ToSetMembers
<1> HIDE DEF batch, top
<1>7. ToSet(hand) \subseteq ToSet(hand') \cup {hand[i] : i \in 1 .. n} /\ ToSet(hand') \subseteq ToSet(hand)
  <2>1. \A x : x \in ToSet(hand') <=> \E i \in 1 .. Len(hand') : hand'[i] = x
    BY <1>3, ToSetMembers
  <2>2. \A x : x \in ToSet(hand) <=> \E i \in 1 .. Len(hand) : hand[i] = x
    BY <1>1, ToSetMembers
  <2>3. ASSUME NEW i \in 1 .. Len(hand), i \notin 1 .. n PROVE hand[i] \in ToSet(hand')
    <3>1. i - n \in 1 .. Len(hand') /\ hand'[i - n] = hand[i]
      BY <1>1, <1>3, <2>3
    <3>2. QED
      BY <2>1, <3>1
  <2>4. \A i \in 1 .. Len(hand') : i + n \in 1 .. Len(hand)
    BY <1>1, <1>3
  <2>5. QED
    BY <1>3, <2>1, <2>2, <2>3, <2>4
<1>8. UpTo(top) = {t \in unacked : t <= top} /\ unacked \subseteq Tags /\ unacked \subseteq ToSet(hand)
  BY DEF UpTo, BrokerInv, BrokerTypeOK, Kept
<1>9. BrokerTypeOK'
  BY <1>2, <1>3, <1>8 DEF BrokerInv, BrokerTypeOK
<1>10. Handed(hand', ready, redelivered, published)
  BY <1>1, <1>3, HandShrinks DEF BrokerInv
<1>11. Kept(hand', unacked', acked', redelivered)
  <2>1. unacked' \subseteq ToSet(hand')
    BY <1>2, <1>6, <1>7, <1>8
  <2>2. ASSUME NEW j \in 1 .. Len(hand'), hand'[j] \notin unacked'
        PROVE  hand'[j] \in acked' \cap redelivered
    <3>1. /\ j + n \in 1 .. Len(hand) /\ hand'[j] = hand[j + n] /\ m < j + n
          /\ m \in 1 .. Len(hand) /\ m # j + n
      BY <1>1, <1>3
    <3>2. CASE hand[j + n] \notin unacked
      <4>1. hand[j + n] \in ToSet(hand)
        BY <1>1, <3>1, ToSetMembers
      <4>2. QED
        BY <1>2, <3>1, <3>2, <4>1 DEF BrokerInv, Kept
    <3>3. CASE hand[j + n] \in unacked
      <4>1. hand[j + n] \in UpTo(top)
        BY <1>2, <2>2, <3>1, <3>3
      <4>2. hand[j + n] <= hand[m] /\ hand[j + n] \in acked'
        BY <1>2, <1>5, <1>8, <4>1
      <4>3. hand[j + n] # hand[m]
        BY <3>1 DEF BrokerInv, Handed, Distinct
      <4>4. hand[j + n] < hand[m]
        <5>1. hand[j + n] \in Nat /\ hand[m] \in Nat
          <6>1. hand[j + n] \in Tags /\ hand[m] \in Tags
            BY <1>1, <3>1
          <6>2. QED
            BY <6>1, TagsAreNaturals
        <5>2. QED
          BY <4>2, <4>3, <5>1
      <4>5. hand[j + n] \in redelivered
        BY <3>1, <4>4 DEF BrokerInv, Handed
      <4>6. QED
        BY <3>1, <4>2, <4>5
    <3>4. QED
      BY <3>2, <3>3
  <2>3. \A x \in ToSet(hand') : \E j \in 1 .. Len(hand') : hand'[j] = x
    BY <1>3, ToSetMembers
  <2>4. QED
    <3>1. ASSUME NEW x \in ToSet(hand') \ unacked' PROVE x \in acked' \cap redelivered
      <4>1. PICK j \in 1 .. Len(hand') : hand'[j] = x
        BY <2>3
      <4>2. QED
        BY <2>2, <3>1, <4>1
    <3>2. QED
      BY <2>1, <3>1 DEF Kept
<1>12. \A t \in UpTo(top) : t <= published
  <2>1. \A t \in ToSet(hand) : t <= published
    BY <1>1, ToSetMembers DEF BrokerInv, Handed
  <2>2. QED
    BY <1>8, <2>1
<1>13. QED
  BY <1>2, <1>9, <1>10, <1>11, <1>12 DEF BrokerInv

\* Handing back: what was not settled goes to the tail of the queue, marked.
LEMMA NackRequeueInv ==
    ASSUME BrokerInv, NEW tags \in Seq(Tags), ToSet(tags) \subseteq ToSet(hand), Distinct(tags),
           NackRequeue(tags)
    PROVE  BrokerInv'
<1> DEFINE known == Only(tags, unacked)
           q == Len(ready)
<1>1. /\ hand \in Seq(Tags) /\ ToSet(hand) \subseteq Tags /\ ready \in Seq(Tags)
      /\ q \in Nat /\ published \in 0 .. FailAfter /\ redelivered \subseteq Tags
  BY ToSetMembers DEF BrokerInv, BrokerTypeOK
<1>2. /\ ready' = ready \o known /\ redelivered' = redelivered \cup ToSet(known)
      /\ unacked' = unacked \ ToSet(tags) /\ hand' = Without(hand, ToSet(tags))
      /\ UNCHANGED <<acked, dead, published, closed>>
  BY DEF NackRequeue, Requeued
<1>3. /\ known \in Seq(Tags) /\ Within(known, tags) /\ ToSet(known) = ToSet(tags) \cap unacked
      /\ Distinct(known)
  BY OnlyIsWithin, DistinctWithin
<1>4. hand' \in Seq(Tags) /\ Within(hand', hand) /\ ToSet(hand') = ToSet(hand) \ ToSet(tags)
  BY <1>1, <1>2, WithoutIsWithin
<1> HIDE DEF known
<1>5. /\ \A i \in 1 .. Len(known) : known[i] \in ToSet(known)
      /\ ToSet(known) \subseteq ToSet(hand) /\ ToSet(known) \cap ToSet(hand') = {}
  BY <1>3, <1>4, ToSetMembers
<1>6. /\ ready' \in Seq(Tags) /\ Len(ready') = q + Len(known) /\ Len(known) \in Nat
      /\ \A i \in 1 .. q : ready'[i] = ready[i]
      /\ \A i \in 1 .. Len(ready') :
            i \in 1 .. q \/ (i - q \in 1 .. Len(known) /\ ready'[i] = known[i - q])
  BY <1>1, <1>2, <1>3
<1>7. BrokerTypeOK'
  BY <1>1, <1>2, <1>4, <1>5, <1>6 DEF BrokerInv, BrokerTypeOK
<1>8. \A t \in ToSet(hand) :
         /\ t <= published
         /\ \A j \in 1 .. q : ready[j] # t /\ (ready[j] \notin redelivered => t < ready[j])
  BY <1>1, ToSetMembers DEF BrokerInv, Handed
<1>9. Handed(hand', ready', redelivered', published)
  <2>1. Handed(hand', ready, redelivered, published)
    BY <1>1, <1>4, HandShrinks DEF BrokerInv
  <2>2. ASSUME NEW i \in 1 .. Len(hand'), NEW j \in 1 .. Len(ready')
        PROVE  /\ ready'[j] # hand'[i]
               /\ ready'[j] \notin redelivered' => hand'[i] < ready'[j]
    <3>1. CASE j \in 1 .. q
      BY <1>2, <1>6, <2>1, <3>1 DEF Handed
    <3>2. CASE j \notin 1 .. q
      <4>1. ready'[j] \in ToSet(known)
        BY <1>5, <1>6, <3>2
      <4>2. hand'[i] \in ToSet(hand')
        BY <1>4, ToSetMembers
      <4>3. QED
        BY <1>2, <1>5, <4>1, <4>2
    <3>3. QED
      BY <3>1, <3>2
  <2>3. QED
    BY <1>2, <2>1, <2>2 DEF Handed
<1>10. Waiting(ready', redelivered', published)
  <2>1. Distinct(ready')
    <3> SUFFICES ASSUME NEW i \in 1 .. Len(ready'), NEW j \in 1 .. Len(ready'), ready'[i] = ready'[j]
                 PROVE  i = j
      BY DEF Distinct
    <3>1. CASE i \in 1 .. q /\ j \in 1 .. q
      BY <1>6, <3>1 DEF BrokerInv, Waiting, Distinct
    <3>2. CASE i \notin 1 .. q /\ j \notin 1 .. q
      <4>1. i - q = j - q
        BY <1>3, <1>6, <3>2 DEF Distinct
      <4>2. QED
        BY <1>1, <1>6, <4>1
    <3>3. ASSUME NEW k \in 1 .. q, NEW l \in 1 .. Len(ready'), l \notin 1 .. q
          PROVE  ready'[k] # ready'[l]
      <4>1. ready'[l] \in ToSet(hand)
        BY <1>5, <1>6, <3>3
      <4>2. QED
        BY <1>6, <1>8, <4>1
    <3>4. QED
      BY <3>1, <3>2, <3>3
  <2>2. ASSUME NEW j \in 1 .. Len(ready')
        PROVE  /\ ready'[j] <= published
               /\ ready'[j] \notin redelivered' =>
                    /\ \A i \in 1 .. Len(ready') : i < j => ready'[i] < ready'[j]
                    /\ \A u \in redelivered' : u < ready'[j]
    <3>1. CASE j \in 1 .. q
      <4>1. ready'[j] = ready[j] /\ ready[j] <= published
        BY <1>6, <3>1 DEF BrokerInv, Waiting
      <4>2. ASSUME ready[j] \notin redelivered'
            PROVE  \A i \in 1 .. Len(ready') : i < j => ready'[i] < ready[j]
        <5>1. \A i \in 1 .. q : i < j => ready[i] < ready[j]
          BY <1>2, <3>1, <4>2 DEF BrokerInv, Waiting
        <5>2. \A i \in 1 .. Len(ready') : i < j => i \in 1 .. q
          BY <1>1, <1>6, <3>1
        <5>3. QED
          BY <1>6, <5>1, <5>2
      <4>3. ASSUME ready[j] \notin redelivered', NEW u \in redelivered'
            PROVE  u < ready[j]
        <5>1. CASE u \in redelivered
          BY <1>2, <3>1, <4>3, <5>1 DEF BrokerInv, Waiting
        <5>2. CASE u \in ToSet(known)
          BY <1>2, <1>5, <1>8, <3>1, <4>3, <5>2
        <5>3. QED
          BY <1>2, <4>3, <5>1, <5>2
      <4>4. QED
        BY <4>1, <4>2, <4>3
    <3>2. CASE j \notin 1 .. q
      <4>1. ready'[j] \in ToSet(known)
        BY <1>5, <1>6, <3>2
      <4>2. QED
        BY <1>2, <1>5, <1>8, <4>1
    <3>3. QED
      BY <3>1, <3>2
  <2>3. \A t \in redelivered' : t <= published
    BY <1>2, <1>5, <1>8 DEF BrokerInv, Waiting
  <2>4. QED
    BY <2>1, <2>2, <2>3 DEF Waiting
<1>11. Kept(hand', unacked', acked, redelivered')
  BY <1>2, <1>4 DEF BrokerInv, Kept
<1>12. QED
  BY <1>2, <1>7, <1>9, <1>10, <1>11 DEF BrokerInv

\* Every step of the double and its consumer keeps the invariant.
LEMMA BrokerNextInv == BrokerInv /\ [BrokerNext]_brokerVars => BrokerInv'
<1> SUFFICES ASSUME BrokerInv, [BrokerNext]_brokerVars PROVE BrokerInv'
  OBVIOUS
<1>1. hand \in Seq(Tags) /\ ToSet(hand) \subseteq Tags /\ Distinct(hand)
  BY ToSetMembers DEF BrokerInv, BrokerTypeOK, Handed
<1>2. CASE Publish
  BY <1>2, PublishInv
<1>3. CASE NextDelivery
  BY <1>3, NextDeliveryInv
<1>4. ASSUME NEW tag \in ToSet(hand), Ack(tag) \/ NackDead(tag) PROVE BrokerInv'
  BY <1>4, SettleOneInv
<1>5. ASSUME NEW tag \in ToSet(hand), NackRequeue(<<tag>>) PROVE BrokerInv'
  <2>1. /\ <<tag>> \in Seq(Tags) /\ ToSet(<<tag>>) \subseteq ToSet(hand) /\ Distinct(<<tag>>)
    BY <1>1 DEF ToSet, Distinct
  <2>2. QED
    BY <1>5, <2>1, NackRequeueInv
<1>6. ASSUME NEW n \in 1 .. Len(hand), AckBatch(n) PROVE BrokerInv'
  BY <1>6, AckBatchInv
<1>7. ASSUME NEW n \in 1 .. Len(hand), NackRequeue(SubSeq(hand, 1, n)) PROVE BrokerInv'
  <2> DEFINE batch == SubSeq(hand, 1, n)
  <2>1. batch \in Seq(Tags) /\ Distinct(batch) /\ Len(batch) = n /\ \A i \in 1 .. n : batch[i] = hand[i]
    BY <1>1, FrontIsWithin
  <2> HIDE DEF batch
  <2>2. ToSet(batch) \subseteq ToSet(hand)
    BY <1>1, <2>1, ToSetMembers
  <2>3. NackRequeue(batch)
    BY <1>7 DEF batch
  <2>4. QED
    BY <2>1, <2>2, <2>3, NackRequeueInv
<1>8. CASE Close
  <2>1. BrokerTypeOK'
    BY <1>8, Zenon DEF BrokerInv, BrokerTypeOK, Close
  <2>2. QED
    BY <1>8, <2>1 DEF BrokerInv, Close
<1>9. CASE BrokerIdle \/ UNCHANGED brokerVars
  BY <1>9 DEF BrokerInv, BrokerTypeOK, BrokerIdle, brokerVars
<1>10. QED
  BY <1>2, <1>3, <1>4, <1>5, <1>6, <1>7, <1>8, <1>9 DEF BrokerNext

\* The inductive invariant of the double: queue and hand share no tag, what waits for the
\* first time is in publish order behind all that came back, and a delivery in hand that
\* is overtaken, or was settled under the consumer's hands, had come back.
THEOREM BrokerInvariant == BrokerSpec => []BrokerInv
<1>1. BrokerInit => BrokerInv
  BY BrokerInitInv
<1>2. BrokerInv /\ [BrokerNext]_brokerVars => BrokerInv'
  BY BrokerNextInv
<1>3. QED
  BY <1>1, <1>2, PTL DEF BrokerSpec

\* The double keeps what the consumer has at hand among its unsettled deliveries, and
\* lets go of none early but those that had come back.
THEOREM EarlySettlement == BrokerSpec => []EarlyOnlyIfRedelivered
<1>1. BrokerInv => EarlyOnlyIfRedelivered
  BY DEF BrokerInv, Kept, EarlyOnlyIfRedelivered
<1>2. QED
  BY <1>1, BrokerInvariant, PTL

-----------------------------------------------------------------------------
(* The double keeps to the broker ports.                                   *)

\* The empty double is the empty queue of the ports.
LEMMA BrokerInitQueue == BrokerInit => Queue!Init
  BY DEF BrokerInit, Queue!Init, ToSet

\* The oldest is the first of those that wait for the first time.
LEMMA NextDeliveryQueue ==
    ASSUME BrokerInv, NextDelivery
    PROVE  \E m \in Tags : Queue!Deliver(m)
<1> DEFINE m == ready[1]
<1>1. /\ ready \in Seq(Tags) /\ hand \in Seq(Tags) /\ ready # << >>
      /\ ToSet(ready) \subseteq Tags /\ unacked \subseteq ToSet(hand)
  BY ToSetMembers DEF BrokerInv, BrokerTypeOK, NextDelivery, Kept
<1>2. /\ m \in Tags /\ Len(ready) \in Nat \ {0} /\ Head(ready) = m /\ 1 \in 1 .. Len(ready)
      /\ ready' \in Seq(Tags) /\ Len(ready') = Len(ready) - 1
      /\ \A i \in 1 .. Len(ready') : ready'[i] = ready[i + 1] /\ i + 1 \in 1 .. Len(ready)
  BY <1>1 DEF NextDelivery
<1>3. m \in ToSet(ready)
  BY <1>1, <1>2, ToSetMembers
<1>4. ToSet(ready') = ToSet(ready) \ {m}
  <2>1. \A x : x \in ToSet(ready') <=> \E i \in 1 .. Len(ready') : ready'[i] = x
    BY <1>2, ToSetMembers
  <2>2. \A x : x \in ToSet(ready) <=> \E i \in 1 .. Len(ready) : ready[i] = x
    BY <1>1, ToSetMembers
  <2>3. ASSUME NEW i \in 1 .. Len(ready), ready[i] # m PROVE ready[i] \in ToSet(ready')
    <3>1. i - 1 \in 1 .. Len(ready') /\ ready'[i - 1] = ready[i]
      BY <1>2, <2>3
    <3>2. QED
      BY <2>1, <3>1
  <2>4. \A i \in 1 .. Len(ready') : ready'[i] # m
    <3>1. \A i \in 1 .. Len(ready') : i + 1 # 1
      OBVIOUS
    <3>2. QED
      BY <1>2, <3>1 DEF BrokerInv, Waiting, Distinct
  <2> HIDE DEF m
  <2>5. QED
    BY <1>2, <2>1, <2>2, <2>3, <2>4
<1>5. m \in redelivered \/ \A n \in ToSet(ready) \ redelivered : m <= n
  <2> SUFFICES ASSUME NEW n \in ToSet(ready) \ redelivered PROVE m <= n
    OBVIOUS
  <2>1. PICK i \in 1 .. Len(ready) : ready[i] = n
    BY <1>1, ToSetMembers
  <2>2. m \in Nat /\ n \in Nat
    BY <1>1, <1>2, TagsAreNaturals
  <2>3. CASE i = 1
    BY <2>1, <2>2, <2>3
  <2>4. CASE i # 1
    <3>1. 1 < i
      BY <2>1, <2>4
    <3>2. m < n
      BY <1>2, <2>1, <3>1 DEF BrokerInv, Waiting
    <3>3. QED
      BY <2>2, <3>2
  <2>5. QED
    BY <2>3, <2>4
<1>6. Queue!InOrder(m)
  BY <1>5 DEF Queue!InOrder
<1>7. Queue!Deliver(m)
  <2>1. unacked' = unacked \cup {m} /\ UNCHANGED <<acked, dead, redelivered>>
    BY <1>2 DEF NextDelivery
  <2> HIDE DEF m
  <2>2. QED
    BY <1>3, <1>4, <1>6, <2>1 DEF Queue!Deliver
<1>8. QED
  BY <1>2, <1>7

\* A publish of the double is a publish of the queue.
LEMMA PublishQueue ==
    ASSUME BrokerInv, Publish
    PROVE  \E m \in Tags : Queue!Publish(m)
<1> DEFINE n == published + 1
<1>1. /\ ready \in Seq(Tags) /\ hand \in Seq(Tags) /\ ToSet(ready) \subseteq Tags
      /\ ToSet(hand) \subseteq Tags /\ published \in 0 .. FailAfter /\ unacked \subseteq ToSet(hand)
      /\ acked \subseteq Tags /\ dead \subseteq Tags
  BY ToSetMembers DEF BrokerInv, BrokerTypeOK, Kept
<1>2. n \in Tags /\ ready' = Append(ready, n) /\ UNCHANGED <<unacked, redelivered, acked, dead>>
  BY <1>1, TagsAreNaturals DEF Publish, Tags
<1>3. \A t \in ToSet(ready) \cup ToSet(hand) \cup acked \cup dead : t <= published
  BY <1>1, ToSetMembers DEF BrokerInv, Handed, Waiting
<1>4. \A t \in ToSet(ready) \cup ToSet(hand) \cup acked \cup dead : t # n
  <2>1. ~(n <= published)
    BY <1>1
  <2> HIDE DEF n
  <2>2. QED
    BY <1>3, <2>1
<1>5. ToSet(ready') = ToSet(ready) \cup {n}
  <2>1. /\ ready' \in Seq(Tags) /\ Len(ready') = Len(ready) + 1 /\ ready'[Len(ready) + 1] = n
        /\ \A i \in 1 .. Len(ready) : ready'[i] = ready[i]
        /\ \A i \in 1 .. Len(ready') : i \in 1 .. Len(ready) \/ i = Len(ready) + 1
        /\ \A i \in 1 .. Len(ready) : i \in 1 .. Len(ready')
        /\ Len(ready) + 1 \in 1 .. Len(ready')
    BY <1>1, <1>2
  <2>2. \A x : x \in ToSet(ready') <=> \E i \in 1 .. Len(ready') : ready'[i] = x
    BY <2>1, ToSetMembers
  <2>3. \A x : x \in ToSet(ready) <=> \E i \in 1 .. Len(ready) : ready[i] = x
    BY <1>1, ToSetMembers
  <2> HIDE DEF n
  <2>4. QED
    BY <2>1, <2>2, <2>3
<1> HIDE DEF n
<1>6. Queue!Publish(n)
  BY <1>1, <1>2, <1>4, <1>5 DEF Queue!Publish
<1>7. QED
  BY <1>2, <1>6

\* Envelopes handed back return to the queue marked.
LEMMA RequeueQueue ==
    ASSUME BrokerInv, NEW tags \in Seq(Tags), NackRequeue(tags)
    PROVE  \E S \in SUBSET unacked : Queue!Requeue(S)
<1> DEFINE known == Only(tags, unacked)
           S == ToSet(tags) \cap unacked
<1>1. ready \in Seq(Tags)
  BY DEF BrokerInv, BrokerTypeOK
<1>2. /\ ready' = ready \o known /\ redelivered' = redelivered \cup ToSet(known)
      /\ unacked' = unacked \ ToSet(tags) /\ UNCHANGED <<acked, dead>>
  BY DEF NackRequeue, Requeued
<1>3. known \in Seq(Tags) /\ ToSet(known) = S
  BY OnlyIsWithin
<1> HIDE DEF known
<1>4. ToSet(ready') = ToSet(ready) \cup ToSet(known)
  <2>1. /\ ready' \in Seq(Tags) /\ Len(known) \in Nat /\ Len(ready) \in Nat
        /\ \A i \in 1 .. Len(ready) : i \in 1 .. Len(ready') /\ ready'[i] = ready[i]
        /\ \A i \in 1 .. Len(known) :
              i + Len(ready) \in 1 .. Len(ready') /\ ready'[i + Len(ready)] = known[i]
        /\ \A i \in 1 .. Len(ready') :
              \/ i \in 1 .. Len(ready)
              \/ (i - Len(ready) \in 1 .. Len(known) /\ ready'[i] = known[i - Len(ready)])
    BY <1>1, <1>2, <1>3
  <2>2. \A x : x \in ToSet(ready') <=> \E i \in 1 .. Len(ready') : ready'[i] = x
    BY <2>1, ToSetMembers
  <2>3. /\ \A x : x \in ToSet(ready) <=> \E i \in 1 .. Len(ready) : ready[i] = x
        /\ \A x : x \in ToSet(known) <=> \E i \in 1 .. Len(known) : known[i] = x
    BY <1>1, <1>3, ToSetMembers
  <2>4. ASSUME NEW x \in ToSet(ready') PROVE x \in ToSet(ready) \cup ToSet(known)
    <3>1. PICK i \in 1 .. Len(ready') : ready'[i] = x
      BY <2>2
    <3>2. QED
      BY <2>1, <2>3, <3>1
  <2>5. ASSUME NEW x \in ToSet(ready) PROVE x \in ToSet(ready')
    BY <2>1, <2>2, <2>3
  <2>6. ASSUME NEW x \in ToSet(known) PROVE x \in ToSet(ready')
    BY <2>1, <2>2, <2>3
  <2>7. QED
    BY <2>4, <2>5, <2>6
<1>5. Queue!Requeue(S)
  <2>1. unacked \ ToSet(tags) = unacked \ S
    OBVIOUS
  <2>2. QED
    BY <1>2, <1>3, <1>4, <2>1 DEF Queue!Requeue
<1>6. QED
  BY <1>5

\* Each step of the double maps to a step of the queue or to a stutter.
LEMMA BrokerNextQueue ==
    BrokerInv /\ [BrokerNext]_brokerVars => [Queue!Next]_(Queue!vars)
<1> SUFFICES ASSUME BrokerInv, [BrokerNext]_brokerVars PROVE [Queue!Next]_(Queue!vars)
  OBVIOUS
<1>1. hand \in Seq(Tags) /\ ToSet(hand) \subseteq Tags /\ Kept(hand, unacked, acked, redelivered)
  BY ToSetMembers DEF BrokerInv, BrokerTypeOK
<1>2. CASE Publish
  BY <1>2, PublishQueue DEF Queue!Next
<1>3. CASE NextDelivery
  BY <1>3, NextDeliveryQueue DEF Queue!Next
<1>4. ASSUME NEW tag \in ToSet(hand), Ack(tag) PROVE \E S \in SUBSET unacked : Queue!Ack(S)
  <2>1. /\ unacked' = unacked \ {tag} /\ acked' = acked \cup {tag}
        /\ UNCHANGED <<ready, redelivered, dead>>
    BY <1>4 DEF Ack, Acked
  <2> DEFINE S == {tag} \cap unacked
  <2>2. unacked' = unacked \ S /\ acked' = acked \cup S
    BY <1>1, <2>1 DEF Kept
  <2>3. Queue!Ack(S)
    BY <2>1, <2>2 DEF Queue!Ack
  <2>4. QED
    BY <2>3
<1>5. ASSUME NEW tag \in ToSet(hand), NackDead(tag)
      PROVE  \E S \in SUBSET unacked : Queue!DeadLetter(S)
  <2> DEFINE S == {tag} \cap unacked
  <2>1. /\ unacked' = unacked \ S /\ dead' = dead \cup S
        /\ UNCHANGED <<ready, redelivered, acked>>
    BY <1>5 DEF NackDead
  <2>2. Queue!DeadLetter(S)
    BY <2>1 DEF Queue!DeadLetter
  <2>3. QED
    BY <2>2
<1>6. ASSUME NEW n \in 1 .. Len(hand), AckBatch(n) PROVE \E S \in SUBSET unacked : Queue!Ack(S)
  <2> DEFINE S == UpTo(Max(ToSet(SubSeq(hand, 1, n))))
  <2>1. S \subseteq unacked
    BY DEF UpTo
  <2>2. Queue!Ack(S)
    BY <1>6 DEF AckBatch, Acked, Queue!Ack
  <2> HIDE DEF S
  <2>3. QED
    BY <2>1, <2>2
<1>7. ASSUME NEW tag \in ToSet(hand), NackRequeue(<<tag>>)
      PROVE  \E S \in SUBSET unacked : Queue!Requeue(S)
  <2>1. <<tag>> \in Seq(Tags)
    BY <1>1
  <2>2. QED
    BY <1>7, <2>1, RequeueQueue
<1>8. ASSUME NEW n \in 1 .. Len(hand), NackRequeue(SubSeq(hand, 1, n))
      PROVE  \E S \in SUBSET unacked : Queue!Requeue(S)
  <2>1. SubSeq(hand, 1, n) \in Seq(Tags)
    BY <1>1, FrontIsWithin
  <2>2. QED
    BY <1>8, <2>1, RequeueQueue
<1>9. CASE Close \/ BrokerIdle \/ UNCHANGED brokerVars
  BY <1>9 DEF Close, BrokerIdle, brokerVars, Queue!vars
<1>10. QED
  BY <1>2, <1>3, <1>4, <1>5, <1>6, <1>7, <1>8, <1>9 DEF BrokerNext, Queue!Next

\* Every step of the double is a step of the queue that the ports promise, or none.
THEOREM BrokerImplementsQueue == BrokerSpec => ImplementsQueue
<1>1. BrokerInit => Queue!Init
  BY BrokerInitQueue
<1>2. BrokerInv /\ [BrokerNext]_brokerVars => [Queue!Next]_(Queue!vars)
  BY BrokerNextQueue
<1>3. QED
  BY <1>1, <1>2, BrokerInvariant, PTL DEF BrokerSpec, ImplementsQueue, Queue!Spec

-----------------------------------------------------------------------------
(* The shared publisher channel.                                           *)

\* A channel that the adapter left behind and that no caller will bring back.
LeftBehind(n) == n # channel /\ \A c \in Callers : caller[c] = "declaring" => own[c] # n

\* Who connected because of which channel: G holds, for the connections that were not
\* lost to a failed declaration, the caller and the channel (or none) it found
\* unusable; found is that channel for the callers that are still at it.  A caller
\* does not find the same one unusable again.
Book(G, found) ==
    /\ G \subseteq Callers \X ({None} \cup lost)
    /\ opened <= Cardinality(G) + failures
    /\ \A c \in Callers : caller[c] \in {"connecting", "declaring"} =>
          /\ found[c] \in {None} \cup lost
          /\ \A d \in Callers : caller[d] = "declaring" => own[d] # found[c]
    /\ \A c \in Callers : caller[c] = "connecting" => <<c, found[c]>> \notin G
    /\ \A c \in Callers : caller[c] = "declaring" => <<c, found[c]>> \in G
    /\ \A c \in Callers, n \in {None} \cup lost :
          (<<c, n>> \in G /\ caller[c] # "over") =>
             ((caller[c] = "declaring" /\ n = found[c]) \/ LeftBehind(n))

\* Each caller declares on a connection of its own, that nobody uses yet.
OwnConnections ==
    \A c \in Callers : caller[c] = "declaring" =>
        /\ own[c] \in 1 .. opened /\ own[c] # channel
        /\ \A d \in Callers : (caller[d] = "declaring" /\ own[d] = own[c]) => d = c

ChannelInv ==
    /\ ChannelTypeOK
    /\ OwnConnections
    /\ \E G : \E found \in [Callers -> Nat] : Book(G, found)

\* The open connections are finitely many, so that they can be counted.
LEMMA BookFinite ==
    ASSUME ChannelTypeOK, NEW G, G \subseteq Callers \X ({None} \cup lost)
    PROVE  /\ IsFiniteSet(G) /\ Cardinality(G) \in Nat
           /\ IsFiniteSet(lost) /\ IsFiniteSet(open)
           /\ Cardinality(lost) \in Nat /\ Cardinality(open) <= opened /\ Cardinality(open) \in Nat
           /\ Cardinality(G) <= Cardinality(Callers) * (1 + Cardinality(lost))
<1>1. opened \in Nat /\ IsFiniteSet(1 .. opened) /\ Cardinality(1 .. opened) = opened
  BY FS_Interval DEF ChannelTypeOK
<1>2. IsFiniteSet(lost) /\ IsFiniteSet(open) /\ Cardinality(open) <= opened
  <2>1. lost \in SUBSET (1 .. opened) /\ open \in SUBSET (1 .. opened)
    BY DEF ChannelTypeOK
  <2>2. QED
    BY <1>1, <2>1, FS_Subset
<1>3. Cardinality(lost) \in Nat /\ Cardinality(open) \in Nat /\ Cardinality(Callers) \in Nat
  BY <1>2, CallersAssumption, FS_CardinalityType
<1>4. None \notin lost
  BY <1>1 DEF ChannelTypeOK, None
<1>5. IsFiniteSet({None} \cup lost) /\ Cardinality({None} \cup lost) = Cardinality(lost) + 1
  <2>1. {None} \cup lost = lost \cup {None}
    OBVIOUS
  <2>2. IsFiniteSet(lost \cup {None}) /\ Cardinality(lost \cup {None}) = Cardinality(lost) + 1
    BY <1>2, <1>4, FS_AddElement
  <2>3. QED
    BY <2>1, <2>2
<1>6. /\ IsFiniteSet(Callers \X ({None} \cup lost))
      /\ Cardinality(Callers \X ({None} \cup lost)) =
           Cardinality(Callers) * Cardinality({None} \cup lost)
  BY <1>5, CallersAssumption, FS_Product
<1>7. IsFiniteSet(G) /\ Cardinality(G) <= Cardinality(Callers \X ({None} \cup lost))
  BY <1>6, FS_Subset
<1>8. Cardinality(G) \in Nat
  BY <1>7, FS_CardinalityType
<1>9. Cardinality(lost) + 1 = 1 + Cardinality(lost)
  BY <1>3
<1>10. QED
  BY <1>2, <1>3, <1>5, <1>6, <1>7, <1>8, <1>9

\* At first nothing is open and nobody is connecting.
LEMMA ChannelInitInv == ChannelInit => ChannelInv
<1> SUFFICES ASSUME ChannelInit PROVE ChannelInv
  OBVIOUS
<1>1. ChannelTypeOK
  BY LossesAssumption DEF ChannelInit, ChannelTypeOK, None
<1>2. OwnConnections
  BY DEF ChannelInit, OwnConnections
<1> DEFINE found == [c \in Callers |-> 0]
<1>3. Book({}, found)
  BY FS_EmptySet DEF ChannelInit, Book
<1>4. QED
  BY <1>1, <1>2, <1>3 DEF ChannelInv

\* Steps that neither open a connection nor make a channel current.
LEMMA QuietInv ==
    ASSUME ChannelInv, NEW c \in Callers, UseChannel(c) \/ Published(c) \/ ConnectFails(c)
    PROVE  ChannelInv'
<1>1. PICK G : \E found \in [Callers -> Nat] : Book(G, found)
  BY DEF ChannelInv
<1>2. PICK found \in [Callers -> Nat] : Book(G, found)
  BY <1>1
<1>3. /\ caller \in [Callers -> {"idle", "connecting", "declaring", "publishing", "over"}]
      /\ own \in [Callers -> 0 .. opened] /\ opened \in Nat
      /\ channel \in 0 .. opened
  BY DEF ChannelInv, ChannelTypeOK
<1>4. /\ caller[c] # "over" /\ caller[c] # "declaring"
      /\ caller'[c] \in {"idle", "publishing"} /\ own' \in [Callers -> 0 .. opened]
      /\ \A d \in Callers : d # c => caller'[d] = caller[d] /\ own'[d] = own[d]
      /\ caller' \in [Callers -> {"idle", "connecting", "declaring", "publishing", "over"}]
      /\ UNCHANGED <<connection, channel, open, lost, opened, failures>>
  BY <1>3 DEF UseChannel, Published, ConnectFails, Goes, None
<1>5. ChannelTypeOK'
  BY <1>4 DEF ChannelInv, ChannelTypeOK
<1>6. \A d \in Callers : caller'[d] = "declaring" => caller[d] = "declaring" /\ own'[d] = own[d]
  BY <1>4
<1>7. OwnConnections'
  BY <1>4, <1>6 DEF ChannelInv, OwnConnections
<1>8. \A n : LeftBehind(n) => LeftBehind(n)'
  BY <1>4, <1>6 DEF LeftBehind
<1>9. Book(G, found)'
  <2>1. /\ G \subseteq Callers \X ({None} \cup lost')
        /\ opened' <= Cardinality(G) + failures'
    BY <1>2, <1>4 DEF Book
  <2>2. ASSUME NEW d \in Callers, caller'[d] \in {"connecting", "declaring"}
        PROVE  /\ found[d] \in {None} \cup lost'
               /\ \A e \in Callers : caller'[e] = "declaring" => own'[e] # found[d]
               /\ caller'[d] = "connecting" => <<d, found[d]>> \notin G
               /\ caller'[d] = "declaring" => <<d, found[d]>> \in G
    <3>1. d # c /\ caller'[d] = caller[d]
      BY <1>4, <2>2
    <3>2. QED
      BY <1>2, <1>4, <1>6, <2>2, <3>1 DEF Book
  <2>3. ASSUME NEW d \in Callers, NEW n \in {None} \cup lost', <<d, n>> \in G, caller'[d] # "over"
        PROVE  (caller'[d] = "declaring" /\ n = found[d]) \/ LeftBehind(n)'
    <3>1. (caller[d] = "declaring" /\ n = found[d]) \/ LeftBehind(n)
      BY <1>2, <1>4, <2>3 DEF Book
    <3>2. CASE d = c
      BY <1>4, <1>8, <3>1, <3>2
    <3>3. CASE d # c
      BY <1>4, <1>8, <3>1, <3>3
    <3>4. QED
      BY <3>2, <3>3
  <2>4. QED
    BY <2>1, <2>2, <2>3 DEF Book
<1>10. QED
  BY <1>5, <1>7, <1>9 DEF ChannelInv

\* A caller finds the channel unusable: not one it had found so before.
LEMMA StartConnectingInv ==
    ASSUME ChannelInv, NEW c \in Callers, StartConnecting(c)
    PROVE  ChannelInv'
<1>1. PICK G : \E found \in [Callers -> Nat] : Book(G, found)
  BY DEF ChannelInv
<1>2. PICK found \in [Callers -> Nat] : Book(G, found)
  BY <1>1
<1>3. /\ caller \in [Callers -> {"idle", "connecting", "declaring", "publishing", "over"}]
      /\ opened \in Nat /\ channel \in 0 .. opened
  BY DEF ChannelInv, ChannelTypeOK
<1>4. /\ caller[c] = "idle" /\ caller'[c] = "connecting"
      /\ \A d \in Callers : d # c => caller'[d] = caller[d]
      /\ caller' \in [Callers -> {"idle", "connecting", "declaring", "publishing", "over"}]
      /\ channel \in {None} \cup lost
      /\ UNCHANGED <<own, connection, channel, open, lost, opened, failures>>
  BY <1>3 DEF StartConnecting, Usable, Goes
<1>5. PICK t : t = [found EXCEPT ![c] = channel]
  OBVIOUS
<1>6. t \in [Callers -> Nat] /\ t[c] = channel /\ \A d \in Callers : d # c => t[d] = found[d]
  BY <1>3, <1>5
<1>7. ChannelTypeOK'
  BY <1>4 DEF ChannelInv, ChannelTypeOK
<1>8. \A d \in Callers : caller'[d] = "declaring" <=> caller[d] = "declaring"
  BY <1>4
<1>9. OwnConnections'
  BY <1>4, <1>8 DEF ChannelInv, OwnConnections
<1>10. \A n : LeftBehind(n) => LeftBehind(n)'
  BY <1>4, <1>8 DEF LeftBehind
<1>11. Book(G, t)'
  <2>1. /\ G \subseteq Callers \X ({None} \cup lost')
        /\ opened' <= Cardinality(G) + failures'
    BY <1>2, <1>4 DEF Book
  <2>2. ASSUME NEW d \in Callers, caller'[d] \in {"connecting", "declaring"}
        PROVE  /\ t[d] \in {None} \cup lost'
               /\ \A e \in Callers : caller'[e] = "declaring" => own'[e] # t[d]
               /\ caller'[d] = "connecting" => <<d, t[d]>> \notin G
               /\ caller'[d] = "declaring" => <<d, t[d]>> \in G
    <3>1. CASE d # c
      BY <1>2, <1>4, <1>6, <1>8, <2>2, <3>1 DEF Book
    <3>2. CASE d = c
      <4>1. t[d] = channel /\ caller'[d] = "connecting"
        BY <1>4, <1>6, <3>2
      <4>2. \A e \in Callers : caller'[e] = "declaring" => own'[e] # channel
        BY <1>4, <1>8 DEF ChannelInv, OwnConnections
      <4>3. <<c, channel>> \notin G
        BY <1>2, <1>4 DEF Book, LeftBehind
      <4>4. QED
        BY <1>4, <3>2, <4>1, <4>2, <4>3
    <3>3. QED
      BY <3>1, <3>2
  <2>3. ASSUME NEW d \in Callers, NEW n \in {None} \cup lost', <<d, n>> \in G, caller'[d] # "over"
        PROVE  (caller'[d] = "declaring" /\ n = t[d]) \/ LeftBehind(n)'
    <3>1. /\ caller[d] # "over"
          /\ (caller[d] = "declaring" /\ n = found[d]) \/ LeftBehind(n)
      BY <1>2, <1>4, <2>3 DEF Book
    <3>2. CASE d = c
      BY <1>4, <1>10, <3>1, <3>2
    <3>3. CASE d # c
      BY <1>4, <1>6, <1>10, <3>1, <3>3
    <3>4. QED
      BY <3>2, <3>3
  <2>4. QED
    BY <2>1, <2>2, <2>3 DEF Book
<1>12. QED
  BY <1>6, <1>7, <1>9, <1>11 DEF ChannelInv

\* A new connection: its number is used nowhere yet.
LEMMA ConnectedInv ==
    ASSUME ChannelInv, NEW c \in Callers, Connected(c)
    PROVE  ChannelInv'
<1>1. PICK G : \E found \in [Callers -> Nat] : Book(G, found)
  BY DEF ChannelInv
<1>2. PICK found \in [Callers -> Nat] : Book(G, found)
  BY <1>1
<1>3. /\ caller \in [Callers -> {"idle", "connecting", "declaring", "publishing", "over"}]
      /\ own \in [Callers -> 0 .. opened] /\ opened \in Nat
      /\ channel \in 0 .. opened /\ connection \in 0 .. opened
      /\ open \subseteq 1 .. opened /\ lost \subseteq 1 .. opened /\ failures \in 0 .. MaxFailures
  BY DEF ChannelInv, ChannelTypeOK
<1>4. /\ caller[c] = "connecting" /\ caller'[c] = "declaring" /\ own'[c] = opened + 1
      /\ \A d \in Callers : d # c => caller'[d] = caller[d] /\ own'[d] = own[d]
      /\ caller' \in [Callers -> {"idle", "connecting", "declaring", "publishing", "over"}]
      /\ own' \in [Callers -> 0 .. opened + 1]
      /\ opened' = opened + 1 /\ open' = open \cup {opened + 1} /\ connection' = opened + 1
      /\ UNCHANGED <<channel, lost, failures>>
  <2>1. /\ caller[c] = "connecting" /\ caller' = [caller EXCEPT ![c] = "declaring"]
        /\ own' = [own EXCEPT ![c] = opened + 1]
        /\ opened' = opened + 1 /\ open' = open \cup {opened + 1} /\ connection' = opened + 1
        /\ UNCHANGED <<channel, lost, failures>>
    BY DEF Connected, Goes
  <2>2. own' \in [Callers -> 0 .. opened + 1]
    BY <1>3, <2>1
  <2>3. QED
    BY <1>3, <2>1, <2>2
<1>5. ChannelTypeOK'
  <2>1. open' \subseteq 1 .. opened' /\ lost' \subseteq 1 .. opened'
    BY <1>3, <1>4
  <2>2. opened' \in Nat /\ connection' \in 0 .. opened' /\ channel' \in 0 .. opened'
    BY <1>3, <1>4
  <2>3. QED
    BY <1>3, <1>4, <2>1, <2>2 DEF ChannelTypeOK
<1>6. \A d \in Callers : caller'[d] = "declaring" => (d = c \/ (caller[d] = "declaring" /\ own'[d] = own[d]))
  BY <1>4
<1>7. OwnConnections'
  <2> SUFFICES ASSUME NEW d \in Callers, caller'[d] = "declaring"
               PROVE  /\ own'[d] \in 1 .. opened' /\ own'[d] # channel'
                      /\ \A e \in Callers : (caller'[e] = "declaring" /\ own'[e] = own'[d]) => e = d
    BY DEF OwnConnections
  <2>1. ASSUME NEW e \in Callers, caller'[e] = "declaring", e # c
        PROVE  own'[e] = own[e] /\ own[e] \in 1 .. opened /\ own[e] # channel /\ caller[e] = "declaring"
    BY <1>6, <2>1 DEF ChannelInv, OwnConnections
  <2>2. CASE d = c
    BY <1>3, <1>4, <2>1, <2>2
  <2>3. CASE d # c
    <3>1. own'[d] \in 1 .. opened' /\ own'[d] # channel' /\ own'[d] # own'[c]
      BY <1>3, <1>4, <2>1, <2>3
    <3>2. QED
      BY <1>4, <2>1, <2>3, <3>1 DEF ChannelInv, OwnConnections
  <2>4. QED
    BY <2>2, <2>3
<1>8. \A n \in {None} \cup lost : LeftBehind(n) => LeftBehind(n)'
  <2>1. \A n \in {None} \cup lost : n # opened + 1
    BY <1>3 DEF None
  <2>2. QED
    BY <1>4, <1>6, <2>1 DEF LeftBehind
<1>9. PICK H : H = G \cup {<<c, found[c]>>}
  OBVIOUS
<1>10. found[c] \in {None} \cup lost /\ <<c, found[c]>> \notin G /\ G \subseteq Callers \X ({None} \cup lost)
  BY <1>2, <1>4 DEF Book
<1>11. Book(H, found)'
  <2>1. H \subseteq Callers \X ({None} \cup lost')
    BY <1>4, <1>9, <1>10
  <2>2. opened' <= Cardinality(H) + failures'
    <3>1. IsFiniteSet(G) /\ Cardinality(G) \in Nat
      BY <1>10, BookFinite DEF ChannelInv
    <3>2. Cardinality(H) = Cardinality(G) + 1
      BY <1>9, <1>10, <3>1, FS_AddElement
    <3>3. opened <= Cardinality(G) + failures /\ failures \in Nat
      BY <1>2, <1>3, LossesAssumption DEF Book
    <3>4. QED
      BY <1>3, <1>4, <3>1, <3>2, <3>3
  <2>3. ASSUME NEW d \in Callers, caller'[d] \in {"connecting", "declaring"}
        PROVE  /\ found[d] \in {None} \cup lost'
               /\ \A e \in Callers : caller'[e] = "declaring" => own'[e] # found[d]
    <3>1. caller[d] \in {"connecting", "declaring"}
      BY <1>4, <2>3
    <3>2. /\ found[d] \in {None} \cup lost
          /\ \A e \in Callers : caller[e] = "declaring" => own[e] # found[d]
      BY <1>2, <3>1 DEF Book
    <3>3. found[d] # opened + 1
      BY <1>3, <3>2 DEF None
    <3>4. QED
      BY <1>4, <1>6, <3>2, <3>3
  <2>4. ASSUME NEW d \in Callers
        PROVE  /\ caller'[d] = "connecting" => <<d, found[d]>> \notin H
               /\ caller'[d] = "declaring" => <<d, found[d]>> \in H
    <3>1. CASE d = c
      BY <1>4, <1>9, <3>1
    <3>2. CASE d # c
      <4>1. <<d, found[d]>> \in H <=> <<d, found[d]>> \in G
        BY <1>9, <3>2
      <4>2. QED
        BY <1>2, <1>4, <3>2, <4>1 DEF Book
    <3>3. QED
      BY <3>1, <3>2
  <2>5. ASSUME NEW d \in Callers, NEW n \in {None} \cup lost', <<d, n>> \in H, caller'[d] # "over"
        PROVE  (caller'[d] = "declaring" /\ n = found[d]) \/ LeftBehind(n)'
    <3>1. CASE <<d, n>> \in G
      <4>1. (caller[d] = "declaring" /\ n = found[d]) \/ LeftBehind(n)
        BY <1>2, <1>4, <2>5, <3>1 DEF Book
      <4>2. caller[d] = "declaring" => caller'[d] = "declaring"
        BY <1>4
      <4>3. QED
        BY <1>4, <1>8, <4>1, <4>2
    <3>2. CASE <<d, n>> = <<c, found[c]>>
      BY <1>4, <3>2
    <3>3. QED
      BY <1>9, <2>5, <3>1, <3>2
  <2>6. QED
    BY <2>1, <2>2, <2>3, <2>4, <2>5 DEF Book
<1>12. QED
  BY <1>5, <1>7, <1>11 DEF ChannelInv

\* The caller's channel becomes the current one: what it had found is left behind.
LEMMA DeclaredInv ==
    ASSUME ChannelInv, NEW c \in Callers, Declared(c)
    PROVE  ChannelInv'
<1>1. PICK G : \E found \in [Callers -> Nat] : Book(G, found)
  BY DEF ChannelInv
<1>2. PICK found \in [Callers -> Nat] : Book(G, found)
  BY <1>1
<1>3. /\ caller \in [Callers -> {"idle", "connecting", "declaring", "publishing", "over"}]
      /\ own \in [Callers -> 0 .. opened]
  BY DEF ChannelInv, ChannelTypeOK
<1>4. /\ caller[c] = "declaring" /\ caller'[c] = "publishing" /\ channel' = own[c]
      /\ \A d \in Callers : d # c => caller'[d] = caller[d]
      /\ caller' \in [Callers -> {"idle", "connecting", "declaring", "publishing", "over"}]
      /\ UNCHANGED <<own, connection, open, lost, opened, failures>>
  BY <1>3 DEF Declared, Goes
<1>5. ChannelTypeOK'
  BY <1>3, <1>4 DEF ChannelInv, ChannelTypeOK
<1>6. \A d \in Callers : caller'[d] = "declaring" => caller[d] = "declaring" /\ d # c
  BY <1>4
<1>7. OwnConnections'
  BY <1>4, <1>6 DEF ChannelInv, OwnConnections
<1>8. \A n : LeftBehind(n) => LeftBehind(n)'
  BY <1>4, <1>6 DEF LeftBehind
<1>9. LeftBehind(found[c])'
  <2>1. \A e \in Callers : caller[e] = "declaring" => own[e] # found[c]
    BY <1>2, <1>4 DEF Book
  <2>2. QED
    BY <1>4, <1>6, <2>1 DEF LeftBehind
<1>10. Book(G, found)'
  <2>1. /\ G \subseteq Callers \X ({None} \cup lost')
        /\ opened' <= Cardinality(G) + failures'
    BY <1>2, <1>4 DEF Book
  <2>2. ASSUME NEW d \in Callers, caller'[d] \in {"connecting", "declaring"}
        PROVE  /\ found[d] \in {None} \cup lost'
               /\ \A e \in Callers : caller'[e] = "declaring" => own'[e] # found[d]
               /\ caller'[d] = "connecting" => <<d, found[d]>> \notin G
               /\ caller'[d] = "declaring" => <<d, found[d]>> \in G
    <3>1. d # c /\ caller'[d] = caller[d]
      BY <1>4, <2>2
    <3>2. QED
      BY <1>2, <1>4, <1>6, <2>2, <3>1 DEF Book
  <2>3. ASSUME NEW d \in Callers, NEW n \in {None} \cup lost', <<d, n>> \in G, caller'[d] # "over"
        PROVE  (caller'[d] = "declaring" /\ n = found[d]) \/ LeftBehind(n)'
    <3>1. (caller[d] = "declaring" /\ n = found[d]) \/ LeftBehind(n)
      BY <1>2, <1>4, <2>3 DEF Book
    <3>2. CASE d = c
      BY <1>8, <1>9, <3>1, <3>2
    <3>3. CASE d # c
      BY <1>4, <1>8, <3>1, <3>3
    <3>4. QED
      BY <3>2, <3>3
  <2>4. QED
    BY <2>1, <2>2, <2>3 DEF Book
<1>11. QED
  BY <1>5, <1>7, <1>10 DEF ChannelInv

\* A failed declaration: the caller's entry leaves the book, and counts as a failure.
LEMMA SetupFailsInv ==
    ASSUME ChannelInv, NEW c \in Callers, SetupFails(c)
    PROVE  ChannelInv'
<1>1. PICK G : \E found \in [Callers -> Nat] : Book(G, found)
  BY DEF ChannelInv
<1>2. PICK found \in [Callers -> Nat] : Book(G, found)
  BY <1>1
<1>3. /\ caller \in [Callers -> {"idle", "connecting", "declaring", "publishing", "over"}]
      /\ own \in [Callers -> 0 .. opened] /\ opened \in Nat /\ failures \in 0 .. MaxFailures
      /\ MaxFailures \in Nat
  BY LossesAssumption DEF ChannelInv, ChannelTypeOK
<1>4. /\ caller[c] = "declaring" /\ caller'[c] = "idle" /\ failures' = failures + 1
      /\ failures' \in 0 .. MaxFailures /\ own' \in [Callers -> 0 .. opened]
      /\ \A d \in Callers : d # c => caller'[d] = caller[d] /\ own'[d] = own[d]
      /\ caller' \in [Callers -> {"idle", "connecting", "declaring", "publishing", "over"}]
      /\ UNCHANGED <<connection, channel, open, lost, opened>>
  BY <1>3 DEF SetupFails, Goes, None
<1>5. ChannelTypeOK'
  BY <1>4 DEF ChannelInv, ChannelTypeOK
<1>6. \A d \in Callers : caller'[d] = "declaring" => caller[d] = "declaring" /\ own'[d] = own[d] /\ d # c
  BY <1>4
<1>7. OwnConnections'
  BY <1>4, <1>6 DEF ChannelInv, OwnConnections
<1>8. \A n : LeftBehind(n) => LeftBehind(n)'
  BY <1>4, <1>6 DEF LeftBehind
<1>9. PICK H : H = G \ {<<c, found[c]>>}
  OBVIOUS
<1>10. Book(H, found)'
  <2>1. H \subseteq Callers \X ({None} \cup lost')
    BY <1>2, <1>4, <1>9 DEF Book
  <2>2. opened' <= Cardinality(H) + failures'
    <3>1. G \subseteq Callers \X ({None} \cup lost) /\ opened <= Cardinality(G) + failures
          /\ <<c, found[c]>> \in G
      BY <1>2, <1>4 DEF Book
    <3>2. IsFiniteSet(G) /\ Cardinality(G) \in Nat
      BY <3>1, BookFinite DEF ChannelInv
    <3>3. Cardinality(H) = Cardinality(G) - 1
      BY <1>9, <3>1, <3>2, FS_RemoveElement
    <3>4. QED
      BY <1>3, <1>4, <3>1, <3>2, <3>3
  <2>3. ASSUME NEW d \in Callers, caller'[d] \in {"connecting", "declaring"}
        PROVE  /\ found[d] \in {None} \cup lost'
               /\ \A e \in Callers : caller'[e] = "declaring" => own'[e] # found[d]
               /\ caller'[d] = "connecting" => <<d, found[d]>> \notin H
               /\ caller'[d] = "declaring" => <<d, found[d]>> \in H
    <3>1. d # c /\ caller'[d] = caller[d]
      BY <1>4, <2>3
    <3>2. <<d, found[d]>> \in H <=> <<d, found[d]>> \in G
      BY <1>9, <3>1
    <3>3. QED
      BY <1>2, <1>4, <1>6, <2>3, <3>1, <3>2 DEF Book
  <2>4. ASSUME NEW d \in Callers, NEW n \in {None} \cup lost', <<d, n>> \in H, caller'[d] # "over"
        PROVE  (caller'[d] = "declaring" /\ n = found[d]) \/ LeftBehind(n)'
    <3>1. <<d, n>> \in G /\ <<d, n>> # <<c, found[c]>>
      BY <1>9, <2>4
    <3>2. caller[d] # "over"
      BY <1>4, <2>4
    <3>3. (caller[d] = "declaring" /\ n = found[d]) \/ LeftBehind(n)
      BY <1>2, <1>4, <3>1, <3>2 DEF Book
    <3>4. CASE d = c
      BY <1>8, <3>1, <3>3, <3>4
    <3>5. CASE d # c
      BY <1>4, <1>8, <3>3, <3>5
    <3>6. QED
      BY <3>4, <3>5
  <2>5. QED
    BY <2>1, <2>2, <2>3, <2>4 DEF Book
<1>11. QED
  BY <1>5, <1>7, <1>10 DEF ChannelInv

\* A lost channel may be found unusable by every caller once more.
LEMMA LoseInv ==
    ASSUME ChannelInv, NEW m \in open, Lose(m)
    PROVE  ChannelInv'
<1>1. PICK G : \E found \in [Callers -> Nat] : Book(G, found)
  BY DEF ChannelInv
<1>2. PICK found \in [Callers -> Nat] : Book(G, found)
  BY <1>1
<1>3. /\ lost' = lost \cup {m} /\ open \subseteq 1 .. opened
      /\ UNCHANGED <<caller, own, connection, channel, open, opened, failures>>
  BY DEF Lose, ChannelInv, ChannelTypeOK
<1>4. ChannelTypeOK' /\ OwnConnections'
  BY <1>3 DEF ChannelInv, ChannelTypeOK, OwnConnections
<1>5. \A n : LeftBehind(n) => LeftBehind(n)'
  BY <1>3 DEF LeftBehind
<1>6. Book(G, found)'
  <2>1. /\ G \subseteq Callers \X ({None} \cup lost')
        /\ opened' <= Cardinality(G) + failures'
    BY <1>2, <1>3 DEF Book
  <2>2. ASSUME NEW d \in Callers, caller'[d] \in {"connecting", "declaring"}
        PROVE  /\ found[d] \in {None} \cup lost'
               /\ \A e \in Callers : caller'[e] = "declaring" => own'[e] # found[d]
               /\ caller'[d] = "connecting" => <<d, found[d]>> \notin G
               /\ caller'[d] = "declaring" => <<d, found[d]>> \in G
    BY <1>2, <1>3, <2>2 DEF Book
  <2>3. ASSUME NEW d \in Callers, NEW n \in {None} \cup lost', <<d, n>> \in G, caller'[d] # "over"
        PROVE  (caller'[d] = "declaring" /\ n = found[d]) \/ LeftBehind(n)'
    <3>1. n \in {None} \cup lost
      BY <1>2, <2>3 DEF Book
    <3>2. QED
      BY <1>2, <1>3, <1>5, <2>3, <3>1 DEF Book
  <2>4. QED
    BY <2>1, <2>2, <2>3 DEF Book
<1>7. QED
  BY <1>4, <1>6 DEF ChannelInv

\* close() closes the connection that is known, and no other.
LEMMA CloseConnectionInv ==
    ASSUME ChannelInv, CloseConnection
    PROVE  ChannelInv'
<1>1. PICK G : \E found \in [Callers -> Nat] : Book(G, found)
  BY DEF ChannelInv
<1>2. PICK found \in [Callers -> Nat] : Book(G, found)
  BY <1>1
<1>3. /\ open' \subseteq open /\ connection' = None /\ channel' = None
      /\ \A c \in Callers : caller'[c] = "over"
      /\ caller' \in [Callers -> {"idle", "connecting", "declaring", "publishing", "over"}]
      /\ UNCHANGED <<own, lost, opened, failures>>
  BY DEF CloseConnection
<1>4. ChannelTypeOK'
  BY <1>3 DEF ChannelInv, ChannelTypeOK, None
<1>5. OwnConnections'
  BY <1>3 DEF OwnConnections
<1>6. Book(G, found)'
  BY <1>2, <1>3 DEF Book
<1>7. QED
  BY <1>4, <1>5, <1>6 DEF ChannelInv

\* Every step of a caller, and every lost channel, keeps the invariant.
LEMMA ChannelNextInv == ChannelInv /\ [ChannelNext]_channelVars => ChannelInv'
<1> SUFFICES ASSUME ChannelInv, [ChannelNext]_channelVars PROVE ChannelInv'
  OBVIOUS
<1>1. ASSUME NEW c \in Callers, UseChannel(c) \/ Published(c) \/ ConnectFails(c) PROVE ChannelInv'
  BY <1>1, QuietInv
<1>2. ASSUME NEW c \in Callers, StartConnecting(c) PROVE ChannelInv'
  BY <1>2, StartConnectingInv
<1>3. ASSUME NEW c \in Callers, Connected(c) PROVE ChannelInv'
  BY <1>3, ConnectedInv
<1>4. ASSUME NEW c \in Callers, Declared(c) PROVE ChannelInv'
  BY <1>4, DeclaredInv
<1>5. ASSUME NEW c \in Callers, SetupFails(c) PROVE ChannelInv'
  BY <1>5, SetupFailsInv
<1>6. ASSUME NEW n \in open, Lose(n) PROVE ChannelInv'
  BY <1>6, LoseInv
<1>7. CASE CloseConnection
  BY <1>7, CloseConnectionInv
<1>8. CASE ChannelIdle \/ UNCHANGED channelVars
  <2>1. UNCHANGED <<caller, own, connection, channel, open, lost, opened, failures>>
    BY <1>8 DEF ChannelIdle, channelVars
  <2>2. PICK G : \E found \in [Callers -> Nat] : Book(G, found)
    BY DEF ChannelInv
  <2>3. PICK found \in [Callers -> Nat] : Book(G, found)
    BY <2>2
  <2>4. Book(G, found)'
    BY <2>1, <2>3 DEF Book, LeftBehind
  <2>5. ChannelTypeOK' /\ OwnConnections'
    BY <2>1 DEF ChannelInv, ChannelTypeOK, OwnConnections
  <2>6. QED
    BY <2>4, <2>5 DEF ChannelInv
<1>9. QED
  BY <1>1, <1>2, <1>3, <1>4, <1>5, <1>6, <1>7, <1>8 DEF ChannelNext

\* The inductive invariant of the shared channel: every connection that was opened is
\* booked to a caller and the channel it had found unusable, at most once for each pair,
\* or to a failed declaration.
THEOREM ChannelInvariant == ChannelSpec => []ChannelInv
<1>1. ChannelInit => ChannelInv
  BY ChannelInitInv
<1>2. ChannelInv /\ [ChannelNext]_channelVars => ChannelInv'
  BY ChannelNextInv
<1>3. QED
  BY <1>1, <1>2, PTL DEF ChannelSpec

\* However callers race to connect, the connections that stay open are no more than one
\* per caller, at first and after each lost channel, and one per failed declaration.
THEOREM OpenConnections == ChannelSpec => []ConnectionsBounded
<1>1. ChannelInv => ConnectionsBounded
  <2> SUFFICES ASSUME ChannelInv PROVE ConnectionsBounded
    OBVIOUS
  <2>1. PICK G : \E found \in [Callers -> Nat] : Book(G, found)
    BY DEF ChannelInv
  <2>2. G \subseteq Callers \X ({None} \cup lost) /\ opened <= Cardinality(G) + failures
    BY <2>1 DEF Book
  <2> DEFINE room == Cardinality(Callers) * (1 + Cardinality(lost))
  <2>3. /\ Cardinality(G) \in Nat /\ Cardinality(G) <= room
        /\ Cardinality(open) \in Nat /\ Cardinality(open) <= opened
    BY <2>2, BookFinite DEF ChannelInv
  <2>4. room \in Nat
    BY <2>2, BookFinite, CallersAssumption, FS_CardinalityType DEF ChannelInv
  <2>5. opened \in Nat /\ failures \in Nat
    BY LossesAssumption DEF ChannelInv, ChannelTypeOK
  <2> HIDE DEF room
  <2>6. Cardinality(open) <= room + failures
    BY <2>2, <2>3, <2>4, <2>5
  <2>7. QED
    BY <2>6 DEF ConnectionsBounded, room
<1>2. QED
  BY <1>1, ChannelInvariant, PTL

-----------------------------------------------------------------------------
(* Redis and the doubles of the stores.                                    *)

\* What the two hold of one job, field by field.
Agrees(h, r) ==
    /\ h.kind = r.kind /\ h.status = r.status /\ h.last = r.last /\ h.processed = r.processed
    /\ r.error => h.error

\* A hash with a TTL is whole and agrees with the double, one without is not whole.
HashInv ==
    \A j \in Jobs :
        /\ expires[j] # Never => hash[j].kind = "whole" /\ Agrees(hash[j], records[j])
        /\ expires[j] = Never => hash[j].kind # "whole"

\* The pointer names the newest job, and goes when all jobs have gone or later.
PointerInv ==
    /\ \A j \in Jobs : expires[j] <= now + JobTtl /\ expires[j] <= pointerExpires
    /\ pointer = NoJob => pointerExpires = Never
    /\ pointer # NoJob => order # << >> /\ pointer = Last(order)

Created(j) == \E a \in DOMAIN order : order[a] = j

\* Jobs go in the order in which they were created.
OrderInv ==
    /\ \A j \in Jobs : expires[j] # Never => Created(j)
    /\ \A j \in named : Created(j)
    /\ \A a, b \in DOMAIN order : a < b /\ expires[order[a]] # Never =>
          expires[order[b]] # Never /\ expires[order[a]] <= expires[order[b]]

\* Redis holds a blob until the moment at which the double will find it expired.
BlobInv ==
    \A f \in Frames :
        /\ blob[f] = IF blobDouble[f] > now THEN blobDouble[f] ELSE Never
        /\ blobDouble[f] <= now + FrameTtl /\ claim[f] <= now + FrameTtl
        /\ claim[f] # Never => f \in claimed

StoreInv == StoreTypeOK /\ HashInv /\ PointerInv /\ OrderInv /\ BlobInv

\* What the assumptions on the constants say of times and counts.
LEMMA StoreConstants ==
    /\ NoJob \notin Jobs /\ JobTtl \in Nat /\ JobTtl > 0 /\ FrameTtl \in Nat /\ FrameTtl > 0
    /\ MaxTime \in Nat /\ MaxProgress \in Nat
  BY StoresAssumption

\* Reading back the field just written, and the others.
LEMMA RecordFields ==
    ASSUME NEW h \in Records, NEW r \in Records
    PROVE  Agrees(h, r) <=> ([h EXCEPT !.error = r.error] = r /\ (r.error => h.error))
<1>1. /\ h = [kind |-> h.kind, status |-> h.status, last |-> h.last, processed |-> h.processed,
              error |-> h.error]
      /\ r = [kind |-> r.kind, status |-> r.status, last |-> r.last, processed |-> r.processed,
              error |-> r.error]
  BY DEF Records
<1>2. [h EXCEPT !.error = r.error] =
        [kind |-> h.kind, status |-> h.status, last |-> h.last, processed |-> h.processed,
         error |-> r.error]
  BY <1>1
<1>3. QED
  BY <1>1, <1>2 DEF Agrees

\* The first records of a job have their types.
LEMMA FixedRecords ==
    /\ NoRecord \in Records /\ Half \in Records /\ Fresh \in Records
    /\ NoRecord.kind = "none" /\ Half.kind = "half" /\ Fresh.kind = "whole"
    /\ Agrees(Fresh, Fresh)
<1>1. -1 \in -1 .. MaxProgress - 1 /\ 0 \in 0 .. MaxProgress
  BY StoreConstants
<1>2. NoRecord \in Records /\ NoRecord.kind = "none"
  BY <1>1 DEF NoRecord, Records
<1>3. Half \in Records /\ Half.kind = "half"
  BY <1>1 DEF NoRecord, Half, Records
<1>4. Fresh \in Records /\ Fresh.kind = "whole"
  BY <1>1 DEF NoRecord, Fresh, Records
<1>5. Agrees(Fresh, Fresh)
  BY DEF Agrees
<1>6. QED
  BY <1>2, <1>3, <1>4, <1>5

\* The invariant holds of empty stores.
LEMMA StoreInitInv == StoreInit => StoreInv
<1> SUFFICES ASSUME StoreInit PROVE StoreInv
  OBVIOUS
<1>1. 0 \in Times /\ 1 \in 1 .. MaxTime + 1
  BY StoreConstants DEF Times
<1>2. StoreTypeOK
  <2>1. hash \in [Jobs -> Records] /\ records \in [Jobs -> Records]
    BY FixedRecords DEF StoreInit
  <2>2. /\ expires \in [Jobs -> Times] /\ blob \in [Frames -> Times]
        /\ blobDouble \in [Frames -> Times] /\ claim \in [Frames -> Times]
    BY <1>1 DEF StoreInit, Never
  <2>3. QED
    BY <1>1, <2>1, <2>2 DEF StoreInit, StoreTypeOK, Never
<1>3. HashInv
  BY FixedRecords DEF StoreInit, HashInv
<1>4. PointerInv
  BY StoreConstants DEF StoreInit, PointerInv, Never
<1>5. OrderInv
  BY DEF StoreInit, OrderInv
<1>6. BlobInv
  BY StoreConstants DEF StoreInit, BlobInv, Never
<1>7. QED
  BY <1>2, <1>3, <1>4, <1>5, <1>6 DEF StoreInv

\* What expires goes from Redis, the pointer with the last job.
LEMMA TickInv ==
    ASSUME StoreInv, Tick
    PROVE  StoreInv'
<1>1. /\ now \in 1 .. MaxTime + 1 /\ now' = now + 1 /\ now' \in 1 .. MaxTime + 1 /\ now' \in Nat
      /\ now \in Nat
  BY StoreConstants DEF Tick, StoreInv, StoreTypeOK
<1>2. /\ hash \in [Jobs -> Records] /\ records \in [Jobs -> Records] /\ order \in Seq(Jobs)
      /\ expires \in [Jobs -> Times] /\ blob \in [Frames -> Times]
      /\ blobDouble \in [Frames -> Times] /\ claim \in [Frames -> Times]
      /\ pointer \in Jobs \cup {NoJob} /\ pointerExpires \in Times
  BY DEF StoreInv, StoreTypeOK
<1>3. UNCHANGED <<records, order, blobDouble, claimed, named, resuming, running>>
  BY DEF Tick, doubleVars, lookupVars
<1>4. /\ Times \subseteq Nat /\ 0 \in Times
  BY StoreConstants DEF Times
<1>5. \A j \in Jobs :
        /\ expires'[j] = IF expires[j] # 0 /\ expires[j] <= now' THEN 0 ELSE expires[j]
        /\ hash'[j] = IF expires[j] # 0 /\ expires[j] <= now' THEN NoRecord ELSE hash[j]
  BY DEF Tick, Past, Never
<1>6. /\ pointerExpires' = IF pointerExpires # 0 /\ pointerExpires <= now' THEN 0 ELSE pointerExpires
      /\ pointer' = IF pointerExpires # 0 /\ pointerExpires <= now' THEN NoJob ELSE pointer
  BY DEF Tick, Past, Never
<1>7. \A f \in Frames :
        /\ blob'[f] = IF blob[f] # 0 /\ blob[f] <= now' THEN 0 ELSE blob[f]
        /\ claim'[f] = IF claim[f] # 0 /\ claim[f] <= now' THEN 0 ELSE claim[f]
  BY DEF Tick, Past, Never
<1>8. StoreTypeOK'
  <2>1. hash' \in [Jobs -> Records]
    BY <1>2, FixedRecords DEF Tick
  <2>2. expires' \in [Jobs -> Times]
    BY <1>2, <1>4 DEF Tick, Never
  <2>3. blob' \in [Frames -> Times] /\ claim' \in [Frames -> Times]
    BY <1>2, <1>4 DEF Tick, Never
  <2>4. pointer' \in Jobs \cup {NoJob} /\ pointerExpires' \in Times
    BY <1>2, <1>4, <1>6
  <2>5. QED
    BY <1>1, <1>3, <2>1, <2>2, <2>3, <2>4 DEF StoreInv, StoreTypeOK
<1>9. HashInv'
  <2> SUFFICES ASSUME NEW j \in Jobs
               PROVE  /\ expires'[j] # 0 => hash'[j].kind = "whole" /\ Agrees(hash'[j], records'[j])
                      /\ expires'[j] = 0 => hash'[j].kind # "whole"
    BY DEF HashInv, Never
  <2>1. /\ expires[j] # 0 => hash[j].kind = "whole" /\ Agrees(hash[j], records[j])
        /\ expires[j] = 0 => hash[j].kind # "whole"
    BY DEF StoreInv, HashInv, Never
  <2>2. QED
    BY <1>3, <1>5, <2>1, FixedRecords
<1>10. PointerInv'
  <2>1. \A j \in Jobs : expires[j] \in Nat /\ expires[j] <= now + JobTtl /\ expires[j] <= pointerExpires
    BY <1>2, <1>4 DEF StoreInv, PointerInv
  <2>2. pointerExpires \in Nat
    BY <1>2, <1>4
  <2>3. \A j \in Jobs : expires'[j] <= now' + JobTtl /\ expires'[j] <= pointerExpires'
    BY <1>1, <1>5, <1>6, <2>1, <2>2, StoreConstants
  <2>4. pointer = NoJob => pointerExpires = 0
    BY DEF StoreInv, PointerInv, Never
  <2>5. pointer # NoJob =>
          order # << >> /\ pointer = Last(order)
    BY DEF StoreInv, PointerInv
  <2>6. pointer' = NoJob => pointerExpires' = 0
    BY <1>6, <2>4
  <2>7. pointer' # NoJob => order' # << >> /\ pointer' = Last(order')
    BY <1>3, <1>6, <2>5
  <2>8. QED
    BY <2>3, <2>6, <2>7 DEF PointerInv, Never
<1>11. OrderInv'
  <2>1. \A j \in Jobs : expires'[j] # 0 => Created(j)
    BY <1>5 DEF StoreInv, OrderInv, Never
  <2>2. ASSUME NEW a \in DOMAIN order, NEW b \in DOMAIN order, a < b, expires'[order[a]] # 0
        PROVE  expires'[order[b]] # 0 /\ expires'[order[a]] <= expires'[order[b]]
    <3>1. /\ order[a] \in Jobs /\ order[b] \in Jobs
          /\ expires[order[a]] \in Nat /\ expires[order[b]] \in Nat
      <4>1. order[a] \in Jobs /\ order[b] \in Jobs
        BY <1>2
      <4>2. \A j \in Jobs : expires[j] \in Nat
        BY <1>2, <1>4
      <4>3. QED
        BY <4>1, <4>2
    <3>2. expires[order[a]] # 0 /\ expires[order[a]] > now' /\ expires'[order[a]] = expires[order[a]]
      BY <1>1, <1>5, <2>2, <3>1
    <3>3. expires[order[b]] # 0 /\ expires[order[a]] <= expires[order[b]]
      BY <2>2, <3>2 DEF StoreInv, OrderInv, Never
    <3>4. expires'[order[b]] = expires[order[b]]
      BY <1>1, <1>5, <3>1, <3>2, <3>3
    <3>5. QED
      BY <3>2, <3>3, <3>4
  <2>3. \A j \in named' : Created(j)
    BY <1>3 DEF StoreInv, OrderInv
  <2>4. \A j : Created(j)' <=> Created(j)
    BY <1>3 DEF Created
  <2>5. QED
    BY <1>3, <2>1, <2>2, <2>3, <2>4 DEF OrderInv, Never
<1>12. BlobInv'
  <2> SUFFICES ASSUME NEW f \in Frames
               PROVE  /\ blob'[f] = IF blobDouble'[f] > now' THEN blobDouble'[f] ELSE 0
                      /\ blobDouble'[f] <= now' + FrameTtl /\ claim'[f] <= now' + FrameTtl
                      /\ claim'[f] # 0 => f \in claimed'
    BY DEF BlobInv, Never
  <2>1. /\ blob[f] = IF blobDouble[f] > now THEN blobDouble[f] ELSE 0
        /\ blobDouble[f] <= now + FrameTtl /\ claim[f] <= now + FrameTtl
        /\ claim[f] # 0 => f \in claimed
    BY DEF StoreInv, BlobInv, Never
  <2>2. blob[f] \in Nat /\ blobDouble[f] \in Nat /\ claim[f] \in Nat
    BY <1>2, <1>4
  <2>3. QED
    BY <1>1, <1>3, <1>7, <2>1, <2>2, StoreConstants
<1>13. QED
  BY <1>8, <1>9, <1>10, <1>11, <1>12 DEF StoreInv

\* A write to a job, in Redis and in the double: while it is whole it stays in agreement,
\* afterwards Redis keeps a half hash.
LEMMA WrittenInv ==
    ASSUME StoreInv, NEW j \in Jobs, NEW h, NEW r, HashSet(j, h), RecordSet(j, r),
           hash[j].kind = "whole" => h \in Records /\ h.kind = "whole" /\ Agrees(h, r),
           records[j].kind = "whole" => r \in Records,
           running' \subseteq Jobs,
           UNCHANGED <<now, expires, pointer, pointerExpires, order, lookupVars, frameVars>>
    PROVE  StoreInv'
<1>1. hash \in [Jobs -> Records] /\ records \in [Jobs -> Records]
  BY DEF StoreInv, StoreTypeOK
<1>2. /\ hash' = [hash EXCEPT ![j] = IF hash[j].kind = "whole" THEN h ELSE Half]
      /\ records' = [records EXCEPT ![j] = IF records[j].kind = "whole" THEN r ELSE records[j]]
  BY DEF HashSet, RecordSet
<1>3. hash' \in [Jobs -> Records]
  BY <1>1, <1>2, FixedRecords
<1>4. records' \in [Jobs -> Records]
  BY <1>1, <1>2
<1>5. UNCHANGED <<now, expires, pointer, pointerExpires, order, named, resuming,
                  blob, blobDouble, claim, claimed>>
  BY DEF frameVars, lookupVars
<1>6. StoreTypeOK'
  BY <1>3, <1>4, <1>5 DEF StoreInv, StoreTypeOK
<1>7. HashInv'
  <2> SUFFICES ASSUME NEW k \in Jobs
               PROVE  /\ expires[k] # Never => hash'[k].kind = "whole" /\ Agrees(hash'[k], records'[k])
                      /\ expires[k] = Never => hash'[k].kind # "whole"
    BY <1>5 DEF HashInv
  <2>1. /\ expires[k] # Never => hash[k].kind = "whole" /\ Agrees(hash[k], records[k])
        /\ expires[k] = Never => hash[k].kind # "whole"
    BY DEF StoreInv, HashInv
  <2>2. CASE k # j
    BY <1>1, <1>2, <2>1, <2>2
  <2>3. CASE k = j /\ expires[j] # Never
    <3>1. hash[j].kind = "whole" /\ records[j].kind = "whole"
      BY <2>1, <2>3 DEF Agrees
    <3>2. hash'[j] = h /\ records'[j] = r
      BY <1>1, <1>2, <3>1
    <3>3. QED
      BY <2>3, <3>1, <3>2
  <2>4. CASE k = j /\ expires[j] = Never
    <3>1. hash'[j] = Half
      BY <1>1, <1>2, <2>1, <2>4
    <3>2. QED
      BY <2>4, <3>1, FixedRecords
  <2>5. QED
    BY <2>2, <2>3, <2>4
<1>8. PointerInv' /\ OrderInv' /\ BlobInv'
  BY <1>5 DEF StoreInv, PointerInv, OrderInv, Created, BlobInv
<1>9. QED
  BY <1>6, <1>7, <1>8 DEF StoreInv

\* Setting a status keeps both hashes alike while the TTL runs.
LEMMA SetStatusInv ==
    ASSUME StoreInv, NEW j \in Jobs, NEW status \in {"RUNNING", "COMPLETED", "FAILED"},
           NEW error \in BOOLEAN, SetStatus(j, status, error), running' \subseteq Jobs,
           UNCHANGED <<now, lookupVars, frameVars>>
    PROVE  StoreInv'
<1> DEFINE h == [hash[j] EXCEPT !.status = status, !.error = hash[j].error \/ error]
           r == [records[j] EXCEPT !.status = status, !.error = error]
<1>1. hash[j] \in Records /\ records[j] \in Records
  BY DEF StoreInv, StoreTypeOK
<1>2. HashSet(j, h) /\ RecordSet(j, r) /\ UNCHANGED <<expires, pointer, pointerExpires, order>>
  BY DEF SetStatus
<1>3. (hash[j].error \/ error) \in BOOLEAN
  OBVIOUS
<1>4. h \in Records /\ r \in Records
  BY <1>1, <1>3 DEF Records
<1>5. /\ h.kind = hash[j].kind /\ h.status = status /\ h.last = hash[j].last
      /\ h.processed = hash[j].processed /\ h.error = (hash[j].error \/ error)
      /\ r.kind = records[j].kind /\ r.status = status /\ r.last = records[j].last
      /\ r.processed = records[j].processed /\ r.error = error
  BY <1>1 DEF Records
<1>6. hash[j].kind = "whole" => Agrees(hash[j], records[j])
  BY DEF StoreInv, HashInv
<1> HIDE DEF h, r
<1>7. hash[j].kind = "whole" => h \in Records /\ h.kind = "whole" /\ Agrees(h, r)
  BY <1>4, <1>5, <1>6 DEF Agrees
<1>8. QED
  BY <1>2, <1>4, <1>7, WrittenInv

\* So does a checkpoint, before and after the TTL.
LEMMA CheckpointInv ==
    ASSUME StoreInv, NEW j \in Jobs, Checkpoint(j), UNCHANGED <<now, frameVars>>
    PROVE  StoreInv'
<1> DEFINE last == records[j].last + 1
           h == [hash[j] EXCEPT !.last = last]
           r == [records[j] EXCEPT !.last = last]
<1>1. hash[j] \in Records /\ records[j] \in Records /\ running \subseteq Jobs
  BY DEF StoreInv, StoreTypeOK
<1>2. /\ HashSet(j, h) /\ RecordSet(j, r) /\ last < MaxProgress
      /\ UNCHANGED <<expires, pointer, pointerExpires, order, lookupVars, running>>
  BY DEF Checkpoint, Checkpointed
<1>3. last \in -1 .. MaxProgress - 1
  BY <1>1, <1>2, StoreConstants DEF Records
<1> HIDE DEF last
<1>4. h \in Records /\ r \in Records
  BY <1>1, <1>3 DEF Records
<1>5. /\ h.kind = hash[j].kind /\ h.status = hash[j].status /\ h.last = last
      /\ h.processed = hash[j].processed /\ h.error = hash[j].error
      /\ r.kind = records[j].kind /\ r.status = records[j].status /\ r.last = last
      /\ r.processed = records[j].processed /\ r.error = records[j].error
  BY <1>1 DEF Records
<1>6. hash[j].kind = "whole" => Agrees(hash[j], records[j])
  BY DEF StoreInv, HashInv
<1> HIDE DEF h, r
<1>7. hash[j].kind = "whole" => h \in Records /\ h.kind = "whole" /\ Agrees(h, r)
  BY <1>4, <1>5, <1>6 DEF Agrees
<1>8. running' \subseteq Jobs
  BY <1>1, <1>2
<1>9. QED
  BY <1>2, <1>4, <1>7, <1>8, WrittenInv

\* So does counting a frame, which may come after the TTL.
LEMMA IncrementProcessedInv ==
    ASSUME StoreInv, NEW j \in Jobs, IncrementProcessed(j), UNCHANGED <<now, frameVars>>
    PROVE  StoreInv'
<1> DEFINE h == [hash[j] EXCEPT !.processed = hash[j].processed + 1]
           r == [records[j] EXCEPT !.processed = records[j].processed + 1]
<1>1. hash[j] \in Records /\ records[j] \in Records /\ running \subseteq Jobs
  BY DEF StoreInv, StoreTypeOK
<1>2. /\ HashSet(j, h) /\ RecordSet(j, r) /\ records[j].processed < MaxProgress
      /\ UNCHANGED <<expires, pointer, pointerExpires, order, lookupVars, running>>
  BY DEF IncrementProcessed
<1>3. records[j].processed + 1 \in 0 .. MaxProgress
  BY <1>1, <1>2, StoreConstants DEF Records
<1>4. r \in Records
  BY <1>1, <1>3 DEF Records
<1>5. /\ h.kind = hash[j].kind /\ h.status = hash[j].status /\ h.last = hash[j].last
      /\ h.processed = hash[j].processed + 1 /\ h.error = hash[j].error
      /\ r.kind = records[j].kind /\ r.status = records[j].status /\ r.last = records[j].last
      /\ r.processed = records[j].processed + 1 /\ r.error = records[j].error
  BY <1>1 DEF Records
<1>6. hash[j].kind = "whole" => Agrees(hash[j], records[j])
  BY DEF StoreInv, HashInv
<1>7. hash[j].kind = "whole" => h \in Records
  <2> SUFFICES ASSUME hash[j].kind = "whole" PROVE h \in Records
    OBVIOUS
  <2>1. hash[j].processed = records[j].processed
    BY <1>6 DEF Agrees
  <2>2. hash[j].processed + 1 \in 0 .. MaxProgress
    BY <1>3, <2>1
  <2>3. QED
    BY <1>1, <2>2 DEF Records
<1> HIDE DEF h, r
<1>8. hash[j].kind = "whole" => h \in Records /\ h.kind = "whole" /\ Agrees(h, r)
  BY <1>5, <1>6, <1>7 DEF Agrees
<1>9. running' \subseteq Jobs
  BY <1>1, <1>2
<1>10. QED
  BY <1>2, <1>4, <1>8, <1>9, WrittenInv

\* A new job: its TTL ends after all others, and the pointer's no sooner.
LEMMA CreateInv ==
    ASSUME StoreInv, NEW j \in Jobs, Create(j), UNCHANGED <<now, frameVars>>
    PROVE  StoreInv'
<1> DEFINE end == now + JobTtl
<1>1. /\ hash \in [Jobs -> Records] /\ records \in [Jobs -> Records] /\ order \in Seq(Jobs)
      /\ expires \in [Jobs -> Times] /\ now \in 1 .. MaxTime + 1 /\ running \subseteq Jobs
      /\ named \subseteq Jobs /\ resuming \subseteq Jobs
  BY DEF StoreInv, StoreTypeOK
<1>2. /\ hash' = [hash EXCEPT ![j] = Fresh] /\ expires' = [expires EXCEPT ![j] = end]
      /\ pointer' = j /\ pointerExpires' \in {end, end + 1}
      /\ records' = [records EXCEPT ![j] = Fresh] /\ order' = Append(order, j)
      /\ running' = running \cup {j}
      /\ UNCHANGED <<now, named, resuming, blob, blobDouble, claim, claimed>>
  BY DEF Create, lookupVars, frameVars
<1>3. end \in Times /\ end + 1 \in Times /\ end # Never /\ end \in Nat
  BY <1>1, StoreConstants DEF Times, Never
<1>4. \A k \in Jobs : expires[k] <= end
  BY DEF StoreInv, PointerInv
<1> HIDE DEF end
<1>5. /\ hash' \in [Jobs -> Records] /\ records' \in [Jobs -> Records]
      /\ expires' \in [Jobs -> Times]
  BY <1>1, <1>2, <1>3, FixedRecords
<1>6. order' \in Seq(Jobs) /\ order' # << >> /\ Last(order') = j
  <2>1. /\ order' \in Seq(Jobs) /\ Len(order') = Len(order) + 1 /\ order'[Len(order) + 1] = j
        /\ Len(order) \in Nat
    BY <1>1, <1>2
  <2>2. QED
    BY <2>1 DEF Last
<1>7. StoreTypeOK'
  BY <1>2, <1>3, <1>5, <1>6 DEF StoreInv, StoreTypeOK
<1>8. HashInv'
  <2> SUFFICES ASSUME NEW k \in Jobs
               PROVE  /\ expires'[k] # Never => hash'[k].kind = "whole" /\ Agrees(hash'[k], records'[k])
                      /\ expires'[k] = Never => hash'[k].kind # "whole"
    BY DEF HashInv
  <2>1. CASE k = j
    BY <1>1, <1>2, <1>3, <2>1, FixedRecords
  <2>2. CASE k # j
    <3>1. expires'[k] = expires[k] /\ hash'[k] = hash[k] /\ records'[k] = records[k]
      BY <1>1, <1>2, <2>2
    <3>2. QED
      BY <3>1 DEF StoreInv, HashInv
  <2>3. QED
    BY <2>1, <2>2
<1>9. PointerInv'
  <2>1. \A k \in Jobs : expires'[k] <= end
    BY <1>1, <1>2, <1>3, <1>4
  <2>2. now' + JobTtl = end
    BY <1>2 DEF end
  <2>3. end <= pointerExpires'
    BY <1>2, <1>3
  <2>4. \A k \in Jobs : expires'[k] <= pointerExpires'
    <3>1. \A k \in Jobs : expires'[k] \in Nat
      BY <1>5, StoreConstants DEF Times
    <3>2. pointerExpires' \in Nat
      BY <1>2, <1>3
    <3>3. QED
      BY <1>3, <2>1, <2>3, <3>1, <3>2
  <2>5. pointer' # NoJob /\ pointer' = Last(order')
    BY <1>2, <1>6, StoreConstants
  <2>6. QED
    BY <1>6, <2>1, <2>2, <2>4, <2>5 DEF PointerInv
<1>10. OrderInv'
  <2>1. /\ Len(order) \in Nat /\ DOMAIN order = 1 .. Len(order)
        /\ DOMAIN order' = 1 .. Len(order) + 1 /\ order'[Len(order) + 1] = j
        /\ \A a \in DOMAIN order : order'[a] = order[a] /\ order[a] \in Jobs
    BY <1>1, <1>2
  <2>2. \A a \in DOMAIN order : order[a] # j
    BY DEF Create, ToSet
  <2>3. \A a \in DOMAIN order : expires'[order[a]] = expires[order[a]]
    BY <1>1, <1>2, <2>1, <2>2
  <2>4. \A k : Created(k) \/ k = j => Created(k)'
    BY <2>1 DEF Created
  <2>5. \A k \in Jobs : expires'[k] # Never => Created(k)'
    BY <1>1, <1>2, <2>4 DEF StoreInv, OrderInv
  <2>6. \A k \in named' : Created(k)'
    BY <1>2, <2>4 DEF StoreInv, OrderInv
  <2>7. ASSUME NEW a \in DOMAIN order', NEW b \in DOMAIN order', a < b,
               expires'[order'[a]] # Never
        PROVE  expires'[order'[b]] # Never /\ expires'[order'[a]] <= expires'[order'[b]]
    <3>1. a \in DOMAIN order /\ a \in Nat /\ b \in Nat
      BY <2>1, <2>7
    <3>2. CASE b \in DOMAIN order
      <4>1. /\ expires'[order'[a]] = expires[order[a]]
            /\ expires'[order'[b]] = expires[order[b]]
        BY <2>1, <2>3, <3>1, <3>2
      <4>2. QED
        BY <2>7, <3>1, <3>2, <4>1 DEF StoreInv, OrderInv
    <3>3. CASE b \notin DOMAIN order
      <4>1. b = Len(order) + 1
        BY <2>1, <3>1, <3>3
      <4>2. order'[b] = j /\ expires'[j] = end
        BY <1>1, <1>2, <2>1, <4>1
      <4>3. expires'[order'[a]] = expires[order[a]] /\ order[a] \in Jobs
        BY <2>1, <2>3, <3>1
      <4>4. expires[order[a]] <= end
        BY <1>4, <4>3
      <4>5. QED
        BY <1>3, <4>2, <4>3, <4>4
    <3>4. QED
      BY <3>2, <3>3
  <2>8. QED
    BY <2>5, <2>6, <2>7 DEF OrderInv
<1>11. BlobInv'
  BY <1>2 DEF StoreInv, BlobInv
<1>12. QED
  BY <1>7, <1>8, <1>9, <1>10, <1>11 DEF StoreInv

\* Blobs: put, read and expired alike on both sides.
LEMMA FrameStoreInv ==
    ASSUME StoreInv, NEW f \in Frames, Frame(f)
    PROVE  StoreInv'
<1>1. /\ blob \in [Frames -> Times] /\ blobDouble \in [Frames -> Times]
      /\ claim \in [Frames -> Times] /\ now \in 1 .. MaxTime + 1 /\ claimed \subseteq Frames
  BY DEF StoreInv, StoreTypeOK
<1>2. /\ now + FrameTtl \in Times /\ 0 \in Times /\ Times \subseteq Nat /\ now \in Nat
      /\ now > 0 /\ now + FrameTtl > now
  BY <1>1, StoreConstants DEF Times
<1>3. /\ UNCHANGED <<now, hash, expires, pointer, pointerExpires, records, order,
                     named, resuming, running>>
      /\ PutBlob(f) \/ GetBlob(f) \/ Claim(f)
  BY DEF Frame, jobVars, redisVars, doubleVars, lookupVars
<1>4. /\ blob' \in [Frames -> Times] /\ blobDouble' \in [Frames -> Times]
      /\ claim' \in [Frames -> Times] /\ claimed' \subseteq Frames
  <2>1. CASE PutBlob(f)
    BY <1>1, <1>2, <2>1 DEF PutBlob
  <2>2. CASE GetBlob(f)
    BY <1>1, <1>2, <2>2 DEF GetBlob, Never
  <2>3. CASE Claim(f)
    BY <1>1, <1>2, <2>3 DEF Claim
  <2>4. QED
    BY <1>3, <2>1, <2>2, <2>3
<1>5. StoreTypeOK' /\ HashInv' /\ PointerInv' /\ OrderInv'
  BY <1>3, <1>4 DEF StoreInv, StoreTypeOK, HashInv, PointerInv, OrderInv, Created
<1>6. BlobInv'
  <2> SUFFICES ASSUME NEW g \in Frames
               PROVE  /\ blob'[g] = IF blobDouble'[g] > now THEN blobDouble'[g] ELSE 0
                      /\ blobDouble'[g] <= now + FrameTtl /\ claim'[g] <= now + FrameTtl
                      /\ claim'[g] # 0 => g \in claimed'
    BY <1>3 DEF BlobInv, Never
  <2>1. /\ blob[g] = IF blobDouble[g] > now THEN blobDouble[g] ELSE 0
        /\ blobDouble[g] <= now + FrameTtl /\ claim[g] <= now + FrameTtl
        /\ claim[g] # 0 => g \in claimed
        /\ blob[g] \in Nat /\ blobDouble[g] \in Nat /\ claim[g] \in Nat
    BY <1>1, <1>2 DEF StoreInv, BlobInv, Never
  <2>2. CASE PutBlob(f)
    <3>1. /\ blob'[g] = IF g = f THEN now + FrameTtl ELSE blob[g]
          /\ blobDouble'[g] = IF g = f THEN now + FrameTtl ELSE blobDouble[g]
          /\ UNCHANGED <<claim, claimed>>
      BY <1>1, <2>2 DEF PutBlob
    <3>2. QED
      BY <1>2, <2>1, <3>1, StoreConstants
  <2>3. CASE GetBlob(f)
    <3>1. /\ blobDouble'[g] = IF g = f /\ now >= blobDouble[g] THEN 0 ELSE blobDouble[g]
          /\ UNCHANGED <<blob, claim, claimed>>
      BY <1>1, <2>3 DEF GetBlob, ExpiredDouble, Never
    <3>2. QED
      BY <1>2, <2>1, <3>1, StoreConstants
  <2>4. CASE Claim(f)
    <3>1. /\ claim'[g] = IF g = f /\ claim[g] = 0 THEN now + FrameTtl ELSE claim[g]
          /\ claimed' = claimed \cup {f} /\ UNCHANGED <<blob, blobDouble>>
      BY <1>1, <2>4 DEF Claim, Never
    <3>2. QED
      BY <1>2, <2>1, <3>1, StoreConstants
  <2>5. QED
    BY <1>3, <2>2, <2>3, <2>4
<1>7. QED
  BY <1>5, <1>6 DEF StoreInv

\* The pointer names a job that was created.
LEMMA PointerCreated ==
    ASSUME StoreInv, pointer # NoJob
    PROVE  Created(pointer)
<1>1. order \in Seq(Jobs) /\ order # << >> /\ pointer = Last(order)
  BY DEF StoreInv, StoreTypeOK, PointerInv
<1>2. Len(order) \in Nat /\ Len(order) # 0 /\ DOMAIN order = 1 .. Len(order)
  BY <1>1
<1>3. Len(order) \in DOMAIN order
  BY <1>2
<1>4. QED
  BY <1>1, <1>3 DEF Created, Last

\* Every call, and every tick of the clock, keeps the invariant.
LEMMA StoreNextInv == StoreInv /\ [StoreNext]_storeVars => StoreInv'
<1> SUFFICES ASSUME StoreInv, [StoreNext]_storeVars PROVE StoreInv'
  OBVIOUS
<1>1. CASE Tick
  BY <1>1, TickInv
<1>2. ASSUME NEW j \in Jobs, Job(j) PROVE StoreInv'
  <2>1. UNCHANGED <<now, frameVars>> /\ running \subseteq Jobs
    BY <1>2 DEF Job, StoreInv, StoreTypeOK
  <2>2. CASE Create(j)
    BY <2>1, <2>2, CreateInv
  <2>3. CASE ReadPointer \/ ReadRecord(j)
    <3>1. /\ UNCHANGED <<now, hash, expires, pointer, pointerExpires, records, order, running,
                         blob, blobDouble, claim, claimed>>
          /\ named' \subseteq named \cup ({pointer} \ {NoJob}) /\ resuming' \subseteq resuming \cup {j}
      BY <2>1, <2>3 DEF ReadPointer, ReadRecord, redisVars, doubleVars, frameVars
    <3>2. pointer \in Jobs \cup {NoJob} /\ named \subseteq Jobs /\ resuming \subseteq Jobs
      BY DEF StoreInv, StoreTypeOK
    <3>3. \A k \in named' : Created(k)
      BY <3>1, PointerCreated DEF StoreInv, OrderInv
    <3>4. named' \subseteq Jobs /\ resuming' \subseteq Jobs
      BY <3>1, <3>2
    <3>5. StoreTypeOK' /\ HashInv' /\ PointerInv' /\ BlobInv'
      BY <3>1, <3>4 DEF StoreInv, StoreTypeOK, HashInv, PointerInv, BlobInv
    <3>6. \A k : Created(k)' <=> Created(k)
      BY <3>1 DEF Created
    <3>7. OrderInv'
      BY <3>1, <3>3, <3>6 DEF StoreInv, OrderInv
    <3>8. QED
      BY <3>5, <3>7 DEF StoreInv
  <2>4. CASE Resume(j)
    <3>1. SetStatus(j, "RUNNING", FALSE) /\ running' \subseteq Jobs /\ UNCHANGED lookupVars
      BY <2>1, <2>4 DEF Resume
    <3>2. QED
      BY <2>1, <3>1, SetStatusInv
  <2>5. CASE Finish(j)
    <3>1. running' \subseteq Jobs /\ UNCHANGED lookupVars
      BY <2>1, <2>5 DEF Finish
    <3>2. CASE SetStatus(j, "COMPLETED", FALSE)
      BY <2>1, <3>1, <3>2, SetStatusInv
    <3>3. CASE SetStatus(j, "FAILED", TRUE)
      BY <2>1, <3>1, <3>3, SetStatusInv
    <3>4. QED
      BY <2>5, <3>2, <3>3 DEF Finish
  <2>6. CASE Die(j)
    <3>1. /\ running' \subseteq Jobs
          /\ UNCHANGED <<now, hash, expires, pointer, pointerExpires, records, order,
                         named, resuming, blob, blobDouble, claim, claimed>>
      BY <2>1, <2>6 DEF Die, redisVars, doubleVars, lookupVars, frameVars
    <3>2. QED
      BY <3>1 DEF StoreInv, StoreTypeOK, HashInv, PointerInv, OrderInv, Created, BlobInv
  <2>7. CASE Checkpoint(j)
    BY <2>1, <2>7, CheckpointInv
  <2>8. CASE IncrementProcessed(j)
    BY <2>1, <2>8, IncrementProcessedInv
  <2>9. QED
    BY <1>2, <2>2, <2>3, <2>4, <2>5, <2>6, <2>7, <2>8 DEF Job
<1>3. ASSUME NEW f \in Frames, Frame(f) PROVE StoreInv'
  BY <1>3, FrameStoreInv
<1>4. CASE UNCHANGED storeVars
  <2>1. UNCHANGED <<now, hash, expires, pointer, pointerExpires, records, order, running,
                    named, resuming, blob, blobDouble, claim, claimed>>
    BY <1>4 DEF storeVars, jobVars, redisVars, doubleVars, lookupVars, frameVars
  <2>2. QED
    BY <2>1 DEF StoreInv, StoreTypeOK, HashInv, PointerInv, OrderInv, Created, BlobInv
<1>5. QED
  BY <1>1, <1>2, <1>3, <1>4 DEF StoreNext, JobsNext, FramesNext

\* The inductive invariant of the stores: the hash in Redis and the record of the
\* double agree while the TTL runs, records go in the order in which they were created,
\* and the resume pointer goes last.
THEOREM StoreInvariant == StoreSpec => []StoreInv
<1>1. StoreInit => StoreInv
  BY StoreInitInv
<1>2. StoreInv /\ [StoreNext]_storeVars => StoreInv'
  BY StoreNextInv
<1>3. QED
  BY <1>1, <1>2, PTL DEF StoreSpec

\* Redis and the doubles answer alike for as long as a job's or a frame's TTL runs.  The
\* resume pointer may outlive its record; but a lookup in two reads that comes to a job
\* that has gone, or to a half hash, misses no job but those created in between.
THEOREM StoresAgree == StoreSpec => []AnswersAgree
<1>1. StoreInv => AnswersAgree
  <2> SUFFICES ASSUME StoreInv PROVE AnswersAgree
    OBVIOUS
  <2>1. \A j \in Jobs : hash[j] \in Records /\ records[j] \in Records /\ expires[j] \in Nat
    BY StoreConstants DEF StoreInv, StoreTypeOK, Times
  <2>2. \A h : h.kind = "whole" => GetJob(h) = 200
    BY DEF GetJob
  <2>3. \A h \in Records : h.kind # "whole" => GetJob(h) # 200
    BY DEF GetJob, Records
  <2>4. JobsAgree
    BY <2>1, <2>2, RecordFields DEF StoreInv, HashInv, JobsAgree
  <2>5. LookupsAgree
    <3>1. \A j \in Jobs : expires[j] = Never => GetJob(hash[j]) # 200
      BY <2>1, <2>3 DEF StoreInv, HashInv
    <3>2. pointer # NoJob => pointer = FoundDouble
      BY DEF StoreInv, PointerInv, FoundDouble
    <3>3. pointer = NoJob => \A j \in Jobs : expires[j] = Never
      BY <2>1 DEF StoreInv, PointerInv, Never
    <3>4. ASSUME NEW j \in named \cup ({pointer} \ {NoJob}), NEW k \in Jobs,
                 expires[j] = Never, expires[k] # Never
          PROVE  Newer(k, j)
      <4>1. Created(j) /\ Created(k)
        BY <3>4, PointerCreated DEF StoreInv, OrderInv
      <4>2. PICK a \in DOMAIN order, b \in DOMAIN order : order[a] = j /\ order[b] = k
        BY <4>1 DEF Created
      <4>3. a \in Nat /\ b \in Nat
        BY DEF StoreInv, StoreTypeOK
      <4>4. a # b /\ ~(b < a)
        BY <3>4, <4>2 DEF StoreInv, OrderInv
      <4>5. QED
        BY <4>2, <4>3, <4>4 DEF Newer
    <3>5. QED
      BY <3>1, <3>2, <3>3, <3>4 DEF LookupsAgree
  <2>6. FramesAgree
    <3> SUFFICES ASSUME NEW f \in Frames
                 PROVE  HasBlob(f) = HasBlobDouble(f) /\ (claim[f] # Never => f \in claimed)
      BY DEF FramesAgree
    <3>1. /\ blob[f] = IF blobDouble[f] > now THEN blobDouble[f] ELSE 0
          /\ claim[f] # Never => f \in claimed
      BY DEF StoreInv, BlobInv, Never
    <3>2. blobDouble[f] \in Nat /\ now \in Nat
      BY StoreConstants DEF StoreInv, StoreTypeOK, Times
    <3>3. HasBlob(f) <=> HasBlobDouble(f)
      BY <3>1, <3>2 DEF HasBlob, HasBlobDouble, ExpiredDouble, Never
    <3>4. HasBlob(f) \in BOOLEAN /\ HasBlobDouble(f) \in BOOLEAN
      BY DEF HasBlob, HasBlobDouble
    <3>5. QED
      BY <3>1, <3>3, <3>4
  <2>7. QED
    BY <2>4, <2>5, <2>6 DEF AnswersAgree
<1>2. QED
  BY <1>1, StoreInvariant, PTL

-----------------------------------------------------------------------------
\* Every variable of the adapters keeps to its range.
THEOREM AdapterTypes == Spec => []TypeOK
<1> DEFINE Inv == BrokerInv /\ ChannelInv /\ StoreInv
<1>1. Init => Inv
  BY BrokerInitInv, ChannelInitInv, StoreInitInv DEF Init
<1>2. Inv /\ [Next]_<<part, brokerVars, channelVars, storeVars>> => Inv'
  <2> SUFFICES ASSUME Inv, [Next]_<<part, brokerVars, channelVars, storeVars>> PROVE Inv'
    OBVIOUS
  <2>1. [BrokerNext]_brokerVars /\ [ChannelNext]_channelVars /\ [StoreNext]_storeVars
    BY DEF Next, StoreNext
  <2>2. QED
    BY <2>1, BrokerNextInv, ChannelNextInv, StoreNextInv
<1>3. Inv => TypeOK
  BY DEF BrokerInv, ChannelInv, StoreInv, TypeOK
<1>4. QED
  BY <1>1, <1>2, <1>3, PTL DEF Spec
=============================================================================
