----------------------------- MODULE Subsequence -----------------------------
(***************************************************************************)
(* Taking elements out of a sequence: what the queues of the pipeline do   *)
(* when a delivery in their middle is settled.  The k-th element that      *)
(* stays is the one with k of them up to its position; nothing here is     *)
(* recursive, so that it can be reasoned about.                            *)
(***************************************************************************)
EXTENDS Naturals, Sequences, FiniteSets

\* The positions of the elements of s that are in S.
Positions(s, S) == {i \in DOMAIN s : s[i] \in S}

\* How many of the positions P there are up to i.
Rank(P, i) == Cardinality(P \cap 1 .. i)

\* The elements of s that are in S, in their order.
Only(s, S) ==
    LET P == Positions(s, S) IN
    [k \in 1 .. Cardinality(P) |-> s[CHOOSE i \in P : Rank(P, i) = k]]

\* The elements of s that are not in S, in their order.
Without(s, S) == Only(s, {s[i] : i \in DOMAIN s} \ S)
=============================================================================
