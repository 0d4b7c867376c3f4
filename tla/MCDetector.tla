----------------------------- MODULE MCDetector -----------------------------
(* Small instances of Detector for TLC.                                    *)
EXTENDS Detector

\* Message i names frame i, all of one video.
MCDistinct == [m \in Messages |-> m]
MCOneQueue == [m \in Messages |-> "q1"]

\* The last message repeats the first frame: a resumed job published it again.
MCRepeated == [m \in Messages |-> IF m = NumMessages THEN 1 ELSE m]

\* Two videos on two partitions, published in turns.
MCTwoQueues == [m \in Messages |-> IF m % 2 = 1 THEN "q1" ELSE "q2"]

Symmetry == Permutations(Replicas)
=============================================================================
