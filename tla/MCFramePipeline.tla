--------------------------- MODULE MCFramePipeline ---------------------------
(* Small instances of FramePipeline for TLC.                               *)
EXTENDS FramePipeline, TLC

\* A fresh run; one resumed after frame 0; one resumed after frame 1 where frame
\* 0 could not be decoded; and one resumed after three confirmed frames, more
\* than one checkpoint interval.
MCPriors ==
    {NoPrior,
     [frames_dispatched |-> 1, frames_failed |-> 0, last_source_index |-> 0],
     [frames_dispatched |-> 1, frames_failed |-> 1, last_source_index |-> 1],
     [frames_dispatched |-> 3, frames_failed |-> 0, last_source_index |-> 2]}

\* A fresh run alone, where the question does not depend on resuming.
MCFresh == {NoPrior}

Symmetry == Permutations(Workers)
=============================================================================
