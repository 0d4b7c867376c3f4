-------------------------- MODULE MCAnalysisService --------------------------
(* Small instances of AnalysisService for TLC.                             *)
EXTENDS AnalysisService, TLC

\* Every request asks for the same video at the same rate.
MCOneKey == [r \in Requests |-> "k1"]

Symmetry == Permutations(Requests)
=============================================================================
