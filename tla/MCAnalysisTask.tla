--------------------------- MODULE MCAnalysisTask ---------------------------
(***************************************************************************)
(* Small instances of AnalysisTask for TLC. One unit of time is a minute   *)
(* for the result (60 s) and the task (120 s); the visibility timeout      *)
(* (60 minutes) only has to be longer than the latter.                     *)
(***************************************************************************)
EXTENDS AnalysisTask, TLC

Interchangeable ==
    Permutations(Tasks) \cup Permutations(Workers) \cup Permutations(Ids)
=============================================================================
