------------------------- MODULE MCReportLifecycle -------------------------
(***************************************************************************)
(* Small instances of ReportLifecycle for TLC.                             *)
(***************************************************************************)
EXTENDS ReportLifecycle, TLC

Interchangeable ==
    Permutations(Analyses) \cup Permutations(Tasks)
        \cup Permutations(Workers) \cup Permutations(Requests)
=============================================================================
