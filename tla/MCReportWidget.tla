--------------------------- MODULE MCReportWidget ---------------------------
(* Instances of ReportWidget for TLC. *)
EXTENDS ReportWidget
=============================================================================
