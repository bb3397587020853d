----------------------------- MODULE MCWebPages -----------------------------
(* Instances of WebPages for TLC. *)
EXTENDS WebPages
=============================================================================
