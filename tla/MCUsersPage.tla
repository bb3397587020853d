---------------------------- MODULE MCUsersPage ----------------------------
(***************************************************************************)
(* A small instance of UsersPage for TLC.                                  *)
(***************************************************************************)
EXTENDS UsersPage
=============================================================================
