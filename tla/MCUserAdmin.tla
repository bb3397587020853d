---------------------------- MODULE MCUserAdmin ----------------------------
(***************************************************************************)
(* A small instance of UserAdmin for TLC. Accounts and requests are        *)
(* interchangeable, and so are the names that are not the administrator's. *)
(***************************************************************************)
EXTENDS UserAdmin, TLC

Interchangeable ==
    Permutations(Accounts) \cup Permutations(Requests)
        \cup Permutations(Names \ {AdminName})
=============================================================================
