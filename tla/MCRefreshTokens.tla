-------------------------- MODULE MCRefreshTokens --------------------------
(***************************************************************************)
(* Small instances of RefreshTokens for TLC. Tokens, requests and users    *)
(* are interchangeable; the symmetry is used by the safety runs only.      *)
(***************************************************************************)
EXTENDS RefreshTokens, TLC

Interchangeable ==
    Permutations(Tokens) \cup Permutations(Requests) \cup Permutations(Users)
=============================================================================
