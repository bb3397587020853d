------------------------------ MODULE Session ------------------------------
(***************************************************************************)
(* What the refresh-token service promises about a login session, said     *)
(* without tokens, rows or requests: a session is opened once, by a login, *)
(* and once it has been closed -- by a logout, by an administrator or by   *)
(* its absolute expiry -- nothing opens it again.                          *)
(***************************************************************************)
CONSTANT Sessions      \* the identities a login can open

VARIABLE phase         \* where each session stands

Phase == {"absent", "open", "closed"}

Init == phase = [s \in Sessions |-> "absent"]

\* A login opens a session that was never open before.
Open(s) ==
    /\ phase[s] = "absent"
    /\ phase' = [phase EXCEPT ![s] = "open"]

\* Several sessions may close in one step: an administrator expires all the
\* sessions of a user, the passing of time ends every session of one deadline.
Close(S) ==
    /\ \A s \in S : phase[s] = "open"
    /\ phase' = [s \in Sessions |-> IF s \in S THEN "closed" ELSE phase[s]]

Next ==
    \/ \E s \in Sessions : Open(s)
    \/ \E S \in SUBSET Sessions : Close(S)

Spec == Init /\ [][Next]_phase
=============================================================================
