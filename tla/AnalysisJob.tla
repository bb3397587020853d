---------------------------- MODULE AnalysisJob ----------------------------
(***************************************************************************)
(* What the analysis pipeline promises for one submitted document: its     *)
(* analysis is saved at most once, and only while the job is open; every   *)
(* job that was submitted is closed, whatever crashes, and stays closed.   *)
(* A worker that loses the broker while it is busy may have its job run a  *)
(* second time, and may save what nobody waits for any more: each loss     *)
(* allows one more copy.                                                   *)
(***************************************************************************)
EXTENDS Naturals

CONSTANT Tasks

VARIABLES
    open,       \* the jobs submitted and not closed
    closed,     \* the jobs that will never run again
    copies,     \* how often each was saved (and perhaps deleted since)
    lost        \* how often a busy worker lost its connection

jobVars == <<open, closed, copies, lost>>

Init ==
    /\ open = {} /\ closed = {}
    /\ copies = [t \in Tasks |-> 0]
    /\ lost = 0

Submit(t) ==
    /\ t \notin open \cup closed
    /\ open' = open \cup {t}
    /\ UNCHANGED <<closed, copies, lost>>

Save(t) ==
    /\ t \in open \/ (t \in closed /\ lost > 0)
    /\ copies[t] <= lost
    /\ copies' = [copies EXCEPT ![t] = @ + 1]
    /\ UNCHANGED <<open, closed, lost>>

Close(t) ==
    /\ t \in open
    /\ open' = open \ {t}
    /\ closed' = closed \cup {t}
    /\ UNCHANGED <<copies, lost>>

Lose ==
    /\ open # {}
    /\ lost' = lost + 1
    /\ UNCHANGED <<open, closed, copies>>

Next == Lose \/ \E t \in Tasks : Submit(t) \/ Save(t) \/ Close(t)

Fairness == \A t \in Tasks : WF_jobVars(Close(t))

Spec == Init /\ [][Next]_jobVars
FairSpec == Spec /\ Fairness
=============================================================================
