--------------------------- MODULE StatusPolling ---------------------------
(***************************************************************************)
(* The polled query of useAnalysisStatus and useReportStatus: what a poll, *)
(* its answer and its failure do to the query (TanStack Query 5), and when *)
(* refetchInterval asks for another one. A poll is a single attempt        *)
(* (retry: false), and at most one is on its way.                          *)
(***************************************************************************)
EXTENDS Naturals

CONSTANTS
    MaxErrors,    \* MAX_CONSECUTIVE_ERRORS
    None

ASSUME PollingAssumption ==
    /\ MaxErrors \in Nat \ {0}
    /\ None \notin {"going", "completed", "failed"}
-----------------------------------------------------------------------------
Verdicts == {"completed", "failed"}

\* "going" stands for pending, processing and unknown.
Answers == {"going"} \cup Verdicts

\* "failures" is fetchFailureCount.
Query == [data : Answers \cup {None}, error : BOOLEAN,
          failures : {0, 1}, fetching : BOOLEAN]

NoQuery == [data |-> None, error |-> FALSE, failures |-> 0, fetching |-> FALSE]

\* Mutant: the count of failures lasts over polls.
FetchedKeepsCount(q) ==
    [q EXCEPT !.fetching = TRUE, !.error = @ /\ q.data # None]

\* A poll starts: the library counts its failures from 0, and without data
\* the error of the last one goes.
Fetched(q) ==
    [q EXCEPT !.fetching = TRUE, !.failures = 0, !.error = @ /\ q.data # None]

Answered(answer) == [NoQuery EXCEPT !.data = answer]

Failed(q) == [q EXCEPT !.error = TRUE, !.fetching = FALSE, !.failures = @ + 1]

\* Mutant: any answer is taken for the last one.
refetchIntervalOnce(q) == q.data = None /\ q.failures < MaxErrors

\* Whether there will be another poll.
refetchInterval(q) == q.data \notin Verdicts /\ q.failures < MaxErrors

\* There is, or will be, a poll of this query while it is observed.
Watched(q) == q.fetching \/ refetchInterval(q)
=============================================================================
