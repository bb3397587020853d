----------------------------- MODULE QueryCache -----------------------------
(***************************************************************************)
(* An entry of the QueryClient's cache (TanStack Query 5), as far as the   *)
(* hooks of the frontend rely on it: what a query key has, and what a      *)
(* fetch, its answer and an invalidation do to it. One fetch per key is in *)
(* progress at most; its callers share it. The retry of a query is part of *)
(* its fetch.                                                              *)
(*                                                                         *)
(* "since" and "request" say how the data, and the answer on its way,      *)
(* relate to the last change that should be seen in them: asked for before *)
(* the client knew of the change, on its way when the client learnt of it, *)
(* or asked for after that.                                                *)
(***************************************************************************)
CONSTANTS
    Answers,      \* what a query can be answered
    None

Since == {"before", "during", "after"}

Entry == [data : Answers \cup {None}, since : Since, stale : BOOLEAN,
          error : BOOLEAN, request : {"none"} \cup Since]

\* No data, no error, no fetch.
Empty == [data |-> None, since |-> "after", stale |-> FALSE,
          error |-> FALSE, request |-> "none"]

Has(e) == e.data # None
Fetching(e) == e.request # "none"

\* A new fetch. Without data, the error of the last one goes.
Fetch(e) == [e EXCEPT !.request = "after", !.error = @ /\ Has(e)]

\* The fetch was answered.
Answered(e, answer) ==
    [data |-> answer, since |-> e.request, stale |-> FALSE,
     error |-> FALSE, request |-> "none"]

\* The fetch failed, its retry included. The data stay, and stay stale.
Failed(e) == [e EXCEPT !.error = TRUE, !.request = "none"]

\* A component begins to observe the key.
Observed(e) == IF ~Fetching(e) /\ (~Has(e) \/ e.stale) THEN Fetch(e) ELSE e

\* invalidateQueries of a key nobody observes. A fetch in progress goes on,
\* and when it succeeds the entry counts as fresh.
Invalidated(e) ==
    [e EXCEPT !.since = "before", !.stale = Has(e),
              !.request = IF Fetching(e) THEN "during" ELSE "none"]

\* invalidateQueries of an observed key: it is fetched again. Only a fetch
\* that replaces data is cancelled for that, a first one goes on.
Refetched(e) ==
    IF Fetching(e) /\ ~Has(e) THEN Invalidated(e) ELSE Fetch(Invalidated(e))
=============================================================================
