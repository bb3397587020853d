---------------------------- MODULE AnalysisTask ----------------------------
(***************************************************************************)
(* Document analysis in the background: the endpoint that queues a task,   *)
(* the Celery worker that runs analyze_legal_document_task, the message    *)
(* and the result that Celery keeps in Redis, the rows the task commits to *)
(* PostgreSQL, the status endpoint and the deletion of an analysis.        *)
(*                                                                         *)
(* A task is one message. It is delivered, and acknowledged only after its *)
(* result is stored (acks_late). A worker that dies leaves the message     *)
(* unacknowledged until the broker's visibility timeout; a worker that     *)
(* loses its connection goes on, and its message is delivered again.       *)
(* Durations are counted down by Tick, so no clock has to be bounded.      *)
(***************************************************************************)
EXTENDS Naturals, FiniteSets

CONSTANTS
    Tasks,        \* Celery task ids
    Workers,      \* pool processes
    Ids,          \* primary keys of the table analysis; each is used once
    None,         \* no row, no task, no outcome
    Expires,      \* expires=120 of the task
    Visibility,   \* visibility timeout of the Redis broker, one hour
    ResultTTL,    \* result_expires = 60
    MaxLosses     \* bound: broker connections lost by busy workers

VARIABLES
    message,      \* where the task's message is
    expires,      \* time left until the message is too old to be run
    hidden,       \* time left until an unacknowledged message is restored
    result,       \* the last state stored in the result backend
    ttl,          \* time left until the result backend forgets it
    analysis,     \* the table analysis, by primary key
    job,          \* what each pool process is doing
    runs,         \* history: how often each task was started
    told,         \* what the status page shows: the last answer it had
    losses        \* broker connections lost so far

broker == <<message, expires, hidden>>
backend == <<result, ttl>>
vars == <<broker, backend, analysis, job, runs, told, losses>>
-----------------------------------------------------------------------------
\* "completed" and "failed" are SUCCESS with the status of the returned dict.
Result == {"none", "STARTED", "completed", "failed", "FAILURE", "REVOKED"}
Success == {"completed", "failed"}

\* "deleted" is history: the row is not in the table any more.
Row == [task : Tasks, clauses : BOOLEAN, deleted : BOOLEAN]

ASSUME AnalysisAssumption ==
    /\ None \notin Tasks \cup Ids \cup Row \cup Success
    /\ {Expires, Visibility, ResultTTL} \subseteq Nat \ {0}
    /\ Expires < Visibility
    /\ MaxLosses \in Nat

Stage == {"idle", "analysing", "analysed", "inserting", "saved",
          "returning", "stored"}

\* "connected" is false once the message can no longer be acknowledged.
Job == [stage : Stage, task : Tasks \cup {None}, id : Ids \cup {None},
        outcome : Success \cup {None}, connected : BOOLEAN]

Idle == [stage |-> "idle", task |-> None, id |-> None,
         outcome |-> None, connected |-> TRUE]

Inserted(t) == {a \in Ids : analysis[a] # None /\ analysis[a].task = t}
Rows == {a \in Ids : analysis[a] # None /\ ~analysis[a].deleted}
RowsOf(t) == Inserted(t) \cap Rows
InBody(w) == job[w].stage \in {"analysing", "analysed", "inserting", "saved"}
Holds(w) == job[w].stage # "idle" /\ job[w].connected

Init ==
    /\ message = [t \in Tasks |-> "unsent"]
    /\ expires = [t \in Tasks |-> 0]
    /\ hidden = [t \in Tasks |-> 0]
    /\ result = [t \in Tasks |-> "none"]
    /\ ttl = [t \in Tasks |-> 0]
    /\ analysis = [a \in Ids |-> None]
    /\ job = [w \in Workers |-> Idle]
    /\ runs = [t \in Tasks |-> 0]
    /\ told = [t \in Tasks |-> "pending"]
    /\ losses = 0
-----------------------------------------------------------------------------
(***************************************************************************)
(* What AsyncResult.state answers, and what a worker writes: the backend   *)
(* never replaces a SUCCESS it still has.                                  *)
(***************************************************************************)
State(t) ==
    CASE ttl[t] = 0          -> "PENDING"
      [] result[t] \in Success -> "SUCCESS"
      [] OTHER               -> result[t]

Store(t, r) ==
    IF State(t) = "SUCCESS"
    THEN UNCHANGED backend
    ELSE /\ result' = [result EXCEPT ![t] = r]
         /\ ttl' = [ttl EXCEPT ![t] = ResultTTL]

(***************************************************************************)
(* get_analysis_status: on SUCCESS the dict the task returned is not       *)
(* looked at, only the table is.                                           *)
(***************************************************************************)
Status(t) ==
    CASE State(t) = "FAILURE" -> "failed"
      [] State(t) = "SUCCESS" -> IF RowsOf(t) # {} THEN "completed" ELSE "failed"
      [] OTHER -> "pending"
-----------------------------------------------------------------------------
\* POST /analysis/analyze: queue_analysis_task.
Submit(t) ==
    /\ message[t] = "unsent"
    /\ message' = [message EXCEPT ![t] = "queued"]
    /\ expires' = [expires EXCEPT ![t] = Expires]
    /\ UNCHANGED <<hidden, backend, analysis, job, runs, told, losses>>

\* Mutant: no "expires", a message is run whatever its age.
StartUnexpired(w, t) ==
    /\ job[w].stage = "idle"
    /\ message[t] = "queued"
    /\ message' = [message EXCEPT ![t] = "unacked"]
    /\ hidden' = [hidden EXCEPT ![t] = Visibility]
    /\ job' = [job EXCEPT ![w] = [Idle EXCEPT !.stage = "analysing", !.task = t]]
    /\ runs' = [runs EXCEPT ![t] = @ + 1]
    /\ Store(t, "STARTED")
    /\ UNCHANGED <<expires, analysis, told, losses>>

\* Mutant: acks_late=False, the message is acknowledged when it is received.
StartAcknowledged(w, t) ==
    /\ job[w].stage = "idle"
    /\ message[t] = "queued" /\ expires[t] > 0
    /\ message' = [message EXCEPT ![t] = "settled"]
    /\ job' = [job EXCEPT ![w] = [Idle EXCEPT !.stage = "analysing", !.task = t]]
    /\ runs' = [runs EXCEPT ![t] = @ + 1]
    /\ Store(t, "STARTED")
    /\ UNCHANGED <<hidden, expires, analysis, told, losses>>

\* A worker receives the message in time: task_track_started, then the body.
Start(w, t) ==
    /\ job[w].stage = "idle"
    /\ message[t] = "queued" /\ expires[t] > 0
    /\ message' = [message EXCEPT ![t] = "unacked"]
    /\ hidden' = [hidden EXCEPT ![t] = Visibility]
    /\ job' = [job EXCEPT ![w] = [Idle EXCEPT !.stage = "analysing", !.task = t]]
    /\ runs' = [runs EXCEPT ![t] = @ + 1]
    /\ Store(t, "STARTED")
    /\ UNCHANGED <<expires, analysis, told, losses>>

\* A worker receives the message too late: it is revoked and acknowledged.
Revoke(w, t) ==
    /\ job[w].stage = "idle"
    /\ message[t] = "queued" /\ expires[t] = 0
    /\ message' = [message EXCEPT ![t] = "settled"]
    /\ Store(t, "REVOKED")
    /\ UNCHANGED <<expires, hidden, analysis, job, runs, told, losses>>

\* 1. run_async_analysis returns.
Analyse(w) ==
    /\ job[w].stage = "analysing"
    /\ job' = [job EXCEPT ![w].stage = "analysed"]
    /\ UNCHANGED <<broker, backend, analysis, runs, told, losses>>

\* Mutant: the check forgets the WHERE and finds the analysis of any task.
CheckExistingAny(w) ==
    /\ job[w].stage = "analysed"
    /\ job' = [job EXCEPT ![w] =
                 IF Rows # {}
                 THEN [@ EXCEPT !.stage = "returning", !.outcome = "completed"]
                 ELSE [@ EXCEPT !.stage = "inserting"]]
    /\ UNCHANGED <<broker, backend, analysis, runs, told, losses>>

\* 2. The idempotency check: is there an analysis of this task already?
CheckExisting(w) ==
    /\ job[w].stage = "analysed"
    /\ job' = [job EXCEPT ![w] =
                 IF RowsOf(@.task) # {}
                 THEN [@ EXCEPT !.stage = "returning", !.outcome = "completed"]
                 ELSE [@ EXCEPT !.stage = "inserting"]]
    /\ UNCHANGED <<broker, backend, analysis, runs, told, losses>>

\* The first commit: the analysis, without its clauses.
SaveAnalysis(w) ==
    /\ job[w].stage = "inserting"
    /\ \E a \in Ids :
         /\ analysis[a] = None
         /\ analysis' = [analysis EXCEPT ![a] =
                           [task |-> job[w].task, clauses |-> FALSE,
                            deleted |-> FALSE]]
         /\ job' = [job EXCEPT ![w] = [@ EXCEPT !.stage = "saved", !.id = a]]
    /\ UNCHANGED <<broker, backend, runs, told, losses>>

\* The second commit: the clauses. It needs the row of the first.
SaveClauses(w) ==
    /\ job[w].stage = "saved"
    /\ job[w].id \in Rows
    /\ analysis' = [analysis EXCEPT ![job[w].id].clauses = TRUE]
    /\ job' = [job EXCEPT ![w] =
                 [@ EXCEPT !.stage = "returning", !.outcome = "completed"]]
    /\ UNCHANGED <<broker, backend, runs, told, losses>>

\* Any exception of the body (the model's API, the database, a soft time
\* limit, a clause that does not fit its column) is caught and returned.
Fail(w) ==
    /\ InBody(w)
    /\ job' = [job EXCEPT ![w] =
                 [@ EXCEPT !.stage = "returning", !.outcome = "failed"]]
    /\ UNCHANGED <<broker, backend, analysis, runs, told, losses>>

\* 3. Celery stores what the body returned, as SUCCESS in either case ...
Return(w) ==
    /\ job[w].stage = "returning"
    /\ Store(job[w].task, job[w].outcome)
    /\ job' = [job EXCEPT ![w].stage = "stored"]
    /\ UNCHANGED <<broker, analysis, runs, told, losses>>

\* ... and then acknowledges the message (acks_late), if it still can.
Acknowledge(w) ==
    IF job[w].connected
    THEN /\ message' = [message EXCEPT ![job[w].task] = "settled"]
         /\ hidden' = [hidden EXCEPT ![job[w].task] = 0]
    ELSE UNCHANGED <<message, hidden>>

Ack(w) ==
    /\ job[w].stage = "stored"
    /\ Acknowledge(w)
    /\ job' = [job EXCEPT ![w] = Idle]
    /\ UNCHANGED <<expires, backend, analysis, runs, told, losses>>
-----------------------------------------------------------------------------
\* The whole worker dies: its message stays unacknowledged.
Crash(w) ==
    /\ job[w].stage # "idle"
    /\ job' = [job EXCEPT ![w] = Idle]
    /\ UNCHANGED <<broker, backend, analysis, runs, told, losses>>

\* Only the pool process dies, or task_time_limit kills it: the worker
\* stores FAILURE and acknowledges (task_acks_on_failure_or_timeout).
KillProcess(w) ==
    /\ InBody(w) \/ job[w].stage = "returning"
    /\ Store(job[w].task, "FAILURE")
    /\ Acknowledge(w)
    /\ job' = [job EXCEPT ![w] = Idle]
    /\ UNCHANGED <<expires, analysis, runs, told, losses>>

\* The worker loses the broker while the task runs: the message returns to
\* the queue, the task goes on and cannot be acknowledged any more.
LoseConnection(w) ==
    /\ losses < MaxLosses
    /\ Holds(w)
    /\ losses' = losses + 1
    /\ message' = [message EXCEPT ![job[w].task] = "queued"]
    /\ job' = [job EXCEPT ![w].connected = FALSE]
    /\ UNCHANGED <<expires, hidden, backend, analysis, runs, told>>

\* The visibility timeout of an unacknowledged message is over.
Restore(t) ==
    /\ message[t] = "unacked" /\ hidden[t] = 0
    /\ message' = [message EXCEPT ![t] = "queued"]
    /\ UNCHANGED <<expires, hidden, backend, analysis, job, runs, told, losses>>

(***************************************************************************)
(* Time passes. A running task is killed (30 minutes) before its message   *)
(* becomes visible again (one hour), so time cannot overtake it.           *)
(***************************************************************************)
CountDown(f) == [t \in Tasks |-> IF f[t] = 0 THEN 0 ELSE f[t] - 1]

Tick ==
    /\ \A w \in Workers : Holds(w) => hidden[job[w].task] > 1
    /\ expires' = CountDown(expires)
    /\ hidden' = CountDown(hidden)
    /\ ttl' = CountDown(ttl)
    /\ UNCHANGED <<message, result, analysis, job, runs, told, losses>>
-----------------------------------------------------------------------------
\* useAnalysisStatus asks until the answer is final.
Polling(t) ==
    message[t] # "unsent" /\ told[t] \notin {"completed", "failed"}

\* GET /analysis/status/{task_id}.
Poll(t) ==
    /\ Polling(t)
    /\ told' = [told EXCEPT ![t] = Status(t)]
    /\ UNCHANGED <<broker, backend, analysis, job, runs, losses>>

\* DELETE /analysis/{analysis_id}; the clauses go with the row.
Delete(a) ==
    /\ a \in Rows
    /\ analysis' = [analysis EXCEPT ![a].deleted = TRUE]
    /\ UNCHANGED <<broker, backend, job, runs, told, losses>>

Work(w) ==
    \/ Analyse(w) \/ CheckExisting(w) \/ SaveAnalysis(w) \/ SaveClauses(w)
    \/ Fail(w) \/ Return(w) \/ Ack(w)

Next ==
    \/ \E t \in Tasks : Submit(t) \/ Restore(t) \/ Poll(t)
    \/ \E w \in Workers, t \in Tasks : Start(w, t) \/ Revoke(w, t)
    \/ \E w \in Workers :
         Work(w) \/ Crash(w) \/ KillProcess(w) \/ LoseConnection(w)
    \/ \E a \in Ids : Delete(a)
    \/ Tick

Spec == Init /\ [][Next]_vars

(***************************************************************************)
(* Workers keep working on what they have (no task runs for ever: the time *)
(* limit), fetch messages when idle, the broker restores, time passes.     *)
(* Nobody has to submit, poll, delete, or crash.                           *)
(***************************************************************************)
Fairness ==
    /\ \A w \in Workers : WF_vars(Work(w))
    /\ \A t \in Tasks :
         /\ WF_vars(\E w \in Workers : Start(w, t) \/ Revoke(w, t))
         /\ WF_vars(Restore(t))
    /\ WF_vars(Tick)

FairSpec == Spec /\ Fairness
-----------------------------------------------------------------------------
TypeOK ==
    /\ message \in [Tasks -> {"unsent", "queued", "unacked", "settled"}]
    /\ expires \in [Tasks -> 0..Expires]
    /\ hidden \in [Tasks -> 0..Visibility]
    /\ result \in [Tasks -> Result]
    /\ ttl \in [Tasks -> 0..ResultTTL]
    /\ analysis \in [Ids -> Row \cup {None}]
    /\ job \in [Workers -> Job]
    /\ runs \in [Tasks -> Nat]
    /\ told \in [Tasks -> {"pending", "completed", "failed"}]
    /\ losses \in 0..MaxLosses

(***************************************************************************)
(* The model's API is paid for once per document: no task is started more  *)
(* often than connections were lost, plus one. A message that returns      *)
(* because its worker died is older than "expires" by then.                *)
(***************************************************************************)
RunsBounded == \A t \in Tasks : runs[t] <= 1 + losses

(***************************************************************************)
(* The idempotency check: a task inserts one analysis, however often its   *)
(* message is delivered and even if the user deletes it in between -- as   *)
(* long as no busy worker lost its connection to the broker. (Two workers  *)
(* that have the same message at once both find no analysis and both       *)
(* insert one: nothing in the table forbids it.)                           *)
(***************************************************************************)
OneAnalysis ==
    losses = 0 => \A t \in Tasks : Cardinality(Inserted(t)) <= 1

(***************************************************************************)
(* acks_late: a message leaves the broker only after the end of its task   *)
(* was recorded, and while it is on a worker some worker, or the           *)
(* visibility timeout, will bring it back.                                 *)
(***************************************************************************)
SettledHasVerdict ==
    \A t \in Tasks : message[t] = "settled" => result[t] \notin {"none", "STARTED"}

(***************************************************************************)
(* A run that skips saving is right to: a task recorded as completed has   *)
(* had its own analysis inserted, by this run or another delivery's.       *)
(***************************************************************************)
CompletedIsSaved ==
    \A t \in Tasks : result[t] = "completed" => Inserted(t) # {}

(***************************************************************************)
(* useAnalysisStatus stops asking at "failed": no analysis of the task     *)
(* appears after that, as long as no busy worker lost its connection.      *)
(***************************************************************************)
FailedIsFinal ==
    [][losses' = 0 =>
         \A t \in Tasks : told[t] = "failed" => Inserted(t)' = Inserted(t)]_vars

(***************************************************************************)
(* The pipeline is the abstract job: saved at most once, and one more time *)
(* for each connection lost; only while open until one is lost; and closed *)
(* in the end.                                                             *)
(***************************************************************************)
Jobs == INSTANCE AnalysisJob WITH
    open <- {t \in Tasks : message[t] \in {"queued", "unacked"}},
    closed <- {t \in Tasks : message[t] = "settled"},
    copies <- [t \in Tasks |-> Cardinality(Inserted(t))],
    lost <- losses
RefinesJob == Jobs!Spec
RefinesFairJob == Jobs!FairSpec
-----------------------------------------------------------------------------
(***************************************************************************)
(* Statements of the repository's documents that the code does not keep:   *)
(* TLC refutes each with the constants README.md names.                    *)
(***************************************************************************)

\* A task whose run failed is reported as failed, never as completed.
FailedNotCompleted ==
    \A t \in Tasks : result[t] = "failed" => Status(t) # "completed"

\* A task that failed was tried more than once (max_retries=3).
FailureRetried == \A t \in Tasks : result[t] = "failed" => runs[t] > 1

\* A saved, completed analysis is reported as completed from then on: the
\* database is the durable record, not the result backend.
DurableVerdict ==
    \A t \in Tasks : message[t] = "settled" /\ result[t] = "completed"
                    /\ RowsOf(t) # {} => Status(t) = "completed"

\* Once the broker is done with a task, the polling client is told the end.
SettledIsTerminal ==
    \A t \in Tasks : message[t] = "settled" /\ ttl[t] > 0 => Status(t) # "pending"

\* A task whose worker died is run by another worker.
Orphaned(t) == message[t] = "unacked" /\ \A w \in Workers : job[w].task # t
CrashRecovered ==
    \A t \in Tasks : Orphaned(t) ~> \E w \in Workers : job[w].task = t
=============================================================================
