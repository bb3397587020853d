-------------------------- MODULE ReportLifecycle --------------------------
(***************************************************************************)
(* The PDF report of an analysis: a row in PostgreSQL, a file on disk with *)
(* a fixed name, and the actors that change one after the other without a  *)
(* transaction over both: the requests that generate, poll and delete      *)
(* (app/api/reports.py, app/services), the Celery task create_report_pdf,  *)
(* and the two periodic clean-up tasks.                                    *)
(*                                                                         *)
(* report_path is a function of the analysis and is always written and     *)
(* cleared together with report_stored, so "stored" stands for both.       *)
(***************************************************************************)
EXTENDS Naturals, FiniteSets

CONSTANTS
    Analyses,     \* analyses that exist at the start
    Tasks,        \* Celery ids of report tasks; each is used once
    Workers,      \* pool processes
    Requests,     \* request handlers that can be in progress at once
    None,
    Queues,       \* the queues the worker consumes, its option -Q
    MaxCrashes    \* bound: deaths of a worker

VARIABLES
    exists,       \* the analyses whose row is in the table
    stored,       \* report_stored (and report_path) of each analysis
    current,      \* report_task_id of each analysis
    file,         \* report_<id>.pdf
    written,      \* history: the analyses whose PDF was written completely
    message,      \* the message of each task
    about,        \* the analysis each task was sent for
    result,       \* the state of each task in the result backend
    job,          \* what each pool process is doing
    req,          \* the requests in progress
    cleaner,      \* the clean-up task in progress
    told,         \* what the client of each task was last told
    crashes

table == <<exists, stored, current>>
disk == <<file, written>>
celery == <<message, about, result>>
vars == <<table, disk, celery, job, req, cleaner, told, crashes>>
-----------------------------------------------------------------------------
ASSUME ReportAssumption ==
    /\ None \notin Tasks \cup Analyses \cup {"completed", "failed"}
    /\ "analysis" \in Queues
    /\ MaxCrashes \in Nat

\* task_routes; a task that has no route goes to Celery's default queue.
QueueOf(name) ==
    CASE name = "create_report_pdf" -> "analysis"
      [] name = "cleanup_expired_refresh_tokens" -> "cleanup"
      [] OTHER -> "celery"

Consumed(name) == QueueOf(name) \in Queues

\* "partial": opened for writing, and truncated by that, but not complete.
FileState == {"none", "partial", "fresh", "old"}
Result == {"none", "STARTED", "completed", "failed", "FAILURE"}
Answer == {"none", "pending", "unknown", "completed", "failed", "notfound"}

\* "linked": the file this process has open is still the one of that name.
\* "saw": report_stored of the row as this session loaded it.
Job == [stage : {"idle", "rendering", "opened", "written", "loaded",
                 "returning"},
        task : Tasks \cup {None}, linked : BOOLEAN, saw : BOOLEAN,
        outcome : {"completed", "failed", None}]

NoJob == [stage |-> "idle", task |-> None, linked |-> FALSE, saw |-> FALSE,
          outcome |-> None]

Request == [stage : {"idle", "missing", "sent", "loaded", "fallback",
                     "deleting", "unlinked"},
            analysis : Analyses \cup {None}, task : Tasks \cup {None},
            saw : BOOLEAN]

NoRequest == [stage |-> "idle", analysis |-> None, task |-> None, saw |-> FALSE]

Cleaner == [stage : {"idle", "unlinking", "selecting", "clearing"},
            targets : SUBSET Analyses]

NoCleanup == [stage |-> "idle", targets |-> {}]

OnDisk(a) == file[a] # "none"
Ready(a) == stored[a] /\ OnDisk(a)

Init ==
    /\ exists = Analyses
    /\ stored = [a \in Analyses |-> FALSE]
    /\ current = [a \in Analyses |-> None]
    /\ file = [a \in Analyses |-> "none"]
    /\ written = {}
    /\ message = [t \in Tasks |-> "unsent"]
    /\ about = [t \in Tasks |-> None]
    /\ result = [t \in Tasks |-> "none"]
    /\ job = [w \in Workers |-> NoJob]
    /\ req = [r \in Requests |-> NoRequest]
    /\ cleaner = NoCleanup
    /\ told = [t \in Tasks |-> "none"]
    /\ crashes = 0
-----------------------------------------------------------------------------
(***************************************************************************)
(* POST /reports/{analysis_id}. The row and the disk are looked at, and    *)
(* the disk once more with the row as the session loaded it; the task is   *)
(* sent; its id is committed to the row, the only column that changed. If  *)
(* the row is gone by then the commit fails and the client gets an error,  *)
(* but the task is on its way.                                             *)
(***************************************************************************)
GenerateCheck(r, a) ==
    /\ req[r].stage = "idle"
    /\ a \in exists /\ ~Ready(a)
    /\ req' = [req EXCEPT ![r] =
                 [NoRequest EXCEPT !.stage = "missing", !.analysis = a,
                                   !.saw = stored[a]]]
    /\ UNCHANGED <<table, disk, celery, job, cleaner, told, crashes>>

\* The second look finds the file, which has come back meanwhile: nothing is
\* sent, and the client is given "already_exists" for the id of a task.
FoundAgain(r) == req[r].saw /\ OnDisk(req[r].analysis)

GenerateExists(r) ==
    /\ req[r].stage = "missing"
    /\ FoundAgain(r)
    /\ req' = [req EXCEPT ![r] = NoRequest]
    /\ UNCHANGED <<table, disk, celery, job, cleaner, told, crashes>>

GenerateSend(r) ==
    /\ req[r].stage = "missing"
    /\ ~FoundAgain(r)
    /\ \E t \in Tasks :
         /\ message[t] = "unsent"
         /\ message' = [message EXCEPT ![t] = "queued"]
         /\ about' = [about EXCEPT ![t] = req[r].analysis]
         /\ req' = [req EXCEPT ![r] = [@ EXCEPT !.stage = "sent", !.task = t]]
    /\ UNCHANGED <<table, disk, result, job, cleaner, told, crashes>>

\* The broker is not reachable: delay() raises, nothing was sent.
GenerateFail(r) ==
    /\ req[r].stage = "missing"
    /\ req' = [req EXCEPT ![r] = NoRequest]
    /\ UNCHANGED <<table, disk, celery, job, cleaner, told, crashes>>

\* Mutant: the commit writes back every column the request loaded.
GenerateCommitAll(r) ==
    /\ req[r].stage = "sent"
    /\ IF req[r].analysis \in exists
       THEN /\ current' = [current EXCEPT ![req[r].analysis] = req[r].task]
            /\ stored' = [stored EXCEPT ![req[r].analysis] = req[r].saw]
            /\ told' = [told EXCEPT ![req[r].task] = "pending"]
       ELSE UNCHANGED <<stored, current, told>>
    /\ req' = [req EXCEPT ![r] = NoRequest]
    /\ UNCHANGED <<exists, disk, celery, job, cleaner, crashes>>

GenerateCommit(r) ==
    /\ req[r].stage = "sent"
    /\ IF req[r].analysis \in exists
       THEN /\ current' = [current EXCEPT ![req[r].analysis] = req[r].task]
            /\ told' = [told EXCEPT ![req[r].task] = "pending"]
       ELSE UNCHANGED <<current, told>>
    /\ req' = [req EXCEPT ![r] = NoRequest]
    /\ UNCHANGED <<exists, stored, disk, celery, job, cleaner, crashes>>
-----------------------------------------------------------------------------
(***************************************************************************)
(* GET /reports/status/{task_id}. The row is loaded once: a later SELECT   *)
(* of the same session may find nothing any more, but otherwise returns    *)
(* the object it has, with the same values.                                *)
(***************************************************************************)
Polling(t) == told[t] \in {"pending", "unknown"}

StatusLoad(r, t) ==
    /\ req[r].stage = "idle"
    /\ Polling(t)
    /\ LET found == {a \in exists : current[a] = t}
       IN  IF found = {}
           THEN /\ told' = [told EXCEPT ![t] = "notfound"]
                /\ UNCHANGED req
           ELSE \E a \in found :
                /\ req' = [req EXCEPT ![r] =
                             [stage |-> "loaded", analysis |-> a,
                              task |-> t, saw |-> stored[a]]]
                /\ UNCHANGED told
    /\ UNCHANGED <<table, disk, celery, job, cleaner, crashes>>

\* The second SELECT finds the row, and with this task's id.
StillNamed(t, a) == a \in exists /\ current[a] = t

\* The answer that needs no write; "started" is not a TaskStatus.
StatusOf(t, a, saw) ==
    CASE ~StillNamed(t, a) -> "failed"
      [] saw /\ OnDisk(a) -> "completed"
      [] result[t] = "none" -> "pending"
      [] result[t] = "STARTED" -> "unknown"
      [] OTHER -> "failed"

\* SUCCESS, but this session saw the row before the task updated it.
NeedsFallback(q) ==
    /\ StillNamed(q.task, q.analysis)
    /\ result[q.task] = "completed"
    /\ ~q.saw

StatusAnswer(r) ==
    /\ req[r].stage = "loaded"
    /\ IF NeedsFallback(req[r])
       THEN /\ req' = [req EXCEPT ![r].stage = "fallback"]
            /\ UNCHANGED told
       ELSE /\ req' = [req EXCEPT ![r] = NoRequest]
            /\ told' = [told EXCEPT ![req[r].task] =
                          StatusOf(req[r].task, req[r].analysis, req[r].saw)]
    /\ UNCHANGED <<table, disk, celery, job, cleaner, crashes>>

\* The fallback update. The endpoint then looks for the file; if the row is
\* gone the commit fails, the client sees an error and asks again.
StatusFallback(r) ==
    LET a == req[r].analysis
    IN  /\ req[r].stage = "fallback"
        /\ IF a \in exists
           THEN /\ stored' = [stored EXCEPT ![a] = TRUE]
                /\ told' = [told EXCEPT ![req[r].task] =
                              IF OnDisk(a) THEN "completed" ELSE "failed"]
           ELSE UNCHANGED <<stored, told>>
        /\ req' = [req EXCEPT ![r] = NoRequest]
        /\ UNCHANGED <<exists, current, disk, celery, job, cleaner, crashes>>
-----------------------------------------------------------------------------
\* A file is removed; a process that has it open writes into nothing.
Unlink(a) ==
    /\ file' = [file EXCEPT ![a] = "none"]
    /\ job' = [w \in Workers |->
                 IF job[w].stage = "opened" /\ about[job[w].task] = a
                 THEN [job[w] EXCEPT !.linked = FALSE] ELSE job[w]]

(***************************************************************************)
(* DELETE /analysis/{analysis_id}: the file first, if the row names it,    *)
(* and then the row.                                                       *)
(***************************************************************************)
DeleteLoad(r, a) ==
    /\ req[r].stage = "idle"
    /\ a \in exists
    /\ req' = [req EXCEPT ![r] =
                 [NoRequest EXCEPT !.stage = "deleting", !.analysis = a,
                                   !.saw = stored[a]]]
    /\ UNCHANGED <<table, disk, celery, job, cleaner, told, crashes>>

\* A failure to remove the file is logged, and the row is deleted anyway.
DeleteFile(r) ==
    /\ req[r].stage = "deleting"
    /\ \/ req[r].saw /\ Unlink(req[r].analysis)
       \/ UNCHANGED <<file, job>>
    /\ req' = [req EXCEPT ![r].stage = "unlinked"]
    /\ UNCHANGED <<table, written, celery, cleaner, told, crashes>>

DeleteCommit(r) ==
    /\ req[r].stage = "unlinked"
    /\ exists' = exists \ {req[r].analysis}
    /\ req' = [req EXCEPT ![r] = NoRequest]
    /\ UNCHANGED <<stored, current, disk, celery, job, cleaner, told, crashes>>

\* The database refuses a request, or the API process dies: what it had not
\* committed is lost, the task it sent and the file it removed are not.
Abort(r) ==
    /\ req[r].stage # "idle"
    /\ req' = [req EXCEPT ![r] = NoRequest]
    /\ UNCHANGED <<table, disk, celery, job, cleaner, told, crashes>>
-----------------------------------------------------------------------------
(***************************************************************************)
(* create_report_pdf on a worker.                                          *)
(***************************************************************************)
Start(w, t) ==
    /\ Consumed("create_report_pdf")
    /\ job[w].stage = "idle"
    /\ message[t] = "queued"
    /\ message' = [message EXCEPT ![t] = "running"]
    /\ result' = [result EXCEPT ![t] = "STARTED"]
    /\ job' = [job EXCEPT ![w] = [NoJob EXCEPT !.stage = "rendering", !.task = t]]
    /\ UNCHANGED <<table, disk, about, req, cleaner, told, crashes>>

\* open(file_path, "wb") truncates what is there.
OpenFile(w) ==
    /\ job[w].stage = "rendering"
    /\ file' = [file EXCEPT ![about[job[w].task]] = "partial"]
    /\ job' = [job EXCEPT ![w] = [@ EXCEPT !.stage = "opened", !.linked = TRUE]]
    /\ UNCHANGED <<table, written, celery, req, cleaner, told, crashes>>

WriteFile(w) ==
    LET a == about[job[w].task]
    IN  /\ job[w].stage = "opened"
        /\ file' = [file EXCEPT ![a] = IF job[w].linked THEN "fresh" ELSE @]
        /\ written' = written \cup {a}
        /\ job' = [job EXCEPT ![w].stage = "written"]
        /\ UNCHANGED <<table, celery, req, cleaner, told, crashes>>

\* Mutant: the row is updated while the file is still being written.
LoadRowEarly(w) ==
    LET a == about[job[w].task]
    IN  /\ job[w].stage \in {"opened", "written"}
        /\ job' = [job EXCEPT ![w] =
                     IF a \in exists
                     THEN [@ EXCEPT !.stage = "loaded", !.saw = stored[a]]
                     ELSE [@ EXCEPT !.stage = "returning", !.outcome = "failed"]]
        /\ UNCHANGED <<table, disk, celery, req, cleaner, told, crashes>>

LoadRow(w) ==
    LET a == about[job[w].task]
    IN  /\ job[w].stage = "written"
        /\ job' = [job EXCEPT ![w] =
                     IF a \in exists
                     THEN [@ EXCEPT !.stage = "loaded", !.saw = stored[a]]
                     ELSE [@ EXCEPT !.stage = "returning", !.outcome = "failed"]]
        /\ UNCHANGED <<table, disk, celery, req, cleaner, told, crashes>>

\* Only changed columns are written: report_stored is not if it was true.
UpdateRow(w) ==
    LET a == about[job[w].task]
    IN  /\ job[w].stage = "loaded"
        /\ a \in exists
        /\ stored' = [stored EXCEPT ![a] = IF job[w].saw THEN @ ELSE TRUE]
        /\ job' = [job EXCEPT ![w] =
                     [@ EXCEPT !.stage = "returning", !.outcome = "completed"]]
        /\ UNCHANGED <<exists, current, disk, celery, req, cleaner, told, crashes>>

\* Every exception is caught and becomes a result: rendering, a full disk,
\* the database, a row that is gone.
Fail(w) ==
    /\ job[w].stage \in {"rendering", "opened", "written", "loaded"}
    /\ job' = [job EXCEPT ![w] =
                 [@ EXCEPT !.stage = "returning", !.outcome = "failed"]]
    /\ UNCHANGED <<table, disk, celery, req, cleaner, told, crashes>>

\* Mutant: a failed task is retried without a limit.
ReturnRetrying(w) ==
    /\ job[w].stage = "returning"
    /\ message' = [message EXCEPT ![job[w].task] =
                     IF job[w].outcome = "failed" THEN "queued" ELSE "settled"]
    /\ result' = [result EXCEPT ![job[w].task] = job[w].outcome]
    /\ job' = [job EXCEPT ![w] = NoJob]
    /\ UNCHANGED <<table, disk, about, req, cleaner, told, crashes>>

\* The result is stored and the message acknowledged.
Return(w) ==
    /\ job[w].stage = "returning"
    /\ message' = [message EXCEPT ![job[w].task] = "settled"]
    /\ result' = [result EXCEPT ![job[w].task] = job[w].outcome]
    /\ job' = [job EXCEPT ![w] = NoJob]
    /\ UNCHANGED <<table, disk, about, req, cleaner, told, crashes>>

\* A worker dies; the message has no "expires" and is delivered again.
Crash(w) ==
    /\ crashes < MaxCrashes
    /\ job[w].stage # "idle"
    /\ crashes' = crashes + 1
    /\ message' = [message EXCEPT ![job[w].task] = "queued"]
    /\ job' = [job EXCEPT ![w] = NoJob]
    /\ UNCHANGED <<table, disk, about, result, req, cleaner, told>>

\* The time limit kills the pool process: FAILURE, acknowledged.
Kill(w) ==
    /\ job[w].stage # "idle"
    /\ message' = [message EXCEPT ![job[w].task] = "settled"]
    /\ result' = [result EXCEPT ![job[w].task] = "FAILURE"]
    /\ job' = [job EXCEPT ![w] = NoJob]
    /\ UNCHANGED <<table, disk, about, req, cleaner, told, crashes>>

\* result_expires.
Forget(t) ==
    /\ result[t] # "none"
    /\ result' = [result EXCEPT ![t] = "none"]
    /\ UNCHANGED <<table, disk, message, about, job, req, cleaner, told, crashes>>
-----------------------------------------------------------------------------
(***************************************************************************)
(* cleanup_old_report_files: the old files are listed, unlinked one by     *)
(* one, and the rows that name a missing file are cleared.                 *)
(***************************************************************************)
OldFiles == {a \in Analyses : file[a] = "old"}

CleanOldScan ==
    /\ Consumed("cleanup_old_report_files")
    /\ cleaner.stage = "idle"
    /\ OldFiles # {}
    /\ cleaner' = [stage |-> "unlinking", targets |-> OldFiles]
    /\ UNCHANGED <<table, disk, celery, job, req, told, crashes>>

\* A file that cannot be removed is left for the next time.
CleanOldUnlink(a) ==
    /\ cleaner.stage = "unlinking"
    /\ a \in cleaner.targets
    /\ Unlink(a) \/ UNCHANGED <<file, job>>
    /\ cleaner' = IF cleaner.targets = {a}
                  THEN [stage |-> "selecting", targets |-> {}]
                  ELSE [cleaner EXCEPT !.targets = @ \ {a}]
    /\ UNCHANGED <<table, written, celery, req, told, crashes>>

\* cleanup_orphaned_report_references starts at the SELECT.
CleanOrphans ==
    /\ Consumed("cleanup_orphaned_report_references")
    /\ cleaner.stage = "idle"
    /\ cleaner' = [cleaner EXCEPT !.stage = "selecting"]
    /\ UNCHANGED <<table, disk, celery, job, req, told, crashes>>

CleanSelect ==
    /\ cleaner.stage = "selecting"
    /\ LET dangling == {a \in exists : stored[a] /\ ~OnDisk(a)}
       IN  cleaner' = IF dangling = {} THEN NoCleanup
                      ELSE [stage |-> "clearing", targets |-> dangling]
    /\ UNCHANGED <<table, disk, celery, job, req, told, crashes>>

\* One commit for all rows: it fails as a whole if one of them is gone.
CleanCommit ==
    /\ cleaner.stage = "clearing"
    /\ stored' = IF cleaner.targets \subseteq exists
                 THEN [a \in Analyses |-> stored[a] /\ a \notin cleaner.targets]
                 ELSE stored
    /\ cleaner' = NoCleanup
    /\ UNCHANGED <<exists, current, disk, celery, job, req, told, crashes>>

\* Thirty days without anything in progress make a file old.
Quiet ==
    /\ \A w \in Workers : job[w].stage = "idle"
    /\ \A r \in Requests : req[r].stage = "idle"
    /\ \A t \in Tasks : message[t] # "queued"
    /\ cleaner.stage = "idle"

Age ==
    /\ Quiet
    /\ \E a \in Analyses : file[a] \in {"fresh", "partial"}
    /\ file' = [a \in Analyses |-> IF OnDisk(a) THEN "old" ELSE "none"]
    /\ UNCHANGED <<table, written, celery, job, req, cleaner, told, crashes>>
-----------------------------------------------------------------------------
Handle(r) ==
    \/ GenerateExists(r) \/ GenerateSend(r) \/ GenerateFail(r)
    \/ GenerateCommit(r) \/ StatusAnswer(r) \/ StatusFallback(r)
    \/ DeleteFile(r) \/ DeleteCommit(r)

Work(w) ==
    \/ OpenFile(w) \/ WriteFile(w) \/ LoadRow(w) \/ UpdateRow(w)
    \/ Fail(w) \/ Return(w)

Clean == CleanSelect \/ CleanCommit \/ \E a \in Analyses : CleanOldUnlink(a)

Next ==
    \/ \E r \in Requests, a \in Analyses : GenerateCheck(r, a) \/ DeleteLoad(r, a)
    \/ \E r \in Requests, t \in Tasks : StatusLoad(r, t)
    \/ \E r \in Requests : Handle(r) \/ Abort(r)
    \/ \E w \in Workers, t \in Tasks : Start(w, t)
    \/ \E w \in Workers : Work(w) \/ Crash(w) \/ Kill(w)
    \/ \E t \in Tasks : Forget(t)
    \/ CleanOldScan \/ CleanOrphans \/ Clean
    \/ Age

Spec == Init /\ [][Next]_vars

(***************************************************************************)
(* Handlers and workers finish what they began, messages are delivered,    *)
(* Celery Beat sends both clean-up tasks again and again, files get old,   *)
(* and a file can be removed some day. Nobody has to make a request. The   *)
(* clean-up tasks run only if their queue is consumed.                     *)
(***************************************************************************)
Fairness ==
    /\ \A r \in Requests : WF_vars(Handle(r))
    /\ \A w \in Workers : WF_vars(Work(w))
    /\ \A t \in Tasks : WF_vars(\E w \in Workers : Start(w, t))
    /\ WF_vars(Clean) /\ SF_vars(CleanOldScan) /\ SF_vars(CleanOrphans)
    /\ \A a \in Analyses : SF_vars(CleanOldUnlink(a) /\ ~OnDisk(a)')
    /\ SF_vars(Age)

FairSpec == Spec /\ Fairness
-----------------------------------------------------------------------------
TypeOK ==
    /\ exists \subseteq Analyses
    /\ stored \in [Analyses -> BOOLEAN]
    /\ current \in [Analyses -> Tasks \cup {None}]
    /\ file \in [Analyses -> FileState]
    /\ written \subseteq Analyses
    /\ message \in [Tasks -> {"unsent", "queued", "running", "settled"}]
    /\ about \in [Tasks -> Analyses \cup {None}]
    /\ result \in [Tasks -> Result]
    /\ job \in [Workers -> Job]
    /\ req \in [Requests -> Request]
    /\ cleaner \in Cleaner
    /\ told \in [Tasks -> Answer]
    /\ crashes \in 0..MaxCrashes

(***************************************************************************)
(* The row never announces a report whose PDF was not written to the end   *)
(* at least once, whatever the task, a stale fallback update, a crash or a *)
(* clean-up did in between.                                                *)
(***************************************************************************)
StoredWasWritten == \A a \in Analyses : stored[a] => a \in written

(***************************************************************************)
(* The table is the durable record: once a task is recorded as completed,  *)
(* its analysis says so, although other requests commit rows they loaded   *)
(* earlier. (Where clean-up runs, it clears rows on purpose.)              *)
(***************************************************************************)
CompletedIsRecorded ==
    \A t \in Tasks :
        result[t] = "completed" /\ about[t] \in exists => stored[about[t]]

(***************************************************************************)
(* Every report task that was sent is settled, however workers die.        *)
(***************************************************************************)
TasksSettle == \A t \in Tasks : message[t] = "queued" ~> message[t] = "settled"
-----------------------------------------------------------------------------
(***************************************************************************)
(* Statements of the repository's documents that the code does not keep:   *)
(* TLC refutes each with the constants README.md names.                    *)
(***************************************************************************)

\* A report that can be downloaded is complete: regeneration is idempotent
\* from the file-storage perspective.
ServedIsWhole ==
    \A a \in exists : Ready(a) => file[a] # "partial"

\* The status endpoint finds the analysis of a task id it handed out.
HandedOutIsFound ==
    \A t \in Tasks : Polling(t) /\ about[t] \in exists => current[about[t]] = t

\* Clean-up clears only references to files that do not exist.
ClearedWasMissing ==
    [][\A a \in exists : stored[a] /\ ~stored[a]' => ~OnDisk(a)]_vars

\* Deleting an analysis deletes its report: nothing is left once every task
\* and request has ended.
DeleteIsComplete == Quiet => \A a \in Analyses : OnDisk(a) => a \in exists

\* The next two under FairSpec. The clean-up tasks for reports have no route
\* and go to a queue the deployed worker does not consume: they never run.

\* A row that names a missing file is repaired: the file is generated again,
\* the row is cleared, or it is deleted.
Dangling(a) == a \in exists /\ stored[a] /\ ~OnDisk(a)
DanglingRepaired == \A a \in Analyses : Dangling(a) ~> ~Dangling(a)

\* A file that survived the deletion of its analysis, because a task was on
\* its way, is purged in the end.
OrphansPurged == \A a \in Analyses : (a \notin exists) ~> ~OnDisk(a)
=============================================================================
