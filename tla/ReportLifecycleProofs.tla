----------------------- MODULE ReportLifecycleProofs -----------------------
(***************************************************************************)
(* What the table says about reports, for every number of analyses, tasks, *)
(* workers and requests, and in every interleaving of generation, polling, *)
(* deletion, worker deaths and clean-up: a row announces no report that    *)
(* was never written; and where the default queue is not consumed, so that *)
(* no report is cleaned up, what a completed task recorded is not undone   *)
(* by a request that loaded the row earlier. The last section says under   *)
(* which hypotheses the statements hold that TLC refutes without them.     *)
(***************************************************************************)
EXTENDS ReportLifecycle, TLAPS

\* A task that is known anywhere was sent, and stays about the analysis it was
\* sent for.
Links ==
    /\ \A w \in Workers :
         /\ job[w].stage # "idle" =>
              job[w].task \in Tasks /\ message[job[w].task] # "unsent"
         /\ job[w].outcome # None <=> job[w].stage = "returning"
    /\ \A t \in Tasks :
         /\ message[t] # "unsent" => about[t] \in Analyses
         /\ result[t] # "none" => message[t] # "unsent"
    /\ \A a \in Analyses : \A t \in Tasks :
         current[a] = t => message[t] # "unsent" /\ about[t] = a
    /\ \A r \in Requests :
         /\ req[r].stage # "idle" => req[r].analysis \in Analyses
         /\ req[r].stage \in {"sent", "loaded"} =>
              /\ req[r].task \in Tasks
              /\ message[req[r].task] # "unsent"
              /\ about[req[r].task] = req[r].analysis

\* Whoever is about to announce a report, or has announced it, comes after a
\* task that wrote its PDF.
WrittenFirst ==
    /\ StoredWasWritten
    /\ \A w \in Workers :
         job[w].stage \in {"written", "loaded"} \/ job[w].outcome = "completed"
            => about[job[w].task] \in written
    /\ \A t \in Tasks : result[t] = "completed" => about[t] \in written
    /\ \A r \in Requests : req[r].stage = "fallback" => req[r].analysis \in written

\* Where clean-up does not run, a task that found the row announced, or announced it, can
\* rely on it.
RecordedFirst ==
    "celery" \notin Queues =>
        /\ cleaner = NoCleanup
        /\ \A w \in Workers :
             \/ job[w].stage = "loaded" /\ job[w].saw
             \/ job[w].outcome = "completed"
             => (about[job[w].task] \in exists => stored[about[job[w].task]])
        /\ CompletedIsRecorded

IInv == TypeOK /\ Links /\ WrittenFirst /\ RecordedFirst

LEMMA JobFields ==
    ASSUME NEW j \in Job, NEW b \in BOOLEAN
    PROVE  /\ [j EXCEPT !.stage = "opened", !.linked = TRUE] \in Job
           /\ [j EXCEPT !.stage = "loaded", !.saw = b] \in Job
           /\ [j EXCEPT !.stage = "returning", !.outcome = "failed"] \in Job
           /\ [j EXCEPT !.stage = "returning", !.outcome = "completed"] \in Job
           /\ [j EXCEPT !.linked = FALSE] \in Job
  BY DEF Job

\* A file that vanishes changes only what its writer has open.
LEMMA UnlinkKeeps ==
    ASSUME NEW a, Unlink(a), job \in [Workers -> Job],
           file \in [Analyses -> FileState]
    PROVE  /\ job' \in [Workers -> Job]
           /\ file' \in [Analyses -> FileState]
           /\ \A w \in Workers :
                /\ job'[w].stage = job[w].stage
                /\ job'[w].task = job[w].task
                /\ job'[w].saw = job[w].saw
                /\ job'[w].outcome = job[w].outcome
  <1>1. ASSUME NEW w \in Workers
        PROVE  job'[w] = job[w] \/ job'[w] = [job[w] EXCEPT !.linked = FALSE]
    BY DEF Unlink
  <1>2. ASSUME NEW w \in Workers
        PROVE  /\ job'[w] \in Job
               /\ job'[w].stage = job[w].stage
               /\ job'[w].task = job[w].task
               /\ job'[w].saw = job[w].saw
               /\ job'[w].outcome = job[w].outcome
    <2>1. job[w] \in Job  OBVIOUS
    <2>2. CASE job'[w] = job[w]
      BY ONLY <2>1, <2>2
    <2>3. CASE job'[w] = [job[w] EXCEPT !.linked = FALSE]
      BY ONLY <2>1, <2>3 DEF Job
    <2> QED  BY <1>1, <2>2, <2>3
  <1>3. job' \in [Workers -> Job]
    BY ONLY <1>2, Unlink(a) DEF Unlink
  <1>4. file' \in [Analyses -> FileState]
    BY DEF Unlink, FileState
  <1> QED  BY <1>2, <1>3, <1>4

LEMMA InitIInv == Init => IInv
  <1> SUFFICES ASSUME Init PROVE IInv  OBVIOUS
  <1> USE ReportAssumption DEF Init, NoJob, NoRequest, NoCleanup
  <1>1. TypeOK  BY DEF TypeOK, FileState, Result, Answer, Job, Request, Cleaner
  <1>2. Links  BY DEF Links
  <1>3. \A w \in Workers : job[w].stage = "idle" /\ job[w].outcome = None
    OBVIOUS
  <1>4. \A t \in Tasks : result[t] = "none"
    OBVIOUS
  <1>5. WrittenFirst
    BY <1>3, <1>4 DEF WrittenFirst, StoredWasWritten
  <1>6. RecordedFirst
    BY <1>3, <1>4 DEF RecordedFirst, CompletedIsRecorded
  <1> QED  BY <1>1, <1>2, <1>5, <1>6 DEF IInv

LEMMA GenerateCheckStep ==
    ASSUME IInv, NEW r \in Requests, NEW a \in Analyses, GenerateCheck(r, a)
    PROVE  IInv'
  <1> USE ReportAssumption DEF IInv, GenerateCheck, NoJob, NoRequest,
        NoCleanup, table, disk, celery
  <1>1. TypeOK'
    BY DEF TypeOK, FileState, Result, Answer, Job, Request, Cleaner
  <1>2. Links'
    BY DEF TypeOK, Job, Request, Links
  <1>3. WrittenFirst'
    BY DEF TypeOK, Job, Request, Links, WrittenFirst, StoredWasWritten
  <1>4. RecordedFirst'
    BY DEF TypeOK, Job, Cleaner, Links, RecordedFirst, CompletedIsRecorded
  <1> QED  BY <1>1, <1>2, <1>3, <1>4

LEMMA DeleteLoadStep ==
    ASSUME IInv, NEW r \in Requests, NEW a \in Analyses, DeleteLoad(r, a)
    PROVE  IInv'
  <1> USE ReportAssumption DEF IInv, DeleteLoad, NoJob, NoRequest, NoCleanup,
        table, disk, celery
  <1>1. TypeOK'
    BY DEF TypeOK, FileState, Result, Answer, Job, Request, Cleaner
  <1>2. Links'
    BY DEF TypeOK, Job, Request, Links
  <1>3. WrittenFirst'
    BY DEF TypeOK, Job, Request, Links, WrittenFirst, StoredWasWritten
  <1>4. RecordedFirst'
    BY DEF TypeOK, Job, Cleaner, Links, RecordedFirst, CompletedIsRecorded
  <1> QED  BY <1>1, <1>2, <1>3, <1>4

LEMMA StatusLoadStep ==
    ASSUME IInv, NEW r \in Requests, NEW t \in Tasks, StatusLoad(r, t)
    PROVE  IInv'
  <1> USE ReportAssumption DEF IInv, StatusLoad, Polling, NoJob, NoRequest,
        NoCleanup, table, disk, celery
  <1>1. TypeOK'
    <2>1. told' \in [Tasks -> Answer]
      BY DEF TypeOK, Answer
    <2>2. req' \in [Requests -> Request]
      BY DEF TypeOK, Request
    <2> QED  BY <2>1, <2>2 DEF TypeOK, Job, FileState, Result, Cleaner
  <1>2. Links'
    BY DEF TypeOK, Job, Request, Links
  <1>3. WrittenFirst'
    <2>1. StoredWasWritten'
      BY DEF TypeOK, Links, WrittenFirst, StoredWasWritten
    <2>2. ASSUME NEW v \in Workers,
                 (job[v].stage \in {"written", "loaded"} \/ job[v].outcome = "completed")'
          PROVE  (about[job[v].task] \in written)'
      BY <2>2 DEF TypeOK, Job, Links, WrittenFirst
    <2>3. \A s \in Tasks : (result[s] = "completed" => about[s] \in written)'
      BY DEF TypeOK, Job, Links, WrittenFirst
    <2>4. ASSUME NEW q \in Requests, req'[q].stage = "fallback"
          PROVE  req'[q].analysis \in written'
      <3>1. req'[q] = req[q]
        BY <2>4 DEF TypeOK
      <3> QED  BY <2>4, <3>1 DEF WrittenFirst
    <2> QED  BY <2>1, <2>2, <2>3, <2>4 DEF WrittenFirst
  <1>4. RecordedFirst'
    BY DEF TypeOK, Job, Cleaner, Links, RecordedFirst, CompletedIsRecorded
  <1> QED  BY <1>1, <1>2, <1>3, <1>4

LEMMA GenerateSendStep ==
    ASSUME IInv, NEW r \in Requests, GenerateSend(r)
    PROVE  IInv'
  <1> USE ReportAssumption DEF IInv, GenerateSend, NoJob, NoRequest, NoCleanup,
        table, disk, celery
  <1>1. TypeOK'
    <2>1. PICK t \in Tasks :
            /\ message[t] = "unsent"
            /\ message' = [message EXCEPT ![t] = "queued"]
            /\ about' = [about EXCEPT ![t] = req[r].analysis]
            /\ req' = [req EXCEPT ![r] = [@ EXCEPT !.stage = "sent", !.task = t]]
      OBVIOUS
    <2>2. req[r] \in Request
      BY DEF TypeOK
    <2>3. [req[r] EXCEPT !.stage = "sent", !.task = t] \in Request
      BY ONLY <2>2, t \in Tasks DEF Request
    <2>4. req' \in [Requests -> Request]
      BY <2>1, <2>3 DEF TypeOK
    <2>5. about' \in [Tasks -> Analyses \cup {None}]
      BY <2>1 DEF TypeOK, Request
    <2> QED  BY <2>1, <2>4, <2>5 DEF TypeOK, Job, FileState, Result, Answer,
          Cleaner
  <1>2. Links'
    BY DEF TypeOK, Job, Request, Links
  <1>3. WrittenFirst'
    <2>1. StoredWasWritten'
      BY DEF TypeOK, Links, WrittenFirst, StoredWasWritten
    <2>2. ASSUME NEW v \in Workers,
                 (job[v].stage \in {"written", "loaded"} \/ job[v].outcome = "completed")'
          PROVE  (about[job[v].task] \in written)'
      BY <2>2 DEF TypeOK, Job, Links, WrittenFirst
    <2>3. \A s \in Tasks : (result[s] = "completed" => about[s] \in written)'
      BY DEF TypeOK, Job, Links, WrittenFirst
    <2>4. \A q \in Requests : (req[q].stage = "fallback" => req[q].analysis \in written)'
      BY DEF TypeOK, Request, Links, WrittenFirst
    <2> QED  BY <2>1, <2>2, <2>3, <2>4 DEF WrittenFirst
  <1>4. RecordedFirst'
    <2> SUFFICES ASSUME "celery" \notin Queues
                 PROVE  RecordedFirst'
      BY DEF RecordedFirst
    <2>1. (cleaner = NoCleanup)'
      BY DEF RecordedFirst
    <2>2. ASSUME NEW v \in Workers,
                 (\/ job[v].stage = "loaded" /\ job[v].saw
                  \/ job[v].outcome = "completed")',
                 (about[job[v].task] \in exists)'
          PROVE  stored[about[job[v].task]]'
      BY <2>2 DEF TypeOK, Job, Links, RecordedFirst
    <2>3. CompletedIsRecorded'
      BY DEF TypeOK, Job, Links, RecordedFirst, CompletedIsRecorded
    <2> QED  BY <2>1, <2>2, <2>3 DEF RecordedFirst
  <1> QED  BY <1>1, <1>2, <1>3, <1>4

LEMMA GenerateFailStep ==
    ASSUME IInv, NEW r \in Requests, GenerateFail(r)
    PROVE  IInv'
  <1> USE ReportAssumption DEF IInv, GenerateFail, NoJob, NoRequest, NoCleanup,
        table, disk, celery
  <1>1. TypeOK'
    BY DEF TypeOK, FileState, Result, Answer, Job, Request, Cleaner
  <1>2. Links'
    BY DEF TypeOK, Job, Request, Links
  <1>3. WrittenFirst'
    BY DEF TypeOK, Job, Request, Links, WrittenFirst, StoredWasWritten
  <1>4. RecordedFirst'
    BY DEF TypeOK, Job, Cleaner, Links, RecordedFirst, CompletedIsRecorded
  <1> QED  BY <1>1, <1>2, <1>3, <1>4

\* A request that finds the report again ends like one whose task is not sent.
LEMMA ExistsLikeFail ==
    ASSUME NEW r \in Requests, GenerateExists(r)
    PROVE  GenerateFail(r)
  BY DEF GenerateExists, GenerateFail

LEMMA AbortStep ==
    ASSUME IInv, NEW r \in Requests, Abort(r)
    PROVE  IInv'
  <1> USE ReportAssumption DEF IInv, Abort, NoJob, NoRequest, NoCleanup,
        table, disk, celery
  <1>1. TypeOK'
    BY DEF TypeOK, FileState, Result, Answer, Job, Request, Cleaner
  <1>2. Links'
    BY DEF TypeOK, Job, Request, Links
  <1>3. WrittenFirst'
    BY DEF TypeOK, Job, Request, Links, WrittenFirst, StoredWasWritten
  <1>4. RecordedFirst'
    BY DEF TypeOK, Job, Cleaner, Links, RecordedFirst, CompletedIsRecorded
  <1> QED  BY <1>1, <1>2, <1>3, <1>4

LEMMA GenerateCommitStep ==
    ASSUME IInv, NEW r \in Requests, GenerateCommit(r)
    PROVE  IInv'
  <1> USE ReportAssumption DEF IInv, GenerateCommit, NoJob, NoRequest,
        NoCleanup, table, disk, celery
  <1>1. TypeOK'
    <2>1. NoRequest \in Request
      BY ONLY ReportAssumption DEF NoRequest, Request
    <2>2. req' \in [Requests -> Request]
      <3> HIDE DEF NoRequest
      <3> QED  BY <2>1 DEF TypeOK
    <2>3. current' \in [Analyses -> Tasks \cup {None}]
      BY DEF TypeOK, Request
    <2>4. told' \in [Tasks -> Answer]
      BY DEF TypeOK, Answer
    <2> QED  BY <2>2, <2>3, <2>4 DEF TypeOK
  <1>2. Links'
    BY DEF TypeOK, Job, Request, Links
  <1>3. WrittenFirst'
    BY DEF TypeOK, Job, Request, Links, WrittenFirst, StoredWasWritten
  <1>4. RecordedFirst'
    BY DEF TypeOK, Job, Cleaner, Links, RecordedFirst, CompletedIsRecorded
  <1> QED  BY <1>1, <1>2, <1>3, <1>4

LEMMA StatusAnswerStep ==
    ASSUME IInv, NEW r \in Requests, StatusAnswer(r)
    PROVE  IInv'
  <1> USE ReportAssumption DEF IInv, StatusAnswer, NeedsFallback, StillNamed, StatusOf,
        NoJob, NoRequest, NoCleanup, table, disk, celery
  <1>1. TypeOK'
    <2>1. req[r] \in Request
      BY DEF TypeOK
    <2>2. [req[r] EXCEPT !.stage = "fallback"] \in Request /\ NoRequest \in Request
      BY ONLY <2>1 DEF Request, NoRequest
    <2>3. req' \in [Requests -> Request]
      <3> HIDE DEF NoRequest, NeedsFallback, StatusOf
      <3> QED  BY <2>2 DEF TypeOK
    <2>4. told' \in [Tasks -> Answer]
      BY DEF TypeOK, Answer
    <2> QED  BY <2>3, <2>4 DEF TypeOK, Job, FileState, Result, Cleaner
  <1>2. Links'
    <2>1. ASSUME NEW q \in Requests
          PROVE  \/ req'[q] = req[q]
                 \/ req'[q].stage = "idle"
                 \/ req[q].stage = "loaded" /\ req'[q].stage = "fallback"
                    /\ req'[q].analysis = req[q].analysis
      BY DEF TypeOK, Request
    <2> QED  BY <2>1 DEF Links
  <1>3. WrittenFirst'
    <2>1. ASSUME NEW q \in Requests, req'[q].stage = "fallback"
          PROVE  req'[q].analysis \in written'
      <3>1. CASE req'[q] = req[q]
        BY <2>1, <3>1 DEF WrittenFirst
      <3>2. CASE req'[q] # req[q]
        <4>1. q = r /\ NeedsFallback(req[r]) /\ req[r].stage = "loaded"
          BY <2>1, <3>2 DEF TypeOK, Request
        <4>2. /\ req[r].task \in Tasks /\ about[req[r].task] = req[r].analysis
              /\ req'[r].analysis = req[r].analysis
          BY <2>1, <4>1 DEF TypeOK, Request, Links
        <4> QED  BY <4>1, <4>2 DEF WrittenFirst
      <3> QED  BY <3>1, <3>2
    <2> QED  BY <2>1 DEF WrittenFirst, StoredWasWritten
  <1>4. RecordedFirst'
    BY DEF TypeOK, Job, Cleaner, Links, RecordedFirst, CompletedIsRecorded
  <1> QED  BY <1>1, <1>2, <1>3, <1>4

LEMMA StatusFallbackStep ==
    ASSUME IInv, NEW r \in Requests, StatusFallback(r)
    PROVE  IInv'
  <1> USE ReportAssumption DEF IInv, StatusFallback, NoJob, NoRequest,
        NoCleanup, table, disk, celery
  <1>1. TypeOK'
    <2>1. NoRequest \in Request
      BY ONLY ReportAssumption DEF NoRequest, Request
    <2>2. req' \in [Requests -> Request]
      <3> HIDE DEF NoRequest
      <3> QED  BY <2>1 DEF TypeOK
    <2>3. stored' \in [Analyses -> BOOLEAN]
      BY DEF TypeOK
    <2>4. told' \in [Tasks -> Answer]
      BY DEF TypeOK, Answer
    <2> QED  BY <2>2, <2>3, <2>4 DEF TypeOK
  <1>2. Links'
    BY DEF TypeOK, Job, Request, Links
  <1>3. WrittenFirst'
    BY DEF TypeOK, Job, Request, Links, WrittenFirst, StoredWasWritten
  <1>4. RecordedFirst'
    BY DEF TypeOK, Job, Cleaner, Links, RecordedFirst, CompletedIsRecorded
  <1> QED  BY <1>1, <1>2, <1>3, <1>4

LEMMA DeleteFileStep ==
    ASSUME IInv, NEW r \in Requests, DeleteFile(r)
    PROVE  IInv'
  <1> USE ReportAssumption DEF IInv, DeleteFile, NoJob, NoRequest, NoCleanup,
        table, disk, celery
  <1>1. TypeOK'
    <2>1. job' \in [Workers -> Job]
      BY UnlinkKeeps DEF TypeOK
    <2>2. req' \in [Requests -> Request]
      BY DEF TypeOK, Request
    <2>3. told' \in [Tasks -> Answer] /\ about' \in [Tasks -> Analyses \cup {None}]
      BY DEF TypeOK, Job, Request, Answer
    <2>4. file' \in [Analyses -> FileState]
      BY UnlinkKeeps DEF TypeOK
    <2>5. result' \in [Tasks -> Result]
      BY DEF TypeOK, Result, Job
    <2> QED  BY <2>1, <2>2, <2>3, <2>4, <2>5 DEF TypeOK, Cleaner
  <1>2. Links'
    BY UnlinkKeeps DEF TypeOK, Job, Request, Links
  <1>3. WrittenFirst'
    <2>1. StoredWasWritten'
      BY DEF TypeOK, Links, WrittenFirst, StoredWasWritten
    <2>2. ASSUME NEW v \in Workers,
                 (job[v].stage \in {"written", "loaded"} \/ job[v].outcome = "completed")'
          PROVE  (about[job[v].task] \in written)'
      BY <2>2, UnlinkKeeps DEF TypeOK, Job, Links, WrittenFirst
    <2>3. \A s \in Tasks : (result[s] = "completed" => about[s] \in written)'
      BY DEF TypeOK, Job, Links, WrittenFirst
    <2>4. \A q \in Requests : (req[q].stage = "fallback" => req[q].analysis \in written)'
      BY DEF TypeOK, Request, Links, WrittenFirst
    <2> QED  BY <2>1, <2>2, <2>3, <2>4 DEF WrittenFirst
  <1>4. RecordedFirst'
    BY UnlinkKeeps DEF TypeOK, Job, Cleaner, Links, RecordedFirst,
          CompletedIsRecorded
  <1> QED  BY <1>1, <1>2, <1>3, <1>4

LEMMA DeleteCommitStep ==
    ASSUME IInv, NEW r \in Requests, DeleteCommit(r)
    PROVE  IInv'
  <1> USE ReportAssumption DEF IInv, DeleteCommit, NoJob, NoRequest, NoCleanup,
        table, disk, celery
  <1>1. TypeOK'
    BY DEF TypeOK, FileState, Result, Answer, Job, Request, Cleaner
  <1>2. Links'
    BY DEF TypeOK, Job, Request, Links
  <1>3. WrittenFirst'
    BY DEF TypeOK, Job, Request, Links, WrittenFirst, StoredWasWritten
  <1>4. RecordedFirst'
    BY DEF TypeOK, Job, Cleaner, Links, RecordedFirst, CompletedIsRecorded
  <1> QED  BY <1>1, <1>2, <1>3, <1>4

LEMMA StartStep ==
    ASSUME IInv, NEW w \in Workers, NEW t \in Tasks, Start(w, t)
    PROVE  IInv'
  <1> USE ReportAssumption DEF IInv, Start, NoJob, NoRequest, NoCleanup, table,
        disk, celery
  <1>1. TypeOK'
    BY DEF TypeOK, FileState, Result, Answer, Job, Request, Cleaner
  <1>2. Links'
    BY DEF TypeOK, Job, Request, Links
  <1>3. WrittenFirst'
    <2>1. StoredWasWritten'
      BY DEF TypeOK, Links, WrittenFirst, StoredWasWritten
    <2>2. ASSUME NEW v \in Workers,
                 (job[v].stage \in {"written", "loaded"} \/ job[v].outcome = "completed")'
          PROVE  (about[job[v].task] \in written)'
      BY <2>2 DEF TypeOK, Job, Links, WrittenFirst
    <2>3. \A s \in Tasks : (result[s] = "completed" => about[s] \in written)'
      BY DEF TypeOK, Job, Links, WrittenFirst
    <2>4. \A q \in Requests : (req[q].stage = "fallback" => req[q].analysis \in written)'
      BY DEF TypeOK, Request, Links, WrittenFirst
    <2> QED  BY <2>1, <2>2, <2>3, <2>4 DEF WrittenFirst
  <1>4. RecordedFirst'
    <2> SUFFICES ASSUME "celery" \notin Queues
                 PROVE  RecordedFirst'
      BY DEF RecordedFirst
    <2>1. (cleaner = NoCleanup)'
      BY DEF RecordedFirst
    <2>2. ASSUME NEW v \in Workers,
                 (\/ job[v].stage = "loaded" /\ job[v].saw
                  \/ job[v].outcome = "completed")',
                 (about[job[v].task] \in exists)'
          PROVE  stored[about[job[v].task]]'
      BY <2>2 DEF TypeOK, Job, Links, RecordedFirst
    <2>3. CompletedIsRecorded'
      BY DEF TypeOK, Job, Links, RecordedFirst, CompletedIsRecorded
    <2> QED  BY <2>1, <2>2, <2>3 DEF RecordedFirst
  <1> QED  BY <1>1, <1>2, <1>3, <1>4

LEMMA OpenFileStep ==
    ASSUME IInv, NEW w \in Workers, OpenFile(w)
    PROVE  IInv'
  <1> USE ReportAssumption DEF IInv, OpenFile, NoJob, NoRequest, NoCleanup,
        table, disk, celery
  <1>1. TypeOK'
    <2> DEFINE j == [job[w] EXCEPT !.stage = "opened", !.linked = TRUE]
    <2>1. job[w] \in Job
      BY DEF TypeOK
    <2>2. j \in Job
      BY ONLY <2>1, JobFields
    <2>3. job' = [job EXCEPT ![w] = j]
      OBVIOUS
    <2>4. job' \in [Workers -> Job]
      <3> HIDE DEF j, OpenFile
      <3> QED  BY <2>2, <2>3 DEF TypeOK
    <2> QED  BY <2>4 DEF TypeOK, FileState, Request, Cleaner
  <1>2. Links'
    BY DEF TypeOK, Job, Request, Links
  <1>3. WrittenFirst'
    BY DEF TypeOK, Job, Request, Links, WrittenFirst, StoredWasWritten
  <1>4. RecordedFirst'
    BY DEF TypeOK, Job, Cleaner, Links, RecordedFirst, CompletedIsRecorded
  <1> QED  BY <1>1, <1>2, <1>3, <1>4

LEMMA WriteFileStep ==
    ASSUME IInv, NEW w \in Workers, WriteFile(w)
    PROVE  IInv'
  <1> USE ReportAssumption DEF IInv, WriteFile, NoJob, NoRequest, NoCleanup,
        table, disk, celery
  <1>1. TypeOK'
    <2>1. job' \in [Workers -> Job]
      BY DEF TypeOK, Job
    <2>2. req' \in [Requests -> Request]
      BY DEF TypeOK, Request
    <2>3. told' \in [Tasks -> Answer] /\ about' \in [Tasks -> Analyses \cup {None}]
      BY DEF TypeOK, Job, Request, Answer
    <2>4. file' \in [Analyses -> FileState]
      BY DEF TypeOK, FileState
    <2>5. result' \in [Tasks -> Result]
      BY DEF TypeOK, Result, Job
    <2> QED  BY <2>1, <2>2, <2>3, <2>4, <2>5 DEF TypeOK, Cleaner
  <1>2. Links'
    BY DEF TypeOK, Job, Request, Links
  <1>3. WrittenFirst'
    BY DEF TypeOK, Job, Request, Links, WrittenFirst, StoredWasWritten
  <1>4. RecordedFirst'
    BY DEF TypeOK, Job, Cleaner, Links, RecordedFirst, CompletedIsRecorded
  <1> QED  BY <1>1, <1>2, <1>3, <1>4

LEMMA LoadRowStep ==
    ASSUME IInv, NEW w \in Workers, LoadRow(w)
    PROVE  IInv'
  <1> USE ReportAssumption DEF IInv, LoadRow, NoJob, NoRequest, NoCleanup,
        table, disk, celery
  <1>1. TypeOK'
    <2> DEFINE j == IF about[job[w].task] \in exists
             THEN [job[w] EXCEPT !.stage = "loaded", !.saw = stored[about[job[w].task]]]
             ELSE [job[w] EXCEPT !.stage = "returning", !.outcome = "failed"]
    <2>1. job[w] \in Job
      BY DEF TypeOK
    <2>2. j \in Job
      <3>1. stored[about[job[w].task]] \in BOOLEAN \/ about[job[w].task] \notin exists
        BY DEF TypeOK
      <3> QED  BY ONLY <2>1, <3>1, JobFields
    <2>3. job' = [job EXCEPT ![w] = j]
      OBVIOUS
    <2>4. job' \in [Workers -> Job]
      <3> HIDE DEF j, LoadRow
      <3> QED  BY <2>2, <2>3 DEF TypeOK
    <2> QED  BY <2>4 DEF TypeOK, FileState, Request, Cleaner
  <1>2. Links'
    BY DEF TypeOK, Job, Request, Links
  <1>3. WrittenFirst'
    BY DEF TypeOK, Job, Request, Links, WrittenFirst, StoredWasWritten
  <1>4. RecordedFirst'
    BY DEF TypeOK, Job, Cleaner, Links, RecordedFirst, CompletedIsRecorded
  <1> QED  BY <1>1, <1>2, <1>3, <1>4

LEMMA UpdateRowStep ==
    ASSUME IInv, NEW w \in Workers, UpdateRow(w)
    PROVE  IInv'
  <1> USE ReportAssumption DEF IInv, UpdateRow, NoJob, NoRequest, NoCleanup,
        table, disk, celery
  <1>1. TypeOK'
    <2> DEFINE j == [job[w] EXCEPT !.stage = "returning", !.outcome = "completed"]
    <2>1. job[w] \in Job
      BY DEF TypeOK
    <2>2. j \in Job
      BY ONLY <2>1, JobFields
    <2>3. job' = [job EXCEPT ![w] = j]
      OBVIOUS
    <2>4. job' \in [Workers -> Job]
      <3> HIDE DEF j, UpdateRow
      <3> QED  BY <2>2, <2>3 DEF TypeOK
    <2> QED  BY <2>4 DEF TypeOK, FileState, Request, Cleaner
  <1>2. Links'
    BY DEF TypeOK, Job, Request, Links
  <1>3. WrittenFirst'
    BY DEF TypeOK, Job, Request, Links, WrittenFirst, StoredWasWritten
  <1>4. RecordedFirst'
    BY DEF TypeOK, Job, Cleaner, Links, RecordedFirst, CompletedIsRecorded
  <1> QED  BY <1>1, <1>2, <1>3, <1>4

LEMMA FailStep ==
    ASSUME IInv, NEW w \in Workers, Fail(w)
    PROVE  IInv'
  <1> USE ReportAssumption DEF IInv, Fail, NoJob, NoRequest, NoCleanup, table,
        disk, celery
  <1>1. TypeOK'
    <2> DEFINE j == [job[w] EXCEPT !.stage = "returning", !.outcome = "failed"]
    <2>1. job[w] \in Job
      BY DEF TypeOK
    <2>2. j \in Job
      BY ONLY <2>1, JobFields
    <2>3. job' = [job EXCEPT ![w] = j]
      OBVIOUS
    <2>4. job' \in [Workers -> Job]
      <3> HIDE DEF j, Fail
      <3> QED  BY <2>2, <2>3 DEF TypeOK
    <2> QED  BY <2>4 DEF TypeOK, FileState, Request, Cleaner
  <1>2. Links'
    BY DEF TypeOK, Job, Request, Links
  <1>3. WrittenFirst'
    BY DEF TypeOK, Job, Request, Links, WrittenFirst, StoredWasWritten
  <1>4. RecordedFirst'
    BY DEF TypeOK, Job, Cleaner, Links, RecordedFirst, CompletedIsRecorded
  <1> QED  BY <1>1, <1>2, <1>3, <1>4

LEMMA ReturnStep ==
    ASSUME IInv, NEW w \in Workers, Return(w)
    PROVE  IInv'
  <1> USE ReportAssumption DEF IInv, Return, NoJob, NoRequest, NoCleanup,
        table, disk, celery
  <1>1. TypeOK'
    <2>1. job' \in [Workers -> Job]
      BY DEF TypeOK, Job
    <2>2. req' \in [Requests -> Request]
      BY DEF TypeOK, Request
    <2>3. told' \in [Tasks -> Answer] /\ about' \in [Tasks -> Analyses \cup {None}]
      BY DEF TypeOK, Job, Request, Answer
    <2>4. file' \in [Analyses -> FileState]
      BY DEF TypeOK, FileState
    <2>5. result' \in [Tasks -> Result]
      <3>1. job[w] \in Job  BY DEF TypeOK
      <3>2. job[w].outcome # None  BY DEF Links
      <3>3. job[w].outcome \in Result  BY ONLY <3>1, <3>2 DEF Job, Result
      <3> QED  BY <3>3 DEF TypeOK
    <2> QED  BY <2>1, <2>2, <2>3, <2>4, <2>5 DEF TypeOK, Cleaner
  <1>2. Links'
    BY DEF TypeOK, Job, Request, Links
  <1>3. WrittenFirst'
    <2>1. StoredWasWritten'
      BY DEF TypeOK, Links, WrittenFirst, StoredWasWritten
    <2>2. ASSUME NEW v \in Workers,
                 (job[v].stage \in {"written", "loaded"} \/ job[v].outcome = "completed")'
          PROVE  (about[job[v].task] \in written)'
      BY <2>2 DEF TypeOK, Job, Links, WrittenFirst
    <2>3. \A s \in Tasks : (result[s] = "completed" => about[s] \in written)'
      BY DEF TypeOK, Job, Links, WrittenFirst
    <2>4. \A q \in Requests : (req[q].stage = "fallback" => req[q].analysis \in written)'
      BY DEF TypeOK, Request, Links, WrittenFirst
    <2> QED  BY <2>1, <2>2, <2>3, <2>4 DEF WrittenFirst
  <1>4. RecordedFirst'
    <2> SUFFICES ASSUME "celery" \notin Queues
                 PROVE  RecordedFirst'
      BY DEF RecordedFirst
    <2>1. (cleaner = NoCleanup)'
      BY DEF RecordedFirst
    <2>2. ASSUME NEW v \in Workers,
                 (\/ job[v].stage = "loaded" /\ job[v].saw
                  \/ job[v].outcome = "completed")',
                 (about[job[v].task] \in exists)'
          PROVE  stored[about[job[v].task]]'
      BY <2>2 DEF TypeOK, Job, Links, RecordedFirst
    <2>3. CompletedIsRecorded'
      BY DEF TypeOK, Job, Links, RecordedFirst, CompletedIsRecorded
    <2> QED  BY <2>1, <2>2, <2>3 DEF RecordedFirst
  <1> QED  BY <1>1, <1>2, <1>3, <1>4

LEMMA CrashStep ==
    ASSUME IInv, NEW w \in Workers, Crash(w)
    PROVE  IInv'
  <1> USE ReportAssumption DEF IInv, Crash, NoJob, NoRequest, NoCleanup, table,
        disk, celery
  <1>1. TypeOK'
    <2>1. job' \in [Workers -> Job]
      BY DEF TypeOK, Job
    <2>2. req' \in [Requests -> Request]
      BY DEF TypeOK, Request
    <2>3. told' \in [Tasks -> Answer] /\ about' \in [Tasks -> Analyses \cup {None}]
      BY DEF TypeOK, Job, Request, Answer
    <2>4. file' \in [Analyses -> FileState]
      BY DEF TypeOK, FileState
    <2>5. result' \in [Tasks -> Result]
      BY DEF TypeOK, Result, Job
    <2>6. message' \in [Tasks -> {"unsent", "queued", "running", "settled"}]
      BY DEF TypeOK
    <2>7. crashes' \in 0..MaxCrashes
      BY DEF TypeOK
    <2> QED  BY <2>1, <2>2, <2>3, <2>4, <2>5, <2>6, <2>7 DEF TypeOK, Cleaner
  <1>2. Links'
    BY DEF TypeOK, Job, Request, Links
  <1>3. WrittenFirst'
    <2>1. StoredWasWritten'
      BY DEF TypeOK, Links, WrittenFirst, StoredWasWritten
    <2>2. ASSUME NEW v \in Workers,
                 (job[v].stage \in {"written", "loaded"} \/ job[v].outcome = "completed")'
          PROVE  (about[job[v].task] \in written)'
      BY <2>2 DEF TypeOK, Job, Links, WrittenFirst
    <2>3. \A s \in Tasks : (result[s] = "completed" => about[s] \in written)'
      BY DEF TypeOK, Job, Links, WrittenFirst
    <2>4. \A q \in Requests : (req[q].stage = "fallback" => req[q].analysis \in written)'
      BY DEF TypeOK, Request, Links, WrittenFirst
    <2> QED  BY <2>1, <2>2, <2>3, <2>4 DEF WrittenFirst
  <1>4. RecordedFirst'
    <2> SUFFICES ASSUME "celery" \notin Queues
                 PROVE  RecordedFirst'
      BY DEF RecordedFirst
    <2>1. (cleaner = NoCleanup)'
      BY DEF RecordedFirst
    <2>2. ASSUME NEW v \in Workers,
                 (\/ job[v].stage = "loaded" /\ job[v].saw
                  \/ job[v].outcome = "completed")',
                 (about[job[v].task] \in exists)'
          PROVE  stored[about[job[v].task]]'
      BY <2>2 DEF TypeOK, Job, Links, RecordedFirst
    <2>3. CompletedIsRecorded'
      BY DEF TypeOK, Job, Links, RecordedFirst, CompletedIsRecorded
    <2> QED  BY <2>1, <2>2, <2>3 DEF RecordedFirst
  <1> QED  BY <1>1, <1>2, <1>3, <1>4

LEMMA KillStep ==
    ASSUME IInv, NEW w \in Workers, Kill(w)
    PROVE  IInv'
  <1> USE ReportAssumption DEF IInv, Kill, NoJob, NoRequest, NoCleanup, table,
        disk, celery
  <1>1. TypeOK'
    BY DEF TypeOK, FileState, Result, Answer, Job, Request, Cleaner
  <1>2. Links'
    BY DEF TypeOK, Job, Request, Links
  <1>3. WrittenFirst'
    <2>1. StoredWasWritten'
      BY DEF TypeOK, Links, WrittenFirst, StoredWasWritten
    <2>2. ASSUME NEW v \in Workers,
                 (job[v].stage \in {"written", "loaded"} \/ job[v].outcome = "completed")'
          PROVE  (about[job[v].task] \in written)'
      BY <2>2 DEF TypeOK, Job, Links, WrittenFirst
    <2>3. \A s \in Tasks : (result[s] = "completed" => about[s] \in written)'
      BY DEF TypeOK, Job, Links, WrittenFirst
    <2>4. \A q \in Requests : (req[q].stage = "fallback" => req[q].analysis \in written)'
      BY DEF TypeOK, Request, Links, WrittenFirst
    <2> QED  BY <2>1, <2>2, <2>3, <2>4 DEF WrittenFirst
  <1>4. RecordedFirst'
    <2> SUFFICES ASSUME "celery" \notin Queues
                 PROVE  RecordedFirst'
      BY DEF RecordedFirst
    <2>1. (cleaner = NoCleanup)'
      BY DEF RecordedFirst
    <2>2. ASSUME NEW v \in Workers,
                 (\/ job[v].stage = "loaded" /\ job[v].saw
                  \/ job[v].outcome = "completed")',
                 (about[job[v].task] \in exists)'
          PROVE  stored[about[job[v].task]]'
      BY <2>2 DEF TypeOK, Job, Links, RecordedFirst
    <2>3. CompletedIsRecorded'
      BY DEF TypeOK, Job, Links, RecordedFirst, CompletedIsRecorded
    <2> QED  BY <2>1, <2>2, <2>3 DEF RecordedFirst
  <1> QED  BY <1>1, <1>2, <1>3, <1>4

LEMMA ForgetStep ==
    ASSUME IInv, NEW t \in Tasks, Forget(t)
    PROVE  IInv'
  <1> USE ReportAssumption DEF IInv, Forget, NoJob, NoRequest, NoCleanup,
        table, disk, celery
  <1>1. TypeOK'
    BY DEF TypeOK, FileState, Result, Answer, Job, Request, Cleaner
  <1>2. Links'
    BY DEF TypeOK, Job, Request, Links
  <1>3. WrittenFirst'
    BY DEF TypeOK, Job, Request, Links, WrittenFirst, StoredWasWritten
  <1>4. RecordedFirst'
    BY DEF TypeOK, Job, Cleaner, Links, RecordedFirst, CompletedIsRecorded
  <1> QED  BY <1>1, <1>2, <1>3, <1>4

LEMMA CleanOldScanStep ==
    ASSUME IInv, CleanOldScan
    PROVE  IInv'
  <1> USE ReportAssumption DEF IInv, CleanOldScan, OldFiles, Consumed, QueueOf, NoJob, NoRequest,
        NoCleanup, table, disk, celery
  <1>1. TypeOK'
    BY DEF TypeOK, FileState, Result, Answer, Job, Request, Cleaner
  <1>2. Links'
    BY DEF TypeOK, Job, Request, Links
  <1>3. WrittenFirst'
    BY DEF TypeOK, Job, Request, Links, WrittenFirst, StoredWasWritten
  <1>4. RecordedFirst'
    BY DEF TypeOK, Job, Cleaner, Links, RecordedFirst, CompletedIsRecorded
  <1> QED  BY <1>1, <1>2, <1>3, <1>4

LEMMA CleanOldUnlinkStep ==
    ASSUME IInv, NEW a \in Analyses, CleanOldUnlink(a)
    PROVE  IInv'
  <1> USE ReportAssumption DEF IInv, CleanOldUnlink, NoJob, NoRequest,
        NoCleanup, table, disk, celery
  <1>1. TypeOK'
    <2>1. job' \in [Workers -> Job]
      BY UnlinkKeeps DEF TypeOK
    <2>2. req' \in [Requests -> Request]
      BY DEF TypeOK, Request
    <2>3. told' \in [Tasks -> Answer] /\ about' \in [Tasks -> Analyses \cup {None}]
      BY DEF TypeOK, Job, Request, Answer
    <2>4. file' \in [Analyses -> FileState]
      BY UnlinkKeeps DEF TypeOK
    <2>5. result' \in [Tasks -> Result]
      BY DEF TypeOK, Result, Job
    <2> QED  BY <2>1, <2>2, <2>3, <2>4, <2>5 DEF TypeOK, Cleaner
  <1>2. Links'
    BY UnlinkKeeps DEF TypeOK, Job, Request, Links
  <1>3. WrittenFirst'
    BY UnlinkKeeps DEF TypeOK, Job, Request, Links, WrittenFirst,
          StoredWasWritten
  <1>4. RecordedFirst'
    BY UnlinkKeeps DEF TypeOK, Job, Cleaner, Links, RecordedFirst,
          CompletedIsRecorded
  <1> QED  BY <1>1, <1>2, <1>3, <1>4

LEMMA CleanOrphansStep ==
    ASSUME IInv, CleanOrphans
    PROVE  IInv'
  <1> USE ReportAssumption DEF IInv, CleanOrphans, Consumed, QueueOf, NoJob, NoRequest, NoCleanup,
        table, disk, celery
  <1>1. TypeOK'
    BY DEF TypeOK, FileState, Result, Answer, Job, Request, Cleaner
  <1>2. Links'
    BY DEF TypeOK, Job, Request, Links
  <1>3. WrittenFirst'
    BY DEF TypeOK, Job, Request, Links, WrittenFirst, StoredWasWritten
  <1>4. RecordedFirst'
    BY DEF TypeOK, Job, Cleaner, Links, RecordedFirst, CompletedIsRecorded
  <1> QED  BY <1>1, <1>2, <1>3, <1>4

LEMMA CleanSelectStep ==
    ASSUME IInv, CleanSelect
    PROVE  IInv'
  <1> USE ReportAssumption DEF IInv, CleanSelect, OnDisk, NoJob, NoRequest,
        NoCleanup, table, disk, celery
  <1>1. TypeOK'
    BY DEF TypeOK, FileState, Result, Answer, Job, Request, Cleaner
  <1>2. Links'
    BY DEF TypeOK, Job, Request, Links
  <1>3. WrittenFirst'
    BY DEF TypeOK, Job, Request, Links, WrittenFirst, StoredWasWritten
  <1>4. RecordedFirst'
    BY DEF TypeOK, Job, Cleaner, Links, RecordedFirst, CompletedIsRecorded
  <1> QED  BY <1>1, <1>2, <1>3, <1>4

LEMMA CleanCommitStep ==
    ASSUME IInv, CleanCommit
    PROVE  IInv'
  <1> USE ReportAssumption DEF IInv, CleanCommit, NoJob, NoRequest, NoCleanup,
        table, disk, celery
  <1>1. TypeOK'
    BY DEF TypeOK, FileState, Result, Answer, Job, Request, Cleaner
  <1>2. Links'
    BY DEF TypeOK, Job, Request, Links
  <1>3. WrittenFirst'
    BY DEF TypeOK, Job, Request, Links, WrittenFirst, StoredWasWritten
  <1>4. RecordedFirst'
    BY DEF TypeOK, Job, Cleaner, Links, RecordedFirst, CompletedIsRecorded
  <1> QED  BY <1>1, <1>2, <1>3, <1>4

LEMMA AgeStep ==
    ASSUME IInv, Age
    PROVE  IInv'
  <1> USE ReportAssumption DEF IInv, Age, OnDisk, NoJob, NoRequest, NoCleanup,
        table, disk, celery
  <1>1. TypeOK'
    BY DEF TypeOK, FileState, Result, Answer, Job, Request, Cleaner
  <1>2. Links'
    BY DEF TypeOK, Job, Request, Links
  <1>3. WrittenFirst'
    BY DEF TypeOK, Job, Request, Links, WrittenFirst, StoredWasWritten
  <1>4. RecordedFirst'
    BY DEF TypeOK, Job, Cleaner, Links, RecordedFirst, CompletedIsRecorded
  <1> QED  BY <1>1, <1>2, <1>3, <1>4
-----------------------------------------------------------------------------
LEMMA StutterStep ==
    ASSUME IInv, UNCHANGED vars
    PROVE  IInv'
  <1> USE DEF IInv, vars, table, disk, celery
  <1>1. TypeOK'  BY DEF TypeOK
  <1>2. Links'  BY DEF Links
  <1>3. WrittenFirst'  BY DEF WrittenFirst, StoredWasWritten
  <1>4. RecordedFirst'  BY DEF RecordedFirst, CompletedIsRecorded
  <1> QED  BY <1>1, <1>2, <1>3, <1>4

LEMMA NextIInv == IInv /\ [Next]_vars => IInv'
  <1> SUFFICES ASSUME IInv, [Next]_vars PROVE IInv'  OBVIOUS
  <1>1. CASE \E r \in Requests, a \in Analyses :
               GenerateCheck(r, a) \/ DeleteLoad(r, a)
    BY <1>1, GenerateCheckStep, DeleteLoadStep
  <1>2. CASE \E r \in Requests, t \in Tasks : StatusLoad(r, t)
    BY <1>2, StatusLoadStep
  <1>3. ASSUME NEW r \in Requests, Handle(r) PROVE IInv'
    BY <1>3, ExistsLikeFail, GenerateSendStep, GenerateFailStep,
       GenerateCommitStep, StatusAnswerStep, StatusFallbackStep, DeleteFileStep,
       DeleteCommitStep DEF Handle
  <1>4. CASE \E w \in Workers, t \in Tasks : Start(w, t)
    BY <1>4, StartStep
  <1>5. ASSUME NEW w \in Workers, Work(w) PROVE IInv'
    BY <1>5, OpenFileStep, WriteFileStep, LoadRowStep, UpdateRowStep, FailStep,
       ReturnStep DEF Work
  <1>6. CASE \E w \in Workers : Crash(w) \/ Kill(w)
    BY <1>6, CrashStep, KillStep
  <1>7. CASE \E t \in Tasks : Forget(t)
    BY <1>7, ForgetStep
  <1>8. CASE CleanOldScan \/ CleanOrphans \/ Clean
    BY <1>8, CleanOldScanStep, CleanOrphansStep, CleanSelectStep,
       CleanCommitStep, CleanOldUnlinkStep DEF Clean
  <1>9. CASE Age
    BY <1>9, AgeStep
  <1>10. CASE UNCHANGED vars
    BY <1>10, StutterStep
  <1>11. ASSUME NEW r \in Requests, Abort(r) PROVE IInv'
    BY <1>11, AbortStep
  <1> QED
    BY <1>1, <1>2, <1>3, <1>4, <1>5, <1>6, <1>7, <1>8, <1>9, <1>10, <1>11
       DEF Next

LEMMA Invariance == Spec => []IInv
  BY InitIInv, NextIInv, PTL DEF Spec

\* Every variable keeps its type, however many requests, workers and clean-up
\* tasks take turns.
THEOREM TypeCorrect == Spec => []TypeOK
  <1>1. IInv => TypeOK  BY DEF IInv
  <1> QED  BY <1>1, Invariance, PTL

\* No row announces a report whose PDF was never written to the end: neither
\* the task's update, nor the fallback of a status request with a stale row,
\* nor a redelivery after a crash sets report_stored before its file.
THEOREM StoredWritten == Spec => []StoredWasWritten
  <1>1. IInv => StoredWasWritten  BY DEF IInv, WrittenFirst
  <1> QED  BY <1>1, Invariance, PTL

\* As the worker is deployed, with nobody consuming the default queue and so
\* no clean-up of reports, what create_report_pdf recorded in the row of
\* an analysis survives every commit of a request that loaded the row before.
THEOREM CompletedRecorded ==
    ASSUME "celery" \notin Queues
    PROVE  Spec => []CompletedIsRecorded
  <1>1. IInv => CompletedIsRecorded  BY DEF IInv, RecordedFirst
  <1> QED  BY <1>1, Invariance, PTL
-----------------------------------------------------------------------------
(***************************************************************************)
(* Three statements of the documents that TLC refutes hold while the       *)
(* overlap of their counterexample does not happen. Each hypothesis speaks *)
(* of that overlap only: failures, crashes, deletions, redeliveries and    *)
(* clean-up go on as before.                                               *)
(***************************************************************************)

\* No run writes a report that was written before, and no two have the file
\* of one analysis open at once.
WrittenOnce ==
    /\ \A w \in Workers :
         job[w].stage \in {"rendering", "opened"} => about[job[w].task] \notin written
    /\ \A v, w \in Workers :
         /\ job[v].stage = "opened" /\ job[w].stage = "opened"
         /\ about[job[v].task] = about[job[w].task]
         => v = w

\* Nobody has a file open whose row clean-up is about to clear.
ClearsAlone ==
    cleaner.stage = "clearing" =>
        \A w \in Workers :
            job[w].stage = "opened" => about[job[w].task] \notin cleaner.targets

\* A report is requested once for each analysis.
RequestedOnce ==
    \A t, u \in Tasks :
        /\ message[t] # "unsent" /\ message[u] # "unsent"
        /\ about[t] = about[u]
        => t = u

\* A file that was written is complete; one that was removed under the process
\* that has it open was not opened by another.
Whole ==
    /\ \A a \in written : file[a] # "partial"
    /\ \A w \in Workers :
         job[w].stage = "opened" /\ ~job[w].linked
            => file[about[job[w].task]] # "partial"

\* What clean-up found missing is missing still.
Missing ==
    cleaner.stage = "clearing" => \A a \in cleaner.targets : ~OnDisk(a)

\* A task that a client was told of is the one its row names.
Named ==
    /\ \A t \in Tasks :
         told[t] # "none" =>
            /\ message[t] # "unsent"
            /\ about[t] \in exists => current[about[t]] = t
    /\ \A r \in Requests :
         req[r].stage \in {"loaded", "fallback"} =>
            req[r].task \in Tasks /\ told[req[r].task] # "none"

\* Whoever has a file open after a step had it open before.
StaysOpen ==
    \A w \in Workers :
        job'[w].stage = "opened" =>
            /\ job[w].stage = "opened"
            /\ job'[w].linked = job[w].linked
            /\ about'[job'[w].task] = about[job[w].task]

\* Files are opened, written, removed and aged, and nothing else.
LEMMA HowFilesChange ==
    ASSUME IInv, [Next]_vars
    PROVE  \/ UNCHANGED <<file, written>> /\ StaysOpen
           \/ \E w \in Workers : OpenFile(w) \/ WriteFile(w)
           \/ UNCHANGED <<written, about>> /\ \E a \in Analyses : Unlink(a)
           \/ UNCHANGED <<written, about, job, cleaner>> /\ Age
  <1> USE DEF table, disk, celery
  <1> DEFINE Same == UNCHANGED <<file, written>> /\ StaysOpen
  <1> DEFINE Gone ==
        UNCHANGED <<written, about>> /\ \E a \in Analyses : Unlink(a)
  <1>0. UNCHANGED <<file, written, job, about>> => Same
    BY DEF StaysOpen
  <1>1. ASSUME NEW r \in Requests, NEW a \in Analyses,
               GenerateCheck(r, a) \/ DeleteLoad(r, a)
        PROVE  Same
    BY <1>0, <1>1 DEF GenerateCheck, DeleteLoad
  <1>2. ASSUME NEW r \in Requests, NEW t \in Tasks, StatusLoad(r, t)
        PROVE  Same
    BY <1>0, <1>2 DEF StatusLoad
  <1>3. ASSUME NEW r \in Requests, GenerateSend(r) PROVE Same
    <2>1. \A w \in Workers : job[w].stage = "opened" =>
            job[w].task \in Tasks /\ message[job[w].task] # "unsent"
      BY DEF IInv, Links
    <2> QED  BY <1>3, <2>1 DEF GenerateSend, StaysOpen, IInv, TypeOK
  <1>4. ASSUME NEW r \in Requests,
               \/ GenerateFail(r) \/ GenerateCommit(r) \/ StatusAnswer(r)
               \/ StatusFallback(r) \/ DeleteCommit(r) \/ Abort(r)
        PROVE  Same
    BY <1>0, <1>4 DEF GenerateFail, GenerateCommit, StatusAnswer, StatusFallback,
       DeleteCommit, Abort
  <1>5. ASSUME NEW w \in Workers, NEW t \in Tasks, Start(w, t) PROVE Same
    BY <1>5 DEF Start, StaysOpen, IInv, TypeOK, NoJob
  <1>6. ASSUME NEW w \in Workers,
               \/ LoadRow(w) \/ UpdateRow(w) \/ Fail(w) \/ Return(w)
               \/ Crash(w) \/ Kill(w)
        PROVE  Same
    <2>1. UNCHANGED <<file, written, about>>
      BY <1>6 DEF LoadRow, UpdateRow, Fail, Return, Crash, Kill
    <2>2. \A v \in Workers : v # w => job'[v] = job[v]
      BY <1>6 DEF LoadRow, UpdateRow, Fail, Return, Crash, Kill, IInv, TypeOK
    <2>3. job'[w].stage # "opened"
      <3>1. job[w] \in Job
        BY DEF IInv, TypeOK
      <3>2. CASE LoadRow(w)
        BY <3>1, <3>2 DEF LoadRow, Job, IInv, TypeOK
      <3>3. CASE UpdateRow(w) \/ Fail(w)
        <4>1. PICK o \in {"completed", "failed"} :
                job'[w] = [job[w] EXCEPT !.stage = "returning", !.outcome = o]
          BY <3>3 DEF UpdateRow, Fail, IInv, TypeOK
        <4> QED  BY ONLY <3>1, <4>1 DEF Job
      <3>4. CASE Return(w) \/ Crash(w) \/ Kill(w)
        BY <3>4 DEF Return, Crash, Kill, NoJob, IInv, TypeOK
      <3> QED  BY <1>6, <3>2, <3>3, <3>4
    <2> QED  BY <2>1, <2>2, <2>3 DEF StaysOpen
  <1>7. ASSUME NEW r \in Requests, DeleteFile(r)
        PROVE  Same \/ Gone
    <2>1. req[r].analysis \in Analyses
      BY <1>7 DEF DeleteFile, IInv, Links
    <2> QED  BY <1>0, <1>7, <2>1 DEF DeleteFile
  <1>8. ASSUME NEW a \in Analyses, CleanOldUnlink(a)
        PROVE  Same \/ Gone
    BY <1>0, <1>8 DEF CleanOldUnlink
  <1>9. CleanOldScan \/ CleanOrphans \/ CleanSelect \/ CleanCommit => Same
    BY <1>0 DEF CleanOldScan, CleanOrphans, CleanSelect, CleanCommit
  <1>10. ASSUME NEW t \in Tasks, Forget(t) PROVE Same
    BY <1>0, <1>10 DEF Forget
  <1>11. Age => UNCHANGED <<written, about, job, cleaner>>
    BY DEF Age
  <1>12. UNCHANGED vars => Same
    BY <1>0 DEF vars
  <1> HIDE DEF Same, Gone
  <1>13. ASSUME NEW r \in Requests, Handle(r)
         PROVE  Same \/ Gone
    BY <1>3, <1>4, <1>7, <1>13, ExistsLikeFail DEF Handle
  <1>14. ASSUME NEW w \in Workers, Work(w)
         PROVE  Same \/ OpenFile(w) \/ WriteFile(w)
    BY <1>6, <1>14 DEF Work
  <1>15. ASSUME Clean PROVE Same \/ Gone
    BY <1>8, <1>9, <1>15 DEF Clean
  <1>16. \/ Same
         \/ \E w \in Workers : OpenFile(w) \/ WriteFile(w)
         \/ Gone
         \/ UNCHANGED <<written, about, job, cleaner>> /\ Age
    BY <1>1, <1>2, <1>4, <1>5, <1>6, <1>9, <1>10, <1>11, <1>12, <1>13, <1>14,
       <1>15 DEF Next
  <1> QED  BY <1>16 DEF Same, Gone

\* What a process opens is its analysis' file.
LEMMA FileOf ==
    ASSUME IInv, NEW w \in Workers, job[w].stage # "idle"
    PROVE  about[job[w].task] \in Analyses
  BY DEF IInv, Links

LEMMA WholeStep ==
    ASSUME IInv, Whole, WrittenOnce, WrittenOnce', [Next]_vars
    PROVE  Whole'
  <1> USE DEF Whole
  <1>1. CASE UNCHANGED <<file, written>> /\ StaysOpen
    BY <1>1 DEF StaysOpen
  <1>2. ASSUME NEW w \in Workers, OpenFile(w) PROVE Whole'
    <2>1. PICK a \in Analyses : a = about[job[w].task]
      BY <1>2, FileOf DEF OpenFile
    <2>2. /\ \A b \in Analyses : b # a => file'[b] = file[b]
          /\ UNCHANGED <<written, about>>
          /\ a \notin written
      BY <1>2, <2>1 DEF OpenFile, celery, WrittenOnce, IInv, TypeOK
    <2>3. /\ \A v \in Workers : v # w => job'[v] = job[v]
          /\ job'[w].stage = "opened" /\ job'[w].linked /\ job'[w].task = job[w].task
      BY <1>2 DEF OpenFile, IInv, TypeOK, Job
    <2>4. \A b \in written' : file'[b] # "partial"
      BY <2>2 DEF IInv, TypeOK
    <2>5. ASSUME NEW v \in Workers, job'[v].stage = "opened", ~job'[v].linked
          PROVE  (file[about[job[v].task]] # "partial")'
      <3>1. v # w /\ job'[v] = job[v]
        BY <2>3, <2>5
      <3>2. about[job[v].task] # a
        BY <2>1, <2>2, <2>3, <2>5, <3>1 DEF WrittenOnce
      <3>3. about[job[v].task] \in Analyses
        BY <2>5, <3>1, FileOf
      <3> QED  BY <2>2, <2>5, <3>1, <3>2, <3>3
    <2> QED  BY <2>4, <2>5
  <1>3. ASSUME NEW w \in Workers, WriteFile(w) PROVE Whole'
    <2>1. PICK a \in Analyses : a = about[job[w].task]
      BY <1>3, FileOf DEF WriteFile
    <2>2. /\ \A b \in Analyses : b # a => file'[b] = file[b]
          /\ file'[a] # "partial"
          /\ written' = written \cup {a} /\ about' = about
      BY <1>3, <2>1 DEF WriteFile, celery, IInv, TypeOK
    <2>3. /\ \A v \in Workers : v # w => job'[v] = job[v]
          /\ job'[w].stage = "written"
      BY <1>3 DEF WriteFile, IInv, TypeOK, Job
    <2>4. \A b \in written' : file'[b] # "partial"
      BY <2>2 DEF IInv, TypeOK
    <2>5. ASSUME NEW v \in Workers, job'[v].stage = "opened", ~job'[v].linked
          PROVE  (file[about[job[v].task]] # "partial")'
      <3>1. job'[v] = job[v]
        BY <2>3, <2>5
      <3>2. about[job[v].task] \in Analyses
        BY <2>5, <3>1, FileOf
      <3> QED  BY <2>2, <2>5, <3>1, <3>2
    <2> QED  BY <2>4, <2>5
  <1>4. ASSUME UNCHANGED <<written, about>>, NEW a \in Analyses, Unlink(a)
        PROVE  Whole'
    <2>1. /\ \A b \in Analyses : b # a => file'[b] = file[b]
          /\ file'[a] = "none"
      BY <1>4 DEF Unlink, IInv, TypeOK
    <2>2. \A b \in written' : file'[b] # "partial"
      BY <1>4, <2>1 DEF IInv, TypeOK
    <2>3. ASSUME NEW v \in Workers, job'[v].stage = "opened", ~job'[v].linked
          PROVE  (file[about[job[v].task]] # "partial")'
      <3>1. job'[v].task = job[v].task /\ job[v].stage = "opened"
        BY <1>4, <2>3, UnlinkKeeps DEF IInv, TypeOK
      <3>2. PICK b \in Analyses : b = about[job[v].task]
        BY <3>1, FileOf
      <3>3. b # a => job'[v] = job[v]
        BY <1>4, <3>2 DEF Unlink
      <3>4. file'[b] # "partial"
        BY <2>1, <2>3, <3>1, <3>2, <3>3
      <3> QED  BY <1>4, <3>1, <3>2, <3>4
    <2> QED  BY <2>2, <2>3
  <1>5. CASE UNCHANGED <<written, about, job, cleaner>> /\ Age
    <2>1. \A a \in Analyses : file'[a] # "partial"
      BY <1>5 DEF Age
    <2>2. \A v \in Workers : job[v].stage = "opened" => about[job[v].task] \in Analyses
      BY FileOf
    <2> QED  BY <1>5, <2>1, <2>2 DEF IInv, TypeOK
  <1> QED  BY <1>1, <1>2, <1>3, <1>4, <1>5, HowFilesChange

\* What is served is truncated only by a run that writes a report once more:
\* the first run of an analysis, however it fails, is killed or delivered
\* again, leaves no incomplete file behind that a row announces.
THEOREM TruncationNeedsRewrite ==
    Spec /\ []WrittenOnce => []ServedIsWhole
  <1>1. Init => Whole
    BY DEF Init, Whole, NoJob
  <1>2. IInv /\ Whole /\ WrittenOnce /\ WrittenOnce' /\ [Next]_vars => Whole'
    BY WholeStep
  <1>3. IInv /\ Whole => ServedIsWhole
    BY DEF Whole, ServedIsWhole, Ready, IInv, WrittenFirst, StoredWasWritten, TypeOK
  <1> QED  BY <1>1, <1>2, <1>3, Invariance, PTL DEF Spec

\* Rows to clear are chosen by the SELECT of clean-up.
LEMMA HowRowsAreChosen ==
    ASSUME [Next]_vars, cleaner'.stage = "clearing", IInv
    PROVE  cleaner' = cleaner \/ CleanSelect
  <1> USE DEF vars
  <1>1. ASSUME NEW a \in Analyses, CleanOldUnlink(a) PROVE FALSE
    BY <1>1 DEF CleanOldUnlink, IInv, TypeOK, Cleaner
  <1>2. ~CleanOldScan /\ ~CleanCommit /\ ~CleanOrphans
    BY DEF CleanOldScan, CleanCommit, CleanOrphans, NoCleanup, IInv, TypeOK, Cleaner
  <1>3. ASSUME NEW r \in Requests, NEW a \in Analyses,
               GenerateCheck(r, a) \/ DeleteLoad(r, a)
        PROVE  cleaner' = cleaner
    BY <1>3 DEF GenerateCheck, DeleteLoad
  <1>4. ASSUME NEW r \in Requests, Handle(r) \/ Abort(r)
        PROVE  cleaner' = cleaner
    BY <1>4 DEF Handle, GenerateExists, GenerateSend, GenerateFail, GenerateCommit,
       StatusAnswer, StatusFallback, DeleteFile, DeleteCommit, Abort
  <1>5. ASSUME NEW w \in Workers, Work(w) \/ Crash(w) \/ Kill(w)
        PROVE  cleaner' = cleaner
    BY <1>5 DEF Work, OpenFile, WriteFile, LoadRow, UpdateRow, Fail, Return,
       Crash, Kill
  <1>6. ASSUME NEW t \in Tasks, NEW r \in Requests, StatusLoad(r, t)
        PROVE  cleaner' = cleaner
    BY <1>6 DEF StatusLoad
  <1>7. ASSUME NEW t \in Tasks, NEW w \in Workers, Start(w, t)
        PROVE  cleaner' = cleaner
    BY <1>7 DEF Start
  <1>8. ASSUME NEW t \in Tasks, Forget(t) PROVE cleaner' = cleaner
    BY <1>8 DEF Forget
  <1>9. Age => cleaner' = cleaner
    BY DEF Age
  <1> QED
    BY <1>1, <1>2, <1>3, <1>4, <1>5, <1>6, <1>7, <1>8, <1>9 DEF Next, Clean

LEMMA MissingStep ==
    ASSUME IInv, Missing, ClearsAlone, ClearsAlone', [Next]_vars
    PROVE  Missing'
  <1> SUFFICES ASSUME cleaner'.stage = "clearing", NEW a \in cleaner'.targets
               PROVE  file'[a] = "none"
    BY DEF Missing, OnDisk
  <1>1. CASE CleanSelect
    BY <1>1 DEF CleanSelect, NoCleanup, OnDisk, disk, IInv, TypeOK
  <1>2. CASE cleaner' = cleaner
    <2>1. a \in Analyses /\ file[a] = "none"
      BY <1>2 DEF Missing, OnDisk, IInv, TypeOK, Cleaner
    <2>2. ASSUME NEW w \in Workers, OpenFile(w) PROVE file'[a] = "none"
      <3>1. PICK b \in Analyses : b = about[job[w].task]
        BY <2>2, FileOf DEF OpenFile
      <3>2. job'[w].stage = "opened" /\ job'[w].task = job[w].task /\ about' = about
        BY <2>2 DEF OpenFile, celery, IInv, TypeOK, Job
      <3>3. b # a
        BY <3>1, <3>2 DEF ClearsAlone
      <3> QED  BY <2>1, <2>2, <3>1, <3>3 DEF OpenFile, IInv, TypeOK
    <2>3. ASSUME NEW w \in Workers, WriteFile(w) PROVE file'[a] = "none"
      <3>1. about[job[w].task] # a
        BY <1>2, <2>3 DEF ClearsAlone, WriteFile
      <3> QED  BY <2>1, <2>3, <3>1 DEF WriteFile, IInv, TypeOK
    <2>4. ASSUME NEW b \in Analyses, Unlink(b) PROVE file'[a] = "none"
      BY <2>1, <2>4 DEF Unlink, IInv, TypeOK
    <2>5. Age => file'[a] = "none"
      BY <2>1 DEF Age, OnDisk
    <2> QED  BY <2>1, <2>2, <2>3, <2>4, <2>5, HowFilesChange
  <1> QED  BY <1>1, <1>2, HowRowsAreChosen

\* Only the commit of clean-up takes an announcement back.
LEMMA HowRowsAreCleared ==
    ASSUME IInv, [Next]_vars, NEW a \in Analyses, stored[a], ~stored'[a]
    PROVE  CleanCommit
  <1> USE DEF table
  <1>1. ASSUME NEW r \in Requests, NEW b \in Analyses,
               GenerateCheck(r, b) \/ DeleteLoad(r, b)
        PROVE  FALSE
    BY <1>1 DEF GenerateCheck, DeleteLoad
  <1>2. ASSUME NEW r \in Requests, Handle(r) \/ Abort(r) PROVE FALSE
    BY <1>2 DEF Handle, GenerateExists, GenerateSend, GenerateFail, GenerateCommit,
       StatusAnswer, StatusFallback, DeleteFile, DeleteCommit, Abort, IInv, TypeOK
  <1>3. ASSUME NEW w \in Workers, Work(w) \/ Crash(w) \/ Kill(w) PROVE FALSE
    <2>1. ASSUME UpdateRow(w) PROVE FALSE
      BY <2>1 DEF UpdateRow, IInv, TypeOK
    <2>2. stored' # stored
      OBVIOUS
    <2> QED
      BY <1>3, <2>1, <2>2 DEF Work, OpenFile, WriteFile, LoadRow, Fail, Return,
         Crash, Kill
  <1>4. ASSUME NEW t \in Tasks, NEW r \in Requests, StatusLoad(r, t) PROVE FALSE
    BY <1>4 DEF StatusLoad
  <1>5. ASSUME NEW t \in Tasks, NEW w \in Workers, Start(w, t) PROVE FALSE
    BY <1>5 DEF Start
  <1>6. ASSUME NEW t \in Tasks, Forget(t) PROVE FALSE
    BY <1>6 DEF Forget
  <1>7. ASSUME NEW b \in Analyses, CleanOldUnlink(b) PROVE FALSE
    BY <1>7 DEF CleanOldUnlink
  <1>8. ~CleanOldScan /\ ~CleanOrphans /\ ~CleanSelect /\ ~Age /\ ~UNCHANGED vars
    BY DEF CleanOldScan, CleanOrphans, CleanSelect, Age, vars
  <1> QED
    BY <1>1, <1>2, <1>3, <1>4, <1>5, <1>6, <1>7, <1>8 DEF Next, Clean

\* Clean-up takes back only what is missing, unless a run writes the file
\* between its SELECT and its commit.
THEOREM WrongClearNeedsOverlap ==
    Spec /\ []ClearsAlone => ClearedWasMissing
  <1>1. Init => Missing
    BY DEF Init, Missing, NoCleanup
  <1>2. IInv /\ Missing /\ ClearsAlone /\ ClearsAlone' /\ [Next]_vars => Missing'
    BY MissingStep
  <1>3. IInv /\ Missing /\ [Next]_vars
          => [\A a \in exists : stored[a] /\ ~stored[a]' => ~OnDisk(a)]_vars
    <2> SUFFICES ASSUME IInv, Missing, [Next]_vars,
                        NEW a \in exists, stored[a], ~stored'[a]
                 PROVE  ~OnDisk(a)
      OBVIOUS
    <2>1. a \in Analyses
      BY DEF IInv, TypeOK
    <2>2. CleanCommit
      BY <2>1, HowRowsAreCleared
    <2> QED  BY <2>1, <2>2 DEF CleanCommit, Missing, IInv, TypeOK
  <1> QED  BY <1>1, <1>2, <1>3, Invariance, PTL DEF Spec, ClearedWasMissing

\* Steps that tell nobody anything and neither send nor name a task.
LEMMA NamedKept ==
    ASSUME IInv, Named,
           UNCHANGED <<exists, current, about, told>>,
           \A t \in Tasks : message[t] # "unsent" => message'[t] # "unsent",
           \A r \in Requests :
              req'[r].stage \in {"loaded", "fallback"} =>
                  /\ req[r].stage \in {"loaded", "fallback"}
                  /\ req'[r].task = req[r].task
    PROVE  Named'
  BY DEF Named

LEMMA NamedStep ==
    ASSUME IInv, Named, RequestedOnce, RequestedOnce', [Next]_vars
    PROVE  Named'
  <1> USE DEF table, disk, celery
  <1>1. ASSUME NEW r \in Requests, NEW a \in Analyses,
               GenerateCheck(r, a) \/ DeleteLoad(r, a)
        PROVE  Named'
    BY <1>1, NamedKept DEF GenerateCheck, DeleteLoad, NoRequest, IInv, TypeOK
  <1>2. ASSUME NEW r \in Requests, GenerateFail(r) \/ Abort(r)
        PROVE  Named'
    BY <1>2, NamedKept DEF GenerateFail, Abort, NoRequest, IInv, TypeOK
  <1>3. ASSUME NEW r \in Requests, DeleteFile(r)
        PROVE  Named'
    <2>1. /\ UNCHANGED <<exists, current, about, told, message>>
          /\ \A q \in Requests : q # r => req'[q] = req[q]
          /\ req'[r].stage = "unlinked"
      BY <1>3 DEF DeleteFile, IInv, TypeOK, Request
    <2> QED  BY <2>1, NamedKept
  <1>4. ASSUME NEW r \in Requests, DeleteCommit(r) PROVE Named'
    <2>1. /\ exists' \subseteq exists
          /\ UNCHANGED <<current, about, told, message>>
          /\ \A q \in Requests : q # r => req'[q] = req[q]
          /\ req'[r].stage = "idle"
      BY <1>4 DEF DeleteCommit, NoRequest, IInv, TypeOK
    <2> QED  BY <2>1 DEF Named
  <1>5. ASSUME NEW r \in Requests, GenerateSend(r) PROVE Named'
    <2>1. PICK t \in Tasks :
            /\ message[t] = "unsent"
            /\ message' = [message EXCEPT ![t] = "queued"]
            /\ about' = [about EXCEPT ![t] = req[r].analysis]
            /\ req' = [req EXCEPT ![r] = [@ EXCEPT !.stage = "sent", !.task = t]]
      BY <1>5 DEF GenerateSend
    <2>2. /\ UNCHANGED <<exists, current, told>>
          /\ \A q \in Requests : q # r => req'[q] = req[q]
          /\ req'[r].stage = "sent"
      BY <1>5, <2>1 DEF GenerateSend, IInv, TypeOK, Request
    <2>3. \A u \in Tasks : u # t => about'[u] = about[u] /\ message'[u] = message[u]
      BY <2>1 DEF IInv, TypeOK
    <2>4. told[t] = "none"
      BY <2>1 DEF Named
    <2> QED  BY <2>2, <2>3, <2>4 DEF Named
  <1>6. ASSUME NEW r \in Requests, GenerateCommit(r) PROVE Named'
    <2>1. PICK a \in Analyses, t \in Tasks :
            /\ a = req[r].analysis /\ t = req[r].task
            /\ message[t] # "unsent" /\ about[t] = a
      BY <1>6 DEF GenerateCommit, IInv, Links
    <2>2. /\ UNCHANGED <<exists, about, message>>
          /\ \A q \in Requests : q # r => req'[q] = req[q]
          /\ req'[r].stage = "idle"
      BY <1>6 DEF GenerateCommit, NoRequest, IInv, TypeOK
    <2>3. CASE a \notin exists
      <3>1. UNCHANGED <<current, told>>
        BY <1>6, <2>1, <2>3 DEF GenerateCommit
      <3> QED  BY <2>2, <3>1 DEF Named
    <2>4. CASE a \in exists
      <3>1. /\ current' = [current EXCEPT ![a] = t]
            /\ told' = [told EXCEPT ![t] = "pending"]
        BY <1>6, <2>1, <2>4 DEF GenerateCommit
      <3>2. \A u \in Tasks : told[u] # "none" /\ about[u] = a => u = t
        BY <2>1 DEF Named, RequestedOnce
      <3>3. \A u \in Tasks : told'[u] # "none" =>
              /\ message'[u] # "unsent"
              /\ about'[u] \in exists' => current'[about'[u]] = u
        BY <2>1, <2>2, <3>1, <3>2 DEF Named, IInv, TypeOK
      <3>4. \A u \in Tasks : told[u] # "none" => told'[u] # "none"
        BY <3>1 DEF IInv, TypeOK
      <3> QED  BY <2>2, <3>3, <3>4 DEF Named
    <2> QED  BY <2>3, <2>4
  <1>7. ASSUME NEW r \in Requests, NEW t \in Tasks, StatusLoad(r, t)
        PROVE  Named'
    <2>1. /\ UNCHANGED <<exists, current, about, message>>
          /\ told[t] # "none"
          /\ told' = told \/ told' = [told EXCEPT ![t] = "notfound"]
      BY <1>7 DEF StatusLoad, Polling
    <2>2. \A u \in Tasks : told'[u] # "none" <=> told[u] # "none"
      BY <2>1 DEF IInv, TypeOK
    <2>3. /\ \A q \in Requests : q # r => req'[q] = req[q]
          /\ req'[r] = req[r] \/ req'[r].task = t
      BY <1>7 DEF StatusLoad, IInv, TypeOK
    <2>4. \A q \in Requests : req'[q].stage \in {"loaded", "fallback"} =>
            req'[q].task \in Tasks /\ told'[req'[q].task] # "none"
      BY <2>1, <2>2, <2>3 DEF Named
    <2>5. \A u \in Tasks : told'[u] # "none" =>
              /\ message'[u] # "unsent"
              /\ about'[u] \in exists' => current'[about'[u]] = u
      BY <2>1, <2>2 DEF Named
    <2> QED  BY <2>4, <2>5 DEF Named
  <1>8. ASSUME NEW r \in Requests, StatusAnswer(r) \/ StatusFallback(r)
        PROVE  Named'
    <2>1. PICK t \in Tasks : t = req[r].task /\ told[t] # "none"
      BY <1>8 DEF StatusAnswer, StatusFallback, Named
    <2>2. /\ UNCHANGED <<exists, current, about, message>>
          /\ \A u \in Tasks : u # t => told'[u] = told[u]
      BY <1>8, <2>1 DEF StatusAnswer, StatusFallback, IInv, TypeOK
    <2>3. told'[t] # "none"
      BY <1>8, <2>1 DEF StatusAnswer, StatusFallback, StatusOf, IInv, TypeOK
    <2>4. /\ \A q \in Requests : q # r => req'[q] = req[q]
          /\ req'[r].stage # "idle" => req'[r].task = t
      BY <1>8, <2>1 DEF StatusAnswer, StatusFallback, NoRequest, IInv, TypeOK,
         Request
    <2>5. \A q \in Requests : req'[q].stage \in {"loaded", "fallback"} =>
            req'[q].task \in Tasks /\ told'[req'[q].task] # "none"
      BY <2>1, <2>2, <2>3, <2>4 DEF Named
    <2>6. \A u \in Tasks : told'[u] # "none" =>
              /\ message'[u] # "unsent"
              /\ about'[u] \in exists' => current'[about'[u]] = u
      BY <2>1, <2>2 DEF Named
    <2> QED  BY <2>5, <2>6 DEF Named
  <1>9. ASSUME NEW w \in Workers,
               \/ OpenFile(w) \/ WriteFile(w) \/ LoadRow(w) \/ UpdateRow(w)
               \/ Fail(w)
        PROVE  Named'
    BY <1>9, NamedKept DEF OpenFile, WriteFile, LoadRow, UpdateRow, Fail
  <1>10. ASSUME NEW w \in Workers,
                \/ Return(w) \/ Crash(w) \/ Kill(w)
                \/ \E t \in Tasks : Start(w, t)
         PROVE  Named'
    <2>1. UNCHANGED <<exists, current, about, told, req>>
      BY <1>10 DEF Return, Crash, Kill, Start
    <2>2. \A t \in Tasks : message[t] # "unsent" => message'[t] # "unsent"
      BY <1>10 DEF Return, Crash, Kill, Start, IInv, TypeOK
    <2> QED  BY <2>1, <2>2, NamedKept
  <1>11. ASSUME \/ \E t \in Tasks : Forget(t)
                \/ \E a \in Analyses : CleanOldUnlink(a)
                \/ CleanOldScan \/ CleanOrphans \/ CleanSelect \/ CleanCommit
                \/ Age \/ UNCHANGED vars
         PROVE  Named'
    <2>1. UNCHANGED <<exists, current, about, told, req, message>>
      BY <1>11 DEF Forget, CleanOldUnlink, CleanOldScan, CleanOrphans,
         CleanSelect, CleanCommit, Age, vars
    <2> QED  BY <2>1, NamedKept
  <1>12. ASSUME NEW r \in Requests, Handle(r) PROVE Named'
    BY <1>2, <1>3, <1>4, <1>5, <1>6, <1>8, <1>12, ExistsLikeFail DEF Handle
  <1>13. ASSUME NEW w \in Workers, Work(w) PROVE Named'
    BY <1>9, <1>10, <1>13 DEF Work
  <1> QED
    BY <1>1, <1>2, <1>7, <1>10, <1>11, <1>12, <1>13 DEF Next, Clean

\* The status endpoint loses the analysis of a task only to a second request
\* for the same report, which overwrites report_task_id.
THEOREM LostIdNeedsSecondRequest ==
    Spec /\ []RequestedOnce => []HandedOutIsFound
  <1>1. Init => Named
    BY DEF Init, Named, NoRequest
  <1>2. IInv /\ Named /\ RequestedOnce /\ RequestedOnce' /\ [Next]_vars => Named'
    BY NamedStep
  <1>3. Named => HandedOutIsFound
    BY DEF Named, HandedOutIsFound, Polling
  <1> QED  BY <1>1, <1>2, <1>3, Invariance, PTL DEF Spec
=============================================================================
