-------------------------- MODULE AnalysisTaskProofs --------------------------
(***************************************************************************)
(* What the analysis pipeline keeps for every number of tasks, workers and *)
(* rows and every Expires < Visibility: how often a document is paid for   *)
(* and saved, that no message leaves the broker without a verdict, and, as *)
(* long as no busy worker loses its connection, that a task inserts one    *)
(* analysis and none after its client was told that it failed. With any    *)
(* losses, the pipeline implements AnalysisJob.                            *)
(***************************************************************************)
EXTENDS AnalysisTask, FiniteSetTheorems, TLAPS

BeforeInsert == {"analysing", "analysed", "inserting"}

\* What a busy process knows about its task.
JobLinks ==
    \A w \in Workers :
        /\ job[w].stage # "idle" => job[w].task \in Tasks
        /\ job[w].outcome # None <=> job[w].stage \in {"returning", "stored"}
        /\ job[w].stage = "saved" =>
             job[w].id \in Ids /\ job[w].id \in Inserted(job[w].task)

\* A message that can be acknowledged by a worker is on no other, and in no
\* queue, until the worker is done: the time limit is under the visibility
\* timeout.
Held ==
    \A w \in Workers :
        Holds(w) =>
            /\ message[job[w].task] = "unacked"
            /\ hidden[job[w].task] > 0
            /\ \A v \in Workers : Holds(v) /\ job[v].task = job[w].task => v = w

\* A message that comes back by the visibility timeout is too old to be run;
\* one that can be run has been run at most once per lost connection.
Fresh ==
    \A t \in Tasks :
        /\ message[t] = "unacked" /\ expires[t] > 0 => expires[t] < hidden[t]
        /\ message[t] = "unsent" \/ (message[t] = "queued" /\ expires[t] > 0)
             => runs[t] <= losses
        /\ runs[t] <= 1 + losses

\* The result is stored before the message is acknowledged.
Verdict ==
    /\ SettledHasVerdict
    /\ \A w \in Workers :
         Holds(w) /\ job[w].stage = "stored" =>
            result[job[w].task] \notin {"none", "STARTED"}

\* Whoever reports "completed" comes after an insert for the same task.
SavedFirst ==
    /\ CompletedIsSaved
    /\ \A w \in Workers :
         job[w].outcome = "completed" => Inserted(job[w].task) # {}

\* With every connection intact a task has one run, so one insert.
OneRun ==
    losses = 0 =>
        /\ \A w \in Workers :
             job[w].stage # "idle" => job[w].connected /\ runs[job[w].task] > 0
        /\ \A w \in Workers :
             job[w].stage \in BeforeInsert => Inserted(job[w].task) = {}
        /\ \A t \in Tasks : Inserted(t) # {} => runs[t] > 0
        /\ \A t \in Tasks : \A a, b \in Inserted(t) : a = b

\* ... and nothing of it is before its insert once its end is known.
EndIsKnown(t) == result[t] \in Success \cup {"FAILURE"} \/ told[t] = "failed"

Ended ==
    losses = 0 =>
        \A t \in Tasks :
            EndIsKnown(t) =>
                /\ runs[t] > 0
                /\ \A w \in Workers : job[w].stage \in BeforeInsert => job[w].task # t

IInv ==
    /\ TypeOK /\ JobLinks /\ Held /\ Fresh /\ Verdict /\ SavedFirst
    /\ OneRun /\ Ended

LEMMA IdleFields ==
    ASSUME NEW t \in Tasks
    PROVE  Idle \in Job /\ [Idle EXCEPT !.stage = "analysing", !.task = t] \in Job
  BY DEF Idle, Job, Stage

\* A row that is changed or deleted stays the row of its task.
LEMMA RowKept ==
    ASSUME analysis \in [Ids -> Row \cup {None}], NEW a \in Ids,
           analysis[a] # None,
           \/ analysis' = [analysis EXCEPT ![a].clauses = TRUE]
           \/ analysis' = [analysis EXCEPT ![a].deleted = TRUE]
    PROVE  /\ analysis' \in [Ids -> Row \cup {None}]
           /\ \A t : Inserted(t)' = Inserted(t)
  <1>1. analysis[a] \in Row  OBVIOUS
  <1>2. analysis'[a] \in Row /\ analysis'[a].task = analysis[a].task
    BY <1>1 DEF Row
  <1>3. analysis'[a] # None  BY <1>2, AnalysisAssumption
  <1>4. \A b \in Ids : b # a => analysis'[b] = analysis[b]  OBVIOUS
  <1>5. analysis' \in [Ids -> Row \cup {None}]
    BY <1>2
  <1> QED  BY <1>2, <1>3, <1>4, <1>5 DEF Inserted

LEMMA RowInserted ==
    ASSUME analysis \in [Ids -> Row \cup {None}], NEW a \in Ids, NEW u \in Tasks,
           analysis[a] = None,
           analysis' = [analysis EXCEPT ![a] =
                          [task |-> u, clauses |-> FALSE, deleted |-> FALSE]]
    PROVE  /\ analysis' \in [Ids -> Row \cup {None}]
           /\ \A t : t # u => Inserted(t)' = Inserted(t)
           /\ Inserted(u)' = Inserted(u) \cup {a}
  <1>1. /\ analysis'[a] = [task |-> u, clauses |-> FALSE, deleted |-> FALSE]
        /\ \A b \in Ids : b # a => analysis'[b] = analysis[b]
    OBVIOUS
  <1>2. analysis'[a] \in Row /\ analysis'[a].task = u
    BY <1>1 DEF Row
  <1>3. analysis'[a] # None
    BY <1>2, AnalysisAssumption
  <1>4. \A t : t # u => Inserted(t)' = Inserted(t)
    BY <1>1, <1>2 DEF Inserted
  <1>5. Inserted(u)' = Inserted(u) \cup {a}
    BY <1>1, <1>2, <1>3 DEF Inserted
  <1> QED  BY <1>2, <1>4, <1>5

LEMMA CountedDown ==
    ASSUME NEW n \in Nat, NEW f \in [Tasks -> 0..n]
    PROVE  CountDown(f) \in [Tasks -> 0..n]
  BY DEF CountDown

LEMMA InitIInv == Init => IInv
  <1> SUFFICES ASSUME Init PROVE IInv  OBVIOUS
  <1> USE AnalysisAssumption DEF Init, Idle
  <1>1. TypeOK  BY DEF TypeOK, Result, Success, Job, Stage
  <1>2. \A w \in Workers : job[w].stage = "idle" /\ job[w].outcome = None
    OBVIOUS
  <1>3. \A t \in Tasks :
          /\ Inserted(t) = {} /\ message[t] = "unsent" /\ result[t] = "none"
          /\ told[t] = "pending" /\ runs[t] = 0
    BY DEF Inserted
  <1>4. JobLinks  BY <1>2 DEF JobLinks
  <1>5. Held  BY <1>2 DEF Held, Holds
  <1>6. Fresh  BY <1>3 DEF Fresh
  <1>7. Verdict /\ SavedFirst
    BY <1>2, <1>3 DEF Verdict, SavedFirst, SettledHasVerdict, CompletedIsSaved,
          Holds, Success
  <1>8. OneRun /\ Ended
    BY <1>2, <1>3 DEF OneRun, Ended, EndIsKnown, BeforeInsert, Success
  <1> QED  BY <1>1, <1>4, <1>5, <1>6, <1>7, <1>8 DEF IInv

LEMMA SubmitStep ==
    ASSUME IInv, NEW t \in Tasks, Submit(t)
    PROVE  IInv'
  <1> USE AnalysisAssumption DEF IInv, Submit, broker, backend
  <1>1. TypeOK'
    BY DEF TypeOK, Row, Result, Success, Job, Stage
  <1>2. JobLinks'
    BY DEF TypeOK, JobLinks, Inserted, Row, Job, Stage, Success
  <1>3. Held'
    BY DEF TypeOK, JobLinks, Held, Holds, Job
  <1>4. Fresh'
    BY DEF TypeOK, Fresh, Held, Holds, Job
  <1>5. Verdict'
    BY DEF TypeOK, JobLinks, Verdict, SettledHasVerdict, Held, Holds, State,
           Success, Result, Job
  <1>6. SavedFirst'
    BY DEF TypeOK, JobLinks, SavedFirst, CompletedIsSaved, Inserted, Success,
           Row, Job
  <1>7. OneRun'
    BY DEF TypeOK, JobLinks, Held, Holds, Fresh, OneRun, Inserted,
           BeforeInsert, Row, Job
  <1>8. Ended'
    BY DEF TypeOK, JobLinks, Held, Holds, Fresh, OneRun, Ended, EndIsKnown,
           BeforeInsert, State, Success, Result, Job
  <1> QED  BY <1>1, <1>2, <1>3, <1>4, <1>5, <1>6, <1>7, <1>8

LEMMA StartStep ==
    ASSUME IInv, NEW w \in Workers, NEW t \in Tasks, Start(w, t)
    PROVE  IInv'
  <1> USE AnalysisAssumption DEF IInv, Start, Idle, Store, broker, backend
  <1>1. TypeOK'
    <2>1. [Idle EXCEPT !.stage = "analysing", !.task = t] \in Job
      BY IdleFields
    <2>2. job' \in [Workers -> Job]
      BY <2>1 DEF TypeOK
    <2>3. result' \in [Tasks -> Result] /\ ttl' \in [Tasks -> 0..ResultTTL]
      BY DEF TypeOK, Result
    <2>4. runs' \in [Tasks -> Nat] /\ hidden' \in [Tasks -> 0..Visibility]
      BY DEF TypeOK
    <2> QED  BY <2>2, <2>3, <2>4 DEF TypeOK
  <1>2. JobLinks'
    BY DEF TypeOK, JobLinks, Inserted, Row, Job, Stage, Success
  <1>3. Held'
    BY DEF TypeOK, JobLinks, Held, Holds, Job
  <1>4. Fresh'
    BY DEF TypeOK, Fresh, Held, Holds, Job
  <1>5. Verdict'
    BY DEF TypeOK, JobLinks, Verdict, SettledHasVerdict, Held, Holds, State,
           Success, Result, Job
  <1>6. SavedFirst'
    BY DEF TypeOK, JobLinks, SavedFirst, CompletedIsSaved, Inserted, Success,
           Row, Job
  <1>7. OneRun'
    BY DEF TypeOK, JobLinks, Held, Holds, Fresh, OneRun, Inserted,
           BeforeInsert, Row, Job
  <1>8. Ended'
    BY DEF TypeOK, JobLinks, Held, Holds, Fresh, OneRun, Ended, EndIsKnown,
           BeforeInsert, State, Success, Result, Job
  <1> QED  BY <1>1, <1>2, <1>3, <1>4, <1>5, <1>6, <1>7, <1>8

LEMMA RevokeStep ==
    ASSUME IInv, NEW w \in Workers, NEW t \in Tasks, Revoke(w, t)
    PROVE  IInv'
  <1> USE AnalysisAssumption DEF IInv, Revoke, Store, broker, backend
  <1>1. TypeOK'
    BY DEF TypeOK, Row, Result, Success, Job, Stage
  <1>2. JobLinks'
    BY DEF TypeOK, JobLinks, Inserted, Row, Job, Stage, Success
  <1>3. Held'
    BY DEF TypeOK, JobLinks, Held, Holds, Job
  <1>4. Fresh'
    BY DEF TypeOK, Fresh, Held, Holds, Job
  <1>5. Verdict'
    BY DEF TypeOK, JobLinks, Verdict, SettledHasVerdict, Held, Holds, State,
           Success, Result, Job
  <1>6. SavedFirst'
    BY DEF TypeOK, JobLinks, SavedFirst, CompletedIsSaved, Inserted, Success,
           Row, Job
  <1>7. OneRun'
    BY DEF TypeOK, JobLinks, Held, Holds, Fresh, OneRun, Inserted,
           BeforeInsert, Row, Job
  <1>8. Ended'
    BY DEF TypeOK, JobLinks, Held, Holds, Fresh, OneRun, Ended, EndIsKnown,
           BeforeInsert, State, Success, Result, Job
  <1> QED  BY <1>1, <1>2, <1>3, <1>4, <1>5, <1>6, <1>7, <1>8

LEMMA AnalyseStep ==
    ASSUME IInv, NEW w \in Workers, Analyse(w)
    PROVE  IInv'
  <1> USE AnalysisAssumption DEF IInv, Analyse, broker, backend
  <1>1. TypeOK'
    <2>1. job[w] \in Job  BY DEF TypeOK
    <2>2. [job[w] EXCEPT !.stage = "analysed"] \in Job
      BY ONLY <2>1 DEF Job, Stage
    <2>3. job' \in [Workers -> Job]
      BY <2>2 DEF TypeOK
    <2> QED  BY <2>3 DEF TypeOK
  <1>2. JobLinks'
    BY DEF TypeOK, JobLinks, Inserted, Row, Job, Stage, Success
  <1>3. Held'
    BY DEF TypeOK, JobLinks, Held, Holds, Job
  <1>4. Fresh'
    BY DEF TypeOK, Fresh, Held, Holds, Job
  <1>5. Verdict'
    BY DEF TypeOK, JobLinks, Verdict, SettledHasVerdict, Held, Holds, State,
           Success, Result, Job
  <1>6. SavedFirst'
    BY DEF TypeOK, JobLinks, SavedFirst, CompletedIsSaved, Inserted, Success,
           Row, Job
  <1>7. OneRun'
    BY DEF TypeOK, JobLinks, Held, Holds, Fresh, OneRun, Inserted,
           BeforeInsert, Row, Job
  <1>8. Ended'
    BY DEF TypeOK, JobLinks, Held, Holds, Fresh, OneRun, Ended, EndIsKnown,
           BeforeInsert, State, Success, Result, Job
  <1> QED  BY <1>1, <1>2, <1>3, <1>4, <1>5, <1>6, <1>7, <1>8

LEMMA CheckExistingStep ==
    ASSUME IInv, NEW w \in Workers, CheckExisting(w)
    PROVE  IInv'
  <1> USE AnalysisAssumption DEF IInv, CheckExisting, RowsOf, Rows, broker,
        backend
  <1>1. TypeOK'
    <2>1. job[w] \in Job  BY DEF TypeOK
    <2>2. /\ [job[w] EXCEPT !.stage = "returning", !.outcome = "completed"] \in Job
          /\ [job[w] EXCEPT !.stage = "inserting"] \in Job
      BY ONLY <2>1 DEF Job, Stage, Success
    <2>3. job' \in [Workers -> Job]
      BY <2>2 DEF TypeOK
    <2> QED  BY <2>3 DEF TypeOK
  <1>2. JobLinks'
    BY DEF TypeOK, JobLinks, Inserted, Row, Job, Stage, Success
  <1>3. Held'
    BY DEF TypeOK, JobLinks, Held, Holds, Job
  <1>4. Fresh'
    BY DEF TypeOK, Fresh, Held, Holds, Job
  <1>5. Verdict'
    BY DEF TypeOK, JobLinks, Verdict, SettledHasVerdict, Held, Holds, State,
           Success, Result, Job
  <1>6. SavedFirst'
    BY DEF TypeOK, JobLinks, SavedFirst, CompletedIsSaved, Inserted, Success,
           Row, Job
  <1>7. OneRun'
    BY DEF TypeOK, JobLinks, Held, Holds, Fresh, OneRun, Inserted,
           BeforeInsert, Row, Job
  <1>8. Ended'
    BY DEF TypeOK, JobLinks, Held, Holds, Fresh, OneRun, Ended, EndIsKnown,
           BeforeInsert, State, Success, Result, Job
  <1> QED  BY <1>1, <1>2, <1>3, <1>4, <1>5, <1>6, <1>7, <1>8

LEMMA SaveAnalysisStep ==
    ASSUME IInv, NEW w \in Workers, SaveAnalysis(w)
    PROVE  IInv'
  <1> USE DEF IInv
  <1>1. /\ UNCHANGED <<message, expires, hidden, result, ttl, runs, told, losses>>
        /\ job[w].stage = "inserting"
    BY DEF SaveAnalysis, broker, backend
  <1>2. PICK u \in Tasks : u = job[w].task
    BY <1>1 DEF JobLinks
  <1>3. PICK a \in Ids :
          /\ analysis[a] = None
          /\ analysis' = [analysis EXCEPT ![a] =
                            [task |-> u, clauses |-> FALSE, deleted |-> FALSE]]
          /\ job' = [job EXCEPT ![w] = [@ EXCEPT !.stage = "saved", !.id = a]]
    BY <1>2 DEF SaveAnalysis
  <1>4. /\ analysis' \in [Ids -> Row \cup {None}]
        /\ \A t : t # u => Inserted(t)' = Inserted(t)
        /\ Inserted(u)' = Inserted(u) \cup {a}
    BY <1>3, RowInserted DEF TypeOK
  <1>5. /\ job' \in [Workers -> Job]
        /\ \A v \in Workers : v # w => job'[v] = job[v]
        /\ job'[w].stage = "saved" /\ job'[w].id = a /\ job'[w].task = u
        /\ job'[w].outcome = job[w].outcome
        /\ job'[w].connected = job[w].connected
    <2>1. job[w] \in Job /\ job'[w] = [job[w] EXCEPT !.stage = "saved", !.id = a]
      BY <1>3 DEF TypeOK
    <2>2. /\ job'[w] \in Job
          /\ job'[w].stage = "saved" /\ job'[w].id = a
          /\ job'[w].task = job[w].task
          /\ job'[w].outcome = job[w].outcome
          /\ job'[w].connected = job[w].connected
      BY ONLY <2>1, a \in Ids DEF Job, Stage
    <2> QED  BY <1>2, <1>3, <2>2 DEF TypeOK
  <1>6. TypeOK'
    BY <1>1, <1>4, <1>5 DEF TypeOK
  <1>7. JobLinks'
    <2>1. ASSUME NEW v \in Workers
          PROVE  /\ job'[v].stage # "idle" => job'[v].task \in Tasks
                 /\ job'[v].outcome # None <=> job'[v].stage \in {"returning", "stored"}
      BY <1>1, <1>5 DEF JobLinks
    <2>2. ASSUME NEW v \in Workers, job'[v].stage = "saved"
          PROVE  (job[v].id \in Ids /\ job[v].id \in Inserted(job[v].task))'
      <3>1. PICK t : t = job'[v].task  OBVIOUS
      <3>2. job'[v].id \in Ids /\ job'[v].id \in Inserted(t)'
        BY <1>4, <1>5, <2>2, <3>1 DEF JobLinks
      <3> QED  BY <3>1, <3>2 DEF Inserted
    <2> QED  BY <2>1, <2>2 DEF JobLinks
  <1>8. Held'
    BY <1>1, <1>2, <1>5 DEF Held, Holds
  <1>9. Fresh'
    BY <1>1 DEF Fresh
  <1>10. Verdict'
    BY <1>1, <1>5 DEF Verdict, SettledHasVerdict, Holds
  <1>11. SavedFirst'
    BY <1>1, <1>4, <1>5 DEF SavedFirst, CompletedIsSaved, JobLinks
  <1>12. OneRun'
    <2> SUFFICES ASSUME losses = 0 PROVE OneRun'
      BY <1>1 DEF OneRun
    <2>1. job[w].connected /\ runs[u] > 0 /\ Inserted(u) = {}
      BY <1>1, <1>2 DEF OneRun, BeforeInsert
    <2>2. \A v \in Workers : v # w /\ job[v].stage # "idle" => job[v].task # u
      BY <1>1, <1>2, <2>1 DEF Held, Holds, OneRun
    <2>3. \A v \in Workers :
            job'[v].stage # "idle" => job'[v].connected /\ runs[job'[v].task] > 0
      BY <1>5, <2>1 DEF OneRun
    <2>4. ASSUME NEW v \in Workers, job'[v].stage \in BeforeInsert
          PROVE  (Inserted(job[v].task) = {})'
      <3>1. PICK t : t = job'[v].task  OBVIOUS
      <3>2. Inserted(t)' = {}
        <4>1. v # w /\ job'[v] = job[v] /\ job[v].stage \in BeforeInsert
          BY <1>5, <2>4 DEF BeforeInsert
        <4>2. t = job[v].task /\ t # u
          BY <2>2, <3>1, <4>1 DEF BeforeInsert
        <4>3. Inserted(t) = {}
          BY <4>1, <4>2 DEF OneRun
        <4> QED  BY <1>4, <4>2, <4>3
      <3> QED  BY <3>1, <3>2 DEF Inserted
    <2>5. \A t \in Tasks : Inserted(t)' # {} => runs[t] > 0
      BY <1>4, <2>1 DEF OneRun
    <2>6. \A t \in Tasks : \A b, c \in Inserted(t)' : b = c
      BY <1>4, <2>1 DEF OneRun
    <2> QED  BY <1>1, <2>3, <2>4, <2>5, <2>6 DEF OneRun
  <1>13. Ended'
    BY <1>1, <1>5 DEF Ended, EndIsKnown, BeforeInsert
  <1> QED
    BY <1>6, <1>7, <1>8, <1>9, <1>10, <1>11, <1>12, <1>13

LEMMA SaveClausesStep ==
    ASSUME IInv, NEW w \in Workers, SaveClauses(w)
    PROVE  IInv'
  <1> USE AnalysisAssumption DEF IInv, SaveClauses, Rows, broker, backend
  <1>0. /\ analysis' \in [Ids -> Row \cup {None}]
        /\ \A t : Inserted(t)' = Inserted(t)
    <2>1. job[w].id \in Ids /\ analysis[job[w].id] # None
      OBVIOUS
    <2> QED  BY <2>1, RowKept DEF TypeOK
  <1>1. TypeOK'
    <2>1. job[w] \in Job  BY DEF TypeOK
    <2>2. [job[w] EXCEPT !.stage = "returning", !.outcome = "completed"] \in Job
      BY ONLY <2>1 DEF Job, Stage, Success
    <2>3. job' \in [Workers -> Job]
      BY <2>2 DEF TypeOK
    <2> QED  BY <1>0, <2>3 DEF TypeOK
  <1>2. JobLinks'
    BY <1>0 DEF TypeOK, JobLinks, Job, Stage, Success
  <1>3. Held'
    BY DEF TypeOK, JobLinks, Held, Holds, Job
  <1>4. Fresh'
    BY DEF TypeOK, Fresh, Held, Holds, Job
  <1>5. Verdict'
    BY DEF TypeOK, JobLinks, Verdict, SettledHasVerdict, Held, Holds, State,
           Success, Result, Job
  <1>6. SavedFirst'
    <2>1. Inserted(job[w].task) # {}
      BY DEF JobLinks
    <2>2. ASSUME NEW v \in Workers
          PROVE  /\ job'[v].task = job[v].task
                 /\ v # w => job'[v].outcome = job[v].outcome
      BY DEF TypeOK, Job
    <2>3. CompletedIsSaved'
      BY <1>0 DEF SavedFirst, CompletedIsSaved
    <2> QED  BY <1>0, <2>1, <2>2, <2>3 DEF SavedFirst
  <1>7. OneRun'
    <2>1. ASSUME NEW v \in Workers
          PROVE  /\ job'[v].task = job[v].task
                 /\ job'[v].connected = job[v].connected
                 /\ v # w => job'[v].stage = job[v].stage
      BY DEF TypeOK, Job
    <2>2. job'[w].stage = "returning"
      BY DEF TypeOK, Job
    <2> QED  BY <1>0, <2>1, <2>2 DEF OneRun, BeforeInsert
  <1>8. Ended'
    BY DEF TypeOK, JobLinks, Held, Holds, Fresh, OneRun, Ended, EndIsKnown,
           BeforeInsert, State, Success, Result, Job
  <1> QED  BY <1>1, <1>2, <1>3, <1>4, <1>5, <1>6, <1>7, <1>8

LEMMA FailStep ==
    ASSUME IInv, NEW w \in Workers, Fail(w)
    PROVE  IInv'
  <1> USE AnalysisAssumption DEF IInv, Fail, InBody, broker, backend
  <1>1. TypeOK'
    <2>1. job[w] \in Job  BY DEF TypeOK
    <2>2. [job[w] EXCEPT !.stage = "returning", !.outcome = "failed"] \in Job
      BY ONLY <2>1 DEF Job, Stage, Success
    <2>3. job' \in [Workers -> Job]
      BY <2>2 DEF TypeOK
    <2> QED  BY <2>3 DEF TypeOK
  <1>2. JobLinks'
    BY DEF TypeOK, JobLinks, Inserted, Row, Job, Stage, Success
  <1>3. Held'
    BY DEF TypeOK, JobLinks, Held, Holds, Job
  <1>4. Fresh'
    BY DEF TypeOK, Fresh, Held, Holds, Job
  <1>5. Verdict'
    BY DEF TypeOK, JobLinks, Verdict, SettledHasVerdict, Held, Holds, State,
           Success, Result, Job
  <1>6. SavedFirst'
    BY DEF TypeOK, JobLinks, SavedFirst, CompletedIsSaved, Inserted, Success,
           Row, Job
  <1>7. OneRun'
    BY DEF TypeOK, JobLinks, Held, Holds, Fresh, OneRun, Inserted,
           BeforeInsert, Row, Job
  <1>8. Ended'
    BY DEF TypeOK, JobLinks, Held, Holds, Fresh, OneRun, Ended, EndIsKnown,
           BeforeInsert, State, Success, Result, Job
  <1> QED  BY <1>1, <1>2, <1>3, <1>4, <1>5, <1>6, <1>7, <1>8

LEMMA ReturnStep ==
    ASSUME IInv, NEW w \in Workers, Return(w)
    PROVE  IInv'
  <1> USE AnalysisAssumption DEF IInv, Return, Store, broker, backend
  <1>1. TypeOK'
    <2>1. job[w] \in Job  BY DEF TypeOK
    <2>2. [job[w] EXCEPT !.stage = "stored"] \in Job
      BY ONLY <2>1 DEF Job, Stage
    <2>3. job' \in [Workers -> Job]
      BY <2>2 DEF TypeOK
    <2>4. job[w].task \in Tasks /\ job[w].outcome \in Result
      <3>1. job[w].outcome # None /\ job[w].task \in Tasks  BY DEF JobLinks
      <3> QED  BY ONLY <2>1, <3>1 DEF Job, Result, Success
    <2>5. result' \in [Tasks -> Result] /\ ttl' \in [Tasks -> 0..ResultTTL]
      BY <2>4 DEF TypeOK
    <2> QED  BY <2>3, <2>5 DEF TypeOK
  <1>2. JobLinks'
    BY DEF TypeOK, JobLinks, Inserted, Row, Job, Stage, Success
  <1>3. Held'
    BY DEF TypeOK, JobLinks, Held, Holds, Job
  <1>4. Fresh'
    BY DEF TypeOK, Fresh, Held, Holds, Job
  <1>5. Verdict'
    BY DEF TypeOK, JobLinks, Verdict, SettledHasVerdict, Held, Holds, State,
           Success, Result, Job
  <1>6. SavedFirst'
    BY DEF TypeOK, JobLinks, SavedFirst, CompletedIsSaved, Inserted, Success,
           Row, Job
  <1>7. OneRun'
    BY DEF TypeOK, JobLinks, Held, Holds, Fresh, OneRun, Inserted,
           BeforeInsert, Row, Job
  <1>8. Ended'
    BY DEF TypeOK, JobLinks, Held, Holds, Fresh, OneRun, Ended, EndIsKnown,
           BeforeInsert, State, Success, Result, Job
  <1> QED  BY <1>1, <1>2, <1>3, <1>4, <1>5, <1>6, <1>7, <1>8

LEMMA AckStep ==
    ASSUME IInv, NEW w \in Workers, Ack(w)
    PROVE  IInv'
  <1> USE AnalysisAssumption DEF IInv, Ack, Acknowledge, Idle, broker, backend
  <1>1. TypeOK'
    <2>1. job' \in [Workers -> Job]
      <3>1. Idle \in Job  BY ONLY AnalysisAssumption DEF Idle, Job, Stage
      <3> HIDE DEF Idle
      <3> QED  BY <3>1 DEF TypeOK
    <2>2. job[w].task \in Tasks  BY DEF JobLinks
    <2>3. /\ message' \in [Tasks -> {"unsent", "queued", "unacked", "settled"}]
          /\ hidden' \in [Tasks -> 0..Visibility]
      BY <2>2 DEF TypeOK
    <2>4. result' \in [Tasks -> Result] /\ ttl' \in [Tasks -> 0..ResultTTL]
      BY <2>2 DEF TypeOK, Result
    <2> QED  BY <2>1, <2>3, <2>4 DEF TypeOK
  <1>2. JobLinks'
    BY DEF TypeOK, JobLinks, Inserted, Row, Job, Stage, Success
  <1>3. Held'
    BY DEF TypeOK, JobLinks, Held, Holds, Job
  <1>4. Fresh'
    BY DEF TypeOK, Fresh, Held, Holds, Job
  <1>5. Verdict'
    BY DEF TypeOK, JobLinks, Verdict, SettledHasVerdict, Held, Holds, State,
           Success, Result, Job
  <1>6. SavedFirst'
    BY DEF TypeOK, JobLinks, SavedFirst, CompletedIsSaved, Inserted, Success,
           Row, Job
  <1>7. OneRun'
    BY DEF TypeOK, JobLinks, Held, Holds, Fresh, OneRun, Inserted,
           BeforeInsert, Row, Job
  <1>8. Ended'
    BY DEF TypeOK, JobLinks, Held, Holds, Fresh, OneRun, Ended, EndIsKnown,
           BeforeInsert, State, Success, Result, Job
  <1> QED  BY <1>1, <1>2, <1>3, <1>4, <1>5, <1>6, <1>7, <1>8

LEMMA CrashStep ==
    ASSUME IInv, NEW w \in Workers, Crash(w)
    PROVE  IInv'
  <1> USE AnalysisAssumption DEF IInv, Crash, Idle, broker, backend
  <1>1. TypeOK'
    BY DEF TypeOK, Row, Result, Success, Job, Stage
  <1>2. JobLinks'
    BY DEF TypeOK, JobLinks, Inserted, Row, Job, Stage, Success
  <1>3. Held'
    BY DEF TypeOK, JobLinks, Held, Holds, Job
  <1>4. Fresh'
    BY DEF TypeOK, Fresh, Held, Holds, Job
  <1>5. Verdict'
    BY DEF TypeOK, JobLinks, Verdict, SettledHasVerdict, Held, Holds, State,
           Success, Result, Job
  <1>6. SavedFirst'
    BY DEF TypeOK, JobLinks, SavedFirst, CompletedIsSaved, Inserted, Success,
           Row, Job
  <1>7. OneRun'
    BY DEF TypeOK, JobLinks, Held, Holds, Fresh, OneRun, Inserted,
           BeforeInsert, Row, Job
  <1>8. Ended'
    BY DEF TypeOK, JobLinks, Held, Holds, Fresh, OneRun, Ended, EndIsKnown,
           BeforeInsert, State, Success, Result, Job
  <1> QED  BY <1>1, <1>2, <1>3, <1>4, <1>5, <1>6, <1>7, <1>8

LEMMA KillProcessStep ==
    ASSUME IInv, NEW w \in Workers, KillProcess(w)
    PROVE  IInv'
  <1> USE AnalysisAssumption DEF IInv, KillProcess, Acknowledge, InBody, Idle,
        Store, broker, backend
  <1>1. TypeOK'
    <2>1. job' \in [Workers -> Job]
      <3>1. Idle \in Job  BY ONLY AnalysisAssumption DEF Idle, Job, Stage
      <3> HIDE DEF Idle
      <3> QED  BY <3>1 DEF TypeOK
    <2>2. job[w].task \in Tasks  BY DEF JobLinks
    <2>3. /\ message' \in [Tasks -> {"unsent", "queued", "unacked", "settled"}]
          /\ hidden' \in [Tasks -> 0..Visibility]
      BY <2>2 DEF TypeOK
    <2>4. result' \in [Tasks -> Result] /\ ttl' \in [Tasks -> 0..ResultTTL]
      BY <2>2 DEF TypeOK, Result
    <2> QED  BY <2>1, <2>3, <2>4 DEF TypeOK
  <1>2. JobLinks'
    BY DEF TypeOK, JobLinks, Inserted, Row, Job, Stage, Success
  <1>3. Held'
    BY DEF TypeOK, JobLinks, Held, Holds, Job
  <1>4. Fresh'
    BY DEF TypeOK, Fresh, Held, Holds, Job
  <1>5. Verdict'
    BY DEF TypeOK, JobLinks, Verdict, SettledHasVerdict, Held, Holds, State,
           Success, Result, Job
  <1>6. SavedFirst'
    BY DEF TypeOK, JobLinks, SavedFirst, CompletedIsSaved, Inserted, Success,
           Row, Job
  <1>7. OneRun'
    BY DEF TypeOK, JobLinks, Held, Holds, Fresh, OneRun, Inserted,
           BeforeInsert, Row, Job
  <1>8. Ended'
    BY DEF TypeOK, JobLinks, Held, Holds, Fresh, OneRun, Ended, EndIsKnown,
           BeforeInsert, State, Success, Result, Job
  <1> QED  BY <1>1, <1>2, <1>3, <1>4, <1>5, <1>6, <1>7, <1>8

LEMMA LoseConnectionStep ==
    ASSUME IInv, NEW w \in Workers, LoseConnection(w)
    PROVE  IInv'
  <1> USE AnalysisAssumption DEF IInv, LoseConnection, Holds, broker, backend
  <1>1. TypeOK'
    <2>1. job[w] \in Job  BY DEF TypeOK
    <2>2. [job[w] EXCEPT !.connected = FALSE] \in Job
      BY ONLY <2>1 DEF Job
    <2>3. job' \in [Workers -> Job]
      BY <2>2 DEF TypeOK
    <2>4. message' \in [Tasks -> {"unsent", "queued", "unacked", "settled"}]
      BY DEF TypeOK
    <2>5. losses' \in 0..MaxLosses
      BY DEF TypeOK
    <2> QED  BY <2>3, <2>4, <2>5 DEF TypeOK
  <1>2. JobLinks'
    BY DEF TypeOK, JobLinks, Inserted, Row, Job, Stage, Success
  <1>3. Held'
    BY DEF TypeOK, JobLinks, Held, Holds, Job
  <1>4. Fresh'
    BY DEF TypeOK, Fresh, Held, Holds, Job
  <1>5. Verdict'
    BY DEF TypeOK, JobLinks, Verdict, SettledHasVerdict, Held, Holds, State,
           Success, Result, Job
  <1>6. SavedFirst'
    BY DEF TypeOK, JobLinks, SavedFirst, CompletedIsSaved, Inserted, Success,
           Row, Job
  <1>7. OneRun'
    BY DEF TypeOK, JobLinks, Held, Holds, Fresh, OneRun, Inserted,
           BeforeInsert, Row, Job
  <1>8. Ended'
    BY DEF TypeOK, JobLinks, Held, Holds, Fresh, OneRun, Ended, EndIsKnown,
           BeforeInsert, State, Success, Result, Job
  <1> QED  BY <1>1, <1>2, <1>3, <1>4, <1>5, <1>6, <1>7, <1>8

LEMMA RestoreStep ==
    ASSUME IInv, NEW t \in Tasks, Restore(t)
    PROVE  IInv'
  <1> USE AnalysisAssumption DEF IInv, Restore, broker, backend
  <1>1. TypeOK'
    BY DEF TypeOK, Row, Result, Success, Job, Stage
  <1>2. JobLinks'
    BY DEF TypeOK, JobLinks, Inserted, Row, Job, Stage, Success
  <1>3. Held'
    BY DEF TypeOK, JobLinks, Held, Holds, Job
  <1>4. Fresh'
    BY DEF TypeOK, Fresh, Held, Holds, Job
  <1>5. Verdict'
    BY DEF TypeOK, JobLinks, Verdict, SettledHasVerdict, Held, Holds, State,
           Success, Result, Job
  <1>6. SavedFirst'
    BY DEF TypeOK, JobLinks, SavedFirst, CompletedIsSaved, Inserted, Success,
           Row, Job
  <1>7. OneRun'
    BY DEF TypeOK, JobLinks, Held, Holds, Fresh, OneRun, Inserted,
           BeforeInsert, Row, Job
  <1>8. Ended'
    BY DEF TypeOK, JobLinks, Held, Holds, Fresh, OneRun, Ended, EndIsKnown,
           BeforeInsert, State, Success, Result, Job
  <1> QED  BY <1>1, <1>2, <1>3, <1>4, <1>5, <1>6, <1>7, <1>8

LEMMA TickStep ==
    ASSUME IInv, Tick
    PROVE  IInv'
  <1> USE AnalysisAssumption DEF IInv, broker, backend
  <1>1. TypeOK'
    <2>1. expires' \in [Tasks -> 0..Expires]
      BY CountedDown DEF TypeOK, Tick
    <2>2. hidden' \in [Tasks -> 0..Visibility]
      BY CountedDown DEF TypeOK, Tick
    <2>3. ttl' \in [Tasks -> 0..ResultTTL]
      BY CountedDown DEF TypeOK, Tick
    <2> QED  BY <2>1, <2>2, <2>3 DEF TypeOK, Tick
  <1> USE DEF Tick, CountDown
  <1>2. JobLinks'
    BY DEF TypeOK, JobLinks, Inserted, Row, Job, Stage, Success
  <1>3. Held'
    BY DEF TypeOK, JobLinks, Held, Holds, Job
  <1>4. Fresh'
    BY DEF TypeOK, Fresh, Held, Holds, Job
  <1>5. Verdict'
    BY DEF TypeOK, JobLinks, Verdict, SettledHasVerdict, Held, Holds, State,
           Success, Result, Job
  <1>6. SavedFirst'
    BY DEF TypeOK, JobLinks, SavedFirst, CompletedIsSaved, Inserted, Success,
           Row, Job
  <1>7. OneRun'
    BY DEF TypeOK, JobLinks, Held, Holds, Fresh, OneRun, Inserted,
           BeforeInsert, Row, Job
  <1>8. Ended'
    BY DEF TypeOK, JobLinks, Held, Holds, Fresh, OneRun, Ended, EndIsKnown,
           BeforeInsert, State, Success, Result, Job
  <1> QED  BY <1>1, <1>2, <1>3, <1>4, <1>5, <1>6, <1>7, <1>8

LEMMA PollStep ==
    ASSUME IInv, NEW t \in Tasks, Poll(t)
    PROVE  IInv'
  <1> USE AnalysisAssumption DEF IInv, Poll, Polling, Status, RowsOf, Rows,
        broker, backend
  <1>1. TypeOK'
    BY DEF TypeOK, Row, Result, Success, Job, Stage
  <1>2. JobLinks'
    BY DEF TypeOK, JobLinks, Inserted, Row, Job, Stage, Success
  <1>3. Held'
    BY DEF TypeOK, JobLinks, Held, Holds, Job
  <1>4. Fresh'
    BY DEF TypeOK, Fresh, Held, Holds, Job
  <1>5. Verdict'
    BY DEF TypeOK, JobLinks, Verdict, SettledHasVerdict, Held, Holds, State,
           Success, Result, Job
  <1>6. SavedFirst'
    BY DEF TypeOK, JobLinks, SavedFirst, CompletedIsSaved, Inserted, Success,
           Row, Job
  <1>7. OneRun'
    BY DEF TypeOK, JobLinks, Held, Holds, Fresh, OneRun, Inserted,
           BeforeInsert, Row, Job
  <1>8. Ended'
    BY DEF TypeOK, JobLinks, Held, Holds, Fresh, OneRun, Ended, EndIsKnown,
           BeforeInsert, State, Success, Result, Job
  <1> QED  BY <1>1, <1>2, <1>3, <1>4, <1>5, <1>6, <1>7, <1>8

LEMMA DeleteStep ==
    ASSUME IInv, NEW a \in Ids, Delete(a)
    PROVE  IInv'
  <1> USE AnalysisAssumption DEF IInv, Delete, Rows, broker, backend
  <1>0. /\ analysis' \in [Ids -> Row \cup {None}]
        /\ \A t : Inserted(t)' = Inserted(t)
    BY RowKept DEF TypeOK
  <1>1. TypeOK'
    BY <1>0 DEF TypeOK
  <1>2. JobLinks'
    BY <1>0 DEF JobLinks
  <1>3. Held'
    BY DEF TypeOK, JobLinks, Held, Holds, Job
  <1>4. Fresh'
    BY DEF TypeOK, Fresh, Held, Holds, Job
  <1>5. Verdict'
    BY DEF TypeOK, JobLinks, Verdict, SettledHasVerdict, Held, Holds, State,
           Success, Result, Job
  <1>6. SavedFirst'
    BY <1>0 DEF SavedFirst, CompletedIsSaved
  <1>7. OneRun'
    BY <1>0 DEF OneRun
  <1>8. Ended'
    BY DEF TypeOK, JobLinks, Held, Holds, Fresh, OneRun, Ended, EndIsKnown,
           BeforeInsert, State, Success, Result, Job
  <1> QED  BY <1>1, <1>2, <1>3, <1>4, <1>5, <1>6, <1>7, <1>8

-----------------------------------------------------------------------------
LEMMA StutterStep ==
    ASSUME IInv, UNCHANGED vars
    PROVE  IInv'
  <1> USE DEF IInv, vars, broker, backend
  <1>1. TypeOK' /\ JobLinks'
    BY DEF TypeOK, JobLinks, Inserted
  <1>2. Held' /\ Fresh' /\ Verdict'
    BY DEF Held, Holds, Fresh, Verdict, SettledHasVerdict
  <1>3. SavedFirst' /\ OneRun' /\ Ended'
    BY DEF SavedFirst, CompletedIsSaved, OneRun, Ended, EndIsKnown, Inserted
  <1> QED  BY <1>1, <1>2, <1>3

LEMMA NextIInv == IInv /\ [Next]_vars => IInv'
  <1> SUFFICES ASSUME IInv, [Next]_vars PROVE IInv'  OBVIOUS
  <1>1. ASSUME NEW t \in Tasks, Submit(t) \/ Restore(t) \/ Poll(t) PROVE IInv'
    BY <1>1, SubmitStep, RestoreStep, PollStep
  <1>2. ASSUME NEW w \in Workers, NEW t \in Tasks, Start(w, t) \/ Revoke(w, t)
        PROVE  IInv'
    BY <1>2, StartStep, RevokeStep
  <1>3. ASSUME NEW w \in Workers, Work(w) PROVE IInv'
    BY <1>3, AnalyseStep, CheckExistingStep, SaveAnalysisStep, SaveClausesStep,
       FailStep, ReturnStep, AckStep DEF Work
  <1>4. ASSUME NEW w \in Workers, Crash(w) \/ KillProcess(w) \/ LoseConnection(w)
        PROVE  IInv'
    BY <1>4, CrashStep, KillProcessStep, LoseConnectionStep
  <1>5. ASSUME NEW a \in Ids, Delete(a) PROVE IInv'
    BY <1>5, DeleteStep
  <1>6. CASE Tick
    BY <1>6, TickStep
  <1>7. CASE UNCHANGED vars
    BY <1>7, StutterStep
  <1> QED  BY <1>1, <1>2, <1>3, <1>4, <1>5, <1>6, <1>7 DEF Next

LEMMA Invariance == Spec => []IInv
  BY InitIInv, NextIInv, PTL DEF Spec

\* Every variable keeps its type, whatever is delivered, lost or killed.
THEOREM TypeCorrect == Spec => []TypeOK
  <1>1. IInv => TypeOK  BY DEF IInv
  <1> QED  BY <1>1, Invariance, PTL

\* A document is analysed (and paid for) at most once more than busy workers
\* lost their connection: expires=120 is below the visibility timeout, so no
\* message that a dead worker leaves behind is run again.
THEOREM PaidOnce == Spec => []RunsBounded
  <1>1. IInv => RunsBounded  BY DEF IInv, Fresh, RunsBounded
  <1> QED  BY <1>1, Invariance, PTL

\* acks_late and task_acks_on_failure_or_timeout: no message leaves the broker
\* before a final state of its task was stored.
THEOREM VerdictBeforeAck == Spec => []SettledHasVerdict
  <1>1. IInv => SettledHasVerdict  BY DEF IInv, Verdict
  <1> QED  BY <1>1, Invariance, PTL

\* "completed" is stored only after a run of that very task inserted a row.
THEOREM CompletedAfterSave == Spec => []CompletedIsSaved
  <1>1. IInv => CompletedIsSaved  BY DEF IInv, SavedFirst
  <1> QED  BY <1>1, Invariance, PTL

\* The check before the insert suffices for one analysis per task while every
\* connection to the broker is intact, however workers and processes die.
THEOREM OneAnalysisPerTask == Spec => []OneAnalysis
  <1>1. ASSUME IInv, losses = 0, NEW t \in Tasks
        PROVE  Cardinality(Inserted(t)) <= 1
    <2>1. CASE Inserted(t) = {}
      BY <2>1, FS_EmptySet
    <2>2. CASE Inserted(t) # {}
      <3>1. PICK a : a \in Inserted(t)
        BY <2>2
      <3>2. Inserted(t) = {a}
        BY <1>1, <3>1 DEF IInv, OneRun
      <3>3. Cardinality({a}) = 1
        BY FS_Singleton
      <3> QED  BY <3>2, <3>3
    <2> QED  BY <2>1, <2>2
  <1>2. IInv => OneAnalysis  BY <1>1 DEF OneAnalysis
  <1> QED  BY <1>2, Invariance, PTL

\* The status page stops asking at "failed"; nothing is inserted after that
\* while every connection is intact.
THEOREM FailureIsFinal == Spec => FailedIsFinal
  <1> DEFINE Final == losses' = 0 => \A t \in Tasks :
                         told[t] = "failed" => Inserted(t)' = Inserted(t)
  <1>1. IInv /\ IInv' /\ [Next]_vars => [Final]_vars
    <2> SUFFICES ASSUME IInv, Next, losses' = 0,
                        NEW t \in Tasks, told[t] = "failed"
                 PROVE  Inserted(t)' = Inserted(t)
      OBVIOUS
    <2>0. losses' = losses \/ losses' = losses + 1
      BY DEF Next, Work, IInv, TypeOK, Submit, Restore, Poll, Start, Revoke,
             Analyse, CheckExisting, SaveAnalysis, SaveClauses, Fail, Return,
             Ack, Crash, KillProcess, LoseConnection, Delete, Tick
    <2>1. losses = 0
      BY <2>0 DEF IInv, TypeOK
    <2>2. CASE UNCHANGED analysis
      BY <2>2 DEF Inserted
    <2>3. ASSUME NEW w \in Workers, SaveAnalysis(w)
          PROVE  Inserted(t)' = Inserted(t)
      <3>1. job[w].task # t
        BY <2>1, <2>3 DEF IInv, Ended, EndIsKnown, BeforeInsert, SaveAnalysis
      <3> QED  BY <2>3, <3>1 DEF SaveAnalysis, Inserted, IInv, TypeOK,
            JobLinks, Row
    <2>4. ASSUME NEW w \in Workers, SaveClauses(w)
          PROVE  Inserted(t)' = Inserted(t)
      BY <2>4, RowKept DEF SaveClauses, Rows, IInv, TypeOK
    <2>5. ASSUME NEW a \in Ids, Delete(a)
          PROVE  Inserted(t)' = Inserted(t)
      BY <2>5, RowKept DEF Delete, Rows, IInv, TypeOK
    <2> QED
      BY <2>2, <2>3, <2>4, <2>5
      DEF Next, Work, Submit, Restore, Poll, Start, Revoke, Analyse,
          CheckExisting, Fail, Return, Ack, Crash, KillProcess, LoseConnection, Tick
  <1> QED  BY <1>1, Invariance, NextIInv, PTL DEF Spec, FailedIsFinal
-----------------------------------------------------------------------------
\* The runs of a task that have still to insert.
Pending(t) == {w \in Workers : job[w].stage \in BeforeInsert /\ job[w].task = t}

\* Each insert, made or to come, is paid for by a run of its own.
Covered(t) ==
    /\ IsFiniteSet(Inserted(t)) /\ IsFiniteSet(Pending(t))
    /\ Cardinality(Inserted(t)) + Cardinality(Pending(t)) <= runs[t]

RunsPay == \A t \in Tasks : Covered(t)

LEMMA GrownByOne ==
    ASSUME NEW S, IsFiniteSet(S), NEW x
    PROVE  /\ IsFiniteSet(S \cup {x})
           /\ Cardinality(S \cup {x}) <= Cardinality(S) + 1
  <1>1. IsFiniteSet(S \cup {x}) /\ Cardinality(S) \in Nat
    BY FS_AddElement, FS_CardinalityType
  <1>2. \/ Cardinality(S \cup {x}) = Cardinality(S)
        \/ Cardinality(S \cup {x}) = Cardinality(S) + 1
    BY FS_AddElement
  <1> QED  BY <1>1, <1>2

\* A task's runs begin with Start only, which makes one more pending, and a
\* pending run ends with at most one insert.
LEMMA CoverMoves ==
    ASSUME TypeOK, TypeOK', RunsPay, NEW t \in Tasks,
           \/ /\ Inserted(t)' = Inserted(t)
              /\ Pending(t)' \subseteq Pending(t)
              /\ runs'[t] = runs[t]
           \/ /\ Inserted(t)' = Inserted(t)
              /\ \E w \in Workers : Pending(t)' = Pending(t) \cup {w}
              /\ runs'[t] = runs[t] + 1
           \/ /\ \E a \in Ids : Inserted(t)' = Inserted(t) \cup {a}
              /\ \E w \in Pending(t) : Pending(t)' = Pending(t) \ {w}
              /\ runs'[t] = runs[t]
    PROVE  Covered(t)'
  <1>1. PICK I, J, P, Q :
          I = Inserted(t) /\ J = Inserted(t)' /\ P = Pending(t) /\ Q = Pending(t)'
    OBVIOUS
  <1>2. /\ IsFiniteSet(I) /\ IsFiniteSet(P)
        /\ Cardinality(I) \in Nat /\ Cardinality(P) \in Nat
        /\ Cardinality(I) + Cardinality(P) <= runs[t]
    BY <1>1, FS_CardinalityType DEF RunsPay, Covered
  <1>3. runs[t] \in Nat
    BY DEF TypeOK
  <1>4. CASE J = I /\ Q \subseteq P /\ runs'[t] = runs[t]
    <2>1. IsFiniteSet(Q) /\ Cardinality(Q) <= Cardinality(P)
      BY <1>2, <1>4, FS_Subset
    <2>2. Cardinality(Q) \in Nat
      BY <2>1, FS_CardinalityType
    <2>3. Cardinality(J) + Cardinality(Q) <= runs'[t]
      BY <1>2, <1>3, <1>4, <2>1, <2>2
    <2> QED  BY <1>1, <1>2, <1>4, <2>1, <2>3 DEF Covered
  <1>5. ASSUME NEW w, J = I, Q = P \cup {w}, runs'[t] = runs[t] + 1
        PROVE  Covered(t)'
    <2>1. IsFiniteSet(Q) /\ Cardinality(Q) <= Cardinality(P) + 1
      BY <1>2, <1>5, GrownByOne
    <2>2. Cardinality(Q) \in Nat
      BY <2>1, FS_CardinalityType
    <2>3. Cardinality(J) + Cardinality(Q) <= runs'[t]
      BY <1>2, <1>3, <1>5, <2>1, <2>2
    <2> QED  BY <1>1, <1>2, <1>5, <2>1, <2>3 DEF Covered
  <1>6. ASSUME NEW a, NEW w \in P, J = I \cup {a}, Q = P \ {w}, runs'[t] = runs[t]
        PROVE  Covered(t)'
    <2>1. IsFiniteSet(J) /\ Cardinality(J) <= Cardinality(I) + 1
      BY <1>2, <1>6, GrownByOne
    <2>2. IsFiniteSet(Q) /\ Cardinality(Q) = Cardinality(P) - 1
      BY <1>2, <1>6, FS_RemoveElement
    <2>3. Cardinality(J) \in Nat /\ Cardinality(Q) \in Nat
      BY <2>1, <2>2, FS_CardinalityType
    <2>4. Cardinality(J) + Cardinality(Q) <= runs'[t]
      BY <1>2, <1>3, <1>6, <2>1, <2>2, <2>3
    <2> QED  BY <1>1, <2>1, <2>2, <2>4 DEF Covered
  <1> QED  BY <1>1, <1>4, <1>5, <1>6

\* What a process works on stays the same until it is idle, and only Start
\* puts it before its insert.
LEMMA TaskKept ==
    ASSUME TypeOK, NEW w \in Workers,
           \/ Analyse(w) \/ CheckExisting(w) \/ SaveClauses(w) \/ Fail(w)
           \/ Return(w) \/ LoseConnection(w)
    PROVE  /\ job[w].stage # "idle"
           /\ \A v \in Workers : v # w => job'[v] = job[v]
           /\ job'[w].task = job[w].task
           /\ job'[w].stage \in BeforeInsert => job[w].stage \in BeforeInsert
  <1>1. /\ job[w].stage # "idle" /\ job[w] \in Job
        /\ \A v \in Workers : v # w => job'[v] = job[v]
    BY DEF Analyse, CheckExisting, SaveClauses, Fail, Return, LoseConnection,
       InBody, Holds, TypeOK
  <1>2. CASE Analyse(w) \/ Return(w)
    <2>1. PICK s \in {"analysed", "stored"} :
            /\ job'[w] = [job[w] EXCEPT !.stage = s]
            /\ s = "analysed" => job[w].stage = "analysing"
      BY <1>2 DEF Analyse, Return, TypeOK
    <2>2. job'[w].stage = s /\ job'[w].task = job[w].task
      BY ONLY <1>1, <2>1 DEF Job
    <2> QED  BY <1>1, <2>1, <2>2 DEF BeforeInsert
  <1>3. CASE SaveClauses(w) \/ Fail(w)
    <2>1. PICK o \in {"completed", "failed"} :
            job'[w] = [job[w] EXCEPT !.stage = "returning", !.outcome = o]
      BY <1>3 DEF SaveClauses, Fail, TypeOK
    <2>2. job'[w].stage = "returning" /\ job'[w].task = job[w].task
      BY ONLY <1>1, <2>1 DEF Job
    <2> QED  BY <1>1, <2>2 DEF BeforeInsert
  <1>4. CASE CheckExisting(w)
    <2>1. /\ job[w].stage = "analysed"
          /\ \/ job'[w] = [job[w] EXCEPT !.stage = "returning",
                                         !.outcome = "completed"]
             \/ job'[w] = [job[w] EXCEPT !.stage = "inserting"]
      BY <1>4 DEF CheckExisting, TypeOK
    <2>2. job'[w].task = job[w].task
      BY ONLY <1>1, <2>1 DEF Job
    <2> QED  BY <1>1, <2>1, <2>2 DEF BeforeInsert
  <1>5. CASE LoseConnection(w)
    <2>1. job'[w] = [job[w] EXCEPT !.connected = FALSE]
      BY <1>5 DEF LoseConnection, TypeOK
    <2>2. job'[w].stage = job[w].stage /\ job'[w].task = job[w].task
      BY ONLY <1>1, <2>1 DEF Job
    <2> QED  BY <1>1, <2>2
  <1> QED  BY <1>2, <1>3, <1>4, <1>5

LEMMA CoverStep ==
    ASSUME IInv, IInv', RunsPay, [Next]_vars
    PROVE  RunsPay'
  <1> SUFFICES ASSUME NEW t \in Tasks PROVE Covered(t)'
    BY DEF RunsPay
  <1> USE DEF IInv, BeforeInsert
  <1> DEFINE Alike == /\ Inserted(t)' = Inserted(t)
                      /\ Pending(t)' \subseteq Pending(t)
                      /\ runs'[t] = runs[t]
  <1>0. Alike => Covered(t)'
    BY CoverMoves
  <1>1. CASE UNCHANGED <<analysis, job, runs>>
    BY <1>0, <1>1 DEF Inserted, Pending
  <1>2. ASSUME NEW w \in Workers, NEW u \in Tasks, Start(w, u)
        PROVE  Covered(t)'
    <2>1. job' = [job EXCEPT ![w] = [Idle EXCEPT !.stage = "analysing", !.task = u]]
          /\ runs' = [runs EXCEPT ![u] = @ + 1]
          /\ job[w].stage = "idle" /\ analysis' = analysis
      BY <1>2 DEF Start
    <2>2. /\ \A v \in Workers : v # w => job'[v] = job[v]
          /\ job'[w].stage = "analysing" /\ job'[w].task = u
      BY <2>1 DEF Idle, TypeOK
    <2>3. Inserted(t)' = Inserted(t)
      BY <2>1 DEF Inserted
    <2>4. CASE t = u
      <3>1. Pending(t)' = Pending(t) \cup {w}
        BY <2>2, <2>4 DEF Pending
      <3>2. runs'[t] = runs[t] + 1
        BY <2>1, <2>4 DEF TypeOK
      <3> QED  BY <2>3, <3>1, <3>2, CoverMoves
    <2>5. CASE t # u
      BY <1>0, <2>1, <2>2, <2>3, <2>5 DEF Pending, TypeOK
    <2> QED  BY <2>4, <2>5
  <1>3. ASSUME NEW w \in Workers,
               \/ Analyse(w) \/ CheckExisting(w) \/ Fail(w) \/ Return(w)
               \/ Ack(w) \/ Crash(w) \/ KillProcess(w) \/ LoseConnection(w)
        PROVE  Covered(t)'
    <2>1. analysis' = analysis /\ runs' = runs
      BY <1>3 DEF Analyse, CheckExisting, Fail, Return, Ack, Crash, KillProcess,
            LoseConnection
    <2>2. \A v \in Workers : v # w => job'[v] = job[v]
      BY <1>3, TaskKept DEF Ack, Crash, KillProcess, TypeOK
    <2>3. job'[w].stage \in BeforeInsert =>
             job[w].stage \in BeforeInsert /\ job'[w].task = job[w].task
      BY <1>3, TaskKept DEF Ack, Crash, KillProcess, TypeOK, Idle
    <2> QED  BY <1>0, <2>1, <2>2, <2>3 DEF Inserted, Pending
  <1>4. ASSUME NEW w \in Workers, SaveAnalysis(w) PROVE Covered(t)'
    <2>1. PICK u \in Tasks : u = job[w].task
      BY <1>4 DEF SaveAnalysis, JobLinks
    <2>2. PICK a \in Ids :
            /\ analysis[a] = None
            /\ analysis' = [analysis EXCEPT ![a] =
                              [task |-> u, clauses |-> FALSE, deleted |-> FALSE]]
            /\ job' = [job EXCEPT ![w] = [@ EXCEPT !.stage = "saved", !.id = a]]
      BY <1>4, <2>1 DEF SaveAnalysis
    <2>3. /\ t # u => Inserted(t)' = Inserted(t)
          /\ Inserted(u)' = Inserted(u) \cup {a}
      BY <2>2, RowInserted DEF TypeOK
    <2>4. /\ \A v \in Workers : v # w => job'[v] = job[v]
          /\ job'[w].stage = "saved"
          /\ job[w].stage = "inserting" /\ runs' = runs
      BY <1>4, <2>2 DEF SaveAnalysis, TypeOK, Job
    <2>5. CASE t = u
      <3>1. w \in Pending(t) /\ Pending(t)' = Pending(t) \ {w}
        BY <2>1, <2>4, <2>5 DEF Pending
      <3> QED  BY <2>3, <2>4, <2>5, <3>1, CoverMoves
    <2>6. CASE t # u
      BY <1>0, <2>3, <2>4, <2>6 DEF Pending
    <2> QED  BY <2>5, <2>6
  <1>5. ASSUME NEW w \in Workers, SaveClauses(w) PROVE Covered(t)'
    <2>1. Inserted(t)' = Inserted(t)
      BY <1>5, RowKept DEF SaveClauses, Rows, TypeOK
    <2>2. /\ \A v \in Workers : v # w => job'[v] = job[v]
          /\ job'[w].stage = "returning" /\ runs' = runs
      BY <1>5 DEF SaveClauses, TypeOK, Job
    <2> QED  BY <1>0, <2>1, <2>2 DEF Pending
  <1>6. ASSUME NEW a \in Ids, Delete(a) PROVE Covered(t)'
    <2>1. Inserted(t)' = Inserted(t)
      BY <1>6, RowKept DEF Delete, Rows, TypeOK
    <2> QED  BY <1>0, <1>6, <2>1 DEF Pending, Delete
  <1>7. ASSUME NEW u \in Tasks, Submit(u) \/ Restore(u) \/ Poll(u)
        PROVE  UNCHANGED <<analysis, job, runs>>
    BY <1>7 DEF Submit, Restore, Poll
  <1>8. ASSUME NEW w \in Workers, NEW u \in Tasks, Revoke(w, u)
        PROVE  UNCHANGED <<analysis, job, runs>>
    BY <1>8 DEF Revoke
  <1>9. Tick \/ UNCHANGED vars => UNCHANGED <<analysis, job, runs>>
    BY DEF Tick, vars
  <1> HIDE DEF Alike, IInv
  <1> QED
    BY <1>1, <1>2, <1>3, <1>4, <1>5, <1>6, <1>7, <1>8, <1>9 DEF Next, Work

LEMMA CoverInvariance == Spec => []RunsPay
  <1>1. Init => RunsPay
    <2> SUFFICES ASSUME Init, NEW t \in Tasks PROVE Covered(t)
      BY DEF RunsPay
    <2>1. Inserted(t) = {} /\ Pending(t) = {} /\ runs[t] = 0
      BY DEF Init, Inserted, Pending, Idle, BeforeInsert
    <2> QED  BY <2>1, FS_EmptySet DEF Covered
  <1>2. IInv /\ IInv' /\ RunsPay /\ [Next]_vars => RunsPay'
    BY CoverStep
  <1> QED  BY <1>1, <1>2, Invariance, PTL DEF Spec

\* A document has at most one analysis more than busy workers lost their
\* connection.
SavedBounded == \A t \in Tasks : Cardinality(Inserted(t)) <= 1 + losses

\* The check before the insert loses to a second delivery at most once per
\* lost connection: each copy of an analysis in the table was made by a run of
\* its own, and expires=120 bounds the runs.
THEOREM CopiesBounded == Spec => []SavedBounded
  <1>1. ASSUME IInv, RunsPay, NEW t \in Tasks
        PROVE  Cardinality(Inserted(t)) <= 1 + losses
    <2>1. /\ Cardinality(Inserted(t)) \in Nat /\ Cardinality(Pending(t)) \in Nat
          /\ Cardinality(Inserted(t)) + Cardinality(Pending(t)) <= runs[t]
      BY <1>1, FS_CardinalityType DEF RunsPay, Covered
    <2>2. runs[t] \in Nat /\ losses \in Nat /\ runs[t] <= 1 + losses
      BY <1>1, AnalysisAssumption DEF IInv, TypeOK, Fresh
    <2> QED  BY <2>1, <2>2
  <1>2. IInv /\ RunsPay => SavedBounded
    BY <1>1 DEF SavedBounded
  <1> QED  BY <1>2, Invariance, CoverInvariance, PTL
-----------------------------------------------------------------------------
(***************************************************************************)
(* The refinement of AnalysisJob.                                          *)
(***************************************************************************)
\* Whatever a process works on was submitted.
Sent == \A w \in Workers :
    job[w].stage # "idle" => message[job[w].task] # "unsent"

LEMMA SentInvariance == Spec => []Sent
  <1>1. Init => Sent
    BY DEF Init, Sent, Idle
  <1>2. IInv /\ Sent /\ [Next]_vars => Sent'
    <2> SUFFICES ASSUME IInv, Sent, [Next]_vars PROVE Sent'
      OBVIOUS
    <2> USE DEF IInv, broker
    <2>1. ASSUME NEW w \in Workers, NEW t \in Tasks, Start(w, t) PROVE Sent'
      BY <2>1 DEF Start, Sent, Idle, TypeOK, JobLinks
    <2>2. \A t \in Tasks : message[t] # "unsent" => message'[t] # "unsent"
      BY DEF Next, Work, Submit, Restore, Poll, Start, Revoke, Analyse,
         CheckExisting, SaveAnalysis, SaveClauses, Fail, Return, Ack, Acknowledge,
         Crash, KillProcess, LoseConnection, Delete, Tick, vars, TypeOK
    <2>3. ASSUME \A w \in Workers : job'[w].stage # "idle" =>
                    job[w].stage # "idle" /\ job'[w].task = job[w].task
          PROVE  Sent'
      BY <2>2, <2>3 DEF Sent, JobLinks
    <2>4. ASSUME NEW w \in Workers,
                 \/ Analyse(w) \/ CheckExisting(w) \/ SaveClauses(w) \/ Fail(w)
                 \/ Return(w) \/ LoseConnection(w)
          PROVE  Sent'
      BY <2>3, <2>4, TaskKept
    <2>5. ASSUME NEW w \in Workers, SaveAnalysis(w) PROVE Sent'
      <3>1. PICK a \in Ids :
              job' = [job EXCEPT ![w] = [@ EXCEPT !.stage = "saved", !.id = a]]
        BY <2>5 DEF SaveAnalysis
      <3>2. job[w].stage # "idle" /\ job[w] \in Job
        BY <2>5 DEF SaveAnalysis, TypeOK
      <3>3. /\ \A v \in Workers : v # w => job'[v] = job[v]
            /\ job'[w].task = job[w].task
        BY <3>1, <3>2 DEF TypeOK, Job
      <3> QED  BY <2>3, <3>2, <3>3
    <2>6. ASSUME NEW w \in Workers, Ack(w) \/ Crash(w) \/ KillProcess(w)
          PROVE  Sent'
      BY <2>3, <2>6 DEF Ack, Crash, KillProcess, Idle, TypeOK
    <2>7. job' = job => Sent'
      BY <2>3
    <2>8. \A t \in Tasks : Submit(t) \/ Restore(t) \/ Poll(t) => job' = job
      BY DEF Submit, Restore, Poll
    <2>9. /\ \A w \in Workers, t \in Tasks : Revoke(w, t) => job' = job
          /\ \A a \in Ids : Delete(a) => job' = job
          /\ Tick \/ UNCHANGED vars => job' = job
      BY DEF Revoke, Delete, Tick, vars
    <2> QED
      BY <2>1, <2>4, <2>5, <2>6, <2>7, <2>8, <2>9 DEF Next, Work
  <1> QED  BY <1>1, <1>2, Invariance, PTL DEF Spec

\* What the abstract job sees of the pipeline.
OpenJobs == {t \in Tasks : message[t] \in {"queued", "unacked"}}
ClosedJobs == {t \in Tasks : message[t] = "settled"}
Copies == [t \in Tasks |-> Cardinality(Inserted(t))]
seen == <<OpenJobs, ClosedJobs, Copies, losses>>

LEMMA CopiesKept ==
    ASSUME \A t : Inserted(t)' = Inserted(t)
    PROVE  UNCHANGED Copies
  BY DEF Copies

LEMMA RowsKept ==
    ASSUME UNCHANGED analysis
    PROVE  \A t : Inserted(t)' = Inserted(t)
  BY DEF Inserted

\* A run inserts a copy that the abstract job still allows.
LEMMA SaveIsAllowed ==
    ASSUME IInv, RunsPay, Sent, NEW w \in Workers, SaveAnalysis(w)
    PROVE  Jobs!Save(job[w].task)
  <1> USE DEF IInv
  <1>1. PICK u \in Tasks : u = job[w].task
    BY DEF SaveAnalysis, JobLinks
  <1>2. PICK a \in Ids :
          /\ analysis[a] = None
          /\ analysis' = [analysis EXCEPT ![a] =
                            [task |-> u, clauses |-> FALSE, deleted |-> FALSE]]
    BY <1>1 DEF SaveAnalysis
  <1>3. /\ \A t : t # u => Inserted(t)' = Inserted(t)
        /\ Inserted(u)' = Inserted(u) \cup {a}
        /\ a \notin Inserted(u)
    BY <1>2, RowInserted DEF TypeOK, Inserted
  <1>4. /\ IsFiniteSet(Inserted(u)) /\ IsFiniteSet(Pending(u))
        /\ Cardinality(Inserted(u)) + Cardinality(Pending(u)) <= runs[u]
        /\ Cardinality(Inserted(u)) \in Nat /\ Cardinality(Pending(u)) \in Nat
    BY FS_CardinalityType DEF RunsPay, Covered
  <1>5. Cardinality(Pending(u)) # 0
    <2>1. w \in Pending(u)
      BY <1>1 DEF Pending, BeforeInsert, SaveAnalysis
    <2> QED  BY <1>4, <2>1, FS_EmptySet
  <1>6. Cardinality(Inserted(u)) <= losses
    <2>1. runs[u] \in Nat /\ losses \in Nat /\ runs[u] <= 1 + losses
      BY AnalysisAssumption DEF TypeOK, Fresh
    <2> QED  BY <1>4, <1>5, <2>1
  <1>7. Cardinality(Inserted(u))' = Cardinality(Inserted(u)) + 1
    <2>1. PICK I : I = Inserted(u)  OBVIOUS
    <2>2. Cardinality(I \cup {a}) = Cardinality(I) + 1
      BY <1>3, <1>4, <2>1, FS_AddElement
    <2>3. Inserted(u)' = I \cup {a}
      BY <1>3, <2>1
    <2> QED  BY <2>1, <2>2, <2>3
  <1>8. \A t \in Tasks : t # u => Cardinality(Inserted(t))' = Cardinality(Inserted(t))
    BY <1>3
  <1>9. Copies' = [Copies EXCEPT ![u] = @ + 1]
    BY <1>7, <1>8 DEF Copies
  <1>10. u \in OpenJobs \/ (u \in ClosedJobs /\ losses > 0)
    <2>1. message[u] \in {"queued", "unacked", "settled"}
      BY <1>1 DEF Sent, SaveAnalysis, TypeOK
    <2>2. losses = 0 => message[u] = "unacked"
      BY <1>1 DEF OneRun, Held, Holds, SaveAnalysis
    <2>3. losses \in Nat
      BY AnalysisAssumption DEF TypeOK
    <2> QED  BY <2>1, <2>2, <2>3 DEF OpenJobs, ClosedJobs
  <1>11. UNCHANGED <<OpenJobs, ClosedJobs, losses>>
    BY DEF SaveAnalysis, broker, OpenJobs, ClosedJobs
  <1>12. Copies[u] <= losses
    BY <1>6 DEF Copies
  <1> QED
    BY <1>1, <1>9, <1>10, <1>11, <1>12 DEF Jobs!Save, OpenJobs, ClosedJobs, Copies

\* Each step of the pipeline is a step of the abstract job or none.
LEMMA JobStep ==
    ASSUME IInv, RunsPay, Sent, Next
    PROVE  Jobs!Next \/ UNCHANGED seen
  <1> USE DEF IInv, broker, OpenJobs, ClosedJobs, seen
  <1>1. ASSUME NEW t \in Tasks, Submit(t) PROVE Jobs!Submit(t)
    <2>1. UNCHANGED Copies
      BY <1>1, CopiesKept, RowsKept DEF Submit
    <2> QED  BY <1>1, <2>1 DEF Submit, TypeOK, Jobs!Submit, Copies
  <1>2. ASSUME NEW t \in Tasks, Restore(t) \/ Poll(t) PROVE UNCHANGED seen
    <2>1. UNCHANGED Copies
      BY <1>2, CopiesKept, RowsKept DEF Restore, Poll
    <2> QED  BY <1>2, <2>1 DEF Restore, Poll, TypeOK
  <1>3. ASSUME NEW w \in Workers, NEW t \in Tasks, Start(w, t)
        PROVE  UNCHANGED seen
    <2>1. UNCHANGED Copies
      BY <1>3, CopiesKept, RowsKept DEF Start
    <2> QED  BY <1>3, <2>1 DEF Start, TypeOK
  <1>4. ASSUME NEW w \in Workers, NEW t \in Tasks, Revoke(w, t)
        PROVE  Jobs!Close(t)
    <2>1. UNCHANGED Copies
      BY <1>4, CopiesKept, RowsKept DEF Revoke
    <2> QED  BY <1>4, <2>1 DEF Revoke, TypeOK, Jobs!Close, Copies
  <1>5. ASSUME NEW w \in Workers,
               Analyse(w) \/ CheckExisting(w) \/ Fail(w) \/ Return(w) \/ Crash(w)
        PROVE  UNCHANGED seen
    <2>1. UNCHANGED Copies
      BY <1>5, CopiesKept, RowsKept DEF Analyse, CheckExisting, Fail, Return, Crash
    <2> QED  BY <1>5, <2>1 DEF Analyse, CheckExisting, Fail, Return, Crash
  <1>6. ASSUME NEW w \in Workers, SaveClauses(w) PROVE UNCHANGED seen
    <2>1. UNCHANGED Copies
      BY <1>6, CopiesKept, RowKept DEF SaveClauses, Rows, TypeOK
    <2> QED  BY <1>6, <2>1 DEF SaveClauses
  <1>7. ASSUME NEW w \in Workers, Ack(w) \/ KillProcess(w)
        PROVE  UNCHANGED seen \/ Jobs!Close(job[w].task)
    <2>1. UNCHANGED Copies /\ UNCHANGED losses
      BY <1>7, CopiesKept, RowsKept DEF Ack, KillProcess
    <2>2. CASE ~job[w].connected
      BY <1>7, <2>1, <2>2 DEF Ack, KillProcess, Acknowledge
    <2>3. CASE job[w].connected
      <3>1. job[w].task \in Tasks /\ message[job[w].task] = "unacked"
        BY <1>7, <2>3 DEF Ack, KillProcess, InBody, JobLinks, Held, Holds
      <3>2. message' = [message EXCEPT ![job[w].task] = "settled"]
        BY <1>7, <2>3 DEF Ack, KillProcess, Acknowledge
      <3> QED  BY <2>1, <3>1, <3>2 DEF TypeOK, Jobs!Close, Copies
    <2> QED  BY <2>2, <2>3
  <1>8. ASSUME NEW w \in Workers, LoseConnection(w) PROVE Jobs!Lose
    <2>1. UNCHANGED Copies
      BY <1>8, CopiesKept, RowsKept DEF LoseConnection
    <2>2. job[w].task \in Tasks /\ message[job[w].task] = "unacked"
      BY <1>8 DEF LoseConnection, JobLinks, Held, Holds
    <2>3. /\ message' = [message EXCEPT ![job[w].task] = "queued"]
          /\ losses' = losses + 1
      BY <1>8 DEF LoseConnection
    <2> QED  BY <2>1, <2>2, <2>3 DEF TypeOK, Jobs!Lose, Copies
  <1>9. ASSUME NEW a \in Ids, Delete(a) PROVE UNCHANGED seen
    <2>1. UNCHANGED Copies
      BY <1>9, CopiesKept, RowKept DEF Delete, Rows, TypeOK
    <2> QED  BY <1>9, <2>1 DEF Delete
  <1>10. ASSUME Tick PROVE UNCHANGED seen
    <2>1. UNCHANGED Copies
      BY <1>10, CopiesKept, RowsKept DEF Tick
    <2> QED  BY <1>10, <2>1 DEF Tick
  <1>11. \A w \in Workers : job[w].stage # "idle" => job[w].task \in Tasks
    BY DEF JobLinks
  <1> HIDE DEF IInv, broker, OpenJobs, ClosedJobs, seen
  <1>12. ASSUME NEW w \in Workers, SaveAnalysis(w) \/ Ack(w) \/ KillProcess(w)
         PROVE  Jobs!Next \/ UNCHANGED seen
    <2>1. job[w].task \in Tasks
      BY <1>11, <1>12 DEF SaveAnalysis, Ack, KillProcess, InBody
    <2>2. \/ Jobs!Save(job[w].task) \/ Jobs!Close(job[w].task)
          \/ UNCHANGED seen
      BY <1>7, <1>12, SaveIsAllowed
    <2> QED  BY <2>1, <2>2 DEF Jobs!Next, Jobs!Save, Jobs!Close
  <1>13. ASSUME NEW w \in Workers, Work(w)
         PROVE  Jobs!Next \/ UNCHANGED seen
    BY <1>5, <1>6, <1>12, <1>13 DEF Work
  <1> QED
    BY <1>1, <1>2, <1>3, <1>4, <1>5, <1>8, <1>9, <1>10, <1>12, <1>13
    DEF Next, Jobs!Next

\* The pipeline implements the abstract job, whatever crashes and is lost: the
\* check before the insert, with expires=120 and late acknowledgement, allows
\* one analysis per task and one more for each lost connection, only while the
\* task's message is in the broker until one is lost, and a message that has
\* left the broker never returns.
THEOREM ImplementsJob == Spec => RefinesJob
  <1>1. Init => Jobs!Init
    <2> SUFFICES ASSUME Init PROVE Jobs!Init
      OBVIOUS
    <2>1. \A t \in Tasks : Cardinality(Inserted(t)) = 0
      BY FS_EmptySet DEF Init, Inserted
    <2> QED  BY <2>1 DEF Init, Jobs!Init
  <1>2. IInv /\ RunsPay /\ Sent /\ [Next]_vars => [Jobs!Next]_seen
    <2>1. ASSUME UNCHANGED vars PROVE UNCHANGED seen
      BY <2>1, CopiesKept, RowsKept DEF vars, broker, seen, OpenJobs, ClosedJobs
    <2> QED  BY <2>1, JobStep
  <1>3. IInv /\ RunsPay /\ Sent /\ [Next]_vars => [Jobs!Next]_(Jobs!jobVars)
    BY <1>2 DEF Jobs!jobVars, seen, OpenJobs, ClosedJobs, Copies
  <1> QED
    BY <1>1, <1>3, Invariance, CoverInvariance, SentInvariance, PTL
    DEF Spec, RefinesJob, Jobs!Spec
=============================================================================
