---------------------------- MODULE ReportWidget ----------------------------
(***************************************************************************)
(* The report card of an analysis page (features/reports): it asks for a   *)
(* report, follows the task that makes it, and downloads the file.         *)
(*                                                                         *)
(* The card runs its callbacks one at a time. What it has sent is answered *)
(* at any later time or fails, whether the card is still there or not. The *)
(* server is seen through its answers: module ReportLifecycle has the rest.*)
(***************************************************************************)
EXTENDS StatusPolling

CONSTANTS
    Analyses,     \* analyses whose page can be opened; all are cached
    Tasks,        \* Celery ids of report tasks; each is used once
    Calls,        \* requests, other than polls, that can be on their way
    MaxClicks     \* bound: changes of pages and buttons pressed

ASSUME WidgetAssumption ==
    /\ None \notin Analyses \cup Tasks
    /\ MaxClicks \in Nat

VARIABLES
    page,         \* the analysis on the screen
    hidden,       \* another tab or window is in front
    card,         \* the state of the ReportWidget
    poll,         \* the query of each task
    calls,        \* generations and downloads on their way
    work,         \* the tasks on the server
    named,        \* report_task_id of each analysis
    files,        \* the analyses that have their report
    made,         \* history: the analyses that had one at some time
    shown,        \* history: the analyses this card was shown for
    misses,       \* history: polls of the current task that failed in a row
                  \* (counted to one more than the cap)
    clicks

screen == <<page, hidden, shown>>
server == <<work, named, files, made>>
vars == <<screen, card, poll, calls, server, misses, clicks>>
-----------------------------------------------------------------------------
(***************************************************************************)
(* State. "generate" and "download" are the two mutations; a generation is *)
(* answered "queued" with a task, or "ready".                              *)
(***************************************************************************)
Card == [task : Tasks \cup {None},
         generate : {"idle", "pending", "queued", "ready", "error"},
         download : {"idle", "pending", "done", "error"}]

NewCard == [task |-> None, generate |-> "idle", download |-> "idle"]

\* "here": the component that sent it is mounted still, so that its onSuccess
\* reaches the card. "mine": a mutation of the card still waits for it.
Call == [kind : {"none", "generate", "download"},
         of : Analyses \cup {None}, here : BOOLEAN, mine : BOOLEAN]

NoCall == [kind |-> "none", of |-> None, here |-> FALSE, mine |-> FALSE]

Work == [of : Analyses \cup {None},
         state : {"unsent", "running", "forgotten"} \cup Verdicts]

Init ==
    /\ page = None
    /\ hidden = FALSE
    /\ card = NewCard
    /\ poll = [t \in Tasks |-> NoQuery]
    /\ calls = [c \in Calls |-> NoCall]
    /\ work = [t \in Tasks |-> [of |-> None, state |-> "unsent"]]
    /\ named = [a \in Analyses |-> None]
    /\ files = {}
    /\ made = {}
    /\ shown = {}
    /\ misses = 0
    /\ clicks = 0
-----------------------------------------------------------------------------
(***************************************************************************)
(* What is rendered.                                                       *)
(***************************************************************************)
\* useReportStatus without a task is disabled and has nothing.
Status == IF card.task = None THEN NoQuery ELSE poll[card.task]

isReportReady == card.generate = "ready" \/ Status.data = "completed"

isFailed == Status.data = "failed"

isGenerating ==
    card.task # None /\ ~isReportReady /\ ~isFailed /\ ~Status.error

\* Mutant: the alert about a failed task has no button.
ButtonsNoRetry ==
    {b \in {"generate", "again", "over", "retry", "download"} :
        \/ /\ b = "generate"
           /\ card.task = None /\ card.generate \notin {"pending", "error", "ready"}
        \/ b = "again" /\ card.generate = "error"
        \/ /\ b = "over"
           /\ card.task # None /\ Status.error /\ ~isReportReady /\ ~isFailed
        \/ b = "download" /\ isReportReady /\ card.download # "pending"}

\* "Generate Report", "Try again" (of the generation), "Start over",
\* "Try again" (of a failed task) and "Download PDF".
Buttons ==
    {b \in {"generate", "again", "over", "retry", "download"} :
        \/ /\ b = "generate"
           /\ card.task = None /\ card.generate \notin {"pending", "error", "ready"}
        \/ b = "again" /\ card.generate = "error"
        \/ /\ b = "over"
           /\ card.task # None /\ Status.error /\ ~isReportReady /\ ~isFailed
        \/ b = "retry" /\ isFailed
        \/ b = "download" /\ isReportReady /\ card.download # "pending"}
-----------------------------------------------------------------------------
(***************************************************************************)
(* Pages and buttons.                                                      *)
(***************************************************************************)
Click == ~hidden /\ clicks < MaxClicks /\ clicks' = clicks + 1

Free(c) == calls[c].kind = "none"

Unsent(t) == work[t].state = "unsent"

\* Requests that the card no longer waits for.
Unwatched == [c \in Calls |-> [calls[c] EXCEPT !.mine = FALSE]]

\* Mutant: the card of the last page is kept for the next one.
OpenKeepsCard(a) ==
    /\ page = None /\ Click
    /\ page' = a
    /\ shown' = {a}
    /\ UNCHANGED <<hidden, card, poll, calls, server, misses>>

\* The page of an analysis, from another page or while it is being loaded: a
\* new card.
Open(a) ==
    /\ page = None /\ Click
    /\ page' = a
    /\ card' = NewCard
    /\ shown' = {a}
    /\ UNCHANGED <<hidden, poll, calls, server, misses>>

\* A step in the history from one analysis to another that is cached: the
\* component is kept, its task too. The mutations' keys name the analysis, so
\* that the library resets them.
Turn(a) ==
    /\ page # None /\ a # page /\ Click
    /\ page' = a
    /\ card' = [card EXCEPT !.generate = "idle", !.download = "idle"]
    /\ calls' = Unwatched
    /\ shown' = shown \cup {a}
    /\ UNCHANGED <<hidden, poll, server, misses>>

\* The page goes, and with it the timer; what was sent is on its way still.
Leave ==
    /\ page # None /\ ~hidden
    /\ page' = None
    /\ calls' = [c \in Calls |-> [calls[c] EXCEPT !.here = FALSE, !.mine = FALSE]]
    /\ UNCHANGED <<hidden, shown, card, poll, server, misses, clicks>>

Hide ==
    /\ page # None
    /\ hidden' = ~hidden
    /\ UNCHANGED <<page, shown, card, poll, calls, server, misses, clicks>>

\* (Free requests are alike, as are tasks that were not sent: one is chosen.)
Send(c, kind) ==
    /\ Free(c) /\ c = CHOOSE d \in Calls : Free(d)
    /\ calls' = [calls EXCEPT ![c] =
                   [kind |-> kind, of |-> page, here |-> TRUE, mine |-> TRUE]]

Generate(c) ==
    /\ page # None /\ Buttons \cap {"generate", "again"} # {} /\ Click
    /\ Send(c, "generate")
    /\ card' = [card EXCEPT !.generate = "pending"]
    /\ UNCHANGED <<screen, poll, server, misses>>

Download(c) ==
    /\ page # None /\ "download" \in Buttons /\ Click
    /\ Send(c, "download")
    /\ card' = [card EXCEPT !.download = "pending"]
    /\ UNCHANGED <<screen, poll, server, misses>>

\* "Start over" and "Try again" (of a failed task).
handleRetry ==
    /\ page # None /\ Buttons \cap {"over", "retry"} # {} /\ Click
    /\ card' = NewCard
    /\ calls' = Unwatched
    /\ UNCHANGED <<screen, poll, server, misses>>
-----------------------------------------------------------------------------
(***************************************************************************)
(* Answers to a generation and a download.                                 *)
(***************************************************************************)
\* A task is handed out, and its query begins as the card follows it. The
\* endpoint looks for the report twice; if it appears in between, what it
\* hands out is the name of no task.
Queued(c, t) ==
    LET a == calls[c].of
    IN  /\ calls[c].kind = "generate"
        /\ Unsent(t) /\ t = CHOOSE u \in Tasks : Unsent(u)
        /\ \/ /\ a \notin files
              /\ work' = [work EXCEPT ![t] = [of |-> a, state |-> "running"]]
              /\ named' = [named EXCEPT ![a] = t]
           \/ /\ a \in files
              /\ work' = [work EXCEPT ![t] = [of |-> a, state |-> "failed"]]
              /\ UNCHANGED named
        /\ IF calls[c].here
           THEN /\ card' = [card EXCEPT !.task = t,
                              !.generate = IF calls[c].mine THEN "queued" ELSE @]
                /\ poll' = [poll EXCEPT ![t] = Fetched(@)]
                /\ misses' = 0
           ELSE UNCHANGED <<card, poll, misses>>
        /\ calls' = [calls EXCEPT ![c] = NoCall]
        /\ UNCHANGED <<screen, files, made, clicks>>

\* The report is there, and is downloaded at once: by the mutation of the
\* card, for the page on the screen. (A component that is gone downloads for
\* the page it showed last; nothing here depends on it.)
Ready(c) ==
    /\ calls[c].kind = "generate" /\ calls[c].of \in files
    /\ IF calls[c].here
       THEN /\ card' = [card EXCEPT !.download = "pending",
                          !.generate = IF calls[c].mine THEN "ready" ELSE @]
            /\ calls' = [d \in Calls |->
                 IF d = c THEN [kind |-> "download", of |-> page,
                                here |-> TRUE, mine |-> TRUE]
                 ELSE [calls[d] EXCEPT !.mine = @ /\ calls[d].kind # "download"]]
       ELSE /\ calls' = [calls EXCEPT ![c].kind = "download"]
            /\ UNCHANGED card
    /\ UNCHANGED <<screen, poll, server, misses, clicks>>

\* The file, if it is still there.
Downloaded(c) ==
    /\ calls[c].kind = "download" /\ calls[c].of \in files
    /\ card' = IF calls[c].mine THEN [card EXCEPT !.download = "done"] ELSE card
    /\ calls' = [calls EXCEPT ![c] = NoCall]
    /\ UNCHANGED <<screen, poll, server, misses, clicks>>

\* Refused or lost. A download is also refused when the access token has
\* expired: it does not go through the client that would refresh it.
CallFailed(c) ==
    /\ ~Free(c)
    /\ card' = IF ~calls[c].mine THEN card
               ELSE IF calls[c].kind = "generate" THEN [card EXCEPT !.generate = "error"]
               ELSE [card EXCEPT !.download = "error"]
    /\ calls' = [calls EXCEPT ![c] = NoCall]
    /\ UNCHANGED <<screen, poll, server, misses, clicks>>
-----------------------------------------------------------------------------
(***************************************************************************)
(* Polling.                                                                *)
(***************************************************************************)
\* The interval is over, and the page is in front.
Poll(t) ==
    /\ page # None /\ card.task = t /\ ~hidden
    /\ ~poll[t].fetching /\ refetchInterval(poll[t])
    /\ poll' = [poll EXCEPT ![t] = Fetched(@)]
    /\ UNCHANGED <<screen, card, calls, server, misses, clicks>>

\* What the status endpoint says of a task: failed, if its analysis names
\* another one; completed, if the report is there, whoever made it; else what
\* the result says, while there is one.
Told(t) ==
    IF named[work[t].of] # t THEN "failed"
    ELSE IF work[t].of \in files THEN "completed"
    ELSE IF work[t].state \in {"running", "forgotten"} THEN "going"
    ELSE "failed"

Polled(t) ==
    /\ poll[t].fetching
    /\ poll' = [poll EXCEPT ![t] = Answered(Told(t))]
    /\ misses' = IF card.task = t THEN 0 ELSE misses
    /\ UNCHANGED <<screen, card, calls, server, clicks>>

\* Lost, or refused: the limiter lets ten of these requests through in a
\* minute and counts those it refuses.
PollFailed(t) ==
    /\ poll[t].fetching
    /\ poll' = [poll EXCEPT ![t] = Failed(@)]
    /\ misses' = IF card.task = t /\ misses <= MaxErrors THEN misses + 1 ELSE misses
    /\ UNCHANGED <<screen, card, calls, server, clicks>>
-----------------------------------------------------------------------------
(***************************************************************************)
(* The server.                                                             *)
(***************************************************************************)
Complete(t) ==
    /\ work[t].state = "running"
    /\ work' = [work EXCEPT ![t].state = "completed"]
    /\ files' = files \cup {work[t].of}
    /\ made' = made \cup {work[t].of}
    /\ UNCHANGED <<screen, card, poll, calls, named, misses, clicks>>

Fail(t) ==
    /\ work[t].state = "running"
    /\ work' = [work EXCEPT ![t].state = "failed"]
    /\ UNCHANGED <<screen, card, poll, calls, named, files, made, misses, clicks>>

\* The result of a task expires a minute after its end.
Forget(t) ==
    /\ work[t].state \in Verdicts
    /\ work' = [work EXCEPT ![t].state = "forgotten"]
    /\ UNCHANGED <<screen, card, poll, calls, named, files, made, misses, clicks>>

\* A lost file is noticed, and its row cleared.
Lose(a) ==
    /\ a \in files
    /\ files' = files \ {a}
    /\ UNCHANGED <<screen, card, poll, calls, work, named, made, misses, clicks>>

Next ==
    \/ Leave \/ Hide \/ handleRetry
    \/ \E a \in Analyses : Open(a) \/ Turn(a) \/ Lose(a)
    \/ \E c \in Calls : Generate(c) \/ Download(c) \/ Ready(c) \/ Downloaded(c) \/ CallFailed(c)
    \/ \E c \in Calls, t \in Tasks : Queued(c, t)
    \/ \E t \in Tasks :
         \/ Poll(t) \/ Polled(t) \/ PollFailed(t)
         \/ Complete(t) \/ Fail(t) \/ Forget(t)

Spec == Init /\ [][Next]_vars

\* The timer fires while the page is there and in front, and a poll is answered
\* or fails.
FairSpec ==
    /\ Spec
    /\ \A t \in Tasks : WF_vars(Poll(t)) /\ WF_vars(Polled(t) \/ PollFailed(t))
-----------------------------------------------------------------------------
TypeOK ==
    /\ page \in Analyses \cup {None}
    /\ hidden \in BOOLEAN
    /\ shown \subseteq Analyses
    /\ card \in Card
    /\ poll \in [Tasks -> Query]
    /\ calls \in [Calls -> Call]
    /\ work \in [Tasks -> Work]
    /\ named \in [Analyses -> Tasks \cup {None}]
    /\ files \subseteq made /\ made \subseteq Analyses
    /\ misses \in 0..MaxErrors + 1
    /\ clicks \in 0..MaxClicks

Watching == card.task # None /\ Watched(poll[card.task])

(***************************************************************************)
(* The card is never a dead end: it offers a button, or something is on    *)
(* its way or will be asked again; and its spinner turns only then.        *)
(***************************************************************************)
NeverStuck ==
    page # None =>
        /\ \/ Buttons # {} \/ Watching
           \/ \E c \in Calls : calls[c].mine
        /\ isGenerating => Watching

(***************************************************************************)
(* A report is offered only if one was made, for the analysis on the       *)
(* screen or, where the card was kept over a change of pages, for another  *)
(* that it was shown for: whatever was generated twice, started over or    *)
(* answered late, to this card or to one that is gone.                     *)
(***************************************************************************)
OfferedWasMade == page # None /\ isReportReady => shown \cap made # {}

(***************************************************************************)
(* The end of the task that the card follows comes to show: as a verdict,  *)
(* or as an error with "Start over" -- unless the page is left or goes to  *)
(* the background, the card goes on to another task, or the server forgets *)
(* the result before a poll was answered.                                  *)
(***************************************************************************)
Ended(t) == page # None /\ card.task = t /\ work[t].state \in Verdicts

EndShows ==
    \A t \in Tasks :
        Ended(t) ~> \/ page = None \/ hidden \/ card.task # t
                    \/ work[t].state = "forgotten"
                    \/ Status.data \in Verdicts \/ Status.error

(***************************************************************************)
(* Statements that the code does not keep: TLC refutes each, the first in  *)
(* a run, the others with the constants README.md names.                   *)
(***************************************************************************)
\* "Polling stops on terminal states and caps at 3 consecutive failures." A
\* failed poll is never followed by so many more.
FailuresCapped == misses <= MaxErrors

\* "Changing /analysis/1 to /analysis/2 produces a fresh component instance":
\* a report is offered on the page of its analysis only.
OfferedIsOwn == page # None /\ isReportReady => page \in made

\* Polls go on "until it reaches a terminal state": the page learns the end
\* of its task unless it is left or the user starts over.
EndIsTold ==
    \A t \in Tasks :
        Ended(t) ~> page = None \/ card.task # t \/ Status.data \in Verdicts
=============================================================================
