------------------------- MODULE ReportWidgetProofs -------------------------
(***************************************************************************)
(* Proofs about ReportWidget, for any number of analyses, tasks and calls. *)
(*                                                                         *)
(* The inductive invariant says what each pending part of the card waits   *)
(* for, and for whose analysis: a call that a mutation waits for is about  *)
(* the page, one that may still reach the card and the task it follows are *)
(* about analyses it was shown for, and a task that a poll called          *)
(* completed has left a report.                                            *)
(***************************************************************************)
EXTENDS ReportWidget, TLAPS

\* A query without an error has no failures.
Counted ==
    \A t \in Tasks : poll[t].fetching \/ ~poll[t].error => poll[t].failures = 0

\* What was sent, and what runs, is about an analysis; what may reach the
\* card, about one that it was shown for; what it waits for, about the page.
Addressed ==
    /\ page # None => page \in shown
    /\ \A c \in Calls : calls[c].kind # "none" => calls[c].of \in Analyses
    /\ \A c \in Calls : calls[c].here => page # None /\ calls[c].of \in shown
    /\ \A c \in Calls : calls[c].mine => calls[c].here /\ calls[c].of = page
    /\ \A t \in Tasks : work[t].state # "unsent" => work[t].of \in Analyses
    /\ \A t \in Tasks : work[t].state = "unsent" => work[t].of = None

\* The task the card follows.
Followed ==
    page # None /\ card.task # None =>
        work[card.task].state # "unsent" /\ work[card.task].of \in shown

ReadyMade == page # None /\ card.generate = "ready" => page \in made

ToldMade ==
    \A t \in Tasks : poll[t].data = "completed" =>
        work[t].state # "unsent" /\ work[t].of \in made

\* A pending mutation of the card is on its way.
Awaited ==
    page # None =>
        /\ card.generate = "pending" =>
              \E c \in Calls : calls[c].mine /\ calls[c].kind = "generate"
        /\ card.download = "pending" =>
              \E c \in Calls : calls[c].mine /\ calls[c].kind = "download"

IInv ==
    TypeOK /\ Counted /\ Addressed /\ Followed /\ ReadyMade /\ ToldMade /\ Awaited
-----------------------------------------------------------------------------
(***************************************************************************)
(* Queries.                                                                *)
(***************************************************************************)
LEMMA NoneIsNoAnswer == None \notin Answers
BY PollingAssumption DEF Answers, Verdicts

LEMMA NoQueryType == NoQuery \in Query
BY DEF NoQuery, Query

LEMMA FetchedType ==
    ASSUME NEW q \in Query
    PROVE  /\ Fetched(q) \in Query
           /\ Fetched(q).data = q.data
           /\ Fetched(q).fetching /\ Fetched(q).failures = 0
<1>1. Fetched(q) \in Query
  BY DEF Fetched, Query
<1>2. QED
  BY <1>1 DEF Fetched, Query

LEMMA AnsweredType ==
    ASSUME NEW a \in Answers
    PROVE  /\ Answered(a) \in Query
           /\ Answered(a).data = a
           /\ ~Answered(a).fetching /\ Answered(a).failures = 0
<1>1. Answered(a) \in Query
  BY DEF Answered, NoQuery, Query
<1>2. QED
  BY <1>1 DEF Answered, NoQuery

\* The set of counts is kept hidden: the prover does not need its elements.
LEMMA FailedType ==
    ASSUME NEW q \in Query, q.failures = 0
    PROVE  /\ Failed(q) \in Query
           /\ Failed(q).data = q.data
           /\ ~Failed(q).fetching /\ Failed(q).error
<1> DEFINE Counts == {0, 1}
<1>1. Query = [data : Answers \cup {None}, error : BOOLEAN,
               failures : Counts, fetching : BOOLEAN]
  BY DEF Query
<1>2. q.failures + 1 \in Counts
  OBVIOUS
<1> HIDE DEF Counts
<1>3. Failed(q) \in Query
  BY <1>1, <1>2 DEF Failed
<1>4. QED
  BY <1>1, <1>3 DEF Failed

LEMMA CardTypes ==
    /\ NewCard \in Card /\ NoCall \in Call
    /\ NewCard.task = None /\ NewCard.generate = "idle" /\ NewCard.download = "idle"
    /\ NoCall.kind = "none" /\ ~NoCall.here /\ ~NoCall.mine
BY DEF NewCard, Card, NoCall, Call

LEMMA UnwatchedCalls ==
    ASSUME TypeOK
    PROVE  /\ Unwatched \in [Calls -> Call]
           /\ \A c \in Calls : /\ Unwatched[c].kind = calls[c].kind
                               /\ Unwatched[c].of = calls[c].of
                               /\ Unwatched[c].here = calls[c].here
                               /\ ~Unwatched[c].mine
BY DEF TypeOK, Call, Unwatched

\* The calls after the page went.
LEMMA LeftCalls ==
    ASSUME TypeOK, Leave
    PROVE  /\ calls' \in [Calls -> Call]
           /\ \A c \in Calls : /\ calls'[c].kind = calls[c].kind
                               /\ calls'[c].of = calls[c].of
                               /\ ~calls'[c].here /\ ~calls'[c].mine
BY DEF TypeOK, Call, Leave
-----------------------------------------------------------------------------
(***************************************************************************)
(* The invariant holds at first, and each action keeps it.                 *)
(***************************************************************************)
LEMMA InitIInv ==
    ASSUME Init
    PROVE  IInv
<1>1. TypeOK
  <2>1. calls \in [Calls -> Call] /\ work \in [Tasks -> Work]
    BY CardTypes DEF Init, Work
  <2>2. misses \in 0..MaxErrors + 1 /\ clicks \in 0..MaxClicks
    BY PollingAssumption, WidgetAssumption DEF Init
  <2>3. QED
    BY <2>1, <2>2, CardTypes, NoQueryType DEF Init, TypeOK
<1>2. Counted /\ ToldMade
  BY NoneIsNoAnswer DEF Init, Counted, ToldMade, NoQuery, Answers, Verdicts
<1>3. Addressed /\ Followed /\ ReadyMade /\ Awaited
  BY CardTypes DEF Init, Addressed, Followed, ReadyMade, Awaited
<1>4. QED
  BY <1>1, <1>2, <1>3 DEF IInv

LEMMA OpenIInv ==
    ASSUME IInv, NEW a \in Analyses, Open(a)
    PROVE  IInv'
<1> USE DEF Open, Click
<1>1. TypeOK'
  BY CardTypes, WidgetAssumption DEF IInv, TypeOK, server
<1>2. Counted' /\ ToldMade'
  BY DEF IInv, Counted, ToldMade, server
<1>3. Addressed'
  BY DEF IInv, Addressed, server
<1>4. Followed' /\ ReadyMade' /\ Awaited'
  BY CardTypes DEF Followed, ReadyMade, Awaited
<1>5. QED
  BY <1>1, <1>2, <1>3, <1>4 DEF IInv

LEMMA LeaveIInv ==
    ASSUME IInv, Leave
    PROVE  IInv'
<1> USE DEF Leave
<1>1. TypeOK'
  BY LeftCalls DEF IInv, TypeOK, server
<1>2. Counted' /\ ToldMade'
  BY DEF IInv, Counted, ToldMade, server
<1>3. Addressed'
  BY LeftCalls DEF IInv, Addressed, server
<1>4. Followed' /\ ReadyMade' /\ Awaited'
  BY DEF Followed, ReadyMade, Awaited
<1>5. QED
  BY <1>1, <1>2, <1>3, <1>4 DEF IInv

LEMMA TurnIInv ==
    ASSUME IInv, NEW a \in Analyses, Turn(a)
    PROVE  IInv'
<1> USE DEF Turn, Click
<1>1. TypeOK'
  <2>1. card' \in Card
    BY DEF IInv, TypeOK, Card
  <2>2. page' \in Analyses \cup {None} /\ shown' \subseteq Analyses
    BY DEF IInv, TypeOK
  <2>3. clicks' \in 0..MaxClicks
    BY WidgetAssumption DEF IInv, TypeOK
  <2>4. calls' \in [Calls -> Call]
    BY UnwatchedCalls DEF IInv
  <2>5. QED
    BY <2>1, <2>2, <2>3, <2>4 DEF IInv, TypeOK, server
<1>2. Counted' /\ ToldMade'
  BY DEF IInv, Counted, ToldMade, server
<1>3. Addressed'
  BY UnwatchedCalls, WidgetAssumption DEF IInv, Addressed, server
<1>4. Followed'
  BY DEF IInv, TypeOK, Card, Followed, server
<1>5. ReadyMade' /\ Awaited'
  BY DEF IInv, TypeOK, Card, ReadyMade, Awaited
<1>6. QED
  BY <1>1, <1>2, <1>3, <1>4, <1>5 DEF IInv

LEMMA HideIInv ==
    ASSUME IInv, Hide
    PROVE  IInv'
<1> USE DEF Hide
<1>1. TypeOK'
  BY DEF IInv, TypeOK, server
<1>2. Counted' /\ ToldMade' /\ Addressed' /\ Followed' /\ ReadyMade' /\ Awaited'
  BY DEF IInv, Counted, ToldMade, Addressed, Followed, ReadyMade, Awaited, server
<1>3. QED
  BY <1>1, <1>2 DEF IInv

LEMMA GenerateIInv ==
    ASSUME IInv, NEW c \in Calls, Generate(c)
    PROVE  IInv'
<1> USE DEF Generate, Send, Click, Free, screen
<1>1. TypeOK'
  BY WidgetAssumption DEF IInv, TypeOK, server, Card, Call
<1>2. Counted' /\ ToldMade'
  BY DEF IInv, Counted, ToldMade, server
<1>3. Addressed'
  BY DEF IInv, TypeOK, Addressed, server
<1>4. Followed' /\ ReadyMade'
  BY DEF IInv, TypeOK, Card, Followed, ReadyMade, server
<1>5. Awaited'
  BY DEF IInv, TypeOK, Card, Awaited
<1>6. QED
  BY <1>1, <1>2, <1>3, <1>4, <1>5 DEF IInv

LEMMA DownloadIInv ==
    ASSUME IInv, NEW c \in Calls, Download(c)
    PROVE  IInv'
<1> USE DEF Download, Send, Click, Free, screen
<1>1. TypeOK'
  BY WidgetAssumption DEF IInv, TypeOK, server, Card, Call
<1>2. Counted' /\ ToldMade'
  BY DEF IInv, Counted, ToldMade, server
<1>3. Addressed'
  BY DEF IInv, TypeOK, Addressed, server
<1>4. Followed' /\ ReadyMade'
  BY DEF IInv, TypeOK, Card, Followed, ReadyMade, server
<1>5. Awaited'
  BY DEF IInv, TypeOK, Card, Awaited
<1>6. QED
  BY <1>1, <1>2, <1>3, <1>4, <1>5 DEF IInv

LEMMA RetryIInv ==
    ASSUME IInv, handleRetry
    PROVE  IInv'
<1> USE DEF handleRetry, Click, screen
<1>1. TypeOK'
  BY CardTypes, UnwatchedCalls, WidgetAssumption DEF IInv, TypeOK, server
<1>2. Counted' /\ ToldMade'
  BY DEF IInv, Counted, ToldMade, server
<1>3. Addressed'
  BY UnwatchedCalls DEF IInv, Addressed, server
<1>4. Followed' /\ ReadyMade' /\ Awaited'
  BY CardTypes DEF Followed, ReadyMade, Awaited
<1>5. QED
  BY <1>1, <1>2, <1>3, <1>4 DEF IInv

LEMMA QueuedIInv ==
    ASSUME IInv, NEW c \in Calls, NEW t \in Tasks, Queued(c, t)
    PROVE  IInv'
<1> USE DEF Queued, Unsent, screen
<1>0. /\ Fetched(poll[t]) \in Query
      /\ Fetched(poll[t]).data = poll[t].data
      /\ Fetched(poll[t]).fetching /\ Fetched(poll[t]).failures = 0
  BY FetchedType DEF IInv, TypeOK
<1>1. TypeOK'
  <2>1. card' \in Card
    BY DEF IInv, TypeOK, Card
  <2>2. calls' \in [Calls -> Call]
    BY CardTypes DEF IInv, TypeOK
  <2>3. work' \in [Tasks -> Work]
    <3>1. \A st \in {"running", "failed"} : [of |-> calls[c].of, state |-> st] \in Work
      BY DEF IInv, TypeOK, Call, Work, Verdicts
    <3>2. QED
      BY <3>1 DEF IInv, TypeOK
  <2>4. poll' \in [Tasks -> Query] /\ misses' \in 0..MaxErrors + 1
    <3>1. CASE calls[c].here
      <4>1. misses' = 0 /\ poll' = [poll EXCEPT ![t] = Fetched(@)]
        BY <3>1
      <4>2. 0 \in 0..MaxErrors + 1
        BY PollingAssumption
      <4>3. QED
        BY <1>0, <4>1, <4>2 DEF IInv, TypeOK
    <3>2. CASE ~calls[c].here
      BY <3>2 DEF IInv, TypeOK
    <3>3. QED
      BY <3>1, <3>2
  <2>5. named' \in [Analyses -> Tasks \cup {None}]
    <3>1. CASE calls[c].of \in files
      BY <3>1 DEF IInv, TypeOK
    <3>2. CASE calls[c].of \notin files
      BY <3>2 DEF IInv, TypeOK
    <3>3. QED
      BY <3>1, <3>2
  <2>6. QED
    BY <2>1, <2>2, <2>3, <2>4, <2>5 DEF IInv, TypeOK
<1>2. Counted'
  BY <1>0, WidgetAssumption DEF IInv, TypeOK, Counted
<1>3. ToldMade'
  <2>1. poll[t].data # "completed"
    BY DEF IInv, ToldMade
  <2>2. poll'[t].data = poll[t].data
    BY <1>0 DEF IInv, TypeOK
  <2>3. \A s \in Tasks \ {t} : poll'[s] = poll[s] /\ work'[s] = work[s]
    BY DEF IInv, TypeOK
  <2>4. QED
    BY <2>1, <2>2, <2>3 DEF IInv, ToldMade
<1>a. /\ work'[t].of = calls[c].of /\ work'[t].state # "unsent"
      /\ \A s \in Tasks \ {t} : work'[s] = work[s]
  BY DEF IInv, TypeOK
<1>4. Addressed'
  <2>1. \A d \in Calls \ {c} : calls'[d] = calls[d]
    BY DEF IInv, TypeOK
  <2>2. calls'[c] = NoCall
    BY DEF IInv, TypeOK
  <2>3. calls[c].of \in Analyses
    BY DEF IInv, Addressed
  <2>4. \A s \in Tasks : /\ work'[s].state # "unsent" => work'[s].of \in Analyses
                         /\ work'[s].state = "unsent" => work'[s].of = None
    <3> HIDE DEF Queued
    <3>1. ASSUME NEW s \in Tasks, s # t
          PROVE  /\ work'[s].state # "unsent" => work'[s].of \in Analyses
                 /\ work'[s].state = "unsent" => work'[s].of = None
      BY <1>a, <3>1 DEF IInv, Addressed
    <3>2. QED
      BY <1>a, <2>3, <3>1
  <2>5. page' = page /\ shown' = shown
    OBVIOUS
  <2>6. QED
    BY <2>1, <2>2, <2>4, <2>5, CardTypes DEF IInv, Addressed
<1>5. Followed'
  <2>1. CASE calls[c].here
    <3>1. card'.task = t
      BY <2>1 DEF IInv, TypeOK, Card
    <3>2. calls[c].of \in shown
      BY <2>1 DEF IInv, Addressed
    <3>3. QED
      BY <1>a, <3>1, <3>2 DEF Followed
  <2>2. CASE ~calls[c].here
    BY <2>2 DEF IInv, TypeOK, Card, Followed
  <2>3. QED
    BY <2>1, <2>2
<1>6. ReadyMade'
  BY DEF IInv, TypeOK, Card, ReadyMade
<1>7. Awaited'
  <2>1. \A d \in Calls \ {c} : calls'[d] = calls[d]
    BY DEF IInv, TypeOK
  <2>2. card'.download = card.download
    BY DEF IInv, TypeOK, Card
  <2>3. card'.generate = "pending" => card.generate = "pending" /\ ~calls[c].mine
    BY DEF IInv, TypeOK, Card, Addressed
  <2>4. QED
    BY <2>1, <2>2, <2>3 DEF IInv, Awaited
<1>8. QED
  BY <1>1, <1>2, <1>3, <1>4, <1>5, <1>6, <1>7 DEF IInv

LEMMA ReadyIInv ==
    ASSUME IInv, NEW c \in Calls, Ready(c)
    PROVE  IInv'
<1> USE DEF Ready, screen
<1>1. TypeOK'
  <2>1. card' \in Card
    BY DEF IInv, TypeOK, Card
  <2>2. calls' \in [Calls -> Call]
    <3>1. CASE calls[c].here
      <4>1. [kind |-> "download", of |-> page, here |-> TRUE, mine |-> TRUE] \in Call
        BY DEF IInv, TypeOK, Call
      <4>2. \A d \in Calls, b \in BOOLEAN : [calls[d] EXCEPT !.mine = b] \in Call
        BY DEF IInv, TypeOK, Call
      <4>3. \A d \in Calls : calls'[d] \in Call
        BY <3>1, <4>1, <4>2
      <4>4. QED
        BY <3>1, <4>3
    <3>2. CASE ~calls[c].here
      BY <3>2 DEF IInv, TypeOK, Call
    <3>3. QED
      BY <3>1, <3>2
  <2>3. QED
    BY <2>1, <2>2 DEF IInv, TypeOK, server
<1>2. Counted' /\ ToldMade'
  BY DEF IInv, Counted, ToldMade, server
<1>3. Addressed'
  BY DEF IInv, TypeOK, Addressed, server, Call
<1>4. Followed'
  BY DEF IInv, TypeOK, Card, Followed, server
<1>5. ReadyMade'
  BY DEF IInv, TypeOK, Card, Addressed, ReadyMade, server
<1>6. Awaited'
  <2>1. CASE calls[c].here
    <3>1. calls'[c].mine /\ calls'[c].kind = "download"
      BY <2>1 DEF IInv, TypeOK
    <3>2. \A d \in Calls \ {c} : /\ calls'[d].kind = calls[d].kind
                                 /\ calls[d].kind = "generate" /\ calls[d].mine =>
                                      calls'[d].mine
      BY <2>1 DEF IInv, TypeOK, Call
    <3>3. card'.generate = "pending" => card.generate = "pending" /\ ~calls[c].mine
      BY <2>1 DEF IInv, TypeOK, Card
    <3>4. QED
      BY <3>1, <3>2, <3>3 DEF IInv, Awaited
  <2>2. CASE ~calls[c].here
    <3>1. \A d \in Calls \ {c} : calls'[d] = calls[d]
      BY <2>2 DEF IInv, TypeOK
    <3>2. ~calls[c].mine
      BY <2>2 DEF IInv, Addressed
    <3>3. QED
      BY <2>2, <3>1, <3>2 DEF IInv, Awaited
  <2>3. QED
    BY <2>1, <2>2<1>7. QED
  BY <1>1, <1>2, <1>3, <1>4, <1>5, <1>6 DEF IInv

LEMMA DownloadedIInv ==
    ASSUME IInv, NEW c \in Calls, Downloaded(c)
    PROVE  IInv'
<1> USE DEF Downloaded, screen
<1>1. TypeOK'
  BY CardTypes DEF IInv, TypeOK, server, Card
<1>2. Counted' /\ ToldMade'
  BY DEF IInv, Counted, ToldMade, server
<1>3. Addressed'
  BY CardTypes DEF IInv, TypeOK, Addressed, server
<1>4. Followed' /\ ReadyMade'
  BY DEF IInv, TypeOK, Card, Followed, ReadyMade, server
<1>5. Awaited'
  <2>1. \A d \in Calls \ {c} : calls'[d] = calls[d]
    BY DEF IInv, TypeOK
  <2>2. card'.generate = card.generate
    BY DEF IInv, TypeOK, Card
  <2>3. card'.download = "pending" => card.download = "pending" /\ ~calls[c].mine
    BY DEF IInv, TypeOK, Card
  <2>4. QED
    BY <2>1, <2>2, <2>3 DEF IInv, Awaited
<1>6. QED
  BY <1>1, <1>2, <1>3, <1>4, <1>5 DEF IInv

LEMMA CallFailedIInv ==
    ASSUME IInv, NEW c \in Calls, CallFailed(c)
    PROVE  IInv'
<1> USE DEF CallFailed, Free, screen
<1>1. TypeOK'
  BY CardTypes DEF IInv, TypeOK, server, Card
<1>2. Counted' /\ ToldMade'
  BY DEF IInv, Counted, ToldMade, server
<1>3. Addressed'
  BY CardTypes DEF IInv, TypeOK, Addressed, server
<1>4. Followed' /\ ReadyMade'
  BY DEF IInv, TypeOK, Card, Followed, ReadyMade, server
<1>5. Awaited'
  <2>1. \A d \in Calls \ {c} : calls'[d] = calls[d]
    BY DEF IInv, TypeOK
  <2>2. card'.generate = "pending" =>
          card.generate = "pending" /\ ~(calls[c].mine /\ calls[c].kind = "generate")
    BY DEF IInv, TypeOK, Card
  <2>3. card'.download = "pending" =>
          card.download = "pending" /\ ~(calls[c].mine /\ calls[c].kind = "download")
    BY DEF IInv, TypeOK, Card, Call
  <2>4. QED
    BY <2>1, <2>2, <2>3 DEF IInv, Awaited
<1>6. QED
  BY <1>1, <1>2, <1>3, <1>4, <1>5 DEF IInv

LEMMA PollIInv ==
    ASSUME IInv, NEW t \in Tasks, Poll(t)
    PROVE  IInv'
<1> USE DEF Poll, screen
<1>1. /\ Fetched(poll[t]) \in Query
      /\ Fetched(poll[t]).data = poll[t].data
      /\ Fetched(poll[t]).fetching /\ Fetched(poll[t]).failures = 0
  BY FetchedType DEF IInv, TypeOK
<1>2. TypeOK'
  BY <1>1 DEF IInv, TypeOK, server
<1>3. Counted' /\ ToldMade'
  BY <1>1 DEF IInv, TypeOK, Counted, ToldMade, server
<1>4. Addressed' /\ Followed' /\ ReadyMade' /\ Awaited'
  BY DEF IInv, Addressed, Followed, ReadyMade, Awaited, server
<1>5. QED
  BY <1>2, <1>3, <1>4 DEF IInv

LEMMA PolledIInv ==
    ASSUME IInv, NEW t \in Tasks, Polled(t)
    PROVE  IInv'
<1> USE DEF Polled, screen
<1>1. Told(t) \in Answers
  BY DEF Told, Answers, Verdicts
<1>2. /\ Answered(Told(t)) \in Query
      /\ Answered(Told(t)).data = Told(t)
      /\ ~Answered(Told(t)).fetching /\ Answered(Told(t)).failures = 0
  BY <1>1, AnsweredType
<1>3. TypeOK'
  BY <1>2, PollingAssumption DEF IInv, TypeOK, server
<1>4. Counted'
  BY <1>2, WidgetAssumption DEF IInv, TypeOK, Counted
<1>5. ToldMade'
  <2>1. Told(t) = "completed" => work[t].state # "unsent" /\ work[t].of \in made
    BY WidgetAssumption DEF Told, IInv, TypeOK, Addressed
  <2>2. \A s \in Tasks \ {t} : poll'[s] = poll[s]
    BY DEF IInv, TypeOK
  <2>3. poll'[t].data = Told(t)
    BY <1>2 DEF IInv, TypeOK
  <2>4. QED
    BY <2>1, <2>2, <2>3 DEF IInv, ToldMade, server
<1>6. Addressed' /\ Followed' /\ ReadyMade' /\ Awaited'
  BY DEF IInv, Addressed, Followed, ReadyMade, Awaited, server
<1>7. QED
  BY <1>3, <1>4, <1>5, <1>6 DEF IInv

LEMMA PollFailedIInv ==
    ASSUME IInv, NEW t \in Tasks, PollFailed(t)
    PROVE  IInv'
<1> USE DEF PollFailed, screen
<1>1. poll[t] \in Query /\ poll[t].failures = 0
  BY DEF IInv, TypeOK, Counted
<1>2. /\ Failed(poll[t]) \in Query
      /\ Failed(poll[t]).data = poll[t].data
      /\ ~Failed(poll[t]).fetching /\ Failed(poll[t]).error
  BY <1>1, FailedType
<1>3. misses' \in 0..MaxErrors + 1
  BY PollingAssumption DEF IInv, TypeOK
<1>4. TypeOK'
  BY <1>2, <1>3 DEF IInv, TypeOK, server
<1>5. Counted'
  BY <1>2, <1>3 DEF IInv, TypeOK, Counted
<1>6. ToldMade'
  BY <1>2 DEF IInv, TypeOK, ToldMade, server
<1>7. Addressed' /\ Followed' /\ ReadyMade' /\ Awaited'
  BY DEF IInv, Addressed, Followed, ReadyMade, Awaited, server
<1>8. QED
  BY <1>4, <1>5, <1>6, <1>7 DEF IInv

LEMMA CompleteIInv ==
    ASSUME IInv, NEW t \in Tasks, Complete(t)
    PROVE  IInv'
<1> USE DEF Complete, screen
<1>1. \A s \in Tasks : /\ work'[s].of = work[s].of
                        /\ work'[s].state = "unsent" <=> work[s].state = "unsent"
  BY DEF IInv, TypeOK, Work
<1>2. work' \in [Tasks -> Work]
  BY DEF IInv, TypeOK, Work, Verdicts
<1>3. work[t].of \in Analyses
  BY DEF IInv, Addressed
<1>4. TypeOK'
  BY <1>2, <1>3 DEF IInv, TypeOK
<1>5. Counted'
  BY DEF IInv, Counted
<1>6. ToldMade' /\ Addressed' /\ ReadyMade'
  BY <1>1 DEF IInv, ToldMade, Addressed, ReadyMade
<1>7. Followed'
  BY <1>1 DEF IInv, TypeOK, Card, Followed
<1>8. Awaited'
  BY DEF IInv, Awaited
<1>9. QED
  BY <1>4, <1>5, <1>6, <1>7, <1>8 DEF IInv

LEMMA FailIInv ==
    ASSUME IInv, NEW t \in Tasks, Fail(t)
    PROVE  IInv'
<1> USE DEF Fail, screen
<1>1. \A s \in Tasks : /\ work'[s].of = work[s].of
                        /\ work'[s].state = "unsent" <=> work[s].state = "unsent"
  BY DEF IInv, TypeOK, Work
<1>2. work' \in [Tasks -> Work]
  BY DEF IInv, TypeOK, Work, Verdicts
<1>3. TypeOK'
  BY <1>2 DEF IInv, TypeOK
<1>4. Counted'
  BY DEF IInv, Counted
<1>5. ToldMade' /\ Addressed' /\ ReadyMade'
  BY <1>1 DEF IInv, ToldMade, Addressed, ReadyMade
<1>6. Followed'
  BY <1>1 DEF IInv, TypeOK, Card, Followed
<1>7. Awaited'
  BY DEF IInv, Awaited
<1>8. QED
  BY <1>3, <1>4, <1>5, <1>6, <1>7 DEF IInv

LEMMA ForgetIInv ==
    ASSUME IInv, NEW t \in Tasks, Forget(t)
    PROVE  IInv'
<1> USE DEF Forget, screen
<1>1. \A s \in Tasks : /\ work'[s].of = work[s].of
                        /\ work'[s].state = "unsent" <=> work[s].state = "unsent"
  BY DEF IInv, TypeOK, Work, Verdicts
<1>2. work' \in [Tasks -> Work]
  BY DEF IInv, TypeOK, Work
<1>3. TypeOK'
  BY <1>2 DEF IInv, TypeOK
<1>4. Counted'
  BY DEF IInv, Counted
<1>5. ToldMade' /\ Addressed' /\ ReadyMade'
  BY <1>1 DEF IInv, ToldMade, Addressed, ReadyMade
<1>6. Followed'
  BY <1>1 DEF IInv, TypeOK, Card, Followed
<1>7. Awaited'
  BY DEF IInv, Awaited
<1>8. QED
  BY <1>3, <1>4, <1>5, <1>6, <1>7 DEF IInv

LEMMA LoseIInv ==
    ASSUME IInv, NEW a \in Analyses, Lose(a)
    PROVE  IInv'
<1> USE DEF Lose, screen
<1>1. TypeOK'
  BY WidgetAssumption DEF IInv, TypeOK
<1>2. Counted'
  BY WidgetAssumption DEF IInv, TypeOK, Counted
<1>3. ToldMade' /\ Addressed' /\ Followed' /\ ReadyMade' /\ Awaited'
  BY DEF IInv, ToldMade, Addressed, Followed, ReadyMade, Awaited
<1>4. QED
  BY <1>1, <1>2, <1>3 DEF IInv

LEMMA StutterIInv ==
    ASSUME IInv, UNCHANGED vars
    PROVE  IInv'
BY DEF IInv, TypeOK, Counted, Addressed, Followed, ReadyMade, ToldMade, Awaited,
       vars, screen, server

LEMMA NextIInv ==
    ASSUME IInv, [Next]_vars
    PROVE  IInv'
<1>1. CASE Leave
  BY <1>1, LeaveIInv
<1>2. CASE handleRetry
  BY <1>2, RetryIInv
<1>3. CASE \E a \in Analyses : Open(a) \/ Turn(a) \/ Lose(a)
  BY <1>3, OpenIInv, TurnIInv, LoseIInv
<1>4. CASE \E c \in Calls : \/ Generate(c) \/ Download(c) \/ Ready(c)
                           \/ Downloaded(c) \/ CallFailed(c)
  BY <1>4, GenerateIInv, DownloadIInv, ReadyIInv, DownloadedIInv, CallFailedIInv
<1>5. CASE \E c \in Calls, t \in Tasks : Queued(c, t)
  BY <1>5, QueuedIInv
<1>6. CASE \E t \in Tasks : \/ Poll(t) \/ Polled(t) \/ PollFailed(t)
                           \/ Complete(t) \/ Fail(t) \/ Forget(t)
  BY <1>6, PollIInv, PolledIInv, PollFailedIInv, CompleteIInv, FailIInv, ForgetIInv
<1>7. CASE Hide
  BY <1>7, HideIInv
<1>8. CASE UNCHANGED vars
  BY <1>8, StutterIInv
<1>9. QED
  BY <1>1, <1>2, <1>3, <1>4, <1>5, <1>6, <1>7, <1>8 DEF Next

THEOREM Invariance == Spec => []IInv
<1>1. Init => IInv
  BY InitIInv
<1>2. IInv /\ [Next]_vars => IInv'
  BY NextIInv
<1>3. QED
  BY <1>1, <1>2, PTL DEF Spec
-----------------------------------------------------------------------------
(***************************************************************************)
(* The results.                                                            *)
(***************************************************************************)
\* Every variable keeps its type.
THEOREM TypeCorrect == Spec => []TypeOK
<1>1. IInv => TypeOK
  BY DEF IInv
<1>2. QED
  BY <1>1, Invariance, PTL

\* A query with neither a verdict nor an error is on its way or will be asked
\* again.
LEMMA Unfinished ==
    ASSUME IInv, NEW t \in Tasks, poll[t].data \notin Verdicts, ~poll[t].error
    PROVE  Watched(poll[t])
BY PollingAssumption DEF IInv, Counted, Watched, refetchInterval

\* The card is never a dead end, and its spinner never turns for nothing.
THEOREM CardNotStuck == Spec => []NeverStuck
<1>1. ASSUME IInv, page # None
      PROVE  /\ \/ Buttons # {} \/ Watching
                \/ \E c \in Calls : calls[c].mine
             /\ isGenerating => Watching
  <2>1. CASE card.task = None
    <3>1. ~isGenerating
      BY <2>1 DEF isGenerating
    <3>2. CASE card.generate \in {"idle", "queued"}
      <4>1. "generate" \in Buttons
        BY <2>1, <3>2 DEF Buttons
      <4>2. QED
        BY <3>1, <4>1
    <3>3. CASE card.generate = "pending"
      BY <1>1, <3>1, <3>3 DEF IInv, Awaited
    <3>4. CASE card.generate = "error"
      <4>1. "again" \in Buttons
        BY <3>4 DEF Buttons
      <4>2. QED
        BY <3>1, <4>1
    <3>5. CASE card.generate = "ready"
      <4>1. isReportReady
        BY <3>5 DEF isReportReady
      <4>2. CASE card.download = "pending"
        BY <1>1, <3>1, <4>2 DEF IInv, Awaited
      <4>3. CASE card.download # "pending"
        <5>1. "download" \in Buttons
          BY <4>1, <4>3 DEF Buttons
        <5>2. QED
          BY <3>1, <5>1
      <4>4. QED
        BY <4>2, <4>3
    <3>6. QED
      BY <1>1, <3>2, <3>3, <3>4, <3>5 DEF IInv, TypeOK, Card
  <2>2. CASE card.task # None
    <3>1. card.task \in Tasks /\ Status = poll[card.task]
      BY <1>1, <2>2 DEF IInv, TypeOK, Card, Status
    <3>2. CASE isReportReady
      <4>1. ~isGenerating
        BY <3>2 DEF isGenerating
      <4>2. CASE card.download = "pending"
        BY <1>1, <4>1, <4>2 DEF IInv, Awaited
      <4>3. CASE card.download # "pending"
        <5>1. "download" \in Buttons
          BY <3>2, <4>3 DEF Buttons
        <5>2. QED
          BY <4>1, <5>1
      <4>4. QED
        BY <4>2, <4>3
    <3>3. CASE isFailed
      <4>1. "retry" \in Buttons
        BY <3>3 DEF Buttons
      <4>2. ~isGenerating
        BY <3>3 DEF isGenerating
      <4>3. QED
        BY <4>1, <4>2
    <3>4. CASE ~isReportReady /\ ~isFailed /\ Status.error
      <4>1. "over" \in Buttons
        BY <2>2, <3>4 DEF Buttons
      <4>2. ~isGenerating
        BY <3>4 DEF isGenerating
      <4>3. QED
        BY <4>1, <4>2
    <3>5. CASE ~isReportReady /\ ~isFailed /\ ~Status.error
      <4>1. Watching
        BY <1>1, <2>2, <3>1, <3>5, Unfinished
           DEF Watching, isReportReady, isFailed, Verdicts
      <4>2. QED
        BY <4>1
    <3>6. QED
      BY <3>2, <3>3, <3>4, <3>5
  <2>3. QED
    BY <2>1, <2>2
<1>2. IInv => NeverStuck
  BY <1>1 DEF NeverStuck
<1>3. QED
  BY <1>2, Invariance, PTL

\* A report is offered only if one was made, for the analysis on the screen or
\* for another that the card was shown for.
THEOREM OfferedReportsWereMade == Spec => []OfferedWasMade
<1>1. ASSUME IInv, page # None, isReportReady
      PROVE  shown \cap made # {}
  <2>1. CASE card.generate = "ready"
    <3>1. page \in shown /\ page \in made
      BY <1>1, <2>1 DEF IInv, Addressed, ReadyMade
    <3>2. QED
      BY <3>1
  <2>2. CASE Status.data = "completed"
    <3>1. card.task \in Tasks /\ poll[card.task].data = "completed"
      BY <1>1, <2>2, NoneIsNoAnswer
         DEF IInv, TypeOK, Card, Status, NoQuery, Answers, Verdicts
    <3>2. work[card.task].of \in shown /\ work[card.task].of \in made
      BY <1>1, <3>1, WidgetAssumption DEF IInv, Followed, ToldMade
    <3>3. QED
      BY <3>2
  <2>3. QED
    BY <1>1, <2>1, <2>2 DEF isReportReady
<1>2. IInv => OfferedWasMade
  BY <1>1 DEF OfferedWasMade
<1>3. QED
  BY <1>2, Invariance, PTL
=============================================================================
