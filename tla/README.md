# Contract Clause Reviewer: TLA+ models and proofs

The program is a FastAPI backend (`src/app/`), Celery workers that analyse documents
and render reports, PostgreSQL, Redis (broker, result backend, rate limiter), and a
React client (`src/frontend/src/`). This directory models the parts where several
actors change shared state, checks them with TLC on small instances, and proves the
main safety properties with TLAPS for every value of the constants.

    tlc -config tokens_concurrent.cfg MCRefreshTokens     # one of the runs below
    tlapm RefreshTokensProofs.tla                         # one of the proof modules

Contents: 1 inventory · 2 plan · 3 modules and code · 4 runs · 5 fairness · 6 proofs ·
7 statements TLC refutes · 8 what is not modelled · 9 limits.

## 1. Inventory

| part | state | operations | hard behaviour |
|---|---|---|---|
| Refresh-token service (`core/security.py`, `services/auth.py`, `api/auth.py`) | table `refresh_tokens`, `users.is_active` | login, refresh (verify, verify again, rotate), logout, expire sessions, nightly clean-up | every request has a session of its own (READ COMMITTED) and commits after its response was sent, so what it read may be stale when it writes |
| Document analysis (`tasks/document_tasks.py`, `services/analysis.py`, `core/celery.py`) | message in Redis, result in Redis (60 s), tables `analysis` and `clause` | queue, start, analyse, check, two commits, return, acknowledge, poll, delete | dead workers, killed processes, lost broker connections, messages delivered again or too late, forgotten results |
| Reports (`tasks/report_tasks.py`, `services/reports.py`, `tasks/cleanup_tasks.py`) | row (`report_stored`, `report_path`, `report_task_id`), file on disk, message, result | generate, poll with fallback update, render and write, delete, two clean-up tasks | row and file change without a transaction over both; several writers of one file; stale ORM objects |
| Rate limiter (`infrastructure/redis/`) | a sorted set and an expiry per key | one MULTI/EXEC per request | clock read before the transaction; one entry per second; refused requests counted |
| Status polling (`features/*/hooks.ts`) | TanStack Query's data, error and count of failures | poll every two or five seconds while the page is in front, stop at the end or (as is meant) after three failures | failed and refused polls; a count that the library restarts with every poll; results that are forgotten before they are told |
| Query cache (TanStack Query 5) | per key: data, error, staleness, the fetch on its way | fetch, answer, observe, invalidate, clear | an answer that was on its way when its data changed |
| Web session (`lib/api/auth-interceptor.ts`, `client.ts`, `lib/auth/auth-provider.tsx`, `storage.ts`) | tokens in localStorage, `isRefreshing`, `refreshSubscribers`, the provider's status | API call, 401, refresh, retry, queue, restore, login, logout, reload | calls overlap; everything can happen between a request and its answer |
| Pages, guards, forms (`router.tsx`, `pages/`, `lib/auth/`, `features/*/components/`) | route, user and status of the provider, what forms say, the query cache | navigate, sign in and out, rename, change password, submit a contract, wait for its analysis | answers that come on another page, or in another session, than the form that asked |
| Report card (`features/reports/components/report-widget.tsx`) | task id, two mutations, the polled query | generate, download, retry, start over | seven conditions decide what is rendered; pages go, or change with the card kept, while requests are on their way |
| Administrators' page (`pages/admin/users-page.tsx`, `features/users/`) | box, filters, page number, open dialog, cached lists | search (debounced), filter, turn pages, four dialogs | placeholder lists, overlapping timers, answers and changes |
| User administration (`api/users.py`, `services/users.py`, `db/seed.py`) | table `users` | create, update, rename, soft delete, change password, seed | check-then-insert across an await; the last administrator |
| Access tokens, roles (`api/deps.py`) | none (a signed token) | authenticate, require active, require admin | the user is read once per request |
| Lists (`core/filters/`, repositories) | none | filter, order, page | boundaries of pages; rows that move between two pages |
| Logging (`infrastructure/logging.py`) | a bounded queue and its listener thread | enqueue, handle, flush, shut down | queue at its limit; shutdown while records arrive |
| Analyzer, rendering | none | call the LLM, cut the text, parse; render HTML to PDF | pure, apart from failing |

How they interact: the API sends messages to the workers through Redis and never
waits for them; workers write rows (and files) that the API reads; the client learns
the end of a task only by asking, through the rate limiter, with an access token that
may expire between two questions, which starts the refresh of the web session, which
rotates a row of the token table. Celery Beat sends the clean-up tasks, which delete
rows and files under the feet of all the others.

What makes each part correct: a session is opened by a login only, never prolonged by
rotation, and closed for good; a document is analysed and saved once and every task
ends with a verdict; a row never announces a report that was not written, and neither
dangling rows nor orphaned files stay (with the queues as deployed they do, section 7);
the limiter forgets nothing that counts and
forgives a quiet client; the client never presents an exchanged refresh token and
leaves no call waiting; its pages show what their guards allow and what belongs to who
is signed in, come to rest on what they were asked for, and never leave a user with
nothing to press and nothing to wait for.

The hazards, each at its line with the properties that watch it, are in
`PROJECT.json` under `hazards`.

## 2. Plan

Order, most important behaviour first; the composition and the abstract
specification are named where there is one.

| module | extends / instantiates | state |
|---|---|---|
| `RefreshTokens`, refines `Session` | `Session` as abstract specification | done, proved |
| `AnalysisTask`, refines `AnalysisJob` | `AnalysisJob` | done, proved (liveness by TLC) |
| `ReportLifecycle` | – | done, safety proved |
| `RateLimiter` | – | done, proved |
| `WebSession` | – | done, safety proved |
| `UserAdmin` | – | done, proved |
| `StatusPolling`, `QueryCache` | operators: the polled query, an entry of the query cache | done |
| `ReportWidget` | extends `StatusPolling` | done, safety proved |
| `UsersPage` | instantiates `QueryCache` for its lists | done, safety proved |
| `WebPages` | composes guards, session, forms, `StatusPolling` and `QueryCache` (INSTANCE) | done, safety proved |
| `LogPipeline` | – | not written: records are dropped at the limit by design, and nothing reads them back |

Every safety property of a run is a theorem now, both refinements included. What could
be proved beyond them are more statements of section 7 under hypotheses, as section 6 has
seven of them: `LoggedOutIsGone` comes next.

## 3. Modules and code

Every definition that models code is mapped to its lines in `PROJECT.json` (`map`).
Operators whose comment begins with "Mutant:" are broken variants of the definition
that follows them; no specification uses them. They document which plausible bug each
property notices.

**`RefreshTokens`** (abstract: `Session`). `data` is what each issued token is (the
columns that never change, plus two history fields: the login's token it descends
from and the token it was rotated from), `stored` and `revoked` the rows, `req` the
requests in progress with the writes of their ORM sessions. A refresh is
`RefreshVerify`, `RefreshReverify`, `RefreshRotate` and `Commit`, because the code
runs three SELECTs and commits in `get_db` after the response; a login is `LoginRead`
and `LoginCreate` with the hashing of the password in between. `Commit` requires the
rows it updates: SQLAlchemy raises StaleDataError otherwise and the request is an
`Abort`, which also stands for a crash or a database error at any point. `Session`
says the same without tokens: a session opens once and stays closed once closed.

**`AnalysisTask`** (abstract: `AnalysisJob`). `message`, `expires` and `hidden` are the
broker's view, `result` and `ttl` the result backend's, `analysis` the table, `job` the
pool processes. `Start` to `Ack` follow the task body, with its two commits as two
actions; `Crash`, `KillProcess`, `LoseConnection`, `Restore` and `Revoke` are Celery's
and the Redis transport's, modelled from how the code configures them (`acks_late`,
`expires=120`, `task_time_limit`, the default visibility timeout of an hour) and marked
external where there is no line. `AnalysisJob` knows tasks only as open, closed and
saved so many times, and counts the connections that busy workers lost: each allows one
copy more. `Fail` is the `except Exception` of the body, which
returns a dict, so Celery records a SUCCESS. `Status` is the endpoint's reading of
that, and `told` what the client keeps. Time is counted down per message, so nothing
but `losses` needs a bound.

**`ReportLifecycle`**. `exists`, `stored` and `current` are the row, `file` the PDF
("partial" after `open(..., "wb")` truncated it, "linked" of a job whether the name
still leads to the file it has open), `req` the endpoints with the copy of the row
their session loaded (`saw`: a later SELECT of that session returns the same object,
`expire_on_commit=False`), `cleaner` either clean-up task. A generation looks for the
report twice; `GenerateExists` is the second look that finds it, after which the client
holds the name of no task and is told "failed". `QueueOf` is `task_routes`,
and the constant `Queues` the worker's `-Q`. Updates write changed columns only.
`report_path` is always written together with `report_stored` and is a function of the
analysis, so it has no variable.

**`RateLimiter`**. One key. (Its specification is `LimiterSpec`, with names of its own,
since `ClientProofs` extends it together with `WebSession`.) `Arrive` reads the clock,
`Execute` is the transaction;
`MaxDelay` bounds the time between. `admitted` counts what was let in, per second, as
history; `entries` and `keyExpires` are what Redis has.

**`StatusPolling`** has no variables: it says what a poll, its answer and its failure do
to a query, and when `refetchInterval` asks for another poll. `failures` is the
`fetchFailureCount` the hooks read. TanStack Query sets it to 0 whenever a fetch starts
(`Fetched`), and with `retry: false` a fetch has one attempt.

**`QueryCache`** is one entry of the cache: what fetching, answering, observing and
invalidating do to it. `since` and `request` keep how the data, and the answer on its
way, relate to the last change the client knows of. The library is not part of the
repository; its behaviour is modelled as the hooks use it, and marked external.

**`ReportWidget`**. `card` is the component's state (its task and two mutations), `poll`
the query of each task, `calls` the generations and downloads on their way. `here` says
that the component which sent a call is mounted still, so that its `onSuccess` reaches the
card, `mine` that a mutation of the card waits for it. `Buttons` is what is rendered, one
disjunct per condition of the JSX. `Open`, `Leave`, `Generate`, `Download` and
`handleRetry` are the user's; `Turn` is a step in the history from one analysis to another
that is cached: the route renders the same, unkeyed component with another `analysisId`,
so the task stays and the mutations, whose keys name the analysis, are reset. `Hide` puts
another tab in front and back: TanStack Query does not fetch on an interval meanwhile.
`Queued`, `Ready`, `Downloaded` and `CallFailed` are the answers; `Queued` has the second
check of `queue_report_generation`, which hands out the name of no task. The server is
reduced to `work`, `named` (`report_task_id`) and `files`; `Told` is the status endpoint,
`Forget` the expiry of a result. `shown` has the analyses this card was shown for.

**`UsersPage`**. `ui` is the page's `useState`s and the debounced value, `last` the list
kept by `placeholderData`, `dialog` the one open dialog, `sent` the changes on their
way. `Render` is the hook with the page's current parameters, so each handler ends in
it. The four dialogs differ in fields, payload, field names and whether they invalidate
(`CreateUserDialog` … `ResetPasswordDialog`); `handleFormError` maps a 422 to fields or
to an alert. A list is known by its number of pages.

**`WebPages`**. `location` is the route and the `from` of its state, `auth` the
provider's user and status, `cache` the query cache, `calls` the forms' requests,
`work` the analysis tasks. `Render` ends every step: it applies the guards
(`AppRoutes`, with `RequireRole`, `GuestRoute` and the redirect of the status page),
fetches what the new page observes, and forgets the forms that are gone. `expired` has the
tasks whose result the server has forgotten, `hidden` is as in `ReportWidget`. `SignIn`,
`SignInRefused`, `Renamed`, `Submitted` are the callbacks given to `useMutation`, which
run whether their page is there or not; `Forget` is the end of a session.

**`WebSession`**. One record per API call of a tab: its stage, what it carries and the
answer on its way. Token pairs are numbered as the server issues them. The server is
reduced to what the client can tell apart: a refresh token is accepted once (`live`),
an access token until it expires (`fresh`). `Lead`, `Subscribe`, `Refreshed` and
`GiveUp` are `handleAuthError`; `Restore`, `Login`, `Logout` the provider's functions;
`Reload` drops a page with everything it waited for, and an exchange on its way may or
may not still reach the server. `mixed` remembers that the last login was answered while
calls of an earlier session were under way.

**`UserAdmin`**. `users` is the table, `page` what a client has (whose session, and the
username in its access token, None once expired), `req` a request with the copy of the
account it was authenticated as. `Authenticate` is the chain up to `get_current_user`,
`MayUse` and `MayAdministrate` are `require_active` and `require_admin`, which decide
by that copy. A handler that changes an object leaves the columns that differ from the
*loaded* values in `write` (`Answer`, `Changed`), and `Commit` writes those. The
handler loads the row itself, the requester's own included: authentication keeps the
values of the object it loaded and drops the object, which the session holds weakly.
So what a request may do can be older than the row it changes. `Leave` ends a request that
was refused, only read, changed nothing or
failed. `Restart` is a crash of the one API process (granian without workers) and
`seed_admin_user`, which looks for the *name* of the administrator.

**`MC*`** modules instantiate for TLC and add the symmetry sets. **`*Proofs`** hold the
theorems.

## 4. Runs

| run | instance | distinct states | question |
|---|---|---|---|
| `tokens_concurrent` | 1 user, 2 requests, 3 tokens, lifetime 1, clock to 2 | 136,634 | what survives every overlap of two requests, with clean-up, crashes and the clock; does every session and every row end |
| `analysis_safe` | 2 documents, 2 processes, 2 ids, one lost connection | 1.04 million | paid once, saved once, never settled without a verdict |
| `analysis_live` | 2 documents, 1 process, one lost connection | 812,338 | is every submitted document settled, whatever crashes |
| `report_safe` | 1 analysis, 2 tasks, 2 processes, 2 requests, queues as deployed | 847,147 | does the row tell the truth about reports that were made |
| `report_live` | 1 of each, one crash, default queue consumed (so that clean-up interferes) | 14,878 | does every report task come to an end |
| `limiter_safe` | limit 2 in 4 seconds, 2 requests, delay 1 | 18,629 | what is bounded and forgiven |
| `web_session` | 1 tab, 2 calls, 3 pairs, 1 reload | 418,782 | is the single flight single, and is nobody left behind |
| `user_admin` | 2 accounts, 3 names, 2 roles, 1 client, 2 requests | 742,472 | what survives overlapping administrators, stale copies and restarts |
| `report_widget` | 2 analyses, 2 tasks, 2 requests, 5 clicks, cap of 2 | 841,457 | is the card ever a dead end, or wrong about its report |
| `polls_forever` | 2 analyses, 1 task, 2 requests, 2 clicks, cap of 3 | violation | does polling stop after three failures |
| `users_page` | 2 searches, 2 filters, 2 pages, 2 changes on their way, 3 inputs | 40,066 | does the page come to rest on what it was asked for |
| `web_pages` | 2 users, 1 administrator, 1 task, 2 requests, 6 inputs | 350,433 | what late answers, redirects and ends of sessions can show, and to whom |

Safety, one line each: `RotatedIsSpent` – old row and new row change together;
`AbsoluteExpiry` – rotation prolongs nothing; `SpentForever` – no commit revives a row;
`RefinesSession` – the abstract session. `RunsBounded` – the model's API is paid once,
plus lost connections; `RefinesJob` – saved once, plus lost connections, and closed for
good; `FailedIsFinal` – while no busy worker loses its connection; `SettledHasVerdict`,
`CompletedIsSaved` – always. `StoredWasWritten`,
`CompletedIsRecorded` – rows against files and results. `SecondsBounded`,
`QuietIsForgiven` – the limiter. `FlagHasLeader`, `NoReplay`, `InSync`, `RetriesWithNewToken`,
`QueueServed` – the client; `QueueServed` is an action property: the step that ends a
refresh takes every waiting call out of the queue. `UniqueNames`,
`FirstChangesPassword`, `NothingUndone` (no commit undoes another's), `LastAdminKept` –
the accounts. `NeverStuck` – the card offers a button or has something to wait for;
`OfferedWasMade` – a report is offered only if one was made, for the page's analysis or,
where the card was kept, for another it was shown for.
`ChangesSeen` – no list from before a change passes for fresh; `AnswerFindsItsDialog` –
no answer closes another form; `TellsWhy` – no refusal goes unexplained. `Guarded` – pages
and their guards; `OwnData` – nothing
of one session is left to the next.

Liveness: `SessionEnds`, `RowsPurged`; `RefinesFairJob`; `TasksSettle`; `EndShows` – the
end of the card's task comes to show, as a verdict or as an error with "Start over";
`ListFollowsBox` – the page comes to rest on the list its box names; `StatusLeadsOn` –
who waits for an analysis is led to it, or sees that a poll failed and another follows.
The two about polling except a page that is left or in the background, and a result that
the server forgot before a poll was answered: there the code promises nothing (section 7).

**Why the bounds are enough.** Two actors of each kind are needed for every race these
parts can have, and a third repeats the roles of the first two: each race is between
one reader with stale data and one writer. Three tokens make a login and two
rotations, so that a grandparent exists. A lifetime of one tick puts the expiry
between any two steps; the clock goes one tick further, to see what happens after it.
Expires 1 and Visibility 2 in `analysis_safe` keep the order of 120 seconds and an
hour, which is all the code's numbers decide (`Expires < Visibility` is the assumption
of the module). A window of four seconds with a delay of one has entries inside, at
the border of and outside the window; clock 7 sees a key expire and come back. Three
pairs let a session be refreshed once on top of a second login, or twice. Other bounds
are named in the constants: `MaxLosses`, `MaxCrashes` (deaths of a report worker, whose
message has no expiry and returns each time; with three processes, four ids and two
losses, 7.4 million states, `RefinesJob` holds as well), `MaxBurst`, `MaxTime`, `MaxPairs`,
`MaxReloads`, `MaxClicks` and `MaxInputs` (what a user does). Failed polls and lost files
are not bounded. In `user_admin` two accounts and three names let two creations
or renamings meet at one name, two administrators delete each other, and a restart
seed the administrator a second time; the client's one token can be stale, expired or
reissued between any two steps of the two requests. Five clicks in `report_widget` open
two pages, turn from one to the other, and leave two buttons: a generation and a second
one, a retry or a download. A report can be made, its page left and opened again, and a
second generation be answered "ready" after a turn to the other page. The cap is two there,
so that `misses` has fewer values: the properties do not depend on it, as long as one
failure does not reach it. `polls_forever` has the three of the code. Six inputs in
`web_pages` are a login, a submission, a link, a logout, the other user's login and one
more. Three inputs in `users_page` turn a page or change the box twice while a change
is on its way, or send two changes; timers, answers, failures and ageing are not
inputs and happen at any time.

**Symmetry** is used by runs of invariants, action properties and safety refinements
only: `analysis_safe`, `report_safe`, `limiter_safe`, `web_session` and `user_admin`. No
run that checks liveness uses it.

**`CHECK_DEADLOCK FALSE`** stands where the model stops by design: the limiter's clock
ends; the client of `web_session` runs out of pairs; in `report_widget`, `polls_forever`
and `web_pages` the user has no clicks or inputs left; and in `report_safe`, where no
clean-up runs, the program is at rest once every task has ended, its result has expired
and no request comes. In `user_admin` every account may be disabled or renamed while
nobody is logged in; the program would then answer 401 until it is restarted, and a
restart may need an account beyond the bound.

**Finding.** `polls_forever`: both hooks stop polling once `fetchFailureCount` has
reached three, and the README of the program says polling "caps at 3 consecutive
failures". The library counts the failures of one fetch, and a poll is one attempt, so
the count is never more than one and polling never stops while it fails.

## 5. Fairness

- `RefreshTokens!FairSpec`: the clock runs, and the clean-up is run when there is
  something to delete (Beat sends it every night to queue `cleanup`, which the worker
  consumes). Requests are owed nothing: a client may stop, a request may die.
- `AnalysisTask!Fairness`: a process goes on with the task it has (the soft and hard
  time limits end any that would not), idle processes fetch messages, the broker
  restores, time passes. Crashes are not bounded: a message is at most run until its
  `expires` is over, then revoked, which is why `RefinesFairJob` holds.
- `ReportLifecycle!Fairness`: handlers and processes go on; messages are fetched; a
  clean-up that was started continues; strong fairness for *starting* a clean-up
  (Beat's schedule comes again and again, between other work), for ageing, and for
  the removal of a file (the disk does not refuse for ever). The clean-up tasks have
  their queue as a guard: with the queues of the Docker image they are never enabled
  and fairness gives them nothing. Nobody has to make a request.

- `UsersPage!FairSpec`: the debounce timer fires, and a list that was asked for is
  answered or fails (the HTTP client has a timeout). The user is owed nothing, and
  neither are changes.
- `ReportWidget!FairSpec`, `WebPages!FairSpec`: the polling timer fires while its page is
  there and in front, and a poll is answered or fails (the HTTP client has a timeout). It
  may fail each time, as it does at the limiter of the report endpoints (ten requests a
  minute, refused ones counted, against thirty polls). Tasks need not end, nor hidden tabs
  come back.

## 6. Proofs

All eight proof modules are checked by tlapm with SMT (Z3), Zenon and LS4. Each has the
same shape: an inductive invariant `IInv`, one lemma per action that it is preserved
(one step per conjunct), `NextIInv` that puts the actions together, `Invariance`, and
one short theorem per property. The properties were checked with TLC first.

| module | assumptions | inductive invariant beyond the properties themselves | theorems |
|---|---|---|---|
| `RefreshTokensProofs` | `TokensAssumption` | `Custody`: an uncommitted row has one owner, a token that can be rotated is in nobody's hands, a waiting rotation will revoke what it rotated. For requests that do not overlap: `Lineage` (what a request inserts descends from what it holds), `Single`, `Ending` | `TypeOK`, `AbsoluteExpiry`, `RotatedIsSpent`, `Custody`, `SpentForever`, and every step of the service is a step of `Session` (`RefinesSession`); `OneUsablePerFamily` and `EndedStaysEnded` under `RotatesAlone`, `EndsAlone` |
| `AnalysisTaskProofs` | `AnalysisAssumption` | `JobLinks`, `Held` (a message some process can acknowledge is on that process alone and hidden), `Fresh` (what is old enough to be restored is too old to run), `Verdict`, `SavedFirst`; `OneRun` and `Ended` while no connection was lost; `RunsPay` (inserts made, and runs that may still insert, are no more than the runs), `Sent` (what is worked on was submitted) | `TypeOK`, `RunsBounded`, `SettledHasVerdict`, `CompletedIsSaved`, `OneAnalysis`, `FailedIsFinal`, `SavedBounded` (at most one analysis more than lost connections), and every step is one of `AnalysisJob` or none (`RefinesJob`), for any number of losses |
| `ReportLifecycleProofs` | `ReportAssumption` | `Links` (ids and analyses stay attached), `WrittenFirst` (whoever can announce a report comes after its PDF), `RecordedFirst` (without clean-up, a process that found the row set can rely on it); under the hypotheses below `Whole`, `Missing`, `Named` | `TypeOK`, `StoredWasWritten`; `CompletedIsRecorded` if `"celery" \notin Queues`, as deployed; `ServedIsWhole` under `WrittenOnce`, `ClearedWasMissing` under `ClearsAlone`, `HandedOutIsFound` under `RequestedOnce` |
| `ClientProofs` | `WebAssumption`, `LimiterAssumption` | session: `Numbered`, `Unseen` (a new pair on its way is in nobody's hands), `RestoresAlone` (nothing else of a page runs while it restores its session), `KeptIsNew` (what is kept was exchanged only if that answer is on its way), `Newest` (for one tab: what is kept is the newest pair, or its exchange is on its way or was lost, unless the last login was mixed with calls of an earlier session). Limiter: what was let in, and what is stored, arrived; a request is at most `MaxDelay` old; the key outlives its entries | `TypeOK`, `FlagHasLeader`, `RetriesWithNewToken`, `QueueServed` for any tabs; `NoReplay` under `Apart`, hence for one tab; `InSync` for one tab. `LimiterTypeOK`, `RecentIsStored`, `SecondsBounded` (a counting argument over a window), `QuietIsForgiven` |
| `UserAdminProofs` | `AdminAssumption` | `Reading` (a loaded copy belongs to a stored account, which still needs no new password if the copy needs none), `Writing` (a waiting write has only the columns its operation may change), `Entitled` (who asked has replaced his password), `KeysDiffer` (two waiting creations have different keys) | `TypeOK`, `UniqueNames`, `FirstChangesPassword`, `NothingUndone`, `LastAdminKept` |
| `ReportWidgetProofs` | `PollingAssumption`, `WidgetAssumption` | `Counted` (no failures without an error), `Addressed` (what a mutation waits for is about the page, what may still reach the card about an analysis it was shown for), `Followed` (so is the task the card follows), `ReadyMade`, `ToldMade` (a task that was called completed left a report), `Awaited` (a pending mutation is on its way) | `TypeOK`, `NeverStuck`, `OfferedWasMade` |
| `UsersPageProofs` | `PageAssumption` | per list `Sound` (one from before a change is stale, nothing on its way passes for such) and, for the one on the screen, `Attended`; `OneOfPage` (one change at most is the page's) | `TypeOK`, `ChangesSeen`, `AnswerFindsItsDialog`, `TellsWhy` |
| `WebPagesProofs` | `PagesAssumption`, `PollingAssumption` | `Fits`: place, session, cache, calls and tasks fit together; what is cached, and what is on its way to the cache, is the session's (`OwnedBy`) | `TypeOK`, `Guarded`, `OwnData`; `HeaderIsOwn` under a hypothesis (below) |

Why the strengthenings are needed. `RotatedIsSpent` speaks of committed rows, but it is
kept by a transaction that is still open, so the invariant must say what each open
transaction will write and that nobody else writes the same row. `RunsBounded` rests
on time: a message that comes back is at least `Visibility` old, hence expired; `Fresh`
states that relation for messages that are still hidden. `StoredWasWritten` is kept by
writers that lag behind the write (a loaded row, a result, a fallback), so
`WrittenFirst` follows the fact through all of them. `NoReplay` speaks of what is
presented, but a page that stores an answer presents it next: so a pair must be nobody's
while its answer is on its way (`Unseen`), also when it is lost there. `OneAnalysis` is
about rows; `RunsPay` counts the processes between the check and the insert as well,
for each of them may have found nothing.

What is proved of statements that TLC refutes. Seven of section 7 hold while one kind of
overlap does not happen. The hypothesis forbids the overlap of the counterexample, so
that the theorem says what is to blame; everything else (crashes, failures, clean-up,
other overlaps) goes on:

| statement | theorem | hypothesis |
|---|---|---|
| `OneUsablePerFamily` | `ForkNeedsOverlap` | `RotatesAlone`: no two refreshes with the same token are in progress at once |
| `EndedStaysEnded` | `ReopeningNeedsOverlap` | that, and `EndsAlone`: no refresh of a session is in progress while a logout or an expiry of it is |
| `NoReplay`, any tabs | `ReplayNeedsOverlap` | `Apart`: no two exchanges are under way at once. One tab has no two (`OneTabApart`): its calls queue, and a restoring page makes none |
| `ServedIsWhole` | `TruncationNeedsRewrite` | `WrittenOnce`: no run writes a report that was written before, and no two have one file open. The first run may fail, be killed or be delivered again |
| `ClearedWasMissing` | `WrongClearNeedsOverlap` | `ClearsAlone`: no run has a file open whose row is between the SELECT and the commit of clean-up |
| `HandedOutIsFound` | `LostIdNeedsSecondRequest` | `RequestedOnce`: one task per analysis |
| `HeaderIsOwn` | `WrongNameNeedsLateRename` | `RenamesOwn`: no rename of one user is on its way while another is signed in. It may be answered after a logout, and a late login may replace a session |

TLC checked each hypothesis with its invariant on instances like those of section 7, and
that the hypotheses leave the interesting states reachable (reports made after a crash,
sessions ended, pairs replaced).

`NeverStuck` needs `Awaited`, because a pending mutation disables its button,
and `Counted`, because a query that has failed may have no more polls. `OwnData` is not
inductive: the profile that is asked for before a logout is answered after it, so
`OwnedBy` speaks of the fetch on its way and of whose token it was sent with. In
`WebPagesProofs` the invariant takes place, session, cache and calls as arguments:
`RenderStep` proves once that rendering what fits together keeps it so, and each action
shows that what it renders fits.

Theorems about definitions that no run checks, since the theorem says more: `TypeOK` of
all modules but `WebSession` and `ReportWidget`, `LimiterTypeOK`, `Custody`,
`RecentIsStored`, `OneAnalysis` (which `RefinesJob` implies),
`SavedBounded`, and the seven above.

Model-checked only: liveness and everything with ENABLED (`SessionEnds`, `RowsPurged`,
the fairness half of `RefinesFairJob`, `TasksSettle`, `EndShows`, `ListFollowsBox`,
`StatusLeadsOn`), which the prover does not do. No module declares a RECURSIVE operator, and nothing is
claimed about recursive definitions for all inputs, which would need the induction
theorems the installed provers cannot instantiate.

## 7. Statements TLC refutes

The modules also define statements that comments, docs or a reader's expectation
suggest and that the code does not keep. One is a run (section 4). The others are
refuted in a few seconds with these constants, and mark the edge of what the
properties above can claim. For seven of them section 6 names the theorem that says when
they hold.

| statement | constants | behaviour |
|---|---|---|
| `OneUsablePerFamily` (`ForkNeedsOverlap`) | Users={u1}, Requests={r1,r2}, Tokens={t1,t2,t3}, Lifetime=1, MaxTime=2 | two refreshes verify one token, both succeed, two tokens are usable |
| `EndedStaysEnded` (`ReopeningNeedsOverlap`) | the same with Tokens={t1,t2} | a refresh that verified earlier commits after expire_user_sessions |
| `AnsweredIsPersisted` | Requests={r1}, otherwise the same | the response leaves before get_db commits |
| `FailureRetried` | AnalysisTask: one task, process and id, Expires=2, Visibility=3, ResultTTL=1, MaxLosses=0 | the body swallows the exception, max_retries never applies |
| `FailedNotCompleted` | the same | a task that fails while saving its clauses has committed the analysis and returns "failed" inside a SUCCESS; the endpoint sees SUCCESS and a row: "completed", without clauses |
| `SettledIsTerminal` | the same | a revoked task is answered "pending" |
| `DurableVerdict` | the same | a minute after its end a saved analysis is "pending" |
| `CrashRecovered` (FairSpec) | the same with two processes | the restored message has expired, no other process runs it |
| `OneAnalysis` without "losses = 0" | two processes, two ids, MaxLosses=1 | two deliveries both check, both insert; never more than one row per loss (`CopiesBounded`) |
| `ServedIsWhole` (`TruncationNeedsRewrite`) | ReportLifecycle: 1 analysis, 2 tasks, 2 processes, 1 request, Queues={"analysis","cleanup"}, MaxCrashes=0 | a second task truncates the announced file |
| `HandedOutIsFound` (`LostIdNeedsSecondRequest`) | 2 tasks, 1 process, 2 requests, the same queues | the second request overwrites report_task_id |
| `ClearedWasMissing` (`WrongClearNeedsOverlap`) | 2 tasks, 1 process, 1 request, Queues with "celery" | the file is written between the clean-up's check and its commit |
| `DeleteIsComplete` | 1 of each, queues as deployed, CHECK_DEADLOCK FALSE | a task under way writes the file after the deletion, or its removal failed |
| `DanglingRepaired`, `OrphansPurged` (FairSpec), as deployed | 1 of each, Queues={"analysis","cleanup"}, MaxCrashes=0, CHECK_DEADLOCK FALSE | the clean-up tasks for reports have no entry in `task_routes` and go to a queue the worker of the Docker image does not consume, although `docs/background-processing.md:72-76` lists them under the clean-up queue. With `"celery"` among the queues both hold |
| `LimitHolds` | RateLimiter: 1 request, MaxRequests=2, Window=3, MaxDelay=0, MaxBurst=3, MaxTime=4 | requests of one second are one entry |
| `RetryAfterHelps` | the same with MaxBurst=1, MaxTime=6 | Retry-After is zero, and the refused request is entered |
| `LoggedOutIsGone` | WebSession: 1 tab, 2 slots, MaxPairs=3, MaxReloads=1 | a refresh on its way stores its tokens after the logout; a login whose profile fails keeps them |
| `NewestKept` | as in `web_session` | a login is answered while calls of an earlier session are under way: one of them gives up and clears the new tokens, or stores its own pair over them (`InSync` excepts it by `mixed`) |
| `LogoutOnlyIfRefreshFails` | the same | the refresh succeeds, the leader's retry fails, the user is logged out |
| `QueuedHaveLeader` | WebSession: 1 tab, 2 slots, MaxPairs=2, MaxReloads=0 | a 401 that arrives while the leader repeats its call is queued after the queue was served |
| `TokenNamesOwner` | UserAdmin: 2 accounts, names root and n1, n2, 1 client, 1 request, CHECK_DEADLOCK FALSE | after a renaming a restart seeds an account with the old name, which the old token names |
| `AdminRemains` | the same | the only administrator disables himself with update_user |
| `CreatedIsStored` | the same | the account is answered, then the commit fails |
| `NoReplay` of two tabs (`ReplayNeedsOverlap`) | Tabs={t1,t2}, Slots={s1}, MaxPairs=3, MaxReloads=0 | the tabs share the storage but not the queue |
| `OfferedIsOwn` | ReportWidget: as in `report_widget` | a step in the history from one analysis to another keeps the card and its task (`analysis-detail-page.tsx:120` has no key), and the report of the first is offered on the page of the second. The program's README (line 421) speaks of "a fresh component instance" |
| `EndIsTold` (FairSpec) | the same with MaxClicks=2 | every poll is refused or the tab is hidden; a failed task's result is forgotten after a minute, and the status is "pending" for ever. `hooks.ts:11-13` polls "until it reaches a terminal state" |
| `AlwaysLedOn` (FairSpec) | WebPages: as in `web_pages` with MaxInputs=3 | the result expires before a poll was answered, and the status page polls "pending" for ever |
| `DashboardShowsFinished` | WebPages: as in `web_pages` | the profile stays fresh for ten minutes and no submission invalidates it: the dashboard does not list an analysis that has finished |
| `HeaderIsOwn` (`WrongNameNeedsLateRename`) | the same | a rename is answered when another user is signed in, and gives him its name |

The models of the pages also contain, as what the code does and no statement forbids:

- A first fetch that is on its way when a change succeeds is not cancelled by
  `invalidateQueries` and counts as fresh when it is answered (`QueryCache!Refetched`;
  `docs/frontend.md` says mutations invalidate the lists). `ChangesSeen` excepts it.
- The edit dialog sends all three fields it was opened with: what another administrator
  changed meanwhile is undone. A change that was applied, but whose answer was lost, is
  shown as failed, and a refetch may be answered before the change is committed.
- "Next" works on a placeholder list, with the number of pages of another filter.
- A report whose file was lost after it was offered leaves the button "Download" only,
  which fails each time; a download does not go through the client that refreshes an
  expired token; the "ready" of a page that was left still downloads its file.
- A login that is answered while somebody is signed in replaces the session and clears
  no cache (`taken`); one that fails marks a live session as unauthenticated; a logout
  that is answered late ends whichever session is there.
- A submission that is answered late leads to its status page from any page.
- A failed refetch of the profile takes the forms of the profile page off the screen.

## 8. What is not modelled

- The server side of lists: each is one SELECT, a pure function of its parameters;
  `UsersPage` has the lists as answers, any number of pages at any time.
- Logging: records are dropped when the queue is full, and nothing reads them back.
- `RefreshTokens` has its own `is_active`; the rest of an account is in `UserAdmin`.
- Access tokens: a signed string, no state; their expiry is an action of `WebSession`.
- The analyzer and the renderer: one call each that returns or fails. Their results
  matter to no property here.
- `GlobalRateLimitMiddleware`: `main.py` does not install it.
- Retries of the HTTP client, connection pools (a pool at its limit delays a request,
  which interleaving covers), several limiter keys (independent of each other).
- Of the frontend: layout, theme, texts, the mobile menu, the contents of rows and of an
  analysis, and the components of `components/ui`, which keep no state that matters. In
  `WebPages` there is one tab (several are in `WebSession`). That a query is fetched again
  when the network comes back is left out: it adds a poll, also of a
  task that has its verdict.
  The lists of roles, states and page sizes are one parameter of `UsersPage`.
- The Appsmith application, which calls the same endpoints; migrations.

## 9. Limits of the models

Time is discrete. A transaction's commit is one step. Redis and PostgreSQL do not lose
what they have acknowledged. In `ReportLifecycle` files age only while nothing else is
in progress (`Age`): thirty days against seconds. In `WebSession` a pair is stored
and cleared as a whole, since JavaScript runs both assignments without interruption. In
the modules of pages a callback, with the render and the effects it causes, is one step;
React and the router render before the next event is handled. The composition of the
pages with `WebSession`'s tokens is by their interface: the end of a session
(`SessionEnded`) can come at any time, which is more than the interceptor does.
