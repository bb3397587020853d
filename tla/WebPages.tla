------------------------------ MODULE WebPages ------------------------------
(***************************************************************************)
(* The pages of the frontend in one tab: the routes and their guards, the  *)
(* session as the pages see it (lib/auth), the query of the current user,  *)
(* and the forms that sign in, rename, change a password and submit a      *)
(* contract, with the status page that leads from a task to its analysis.  *)
(*                                                                         *)
(* Callbacks run one at a time. A form's answer comes at any later time,   *)
(* whether its page is still there or not: what useMutation was given as   *)
(* onSuccess is run all the same. Tokens, their renewal and several tabs   *)
(* are those of module WebSession.                                         *)
(***************************************************************************)
EXTENDS StatusPolling

CONSTANTS
    Users, Admins,
    Tasks,        \* Celery ids of analysis tasks; an analysis is known by its task
    Calls,        \* answers to forms that can be outstanding at once
    MaxInputs     \* bound: links followed and forms submitted

ASSUME PagesAssumption ==
    /\ Admins \subseteq Users
    /\ None \notin Users \cup Tasks \cup [of : Users, name : Users]
    /\ MaxInputs \in Nat

VARIABLES
    location,     \* the route, and the "from" of its state
    auth,         \* user and status of AuthProvider
    feedback,     \* what each form on the page says of its last attempt
    cache,        \* the query cache
    calls,        \* the forms' requests, and logouts, on their way
    hidden,       \* another tab or window is in front
    work,         \* the analysis tasks on the server
    expired,      \* the tasks whose result the server has forgotten
    taken,        \* history: a session was replaced, or ended, by a late login
    inputs

server == <<work, expired>>
vars == <<location, auth, feedback, cache, calls, hidden, server, taken, inputs>>
-----------------------------------------------------------------------------
(***************************************************************************)
(* State.                                                                  *)
(***************************************************************************)
Public == {"login", "unknown"}

Route ==
    [page : Public \cup {"dashboard", "new", "profile", "users"}, task : {None}]
        \cup [page : {"status", "detail"}, task : Tasks]

To(page) == [page |-> page, task |-> None]

\* "name" is whose name the header shows. The status "unauthenticated" does
\* not mean that there is no user.
Auth == {a \in [user : [of : Users, name : Users] \cup {None}, in : BOOLEAN] :
            a.in => a.user # None}

Guest == [user |-> None, in |-> FALSE]

Forms == {"login", "submit", "rename", "password"}

Blank == [f \in Forms |-> "none"]

\* The answers of GET /users/me: whose they are, and the analyses in them.
Profiles == [of : Users, analyses : SUBSET Tasks]

Profile == INSTANCE QueryCache WITH Answers <- Profiles

\* "asker": whose token the fetch on its way was sent with.
Cache == [profile : Profile!Entry, asker : Users \cup {None}, poll : [Tasks -> Query]]

\* The forms a page shows: the profile page has them when it has a profile
\* and no error.
FormsOf(page, q) ==
    CASE page = "login" -> {"login"}
      [] page = "new" -> {"submit"}
      [] page = "profile" /\ Profile!Has(q.profile) /\ ~q.profile.error
            -> {"rename", "password"}
      [] OTHER -> {}

NoCache == [profile |-> Profile!Empty, asker |-> None, poll |-> [t \in Tasks |-> NoQuery]]

Call == [kind : Forms \cup {"none", "logout"}, by : Users \cup {None}, mine : BOOLEAN,
         from : Route \cup {None}]

NoCall == [kind |-> "none", by |-> None, mine |-> FALSE, from |-> None]

Work == [owner : Users \cup {None}, state : {"unsent", "running"} \cup Verdicts]

Init ==
    /\ location = [at |-> To("login"), from |-> To("dashboard")]
    /\ auth = Guest
    /\ feedback = Blank
    /\ cache = NoCache
    /\ calls = [c \in Calls |-> NoCall]
    /\ hidden = FALSE
    /\ work = [t \in Tasks |-> [owner |-> None, state |-> "unsent"]]
    /\ expired = {}
    /\ taken = FALSE
    /\ inputs = 0
-----------------------------------------------------------------------------
(***************************************************************************)
(* Routes and guards. RequireAuth keeps the page a guest asked for,        *)
(* GuestRoute and the login page lead back to it, RequireRole leads those  *)
(* who are no administrators to the dashboard.                             *)
(***************************************************************************)
\* Mutant: any user will do.
RequireUser(route, a) ==
    IF route.page = "users" /\ a.user = None THEN To("dashboard") ELSE route

RequireRole(route, a) ==
    IF route.page = "users" /\ (a.user = None \/ a.user.of \notin Admins)
    THEN To("dashboard") ELSE route

GuestRoute(from, a) ==
    RequireRole(IF from = None THEN To("dashboard") ELSE from, a)

\* The status page of a completed task replaces itself by the analysis.
Redirected(route, q) ==
    IF route.page = "status" /\ q.poll[route.task].data = "completed"
    THEN [page |-> "detail", task |-> route.task] ELSE route

AppRoutes(route, from, a, q) ==
    IF ~a.in /\ route.page \notin Public
    THEN [at |-> To("login"), from |-> route]
    ELSE IF a.in /\ route.page = "login"
    THEN [at |-> Redirected(GuestRoute(from, a), q), from |-> None]
    ELSE [at |-> Redirected(RequireRole(route, a), q), from |-> from]

\* What the page at a route observes is fetched as it is mounted.
Asked(q, profile, a) ==
    [q EXCEPT !.profile = profile,
              !.asker = IF profile # q.profile /\ profile.request = "after"
                        THEN a.user.of ELSE @]

ObservesProfile(page) == page \in {"dashboard", "profile"}

Mounted(q, route, a) ==
    IF ObservesProfile(route.page) THEN Asked(q, Profile!Observed(q.profile), a)
    ELSE IF route.page = "status"
    THEN [q EXCEPT !.poll[route.task] = IF @.data = None /\ ~@.fetching THEN Fetched(@) ELSE @]
    ELSE q

\* The pages are rendered: l is where the guards lead, a the session, q the
\* cache, cs the calls, fb what the forms say. A form that is not shown any
\* more is gone, and the answer to it finds no form.
Render(l, a, q, cs, fb) ==
    LET kept == IF l.at.page = location.at.page THEN FormsOf(l.at.page, q) ELSE {}
    IN  /\ location' = l
        /\ auth' = a
        /\ cache' = IF l.at # location.at THEN Mounted(q, l.at, a) ELSE q
        /\ calls' = [c \in Calls |-> [cs[c] EXCEPT !.mine = @ /\ cs[c].kind \in kept]]
        /\ feedback' = [f \in Forms |-> IF f \in kept THEN fb[f] ELSE "none"]

Input == ~hidden /\ inputs < MaxInputs /\ inputs' = inputs + 1

\* A link, the navigation bar, or a step in the history.
Go(route) ==
    /\ route # location.at /\ Input
    /\ Render(AppRoutes(route, None, auth, cache), auth, cache, calls, feedback)
    /\ UNCHANGED <<hidden, server, taken>>
-----------------------------------------------------------------------------
(***************************************************************************)
(* Signing in and out.                                                     *)
(***************************************************************************)
Free(c) == calls[c].kind = "none"

Done(c) == [calls EXCEPT ![c] = NoCall]

Said(c, note) ==
    IF calls[c].mine THEN [feedback EXCEPT ![calls[c].kind] = note] ELSE feedback

\* onSubmit of a form; the button is disabled until it is answered. The
\* login form is filled in for some user.
Submit(c, f, u) ==
    /\ f \in FormsOf(location.at.page, cache) /\ Free(c) /\ Input
    /\ \A d \in Calls : calls[d].kind = f => ~calls[d].mine
    /\ u \in IF f = "login" THEN Users ELSE {auth.user.of}
    /\ calls' = [calls EXCEPT ![c] =
                   [kind |-> f, by |-> u, mine |-> TRUE,
                    from |-> IF f = "login" THEN location.from ELSE None]]
    /\ feedback' = [feedback EXCEPT ![f] = "none"]
    /\ UNCHANGED <<location, auth, cache, hidden, server, taken>>

\* login, and navigate to where this login page was to lead.
SignIn(c) ==
    LET a == [user |-> [of |-> calls[c].by, name |-> calls[c].by], in |-> TRUE]
    IN  /\ calls[c].kind = "login"
        /\ Render(AppRoutes(GuestRoute(calls[c].from, a), None, a, cache),
                  a, cache, Done(c), feedback)
        /\ taken' = (taken \/ auth.user # None)
        /\ UNCHANGED <<hidden, server, inputs>>

\* login's catch: the status changes, whoever is signed in by then.
SignInRefused(c) ==
    LET a == [auth EXCEPT !.in = FALSE]
    IN  /\ calls[c].kind = "login"
        /\ Render(AppRoutes(location.at, location.from, a, cache), a, cache,
                  Done(c), Said(c, "alert"))
        /\ taken' = (taken \/ auth.in)
        /\ UNCHANGED <<hidden, server, inputs>>

\* The button waits for the server; the pages stay as they are until then.
Logout(c) ==
    /\ auth.in /\ location.at.page \notin Public /\ Free(c) /\ Input
    /\ calls' = [calls EXCEPT ![c] = [NoCall EXCEPT !.kind = "logout", !.by = auth.user.of]]
    /\ UNCHANGED <<location, auth, feedback, cache, hidden, server, taken>>

\* Mutant: the query cache outlives the session.
ForgetTokensOnly(cs) ==
    Render(AppRoutes(location.at, location.from, Guest, cache), Guest, cache, cs, feedback)

\* The end of the session: tokens, user, status, and the whole query cache.
Forget(cs) ==
    Render(AppRoutes(location.at, location.from, Guest, NoCache), Guest, NoCache, cs, feedback)

\* logout's finally, answered or not.
LoggedOut(c) ==
    /\ calls[c].kind = "logout"
    /\ Forget(Done(c))
    /\ UNCHANGED <<hidden, server, taken, inputs>>

\* The interceptor's logout, after a 401 that no refresh could answer.
SessionEnded ==
    /\ auth.in
    /\ Forget(calls)
    /\ UNCHANGED <<hidden, server, taken, inputs>>
-----------------------------------------------------------------------------
(***************************************************************************)
(* The forms of the profile page and the submission of a contract.         *)
(***************************************************************************)
updateUser(name) ==
    IF auth.user = None THEN auth ELSE [auth EXCEPT !.user.name = name]

\* onSuccess of UsernameForm.
Renamed(c) ==
    LET q == IF ObservesProfile(location.at.page)
             THEN Asked(cache, Profile!Refetched(cache.profile), auth)
             ELSE [cache EXCEPT !.profile = Profile!Invalidated(@)]
    IN  /\ calls[c].kind = "rename"
        /\ Render(location, updateUser(calls[c].by), q, Done(c), Said(c, "success"))
        /\ UNCHANGED <<hidden, server, taken, inputs>>

\* onSuccess of PasswordForm.
PasswordChanged(c) ==
    /\ calls[c].kind = "password"
    /\ calls' = Done(c)
    /\ feedback' = Said(c, "success")
    /\ UNCHANGED <<location, auth, cache, hidden, server, taken, inputs>>

\* onSuccess of AnalysisForm: to the status page, from any page.
Submitted(c, t) ==
    /\ calls[c].kind = "submit" /\ work[t].state = "unsent"
    /\ work' = [work EXCEPT ![t] = [owner |-> calls[c].by, state |-> "running"]]
    /\ Render(AppRoutes([page |-> "status", task |-> t], None, auth, cache),
              auth, cache, Done(c), feedback)
    /\ UNCHANGED <<hidden, expired, taken, inputs>>

\* onError of these three: messages at fields, or an alert.
Refused(c) ==
    /\ calls[c].kind \in {"rename", "password", "submit"}
    /\ \E note \in {"field", "alert"} : feedback' = Said(c, note)
    /\ calls' = Done(c)
    /\ UNCHANGED <<location, auth, cache, hidden, server, taken, inputs>>
-----------------------------------------------------------------------------
(***************************************************************************)
(* Queries.                                                                *)
(***************************************************************************)
Finished(u) == {t \in Tasks : work[t].owner = u /\ work[t].state = "completed"}

ProfileAnswered ==
    LET answer == [of |-> cache.asker, analyses |-> Finished(cache.asker)]
        q == [cache EXCEPT !.profile = Profile!Answered(@, answer)]
    IN  /\ Profile!Fetching(cache.profile)
        /\ Render(location, auth, q, calls, feedback)
        /\ UNCHANGED <<hidden, server, taken, inputs>>

\* The profile page shows the error in the place of its forms.
ProfileFailed ==
    LET q == [cache EXCEPT !.profile = Profile!Failed(@)]
    IN  /\ Profile!Fetching(cache.profile)
        /\ Render(location, auth, q, calls, feedback)
        /\ UNCHANGED <<hidden, server, taken, inputs>>

\* Ten minutes.
ProfileAges ==
    /\ Profile!Has(cache.profile) /\ ~cache.profile.stale
    /\ cache' = [cache EXCEPT !.profile.stale = TRUE]
    /\ UNCHANGED <<location, auth, feedback, calls, hidden, server, taken, inputs>>

OnStatus(t) == location.at = [page |-> "status", task |-> t]

\* The tab goes to the background, and comes back: told of the page that polls.
Hide ==
    /\ location.at.page = "status" \/ hidden
    /\ hidden' = ~hidden
    /\ UNCHANGED <<location, auth, feedback, cache, calls, server, taken, inputs>>

\* The interval is over, and the page is in front.
Poll(t) ==
    /\ OnStatus(t) /\ ~hidden /\ ~cache.poll[t].fetching /\ refetchInterval(cache.poll[t])
    /\ cache' = [cache EXCEPT !.poll[t] = Fetched(@)]
    /\ UNCHANGED <<location, auth, feedback, calls, hidden, server, taken, inputs>>

Owns(t) == auth.user # None /\ work[t].owner = auth.user.of

\* The status endpoint asks whose the analysis is, when there is one. A task
\* that goes on, failed, or never was, is told to everybody. What it says of
\* the task is what the result says, while there is one.
Forbidden(t) == work[t].state = "completed" /\ ~Owns(t)

Told(t) ==
    IF work[t].state \in Verdicts /\ t \notin expired THEN work[t].state ELSE "going"

Polled(t) ==
    LET q == [cache EXCEPT !.poll[t] = Answered(Told(t))]
    IN  /\ cache.poll[t].fetching /\ ~Forbidden(t)
        /\ Render(AppRoutes(location.at, location.from, auth, q), auth, q, calls, feedback)
        /\ UNCHANGED <<hidden, server, taken, inputs>>

\* Refused, or lost.
PollFailed(t) ==
    /\ cache.poll[t].fetching
    /\ cache' = [cache EXCEPT !.poll[t] = Failed(@)]
    /\ UNCHANGED <<location, auth, feedback, calls, hidden, server, taken, inputs>>

\* The worker.
End(t) ==
    /\ work[t].state = "running"
    /\ \E verdict \in Verdicts : work' = [work EXCEPT ![t].state = verdict]
    /\ UNCHANGED <<location, auth, feedback, cache, calls, hidden, expired, taken, inputs>>

\* The result of a task expires a minute after its end. The analysis stays.
Expire(t) ==
    /\ work[t].state \in Verdicts /\ t \notin expired
    /\ expired' = expired \cup {t}
    /\ UNCHANGED <<location, auth, feedback, cache, calls, hidden, work, taken, inputs>>

Next ==
    \/ SessionEnded \/ ProfileAnswered \/ ProfileFailed \/ ProfileAges \/ Hide
    \/ \E route \in Route : Go(route)
    \/ \E c \in Calls, f \in Forms, u \in Users : Submit(c, f, u)
    \/ \E c \in Calls : \/ SignIn(c) \/ SignInRefused(c) \/ Logout(c) \/ LoggedOut(c)
                        \/ Renamed(c) \/ PasswordChanged(c) \/ Refused(c)
    \/ \E c \in Calls, t \in Tasks : Submitted(c, t)
    \/ \E t \in Tasks : Poll(t) \/ Polled(t) \/ PollFailed(t) \/ End(t) \/ Expire(t)

Spec == Init /\ [][Next]_vars

\* The interval fires while its page is there and in front, and a poll is
\* answered or fails.
FairSpec ==
    /\ Spec
    /\ \A t \in Tasks : WF_vars(Poll(t)) /\ WF_vars(Polled(t) \/ PollFailed(t))
-----------------------------------------------------------------------------
TypeOK ==
    /\ location \in [at : Route, from : Route \cup {None}]
    /\ auth \in Auth
    /\ feedback \in [Forms -> {"none", "success", "alert", "field"}]
    /\ cache \in Cache
    /\ calls \in [Calls -> Call]
    /\ hidden \in BOOLEAN
    /\ work \in [Tasks -> Work]
    /\ expired \subseteq Tasks
    /\ taken \in BOOLEAN
    /\ inputs \in 0..MaxInputs

(***************************************************************************)
(* No late answer, redirect or end of the session leaves the tab on a page *)
(* its guards would not show: guests see the public pages only, the signed *)
(* in no login form, and administration is for administrators.             *)
(***************************************************************************)
Guarded ==
    LET page == location.at.page
    IN  /\ ~auth.in => page \in Public
        /\ auth.in => page # "login"
        /\ page = "users" => auth.user.of \in Admins

(***************************************************************************)
(* A profile, or a finished analysis, in the cache belongs to the user who *)
(* is signed in, and a guest's tab has none, however logins, logouts and   *)
(* late answers follow on each other. Excepted is a login that is answered *)
(* while somebody is signed in already: login() clears nothing.            *)
(***************************************************************************)
OwnData ==
    ~taken =>
        /\ Profile!Has(cache.profile) =>
              auth.user # None /\ cache.profile.data.of = auth.user.of
        /\ \A t \in Tasks : cache.poll[t].data = "completed" => Owns(t)

(***************************************************************************)
(* Who waits on the status page of a task that was completed is led to its *)
(* analysis, or sees that the last poll failed and another will follow --  *)
(* unless he leaves or puts another tab in front, a late login takes his   *)
(* session, or the server forgets the result before a poll was answered.   *)
(***************************************************************************)
Waiting(t) == OnStatus(t) /\ Owns(t) /\ work[t].state = "completed"

StatusLeadsOn ==
    \A t \in Tasks :
        (Waiting(t) /\ t \notin expired)
            ~> \/ ~Waiting(t) \/ hidden \/ t \in expired
               \/ cache.poll[t].error /\ Watched(cache.poll[t])

(***************************************************************************)
(* Statements that the code does not keep: TLC refutes each, with the      *)
(* constants README.md names.                                              *)
(***************************************************************************)
\* The page polls until the analysis is there: who neither leaves nor is
\* signed out is led to it.
AlwaysLedOn == \A t \in Tasks : Waiting(t) ~> ~Waiting(t)

\* "The analysis will appear on your dashboard once it finishes": a dashboard
\* that is entered shows what is finished, or asks for it.
DashboardShowsFinished ==
    [][location'.at.page = "dashboard" /\ location.at.page # "dashboard"
         => \/ Profile!Fetching(cache'.profile)
            \/ Finished(auth'.user.of) \subseteq cache'.profile.data.analyses]_vars

\* The header names the user who is signed in.
HeaderIsOwn == auth.in => auth.user.name = auth.user.of
=============================================================================
