--------------------------- MODULE WebPagesProofs ---------------------------
(***************************************************************************)
(* Proofs about WebPages, for any users, tasks and numbers of requests.    *)
(*                                                                         *)
(* Every answer ends in Render, with a place, a session, a cache and calls *)
(* of its own. The invariant is therefore stated of these as arguments:    *)
(* RenderStep shows that pages rendered with what fits together fit        *)
(* together again, and each action has only to show that what it renders   *)
(* does.                                                                   *)
(***************************************************************************)
EXTENDS WebPages, TLAPS

\* A place fits a session. What a login is to lead to is never a login page.
PlaceOK(l, a) ==
    /\ l \in [at : Route, from : Route \cup {None}]
    /\ l.from # None => l.from.page # "login"
    /\ ~a.in => l.at.page \in Public
    /\ a.in => l.at.page # "login"
    /\ l.at.page = "users" => a.user.of \in Admins

CallsOK(cs) ==
    /\ cs \in [Calls -> Call]
    /\ \A c \in Calls : /\ cs[c].kind # "none" => cs[c].by \in Users
                        /\ cs[c].from # None => cs[c].from.page # "login"

WorkOK(w) ==
    /\ w \in [Tasks -> Work]
    /\ \A t \in Tasks : w[t].state = "unsent" => w[t].owner = None

\* What is cached, and what is on its way to the cache, is the session's.
OwnedBy(q, a, w) ==
    /\ Profile!Fetching(q.profile) \/ Profile!Has(q.profile) => a.user # None
    /\ Profile!Fetching(q.profile) => q.asker = a.user.of
    /\ Profile!Has(q.profile) => q.profile.data.of = a.user.of
    /\ \A t \in Tasks :
          q.poll[t].data = "completed" => a.user # None /\ w[t].owner = a.user.of

\* Somebody asked for what is on its way.
CacheOK(q) ==
    /\ q \in Cache
    /\ Profile!Fetching(q.profile) => q.asker # None
    /\ \A t \in Tasks : q.poll[t].fetching => q.poll[t].failures = 0

Fits(l, a, q, cs, w, tk) ==
    /\ a \in Auth
    /\ PlaceOK(l, a)
    /\ CallsOK(cs)
    /\ WorkOK(w)
    /\ CacheOK(q)
    /\ ~tk => OwnedBy(q, a, w)

Notes == {"none", "success", "alert", "field"}

RestOK ==
    /\ feedback \in [Forms -> Notes]
    /\ hidden \in BOOLEAN
    /\ expired \subseteq Tasks
    /\ taken \in BOOLEAN
    /\ inputs \in 0..MaxInputs

Here == Fits(location, auth, cache, calls, work, taken)

IInv == Here /\ RestOK

\* Steps are described by what they leave alone: the parts of server, too.
USE DEF server
-----------------------------------------------------------------------------
(***************************************************************************)
(* Sessions and places.                                                    *)
(***************************************************************************)
LEMMA UserNotNone ==
    /\ \A u \in Users : u # None
    /\ \A u \in [of : Users, name : Users] : u # None
BY PagesAssumption

LEMMA AuthFacts ==
    ASSUME NEW a \in Auth
    PROVE  /\ a.in => a.user # None
           /\ a.user # None => a.user.of \in Users
           /\ a.in \in BOOLEAN
BY DEF Auth

LEMMA GuestType == Guest \in Auth /\ ~Guest.in /\ Guest.user = None
BY DEF Guest, Auth

LEMMA ToType ==
    /\ \A page \in Public \cup {"dashboard", "new", "profile", "users"} : To(page) \in Route
    /\ \A page : To(page).page = page
BY DEF To, Route

LEMMA RequireRoleGuards ==
    ASSUME NEW route \in Route, NEW a
    PROVE  /\ RequireRole(route, a) \in Route
           /\ RequireRole(route, a).page = "users" => a.user.of \in Admins
           /\ RequireRole(route, a).page \in {route.page, "dashboard"}
BY ToType DEF RequireRole

LEMMA RedirectedPage ==
    ASSUME NEW route \in Route, NEW q
    PROVE  /\ Redirected(route, q) \in Route
           /\ Redirected(route, q).page = route.page
              \/ (route.page = "status" /\ Redirected(route, q).page = "detail")
BY DEF Redirected, Route, Public

LEMMA RoutesGuard ==
    ASSUME NEW route \in Route, NEW from \in Route \cup {None},
           from # None => from.page # "login", NEW a \in Auth, NEW q
    PROVE  PlaceOK(AppRoutes(route, from, a, q), a)
<1>1. CASE ~a.in /\ route.page \notin Public
  <2>1. AppRoutes(route, from, a, q) = [at |-> To("login"), from |-> route]
    BY <1>1 DEF AppRoutes
  <2>2. To("login") \in Route /\ To("login").page = "login" /\ "login" \in Public
    BY ToType DEF Public
  <2>3. QED
    BY <1>1, <2>1, <2>2 DEF PlaceOK, Public
<1>2. CASE a.in /\ route.page = "login"
  <2> DEFINE kept == IF from = None THEN To("dashboard") ELSE from
             place == Redirected(GuestRoute(from, a), q)
  <2>1. kept \in Route /\ kept.page # "login"
    BY ToType
  <2>2. GuestRoute(from, a) = RequireRole(kept, a)
    BY DEF GuestRoute
  <2> HIDE DEF kept
  <2>3. /\ GuestRoute(from, a) \in Route /\ GuestRoute(from, a).page # "login"
        /\ GuestRoute(from, a).page = "users" => a.user.of \in Admins
    BY <2>1, <2>2, RequireRoleGuards
  <2>4. /\ place \in Route /\ place.page # "login"
        /\ place.page = "users" => a.user.of \in Admins
    BY <2>3, RedirectedPage
  <2>5. AppRoutes(route, from, a, q) = [at |-> place, from |-> None]
    BY <1>2 DEF AppRoutes
  <2> HIDE DEF place
  <2>6. QED
    BY <1>2, <2>4, <2>5 DEF PlaceOK
<1>3. CASE ~(~a.in /\ route.page \notin Public) /\ ~(a.in /\ route.page = "login")
  <2> DEFINE place == Redirected(RequireRole(route, a), q)
  <2>1. /\ RequireRole(route, a) \in Route
        /\ RequireRole(route, a).page = "users" => a.user.of \in Admins
        /\ RequireRole(route, a).page \in {route.page, "dashboard"}
        /\ ~a.in => RequireRole(route, a).page = route.page
    <3>1. ~a.in => route.page # "users"
      BY <1>3 DEF Public
    <3>2. QED
      BY <3>1, RequireRoleGuards DEF RequireRole
  <2>2. /\ place \in Route
        /\ place.page = "users" => a.user.of \in Admins
        /\ a.in => place.page # "login"
        /\ ~a.in => place.page \in Public
    BY <1>3, <2>1, RedirectedPage DEF Public
  <2>3. AppRoutes(route, from, a, q) = [at |-> place, from |-> from]
    BY <1>3 DEF AppRoutes
  <2> HIDE DEF place
  <2>4. QED
    BY <2>2, <2>3 DEF PlaceOK
<1>4. QED
  BY <1>1, <1>2, <1>3

\* A page that observes the profile is for those who are signed in.
LEMMA ObserverIsIn ==
    ASSUME NEW a \in Auth, NEW l, PlaceOK(l, a), ObservesProfile(l.at.page)
    PROVE  a.user # None /\ a.user.of \in Users
BY AuthFacts DEF PlaceOK, ObservesProfile, Public
-----------------------------------------------------------------------------
(***************************************************************************)
(* The cache.                                                              *)
(***************************************************************************)
LEMMA FetchTypes ==
    ASSUME NEW e \in Profile!Entry
    PROVE  /\ Profile!Fetch(e) \in Profile!Entry
           /\ Profile!Fetch(e).data = e.data /\ Profile!Fetch(e).request = "after"
BY DEF Profile!Fetch, Profile!Entry, Profile!Since, Profile!Has

LEMMA EntryTypes ==
    ASSUME NEW e \in Profile!Entry
    PROVE  /\ Profile!Observed(e) \in Profile!Entry
           /\ Profile!Observed(e).data = e.data
           /\ Profile!Observed(e) # e =>
                  Profile!Observed(e).request = "after" /\ ~Profile!Fetching(e)
           /\ Profile!Invalidated(e) \in Profile!Entry
           /\ Profile!Invalidated(e).data = e.data
           /\ Profile!Fetching(Profile!Invalidated(e)) => Profile!Fetching(e)
           /\ Profile!Refetched(e) \in Profile!Entry
           /\ Profile!Refetched(e).data = e.data
           /\ Profile!Failed(e) \in Profile!Entry
           /\ Profile!Failed(e).data = e.data
           /\ ~Profile!Fetching(Profile!Failed(e))
<1>1. /\ Profile!Invalidated(e) \in Profile!Entry
      /\ Profile!Invalidated(e).data = e.data
      /\ Profile!Fetching(Profile!Invalidated(e)) => Profile!Fetching(e)
  BY DEF Profile!Invalidated, Profile!Entry, Profile!Since, Profile!Has, Profile!Fetching
<1>2. /\ Profile!Failed(e) \in Profile!Entry
      /\ Profile!Failed(e).data = e.data
      /\ ~Profile!Fetching(Profile!Failed(e))
  BY DEF Profile!Failed, Profile!Entry, Profile!Fetching
<1>3. /\ Profile!Observed(e) \in Profile!Entry
      /\ Profile!Observed(e).data = e.data
      /\ Profile!Observed(e) # e =>
             Profile!Observed(e).request = "after" /\ ~Profile!Fetching(e)
  BY FetchTypes DEF Profile!Observed
<1>4. Profile!Refetched(e) \in Profile!Entry /\ Profile!Refetched(e).data = e.data
  BY FetchTypes, <1>1 DEF Profile!Refetched
<1>5. QED
  BY <1>1, <1>2, <1>3, <1>4

LEMMA RefetchedAsks ==
    ASSUME NEW e \in Profile!Entry
    PROVE  Profile!Refetched(e).request = "after" \/ Profile!Fetching(e)
BY EntryTypes, FetchTypes DEF Profile!Refetched

LEMMA FetchedType ==
    ASSUME NEW q \in Query
    PROVE  /\ Fetched(q) \in Query
           /\ Fetched(q).data = q.data /\ Fetched(q).failures = 0
<1>1. Fetched(q) \in Query
  BY DEF Fetched, Query
<1>2. QED
  BY <1>1 DEF Fetched, Query

LEMMA NoCacheOK ==
    /\ CacheOK(NoCache)
    /\ \A a, w : OwnedBy(NoCache, a, w)
<1>1. Profile!Empty \in Profile!Entry
      /\ ~Profile!Fetching(Profile!Empty) /\ ~Profile!Has(Profile!Empty)
  BY DEF Profile!Empty, Profile!Entry, Profile!Since, Profile!Fetching, Profile!Has
<1>2. NoQuery \in Query /\ NoQuery.data # "completed" /\ NoQuery.failures = 0
  BY PollingAssumption DEF NoQuery, Query
<1>3. QED
  BY <1>1, <1>2 DEF NoCache, CacheOK, Cache, OwnedBy

\* What a page fetches as it is mounted is the session's.
LEMMA MountedOK ==
    ASSUME NEW q, CacheOK(q), NEW a \in Auth, NEW l, PlaceOK(l, a)
    PROVE  /\ CacheOK(Mounted(q, l.at, a))
           /\ \A w : OwnedBy(q, a, w) => OwnedBy(Mounted(q, l.at, a), a, w)
<1> DEFINE e == Profile!Observed(q.profile)
           m == Mounted(q, l.at, a)
<1>1. CASE ObservesProfile(l.at.page)
  <2>1. a.user # None /\ a.user.of \in Users
    BY <1>1, ObserverIsIn
  <2>2. /\ q.profile \in Profile!Entry /\ q.asker \in Users \cup {None}
        /\ q.poll \in [Tasks -> Query]
    BY DEF CacheOK, Cache
  <2>3. /\ e \in Profile!Entry /\ e.data = q.profile.data
        /\ e # q.profile => e.request = "after" /\ ~Profile!Fetching(q.profile)
    BY <2>2, EntryTypes
  <2> HIDE DEF e
  <2>4. m = [q EXCEPT !.profile = e,
                      !.asker = IF e # q.profile /\ e.request = "after" THEN a.user.of ELSE @]
    BY <1>1 DEF Mounted, Asked, e
  <2>5. /\ m \in Cache /\ m.profile = e /\ m.poll = q.poll
        /\ m.asker = IF e # q.profile THEN a.user.of ELSE q.asker
    BY <2>1, <2>2, <2>3, <2>4 DEF CacheOK, Cache
  <2> HIDE DEF m
  <2>6. CASE e = q.profile
    BY <2>5, <2>6 DEF CacheOK, OwnedBy, m
  <2>7. CASE e # q.profile
    <3>1. CacheOK(m)
      BY <2>1, <2>5, <2>7, UserNotNone DEF CacheOK
    <3>2. \A w : OwnedBy(q, a, w) => OwnedBy(m, a, w)
      BY <2>1, <2>3, <2>5, <2>7 DEF OwnedBy, Profile!Has
    <3>3. QED
      BY <3>1, <3>2 DEF m
  <2>8. QED
    BY <2>6, <2>7
<1>2. CASE ~ObservesProfile(l.at.page) /\ l.at.page = "status"
  <2> DEFINE t == l.at.task
             p == IF q.poll[t].data = None /\ ~q.poll[t].fetching
                  THEN Fetched(q.poll[t]) ELSE q.poll[t]
  <2>1. t \in Tasks
    BY <1>2 DEF PlaceOK, Route, Public
  <2>2. q.poll \in [Tasks -> Query] /\ q.poll[t] \in Query
    BY <2>1 DEF CacheOK, Cache
  <2>3. /\ p \in Query /\ p.data = q.poll[t].data
        /\ p.fetching => p.failures = 0
    <3>1. /\ Fetched(q.poll[t]) \in Query
          /\ Fetched(q.poll[t]).data = q.poll[t].data
          /\ Fetched(q.poll[t]).failures = 0
      BY <2>2, FetchedType
    <3>2. QED
      BY <2>1, <2>2, <3>1 DEF CacheOK
  <2> HIDE DEF p
  <2>4. m = [q EXCEPT !.poll = [q.poll EXCEPT ![t] = p]]
    BY <1>2 DEF Mounted, p
  <2>5. /\ m \in Cache /\ m.profile = q.profile /\ m.asker = q.asker
        /\ m.poll = [q.poll EXCEPT ![t] = p]
    BY <2>2, <2>3, <2>4 DEF CacheOK, Cache
  <2> HIDE DEF t, m
  <2>6. CacheOK(m)
    BY <2>1, <2>2, <2>3, <2>5 DEF CacheOK
  <2>7. \A w : OwnedBy(q, a, w) => OwnedBy(m, a, w)
    BY <2>1, <2>2, <2>3, <2>5 DEF OwnedBy
  <2>8. QED
    BY <2>6, <2>7 DEF m
<1>3. CASE ~ObservesProfile(l.at.page) /\ l.at.page # "status"
  BY <1>3 DEF Mounted
<1>4. QED
  BY <1>1, <1>2, <1>3

\* One poll is replaced.
LEMMA PollReplaced ==
    ASSUME NEW q, CacheOK(q), NEW t \in Tasks, NEW p \in Query,
           p.fetching => p.failures = 0
    PROVE  /\ CacheOK([q EXCEPT !.poll[t] = p])
           /\ \A a, w : /\ OwnedBy(q, a, w)
                        /\ p.data = "completed" =>
                              a.user # None /\ w[t].owner = a.user.of
                        => OwnedBy([q EXCEPT !.poll[t] = p], a, w)
<1> DEFINE m == [q EXCEPT !.poll[t] = p]
<1>1. q.poll \in [Tasks -> Query]
  BY DEF CacheOK, Cache
<1>2. /\ m \in Cache /\ m.profile = q.profile /\ m.asker = q.asker
      /\ m.poll = [q.poll EXCEPT ![t] = p]
  BY <1>1 DEF CacheOK, Cache
<1> HIDE DEF m
<1>3. CacheOK(m)
  BY <1>1, <1>2 DEF CacheOK
<1>4. ASSUME NEW a, NEW w, OwnedBy(q, a, w),
             p.data = "completed" => a.user # None /\ w[t].owner = a.user.of
      PROVE  OwnedBy(m, a, w)
  BY <1>1, <1>2, <1>4 DEF OwnedBy
<1>5. QED
  BY <1>3, <1>4 DEF m

\* The profile is replaced, and nothing new is on its way.
LEMMA ProfileReplaced ==
    ASSUME NEW q, CacheOK(q), NEW e \in Profile!Entry,
           Profile!Fetching(e) => Profile!Fetching(q.profile)
    PROVE  /\ CacheOK([q EXCEPT !.profile = e])
           /\ \A a, w : /\ OwnedBy(q, a, w)
                        /\ Profile!Has(e) => a.user # None /\ e.data.of = a.user.of
                        => OwnedBy([q EXCEPT !.profile = e], a, w)
<1> DEFINE m == [q EXCEPT !.profile = e]
<1>1. /\ m \in Cache /\ m.profile = e /\ m.asker = q.asker /\ m.poll = q.poll
  BY DEF CacheOK, Cache
<1> HIDE DEF m
<1>2. CacheOK(m)
  BY <1>1 DEF CacheOK
<1>3. ASSUME NEW a, NEW w, OwnedBy(q, a, w),
             Profile!Has(e) => a.user # None /\ e.data.of = a.user.of
      PROVE  OwnedBy(m, a, w)
  BY <1>1, <1>3 DEF OwnedBy
<1>4. QED
  BY <1>2, <1>3 DEF m
-----------------------------------------------------------------------------
(***************************************************************************)
(* Rendering.                                                              *)
(***************************************************************************)
LEMMA RenderStep ==
    ASSUME NEW l, NEW a, NEW q, NEW cs, NEW fb,
           Fits(l, a, q, cs, work', taken'), Render(l, a, q, cs, fb)
    PROVE  Fits(location, auth, cache, calls, work, taken)'
<1>1. location' = l /\ auth' = a
  BY DEF Render
<1>2. /\ CacheOK(cache')
      /\ \A w : OwnedBy(q, a, w) => OwnedBy(cache', a, w)
  <2>1. CASE l.at # location.at
    <3>1. cache' = Mounted(q, l.at, a)
      BY <2>1 DEF Render
    <3>2. QED
      BY <3>1, MountedOK DEF Fits
  <2>2. CASE l.at = location.at
    BY <2>2 DEF Render, Fits
  <2>3. QED
    BY <2>1, <2>2
<1>3. CallsOK(calls')
  <2>1. PICK kept : calls' = [c \in Calls |-> [cs[c] EXCEPT !.mine = @ /\ cs[c].kind \in kept]]
    BY DEF Render
  <2>2. ASSUME NEW c \in Calls
        PROVE  /\ calls'[c] \in Call
               /\ calls'[c].kind = cs[c].kind /\ calls'[c].by = cs[c].by
               /\ calls'[c].from = cs[c].from
    <3>1. cs[c] \in Call
      BY DEF Fits, CallsOK
    <3>2. PICK mine \in BOOLEAN : calls'[c] = [cs[c] EXCEPT !.mine = mine]
      BY <2>1, <3>1 DEF Call
    <3>3. QED
      BY <3>1, <3>2 DEF Call
  <2>3. calls' \in [Calls -> Call]
    BY <2>1, <2>2
  <2>4. QED
    BY <2>2, <2>3 DEF Fits, CallsOK
<1>4. QED
  BY <1>1, <1>2, <1>3 DEF Fits

LEMMA RenderFeedback ==
    ASSUME NEW l, NEW a, NEW q, NEW cs, NEW fb \in [Forms -> Notes],
           Render(l, a, q, cs, fb)
    PROVE  feedback' \in [Forms -> Notes]
BY DEF Render, Notes

LEMMA DoneOK ==
    ASSUME CallsOK(calls), NEW c \in Calls
    PROVE  CallsOK(Done(c))
<1>1. NoCall \in Call /\ NoCall.kind = "none" /\ NoCall.from = None
  BY DEF NoCall, Call
<1>2. QED
  BY <1>1 DEF CallsOK, Done

LEMMA SaidType ==
    ASSUME RestOK, NEW c \in Calls, calls[c].kind \in Forms, NEW note \in Notes
    PROVE  Said(c, note) \in [Forms -> Notes]
BY DEF RestOK, Said
-----------------------------------------------------------------------------
(***************************************************************************)
(* Each action keeps the invariant.                                        *)
(***************************************************************************)
LEMMA GoFits ==
    ASSUME Here, NEW route \in Route, Go(route)
    PROVE  Here'
<1>1. PlaceOK(AppRoutes(route, None, auth, cache), auth)
  BY RoutesGuard DEF Here, Fits
<1>2. Fits(AppRoutes(route, None, auth, cache), auth, cache, calls, work', taken')
  BY <1>1 DEF Go, Here, Fits
<1>3. QED
  BY <1>2, RenderStep DEF Go, Here

LEMMA SubmitFits ==
    ASSUME Here, NEW c \in Calls, NEW f \in Forms, NEW u \in Users, Submit(c, f, u)
    PROVE  Here'
<1> DEFINE new == [kind |-> f, by |-> u, mine |-> TRUE,
                   from |-> IF f = "login" THEN location.from ELSE None]
<1>1. new \in Call /\ (new.from # None => new.from.page # "login")
  BY DEF Here, Fits, PlaceOK, Call
<1>2. calls' = [calls EXCEPT ![c] = new] /\ new.by \in Users
  BY DEF Submit
<1> HIDE DEF new
<1>3. CallsOK(calls')
  BY <1>1, <1>2 DEF Here, Fits, CallsOK
<1>4. QED
  BY <1>3 DEF Submit, Here, Fits

LEMMA SignInFits ==
    ASSUME Here, NEW c \in Calls, SignIn(c)
    PROVE  Here'
<1> DEFINE a == [user |-> [of |-> calls[c].by, name |-> calls[c].by], in |-> TRUE]
           from == calls[c].from
           l == AppRoutes(GuestRoute(from, a), None, a, cache)
<1>1. calls[c].by \in Users /\ from \in Route \cup {None}
  BY DEF SignIn, Here, Fits, CallsOK, Call
<1>2. a \in Auth /\ a.user # None
  BY <1>1, UserNotNone DEF Auth
<1>3. GuestRoute(from, a) \in Route
  BY <1>1, ToType, RequireRoleGuards DEF GuestRoute
<1>4. PlaceOK(l, a)
  BY <1>2, <1>3, RoutesGuard
<1>5. ~taken' => OwnedBy(cache, a, work)
  BY DEF SignIn, Here, Fits, OwnedBy
<1>6. CallsOK(Done(c))
  BY DoneOK DEF Here, Fits
<1>7. Fits(l, a, cache, Done(c), work', taken')
  BY <1>2, <1>4, <1>5, <1>6 DEF SignIn, Here, Fits
<1>8. Render(l, a, cache, Done(c), feedback)
  BY DEF SignIn
<1>9. QED
  BY <1>7, <1>8, RenderStep DEF Here

LEMMA SignInRefusedFits ==
    ASSUME Here, NEW c \in Calls, SignInRefused(c)
    PROVE  Here'
<1> DEFINE a == [auth EXCEPT !.in = FALSE]
           l == AppRoutes(location.at, location.from, a, cache)
<1>1. a \in Auth /\ a.user = auth.user
  BY DEF Here, Fits, Auth
<1>2. PlaceOK(l, a)
  BY <1>1, RoutesGuard DEF Here, Fits, PlaceOK
<1>3. ~taken' => OwnedBy(cache, a, work)
  BY <1>1 DEF SignInRefused, Here, Fits, OwnedBy
<1>4. CallsOK(Done(c))
  BY DoneOK DEF Here, Fits
<1>5. Fits(l, a, cache, Done(c), work', taken')
  BY <1>1, <1>2, <1>3, <1>4 DEF SignInRefused, Here, Fits
<1>6. Render(l, a, cache, Done(c), Said(c, "alert"))
  BY DEF SignInRefused
<1>7. QED
  BY <1>5, <1>6, RenderStep DEF Here

LEMMA LogoutFits ==
    ASSUME Here, NEW c \in Calls, Logout(c)
    PROVE  Here'
<1> DEFINE new == [NoCall EXCEPT !.kind = "logout", !.by = auth.user.of]
<1>1. auth.user.of \in Users
  BY AuthFacts DEF Logout, Here, Fits
<1>2. new \in Call
  BY <1>1 DEF NoCall, Call
<1>3. new.by \in Users /\ new.from = None
  BY <1>1 DEF NoCall
<1>4. calls' = [calls EXCEPT ![c] = new]
  BY DEF Logout
<1> HIDE DEF new
<1>5. CallsOK(calls')
  BY <1>2, <1>3, <1>4 DEF Here, Fits, CallsOK
<1>6. QED
  BY <1>5 DEF Logout, Here, Fits

LEMMA ForgetFits ==
    ASSUME Here, NEW cs, CallsOK(cs), Forget(cs), UNCHANGED <<work, taken>>
    PROVE  Here'
<1> DEFINE l == AppRoutes(location.at, location.from, Guest, NoCache)
<1>1. PlaceOK(l, Guest)
  BY GuestType, RoutesGuard DEF Here, Fits, PlaceOK
<1>2. Fits(l, Guest, NoCache, cs, work', taken')
  BY <1>1, GuestType, NoCacheOK DEF Here, Fits
<1>3. Render(l, Guest, NoCache, cs, feedback)
  BY DEF Forget
<1>4. QED
  BY <1>2, <1>3, RenderStep DEF Here

LEMMA RenamedFits ==
    ASSUME Here, NEW c \in Calls, Renamed(c)
    PROVE  Here'
<1> DEFINE a == updateUser(calls[c].by)
           e == Profile!Refetched(cache.profile)
           q == IF ObservesProfile(location.at.page) THEN Asked(cache, e, auth)
                ELSE [cache EXCEPT !.profile = Profile!Invalidated(@)]
<1>1. /\ a \in Auth /\ a.in = auth.in
      /\ a.user = None <=> auth.user = None
      /\ a.user.of = auth.user.of
  <2>1. CASE auth.user = None
    BY <2>1 DEF updateUser, Here, Fits
  <2>2. CASE auth.user # None
    <3>1. calls[c].by \in Users
      BY DEF Renamed, Here, Fits, CallsOK
    <3>2. /\ auth.user \in [of : Users, name : Users] /\ auth.in \in BOOLEAN
          /\ auth = [user |-> auth.user, in |-> auth.in]
      BY <2>2 DEF Here, Fits, Auth
    <3>3. a = [auth EXCEPT !.user = [auth.user EXCEPT !.name = calls[c].by]]
      BY <2>2 DEF updateUser
    <3>4. /\ a.user = [auth.user EXCEPT !.name = calls[c].by] /\ a.in = auth.in
          /\ a = [user |-> a.user, in |-> a.in]
      BY <3>2, <3>3
    <3> HIDE DEF a
    <3>5. a.user \in [of : Users, name : Users] /\ a.user.of = auth.user.of
      BY <3>1, <3>2, <3>4
    <3>6. a.user # None
      BY <3>5, UserNotNone
    <3>7. QED
      BY <2>2, <3>2, <3>4, <3>5, <3>6 DEF Auth
  <2>3. QED
    BY <2>1, <2>2
<1>2. PlaceOK(location, a)
  BY <1>1 DEF Here, Fits, PlaceOK
<1>3. /\ cache.profile \in Profile!Entry /\ cache.asker \in Users \cup {None}
      /\ cache \in Cache
  BY DEF Here, Fits, CacheOK, Cache
<1>4. CacheOK(q) /\ (OwnedBy(cache, auth, work) => OwnedBy(q, auth, work))
  <2>1. CASE ObservesProfile(location.at.page)
    <3>1. auth.user # None /\ auth.user.of \in Users
      BY <2>1, ObserverIsIn DEF Here, Fits
    <3>2. /\ e \in Profile!Entry /\ e.data = cache.profile.data
          /\ e.request = "after" \/ Profile!Fetching(cache.profile)
      BY <1>3, EntryTypes, RefetchedAsks
    <3> HIDE DEF e
    <3>3. q = [cache EXCEPT !.profile = e,
                            !.asker = IF e # cache.profile /\ e.request = "after"
                                      THEN auth.user.of ELSE @]
      BY <2>1 DEF Asked
    <3>4. /\ q \in Cache /\ q.profile = e /\ q.poll = cache.poll
          /\ q.asker = IF e # cache.profile /\ e.request = "after"
                       THEN auth.user.of ELSE cache.asker
      BY <1>3, <3>1, <3>2, <3>3 DEF Cache
    <3> HIDE DEF q
    <3>5. CacheOK(q)
      BY <3>1, <3>2, <3>4, UserNotNone DEF CacheOK, Here, Fits
    <3>6. OwnedBy(cache, auth, work) => OwnedBy(q, auth, work)
      BY <3>1, <3>2, <3>4 DEF OwnedBy, Profile!Has
    <3>7. QED
      BY <3>5, <3>6
  <2>2. CASE ~ObservesProfile(location.at.page)
    <3>1. /\ Profile!Invalidated(cache.profile) \in Profile!Entry
          /\ Profile!Invalidated(cache.profile).data = cache.profile.data
          /\ Profile!Fetching(Profile!Invalidated(cache.profile))
                => Profile!Fetching(cache.profile)
      BY <1>3, EntryTypes
    <3>2. q = [cache EXCEPT !.profile = Profile!Invalidated(cache.profile)]
      BY <2>2
    <3>3. CacheOK(q)
      BY <3>1, <3>2, ProfileReplaced DEF Here, Fits
    <3>4. ASSUME OwnedBy(cache, auth, work)
          PROVE  OwnedBy(q, auth, work)
      <4>1. Profile!Has(Profile!Invalidated(cache.profile)) =>
              /\ auth.user # None
              /\ Profile!Invalidated(cache.profile).data.of = auth.user.of
        BY <3>1, <3>4 DEF OwnedBy, Profile!Has
      <4>2. QED
        BY <3>1, <3>2, <3>4, <4>1, ProfileReplaced DEF Here, Fits
    <3>5. QED
      BY <3>3, <3>4
  <2>3. QED
    BY <2>1, <2>2
<1> HIDE DEF q, e
<1>5. ~taken' => OwnedBy(q, a, work)
  BY <1>1, <1>4 DEF Renamed, Here, Fits, OwnedBy
<1>6. CallsOK(Done(c))
  BY DoneOK DEF Here, Fits
<1> HIDE DEF a
<1>7. Fits(location, a, q, Done(c), work', taken')
  BY <1>1, <1>2, <1>4, <1>5, <1>6 DEF Renamed, Here, Fits
<1>8. Render(location, a, q, Done(c), Said(c, "success"))
  BY DEF Renamed, a, q, e
<1>9. QED
  BY <1>7, <1>8, RenderStep DEF Here

LEMMA AnswerFits ==
    ASSUME Here, NEW c \in Calls, calls' = Done(c),
           UNCHANGED <<location, auth, cache, work, taken>>
    PROVE  Here'
<1>1. CallsOK(calls')
  BY DoneOK DEF Here, Fits
<1>2. QED
  BY <1>1 DEF Here, Fits

LEMMA SubmittedFits ==
    ASSUME Here, NEW c \in Calls, NEW t \in Tasks, Submitted(c, t)
    PROVE  Here'
<1> DEFINE route == [page |-> "status", task |-> t]
           l == AppRoutes(route, None, auth, cache)
           new == [owner |-> calls[c].by, state |-> "running"]
<1>1. PlaceOK(l, auth)
  <2>1. route \in Route
    BY DEF Route
  <2> HIDE DEF route
  <2>2. QED
    BY <2>1, RoutesGuard DEF Here, Fits
<1>2. calls[c].by \in Users
  BY DEF Submitted, Here, Fits, CallsOK
<1>3. new \in Work /\ new.state # "unsent"
  BY <1>2 DEF Work
<1>4. work' = [work EXCEPT ![t] = new]
  BY DEF Submitted
<1>5. work[t].owner = None
  BY DEF Submitted, Here, Fits, WorkOK
<1> HIDE DEF new
<1>6. WorkOK(work') /\ \A s \in Tasks \ {t} : work'[s] = work[s]
  BY <1>3, <1>4 DEF Here, Fits, WorkOK
<1>7. OwnedBy(cache, auth, work) => OwnedBy(cache, auth, work')
  BY <1>5, <1>6, AuthFacts, UserNotNone DEF OwnedBy, Here, Fits
<1>8. CallsOK(Done(c))
  BY DoneOK DEF Here, Fits
<1>9. Fits(l, auth, cache, Done(c), work', taken')
  BY <1>1, <1>6, <1>7, <1>8 DEF Submitted, Here, Fits
<1>10. Render(l, auth, cache, Done(c), feedback)
  BY DEF Submitted
<1>11. QED
  BY <1>9, <1>10, RenderStep DEF Here

LEMMA ProfileAnsweredFits ==
    ASSUME Here, ProfileAnswered
    PROVE  Here'
<1> DEFINE answer == [of |-> cache.asker, analyses |-> Finished(cache.asker)]
           e == Profile!Answered(cache.profile, answer)
           q == [cache EXCEPT !.profile = e]
<1>1. /\ cache.profile \in Profile!Entry /\ Profile!Fetching(cache.profile)
      /\ cache.asker \in Users
  BY DEF ProfileAnswered, Here, Fits, CacheOK, Cache
<1>2. answer \in Profiles /\ answer.of = cache.asker
  BY <1>1 DEF Profiles, Finished
<1> HIDE DEF answer
<1>3. e \in Profile!Entry /\ e.data = answer /\ ~Profile!Fetching(e)
  BY <1>1, <1>2 DEF Profile!Answered, Profile!Entry, Profile!Since, Profile!Fetching
<1> HIDE DEF e
<1>4. CacheOK(q)
  BY <1>3, ProfileReplaced DEF Here, Fits
<1>5. ASSUME OwnedBy(cache, auth, work)
      PROVE  OwnedBy(q, auth, work)
  <2>1. auth.user # None /\ e.data.of = auth.user.of
    BY <1>1, <1>2, <1>3, <1>5 DEF OwnedBy
  <2>2. QED
    BY <1>3, <1>5, <2>1, ProfileReplaced DEF Here, Fits
<1>6. Render(location, auth, q, calls, feedback)
  BY DEF ProfileAnswered, e, answer
<1> HIDE DEF q
<1>7. Fits(location, auth, q, calls, work', taken')
  BY <1>4, <1>5 DEF ProfileAnswered, Here, Fits
<1>8. QED
  BY <1>6, <1>7, RenderStep DEF Here

LEMMA ProfileFailedFits ==
    ASSUME Here, ProfileFailed
    PROVE  Here'
<1> DEFINE e == Profile!Failed(cache.profile)
           q == [cache EXCEPT !.profile = e]
<1>1. e \in Profile!Entry /\ e.data = cache.profile.data /\ ~Profile!Fetching(e)
  BY EntryTypes DEF Here, Fits, CacheOK, Cache
<1> HIDE DEF e
<1>2. CacheOK(q)
  BY <1>1, ProfileReplaced DEF Here, Fits
<1>3. ASSUME OwnedBy(cache, auth, work)
      PROVE  OwnedBy(q, auth, work)
  <2>1. Profile!Has(e) => auth.user # None /\ e.data.of = auth.user.of
    BY <1>1, <1>3 DEF OwnedBy, Profile!Has
  <2>2. QED
    BY <1>1, <1>3, <2>1, ProfileReplaced DEF Here, Fits
<1>4. Render(location, auth, q, calls, feedback)
  BY DEF ProfileFailed, e
<1> HIDE DEF q
<1>5. Fits(location, auth, q, calls, work', taken')
  BY <1>2, <1>3 DEF ProfileFailed, Here, Fits
<1>6. QED
  BY <1>4, <1>5, RenderStep DEF Here

LEMMA ProfileAgesFits ==
    ASSUME Here, ProfileAges
    PROVE  Here'
<1> DEFINE e == [cache.profile EXCEPT !.stale = TRUE]
<1>1. cache.profile \in Profile!Entry
  BY DEF Here, Fits, CacheOK, Cache
<1>2. /\ e \in Profile!Entry /\ e.data = cache.profile.data
      /\ Profile!Fetching(e) => Profile!Fetching(cache.profile)
  BY <1>1 DEF Profile!Entry, Profile!Fetching
<1> HIDE DEF e
<1>3. cache' = [cache EXCEPT !.profile = e]
  BY DEF ProfileAges, e
<1>4. CacheOK(cache')
  BY <1>2, <1>3, ProfileReplaced DEF Here, Fits
<1>5. ASSUME OwnedBy(cache, auth, work)
      PROVE  OwnedBy(cache', auth, work)
  <2>1. Profile!Has(e) => auth.user # None /\ e.data.of = auth.user.of
    BY <1>2, <1>5 DEF OwnedBy, Profile!Has
  <2>2. QED
    BY <1>2, <1>3, <1>5, <2>1, ProfileReplaced DEF Here, Fits
<1>6. QED
  BY <1>4, <1>5 DEF ProfileAges, Here, Fits

LEMMA PollFits ==
    ASSUME Here, NEW t \in Tasks, Poll(t)
    PROVE  Here'
<1> DEFINE p == Fetched(cache.poll[t])
<1>1. p \in Query /\ p.data = cache.poll[t].data /\ p.failures = 0
  BY FetchedType DEF Here, Fits, CacheOK, Cache
<1> HIDE DEF p
<1>2. cache' = [cache EXCEPT !.poll[t] = p]
  BY DEF Poll, p
<1>3. CacheOK(cache')
  BY <1>1, <1>2, PollReplaced DEF Here, Fits
<1>4. OwnedBy(cache, auth, work) => OwnedBy(cache', auth, work)
  BY <1>1, <1>2, PollReplaced DEF Here, Fits, OwnedBy
<1>5. QED
  BY <1>3, <1>4 DEF Poll, Here, Fits

LEMMA AnsweredType ==
    ASSUME NEW a \in Answers
    PROVE  Answered(a) \in Query /\ Answered(a).data = a /\ ~Answered(a).fetching
<1>1. Answered(a) \in Query
  BY DEF Answered, NoQuery, Query
<1>2. QED
  BY <1>1 DEF Answered, NoQuery

\* A completed task is told to its owner only.
LEMMA PolledFits ==
    ASSUME Here, NEW t \in Tasks, Polled(t)
    PROVE  Here'
<1> DEFINE answer == Told(t)
           p == Answered(answer)
           q == [cache EXCEPT !.poll[t] = p]
           l == AppRoutes(location.at, location.from, auth, q)
<1>1. /\ answer \in Answers
      /\ answer = "completed" => auth.user # None /\ work[t].owner = auth.user.of
  BY DEF Told, Answers, Verdicts, Polled, Forbidden, Owns
<1> HIDE DEF answer
<1>2. p \in Query /\ p.data = answer /\ ~p.fetching
  BY <1>1, AnsweredType
<1> HIDE DEF p
<1>3. CacheOK(q)
  BY <1>2, PollReplaced DEF Here, Fits
<1>4. OwnedBy(cache, auth, work) => OwnedBy(q, auth, work)
  BY <1>1, <1>2, PollReplaced DEF Here, Fits
<1> HIDE DEF q
<1>5. PlaceOK(l, auth)
  BY RoutesGuard DEF Here, Fits, PlaceOK
<1>6. Fits(l, auth, q, calls, work', taken')
  BY <1>3, <1>4, <1>5 DEF Polled, Here, Fits
<1>7. Render(l, auth, q, calls, feedback)
  BY DEF Polled, q, p, answer
<1>8. QED
  BY <1>6, <1>7, RenderStep DEF Here

LEMMA FailedType ==
    ASSUME NEW q \in Query, q.failures = 0
    PROVE  Failed(q) \in Query /\ Failed(q).data = q.data /\ ~Failed(q).fetching
<1> DEFINE Counts == {0, 1}
<1>1. Query = [data : Answers \cup {None}, error : BOOLEAN,
               failures : Counts, fetching : BOOLEAN]
  BY DEF Query
<1>2. q.failures + 1 \in Counts
  OBVIOUS
<1> HIDE DEF Counts
<1>3. Failed(q) \in Query
  BY <1>1, <1>2 DEF Failed
<1>4. QED
  BY <1>1, <1>3 DEF Failed

LEMMA PollFailedFits ==
    ASSUME Here, NEW t \in Tasks, PollFailed(t)
    PROVE  Here'
<1> DEFINE p == Failed(cache.poll[t])
<1>1. cache.poll[t] \in Query /\ cache.poll[t].failures = 0
  BY DEF PollFailed, Here, Fits, CacheOK, Cache
<1>2. p \in Query /\ p.data = cache.poll[t].data /\ ~p.fetching
  BY <1>1, FailedType
<1> HIDE DEF p
<1>3. cache' = [cache EXCEPT !.poll[t] = p]
  BY DEF PollFailed, p
<1>4. CacheOK(cache')
  BY <1>2, <1>3, PollReplaced DEF Here, Fits
<1>5. OwnedBy(cache, auth, work) => OwnedBy(cache', auth, work)
  BY <1>2, <1>3, PollReplaced DEF Here, Fits, OwnedBy
<1>6. QED
  BY <1>4, <1>5 DEF PollFailed, Here, Fits

LEMMA EndFits ==
    ASSUME Here, NEW t \in Tasks, End(t)
    PROVE  Here'
<1>1. PICK verdict \in Verdicts : work' = [work EXCEPT ![t].state = verdict]
  BY DEF End
<1>2. /\ WorkOK(work')
      /\ \A s \in Tasks : work'[s].owner = work[s].owner
  BY <1>1 DEF End, Here, Fits, WorkOK, Work, Verdicts
<1>3. OwnedBy(cache, auth, work) => OwnedBy(cache, auth, work')
  BY <1>2 DEF OwnedBy
<1>4. QED
  BY <1>2, <1>3 DEF End, Here, Fits

LEMMA OutsideFits ==
    ASSUME Here, Hide \/ \E t \in Tasks : Expire(t)
    PROVE  Here'
BY DEF Hide, Expire, Here, Fits

LEMMA NextFits ==
    ASSUME Here, Next
    PROVE  Here'
<1>1. CASE SessionEnded
  BY <1>1, ForgetFits DEF SessionEnded, Here, Fits
<1>2. CASE ProfileAnswered \/ ProfileFailed \/ ProfileAges
  BY <1>2, ProfileAnsweredFits, ProfileFailedFits, ProfileAgesFits
<1>3. CASE \E route \in Route : Go(route)
  BY <1>3, GoFits
<1>4. CASE \E c \in Calls, f \in Forms, u \in Users : Submit(c, f, u)
  BY <1>4, SubmitFits
<1>5. CASE \E c \in Calls : SignIn(c) \/ SignInRefused(c) \/ Logout(c)
  BY <1>5, SignInFits, SignInRefusedFits, LogoutFits
<1>6. ASSUME NEW c \in Calls, LoggedOut(c)
      PROVE  Here'
  <2>1. CallsOK(Done(c))
    BY DoneOK DEF Here, Fits
  <2>2. QED
    BY <1>6, <2>1, ForgetFits DEF LoggedOut
<1>7. CASE \E c \in Calls : Renamed(c)
  BY <1>7, RenamedFits
<1>8. CASE \E c \in Calls : PasswordChanged(c) \/ Refused(c)
  BY <1>8, AnswerFits DEF PasswordChanged, Refused
<1>9. CASE \E c \in Calls, t \in Tasks : Submitted(c, t)
  BY <1>9, SubmittedFits
<1>10. CASE \E t \in Tasks : Poll(t) \/ Polled(t) \/ PollFailed(t) \/ End(t)
  BY <1>10, PollFits, PolledFits, PollFailedFits, EndFits
<1>11. CASE Hide \/ \E t \in Tasks : Expire(t)
  BY <1>11, OutsideFits
<1>12. QED
  BY <1>1, <1>2, <1>3, <1>4, <1>5, <1>6, <1>7, <1>8, <1>9, <1>10, <1>11 DEF Next

LEMMA InitFits ==
    ASSUME Init
    PROVE  Here
<1>1. PlaceOK(location, auth)
  BY ToType, GuestType DEF Init, PlaceOK, Public
<1>2. CallsOK(calls)
  BY DEF Init, CallsOK, NoCall, Call
<1>3. WorkOK(work)
  BY DEF Init, WorkOK, Work
<1>4. QED
  BY <1>1, <1>2, <1>3, GuestType, NoCacheOK DEF Init, Here, Fits

LEMMA NextFeedback ==
    ASSUME RestOK, Next
    PROVE  feedback' \in [Forms -> Notes]
<1>1. feedback \in [Forms -> Notes]
  BY DEF RestOK
<1>2. CASE SessionEnded \/ (\E c \in Calls : LoggedOut(c))
  BY <1>1, <1>2, RenderFeedback DEF SessionEnded, LoggedOut, Forget
<1>3. CASE ProfileAnswered \/ ProfileFailed
  BY <1>1, <1>3, RenderFeedback DEF ProfileAnswered, ProfileFailed
<1>4. CASE \E route \in Route : Go(route)
  BY <1>1, <1>4, RenderFeedback DEF Go
<1>5. CASE \E c \in Calls, f \in Forms, u \in Users : Submit(c, f, u)
  BY <1>1, <1>5 DEF Submit, Notes
<1>6. ASSUME NEW c \in Calls, SignIn(c)
      PROVE  feedback' \in [Forms -> Notes]
  BY <1>1, <1>6, RenderFeedback DEF SignIn
<1>7. ASSUME NEW c \in Calls, SignInRefused(c)
      PROVE  feedback' \in [Forms -> Notes]
  <2>1. Said(c, "alert") \in [Forms -> Notes]
    BY <1>7, SaidType DEF SignInRefused, Forms, Notes
  <2>2. QED
    BY <1>7, <2>1, RenderFeedback DEF SignInRefused
<1>8. ASSUME NEW c \in Calls, Renamed(c)
      PROVE  feedback' \in [Forms -> Notes]
  <2>1. Said(c, "success") \in [Forms -> Notes]
    BY <1>8, SaidType DEF Renamed, Forms, Notes
  <2>2. QED
    BY <1>8, <2>1, RenderFeedback DEF Renamed
<1>9. ASSUME NEW c \in Calls, PasswordChanged(c) \/ Refused(c)
      PROVE  feedback' \in [Forms -> Notes]
  <2>1. calls[c].kind \in Forms
    BY <1>9 DEF PasswordChanged, Refused, Forms
  <2>2. PICK note \in Notes : feedback' = Said(c, note)
    BY <1>9 DEF PasswordChanged, Refused, Notes
  <2>3. QED
    BY <2>1, <2>2, SaidType
<1>10. ASSUME NEW c \in Calls, NEW t \in Tasks, Submitted(c, t)
       PROVE  feedback' \in [Forms -> Notes]
  BY <1>1, <1>10, RenderFeedback DEF Submitted
<1>11. ASSUME NEW t \in Tasks, Polled(t)
       PROVE  feedback' \in [Forms -> Notes]
  BY <1>1, <1>11, RenderFeedback DEF Polled
<1>12. CASE \/ ProfileAges \/ Hide
            \/ \E c \in Calls : Logout(c)
            \/ \E t \in Tasks : Poll(t) \/ PollFailed(t) \/ End(t) \/ Expire(t)
  BY <1>1, <1>12 DEF ProfileAges, Hide, Logout, Poll, PollFailed, End, Expire
<1>13. QED
  BY <1>2, <1>3, <1>4, <1>5, <1>6, <1>7, <1>8, <1>9, <1>10, <1>11, <1>12 DEF Next

LEMMA NextRest ==
    ASSUME Here, RestOK, Next
    PROVE  RestOK'
<1> USE DEF Next, SessionEnded, ProfileAnswered, ProfileFailed, ProfileAges, Go, Submit,
            SignIn, SignInRefused, Logout, LoggedOut, Renamed, PasswordChanged, Refused,
            Submitted, Poll, Polled, PollFailed, End, Hide, Expire
<1>1. taken' \in {taken, taken \/ auth.user # None, taken \/ auth.in}
  OBVIOUS
<1>2. hidden' = hidden \/ hidden' = ~hidden
  OBVIOUS
<1>3. expired' = expired \/ \E t \in Tasks : expired' = expired \cup {t}
  OBVIOUS
<1>4. inputs' = inputs \/ Input
  OBVIOUS
<1>5. feedback' \in [Forms -> Notes]
  BY NextFeedback
<1> HIDE DEF Next
<1>6. auth.in \in BOOLEAN
  BY AuthFacts DEF Here, Fits
<1>7. taken' \in BOOLEAN
  BY <1>1, <1>6 DEF RestOK
<1>8. hidden' \in BOOLEAN
  BY <1>2 DEF RestOK
<1>9. expired' \subseteq Tasks
  BY <1>3 DEF RestOK
<1>10. inputs' \in 0..MaxInputs
  BY <1>4, PagesAssumption DEF RestOK, Input
<1>11. QED
  BY <1>5, <1>7, <1>8, <1>9, <1>10 DEF RestOK

LEMMA InitRest ==
    ASSUME Init
    PROVE  RestOK
<1>1. feedback \in [Forms -> Notes] /\ taken \in BOOLEAN
  BY DEF Init, Blank, Notes
<1>2. hidden \in BOOLEAN /\ expired \subseteq Tasks
  BY DEF Init
<1>3. inputs \in 0..MaxInputs
  BY PagesAssumption DEF Init
<1>4. QED
  BY <1>1, <1>2, <1>3 DEF RestOK

THEOREM Invariance == Spec => []IInv
<1>1. Init => IInv
  BY InitFits, InitRest DEF IInv
<1>2. IInv /\ [Next]_vars => IInv'
  <2>1. CASE Next
    BY <2>1, NextFits, NextRest DEF IInv
  <2>2. CASE UNCHANGED vars
    BY <2>2 DEF vars, IInv, Here, Fits, RestOK
  <2>3. QED
    BY <2>1, <2>2
<1>3. QED
  BY <1>1, <1>2, PTL DEF Spec
-----------------------------------------------------------------------------
(***************************************************************************)
(* The results.                                                            *)
(***************************************************************************)
\* Every variable keeps its type.
THEOREM TypeCorrect == Spec => []TypeOK
<1>1. IInv => TypeOK
  BY DEF IInv, Here, Fits, PlaceOK, CallsOK, WorkOK, CacheOK, RestOK, Notes, TypeOK
<1>2. QED
  BY <1>1, Invariance, PTL

\* No answer, redirect or end of the session leaves a page its guards forbid.
THEOREM PagesAreGuarded == Spec => []Guarded
<1>1. IInv => Guarded
  BY DEF IInv, Here, Fits, PlaceOK, Guarded
<1>2. QED
  BY <1>1, Invariance, PTL

\* Nothing of one session is shown in the next, unless a login was answered
\* while somebody was signed in.
THEOREM CacheIsOwn == Spec => []OwnData
<1>1. IInv => OwnData
  BY DEF IInv, Here, Fits, OwnedBy, OwnData, Owns
<1>2. QED
  BY <1>1, Invariance, PTL
-----------------------------------------------------------------------------
(***************************************************************************)
(* The name in the header.                                                 *)
(***************************************************************************)
\* Nobody's rename is on its way while another user is signed in.
RenamesOwn ==
    \A c \in Calls :
        calls[c].kind = "rename" /\ auth.user # None => calls[c].by = auth.user.of

\* A user who is kept under another status is named rightly too.
NamedOwn(a) == a.user # None => a.user.name = a.user.of

\* What a step may do to the session.
LEMMA HowSessionsChange ==
    ASSUME [Next]_vars, auth \in Auth
    PROVE  \/ auth' \in {auth, Guest, [auth EXCEPT !.in = FALSE]}
           \/ \E c \in Calls : \/ SignIn(c)
                               \/ calls[c].kind = "rename"
                                  /\ auth' = updateUser(calls[c].by)
<1>1. CASE SessionEnded \/ \E c \in Calls : LoggedOut(c)
  BY <1>1 DEF SessionEnded, LoggedOut, Forget, Render
<1>2. CASE ProfileAnswered \/ ProfileFailed \/ ProfileAges
  BY <1>2 DEF ProfileAnswered, ProfileFailed, ProfileAges, Render
<1>3. CASE \E route \in Route : Go(route)
  BY <1>3 DEF Go, Render
<1>4. CASE \E c \in Calls, f \in Forms, u \in Users : Submit(c, f, u)
  BY <1>4 DEF Submit
<1>5. CASE \E c \in Calls : SignInRefused(c)
  BY <1>5 DEF SignInRefused, Render
<1>6. CASE \E c \in Calls : Logout(c) \/ PasswordChanged(c) \/ Refused(c)
  BY <1>6 DEF Logout, PasswordChanged, Refused
<1>7. CASE \E c \in Calls : Renamed(c)
  BY <1>7 DEF Renamed, Render
<1>8. CASE \E c \in Calls, t \in Tasks : Submitted(c, t)
  BY <1>8 DEF Submitted, Render
<1>9. CASE \E t \in Tasks : Poll(t) \/ Polled(t) \/ PollFailed(t) \/ End(t)
  BY <1>9 DEF Poll, Polled, PollFailed, End, Render
<1>10. CASE Hide \/ \E t \in Tasks : Expire(t)
  BY <1>10 DEF Hide, Expire
<1>11. CASE UNCHANGED vars
  BY <1>11 DEF vars
<1>12. QED
  BY <1>1, <1>2, <1>3, <1>4, <1>5, <1>6, <1>7, <1>8, <1>9, <1>10, <1>11 DEF Next

LEMMA NamedStep ==
    ASSUME IInv, NamedOwn(auth), RenamesOwn, [Next]_vars
    PROVE  NamedOwn(auth)'
<1>1. auth \in Auth
  BY DEF IInv, Here, Fits
<1>2. CASE auth' \in {auth, Guest, [auth EXCEPT !.in = FALSE]}
  <2>1. Guest.user = None
    BY GuestType
  <2>2. [auth EXCEPT !.in = FALSE].user = auth.user
    BY <1>1 DEF Auth
  <2>3. auth'.user \in {auth.user, None}
    BY <1>2, <2>1, <2>2
  <2>4. QED
    BY <2>3 DEF NamedOwn
<1>3. ASSUME NEW c \in Calls, SignIn(c)
      PROVE  NamedOwn(auth)'
  BY <1>3 DEF SignIn, Render, NamedOwn
<1>4. ASSUME NEW c \in Calls, calls[c].kind = "rename", auth' = updateUser(calls[c].by)
      PROVE  NamedOwn(auth)'
  <2>1. CASE auth.user = None
    BY <1>4, <2>1 DEF updateUser, NamedOwn
  <2>2. CASE auth.user # None
    <3>1. calls[c].by = auth.user.of
      BY <1>4, <2>2 DEF RenamesOwn
    <3>2. auth'.user = [auth.user EXCEPT !.name = auth.user.of]
      BY <1>1, <1>4, <2>2, <3>1 DEF updateUser, Auth
    <3>3. auth.user \in [of : Users, name : Users]
      BY <1>1, <2>2 DEF Auth
    <3>4. QED
      BY <3>2, <3>3 DEF NamedOwn
  <2>3. QED
    BY <2>1, <2>2
<1>5. QED
  BY <1>1, <1>2, <1>3, <1>4, HowSessionsChange

\* The header names another user than the one who is signed in only when a
\* rename of the one is on its way in the session of the other: a login that
\* replaces a session is not enough, nor is a rename answered after a logout.
THEOREM WrongNameNeedsLateRename ==
    Spec /\ []RenamesOwn => []HeaderIsOwn
<1>1. Init => NamedOwn(auth)
  BY GuestType DEF Init, NamedOwn
<1>2. IInv /\ NamedOwn(auth) /\ RenamesOwn /\ [Next]_vars => NamedOwn(auth)'
  BY NamedStep
<1>3. IInv /\ NamedOwn(auth) => HeaderIsOwn
  BY AuthFacts DEF IInv, Here, Fits, NamedOwn, HeaderIsOwn
<1>4. QED
  BY <1>1, <1>2, <1>3, Invariance, PTL DEF Spec
=============================================================================
