----------------------------- MODULE WebSession -----------------------------
(***************************************************************************)
(* The session of the web client: the tokens in localStorage, the API      *)
(* client's answer to a 401 (lib/api/auth-interceptor.ts and client.ts)    *)
(* and the session functions of lib/auth/auth-provider.tsx, against a      *)
(* server that rotates refresh tokens.                                     *)
(*                                                                         *)
(* A page runs its callbacks one at a time; between sending a request and  *)
(* handling its answer anything else may run. Token pairs are numbered in  *)
(* the order the server issues them, and a pair is stored and cleared as a *)
(* whole. Tabs share the storage and nothing else.                         *)
(***************************************************************************)
EXTENDS Naturals, FiniteSets

CONSTANTS
    Tabs,         \* open pages of the application
    Slots,        \* API calls of a page that can be in progress at once
    MaxPairs,     \* bound: token pairs the server issues
    MaxReloads    \* bound: page reloads

ASSUME WebAssumption ==
    /\ MaxPairs \in Nat \ {0}
    /\ MaxReloads \in Nat

VARIABLES
    kept,         \* the pair in localStorage, 0 if there is none
    status,       \* AuthProvider's status, per tab
    isRefreshing, \* the interceptor's flag, per tab
    call,         \* the API calls, by tab and slot
    issued,       \* how many pairs the server has issued
    live,         \* the pairs whose refresh token the server accepts
    fresh,        \* the pairs whose access token has not expired
    rotated,      \* history: the pairs that were exchanged for a new one
    lost,         \* history: those whose exchange was under way when its
                  \* page was reloaded
    mixed,        \* history: the last login was answered while calls of an
                  \* earlier session of its page were under way
    reloads       \* page reloads so far

server == <<issued, live, fresh, rotated>>
vars == <<kept, status, isRefreshing, call, server, lost, mixed, reloads>>
-----------------------------------------------------------------------------
(***************************************************************************)
(* "sent": first attempt. "queued": in refreshSubscribers. "refreshing":   *)
(* the call that leads a refresh waits for it, then retries ("retrying").  *)
(* "again": the retry of a subscriber. "restoring": restoreSession's own   *)
(* refresh.                                                                *)
(***************************************************************************)
Stage == {"idle", "sent", "queued", "refreshing", "retrying", "again", "restoring"}

\* Who made the call: a page, restoreSession ("restored": its second try),
\* login or logout.
Kind == {"page", "restore", "restored", "login", "logout"}

\* "error" is any failure but 401: the network, 403, 404, 429, 500.
Reply == {"none", "ok", "401", "error"}

\* "token" is the pair the request carries, "body" the refresh token that a
\* logout asks to revoke, "pair" the new pair in the answer to a refresh.
Call == [stage : Stage, kind : Kind, token : 0..MaxPairs, body : 0..MaxPairs,
         pair : 0..MaxPairs, reply : Reply]

Idle == [stage |-> "idle", kind |-> "page", token |-> 0, body |-> 0,
         pair |-> 0, reply |-> "none"]

Pairs == 1..MaxPairs
Calls == Tabs \X Slots
TabOf(c) == c[1]
UnderWay(t) == {c \in Calls : TabOf(c) = t /\ call[c].stage # "idle"}
Subscribers(t) == {c \in UnderWay(t) : call[c].stage = "queued"}
Exchanging(c) == call[c].stage \in {"refreshing", "restoring"}
Leading(c) == call[c].stage \in {"refreshing", "retrying"}

Init ==
    /\ kept \in {0, 1}
    /\ status = [t \in Tabs |-> "initializing"]
    /\ isRefreshing = [t \in Tabs |-> FALSE]
    /\ call = [c \in Calls |-> Idle]
    /\ issued = 1
    /\ live = {1}
    /\ fresh = {1}
    /\ rotated = {}
    /\ lost = {}
    /\ mixed = FALSE
    /\ reloads = 0
-----------------------------------------------------------------------------
Sent(c, stage, pair) ==
    [c EXCEPT !.stage = stage, !.token = pair, !.pair = 0, !.reply = "none"]

Begin(c, kind, pair, body) ==
    /\ call[c].stage = "idle"
    /\ call' = [call EXCEPT ![c] =
                  Sent([Idle EXCEPT !.kind = kind, !.body = body], "sent", pair)]

\* A page behind RequireAuth calls the API.
PageCall(c) ==
    /\ status[TabOf(c)] = "authenticated"
    /\ Begin(c, "page", kept, 0)
    /\ UNCHANGED <<kept, status, isRefreshing, server, lost, mixed, reloads>>

\* restoreSession, on mount.
Restore(c) ==
    LET t == TabOf(c)
    IN  /\ status[t] = "initializing"
        /\ UnderWay(t) = {}
        /\ IF kept = 0
           THEN /\ status' = [status EXCEPT ![t] = "unauthenticated"]
                /\ UNCHANGED call
           ELSE /\ Begin(c, "restore", kept, 0)
                /\ UNCHANGED status
        /\ UNCHANGED <<kept, isRefreshing, server, lost, mixed, reloads>>

\* login: the server's answer is stored, then the profile is fetched.
Login(c) ==
    LET t == TabOf(c)
        new == issued + 1
    IN  /\ status[t] = "unauthenticated"
        /\ \A d \in UnderWay(t) : call[d].kind # "login"
        /\ issued < MaxPairs
        /\ issued' = new
        /\ live' = live \cup {new}
        /\ fresh' = fresh \cup {new}
        /\ kept' = new
        /\ Begin(c, "login", new, 0)
        /\ mixed' = (UnderWay(t) # {})
        /\ UNCHANGED <<status, isRefreshing, rotated, lost, reloads>>

\* logout: the refresh token it revokes is read before the first await.
Logout(c) ==
    LET t == TabOf(c)
    IN  /\ status[t] = "authenticated"
        /\ IF kept = 0
           THEN /\ status' = [status EXCEPT ![t] = "unauthenticated"]
                /\ UNCHANGED call
           ELSE /\ Begin(c, "logout", kept, kept)
                /\ UNCHANGED status
        /\ UNCHANGED <<kept, isRefreshing, server, lost, mixed, reloads>>
-----------------------------------------------------------------------------
(***************************************************************************)
(* The server, and the network.                                            *)
(***************************************************************************)
Serve(c) ==
    /\ call[c].stage \in {"sent", "again", "retrying"}
    /\ call[c].reply = "none"
    /\ LET accepted == call[c].token \in fresh
       IN  /\ call' = [call EXCEPT ![c].reply = IF accepted THEN "ok" ELSE "401"]
           /\ live' = IF accepted /\ call[c].kind = "logout"
                      THEN live \ {call[c].body} ELSE live
    /\ UNCHANGED <<kept, status, isRefreshing, issued, fresh, rotated, lost, mixed,
                   reloads>>

\* POST /auth/refresh: the token is exchanged, once.
Exchange(c) ==
    LET new == issued + 1
    IN  /\ Exchanging(c) /\ call[c].reply = "none"
        /\ IF call[c].token \in live
           THEN /\ issued < MaxPairs
                /\ issued' = new
                /\ live' = (live \ {call[c].token}) \cup {new}
                /\ fresh' = fresh \cup {new}
                /\ rotated' = rotated \cup {call[c].token}
                /\ call' = [call EXCEPT ![c].reply = "ok", ![c].pair = new]
           ELSE /\ call' = [call EXCEPT ![c].reply = "401"]
                /\ UNCHANGED server
        /\ UNCHANGED <<kept, status, isRefreshing, lost, mixed, reloads>>

\* The request or its answer is lost, or the server answers another error.
Break(c) ==
    /\ call[c].stage \notin {"idle", "queued"}
    /\ call[c].reply \in {"none", "ok"}
    /\ call' = [call EXCEPT ![c].reply = "error"]
    /\ UNCHANGED <<kept, status, isRefreshing, server, lost, mixed, reloads>>

ExpireAccess(p) ==
    /\ p \in fresh
    /\ fresh' = fresh \ {p}
    /\ UNCHANGED <<kept, status, isRefreshing, call, issued, live, rotated, lost,
                   mixed, reloads>>

\* An administrator, or its absolute expiry, ends the session.
EndSession(p) ==
    /\ p \in live
    /\ live' = live \ {p}
    /\ UNCHANGED <<kept, status, isRefreshing, call, issued, fresh, rotated, lost,
                   mixed, reloads>>
-----------------------------------------------------------------------------
(***************************************************************************)
(* The answer to a call, by what it was for.                               *)
(***************************************************************************)
SetStatus(t, s) == status' = [status EXCEPT ![t] = s]

\* Mutant: no "finally", the flag stays up after the leader's retry.
LowerNever(c) == isRefreshing

\* The leader's "finally".
Lower(c) ==
    [isRefreshing EXCEPT ![TabOf(c)] = @ /\ call[c].stage # "retrying"]

Succeed(c) ==
    LET t == TabOf(c)
    IN  /\ call[c].stage \in {"sent", "again", "retrying"}
        /\ call[c].reply = "ok"
        /\ CASE call[c].kind = "page" -> UNCHANGED <<kept, status>>
             [] call[c].kind = "logout" -> kept' = 0 /\ SetStatus(t, "unauthenticated")
             [] OTHER -> SetStatus(t, "authenticated") /\ UNCHANGED kept
        /\ call' = [call EXCEPT ![c] = Idle]
        /\ isRefreshing' = Lower(c)
        /\ UNCHANGED <<server, lost, mixed, reloads>>

\* A call that is not, or not again, retried: a first answer other than 401,
\* or any failure of a subscriber's retry.
Rejected(c) ==
    \/ call[c].stage = "sent" /\ call[c].reply = "error"
    \/ call[c].stage = "again" /\ call[c].reply \in {"401", "error"}

Reject(c) ==
    LET t == TabOf(c)
    IN  /\ Rejected(c)
        /\ CASE call[c].kind = "page" -> UNCHANGED <<kept, status>>
             [] call[c].kind = "login" ->
                  SetStatus(t, "unauthenticated") /\ UNCHANGED kept
             [] call[c].kind = "restore" /\ kept # 0 -> UNCHANGED <<kept, status>>
             [] OTHER -> kept' = 0 /\ SetStatus(t, "unauthenticated")
        \* restoreSession refreshes by itself, whatever the failure was.
        /\ call' = [call EXCEPT ![c] =
                      IF @.kind = "restore" /\ kept # 0
                      THEN Sent(@, "restoring", kept) ELSE Idle]
        /\ UNCHANGED <<isRefreshing, server, lost, mixed, reloads>>

\* Mutant: the new refresh token is not stored.
StoreNothing(pair) == kept' = kept

\* setAccessToken, setRefreshToken.
Store(pair) == kept' = pair

Restored(c) ==
    /\ call[c].stage = "restoring" /\ call[c].reply = "ok"
    /\ Store(call[c].pair)
    /\ call' = [call EXCEPT ![c] =
                  Sent([@ EXCEPT !.kind = "restored"], "sent", @.pair)]
    /\ UNCHANGED <<status, isRefreshing, server, lost, mixed, reloads>>

NotRestored(c) ==
    /\ call[c].stage = "restoring" /\ call[c].reply \in {"401", "error"}
    /\ kept' = 0
    /\ SetStatus(TabOf(c), "unauthenticated")
    /\ call' = [call EXCEPT ![c] = Idle]
    /\ UNCHANGED <<isRefreshing, server, lost, mixed, reloads>>
-----------------------------------------------------------------------------
(***************************************************************************)
(* handleAuthError.                                                        *)
(***************************************************************************)
Unauthorized(c) == call[c].stage = "sent" /\ call[c].reply = "401"

\* Somebody refreshes already: addRefreshSubscriber.
Subscribe(c) ==
    /\ Unauthorized(c)
    /\ isRefreshing[TabOf(c)]
    /\ call' = [call EXCEPT ![c].stage = "queued", ![c].reply = "none"]
    /\ UNCHANGED <<kept, status, isRefreshing, server, lost, mixed, reloads>>

\* Mutant: the flag is not looked at, every 401 refreshes.
LeadAlways(c) ==
    /\ Unauthorized(c)
    /\ kept # 0
    /\ isRefreshing' = [isRefreshing EXCEPT ![TabOf(c)] = TRUE]
    /\ call' = [call EXCEPT ![c] = Sent(@, "refreshing", kept)]
    /\ UNCHANGED <<kept, status, server, lost, mixed, reloads>>

\* Mutant: a refresh is tried without a refresh token.
LeadEmpty(c) ==
    /\ Unauthorized(c)
    /\ ~isRefreshing[TabOf(c)]
    /\ isRefreshing' = [isRefreshing EXCEPT ![TabOf(c)] = TRUE]
    /\ call' = [call EXCEPT ![c] = Sent(@, "refreshing", kept)]
    /\ UNCHANGED <<kept, status, server, lost, mixed, reloads>>

\* Nobody does: this call presents the stored refresh token.
Lead(c) ==
    /\ Unauthorized(c)
    /\ ~isRefreshing[TabOf(c)]
    /\ kept # 0
    /\ isRefreshing' = [isRefreshing EXCEPT ![TabOf(c)] = TRUE]
    /\ call' = [call EXCEPT ![c] = Sent(@, "refreshing", kept)]
    /\ UNCHANGED <<kept, status, server, lost, mixed, reloads>>

\* Mutant: the queue is not notified.
NotifiedNever(t) == {}

\* onTokenRefreshed.
Notified(t) == Subscribers(t)

\* Mutant: the headers are built outside makeRequest.
RetriedOld(c, stage, pair) ==
    [c EXCEPT !.stage = stage, !.pair = 0, !.reply = "none"]

\* originalRequest is makeRequest: the header is the one of now, the body (of
\* a logout) the one of then.
Retried(c, stage, pair) == Sent(c, stage, pair)

Refreshed(c) ==
    LET t == TabOf(c)
        new == call[c].pair
    IN  /\ call[c].stage = "refreshing" /\ call[c].reply = "ok"
        /\ Store(new)
        /\ call' = [d \in Calls |->
                      CASE d = c -> Retried(call[d], "retrying", new)
                        [] d \in Notified(t) -> Retried(call[d], "again", new)
                        [] OTHER -> call[d]]
        /\ UNCHANGED <<status, isRefreshing, server, lost, mixed, reloads>>

\* The refresh was impossible or failed, or the leader's retry did: logout of
\* the AuthHandler, every subscriber is rejected, the flag goes down.
GivesUp(c) ==
    \/ Unauthorized(c) /\ ~isRefreshing[TabOf(c)] /\ kept = 0
    \/ Leading(c) /\ call[c].reply \in {"401", "error"}

GiveUp(c) ==
    LET t == TabOf(c)
    IN  /\ GivesUp(c)
        /\ kept' = 0
        /\ SetStatus(t, "unauthenticated")
        /\ isRefreshing' = [isRefreshing EXCEPT ![t] = FALSE]
        /\ call' = [d \in Calls |->
                      IF d = c \/ d \in Subscribers(t) THEN Idle ELSE call[d]]
        /\ UNCHANGED <<server, lost, mixed, reloads>>
-----------------------------------------------------------------------------
\* The page is reloaded: its calls are gone, the storage stays. An exchange
\* that was on its way may still reach the server, and its answer nobody.
Reload(t) ==
    LET gone == {call[c].token : c \in {d \in UnderWay(t) : Exchanging(d)}}
        sent == {call[c].token : c \in
                   {d \in UnderWay(t) : Exchanging(d) /\ call[d].reply = "none"}}
    IN  /\ reloads < MaxReloads
        /\ reloads' = reloads + 1
        /\ SetStatus(t, "initializing")
        /\ isRefreshing' = [isRefreshing EXCEPT ![t] = FALSE]
        /\ call' = [c \in Calls |-> IF TabOf(c) = t THEN Idle ELSE call[c]]
        /\ lost' = lost \cup gone
        /\ \E done \in SUBSET (sent \cap live) :
             /\ live' = live \ done
             /\ rotated' = rotated \cup done
        /\ UNCHANGED <<kept, issued, fresh, mixed>>

Network(c) == Serve(c) \/ Exchange(c) \/ Break(c)

Handle(c) ==
    \/ Succeed(c) \/ Reject(c) \/ Restored(c) \/ NotRestored(c)
    \/ Subscribe(c) \/ Lead(c) \/ Refreshed(c) \/ GiveUp(c)

Next ==
    \/ \E c \in Calls :
         \/ PageCall(c) \/ Restore(c) \/ Login(c) \/ Logout(c)
         \/ Network(c) \/ Handle(c)
    \/ \E p \in Pairs : ExpireAccess(p) \/ EndSession(p)
    \/ \E t \in Tabs : Reload(t)

Spec == Init /\ [][Next]_vars
-----------------------------------------------------------------------------
TypeOK ==
    /\ kept \in 0..MaxPairs
    /\ status \in [Tabs -> {"initializing", "authenticated", "unauthenticated"}]
    /\ isRefreshing \in [Tabs -> BOOLEAN]
    /\ call \in [Calls -> Call]
    /\ \A c \in Calls : Exchanging(c) => call[c].token # 0
    /\ issued \in Pairs
    /\ live \subseteq 1..issued
    /\ fresh \subseteq 1..issued
    /\ rotated \subseteq (1..issued) \ live
    /\ lost \subseteq 1..issued
    /\ mixed \in BOOLEAN
    /\ reloads \in 0..MaxReloads

(***************************************************************************)
(* The flag is up exactly while one call leads a refresh: it is never left *)
(* up with nobody to lower it, which would queue every later 401 for ever. *)
(***************************************************************************)
FlagHasLeader ==
    \A t \in Tabs :
        /\ isRefreshing[t] <=> \E c \in UnderWay(t) : Leading(c)
        /\ \A c, d \in UnderWay(t) : Leading(c) /\ Leading(d) => c = d

(***************************************************************************)
(* What the single-flight queue is for: the application does not present a *)
(* refresh token that was exchanged already -- neither by two 401s at once *)
(* nor by restoreSession, a logout or a new login in between. The answer   *)
(* to an exchange that a reload cut off is the only excuse. (One tab: two  *)
(* tabs share the storage but not the queue.)                              *)
(***************************************************************************)
NoReplay ==
    \A c \in Calls :
        Exchanging(c) /\ call[c].reply = "none" => call[c].token \notin rotated \ lost

(***************************************************************************)
(* When everything has come to rest, a page that shows a user keeps the    *)
(* newest pair the server issued: neither none, nor one of before the last *)
(* login or exchange, in whatever order refreshes, failures, a logout and  *)
(* the session restored by a reload ended. Excused are a pair whose        *)
(* exchange a reload cut off, and a login that was answered while calls of *)
(* an earlier session were still under way (NewestKept). (One tab.)        *)
(***************************************************************************)
AtRest(t) == status[t] = "authenticated" /\ UnderWay(t) = {}

InSync ==
    \A t \in Tabs : AtRest(t) /\ ~mixed => kept = issued \/ kept \in lost

(***************************************************************************)
(* A retry does not carry the token that was refused. (It need not be a    *)
(* newer one: the refresh of a session that was logged out meanwhile       *)
(* replaces the tokens of the next login.)                                 *)
(***************************************************************************)
RetriesWithNewToken ==
    [][\A c \in Calls :
         /\ call'[c].stage \in {"retrying", "again"}
         /\ call'[c].stage # call[c].stage
         => call'[c].token # call[c].token]_vars

(***************************************************************************)
(* No call that waits for a refresh is left behind by it: the step that    *)
(* ends the refresh retries or rejects every call queued until then.       *)
(***************************************************************************)
Waits(c) ==
    /\ call[c].stage = "queued"
    /\ \E d \in UnderWay(TabOf(c)) : call[d].stage = "refreshing"

QueueServed ==
    [][\A c \in Calls : Waits(c) => Waits(c)' \/ call'[c].stage # "queued"]_vars

(***************************************************************************)
(* Statements of the repository's documents that the code does not keep:   *)
(* TLC refutes each with the constants README.md names.                    *)
(***************************************************************************)
\* Whoever is queued has a refresh to wait for ("concurrent 401s wait on the
\* same refresh promise").
QueuedHaveLeader ==
    \A t \in Tabs : Subscribers(t) # {} => isRefreshing[t]

\* A login replaces what was there: also one made while calls of an earlier
\* session are under way ends with the newest pair. (Such a call may clear
\* the tokens, or store those of its own session over them.)
NewestKept ==
    \A t \in Tabs : AtRest(t) => kept = issued \/ kept \in lost

\* A logout clears the tokens, and leaves none that the server would accept.
LoggedOutIsGone ==
    \A t \in Tabs :
        status[t] = "unauthenticated" /\ UnderWay(t) = {} => kept = 0

\* "If refresh succeeds, it retries; if it fails, it invokes logout()": a
\* failure of the retry is not a failure of the refresh.
LogoutOnlyIfRefreshFails ==
    [][\A c \in Calls : GivesUp(c) /\ call'[c].stage = "idle"
                         => call[c].stage # "retrying"]_vars
=============================================================================
