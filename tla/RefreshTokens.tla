--------------------------- MODULE RefreshTokens ---------------------------
(***************************************************************************)
(* The server side of refresh tokens: the table of hashed tokens, the      *)
(* requests of app/api/auth.py that read and write it (login, refresh,     *)
(* logout, expire sessions), the nightly clean-up task and the soft        *)
(* deletion of users.                                                      *)
(*                                                                         *)
(* Every request runs in a database session of its own (READ COMMITTED):   *)
(* it reads with one or more SELECTs, collects its writes in the ORM       *)
(* session, and get_db commits them after the response has been sent.      *)
(* A request is therefore several actions, and what it has read may be     *)
(* stale when its writes are committed.                                    *)
(***************************************************************************)
EXTENDS Naturals

CONSTANTS
    Users,       \* accounts
    Requests,    \* request handlers that can be in progress at once
    Tokens,      \* values secrets.token_urlsafe can return; each is used once
    None,        \* no token, no data
    Lifetime,    \* REFRESH_TOKEN_EXPIRATION_DAYS, in clock ticks
    MaxTime      \* bound: the clock stops here, and no login starts later
                 \* than one lifetime before it

VARIABLES
    now,         \* the clock
    active,      \* users.is_active
    data,        \* what each issued token is: the row's constant columns
    stored,      \* the tokens that have a row in refresh_tokens
    revoked,     \* the rows with is_revoked
    ended,       \* history: the families a committed logout or expiry ended
    req          \* the requests in progress

vars == <<now, active, data, stored, revoked, ended, req>>
-----------------------------------------------------------------------------
(***************************************************************************)
(* "user" and "expires" are columns. "family" and "parent" are history:    *)
(* the token the login issued from which this one descends by rotation,    *)
(* and the token it was rotated from (None for a login's token).           *)
(***************************************************************************)
TokenData == [user : Users, expires : Nat,
              family : Tokens, parent : Tokens \cup {None}]

ASSUME TokensAssumption ==
    /\ None \notin Tokens
    /\ None \notin TokenData
    /\ Lifetime \in Nat
    /\ MaxTime \in Nat

Stage == {"idle", "login", "verified", "reverified", "answered"}

(***************************************************************************)
(* A request: the user it concerns, the token it was given, and the writes *)
(* in its ORM session (rows to mark revoked, a row to insert). "ends" is   *)
(* history: the families a logout or an expiry is about.                   *)
(***************************************************************************)
Request == [stage : Stage, user : Users \cup {None}, token : Tokens \cup {None},
            revoke : SUBSET Tokens, insert : SUBSET Tokens,
            ends : SUBSET Tokens]

Idle == [stage |-> "idle", user |-> None, token |-> None,
         revoke |-> {}, insert |-> {}, ends |-> {}]

Issued == {t \in Tokens : data[t] # None}
Expired(t) == data[t].expires < now
Usable(t) == t \in stored /\ t \notin revoked /\ ~Expired(t)
FamilyOf(t) == data[t].family

Init ==
    /\ now = 0
    /\ active = [u \in Users |-> TRUE]
    /\ data = [t \in Tokens |-> None]
    /\ stored = {}
    /\ revoked = {}
    /\ ended = {}
    /\ req = [r \in Requests |-> Idle]
-----------------------------------------------------------------------------
\* authenticate_user refuses an account that is disabled.
Accepted(u) == active[u]

\* Both login endpoints: the account is read, then its password is verified in
\* a thread while other requests go on.
LoginRead(r, u) ==
    /\ req[r] = Idle
    /\ Accepted(u)
    /\ req' = [req EXCEPT ![r] = [Idle EXCEPT !.stage = "login", !.user = u]]
    /\ UNCHANGED <<now, active, data, stored, revoked, ended>>

\* The row a login inserts: a family of its own, one lifetime to live.
NewSession(u, n) == [user |-> u, expires |-> now + Lifetime,
                     family |-> n, parent |-> None]

\* create_tokens_for_user adds the row to the session; the response carries
\* the token away before get_db commits.
LoginCreate(r) ==
    /\ req[r].stage = "login"
    /\ now + Lifetime < MaxTime
    /\ \E n \in Tokens \ Issued :
        /\ data' = [data EXCEPT ![n] = NewSession(req[r].user, n)]
        /\ req' = [req EXCEPT ![r] =
                        [@ EXCEPT !.stage = "answered", !.insert = {n}]]
    /\ UNCHANGED <<now, active, stored, revoked, ended>>

\* refresh_access_token verifies the token it was given (found, not revoked,
\* not expired); a token that fails is answered 401 and changes nothing.
RefreshVerify(r, t) ==
    /\ req[r] = Idle
    /\ Usable(t)
    /\ req' = [req EXCEPT ![r] = [Idle EXCEPT !.stage = "verified", !.token = t]]
    /\ UNCHANGED <<now, active, data, stored, revoked, ended>>

\* rotate_refresh_token verifies it a second time, with a new SELECT.
RefreshReverify(r) ==
    /\ req[r].stage = "verified"
    /\ Usable(req[r].token)
    /\ req' = [req EXCEPT ![r] = [@ EXCEPT !.stage = "reverified"]]
    /\ UNCHANGED <<now, active, data, stored, revoked, ended>>

\* The ValueError of the second verification is caught nowhere: 500.
RefreshReverifyFails(r) ==
    /\ req[r].stage = "verified"
    /\ ~Usable(req[r].token)
    /\ req' = [req EXCEPT ![r] = Idle]
    /\ UNCHANGED <<now, active, data, stored, revoked, ended>>

\* Mutant: a sliding expiry, a full lifetime from now.
RotatedSliding(t) == [user |-> data[t].user, expires |-> now + Lifetime,
                      family |-> FamilyOf(t), parent |-> t]

\* What rotation copies: owner and absolute expiry of the old token.
RotatedFrom(t) == [user |-> data[t].user, expires |-> data[t].expires,
                   family |-> FamilyOf(t), parent |-> t]

\* Mutant: the old row is left as it is.
RevokesNothing(t) == {}

\* The rows revoke_refresh_token marks: a third SELECT looks the old token up,
\* and when its row is gone there is nothing to revoke.
ToRevoke(t) == {t} \cap stored

\* The rest of the rotation: mark the old row, add the new one, answer.
RefreshRotate(r) ==
    /\ req[r].stage = "reverified"
    /\ \E n \in Tokens \ Issued :
        /\ data' = [data EXCEPT ![n] = RotatedFrom(req[r].token)]
        /\ req' = [req EXCEPT ![r] =
                        [@ EXCEPT !.stage = "answered", !.insert = {n},
                                  !.revoke = ToRevoke(req[r].token)]]
    /\ UNCHANGED <<now, active, stored, revoked, ended>>

\* The rows of user.refresh_tokens; logout_user makes the same comparison.
RowsOf(u) == {t \in stored : data[t].user = u}

\* logout_user: the token must belong to the user of the access token. A row
\* that is revoked already is not dirtied and leaves nothing to commit.
Logout(r, u, t) ==
    /\ req[r] = Idle
    /\ t \in RowsOf(u) \ revoked
    /\ req' = [req EXCEPT ![r] = [Idle EXCEPT !.stage = "answered", !.user = u,
                                  !.revoke = {t}, !.ends = {FamilyOf(t)}]]
    /\ UNCHANGED <<now, active, data, stored, revoked, ended>>

\* expire_user_sessions loads the user's tokens and marks those not revoked.
ExpireSessions(r, u) ==
    /\ req[r] = Idle
    /\ RowsOf(u) \ revoked # {}
    /\ req' = [req EXCEPT ![r] = [Idle EXCEPT !.stage = "answered", !.user = u,
                                  !.revoke = RowsOf(u) \ revoked,
                                  !.ends = {FamilyOf(t) : t \in RowsOf(u)}]]
    /\ UNCHANGED <<now, active, data, stored, revoked, ended>>

\* get_db commits what the ORM session holds, in one transaction.
Commit(r) ==
    /\ req[r].stage = "answered"
    /\ req[r].revoke \subseteq stored
    /\ stored' = stored \cup req[r].insert
    /\ revoked' = revoked \cup req[r].revoke
    /\ ended' = ended \cup req[r].ends
    /\ req' = [req EXCEPT ![r] = Idle]
    /\ UNCHANGED <<now, active, data>>

\* An UPDATE of a row that is no longer there raises StaleDataError; any
\* failure of the server or the database loses the session in the same way.
\* get_db rolls back, although the response may have been sent.
Abort(r) ==
    /\ req[r] # Idle
    /\ req' = [req EXCEPT ![r] = Idle]
    /\ UNCHANGED <<now, active, data, stored, revoked, ended>>

\* Mutant: only the rows that are revoked as well are deleted.
CleanupRevoked ==
    LET old == {t \in stored : Expired(t) /\ t \in revoked}
    IN  /\ old # {}
        /\ stored' = stored \ old
        /\ revoked' = revoked \ old
        /\ UNCHANGED <<now, active, data, ended, req>>

\* cleanup_expired_refresh_tokens: one DELETE, committed at once.
CleanupExpired ==
    LET old == {t \in stored : Expired(t)}
    IN  /\ old # {}
        /\ stored' = stored \ old
        /\ revoked' = revoked \ old
        /\ UNCHANGED <<now, active, data, ended, req>>

\* Mutant: enabling an account again restores its tokens.
SetActiveRestoring(u, b) ==
    /\ active[u] # b
    /\ active' = [active EXCEPT ![u] = b]
    /\ revoked' = IF b THEN revoked \ RowsOf(u) ELSE revoked
    /\ UNCHANGED <<now, data, stored, ended, req>>

\* An administrator disables an account (update or soft deletion) or enables
\* it again; the account's tokens are left alone.
SetActive(u, b) ==
    /\ active[u] # b
    /\ active' = [active EXCEPT ![u] = b]
    /\ UNCHANGED <<now, data, stored, revoked, ended, req>>

Tick ==
    /\ now < MaxTime
    /\ now' = now + 1
    /\ UNCHANGED <<active, data, stored, revoked, ended, req>>

\* The next step of a request that is in progress.
Proceed(r) ==
    \/ LoginCreate(r)
    \/ RefreshReverify(r) \/ RefreshReverifyFails(r) \/ RefreshRotate(r)
    \/ Commit(r)

Begin(r) ==
    \/ \E u \in Users : LoginRead(r, u) \/ ExpireSessions(r, u)
    \/ \E t \in Tokens : RefreshVerify(r, t)
    \/ \E u \in Users, t \in Tokens : Logout(r, u, t)

Next ==
    \/ \E r \in Requests : Begin(r) \/ Proceed(r) \/ Abort(r)
    \/ \E u \in Users, b \in BOOLEAN : SetActive(u, b)
    \/ CleanupExpired
    \/ Tick

Spec == Init /\ [][Next]_vars
-----------------------------------------------------------------------------
(***************************************************************************)
(* Properties.                                                             *)
(***************************************************************************)
TypeOK ==
    /\ now \in Nat
    /\ active \in [Users -> BOOLEAN]
    /\ data \in [Tokens -> TokenData \cup {None}]
    /\ stored \subseteq Issued
    /\ revoked \subseteq stored
    /\ ended \subseteq Tokens
    /\ req \in [Requests -> Request]

\* Rotation hands a session on but never prolongs it, and never moves it to
\* another account: a token expires when the token of the login it descends
\* from does, and belongs to the same user (security.py, "preserve absolute
\* expiry").
AbsoluteExpiry ==
    \A t \in Issued :
        LET root == FamilyOf(t)
        IN  /\ root \in Issued
            /\ FamilyOf(root) = root
            /\ data[t].expires = data[root].expires
            /\ data[t].user = data[root].user

\* The new row and the revocation of the old one reach the table together: a
\* token that was rotated into a row that is stored is no longer usable.
RotatedIsSpent ==
    \A t \in stored : data[t].parent \notin stored \ revoked

\* Who may still write the row of a token. A row is inserted by one commit
\* only, of the one request that made the token; a token that can be rotated,
\* or was, is nobody's to insert any more; and a rotation that waits for its
\* commit will mark the row it rotated, unless that row is gone.
Settled(t) == t \in Issued /\ \A r \in Requests : t \notin req[r].insert

Custody ==
    /\ \A r \in Requests :
        /\ req[r].insert \subseteq Issued \ stored
        /\ req[r].insert # {} => req[r].stage = "answered"
        /\ req[r].stage \in {"verified", "reverified"} => Settled(req[r].token)
        /\ req[r].stage = "login" => req[r].user \in Users
        /\ \A n \in req[r].insert :
              data[n].parent \notin (stored \ revoked) \ req[r].revoke
    /\ \A r1, r2 \in Requests :
        r1 # r2 => req[r1].insert \cap req[r2].insert = {}
    /\ \A t \in Issued : data[t].parent = None \/ Settled(data[t].parent)

\* A token that is out of use -- issued, but not usable and not waiting for
\* its own commit -- is out of use for good, whatever requests are under way:
\* no commit un-revokes a row or brings a deleted one back.
Pending(t) == \E r \in Requests : t \in req[r].insert
OutOfUse(t) == t \in Issued /\ ~Usable(t) /\ ~Pending(t)
SpentForever ==
    [][\A t \in Tokens : OutOfUse(t) => OutOfUse(t)']_vars

(***************************************************************************)
(* The session a login opened is open while one of its tokens is usable or *)
(* a request in progress can still make one usable.                        *)
(***************************************************************************)
CanYield(r) ==
    IF req[r].stage \in {"verified", "reverified"} THEN {req[r].token}
    ELSE req[r].insert

OpenTokens ==
    {t \in Issued : Usable(t)}
        \cup {t \in UNION {CanYield(r) : r \in Requests} : ~Expired(t)}

OpenFamilies == {FamilyOf(t) : t \in OpenTokens}
Roots == {f \in Issued : FamilyOf(f) = f}

SessionPhase == [f \in Tokens |->
    IF f \in OpenFamilies THEN "open"
    ELSE IF f \in Roots THEN "closed"
    ELSE "absent"]

Abstract == INSTANCE Session WITH Sessions <- Tokens, phase <- SessionPhase

\* Sessions as the abstract specification wants them: opened by a login only,
\* and never open again once closed, in every interleaving of refreshes with
\* logouts, expiries, clean-ups, crashes and the clock.
RefinesSession == Abstract!Spec

(***************************************************************************)
(* Properties of requests that do not overlap (one element in Requests).   *)
(***************************************************************************)
\* Rotation keeps a session single: at most one token of a family is usable.
OneUsablePerFamily ==
    \A t1, t2 \in {t \in Issued : Usable(t)} :
        FamilyOf(t1) = FamilyOf(t2) => t1 = t2

\* A session that a committed logout or expire_user_sessions was about has no
\* usable token any more ("Revoke all refresh tokens for a user").
EndedStaysEnded ==
    \A t \in Issued : Usable(t) => FamilyOf(t) \notin ended

\* A token that a response carried to the client is in the table while it has
\* not expired: it was persisted first.
AnsweredIsPersisted ==
    \A t \in Issued : Expired(t) \/ t \in stored
-----------------------------------------------------------------------------
(***************************************************************************)
(* Fairness: the clock runs, and Celery Beat runs the clean-up every night *)
(* (celery.py, beat_schedule). Clients and administrators owe us nothing,  *)
(* and a request may die.                                                  *)
(***************************************************************************)
FairSpec == Spec /\ WF_vars(Tick) /\ WF_vars(CleanupExpired)

\* However often it is rotated, a session ends: some day none of its tokens is
\* usable any more and none will be.
SessionEnds == \A f \in Tokens :
    (SessionPhase[f] = "open") ~> [](SessionPhase[f] = "closed")

\* "This keeps authentication and report storage data from growing
\* indefinitely": every row is deleted in the end.
RowsPurged == \A t \in Tokens : (t \in stored) ~> (t \notin stored)
=============================================================================
