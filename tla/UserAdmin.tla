----------------------------- MODULE UserAdmin -----------------------------
(***************************************************************************)
(* The accounts: the endpoints of app/api/users.py that change them, the   *)
(* checks of app/api/deps.py in front of those, the unique constraint on   *)
(* the username and the administrator that app/db/seed.py adds when the    *)
(* program starts. Access tokens are here too, because they name their     *)
(* account by its username.                                                *)
(*                                                                         *)
(* A request loads the account of its token when it is authenticated and   *)
(* decides by that copy what it may do. The handler then loads the account *)
(* it changes, and writes after its answer was sent: the columns in which  *)
(* that object was changed, no others.                                     *)
(***************************************************************************)
CONSTANTS
    Accounts,    \* primary keys of users; each is inserted once
    Names,       \* usernames
    AdminName,   \* setting.ADMIN_USERNAME
    Roles,       \* Role
    Admin,       \* Role.ADMIN
    Pages,       \* clients, each with the token pair of one login
    Requests,    \* request handlers that can be in progress at once
    None

VARIABLES
    users,       \* the table users: a row for each account that has one
    page,        \* whose session a client has, and the name in its token
    req          \* the requests in progress

vars == <<users, page, req>>
-----------------------------------------------------------------------------
(***************************************************************************)
(* The columns the code decides by. password_hash is left out: a password  *)
(* that is wrong ends the request, any other is one. "must" is             *)
(* must_change_password.                                                   *)
(***************************************************************************)
Columns == {"name", "role", "active", "must"}
Row == [name : Names, role : Roles, active : BOOLEAN, must : BOOLEAN]

\* Values for some of the columns.
Write == UNION {{[c \in C |-> row[c]] : row \in Row} : C \in SUBSET Columns}

\* "sub" is the username in the access token, None when that has expired.
Signed == [user : Accounts, sub : Names \cup {None}]

Op == {"rename", "password", "create", "update", "delete", "reset"}

ASSUME AdminAssumption ==
    /\ AdminName \in Names
    /\ Admin \in Roles
    /\ None \notin Accounts \cup Names \cup Row \cup Signed \cup Op

Stage == {"idle", "login", "authenticated", "answered"}

(***************************************************************************)
(* A request: the account it acts for, that account's row as loaded, and   *)
(* once it is answered what it will write: the key of a row and the values *)
(* of the columns that changed.                                            *)
(***************************************************************************)
Request == [stage : Stage, actor : Accounts \cup {None}, self : Row \cup {None},
            op : Op \cup {None}, target : Accounts \cup {None},
            write : Write]

Idle == [stage |-> "idle", actor |-> None, self |-> None, op |-> None,
         target |-> None, write |-> [c \in {} |-> None]]

Stored == {u \in Accounts : users[u] # None}
Named(n) == {u \in Stored : users[u].name = n}
Reserved == {req[r].target : r \in {x \in Requests : req[x].op = "create"}}

\* seed_admin_user: the row of the first administrator.
Seeded == [name |-> AdminName, role |-> Admin, active |-> TRUE, must |-> TRUE]

\* The first start, on an empty table.
Init ==
    /\ \E u \in Accounts :
        users = [a \in Accounts |-> IF a = u THEN Seeded ELSE None]
    /\ page = [c \in Pages |-> None]
    /\ req = [r \in Requests |-> Idle]
-----------------------------------------------------------------------------
(***************************************************************************)
(* Tokens.                                                                 *)
(***************************************************************************)
\* authenticate_user loads the account and refuses one that is disabled; the
\* password is then verified in a thread.
LoginRead(r, u) ==
    /\ req[r] = Idle
    /\ u \in Stored
    /\ users[u].active
    /\ req' = [req EXCEPT ![r] =
                [Idle EXCEPT !.stage = "login", !.actor = u, !.self = users[u]]]
    /\ UNCHANGED <<users, page>>

\* The token carries the name that was loaded.
LoginAnswer(r, c) ==
    /\ req[r].stage = "login"
    /\ page' = [page EXCEPT ![c] = [user |-> req[r].actor,
                                    sub |-> req[r].self.name]]
    /\ req' = [req EXCEPT ![r] = Idle]
    /\ UNCHANGED users

\* rotate_refresh_token finds the account by its key and puts the name it has
\* now into the new access token; is_active is not looked at.
Refresh(c) ==
    /\ page[c] # None
    /\ page' = [page EXCEPT ![c].sub = users[page[c].user].name]
    /\ UNCHANGED <<users, req>>

\* The access token expires.
ExpireAccess(c) ==
    /\ page[c] # None
    /\ page' = [page EXCEPT ![c].sub = None]
    /\ UNCHANGED <<users, req>>

\* Logout, or the end of the refresh token (module RefreshTokens).
EndSession(c) ==
    /\ page[c] # None
    /\ page' = [page EXCEPT ![c] = None]
    /\ UNCHANGED <<users, req>>

\* get_current_user: the account that has the name in the token. When there is
\* none the request is answered 401.
Authenticate(r, c) ==
    /\ req[r] = Idle
    /\ page[c] # None
    /\ \E u \in Named(page[c].sub) :
        req' = [req EXCEPT ![r] = [Idle EXCEPT !.stage = "authenticated",
                                               !.actor = u, !.self = users[u]]]
    /\ UNCHANGED <<users, page>>
-----------------------------------------------------------------------------
(***************************************************************************)
(* Handlers. Each is allowed by the row that was loaded at authentication. *)
(***************************************************************************)
\* Mutant: the flag is checked by the page only.
MayUseActive(q) == q.stage = "authenticated" /\ q.self.active

\* require_active: neither disabled nor waiting for a new password.
MayUse(q) == q.stage = "authenticated" /\ q.self.active /\ ~q.self.must

\* require_admin, which builds on require_active.
MayAdministrate(q) == MayUse(q) /\ q.self.role = Admin

\* The object the handler's SELECT returns. The authentication kept the values
\* but not its object, which the session forgot (its identity map is weak): the
\* handler has the row as it is now, also when it is the requester's own.
Loaded(u) == users[u]

\* Mutant: the object is written as a whole.
ChangedAll(old, new) == Columns

\* The columns of the UPDATE are those whose value differs from the loaded.
Changed(old, new) == {c \in Columns : new[c] # old[c]}

\* The handler answers and leaves a changed object in its session.
Answer(r, op, u, new) ==
    /\ req[r].stage = "authenticated"
    /\ Changed(Loaded(u), new) # {}
    /\ req' = [req EXCEPT ![r] =
                [@ EXCEPT !.stage = "answered", !.self = None, !.op = op,
                          !.target = u,
                          !.write = [c \in Changed(Loaded(u), new)
                                        |-> new[c]]]]
    /\ UNCHANGED <<users, page>>

\* PATCH /users/me. The name is not looked up: only the constraint guards it.
UpdateProfile(r, n) ==
    /\ MayUse(req[r])
    /\ Answer(r, "rename", req[r].actor, [Loaded(req[r].actor) EXCEPT !.name = n])

\* PATCH /users/me/password, open to every account that has a token.
ChangeOwnPassword(r) ==
    Answer(r, "password", req[r].actor,
           [Loaded(req[r].actor) EXCEPT !.must = FALSE])

\* POST /users: the name is looked up, then the password hashed in a thread.
CreateUser(r, n, role) ==
    /\ MayAdministrate(req[r])
    /\ Named(n) = {}
    /\ \E u \in Accounts \ (Stored \cup Reserved) :
        req' = [req EXCEPT ![r] =
                [@ EXCEPT !.stage = "answered", !.self = None, !.op = "create",
                          !.target = u,
                          !.write = [name |-> n, role |-> role,
                                     active |-> TRUE, must |-> TRUE]]]
    /\ UNCHANGED <<users, page>>

\* PATCH /users/{id}, the requester's own included. A field that is left out
\* keeps the loaded value.
UpdateUser(r, u, n, role, active) ==
    /\ u \in Stored
    /\ MayAdministrate(req[r])
    /\ Answer(r, "update", u, [Loaded(u) EXCEPT
                                 !.name = n, !.role = role, !.active = active])

\* Mutant: an administrator may delete himself.
DeleteAnyUser(r, u) ==
    /\ u \in Stored
    /\ MayAdministrate(req[r])
    /\ Answer(r, "delete", u, [Loaded(u) EXCEPT !.active = FALSE])

\* DELETE /users/{id}: a soft deletion, refused for the requester's own.
DeleteUser(r, u) ==
    /\ u \in Stored
    /\ u # req[r].actor
    /\ MayAdministrate(req[r])
    /\ Answer(r, "delete", u, [Loaded(u) EXCEPT !.active = FALSE])

\* POST /users/{id}/password, with the user's current password.
ResetPassword(r, u) ==
    /\ u \in Stored
    /\ MayAdministrate(req[r])
    /\ Answer(r, "reset", u, [Loaded(u) EXCEPT !.must = FALSE])

\* The row that a request's commit leaves.
Written(q) ==
    [c \in Columns |-> IF c \in DOMAIN q.write THEN q.write[c]
                       ELSE users[q.target][c]]

\* Mutant: a schema without the constraint.
CommitUnconstrained(r) ==
    /\ req[r].stage = "answered"
    /\ users' = [users EXCEPT ![req[r].target] = Written(req[r])]
    /\ req' = [req EXCEPT ![r] = Idle]
    /\ UNCHANGED page

\* get_db commits: one INSERT or UPDATE, refused if the name is taken.
Commit(r) ==
    /\ req[r].stage = "answered"
    /\ Named(Written(req[r]).name) \subseteq {req[r].target}
    /\ users' = [users EXCEPT ![req[r].target] = Written(req[r])]
    /\ req' = [req EXCEPT ![r] = Idle]
    /\ UNCHANGED page

\* A request ends without a write: it was refused, it only read, it changed
\* nothing, or its commit failed.
Leave(r) ==
    /\ req[r] # Idle
    /\ req' = [req EXCEPT ![r] = Idle]
    /\ UNCHANGED <<users, page>>

\* The process dies and starts again: lifespan runs seed_admin_user before it
\* serves. (Bound: no restart that would need an account beyond Accounts.)
Restart ==
    /\ IF Named(AdminName) # {}
       THEN UNCHANGED users
       ELSE \E u \in Accounts \ Stored : users' = [users EXCEPT ![u] = Seeded]
    /\ req' = [r \in Requests |-> Idle]
    /\ UNCHANGED page

Handle(r) ==
    \/ \E n \in Names : UpdateProfile(r, n)
    \/ ChangeOwnPassword(r)
    \/ \E n \in Names, role \in Roles : CreateUser(r, n, role)
    \/ \E u \in Accounts, n \in Names, role \in Roles, b \in BOOLEAN :
            UpdateUser(r, u, n, role, b)
    \/ \E u \in Accounts : DeleteUser(r, u)
    \/ \E u \in Accounts : ResetPassword(r, u)

Next ==
    \/ \E r \in Requests, u \in Accounts : LoginRead(r, u)
    \/ \E r \in Requests, c \in Pages : LoginAnswer(r, c) \/ Authenticate(r, c)
    \/ \E c \in Pages : Refresh(c) \/ ExpireAccess(c) \/ EndSession(c)
    \/ \E r \in Requests : Handle(r) \/ Commit(r) \/ Leave(r)
    \/ Restart

Spec == Init /\ [][Next]_vars
-----------------------------------------------------------------------------
(***************************************************************************)
(* Properties.                                                             *)
(***************************************************************************)
TypeOK ==
    /\ users \in [Accounts -> Row \cup {None}]
    /\ page \in [Pages -> Signed \cup {None}]
    /\ req \in [Requests -> Request]

\* No two accounts share a username, whatever creations, renamings and
\* restarts overlap: the lookup of create_user is too early to ensure it.
UniqueNames == \A u, v \in Stored : users[u].name = users[v].name => u = v

\* Who has not replaced the password he was given ("User must change password
\* after first login") changes nothing but that password: whatever else waits
\* to be committed was asked for by an account that has replaced it.
FirstChangesPassword ==
    \A r \in Requests :
        req[r].op \notin {None, "password"} =>
            /\ req[r].actor \in Stored
            /\ ~users[req[r].actor].must

\* A request undoes nothing that others committed while it was under way: a
\* disabled account is enabled again only by an update that asked for it, a
\* role changes only by an update, a name by an update or its owner, and no
\* account has to replace its password a second time.
Commits(r, ops, u) == Commit(r) /\ req[r].op \in ops /\ req[r].target = u
NothingUndone ==
    [][\A u \in Stored :
        /\ ~users[u].active /\ users'[u].active =>
              \E r \in Requests : Commits(r, {"update"}, u) /\ req[r].write["active"]
        /\ users[u].role # users'[u].role =>
              \E r \in Requests : Commits(r, {"update"}, u)
        /\ users[u].name # users'[u].name =>
              \E r \in Requests : Commits(r, {"update", "rename"}, u)
        /\ ~users[u].must => ~users'[u].must]_vars

\* The last active administrator is lost in two ways only: an update took his
\* role or disabled him, or he was deleted by one who had been authenticated
\* as an administrator but is none any more.
ActiveAdmin(u) == u \in Stored /\ users[u].active /\ users[u].role = Admin
SomeAdmin == \E u \in Accounts : ActiveAdmin(u)
LastAdminKept ==
    [][SomeAdmin /\ ~SomeAdmin' =>
        \E r \in Requests :
            /\ Commit(r)
            /\ \/ req[r].op = "update"
               \/ req[r].op = "delete" /\ ~ActiveAdmin(req[r].actor)]_vars
-----------------------------------------------------------------------------
(***************************************************************************)
(* Statements the code does not keep (README).                             *)
(***************************************************************************)
\* A token names the account it was issued to, or none.
TokenNamesOwner ==
    \A c \in Pages : page[c] # None => Named(page[c].sub) \subseteq {page[c].user}

\* There is always an administrator who can enable the others.
AdminRemains == SomeAdmin

\* A creation that was answered ends with the account in the table.
CreatedIsStored ==
    [][\A r \in Requests : req[r].op = "create" /\ req'[r] = Idle =>
            users'[req[r].target] # None]_vars
=============================================================================
