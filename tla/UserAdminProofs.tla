-------------------------- MODULE UserAdminProofs --------------------------
(***************************************************************************)
(* Proofs about UserAdmin, for any number of accounts, names and requests. *)
(*                                                                         *)
(* The inductive invariant follows what each request holds: a loaded copy  *)
(* may be stale, but accounts do not vanish and nobody has to replace his  *)
(* password a second time, so what the copy allowed is still allowed by    *)
(* the flag; and once answered, a request writes only the columns its      *)
(* operation is about, to a row that no other request inserts.             *)
(***************************************************************************)
EXTENDS UserAdmin, TLAPS

\* The copy of a request that has not been answered yet.
Reading(q) ==
    q.stage \in {"login", "authenticated"} =>
        /\ q.actor \in Stored
        /\ q.self \in Row
        /\ ~q.self.must => ~users[q.actor].must

\* The columns an operation changes, and how.
MayWrite(op, c, v) ==
    \/ op \in {"password", "reset"} /\ c = "must" /\ v = FALSE
    \/ op = "delete" /\ c = "active" /\ v = FALSE
    \/ op = "rename" /\ c = "name"
    \/ op = "update" /\ c \in {"name", "role", "active"}

Confined(q) ==
    /\ \A c \in DOMAIN q.write : MayWrite(q.op, c, q.write[c])
    /\ q.op = "delete" => q.target # q.actor

\* What an answered request will write, and where.
Writing(q) ==
    /\ q.op # None => q.stage = "answered"
    /\ q.stage = "answered" =>
          /\ q.op \in Op
          /\ q.target \in Accounts
          /\ q.op = "create" => q.target \notin Stored /\ q.write \in Row
          /\ q.op # "create" => q.target \in Stored /\ Confined(q)

\* FirstChangesPassword of one request.
Entitled(q) ==
    q.op \notin {None, "password"} => q.actor \in Stored /\ ~users[q.actor].must

Sound(q) == Reading(q) /\ Writing(q) /\ Entitled(q)

\* Two creations in progress have two keys.
KeysDiffer ==
    \A r, s \in Requests :
        req[r].op = "create" /\ req[s].op = "create"
            /\ req[r].target = req[s].target => r = s

\* A client's session is that of an account.
Known == \A c \in Pages : page[c] # None => page[c].user \in Stored

IInv ==
    /\ TypeOK
    /\ UniqueNames
    /\ \A r \in Requests : Sound(req[r])
    /\ KeysDiffer
    /\ Known
-----------------------------------------------------------------------------
(***************************************************************************)
(* Rows and their columns.                                                 *)
(***************************************************************************)
LEMMA RowIntro ==
    ASSUME NEW f, f = [c \in Columns |-> f[c]],
           f["name"] \in Names, f["role"] \in Roles,
           f["active"] \in BOOLEAN, f["must"] \in BOOLEAN
    PROVE  f \in Row
BY DEF Row, Columns

LEMMA RowElim ==
    ASSUME NEW row \in Row
    PROVE  /\ row = [c \in Columns |-> row[c]]
           /\ row.name = row["name"] /\ row.role = row["role"]
           /\ row.active = row["active"] /\ row.must = row["must"]
           /\ row["name"] \in Names /\ row["role"] \in Roles
           /\ row["active"] \in BOOLEAN /\ row["must"] \in BOOLEAN
BY DEF Row, Columns

LEMMA WriteIntro ==
    ASSUME NEW row \in Row, NEW C \in SUBSET Columns
    PROVE  [c \in C |-> row[c]] \in Write
BY DEF Write

LEMMA RowIsWrite ==
    ASSUME NEW row \in Row
    PROVE  row \in Write /\ DOMAIN row = Columns
<1>1. row = [c \in Columns |-> row[c]]
  BY RowElim
<1>2. QED
  BY <1>1 DEF Write

LEMMA WriteElim ==
    ASSUME NEW w \in Write
    PROVE  /\ DOMAIN w \subseteq Columns
           /\ \A c \in DOMAIN w : \E row \in Row : w[c] = row[c]
BY DEF Write

\* No write, the one of an idle request, is a Write too.
LEMMA NoWrite ==
    ASSUME Row # {}
    PROVE  [c \in {} |-> None] \in Write
<1>1. PICK row \in Row : TRUE
  OBVIOUS
<1>2. [c \in {} |-> None] = [c \in {} |-> row[c]]
  OBVIOUS
<1>3. QED
  BY <1>2, WriteIntro

LEMMA SeededRow == Seeded \in Row
BY AdminAssumption DEF Seeded, Row

LEMMA IdleRequest == Idle \in Request
<1>1. [c \in {} |-> None] \in Write
  BY NoWrite, SeededRow
<1>2. QED
  BY <1>1 DEF Idle, Request, Stage

\* What a commit leaves in the table is a row.
LEMMA WrittenRow ==
    ASSUME NEW q \in Request, q.stage = "answered", Writing(q), TypeOK
    PROVE  /\ Written(q) \in Row
           /\ q.op = "create" => Written(q) = q.write
           /\ \A c \in Columns \ DOMAIN q.write : Written(q)[c] = users[q.target][c]
           /\ \A c \in DOMAIN q.write : Written(q)[c] = q.write[c]
<1>0. q.write \in Write /\ DOMAIN q.write \subseteq Columns
  BY WriteElim DEF Request
<1>1. /\ Written(q) = [c \in Columns |-> Written(q)[c]]
      /\ \A c \in Columns \ DOMAIN q.write : Written(q)[c] = users[q.target][c]
      /\ \A c \in DOMAIN q.write : Written(q)[c] = q.write[c]
  BY <1>0 DEF Written
<1>2. CASE q.op = "create"
  <2>1. q.write \in Row /\ DOMAIN q.write = Columns
    BY <1>2, RowIsWrite DEF Writing
  <2>2. Written(q) = [c \in Columns |-> q.write[c]]
    BY <2>1 DEF Written
  <2>3. Written(q) = q.write
    BY <2>1, <2>2, RowElim
  <2>4. QED
    BY <1>1, <2>1, <2>3
<1>3. CASE q.op # "create"
  <2>1. users[q.target] \in Row
    BY <1>3 DEF Writing, Stored, TypeOK
  <2>2. \A c \in Columns : \E row \in Row : Written(q)[c] = row[c]
    <3>1. TAKE c \in Columns
    <3>2. CASE c \in DOMAIN q.write
      <4>1. Written(q)[c] = q.write[c]
        BY <1>1, <3>2
      <4>2. \E row \in Row : q.write[c] = row[c]
        BY <1>0, <3>2, WriteElim
      <4>3. QED
        BY <4>1, <4>2
    <3>3. CASE c \notin DOMAIN q.write
      BY <1>1, <2>1, <3>3
    <3>4. QED
      BY <3>2, <3>3
  <2>3. Written(q) \in Row
    BY <1>1, <2>2, RowIntro, RowElim DEF Columns
  <2>4. QED
    BY <1>1, <1>3, <2>3
<1>4. QED
  BY <1>2, <1>3
-----------------------------------------------------------------------------
(***************************************************************************)
(* Steps that leave the table alone.                                       *)
(***************************************************************************)
\* One request moves on to a sound state of its own.
LEMMA RequestStep ==
    ASSUME IInv, NEW r \in Requests, NEW q \in Request, Sound(q),
           q.op = "create" => q.target \notin Reserved,
           req' = [req EXCEPT ![r] = q], users' = users,
           page' \in [Pages -> Signed \cup {None}], Known'
    PROVE  IInv'
<1>1. /\ req' \in [Requests -> Request]
      /\ \A s \in Requests : req'[s] = IF s = r THEN q ELSE req[s]
  BY DEF IInv, TypeOK
<1>2. TypeOK'
  BY <1>1 DEF IInv, TypeOK
<1>3. UniqueNames'
  BY DEF IInv, UniqueNames, Stored
<1>4. \A s \in Requests : Sound(req'[s])
  BY <1>1 DEF IInv
<1>5. \A s \in Requests : Sound(req[s])'
  BY <1>4 DEF Sound, Reading, Writing, Entitled, Stored, Confined
<1>6. KeysDiffer'
  BY <1>1 DEF IInv, KeysDiffer, Reserved
<1>7. QED
  BY <1>2, <1>3, <1>5, <1>6 DEF IInv

LEMMA IdleSound == Sound(Idle)
BY DEF Sound, Reading, Writing, Entitled, Idle

LEMMA LoginReadIInv ==
    ASSUME IInv, NEW r \in Requests, NEW u \in Accounts, LoginRead(r, u)
    PROVE  IInv'
<1> DEFINE q == [Idle EXCEPT !.stage = "login", !.actor = u, !.self = users[u]]
<1>1. users[u] \in Row
  BY DEF LoginRead, IInv, TypeOK, Stored
<1>2. q \in Request /\ q.op = None /\ q.stage = "login" /\ q.actor = u /\ q.self = users[u]
  BY <1>1, IdleRequest DEF Request, Idle, Stage
<1>3. Sound(q)
  BY <1>1, <1>2 DEF Sound, Reading, Writing, Entitled, LoginRead
<1>4. QED
  BY <1>2, <1>3, RequestStep, AdminAssumption
     DEF LoginRead, IInv, TypeOK, Known, Stored, Op

LEMMA LoginAnswerIInv ==
    ASSUME IInv, NEW r \in Requests, NEW c \in Pages, LoginAnswer(r, c)
    PROVE  IInv'
<1>1. req[r].actor \in Accounts /\ req[r].self.name \in Names
  BY RowElim DEF IInv, Sound, Reading, LoginAnswer, Stored
<1>2. page' \in [Pages -> Signed \cup {None}]
  BY <1>1 DEF LoginAnswer, Signed, IInv, TypeOK
<1>3. Known'
  BY <1>1 DEF LoginAnswer, Known, Stored, IInv, TypeOK, Sound, Reading
<1>4. QED
  BY <1>2, <1>3, RequestStep, IdleRequest, IdleSound, AdminAssumption
     DEF LoginAnswer, Idle, Op

LEMMA AuthenticateIInv ==
    ASSUME IInv, NEW r \in Requests, NEW c \in Pages, Authenticate(r, c)
    PROVE  IInv'
<1>1. PICK u \in Named(page[c].sub) :
        req' = [req EXCEPT ![r] = [Idle EXCEPT !.stage = "authenticated",
                                               !.actor = u, !.self = users[u]]]
  BY DEF Authenticate
<1> DEFINE q == [Idle EXCEPT !.stage = "authenticated", !.actor = u, !.self = users[u]]
<1>2. u \in Stored /\ u \in Accounts /\ users[u] \in Row
  BY DEF Named, Stored, IInv, TypeOK
<1>3. /\ q \in Request /\ q.op = None /\ q.stage = "authenticated"
      /\ q.actor = u /\ q.self = users[u]
  BY <1>2, IdleRequest DEF Request, Idle, Stage
<1>4. Sound(q)
  BY <1>2, <1>3 DEF Sound, Reading, Writing, Entitled
<1>5. QED
  BY <1>1, <1>3, <1>4, RequestStep, AdminAssumption
     DEF Authenticate, IInv, TypeOK, Known, Stored, Op

LEMMA LeaveIInv ==
    ASSUME IInv, NEW r \in Requests, Leave(r)
    PROVE  IInv'
BY RequestStep, IdleRequest, IdleSound, AdminAssumption
   DEF Leave, Idle, IInv, TypeOK, Known, Stored, Op

\* The tokens of the clients.
LEMMA PageIInv ==
    ASSUME IInv, NEW c \in Pages,
           Refresh(c) \/ ExpireAccess(c) \/ EndSession(c)
    PROVE  IInv'
<1>1. page[c] \in Signed /\ page[c].user \in Stored
  BY DEF Refresh, ExpireAccess, EndSession, IInv, TypeOK, Known
<1>2. page' \in [Pages -> Signed \cup {None}] /\ Known'
  <2>1. CASE Refresh(c)
    <3>1. users[page[c].user].name \in Names
      BY <1>1, RowElim DEF IInv, TypeOK, Stored
    <3>2. QED
      BY <1>1, <2>1, <3>1 DEF Refresh, IInv, TypeOK, Signed, Known, Stored
  <2>2. CASE ExpireAccess(c)
    BY <1>1, <2>2 DEF ExpireAccess, IInv, TypeOK, Signed, Known, Stored
  <2>3. CASE EndSession(c)
    BY <2>3 DEF EndSession, IInv, TypeOK, Known, Stored
  <2>4. QED
    BY <2>1, <2>2, <2>3
<1>3. users' = users /\ req' = req
  BY DEF Refresh, ExpireAccess, EndSession
<1>4. \A r \in Requests : Sound(req[r])'
  BY <1>3 DEF IInv, Sound, Reading, Writing, Entitled, Confined, Stored
<1>5. QED
  BY <1>2, <1>3, <1>4 DEF IInv, TypeOK, UniqueNames, KeysDiffer, Stored

\* Handlers that change a loaded object. What the operation may change is left
\* to the caller of this lemma.
LEMMA AnswerIInv ==
    ASSUME IInv, NEW r \in Requests, NEW op \in Op \ {"create"},
           NEW u \in Stored, NEW new \in Row,
           Answer(r, op, u, new),
           op # "password" => MayUse(req[r]),
           op = "delete" => u # req[r].actor,
           \A c \in Columns : new[c] # Loaded(u)[c] =>
                                MayWrite(op, c, new[c])
    PROVE  IInv'
<1> DEFINE C == Changed(Loaded(u), new)
           q == [req[r] EXCEPT !.stage = "answered", !.self = None, !.op = op,
                               !.target = u, !.write = [c \in C |-> new[c]]]
<1>1. C \subseteq Columns /\ [c \in C |-> new[c]] \in Write
  BY WriteIntro DEF Changed
<1>2. /\ q \in Request /\ q.stage = "answered" /\ q.op = op /\ q.target = u
      /\ q.actor = req[r].actor /\ q.write = [c \in C |-> new[c]]
  BY <1>1 DEF IInv, TypeOK, Request, Stage, Stored
<1>3. Confined(q)
  BY <1>2 DEF Confined, Changed
<1>4. Entitled(q)
  BY <1>2 DEF Entitled, IInv, Sound, Reading, MayUse, Answer
<1>5. Sound(q)
  BY <1>2, <1>3, <1>4 DEF Sound, Reading, Writing, Stored
<1>6. QED
  BY <1>2, <1>5, RequestStep DEF Answer, IInv, TypeOK, Known, Stored

\* What a handler loads is a row, the requester's own included.
LEMMA LoadedRow ==
    ASSUME IInv, NEW r \in Requests, req[r].stage = "authenticated"
    PROVE  /\ req[r].actor \in Stored
           /\ \A u \in Stored : Loaded(u) \in Row
BY DEF IInv, TypeOK, Sound, Reading, Loaded, Stored

LEMMA UpdateProfileIInv ==
    ASSUME IInv, NEW r \in Requests, NEW n \in Names, UpdateProfile(r, n)
    PROVE  IInv'
<1> DEFINE old == Loaded(req[r].actor)
           new == [old EXCEPT !.name = n]
<1>1. req[r].stage = "authenticated" /\ MayUse(req[r])
  BY DEF UpdateProfile, MayUse
<1>2. old \in Row /\ new \in Row /\ \A c \in Columns \ {"name"} : new[c] = old[c]
  <2>1. old \in Row
    BY <1>1, LoadedRow
  <2> HIDE DEF old
  <2>2. QED
    BY <2>1 DEF Row, Columns
<1> HIDE DEF new
<1>3. Answer(r, "rename", req[r].actor, new)
  BY DEF UpdateProfile, new
<1>4. \A c \in Columns : new[c] # Loaded(req[r].actor)[c] =>
                            MayWrite("rename", c, new[c])
  BY <1>1, <1>2, LoadedRow DEF MayWrite
<1>5. QED
  BY <1>1, <1>2, <1>3, <1>4, LoadedRow, AnswerIInv DEF Op

LEMMA ChangeOwnPasswordIInv ==
    ASSUME IInv, NEW r \in Requests, ChangeOwnPassword(r)
    PROVE  IInv'
<1> DEFINE old == Loaded(req[r].actor)
           new == [old EXCEPT !.must = FALSE]
<1>1. req[r].stage = "authenticated"
  BY DEF ChangeOwnPassword, Answer
<1>2. /\ old \in Row /\ new \in Row /\ new["must"] = FALSE
      /\ \A c \in Columns \ {"must"} : new[c] = old[c]
  <2>1. old \in Row
    BY <1>1, LoadedRow
  <2> HIDE DEF old
  <2>2. QED
    BY <2>1 DEF Row, Columns
<1> HIDE DEF new
<1>3. Answer(r, "password", req[r].actor, new)
  BY DEF ChangeOwnPassword, new
<1>4. \A c \in Columns : new[c] # Loaded(req[r].actor)[c] =>
                            MayWrite("password", c, new[c])
  BY <1>1, <1>2, LoadedRow DEF MayWrite
<1>5. QED
  BY <1>1, <1>2, <1>3, <1>4, LoadedRow, AnswerIInv DEF Op

LEMMA UpdateUserIInv ==
    ASSUME IInv, NEW r \in Requests, NEW u \in Accounts, NEW n \in Names,
           NEW role \in Roles, NEW b \in BOOLEAN, UpdateUser(r, u, n, role, b)
    PROVE  IInv'
<1> DEFINE old == Loaded(u)
           new == [old EXCEPT !.name = n, !.role = role, !.active = b]
<1>1. req[r].stage = "authenticated" /\ MayUse(req[r]) /\ u \in Stored
  BY DEF UpdateUser, MayAdministrate, MayUse
<1>2. old \in Row /\ new \in Row /\ new["must"] = old["must"]
  <2>1. old \in Row
    BY <1>1, LoadedRow
  <2> HIDE DEF old
  <2>2. QED
    BY <2>1 DEF Row, Columns
<1> HIDE DEF new
<1>3. Answer(r, "update", u, new)
  BY DEF UpdateUser, new
<1>4. \A c \in Columns : new[c] # Loaded(u)[c] =>
                            MayWrite("update", c, new[c])
  BY <1>2 DEF MayWrite, Columns
<1>5. QED
  BY <1>1, <1>2, <1>3, <1>4, AnswerIInv DEF Op

LEMMA DeleteUserIInv ==
    ASSUME IInv, NEW r \in Requests, NEW u \in Accounts, DeleteUser(r, u)
    PROVE  IInv'
<1> DEFINE old == Loaded(u)
           new == [old EXCEPT !.active = FALSE]
<1>1. /\ req[r].stage = "authenticated" /\ MayUse(req[r])
      /\ u \in Stored /\ u # req[r].actor
  BY DEF DeleteUser, MayAdministrate, MayUse
<1>2. /\ old \in Row /\ new \in Row /\ new["active"] = FALSE
      /\ \A c \in Columns \ {"active"} : new[c] = old[c]
  <2>1. old \in Row
    BY <1>1, LoadedRow
  <2> HIDE DEF old
  <2>2. QED
    BY <2>1 DEF Row, Columns
<1> HIDE DEF new
<1>3. Answer(r, "delete", u, new)
  BY DEF DeleteUser, new
<1>4. \A c \in Columns : new[c] # Loaded(u)[c] =>
                            MayWrite("delete", c, new[c])
  BY <1>2 DEF MayWrite
<1>5. QED
  BY <1>1, <1>2, <1>3, <1>4, AnswerIInv DEF Op

LEMMA ResetPasswordIInv ==
    ASSUME IInv, NEW r \in Requests, NEW u \in Accounts, ResetPassword(r, u)
    PROVE  IInv'
<1> DEFINE old == Loaded(u)
           new == [old EXCEPT !.must = FALSE]
<1>1. req[r].stage = "authenticated" /\ MayUse(req[r]) /\ u \in Stored
  BY DEF ResetPassword, MayAdministrate, MayUse
<1>2. /\ old \in Row /\ new \in Row /\ new["must"] = FALSE
      /\ \A c \in Columns \ {"must"} : new[c] = old[c]
  <2>1. old \in Row
    BY <1>1, LoadedRow
  <2> HIDE DEF old
  <2>2. QED
    BY <2>1 DEF Row, Columns
<1> HIDE DEF new
<1>3. Answer(r, "reset", u, new)
  BY DEF ResetPassword, new
<1>4. \A c \in Columns : new[c] # Loaded(u)[c] =>
                            MayWrite("reset", c, new[c])
  BY <1>2 DEF MayWrite
<1>5. QED
  BY <1>1, <1>2, <1>3, <1>4, AnswerIInv DEF Op

LEMMA CreateUserIInv ==
    ASSUME IInv, NEW r \in Requests, NEW n \in Names, NEW role \in Roles,
           CreateUser(r, n, role)
    PROVE  IInv'
<1> DEFINE row == [name |-> n, role |-> role, active |-> TRUE, must |-> TRUE]
<1>1. PICK u \in Accounts \ (Stored \cup Reserved) :
        req' = [req EXCEPT ![r] =
                [@ EXCEPT !.stage = "answered", !.self = None, !.op = "create",
                          !.target = u, !.write = row]]
  BY DEF CreateUser
<1> DEFINE q == [req[r] EXCEPT !.stage = "answered", !.self = None,
                               !.op = "create", !.target = u, !.write = row]
<1>2. row \in Row /\ row \in Write
  BY RowIsWrite DEF Row
<1>3. /\ q \in Request /\ q.stage = "answered" /\ q.op = "create"
      /\ q.target = u /\ q.actor = req[r].actor /\ q.write = row
  BY <1>2 DEF IInv, TypeOK, Request, Stage, Op
<1>4. Entitled(q)
  BY <1>3 DEF Entitled, IInv, Sound, Reading, MayUse, MayAdministrate, CreateUser
<1>5. Sound(q)
  BY <1>2, <1>3, <1>4 DEF Sound, Reading, Writing, Confined, Op
<1>6. QED
  BY <1>1, <1>3, <1>5, RequestStep DEF CreateUser, IInv, TypeOK, Known, Stored
-----------------------------------------------------------------------------
(***************************************************************************)
(* Steps that change the table.                                            *)
(***************************************************************************)
\* Requests that stay in progress stay sound when accounts are added and no
\* flag is set again, if their own keys are still free.
LEMMA TableStep ==
    ASSUME IInv, TypeOK', UniqueNames',
           Stored \subseteq Stored',
           \A u \in Stored : ~users[u].must => ~users'[u].must,
           \A s \in Requests :
              \/ req'[s] = Idle
              \/ /\ req'[s] = req[s]
                 /\ req[s].op = "create" => req[s].target \notin Stored',
           page' = page
    PROVE  IInv'
<1>1. \A s \in Requests : Sound(req[s])'
  <2>1. TAKE s \in Requests
  <2>2. CASE req'[s] = Idle
    BY <2>2, AdminAssumption DEF Sound, Reading, Writing, Entitled, Idle
  <2>3. CASE /\ req'[s] = req[s]
             /\ req[s].op = "create" => req[s].target \notin Stored'
    <3>1. Sound(req[s])
      BY DEF IInv
    <3>2. Reading(req[s])'
      BY <2>3, <3>1 DEF Sound, Reading
    <3>3. Writing(req[s])'
      BY <2>3, <3>1 DEF Sound, Writing, Confined
    <3>4. Entitled(req[s])'
      BY <2>3, <3>1 DEF Sound, Entitled
    <3>5. QED
      BY <3>2, <3>3, <3>4 DEF Sound
  <2>4. QED
    BY <2>2, <2>3
<1>2. KeysDiffer'
  BY AdminAssumption DEF IInv, KeysDiffer, Idle, Op
<1>3. Known'
  BY DEF IInv, Known
<1>4. QED
  BY <1>1, <1>2, <1>3 DEF IInv

\* What a commit does to the row it writes.
LEMMA CommitRow ==
    ASSUME IInv, NEW r \in Requests, Commit(r)
    PROVE  /\ req[r] \in Request /\ req[r].op \in Op
           /\ req[r].target \in Accounts
           /\ Written(req[r]) \in Row
           /\ users'[req[r].target] = Written(req[r])
           /\ \A u \in Accounts \ {req[r].target} : users'[u] = users[u]
           /\ Stored' = Stored \cup {req[r].target}
           /\ req[r].target \in Stored =>
                 /\ req[r].op # "create"
                 /\ Confined(req[r])
                 /\ \A c \in Columns :
                        \/ Written(req[r])[c] = users[req[r].target][c]
                        \/ /\ c \in DOMAIN req[r].write
                           /\ Written(req[r])[c] = req[r].write[c]
                           /\ MayWrite(req[r].op, c, Written(req[r])[c])
<1>1. /\ req[r] \in Request /\ req[r].stage = "answered" /\ Writing(req[r])
      /\ users \in [Accounts -> Row \cup {None}]
  BY DEF IInv, TypeOK, Sound, Commit
<1>2. /\ Written(req[r]) \in Row
      /\ \A c \in Columns \ DOMAIN req[r].write :
            Written(req[r])[c] = users[req[r].target][c]
      /\ \A c \in DOMAIN req[r].write : Written(req[r])[c] = req[r].write[c]
  BY <1>1, WrittenRow DEF IInv
<1>3. req[r].op \in Op /\ req[r].target \in Accounts
  BY <1>1 DEF Writing
<1>4. /\ users'[req[r].target] = Written(req[r])
      /\ \A u \in Accounts \ {req[r].target} : users'[u] = users[u]
  BY <1>1, <1>3 DEF Commit
<1>5. Stored' = Stored \cup {req[r].target}
  BY <1>2, <1>3, <1>4, AdminAssumption DEF Stored
<1>6. req[r].target \in Stored =>
        /\ req[r].op # "create"
        /\ Confined(req[r])
        /\ \A c \in Columns :
              \/ Written(req[r])[c] = users[req[r].target][c]
              \/ /\ c \in DOMAIN req[r].write
                 /\ Written(req[r])[c] = req[r].write[c]
                 /\ MayWrite(req[r].op, c, Written(req[r])[c])
  BY <1>1, <1>2 DEF Writing, Confined
<1>7. QED
  BY <1>1, <1>2, <1>3, <1>4, <1>5, <1>6

LEMMA CommitIInv ==
    ASSUME IInv, NEW r \in Requests, Commit(r)
    PROVE  IInv'
<1> DEFINE t == req[r].target
           W == Written(req[r])
<1>1. /\ t \in Accounts /\ W \in Row /\ users'[t] = W
      /\ \A u \in Accounts \ {t} : users'[u] = users[u]
      /\ Stored' = Stored \cup {t}
  BY CommitRow
<1>2. TypeOK'
  BY <1>1, IdleRequest DEF Commit, IInv, TypeOK
<1>3. UniqueNames'
  <2>1. \A u \in Stored : users[u].name = W.name => u = t
    BY DEF Commit, Named
  <2>2. \A u \in Stored' \ {t} : u \in Stored /\ users'[u] = users[u]
    BY <1>1 DEF Stored
  <2>3. QED
    BY <1>1, <2>1, <2>2 DEF IInv, UniqueNames
<1>4. \A u \in Stored : ~users[u].must => ~users'[u].must
  <2>1. TAKE u \in Stored
  <2>2. CASE u = t
    <3>1. W["must"] = users[t]["must"] \/ MayWrite(req[r].op, "must", W["must"])
      BY <2>2, CommitRow DEF Columns
    <3>2. W["must"] = users[t]["must"] \/ W["must"] = FALSE
      BY <3>1 DEF MayWrite
    <3>3. users[t] \in Row
      BY <2>2 DEF IInv, TypeOK, Stored
    <3>4. W.must = W["must"] /\ users[t].must = users[t]["must"]
      BY <1>1, <3>3, RowElim
    <3>5. QED
      BY <1>1, <2>2, <3>2, <3>4
  <2>3. CASE u # t
    BY <1>1, <2>3 DEF Stored
  <2>4. QED
    BY <2>2, <2>3
<1>5. \A s \in Requests :
        \/ req'[s] = Idle
        \/ /\ req'[s] = req[s]
           /\ req[s].op = "create" => req[s].target \notin Stored'
  <2>1. TAKE s \in Requests
  <2>2. CASE s = r
    BY <2>2 DEF Commit, IInv, TypeOK
  <2>3. CASE s # r
    <3>1. req'[s] = req[s]
      BY <2>3 DEF Commit, IInv, TypeOK
    <3>2. ASSUME req[s].op = "create"
          PROVE  req[s].target \notin Stored'
      <4>1. req[s].target \notin Stored
        BY <3>2, AdminAssumption DEF IInv, Sound, Writing, Op
      <4>2. req[s].target # t
        BY <2>3, <3>2, <4>1, CommitRow
           DEF IInv, KeysDiffer, Sound, Writing, Commit
      <4>3. QED
        BY <1>1, <4>1, <4>2
    <3>3. QED
      BY <3>1, <3>2
  <2>4. QED
    BY <2>2, <2>3
<1>6. Stored \subseteq Stored' /\ page' = page
  BY <1>1 DEF Commit
<1>7. QED
  BY <1>2, <1>3, <1>4, <1>5, <1>6, TableStep

\* What a restart does to the table.
LEMMA RestartRows ==
    ASSUME IInv, Restart
    PROVE  /\ users' \in [Accounts -> Row \cup {None}]
           /\ \A u \in Stored : users'[u] = users[u]
           /\ Stored \subseteq Stored'
           /\ UniqueNames'
<1>1. CASE users' = users
  BY <1>1 DEF IInv, TypeOK, UniqueNames, Stored
<1>2. CASE /\ Named(AdminName) = {}
           /\ \E u \in Accounts \ Stored : users' = [users EXCEPT ![u] = Seeded]
  <2>1. PICK u \in Accounts \ Stored : users' = [users EXCEPT ![u] = Seeded]
    BY <1>2
  <2>2. /\ users' \in [Accounts -> Row \cup {None}]
        /\ users'[u] = Seeded
        /\ \A v \in Accounts \ {u} : users'[v] = users[v]
    BY <2>1, SeededRow DEF IInv, TypeOK
  <2>3. Stored' = Stored \cup {u}
    BY <2>1, <2>2, SeededRow, AdminAssumption DEF Stored
  <2>4. \A v \in Stored : users'[v] = users[v] /\ users[v].name # Seeded.name
    BY <1>2, <2>1, <2>2 DEF Named, Stored, Seeded
  <2>5. UniqueNames'
    BY <2>2, <2>3, <2>4 DEF UniqueNames, IInv
  <2>6. QED
    BY <2>2, <2>3, <2>4, <2>5
<1>3. QED
  BY <1>1, <1>2 DEF Restart

LEMMA RestartIInv == IInv /\ Restart => IInv'
<1>1. SUFFICES ASSUME IInv, Restart PROVE IInv'
  OBVIOUS
<1>2. TypeOK'
  BY <1>1, RestartRows, IdleRequest DEF Restart, IInv, TypeOK
<1>3. \A s \in Requests : req'[s] = Idle
  BY <1>1 DEF Restart
<1>4. QED
  BY <1>1, <1>2, <1>3, RestartRows, TableStep DEF Restart
-----------------------------------------------------------------------------
LEMMA InitIInv == Init => IInv
<1>1. SUFFICES ASSUME Init PROVE IInv
  OBVIOUS
<1>2. PICK u \in Accounts : users = [a \in Accounts |-> IF a = u THEN Seeded ELSE None]
  BY <1>1 DEF Init
<1>3. TypeOK
  BY <1>1, <1>2, SeededRow, IdleRequest DEF Init, TypeOK
<1>4. UniqueNames
  BY <1>2 DEF UniqueNames, Stored
<1>5. (\A r \in Requests : Sound(req[r])) /\ KeysDiffer /\ Known
  BY <1>1, IdleSound, AdminAssumption DEF Init, KeysDiffer, Known, Idle, Op
<1>6. QED
  BY <1>3, <1>4, <1>5 DEF IInv

LEMMA NextIInv == IInv /\ [Next]_vars => IInv'
<1>1. SUFFICES ASSUME IInv, [Next]_vars PROVE IInv'
  OBVIOUS
<1>2. ASSUME NEW r \in Requests, NEW u \in Accounts, LoginRead(r, u)
      PROVE  IInv'
  BY <1>1, <1>2, LoginReadIInv
<1>3. ASSUME NEW r \in Requests, NEW c \in Pages, LoginAnswer(r, c) \/ Authenticate(r, c)
      PROVE  IInv'
  BY <1>1, <1>3, LoginAnswerIInv, AuthenticateIInv
<1>4. ASSUME NEW c \in Pages, Refresh(c) \/ ExpireAccess(c) \/ EndSession(c)
      PROVE  IInv'
  BY <1>1, <1>4, PageIInv
<1>5. ASSUME NEW r \in Requests, Handle(r)
      PROVE  IInv'
  BY <1>1, <1>5, UpdateProfileIInv, ChangeOwnPasswordIInv, CreateUserIInv,
     UpdateUserIInv, DeleteUserIInv, ResetPasswordIInv DEF Handle
<1>6. ASSUME NEW r \in Requests, Commit(r) \/ Leave(r)
      PROVE  IInv'
  BY <1>1, <1>6, CommitIInv, LeaveIInv
<1>7. CASE Restart
  BY <1>1, <1>7, RestartIInv
<1>8. CASE UNCHANGED vars
  BY <1>1, <1>8 DEF vars, IInv, TypeOK, UniqueNames, Stored, Sound, Reading,
                    Writing, Confined, Entitled, KeysDiffer, Known
<1>9. QED
  BY <1>1, <1>2, <1>3, <1>4, <1>5, <1>6, <1>7, <1>8 DEF Next

LEMMA Invariance == Spec => []IInv
BY InitIInv, NextIInv, PTL DEF Spec
-----------------------------------------------------------------------------
(***************************************************************************)
(* Theorems.                                                               *)
(***************************************************************************)
\* The table, the clients' sessions and the requests have their types.
THEOREM TypeCorrect == Spec => []TypeOK
BY Invariance, PTL DEF IInv

\* No two accounts ever share a username, however creations, renamings and
\* restarts overlap.
THEOREM NamesUnique == Spec => []UniqueNames
BY Invariance, PTL DEF IInv

\* Whoever has not replaced his first password changes nothing but that.
THEOREM PasswordFirst == Spec => []FirstChangesPassword
<1>1. IInv => FirstChangesPassword
  BY DEF IInv, Sound, Entitled, FirstChangesPassword
<1>2. QED
  BY <1>1, Invariance, PTL

\* Only commits and restarts write the table.
LEMMA TableWriters ==
    ASSUME [Next]_vars, users' # users
    PROVE  Restart \/ \E r \in Requests : Commit(r)
<1>1. ASSUME NEW r \in Requests, Handle(r) PROVE FALSE
  BY <1>1 DEF Handle, UpdateProfile, ChangeOwnPassword, CreateUser, UpdateUser,
              DeleteUser, ResetPassword, Answer
<1>2. ASSUME NEW r \in Requests, NEW u \in Accounts, LoginRead(r, u) PROVE FALSE
  BY <1>2 DEF LoginRead
<1>3. ASSUME NEW r \in Requests, NEW c \in Pages,
             LoginAnswer(r, c) \/ Authenticate(r, c)
      PROVE  FALSE
  BY <1>3 DEF LoginAnswer, Authenticate
<1>4. ASSUME NEW c \in Pages, Refresh(c) \/ ExpireAccess(c) \/ EndSession(c)
      PROVE  FALSE
  BY <1>4 DEF Refresh, ExpireAccess, EndSession
<1>5. ASSUME NEW r \in Requests, Leave(r) PROVE FALSE
  BY <1>5 DEF Leave
<1>6. QED
  BY <1>1, <1>2, <1>3, <1>4, <1>5 DEF Next, vars

\* A step that changes a stored row is the commit of a request, and changes
\* the columns of its operation only.
LEMMA RowStep ==
    ASSUME IInv, [Next]_vars, NEW u \in Stored, users'[u] # users[u]
    PROVE  \E r \in Requests :
              /\ Commit(r) /\ req[r].target = u
              /\ users[u] \in Row /\ users'[u] \in Row
              /\ \A c \in Columns : users'[u][c] # users[u][c] =>
                    /\ c \in DOMAIN req[r].write
                    /\ users'[u][c] = req[r].write[c]
                    /\ MayWrite(req[r].op, c, users'[u][c])
<1>1. users' # users
  OBVIOUS
<1>2. ~Restart
  BY RestartRows
<1>3. PICK r \in Requests : Commit(r)
  BY <1>1, <1>2, TableWriters
<1>4. req[r].target = u
  BY <1>3, CommitRow DEF Stored
<1>5. users[u] \in Row
  BY DEF IInv, TypeOK, Stored
<1>6. QED
  BY <1>3, <1>4, <1>5, CommitRow

\* Requests undo nothing that others committed while they were under way.
THEOREM NothingIsUndone == Spec => NothingUndone
<1> DEFINE Kept(u) ==
        /\ ~users[u].active /\ users'[u].active =>
              \E r \in Requests : Commits(r, {"update"}, u) /\ req[r].write["active"]
        /\ users[u].role # users'[u].role =>
              \E r \in Requests : Commits(r, {"update"}, u)
        /\ users[u].name # users'[u].name =>
              \E r \in Requests : Commits(r, {"update", "rename"}, u)
        /\ ~users[u].must => ~users'[u].must
<1>1. ASSUME IInv, [Next]_vars, NEW u \in Stored
      PROVE  Kept(u)
  <2>1. CASE users'[u] = users[u]
    BY <2>1
  <2>2. CASE users'[u] # users[u]
    <3>1. PICK r \in Requests :
              /\ Commit(r) /\ req[r].target = u
              /\ users[u] \in Row /\ users'[u] \in Row
              /\ \A c \in Columns : users'[u][c] # users[u][c] =>
                    /\ c \in DOMAIN req[r].write
                    /\ users'[u][c] = req[r].write[c]
                    /\ MayWrite(req[r].op, c, users'[u][c])
      BY <1>1, <2>2, RowStep
    <3>2. ASSUME ~users[u].active, users'[u].active
          PROVE  Commits(r, {"update"}, u) /\ req[r].write["active"]
      <4>1. users'[u]["active"] # users[u]["active"]
        BY <3>1, <3>2, RowElim
      <4>2. /\ users'[u]["active"] = req[r].write["active"]
            /\ MayWrite(req[r].op, "active", users'[u]["active"])
        BY <3>1, <4>1 DEF Columns
      <4>3. users'[u]["active"] = TRUE
        BY <3>1, <3>2, RowElim
      <4>4. QED
        BY <3>1, <4>2, <4>3 DEF MayWrite, Commits
    <3>3. ASSUME users[u].role # users'[u].role
          PROVE  Commits(r, {"update"}, u)
      <4>1. MayWrite(req[r].op, "role", users'[u]["role"])
        BY <3>1, <3>3, RowElim DEF Columns
      <4>2. QED
        BY <3>1, <4>1 DEF MayWrite, Commits
    <3>4. ASSUME users[u].name # users'[u].name
          PROVE  Commits(r, {"update", "rename"}, u)
      <4>1. MayWrite(req[r].op, "name", users'[u]["name"])
        BY <3>1, <3>4, RowElim DEF Columns
      <4>2. QED
        BY <3>1, <4>1 DEF MayWrite, Commits
    <3>5. ASSUME ~users[u].must
          PROVE  ~users'[u].must
      <4>1. \/ users'[u]["must"] = users[u]["must"]
            \/ MayWrite(req[r].op, "must", users'[u]["must"])
        BY <3>1 DEF Columns
      <4>2. users'[u]["must"] = users[u]["must"] \/ users'[u]["must"] = FALSE
        BY <4>1 DEF MayWrite
      <4>3. QED
        BY <3>1, <3>5, <4>2, RowElim
    <3>6. QED
      BY <3>2, <3>3, <3>4, <3>5
  <2>3. QED
    BY <2>1, <2>2
<1>2. IInv /\ [Next]_vars => [\A u \in Stored : Kept(u)]_vars
  BY <1>1
<1>3. QED
  BY <1>2, Invariance, PTL DEF Spec, NothingUndone

\* The last active administrator is lost by an update only, or by a deletion
\* whose requester is none any more.
THEOREM AdminKept == Spec => LastAdminKept
<1> DEFINE Excused == \E r \in Requests :
              /\ Commit(r)
              /\ \/ req[r].op = "update"
                 \/ req[r].op = "delete" /\ ~ActiveAdmin(req[r].actor)
<1>1. ASSUME IInv, [Next]_vars, SomeAdmin, ~SomeAdmin'
      PROVE  Excused
  <2>1. PICK u \in Accounts : ActiveAdmin(u)
    BY <1>1 DEF SomeAdmin
  <2>2. ~ActiveAdmin(u)'
    BY <1>1 DEF SomeAdmin
  <2>3. u \in Stored /\ users'[u] # users[u]
    BY <2>1, <2>2, AdminAssumption DEF ActiveAdmin, Stored, IInv, TypeOK
  <2>4. PICK r \in Requests :
              /\ Commit(r) /\ req[r].target = u
              /\ users[u] \in Row /\ users'[u] \in Row
              /\ \A c \in Columns : users'[u][c] # users[u][c] =>
                    /\ c \in DOMAIN req[r].write
                    /\ users'[u][c] = req[r].write[c]
                    /\ MayWrite(req[r].op, c, users'[u][c])
    BY <1>1, <2>3, RowStep
  <2>5. users'[u] # None
    BY <2>4, AdminAssumption
  <2>6. users'[u].active # users[u].active \/ users'[u].role # users[u].role
    BY <2>1, <2>2, <2>5 DEF ActiveAdmin, Stored
  <2>7. req[r].op \in {"update", "delete"}
    BY <2>4, <2>6, RowElim DEF MayWrite, Columns
  <2>8. ASSUME req[r].op = "delete" PROVE ~ActiveAdmin(req[r].actor)
    <3>1. req[r].target # req[r].actor
      BY <1>1, <2>3, <2>4, <2>8, CommitRow DEF Confined
    <3>2. ASSUME NEW v \in Accounts, v = req[r].actor, ActiveAdmin(v)
          PROVE  ActiveAdmin(v)'
      <4>1. users'[v] = users[v]
        BY <1>1, <2>4, <3>1, <3>2, CommitRow
      <4>2. QED
        BY <3>2, <4>1 DEF ActiveAdmin, Stored
    <3>3. QED
      BY <1>1, <3>2 DEF SomeAdmin, ActiveAdmin, Stored
  <2>9. QED
    BY <2>4, <2>7, <2>8
<1>2. IInv /\ [Next]_vars => [SomeAdmin /\ ~SomeAdmin' => Excused]_vars
  BY <1>1
<1>3. QED
  BY <1>2, Invariance, PTL DEF Spec, LastAdminKept
=============================================================================
