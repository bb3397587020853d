------------------------ MODULE RefreshTokensProofs ------------------------
(***************************************************************************)
(* Theorems about RefreshTokens, for every set of users, requests and      *)
(* tokens and every lifetime. The invariant that is inductive is TypeOK    *)
(* with AbsoluteExpiry, RotatedIsSpent and Custody: that a rotated token   *)
(* stays spent needs to know that no other request can insert it again.    *)
(***************************************************************************)
EXTENDS RefreshTokens, TLAPS

IInv == TypeOK /\ AbsoluteExpiry /\ RotatedIsSpent /\ Custody

-----------------------------------------------------------------------------
\* The initial state satisfies the inductive invariant.
LEMMA InitInv == Init => IInv
<1> SUFFICES ASSUME Init PROVE IInv
  OBVIOUS
<1>1. Issued = {} /\ Idle \in Request
  BY TokensAssumption DEF Init, Issued, Idle, Request, Stage
<1>2. TypeOK
  BY <1>1, TokensAssumption DEF Init, TypeOK
<1>3. AbsoluteExpiry /\ RotatedIsSpent
  BY <1>1 DEF Init, AbsoluteExpiry, RotatedIsSpent
<1>4. Custody
  BY <1>1 DEF Init, Custody, Idle
<1> QED
  BY <1>2, <1>3, <1>4 DEF IInv

\* A step that changes nothing but the local state of one request -- what it
\* read, or that it is over -- preserves the invariant, when the request awaits
\* no insertion and may rotate only a token whose row is nobody's to insert.
LEMMA LocalStep ==
  ASSUME IInv, NEW r \in Requests, NEW q \in Request,
         q.insert = {},
         q.stage \in {"verified", "reverified"} => Settled(q.token),
         q.stage = "login" => q.user \in Users,
         req' = [req EXCEPT ![r] = q],
         UNCHANGED <<now, active, data, stored, revoked, ended>>
  PROVE  IInv'
<1> USE DEF IInv
<1>1. /\ req'[r] = q
      /\ \A p \in Requests : p # r => req'[p] = req[p]
      /\ req' \in [Requests -> Request]
      /\ Issued' = Issued
  BY DEF TypeOK, Issued
<1>2. TypeOK'
  BY <1>1 DEF TypeOK
<1>3. AbsoluteExpiry' /\ RotatedIsSpent'
  BY <1>1 DEF AbsoluteExpiry, RotatedIsSpent, FamilyOf
<1>4. \A t : Settled(t) => Settled(t)'
  BY <1>1 DEF Settled
<1>5. Custody'
  <2>1. ASSUME NEW p \in Requests PROVE
          /\ req'[p].insert \subseteq Issued' \ stored'
          /\ req'[p].insert # {} => req'[p].stage = "answered"
          /\ req'[p].stage \in {"verified", "reverified"} => Settled(req[p].token)'
          /\ req'[p].stage = "login" => req'[p].user \in Users
          /\ \A n \in req'[p].insert :
                data'[n].parent \notin (stored' \ revoked') \ req'[p].revoke
    <3>1. CASE p = r
      BY <3>1, <1>1, <1>4
    <3>2. CASE p # r
      BY <3>2, <1>1, <1>4 DEF Custody
    <3> QED
      BY <3>1, <3>2
  <2>2. \A r1, r2 \in Requests :
          r1 # r2 => req'[r1].insert \cap req'[r2].insert = {}
    BY <1>1 DEF Custody
  <2>3. \A t \in Issued' : data'[t].parent = None \/ Settled(data[t].parent)'
    BY <1>1, <1>4 DEF Custody
  <2> QED
    BY <2>1, <2>2, <2>3 DEF Custody
<1> QED
  BY <1>2, <1>3, <1>5

\* A step that issues a new token n with data d, to be inserted by request r.
LEMMA IssueStep ==
  ASSUME IInv, NEW r \in Requests, NEW q \in Request,
         NEW n \in Tokens \ Issued, NEW d \in TokenData,
         req[r].insert = {}, q.insert = {n}, q.stage = "answered",
         d.parent = None \/ Settled(d.parent),
         d.parent \notin (stored \ revoked) \ q.revoke,
         \/ d.family = n
         \/ /\ d.family \in Issued
            /\ FamilyOf(d.family) = d.family
            /\ d.expires = data[d.family].expires
            /\ d.user = data[d.family].user,
         data' = [data EXCEPT ![n] = d],
         req' = [req EXCEPT ![r] = q],
         UNCHANGED <<now, active, stored, revoked, ended>>
  PROVE  IInv'
<1> USE DEF IInv
<1>1. /\ req'[r] = q
      /\ \A p \in Requests : p # r => req'[p] = req[p]
      /\ req' \in [Requests -> Request]
  BY DEF TypeOK
<1>2. /\ data'[n] = d
      /\ \A t \in Tokens : t # n => data'[t] = data[t]
      /\ data' \in [Tokens -> TokenData \cup {None}]
  BY DEF TypeOK
<1>3. Issued' = Issued \cup {n}
  BY <1>2, TokensAssumption DEF Issued
<1>4. n \notin stored /\ stored \subseteq Issued /\ Issued \subseteq Tokens
  BY DEF TypeOK, Issued
<1>5. TypeOK'
  BY <1>1, <1>2, <1>3 DEF TypeOK
<1>6. AbsoluteExpiry'
  <2> SUFFICES ASSUME NEW t \in Issued'
               PROVE  /\ data'[t].family \in Issued'
                      /\ data'[data'[t].family].family = data'[t].family
                      /\ data'[t].expires = data'[data'[t].family].expires
                      /\ data'[t].user = data'[data'[t].family].user
    BY DEF AbsoluteExpiry, FamilyOf
  <2>1. CASE t = n
    BY <2>1, <1>2, <1>3, <1>4 DEF FamilyOf
  <2>2. CASE t \in Issued
    BY <2>2, <1>2, <1>3, <1>4 DEF AbsoluteExpiry, FamilyOf
  <2> QED
    BY <2>1, <2>2, <1>3
<1>7. RotatedIsSpent'
  BY <1>2, <1>4 DEF RotatedIsSpent
<1>8. \A t : Settled(t) => Settled(t)'
  BY <1>1, <1>3 DEF Settled
<1>9. Custody'
  <2>1. ASSUME NEW p \in Requests PROVE
          /\ req'[p].insert \subseteq Issued' \ stored'
          /\ req'[p].insert # {} => req'[p].stage = "answered"
          /\ req'[p].stage \in {"verified", "reverified"} => Settled(req[p].token)'
          /\ req'[p].stage = "login" => req'[p].user \in Users
          /\ \A m \in req'[p].insert :
                data'[m].parent \notin (stored' \ revoked') \ req'[p].revoke
    <3>1. CASE p = r
      BY <3>1, <1>1, <1>2, <1>3, <1>4
    <3>2. CASE p # r
      <4>1. /\ req[p].insert \subseteq Issued \ stored
            /\ req[p].insert # {} => req[p].stage = "answered"
            /\ req[p].stage \in {"verified", "reverified"} => Settled(req[p].token)
            /\ req[p].stage = "login" => req[p].user \in Users
            /\ \A m \in req[p].insert :
                  data[m].parent \notin (stored \ revoked) \ req[p].revoke
        BY DEF Custody
      <4> QED
        BY <3>2, <4>1, <1>1, <1>2, <1>3, <1>4, <1>8
    <3> QED
      BY <3>1, <3>2
  <2>2. \A r1, r2 \in Requests :
          r1 # r2 => req'[r1].insert \cap req'[r2].insert = {}
    BY <1>1 DEF Custody
  <2>3. \A t \in Issued' : data'[t].parent = None \/ Settled(data[t].parent)'
    BY <1>2, <1>3, <1>4, <1>8 DEF Custody
  <2> QED
    BY <2>1, <2>2, <2>3 DEF Custody
<1> QED
  BY <1>5, <1>6, <1>7, <1>9

\* The commit of a request: the writes it collected reach the table.
LEMMA CommitStep ==
  ASSUME IInv, NEW r \in Requests, Commit(r)
  PROVE  IInv'
<1> USE DEF IInv
<1>1. Idle \in Request /\ Idle.insert = {} /\ Idle.stage = "idle"
  BY DEF Idle, Request, Stage
<1>2. /\ req'[r] = Idle
      /\ \A p \in Requests : p # r => req'[p] = req[p]
      /\ req' \in [Requests -> Request]
      /\ Issued' = Issued
  BY <1>1 DEF TypeOK, Commit, Issued
<1>3. /\ stored' = stored \cup req[r].insert
      /\ revoked' = revoked \cup req[r].revoke
      /\ req[r].revoke \subseteq stored
      /\ req[r].insert \subseteq Issued \ stored
      /\ revoked \subseteq stored
      /\ data' = data /\ now' = now /\ active' = active
      /\ req[r] \in Request
  BY DEF Commit, Custody, TypeOK
<1>4. TypeOK'
  BY <1>2, <1>3 DEF TypeOK, Commit, Request
<1>5. AbsoluteExpiry'
  BY <1>2, <1>3 DEF AbsoluteExpiry, FamilyOf
<1>6. RotatedIsSpent'
  <2> SUFFICES ASSUME NEW t \in stored'
               PROVE  data[t].parent \notin stored' \ revoked'
    BY <1>3 DEF RotatedIsSpent
  <2>1. data[t].parent \notin req[r].insert
    <3>1. t \in Issued
      BY <1>3 DEF TypeOK
    <3>2. req[r].insert \subseteq Tokens
      BY <1>3 DEF Issued
    <3> QED
      BY <3>1, <3>2, TokensAssumption DEF Custody, Settled
  <2>2. CASE t \in stored
    BY <2>1, <2>2, <1>3 DEF RotatedIsSpent
  <2>3. CASE t \in req[r].insert
    BY <2>1, <2>3, <1>3 DEF Custody
  <2> QED
    BY <2>2, <2>3, <1>3
<1>7. \A t : Settled(t) => Settled(t)'
  BY <1>1, <1>2 DEF Settled
<1>8. Custody'
  <2>1. ASSUME NEW p \in Requests PROVE
          /\ req'[p].insert \subseteq Issued' \ stored'
          /\ req'[p].insert # {} => req'[p].stage = "answered"
          /\ req'[p].stage \in {"verified", "reverified"} => Settled(req[p].token)'
          /\ req'[p].stage = "login" => req'[p].user \in Users
          /\ \A m \in req'[p].insert :
                data'[m].parent \notin (stored' \ revoked') \ req'[p].revoke
    <3>1. CASE p = r
      BY <3>1, <1>1, <1>2
    <3>2. CASE p # r
      <4>1. /\ req'[p] = req[p]
            /\ req[p].insert \subseteq Issued \ stored
            /\ req[p].insert # {} => req[p].stage = "answered"
            /\ req[p].stage \in {"verified", "reverified"} => Settled(req[p].token)
            /\ req[p].stage = "login" => req[p].user \in Users
            /\ \A m \in req[p].insert :
                  data[m].parent \notin (stored \ revoked) \ req[p].revoke
        BY <3>2, <1>2 DEF Custody
      <4>2. req[p].insert \cap req[r].insert = {}
        BY <3>2 DEF Custody
      <4>3. ASSUME NEW m \in req[p].insert
            PROVE  data[m].parent \notin req[r].insert
        <5>1. m \in Issued /\ req[r].insert \subseteq Tokens
          BY <4>1, <1>3 DEF Issued
        <5> QED
          BY <5>1, TokensAssumption DEF Custody, Settled
      <4> QED
        BY <4>1, <4>2, <4>3, <1>2, <1>3, <1>7
    <3> QED
      BY <3>1, <3>2
  <2>2. \A r1, r2 \in Requests :
          r1 # r2 => req'[r1].insert \cap req'[r2].insert = {}
    BY <1>1, <1>2 DEF Custody
  <2>3. \A t \in Issued' : data'[t].parent = None \/ Settled(data[t].parent)'
    BY <1>2, <1>3, <1>7 DEF Custody
  <2> QED
    BY <2>1, <2>2, <2>3 DEF Custody
<1> QED
  BY <1>4, <1>5, <1>6, <1>8

\* The clean-up, the clock and the administrator leave requests and data
\* alone; rows may go, with their revocation.
LEMMA TableStep ==
  ASSUME IInv,
         \E S \in SUBSET Tokens :
            stored' = stored \ S /\ revoked' = revoked \ S,
         now' \in Nat, active' \in [Users -> BOOLEAN],
         UNCHANGED <<data, ended, req>>
  PROVE  IInv'
<1> USE DEF IInv
<1>1. PICK S \in SUBSET Tokens : stored' = stored \ S /\ revoked' = revoked \ S
  OBVIOUS
<1>2. Issued' = Issued
  BY DEF Issued
<1>3. TypeOK'
  BY <1>1, <1>2 DEF TypeOK
<1>4. AbsoluteExpiry' /\ RotatedIsSpent'
  BY <1>1, <1>2 DEF AbsoluteExpiry, RotatedIsSpent, FamilyOf
<1>5. \A t : Settled(t) => Settled(t)'
  BY <1>2 DEF Settled
<1>6. Custody'
  BY <1>1, <1>2, <1>5 DEF Custody
<1> QED
  BY <1>3, <1>4, <1>6

\* A rotation hands IssueStep everything it asks for.
LEMMA RotateStep ==
  ASSUME IInv, NEW r \in Requests, RefreshRotate(r)
  PROVE  IInv'
<1> DEFINE p == req[r].token
<1>1. PICK n \in Tokens \ Issued :
        /\ data' = [data EXCEPT ![n] = RotatedFrom(p)]
        /\ req' = [req EXCEPT ![r] =
                        [@ EXCEPT !.stage = "answered", !.insert = {n},
                                  !.revoke = ToRevoke(p)]]
  BY DEF RefreshRotate
<1> DEFINE q == [req[r] EXCEPT !.stage = "answered", !.insert = {n},
                               !.revoke = ToRevoke(p)]
           d == RotatedFrom(p)
<1>2. req[r] \in Request /\ req[r].stage = "reverified"
  BY DEF RefreshRotate, IInv, TypeOK
<1>3. Settled(p) /\ p \in Issued /\ p \in Tokens /\ req[r].insert = {}
  BY <1>2 DEF IInv, Custody, Settled, Issued
<1>4. data[p] \in TokenData
  BY <1>3 DEF IInv, TypeOK, Issued
<1>5. /\ FamilyOf(p) \in Issued /\ FamilyOf(FamilyOf(p)) = FamilyOf(p)
      /\ data[p].expires = data[FamilyOf(p)].expires
      /\ data[p].user = data[FamilyOf(p)].user
  BY <1>3 DEF IInv, AbsoluteExpiry
<1>6. d \in TokenData
  BY <1>3, <1>4 DEF RotatedFrom, TokenData, FamilyOf
<1>7. /\ d.parent = p /\ d.family \in Issued
      /\ FamilyOf(d.family) = d.family
      /\ d.expires = data[d.family].expires
      /\ d.user = data[d.family].user
  BY <1>5 DEF RotatedFrom
<1>8. q \in Request
  BY <1>2, <1>3 DEF Request, Stage, ToRevoke
<1>9. q.insert = {n} /\ q.stage = "answered" /\ q.revoke = {p} \cap stored
  BY <1>2 DEF Request, ToRevoke
<1>10. req' = [req EXCEPT ![r] = q] /\ data' = [data EXCEPT ![n] = d]
  BY <1>1
<1>11. UNCHANGED <<now, active, stored, revoked, ended>>
  BY DEF RefreshRotate
<1>12. d.parent \notin (stored \ revoked) \ q.revoke
  BY <1>7, <1>9
<1> HIDE DEF p, q, d
<1> QED
  BY <1>3, <1>6, <1>7, <1>8, <1>9, <1>10, <1>11, <1>12, IssueStep

\* And so does a login.
LEMMA LoginStep ==
  ASSUME IInv, NEW r \in Requests, LoginCreate(r)
  PROVE  IInv'
<1>1. PICK n \in Tokens \ Issued :
        /\ data' = [data EXCEPT ![n] = NewSession(req[r].user, n)]
        /\ req' = [req EXCEPT ![r] =
                        [@ EXCEPT !.stage = "answered", !.insert = {n}]]
  BY DEF LoginCreate
<1> DEFINE q == [req[r] EXCEPT !.stage = "answered", !.insert = {n}]
           d == NewSession(req[r].user, n)
<1>2. req[r] \in Request /\ req[r].stage = "login"
  BY DEF LoginCreate, IInv, TypeOK
<1>3. req[r].insert = {} /\ req[r].user \in Users
  BY <1>2 DEF IInv, Custody
<1>4. now + Lifetime \in Nat
  BY TokensAssumption DEF IInv, TypeOK
<1>5. d \in TokenData
  BY <1>3, <1>4 DEF NewSession, TokenData
<1>6. d.parent = None /\ d.family = n
  BY DEF NewSession
<1>7. q \in Request /\ q.insert = {n} /\ q.stage = "answered"
  BY <1>2 DEF Request, Stage
<1>8. d.parent \notin stored
  BY <1>6, TokensAssumption DEF IInv, TypeOK, Issued
<1>9. UNCHANGED <<now, active, stored, revoked, ended>>
  BY DEF LoginCreate
<1>10. req' = [req EXCEPT ![r] = q] /\ data' = [data EXCEPT ![n] = d]
  BY <1>1
<1> HIDE DEF q, d
<1> QED
  BY <1>3, <1>5, <1>6, <1>7, <1>8, <1>9, <1>10, IssueStep

\* The steps by which a request begins, reads again, fails or dies change only
\* its own local state.
LEMMA ReadStep ==
  ASSUME IInv, NEW r \in Requests,
         \/ Begin(r)
         \/ RefreshReverify(r)
         \/ RefreshReverifyFails(r)
         \/ Abort(r)
  PROVE  IInv'
<1> USE TokensAssumption
<1>1. /\ Idle \in Request /\ Idle.insert = {} /\ Idle.stage = "idle"
      /\ req[r] \in Request /\ stored \subseteq Issued /\ Issued \subseteq Tokens
  BY DEF Idle, Request, Stage, IInv, TypeOK, Issued
<1>2. ASSUME NEW u \in Users, LoginRead(r, u) PROVE IInv'
  <2> DEFINE q == [Idle EXCEPT !.stage = "login", !.user = u]
  <2>1. /\ q \in Request /\ q.insert = {} /\ q.user \in Users
        /\ q.stage = "login"
    BY <1>1 DEF Idle, Request, Stage
  <2>2. req' = [req EXCEPT ![r] = q]
        /\ UNCHANGED <<now, active, data, stored, revoked, ended>>
    BY <1>2 DEF LoginRead
  <2> HIDE DEF q
  <2> QED
    BY <2>1, <2>2, LocalStep
<1>3. ASSUME NEW u \in Users, ExpireSessions(r, u) PROVE IInv'
  <2> DEFINE q == [Idle EXCEPT !.stage = "answered", !.user = u,
                     !.revoke = RowsOf(u) \ revoked,
                     !.ends = {FamilyOf(t) : t \in RowsOf(u)}]
  <2>1. RowsOf(u) \subseteq Tokens /\ {FamilyOf(t) : t \in RowsOf(u)} \subseteq Tokens
    BY <1>1 DEF RowsOf, FamilyOf, IInv, TypeOK, TokenData, Issued
  <2>2. q \in Request /\ q.insert = {} /\ q.stage = "answered"
    BY <1>1, <2>1 DEF Idle, Request, Stage
  <2>3. req' = [req EXCEPT ![r] = q]
        /\ UNCHANGED <<now, active, data, stored, revoked, ended>>
    BY <1>3 DEF ExpireSessions
  <2> HIDE DEF q
  <2> QED
    BY <2>2, <2>3, LocalStep
<1>4. ASSUME NEW t \in Tokens, RefreshVerify(r, t) PROVE IInv'
  <2> DEFINE q == [Idle EXCEPT !.stage = "verified", !.token = t]
  <2>1. Settled(t)
    BY <1>1, <1>4 DEF RefreshVerify, Usable, Settled, IInv, Custody
  <2>2. /\ q \in Request /\ q.insert = {} /\ q.token = t
        /\ q.stage = "verified"
    BY <1>1 DEF Idle, Request, Stage
  <2>3. req' = [req EXCEPT ![r] = q]
        /\ UNCHANGED <<now, active, data, stored, revoked, ended>>
    BY <1>4 DEF RefreshVerify
  <2> HIDE DEF q
  <2> QED
    BY <2>1, <2>2, <2>3, LocalStep
<1>5. ASSUME NEW u \in Users, NEW t \in Tokens, Logout(r, u, t) PROVE IInv'
  <2> DEFINE q == [Idle EXCEPT !.stage = "answered", !.user = u,
                     !.revoke = {t}, !.ends = {FamilyOf(t)}]
  <2>1. FamilyOf(t) \in Tokens
    BY <1>1, <1>5 DEF Logout, RowsOf, FamilyOf, IInv, TypeOK, TokenData, Issued
  <2>2. q \in Request /\ q.insert = {} /\ q.stage = "answered"
    BY <1>1, <2>1 DEF Idle, Request, Stage
  <2>3. req' = [req EXCEPT ![r] = q]
        /\ UNCHANGED <<now, active, data, stored, revoked, ended>>
    BY <1>5 DEF Logout
  <2> HIDE DEF q
  <2> QED
    BY <2>2, <2>3, LocalStep
<1>6. ASSUME RefreshReverify(r) PROVE IInv'
  <2> DEFINE q == [req[r] EXCEPT !.stage = "reverified"]
  <2>1. req[r].insert = {} /\ Settled(req[r].token)
    BY <1>6 DEF RefreshReverify, IInv, Custody
  <2>2. /\ q \in Request /\ q.insert = {} /\ q.token = req[r].token
        /\ q.stage = "reverified"
    BY <1>1, <2>1 DEF Request, Stage
  <2>3. req' = [req EXCEPT ![r] = q]
        /\ UNCHANGED <<now, active, data, stored, revoked, ended>>
    BY <1>6 DEF RefreshReverify
  <2> HIDE DEF q
  <2> QED
    BY <2>1, <2>2, <2>3, LocalStep
<1>7. ASSUME RefreshReverifyFails(r) \/ Abort(r) PROVE IInv'
  BY <1>1, <1>7, LocalStep DEF RefreshReverifyFails, Abort
<1> QED
  BY <1>2, <1>3, <1>4, <1>5, <1>6, <1>7 DEF Begin

\* Every step of the system preserves the invariant.
LEMMA NextInv == IInv /\ [Next]_vars => IInv'
<1> SUFFICES ASSUME IInv, [Next]_vars PROVE IInv'
  OBVIOUS
<1>1. ASSUME NEW r \in Requests, Begin(r) \/ Proceed(r) \/ Abort(r)
      PROVE  IInv'
  BY <1>1, ReadStep, LoginStep, RotateStep, CommitStep DEF Proceed
<1>2. ASSUME NEW u \in Users, NEW b \in BOOLEAN, SetActive(u, b) PROVE IInv'
  <2>1. stored' = stored \ {} /\ revoked' = revoked \ {} /\ now' \in Nat
    BY <1>2 DEF SetActive, IInv, TypeOK
  <2>2. active' \in [Users -> BOOLEAN] /\ UNCHANGED <<data, ended, req>>
    BY <1>2 DEF SetActive, IInv, TypeOK
  <2> QED
    BY <2>1, <2>2, TableStep
<1>3. ASSUME CleanupExpired PROVE IInv'
  <2> DEFINE old == {t \in stored : Expired(t)}
  <2>1. old \in SUBSET Tokens
    BY DEF IInv, TypeOK, Issued
  <2>2. stored' = stored \ old /\ revoked' = revoked \ old
    BY <1>3 DEF CleanupExpired
  <2>3. /\ now' \in Nat /\ active' \in [Users -> BOOLEAN]
        /\ UNCHANGED <<data, ended, req>>
    BY <1>3 DEF CleanupExpired, IInv, TypeOK
  <2> HIDE DEF old
  <2> QED
    BY <2>1, <2>2, <2>3, TableStep
<1>4. ASSUME Tick PROVE IInv'
  <2>1. stored' = stored \ {} /\ revoked' = revoked \ {} /\ now' \in Nat
    BY <1>4 DEF Tick, IInv, TypeOK
  <2>2. active' \in [Users -> BOOLEAN] /\ UNCHANGED <<data, ended, req>>
    BY <1>4 DEF Tick, IInv, TypeOK
  <2> QED
    BY <2>1, <2>2, TableStep
<1>5. CASE UNCHANGED vars
  <2>1. stored' = stored \ {} /\ revoked' = revoked \ {} /\ now' \in Nat
    BY <1>5 DEF vars, IInv, TypeOK
  <2>2. active' \in [Users -> BOOLEAN] /\ UNCHANGED <<data, ended, req>>
    BY <1>5 DEF vars, IInv, TypeOK
  <2> QED
    BY <2>1, <2>2, TableStep
<1> QED
  BY <1>1, <1>2, <1>3, <1>4, <1>5 DEF Next

LEMMA Invariance == Spec => []IInv
  BY InitInv, NextInv, PTL DEF Spec

\* The state of the token service is always well typed.
THEOREM TypeCorrect == Spec => []TypeOK
  BY Invariance, PTL DEF IInv

\* A rotated token keeps the owner and the absolute expiry of its login.
THEOREM RotationKeepsExpiry == Spec => []AbsoluteExpiry
  BY Invariance, PTL DEF IInv

\* A token that was rotated into a stored row is never usable again, whatever
\* the interleaving.
THEOREM RotationSpends == Spec => []RotatedIsSpent
  BY Invariance, PTL DEF IInv

\* Each row has one request that may insert it.
THEOREM OneInserter == Spec => []Custody
  BY Invariance, PTL DEF IInv

-----------------------------------------------------------------------------
(***************************************************************************)
(* What a step may do to a token that is issued already. The four facts    *)
(* serve both SpentForever and the refinement.                             *)
(***************************************************************************)
\* Issued tokens keep their data, time does not run back, a row becomes live
\* only by the commit of the request that holds it, and no request takes hold
\* of a token that was issued before.
LEMMA IssuedTokens ==
  ASSUME IInv, [Next]_vars
  PROVE  /\ \A t \in Issued : t \in Issued' /\ data'[t] = data[t]
         /\ now \in Nat /\ now' \in Nat /\ now <= now'
         /\ \A t \in Issued :
               t \in stored' \ revoked' => t \in stored \ revoked \/ Pending(t)
         /\ \A t \in Issued : Pending(t)' => Pending(t)
<1> DEFINE Goal ==
      /\ \A t \in Issued : t \in Issued' /\ data'[t] = data[t]
      /\ now \in Nat /\ now' \in Nat /\ now <= now'
      /\ \A t \in Issued :
            t \in stored' \ revoked' => t \in stored \ revoked \/ Pending(t)
      /\ \A t \in Issued : Pending(t)' => Pending(t)
<1> USE TokensAssumption
<1>1. /\ now \in Nat /\ Idle.insert = {}
      /\ req \in [Requests -> Request] /\ Issued \subseteq Tokens
      /\ data \in [Tokens -> TokenData \cup {None}]
  BY DEF IInv, TypeOK, Idle, Issued
<1>2. ASSUME NEW r \in Requests, NEW q,
             q.insert = {} \/ q.insert = req[r].insert,
             req' = [req EXCEPT ![r] = q],
             UNCHANGED <<now, data, stored, revoked>>
      PROVE  Goal
  BY <1>1, <1>2 DEF Issued, Pending
<1>3. ASSUME NEW r \in Requests, Begin(r) PROVE Goal
  <2>1. PICK q : req' = [req EXCEPT ![r] = q] /\ q.insert = {}
    BY <1>1, <1>3, ZenonT(60)
    DEF Begin, LoginRead, ExpireSessions, RefreshVerify, Logout, Idle
  <2>2. UNCHANGED <<now, data, stored, revoked>>
    BY <1>3 DEF Begin, LoginRead, ExpireSessions, RefreshVerify, Logout
  <2> QED
    BY <1>2, <2>1, <2>2
<1>4. ASSUME NEW r \in Requests, RefreshReverify(r) PROVE Goal
  <2> DEFINE q == [req[r] EXCEPT !.stage = "reverified"]
  <2>1. q.insert = req[r].insert
    BY <1>1 DEF Request
  <2>2. req' = [req EXCEPT ![r] = q] /\ UNCHANGED <<now, data, stored, revoked>>
    BY <1>4 DEF RefreshReverify
  <2> HIDE DEF q
  <2> QED
    BY <1>2, <2>1, <2>2
<1>5. ASSUME NEW r \in Requests, RefreshReverifyFails(r) \/ Abort(r) PROVE Goal
  BY <1>1, <1>2, <1>5 DEF RefreshReverifyFails, Abort
<1>6. ASSUME NEW r \in Requests, LoginCreate(r) \/ RefreshRotate(r) PROVE Goal
  <2> DEFINE Issues == \E n \in Tokens \ Issued : \E d, q :
                /\ d # None /\ data' = [data EXCEPT ![n] = d]
                /\ req' = [req EXCEPT ![r] = q] /\ q.insert = {n}
  <2>0. Issues
    <3>1. ASSUME LoginCreate(r) PROVE Issues
      <4>1. PICK n \in Tokens \ Issued :
              /\ data' = [data EXCEPT ![n] = NewSession(req[r].user, n)]
              /\ req' = [req EXCEPT ![r] =
                            [@ EXCEPT !.stage = "answered", !.insert = {n}]]
        BY <3>1 DEF LoginCreate
      <4>2. [req[r] EXCEPT !.stage = "answered", !.insert = {n}].insert = {n}
        BY <1>1 DEF Request
      <4>3. NewSession(req[r].user, n) # None
        <5>1. req[r].user \in Users /\ now + Lifetime \in Nat
          BY <3>1, <1>1 DEF LoginCreate, IInv, Custody
        <5> QED
          BY <5>1 DEF NewSession, TokenData
      <4> QED
        BY <4>1, <4>2, <4>3
    <3>2. ASSUME RefreshRotate(r) PROVE Issues
      <4>1. PICK n \in Tokens \ Issued :
              /\ data' = [data EXCEPT ![n] = RotatedFrom(req[r].token)]
              /\ req' = [req EXCEPT ![r] =
                            [@ EXCEPT !.stage = "answered", !.insert = {n},
                                      !.revoke = ToRevoke(req[r].token)]]
        BY <3>2 DEF RefreshRotate
      <4>2. [req[r] EXCEPT !.stage = "answered", !.insert = {n},
                           !.revoke = ToRevoke(req[r].token)].insert = {n}
        BY <1>1 DEF Request
      <4>3. RotatedFrom(req[r].token) # None
        <5>1. req[r].token \in Issued
          BY <3>2 DEF RefreshRotate, IInv, Custody, Settled
        <5>2. data[req[r].token] \in TokenData /\ req[r].token \in Tokens
          BY <5>1, <1>1 DEF Issued
        <5> QED
          BY <5>2 DEF RotatedFrom, TokenData, FamilyOf
      <4> QED
        BY <4>1, <4>2, <4>3
    <3> QED
      BY <1>6, <3>1, <3>2
  <2>11. PICK n \in Tokens \ Issued : \E d, q :
          /\ d # None /\ data' = [data EXCEPT ![n] = d]
          /\ req' = [req EXCEPT ![r] = q] /\ q.insert = {n}
    BY <2>0
  <2>1. PICK d, q :
          /\ d # None /\ data' = [data EXCEPT ![n] = d]
          /\ req' = [req EXCEPT ![r] = q] /\ q.insert = {n}
    BY <2>11
  <2>2. UNCHANGED <<now, stored, revoked>>
    BY <1>6 DEF LoginCreate, RefreshRotate
  <2>3. \A t \in Issued : t \in Issued' /\ data'[t] = data[t]
    BY <1>1, <2>1 DEF Issued
  <2>4. \A t \in Issued : Pending(t)' => Pending(t)
    BY <1>1, <2>1 DEF Pending
  <2> QED
    BY <1>1, <2>2, <2>3, <2>4
<1>7. ASSUME NEW r \in Requests, Commit(r) PROVE Goal
  BY <1>1, <1>7 DEF Commit, Issued, Pending, IInv, TypeOK
<1>8. ASSUME (\E u \in Users, b \in BOOLEAN : SetActive(u, b)) \/ Tick \/ UNCHANGED vars
      PROVE  Goal
  BY <1>1, <1>8 DEF SetActive, Tick, vars, Issued, Pending
<1>9. ASSUME CleanupExpired PROVE Goal
  BY <1>1, <1>9 DEF CleanupExpired, Issued, Pending, IInv, TypeOK
<1> QED
  BY <1>3, <1>4, <1>5, <1>6, <1>7, <1>8, <1>9 DEF Next, Proceed

\* A token out of use stays out of use: no commit, of whatever request that
\* read earlier, makes it usable again.
THEOREM SpentTokensStaySpent == Spec => SpentForever
<1>1. ASSUME IInv, [Next]_vars, NEW t \in Tokens, OutOfUse(t)
      PROVE  OutOfUse(t)'
  <2>1. t \in Issued /\ ~Usable(t) /\ ~Pending(t)
    BY <1>1 DEF OutOfUse
  <2>2. t \in Issued' /\ data'[t] = data[t] /\ ~Pending(t)'
    BY <1>1, <2>1, IssuedTokens
  <2>3. t \in stored' \ revoked' => t \in stored \ revoked
    BY <1>1, <2>1, IssuedTokens
  <2>4. data[t].expires \in Nat
    BY <1>1, <2>1 DEF IInv, TypeOK, Issued, TokenData
  <2>5. now \in Nat /\ now' \in Nat /\ now <= now'
    BY <1>1, IssuedTokens
  <2>6. Expired(t) => Expired(t)'
    BY <2>2, <2>4, <2>5 DEF Expired
  <2>7. ~Usable(t)'
    BY <2>1, <2>2, <2>3, <2>6 DEF Usable
  <2> QED
    BY <2>2, <2>7 DEF OutOfUse
<1>2. IInv /\ [Next]_vars =>
        [\A t \in Tokens : OutOfUse(t) => OutOfUse(t)']_vars
  BY <1>1
<1> QED
  BY <1>2, Invariance, PTL DEF Spec, SpentForever

-----------------------------------------------------------------------------
(***************************************************************************)
(* What goes wrong between requests goes wrong only where two of them      *)
(* overlap on one session. RotatesAlone: no two refreshes in progress were *)
(* given the same token. EndsAlone: none is in progress in a session that  *)
(* a logout or an expiry in progress is about. Requests may overlap in     *)
(* every other way. (While a request is a refresh, its "token" is one.)    *)
(***************************************************************************)
RotatesAlone == \A r, s \in Requests :
    req[r].token = req[s].token /\ req[r].token # None => r = s

EndsAlone == \A r, s \in Requests :
    req[s].token # None => FamilyOf(req[s].token) \notin req[r].ends

Held(t) == \E r \in Requests : req[r].token = t
Head(t) == Usable(t) \/ Held(t)

\* A session has at most one token that is usable or being rotated.
Single == \A t1, t2 \in Issued :
    Head(t1) /\ Head(t2) /\ FamilyOf(t1) = FamilyOf(t2) => t1 = t2

\* A request inserts the row of the session it opened, which has no other
\* token yet, or that of the successor of the token it holds.
Descends(r, n) ==
    IF req[r].token = None
    THEN FamilyOf(n) = n /\ \A t \in Issued : FamilyOf(t) = n => t = n
    ELSE data[n].parent = req[r].token /\ FamilyOf(n) = FamilyOf(req[r].token)

Lineage == \A r \in Requests :
    /\ req[r].token # None => req[r].token \in Issued
    /\ req[r].stage = "login" => req[r].token = None /\ req[r].ends = {}
    /\ req[r].token # None \/ req[r].insert # {} => req[r].ends = {}
    /\ \A n \in req[r].insert : Descends(r, n)
    /\ \A m, n \in req[r].insert : m = n

\* The steps, by what they do to the requests and to the tokens: the table
\* loses rows or nothing happens; a request reads; it makes a token; or it
\* commits.
OthersStay(r) == \A p \in Requests : p # r => req'[p] = req[p]

Rests ==
    /\ UNCHANGED <<data, ended, req>>
    /\ stored' \ revoked' \subseteq stored \ revoked

Loads(r) ==
    \/ \E t \in stored \ revoked :
          req'[r].revoke = {t} /\ req'[r].ends = {FamilyOf(t)}
    \/ \E u \in Users : /\ req'[r].revoke = RowsOf(u) \ revoked
                        /\ req'[r].ends = {FamilyOf(t) : t \in RowsOf(u)}

Reads(r) ==
    /\ UNCHANGED <<now, data, stored, revoked, ended>>
    /\ OthersStay(r)
    /\ req'[r].insert = {}
    /\ req'[r].stage = "login" => req'[r].token = None /\ req'[r].ends = {}
    /\ \/ req'[r].token = None /\ (req'[r].ends = {} \/ Loads(r))
       \/ req'[r].token \in Issued /\ Usable(req'[r].token) /\ req'[r].ends = {}
       \/ req'[r].token = req[r].token /\ req'[r].ends = {}

Makes(r, n) ==
    /\ Issued' = Issued \cup {n}
    /\ \A t \in Issued : data'[t] = data[t]
    /\ req'[r].insert = {n}
    /\ IF req[r].token = None THEN data'[n].family = n
       ELSE /\ data'[n].parent = req[r].token
            /\ data'[n].family = FamilyOf(req[r].token)

Issues(r) ==
    /\ UNCHANGED <<now, stored, revoked, ended>>
    /\ OthersStay(r)
    /\ req'[r].token = req[r].token /\ req'[r].ends = {}
    /\ req'[r].stage = "answered"
    /\ req[r].token = None \/ Settled(req[r].token)
    /\ \E n \in Tokens \ Issued : Makes(r, n)

LEMMA ReadsStep ==
  ASSUME IInv, Lineage, NEW r \in Requests,
         \/ Begin(r)
         \/ RefreshReverify(r)
         \/ RefreshReverifyFails(r)
         \/ Abort(r)
  PROVE  Reads(r)
<1> USE TokensAssumption
<1>1. /\ req \in [Requests -> Request] /\ req[r] \in Request
      /\ stored \subseteq Issued /\ Issued \subseteq Tokens
  BY DEF IInv, TypeOK, Issued
<1>2. ASSUME NEW u \in Users, LoginRead(r, u) PROVE Reads(r)
  BY <1>1, <1>2 DEF LoginRead, Idle, Reads, OthersStay
<1>3. ASSUME NEW u \in Users, ExpireSessions(r, u) PROVE Reads(r)
  BY <1>1, <1>3 DEF ExpireSessions, Idle, Reads, OthersStay, Loads
<1>4. ASSUME NEW t \in Tokens, RefreshVerify(r, t) PROVE Reads(r)
  <2>1. t \in Issued /\ Usable(t)
    BY <1>1, <1>4 DEF RefreshVerify, Usable
  <2> QED
    BY <1>1, <1>4, <2>1 DEF RefreshVerify, Idle, Reads, OthersStay
<1>5. ASSUME NEW u \in Users, NEW t \in Tokens, Logout(r, u, t) PROVE Reads(r)
  <2>1. t \in stored \ revoked
    BY <1>5 DEF Logout, RowsOf
  <2> QED
    BY <1>1, <1>5, <2>1 DEF Logout, Idle, Reads, OthersStay, Loads
<1>6. ASSUME RefreshReverify(r) PROVE Reads(r)
  <2>1. /\ req[r].insert = {} /\ req[r].token # None /\ req[r].ends = {}
    BY <1>1, <1>6 DEF RefreshReverify, IInv, Custody, Settled, Lineage
  <2> QED
    BY <1>1, <1>6, <2>1 DEF RefreshReverify, Request, Reads, OthersStay
<1>7. ASSUME RefreshReverifyFails(r) \/ Abort(r) PROVE Reads(r)
  BY <1>1, <1>7 DEF RefreshReverifyFails, Abort, Idle, Reads, OthersStay
<1> QED
  BY <1>2, <1>3, <1>4, <1>5, <1>6, <1>7 DEF Begin

LEMMA IssuesStep ==
  ASSUME IInv, Lineage, NEW r \in Requests, LoginCreate(r) \/ RefreshRotate(r)
  PROVE  Issues(r)
<1>1. /\ req \in [Requests -> Request] /\ req[r] \in Request
      /\ data \in [Tokens -> TokenData \cup {None}]
  BY DEF IInv, TypeOK
<1>2. ASSUME LoginCreate(r) PROVE Issues(r)
  <2>1. PICK n \in Tokens \ Issued :
          /\ data' = [data EXCEPT ![n] = NewSession(req[r].user, n)]
          /\ req' = [req EXCEPT ![r] =
                        [@ EXCEPT !.stage = "answered", !.insert = {n}]]
    BY <1>2 DEF LoginCreate
  <2>2. req[r].token = None /\ req[r].ends = {}
    BY <1>2 DEF LoginCreate, Lineage
  <2>3. data'[n] = NewSession(req[r].user, n) /\ data'[n] # None
    <3>0. req[r].stage = "login"
      BY <1>2 DEF LoginCreate
    <3>1. req[r].user \in Users /\ now + Lifetime \in Nat
      BY <3>0, TokensAssumption DEF IInv, Custody, TypeOK
    <3>2. NewSession(req[r].user, n) \in TokenData
      BY <3>1 DEF NewSession, TokenData
    <3> QED
      BY <1>1, <2>1, <3>2, TokensAssumption
  <2>4. /\ Issued' = Issued \cup {n}
        /\ \A t \in Issued : data'[t] = data[t]
    BY <1>1, <2>1, <2>3 DEF Issued
  <2>5. /\ req'[r].insert = {n} /\ req'[r].stage = "answered"
        /\ req'[r].token = req[r].token /\ req'[r].ends = req[r].ends
        /\ OthersStay(r)
    BY <1>1, <2>1 DEF Request, OthersStay
  <2>6. Makes(r, n)
    BY <2>2, <2>3, <2>4, <2>5 DEF Makes, NewSession
  <2>7. UNCHANGED <<now, stored, revoked, ended>>
    BY <1>2 DEF LoginCreate
  <2> QED
    BY <2>2, <2>5, <2>6, <2>7 DEF Issues
<1>3. ASSUME RefreshRotate(r) PROVE Issues(r)
  <2> DEFINE p == req[r].token
  <2>1. PICK n \in Tokens \ Issued :
          /\ data' = [data EXCEPT ![n] = RotatedFrom(p)]
          /\ req' = [req EXCEPT ![r] =
                        [@ EXCEPT !.stage = "answered", !.insert = {n},
                                  !.revoke = ToRevoke(p)]]
    BY <1>3 DEF RefreshRotate
  <2>0. req[r].stage = "reverified"
    BY <1>3 DEF RefreshRotate
  <2>2. /\ Settled(p) /\ p \in Issued /\ p \in Tokens /\ p # None
        /\ req[r].ends = {}
    BY <2>0, TokensAssumption DEF IInv, Custody, Settled, Issued, Lineage
  <2>3. data'[n] = RotatedFrom(p) /\ data'[n] # None
    <3>1. data[p] \in TokenData
      BY <1>1, <2>2 DEF Issued
    <3>2. RotatedFrom(p) \in TokenData
      BY <2>2, <3>1 DEF RotatedFrom, TokenData, FamilyOf
    <3> QED
      BY <1>1, <2>1, <3>2, TokensAssumption
  <2>4. /\ Issued' = Issued \cup {n}
        /\ \A t \in Issued : data'[t] = data[t]
    BY <1>1, <2>1, <2>3 DEF Issued
  <2>5. /\ req'[r].insert = {n} /\ req'[r].stage = "answered"
        /\ req'[r].token = p /\ req'[r].ends = req[r].ends
        /\ OthersStay(r)
    BY <1>1, <2>1 DEF Request, OthersStay
  <2>6. Makes(r, n)
    BY <2>2, <2>3, <2>4, <2>5 DEF Makes, RotatedFrom
  <2>7. UNCHANGED <<now, stored, revoked, ended>>
    BY <1>3 DEF RefreshRotate
  <2> QED
    BY <2>2, <2>5, <2>6, <2>7 DEF Issues
<1> QED
  BY <1>2, <1>3

LEMMA HowTokensMove ==
  ASSUME IInv, Lineage, [Next]_vars
  PROVE  Rests \/ \E r \in Requests : Reads(r) \/ Issues(r) \/ Commit(r)
<1>1. ASSUME NEW r \in Requests, Begin(r) \/ Proceed(r) \/ Abort(r)
      PROVE  Reads(r) \/ Issues(r) \/ Commit(r)
  BY <1>1, ReadsStep, IssuesStep DEF Proceed
<1>2. ASSUME \/ \E u \in Users, b \in BOOLEAN : SetActive(u, b)
             \/ Tick \/ CleanupExpired \/ UNCHANGED vars
      PROVE  Rests
  BY <1>2 DEF SetActive, Tick, CleanupExpired, vars, Rests
<1> QED
  BY <1>1, <1>2 DEF Next

\* Nobody else takes hold of a token; who verified it found it usable.
LEMMA HeldStep ==
  ASSUME IInv, Lineage, [Next]_vars, NEW t \in Issued', Held(t)'
  PROVE  t \in Issued /\ Head(t)
<1>1. PICK r \in Requests : req'[r].token = t
  BY DEF Held
<1>2. t # None
  BY TokensAssumption DEF Issued
<1>3. CASE req'[r].token = req[r].token
  BY <1>1, <1>2, <1>3 DEF Head, Held, Lineage
<1>4. CASE Usable(req'[r].token) /\ req'[r].token \in Issued
  BY <1>1, <1>4 DEF Head
<1>5. CASE Rests
  BY <1>3, <1>5 DEF Rests
<1>6. ASSUME NEW p \in Requests, Reads(p) \/ Issues(p) PROVE t \in Issued /\ Head(t)
  BY <1>1, <1>2, <1>3, <1>4, <1>6 DEF Reads, Issues, OthersStay
<1>7. ASSUME NEW p \in Requests, Commit(p) PROVE t \in Issued /\ Head(t)
  BY <1>1, <1>2, <1>3, <1>7 DEF Commit, Idle, IInv, TypeOK
<1> QED
  BY <1>5, <1>6, <1>7, HowTokensMove

\* A token that was issued becomes usable only as the new row of a commit.
LEMMA UsableStep ==
  ASSUME IInv, Lineage, [Next]_vars, NEW t \in Issued', Usable(t)'
  PROVE  /\ t \in Issued
         /\ \/ Usable(t)
            \/ \E r \in Requests : Commit(r) /\ t \in req[r].insert
<1>1. /\ stored \subseteq Issued /\ revoked \subseteq stored
      /\ t \in stored' \ revoked' /\ ~Expired(t)'
  BY DEF IInv, TypeOK, Usable
<1>2. ASSUME NEW r \in Requests, Commit(r)
      PROVE  t \in Issued /\ (t \in stored \ revoked \/ t \in req[r].insert)
  BY <1>1, <1>2 DEF Commit, Issued
<1>3. ASSUME Rests \/ \E r \in Requests : Reads(r) \/ Issues(r)
      PROVE  t \in stored \ revoked
  BY <1>1, <1>3 DEF Rests, Reads, Issues
<1>4. ASSUME t \in stored \ revoked PROVE t \in Issued /\ Usable(t)
  <2>1. t \in Issued /\ data'[t] = data[t]
    BY <1>1, <1>4, IssuedTokens
  <2>2. data[t].expires \in Nat
    BY <2>1 DEF IInv, TypeOK, Issued, TokenData
  <2>3. now \in Nat /\ now' \in Nat /\ now <= now'
    BY IssuedTokens
  <2> QED
    BY <1>1, <1>4, <2>1, <2>2, <2>3 DEF Usable, Expired
<1> QED
  BY <1>2, <1>3, <1>4, HowTokensMove

LEMMA LineageStep ==
  ASSUME IInv, Lineage, [Next]_vars
  PROVE  Lineage'
<1>1. \A t \in Issued : t \in Issued' /\ data'[t] = data[t]
  BY IssuedTokens
<1>2. ASSUME NEW r \in Requests PROVE req[r].insert \subseteq Issued \ stored
  BY DEF IInv, Custody
<1>3. ASSUME NEW r \in Requests, NEW n \in req[r].insert,
             Issued' = Issued, req'[r].token = req[r].token
      PROVE  Descends(r, n)'
  <2>1. Descends(r, n) /\ n \in Issued
    BY <1>2, <1>3 DEF Lineage
  <2>2. req[r].token # None => req[r].token \in Issued
    BY DEF Lineage
  <2> QED
    BY <1>1, <1>3, <2>1, <2>2 DEF Descends, FamilyOf
<1>4. CASE Rests
  <2>1. Issued' = Issued /\ req' = req
    BY <1>4 DEF Rests, Issued
  <2> QED
    BY <1>3, <2>1 DEF Lineage
<1>5. ASSUME NEW r \in Requests, Reads(r) PROVE Lineage'
  <2>1. Issued' = Issued
    BY <1>5 DEF Reads, Issued
  <2> QED
    BY <1>3, <1>5, <2>1 DEF Lineage, Reads, OthersStay
<1>6. ASSUME NEW r \in Requests, Commit(r) PROVE Lineage'
  <2>1. Issued' = Issued /\ OthersStay(r) /\ req'[r] = Idle
    BY <1>6 DEF Commit, Issued, OthersStay, IInv, TypeOK
  <2>2. /\ Idle.token = None /\ Idle.insert = {} /\ Idle.ends = {}
        /\ Idle.stage # "login"
    BY DEF Idle
  <2> QED
    BY <1>3, <2>1, <2>2 DEF Lineage, OthersStay
<1>7. ASSUME NEW r \in Requests, Issues(r) PROVE Lineage'
  <2>1. PICK n \in Tokens \ Issued : Makes(r, n)
    BY <1>7 DEF Issues
  <2>2. /\ Issued' = Issued \cup {n} /\ req'[r].insert = {n}
        /\ req'[r].token = req[r].token /\ req'[r].ends = {}
        /\ req'[r].stage = "answered"
        /\ OthersStay(r)
    BY <1>7, <2>1 DEF Makes, Issues
  <2>3. \A t \in Issued : FamilyOf(t) \in Issued
    BY DEF IInv, AbsoluteExpiry
  <2>4. req[r].token # None => req[r].token \in Issued
    BY DEF Lineage
  <2>5. Descends(r, n)'
    BY <1>1, <2>1, <2>2, <2>3, <2>4 DEF Makes, Descends, FamilyOf
  <2>6. ASSUME NEW p \in Requests, p # r, NEW m \in req[p].insert
        PROVE  Descends(p, m)'
    <3>1. /\ req'[p] = req[p] /\ m \in Issued /\ data'[m] = data[m]
          /\ Descends(p, m)
      BY <1>1, <1>2, <2>2, <2>6 DEF OthersStay, Lineage
    <3>2. CASE req[p].token # None
      <4>1. req[p].token \in Issued
        BY <3>2 DEF Lineage
      <4> QED
        BY <1>1, <3>1, <3>2, <4>1 DEF Descends, FamilyOf
    <3>3. CASE req[p].token = None
      <4>1. FamilyOf(m) = m /\ \A t \in Issued : FamilyOf(t) = m => t = m
        BY <3>1, <3>3 DEF Descends
      <4>2. data'[n].family # m
        <5>1. CASE req[r].token = None
          BY <2>1, <3>1, <5>1 DEF Makes
        <5>2. CASE req[r].token # None
          <6>1. Settled(req[r].token) /\ req[r].token \in Issued
            BY <1>7, <2>4, <5>2 DEF Issues
          <6>2. req[r].token # m
            BY <2>6, <6>1 DEF Settled
          <6> QED
            BY <2>1, <4>1, <5>2, <6>1, <6>2 DEF Makes
        <5> QED
          BY <5>1, <5>2
      <4> QED
        BY <1>1, <2>2, <3>1, <3>3, <4>1, <4>2 DEF Descends, FamilyOf
    <3> QED
      BY <3>2, <3>3
  <2> QED
    BY <2>2, <2>4, <2>5, <2>6 DEF Lineage, OthersStay
<1> QED
  BY <1>4, <1>5, <1>6, <1>7, HowTokensMove

\* The commit of a rotation replaces the one token of its session.
LEMMA CommitReplaces ==
  ASSUME IInv, Lineage, Single, RotatesAlone, [Next]_vars,
         NEW r \in Requests, Commit(r), NEW n \in req[r].insert,
         NEW t \in Issued, t # n, Head(t), FamilyOf(t) = FamilyOf(n)
  PROVE  ~Head(t)'
<1>0. PICK p : p = req[r].token
  OBVIOUS
<1>1. Descends(r, n) /\ n \in Issued \ stored
  BY DEF Lineage, IInv, Custody
<1>2. p # None
  BY <1>0, <1>1 DEF Descends
<1>3. p \in Issued /\ data[n].parent = p /\ FamilyOf(n) = FamilyOf(p)
  BY <1>0, <1>1, <1>2 DEF Descends, Lineage
<1>4. t = p
  <2>1. Head(p)
    BY <1>0 DEF Head, Held
  <2> QED
    BY <1>3, <2>1 DEF Single
<1>5. p \notin (stored \ revoked) \ req[r].revoke /\ p \notin req[r].insert
  <2>1. Settled(p)
    BY <1>1, <1>2, <1>3 DEF IInv, Custody
  <2> QED
    BY <1>3, <2>1 DEF IInv, Custody, Settled
<1>6. ~Usable(p)'
  BY <1>5 DEF Commit, Usable
<1>7. ~Held(p)'
  <2>1. /\ OthersStay(r) /\ req'[r].token = None
    BY DEF Commit, OthersStay, Idle, IInv, TypeOK
  <2> QED
    BY <1>0, <1>2, <2>1 DEF Held, OthersStay, RotatesAlone
<1> QED
  BY <1>4, <1>6, <1>7 DEF Head

LEMMA SingleStep ==
  ASSUME IInv, Lineage, Single, RotatesAlone, [Next]_vars
  PROVE  Single'
<1> SUFFICES ASSUME NEW t1 \in Issued', NEW t2 \in Issued',
                    Head(t1)', Head(t2)',
                    data'[t1].family = data'[t2].family
             PROVE  t1 = t2
  BY DEF Single, FamilyOf
<1> DEFINE Enters(t) == \E r \in Requests : Commit(r) /\ t \in req[r].insert
<1>1. ASSUME NEW t \in Issued', Head(t)'
      PROVE  t \in Issued /\ (Head(t) \/ Enters(t))
  BY <1>1, HeldStep, UsableStep DEF Head
<1>2. /\ t1 \in Issued /\ (Head(t1) \/ Enters(t1))
      /\ t2 \in Issued /\ (Head(t2) \/ Enters(t2))
  BY <1>1
<1>3. FamilyOf(t1) = FamilyOf(t2)
  BY <1>2, IssuedTokens DEF FamilyOf
<1>4. CASE Head(t1) /\ Head(t2)
  BY <1>2, <1>3, <1>4 DEF Single
<1>5. ASSUME Enters(t1), Head(t2) PROVE t1 = t2
  BY <1>2, <1>3, <1>5, CommitReplaces
<1>6. ASSUME Enters(t2), Head(t1) PROVE t1 = t2
  BY <1>2, <1>3, <1>6, CommitReplaces
<1>7. ASSUME Enters(t1), Enters(t2) PROVE t1 = t2
  <2>1. PICK r \in Requests : Commit(r) /\ t1 \in req[r].insert
    BY <1>7
  <2>2. PICK s \in Requests : Commit(s) /\ t2 \in req[s].insert
    BY <1>7
  <2>3. r = s
    <3>1. req'[r] = Idle /\ req'[s] = Idle /\ OthersStay(r) /\ Idle.insert = {}
      BY <2>1, <2>2 DEF Commit, OthersStay, Idle, IInv, TypeOK
    <3> QED
      BY <2>2, <3>1 DEF OthersStay
  <2> QED
    BY <2>1, <2>2, <2>3 DEF Lineage
<1> HIDE DEF Enters
<1> QED
  BY <1>2, <1>4, <1>5, <1>6, <1>7

LEMMA SingleInvariance == Spec /\ []RotatesAlone => [](Lineage /\ Single)
<1>1. ASSUME Init PROVE Lineage /\ Single
  BY <1>1 DEF Init, Issued, Lineage, Single, Idle
<1>2. /\ IInv /\ Lineage /\ Single /\ RotatesAlone /\ [Next]_vars
      => (Lineage /\ Single)'
  BY LineageStep, SingleStep
<1> QED
  BY <1>1, <1>2, Invariance, PTL DEF Spec

\* A session gets a second usable token only after two refreshes in progress
\* were given the same one: no other overlap of requests leads to it.
THEOREM ForkNeedsOverlap == Spec /\ []RotatesAlone => []OneUsablePerFamily
<1>1. Single => OneUsablePerFamily
  BY DEF Single, OneUsablePerFamily, Head
<1> QED
  BY <1>1, SingleInvariance, PTL

\* Session f is over but for the usable tokens in S: no request holds one of
\* its tokens or is about to insert one.
Shut(f, S) ==
    /\ f \in Issued
    /\ \A t \in Issued : FamilyOf(t) = f =>
          ~Held(t) /\ ~Pending(t) /\ (Usable(t) => t \in S)

Closes(r, f) == Shut(f, req[r].revoke)

\* What a logout or an expiry loaded is all there is of the sessions it ends.
Ending ==
    /\ \A f \in ended : Shut(f, {})
    /\ \A r \in Requests : \A f \in req[r].ends : Closes(r, f)

\* A session stays shut while nobody verifies one of its tokens.
LEMMA ShutStep ==
  ASSUME IInv, Lineage, [Next]_vars, NEW f, NEW S, Shut(f, S),
         \A t \in Issued : FamilyOf(t) = f => ~Held(t)'
  PROVE  Shut(f, S)'
<1>1. f \in Issued /\ f \in Issued'
  BY IssuedTokens DEF Shut
<1> SUFFICES ASSUME NEW t \in Issued', data'[t].family = f
             PROVE  ~Held(t)' /\ ~Pending(t)' /\ (Usable(t)' => t \in S)
  BY <1>1 DEF Shut, FamilyOf
<1>2. CASE t \in Issued
  <2>1. Pending(t)' => Pending(t)
    BY <1>2, IssuedTokens
  <2>2. FamilyOf(t) = f
    BY <1>2, IssuedTokens DEF FamilyOf
  <2>3. ~Held(t)' /\ ~Pending(t)'
    BY <1>2, <2>1, <2>2 DEF Shut
  <2>4. ASSUME Usable(t)' PROVE t \in S
    BY <1>2, <2>2, <2>4, UsableStep DEF Shut, Pending
  <2> QED
    BY <2>3, <2>4
<1>3. CASE t \notin Issued
  <2>1. PICK r \in Requests : Issues(r)
    BY <1>3, HowTokensMove DEF Rests, Reads, Commit, Issued
  <2>2. PICK n \in Tokens \ Issued : Makes(r, n)
    BY <2>1 DEF Issues
  <2>3. t = n
    BY <1>3, <2>2 DEF Makes
  <2>4. CASE req[r].token = None
    BY <1>1, <2>2, <2>3, <2>4 DEF Makes
  <2>5. CASE req[r].token # None
    <3>1. req[r].token \in Issued /\ FamilyOf(req[r].token) = f
      BY <2>2, <2>3, <2>5 DEF Makes, Lineage
    <3> QED
      BY <3>1 DEF Shut, Held
  <2> QED
    BY <2>4, <2>5
<1> QED
  BY <1>2, <1>3

\* A logout or an expiry that starts while no refresh of the session is in
\* progress loads its one usable token, if it has one.
LEMMA LoadStep ==
  ASSUME IInv, Lineage, Single, EndsAlone', NEW r \in Requests, Reads(r),
         req'[r].ends # {}, NEW f \in req'[r].ends
  PROVE  Closes(r, f)'
<1>1. /\ UNCHANGED <<now, data, stored, revoked>> /\ OthersStay(r)
      /\ req'[r].insert = {} /\ req'[r].token = None /\ Loads(r)
      /\ Issued' = Issued
  BY DEF Reads, Issued
<1>2. stored \subseteq Issued
  BY DEF IInv, TypeOK
<1>3. PICK t0 \in stored : FamilyOf(t0) = f
  BY <1>1 DEF Loads, RowsOf
<1>4. t0 \in Issued /\ f \in Issued
  BY <1>2, <1>3 DEF IInv, AbsoluteExpiry
<1>5. ASSUME NEW t \in Issued, FamilyOf(t) = f
      PROVE  ~Held(t)' /\ ~Pending(t)' /\ (Usable(t)' => t \in req'[r].revoke)
  <2>1. ASSUME NEW s \in Requests PROVE req'[s].token # t
    <3>1. t # None
      BY TokensAssumption DEF Issued
    <3>2. req'[s].token # None => data'[req'[s].token].family \notin req'[r].ends
      BY DEF EndsAlone, FamilyOf
    <3> QED
      BY <1>1, <1>5, <3>1, <3>2 DEF FamilyOf
  <2>2. ASSUME NEW s \in Requests, t \in req'[s].insert PROVE FALSE
    <3>1. s # r /\ req'[s] = req[s]
      BY <1>1, <2>2 DEF OthersStay
    <3>2. Descends(s, t) /\ t \notin stored
      BY <2>2, <3>1 DEF Lineage, IInv, Custody
    <3>3. CASE req[s].token = None
      BY <1>3, <1>4, <1>5, <3>2, <3>3 DEF Descends
    <3>4. CASE req[s].token # None
      <4>1. FamilyOf(req[s].token) = f
        BY <1>5, <3>2, <3>4 DEF Descends
      <4>2. data'[req'[s].token].family \notin req'[r].ends
        BY <3>1, <3>4 DEF EndsAlone, FamilyOf
      <4> QED
        BY <1>1, <3>1, <4>1, <4>2 DEF FamilyOf
    <3> QED
      BY <3>3, <3>4
  <2>3. ASSUME Usable(t)' PROVE t \in req'[r].revoke
    <3>1. Usable(t)
      BY <1>1, <2>3 DEF Usable, Expired
    <3>2. /\ data[t].expires = data[t0].expires
          /\ data[t].user = data[t0].user
      BY <1>3, <1>4, <1>5 DEF IInv, AbsoluteExpiry
    <3>3. ASSUME NEW t1 \in stored \ revoked, req'[r].revoke = {t1},
                 req'[r].ends = {FamilyOf(t1)}
          PROVE  t \in req'[r].revoke
      <4>1. t1 \in Issued /\ FamilyOf(t1) = f
        BY <1>2, <3>3
      <4>2. data[t1].expires = data[t].expires
        BY <1>5, <4>1 DEF IInv, AbsoluteExpiry
      <4>3. Usable(t1)
        BY <3>1, <3>3, <4>2 DEF Usable, Expired
      <4> QED
        BY <1>5, <3>1, <3>3, <4>1, <4>3 DEF Single, Head
    <3>4. ASSUME NEW u \in Users, req'[r].revoke = RowsOf(u) \ revoked,
                 req'[r].ends = {FamilyOf(x) : x \in RowsOf(u)}
          PROVE  t \in req'[r].revoke
      <4>1. PICK t1 \in RowsOf(u) : FamilyOf(t1) = f
        BY <3>4
      <4>2. t1 \in Issued /\ data[t1].user = u
        BY <1>2, <4>1 DEF RowsOf
      <4>3. data[t].user = u
        BY <1>5, <4>1, <4>2 DEF IInv, AbsoluteExpiry
      <4> QED
        BY <3>1, <3>4, <4>3 DEF RowsOf, Usable
    <3> QED
      BY <1>1, <3>3, <3>4 DEF Loads
  <2> QED
    BY <2>1, <2>2, <2>3 DEF Held, Pending
<1> QED
  BY <1>1, <1>4, <1>5 DEF Closes, Shut, FamilyOf

LEMMA EndingStep ==
  ASSUME IInv, Lineage, Single, EndsAlone', Ending, [Next]_vars
  PROVE  Ending'
<1>1. ASSUME NEW t \in Issued, Held(t)' PROVE Held(t) \/ Usable(t)
  BY <1>1, HeldStep, IssuedTokens DEF Head
<1>2. ASSUME NEW f \in ended PROVE Shut(f, {})'
  <2>1. Shut(f, {})
    BY <1>2 DEF Ending
  <2>2. \A t \in Issued : FamilyOf(t) = f => ~Held(t)'
    BY <1>1, <2>1 DEF Shut
  <2> QED
    BY <2>1, <2>2, ShutStep
<1>3. ASSUME NEW r \in Requests, NEW f \in req'[r].ends, req'[r] = req[r]
      PROVE  Closes(r, f)'
  <2>1. PICK S : S = req[r].revoke
    OBVIOUS
  <2>2. Shut(f, S)
    BY <1>3, <2>1 DEF Ending, Closes
  <2>3. ASSUME NEW t \in Issued, FamilyOf(t) = f, Held(t)' PROVE FALSE
    <3>1. PICK s \in Requests : req'[s].token = t
      BY <2>3 DEF Held
    <3>2. t # None /\ data'[t] = data[t]
      BY TokensAssumption, IssuedTokens DEF Issued
    <3> QED
      BY <1>3, <2>3, <3>1, <3>2 DEF EndsAlone, FamilyOf
  <2>4. Shut(f, S)'
    BY <2>2, <2>3, ShutStep
  <2> QED
    BY <1>3, <2>1, <2>4 DEF Closes, Shut
<1>4. CASE Rests
  BY <1>2, <1>3, <1>4 DEF Rests, Ending
<1>5. ASSUME NEW r \in Requests, Reads(r) PROVE Ending'
  <2>1. ended' = ended /\ OthersStay(r)
    BY <1>5 DEF Reads
  <2> QED
    BY <1>2, <1>3, <1>5, <2>1, LoadStep DEF Ending, OthersStay
<1>6. ASSUME NEW r \in Requests, Issues(r) PROVE Ending'
  BY <1>2, <1>3, <1>6 DEF Issues, Ending, OthersStay
<1>7. ASSUME NEW r \in Requests, Commit(r) PROVE Ending'
  <2>1. /\ req'[r] = Idle /\ OthersStay(r) /\ Idle.ends = {} /\ Idle.token = None
        /\ ended' = ended \cup req[r].ends /\ Issued' = Issued
    BY <1>7 DEF Commit, OthersStay, Idle, IInv, TypeOK, Issued
  <2>2. ASSUME NEW f \in req[r].ends PROVE Shut(f, {})'
    <3>1. PICK S : S = req[r].revoke
      OBVIOUS
    <3>2. Shut(f, S)
      BY <3>1 DEF Ending, Closes
    <3>3. ASSUME NEW t \in Issued, FamilyOf(t) = f PROVE ~Held(t)'
      <4>1. t # None
        BY TokensAssumption DEF Issued
      <4> QED
        BY <2>1, <3>2, <3>3, <4>1 DEF Shut, Held, OthersStay
    <3>4. Shut(f, S)'
      BY <3>2, <3>3, ShutStep
    <3>5. \A t \in S : ~Usable(t)'
      BY <1>7, <3>1 DEF Commit, Usable
    <3> QED
      BY <3>4, <3>5 DEF Shut
  <2> QED
    BY <1>2, <1>3, <2>1, <2>2 DEF Ending, OthersStay
<1> QED
  BY <1>4, <1>5, <1>6, <1>7, HowTokensMove

\* A session that a committed logout or expiry ended has a usable token again
\* only after a refresh of it was in progress together with that logout or
\* expiry, or together with another refresh given the same token.
THEOREM ReopeningNeedsOverlap ==
  Spec /\ []RotatesAlone /\ []EndsAlone => []EndedStaysEnded
<1>1. ASSUME Init PROVE Ending
  BY <1>1 DEF Init, Ending, Idle
<1>2. /\ IInv /\ Lineage /\ Single /\ EndsAlone' /\ Ending /\ [Next]_vars
      => Ending'
  BY EndingStep
<1>3. Ending => EndedStaysEnded
  BY DEF Ending, EndedStaysEnded, Shut
<1> QED
  BY <1>1, <1>2, <1>3, Invariance, SingleInvariance, PTL DEF Spec

-----------------------------------------------------------------------------
(***************************************************************************)
(* The service implements the abstract specification of sessions.          *)
(***************************************************************************)
\* A token is open when it is issued, not expired, and its row is live or a
\* request can still make it so.
OpenMeaning ==
  \A t : t \in OpenTokens <=>
          /\ t \in Issued /\ ~Expired(t)
          /\ \/ t \in stored \ revoked
             \/ \E r \in Requests : t \in CanYield(r)

LEMMA OpenTokensDef == IInv => OpenMeaning
<1> SUFFICES ASSUME IInv PROVE OpenMeaning
  OBVIOUS
<1>1. \A r \in Requests : CanYield(r) \subseteq Issued
  BY DEF CanYield, IInv, Custody, Settled
<1> QED
  BY <1>1 DEF OpenMeaning, OpenTokens, Usable, IInv, TypeOK

\* A family with an open token is that of a login's token.
LEMMA OpenFamiliesAreRoots == IInv => OpenFamilies \subseteq Roots
  BY OpenTokensDef DEF OpenMeaning, OpenFamilies, Roots, IInv, AbsoluteExpiry

\* A step lets a request yield a token that was issued before only if it could
\* already, or the token is usable.
LEMMA YieldStep ==
  ASSUME IInv, [Next]_vars, NEW r \in Requests, NEW t \in Issued,
         t \in CanYield(r)'
  PROVE  t \in CanYield(r) \/ Usable(t)
<1>1. /\ req \in [Requests -> Request] /\ req[r] \in Request
      /\ Idle.insert = {} /\ Idle.stage = "idle"
  BY DEF IInv, TypeOK, Idle
<1>2. CASE req'[r] = req[r]
  BY <1>2 DEF CanYield
<1>3. ASSUME Begin(r) PROVE t \in CanYield(r) \/ Usable(t)
  <2>1. ASSUME NEW u \in Users, LoginRead(r, u) PROVE FALSE
    BY <1>1, <2>1 DEF LoginRead, CanYield, Idle
  <2>2. ASSUME NEW u \in Users, ExpireSessions(r, u) PROVE FALSE
    BY <1>1, <2>2 DEF ExpireSessions, CanYield, Idle
  <2>3. ASSUME NEW u \in Users, NEW s \in Tokens, Logout(r, u, s) PROVE FALSE
    BY <1>1, <2>3 DEF Logout, CanYield, Idle
  <2>4. ASSUME NEW s \in Tokens, RefreshVerify(r, s) PROVE Usable(t)
    BY <1>1, <2>4 DEF RefreshVerify, CanYield, Idle
  <2> QED
    BY <1>3, <2>1, <2>2, <2>3, <2>4 DEF Begin
<1>4. ASSUME RefreshReverify(r) PROVE t \in CanYield(r)
  BY <1>1, <1>4 DEF RefreshReverify, CanYield, Request
<1>5. ASSUME RefreshReverifyFails(r) \/ Abort(r) \/ Commit(r) PROVE FALSE
  BY <1>1, <1>5 DEF RefreshReverifyFails, Abort, Commit, CanYield
<1>6. ASSUME LoginCreate(r) \/ RefreshRotate(r) PROVE FALSE
  <2>1. \E n \in Tokens \ Issued :
          req'[r].stage = "answered" /\ req'[r].insert = {n}
    <3>1. CASE LoginCreate(r)
      BY <1>1, <3>1 DEF LoginCreate, Request
    <3>2. CASE RefreshRotate(r)
      <4>1. PICK n \in Tokens \ Issued :
              req' = [req EXCEPT ![r] =
                        [@ EXCEPT !.stage = "answered", !.insert = {n},
                                  !.revoke = ToRevoke(req[r].token)]]
        BY <3>2 DEF RefreshRotate
      <4> QED
        BY <1>1, <4>1 DEF Request
    <3> QED
      BY <1>6, <3>1, <3>2
  <2> QED
    BY <2>1 DEF CanYield
<1>7. ASSUME NEW p \in Requests, Begin(p) \/ Proceed(p) \/ Abort(p), p # r
      PROVE  req'[r] = req[r]
  BY <1>1, <1>7 DEF Begin, Proceed, Abort, LoginRead, ExpireSessions, Logout,
       RefreshVerify, RefreshReverify, RefreshReverifyFails, LoginCreate,
       RefreshRotate, Commit
<1>8. ASSUME \/ \E u \in Users, b \in BOOLEAN : SetActive(u, b)
             \/ CleanupExpired \/ Tick \/ UNCHANGED vars
      PROVE  req'[r] = req[r]
  BY <1>8 DEF SetActive, CleanupExpired, Tick, vars
<1> QED
  BY <1>2, <1>3, <1>4, <1>5, <1>6, <1>7, <1>8 DEF Next, Proceed

\* So an issued token never becomes open again.
LEMMA OpenStep ==
  ASSUME IInv, [Next]_vars, NEW t \in Issued, t \in OpenTokens'
  PROVE  t \in OpenTokens
<1>1. /\ ~Expired(t)'
      /\ t \in stored' \ revoked' \/ \E r \in Requests : t \in CanYield(r)'
  <2>1. IInv'
    BY NextInv
  <2>2. OpenMeaning'
    BY <2>1, OpenTokensDef, PTL
  <2> QED
    BY <2>2 DEF OpenMeaning
<1>2. ~Expired(t)
  <2>1. data'[t] = data[t] /\ now \in Nat /\ now' \in Nat /\ now <= now'
    BY IssuedTokens
  <2>2. data[t].expires \in Nat
    BY DEF IInv, TypeOK, Issued, TokenData
  <2> QED
    BY <1>1, <2>1, <2>2 DEF Expired
<1>3. t \in stored \ revoked \/ \E r \in Requests : t \in CanYield(r)
  <2>1. Pending(t) => \E r \in Requests : t \in CanYield(r)
    BY DEF Pending, CanYield, IInv, Custody
  <2>2. CASE t \in stored' \ revoked'
    BY <2>1, <2>2, IssuedTokens
  <2>3. CASE \E r \in Requests : t \in CanYield(r)'
    BY <2>3, YieldStep DEF Usable
  <2> QED
    BY <1>1, <2>2, <2>3
<1> QED
  BY <1>2, <1>3, OpenTokensDef DEF OpenMeaning

\* A token that a step issues belongs to the session it opens, or to one that
\* the rotated token holds open.
LEMMA NewTokenStep ==
  ASSUME IInv, [Next]_vars, NEW t \in Issued' \ Issued, t \in OpenTokens'
  PROVE  \/ /\ \E r \in Requests : LoginCreate(r)
            /\ data'[t].family = t
         \/ data'[t].family \in OpenFamilies
<1>1. PICK r \in Requests : LoginCreate(r) \/ RefreshRotate(r)
  <2>1. data' # data
    BY DEF Issued
  <2> QED
    BY <2>1 DEF Next, vars, Begin, Proceed, LoginRead, ExpireSessions,
         RefreshVerify, Logout, RefreshReverify, RefreshReverifyFails, Commit,
         Abort, SetActive, CleanupExpired, Tick
<1>2. data \in [Tokens -> TokenData \cup {None}] /\ t \in Tokens
  BY DEF IInv, TypeOK, Issued
<1>3. ASSUME LoginCreate(r) PROVE data'[t].family = t
  BY <1>2, <1>3 DEF LoginCreate, Issued, NewSession
<1>4. ASSUME RefreshRotate(r) PROVE data'[t].family \in OpenFamilies
  <2> DEFINE s == req[r].token
  <2>1. s \in CanYield(r) /\ s \in Issued
    BY <1>4 DEF RefreshRotate, CanYield, IInv, Custody, Settled
  <2>2. data'[t] = RotatedFrom(s) /\ now' = now
    BY <1>2, <1>4 DEF RefreshRotate, Issued
  <2>3. ~Expired(t)'
    <3>1. OpenMeaning'
      BY NextInv, OpenTokensDef, PTL
    <3> QED
      BY <3>1 DEF OpenMeaning
  <2>4. ~Expired(s)
    BY <2>2, <2>3 DEF Expired, RotatedFrom
  <2>5. s \in OpenTokens
    BY <2>1, <2>4, OpenTokensDef DEF OpenMeaning
  <2> QED
    BY <2>2, <2>5 DEF RotatedFrom, OpenFamilies
<1> QED
  BY <1>1, <1>3, <1>4

\* Apart from logins, steps open no family and leave the roots alone.
LEMMA FamilyStep ==
  ASSUME IInv, [Next]_vars, ~\E r \in Requests : LoginCreate(r)
  PROVE  OpenFamilies' \subseteq OpenFamilies /\ Roots' = Roots
<1>1. \A t \in Issued : t \in Issued' /\ data'[t] = data[t]
  BY IssuedTokens
<1>2. OpenTokens' \subseteq Issued'
  <2>1. OpenMeaning'
    BY NextInv, OpenTokensDef, PTL
  <2> QED
    BY <2>1 DEF OpenMeaning
<1>3. OpenFamilies' \subseteq OpenFamilies
  <2> SUFFICES ASSUME NEW t \in OpenTokens'
               PROVE  data'[t].family \in OpenFamilies
    BY DEF OpenFamilies, FamilyOf
  <2>1. CASE t \in Issued
    BY <2>1, <1>1, OpenStep DEF OpenFamilies, FamilyOf
  <2>2. CASE t \in Issued' \ Issued
    BY <2>2, NewTokenStep
  <2> QED
    BY <2>1, <2>2, <1>2
<1>4. ASSUME NEW t \in Issued' \ Issued PROVE data'[t].family # t
  <2>1. PICK r \in Requests : RefreshRotate(r)
    <3>1. data' # data
      BY DEF Issued
    <3> QED
      BY <3>1 DEF Next, vars, Begin, Proceed, LoginRead, ExpireSessions,
           RefreshVerify, Logout, RefreshReverify, RefreshReverifyFails, Commit,
           Abort, SetActive, CleanupExpired, Tick
  <2>2. data'[t] = RotatedFrom(req[r].token)
    BY <2>1 DEF RefreshRotate, Issued, IInv, TypeOK
  <2>3. FamilyOf(req[r].token) \in Issued
    BY <2>1 DEF RefreshRotate, IInv, Custody, Settled, AbsoluteExpiry
  <2> QED
    BY <2>2, <2>3 DEF RotatedFrom
<1> QED
  BY <1>1, <1>3, <1>4 DEF Roots, FamilyOf

\* A login opens one family, its own, and closes none.
LEMMA LoginOpens ==
  ASSUME IInv, NEW r \in Requests, LoginCreate(r)
  PROVE  \E n \in Tokens \ Issued :
            Roots' = Roots \cup {n} /\ OpenFamilies' = OpenFamilies \cup {n}
<1>1. PICK n \in Tokens \ Issued :
        /\ data' = [data EXCEPT ![n] = NewSession(req[r].user, n)]
        /\ req' = [req EXCEPT ![r] =
                        [@ EXCEPT !.stage = "answered", !.insert = {n}]]
  BY DEF LoginCreate
<1>2. /\ req \in [Requests -> Request] /\ req[r] \in Request
      /\ data \in [Tokens -> TokenData \cup {None}]
      /\ req[r].user \in Users /\ req[r].insert = {} /\ req[r].stage = "login"
      /\ now \in Nat /\ now + Lifetime \in Nat
      /\ UNCHANGED <<now, stored, revoked>>
  BY TokensAssumption DEF LoginCreate, IInv, TypeOK, Custody
<1>3. /\ NewSession(req[r].user, n) \in TokenData
      /\ NewSession(req[r].user, n).family = n
      /\ NewSession(req[r].user, n).expires = now + Lifetime
  BY <1>2 DEF NewSession, TokenData
<1>4. /\ \A t \in Issued : data'[t] = data[t]
      /\ data'[n] = NewSession(req[r].user, n)
      /\ Issued' = Issued \cup {n}
  BY <1>1, <1>2, <1>3, TokensAssumption DEF Issued
<1>5. Roots' = Roots \cup {n}
  BY <1>3, <1>4 DEF Roots, FamilyOf
<1>6. [Next]_vars
  BY DEF Next, Proceed
<1>7. OpenMeaning /\ OpenMeaning'
  <2>1. IInv'
    BY <1>6, NextInv
  <2> QED
    BY <2>1, OpenTokensDef, PTL
<1>8. /\ req'[r].insert = {n} /\ req'[r].stage = "answered"
      /\ \A p \in Requests : p # r => req'[p] = req[p]
  BY <1>1, <1>2 DEF Request
<1>9. n \in OpenTokens'
  <2>1. n \in CanYield(r)'
    BY <1>8 DEF CanYield
  <2>2. ~Expired(n)'
    BY <1>2, <1>3, <1>4, TokensAssumption DEF Expired
  <2> QED
    BY <1>4, <1>7, <2>1, <2>2 DEF OpenMeaning
<1>10. ASSUME NEW t \in OpenTokens PROVE t \in OpenTokens'
  <2>1. t \in Issued /\ ~Expired(t)
    BY <1>7 DEF OpenMeaning
  <2>2. ~Expired(t)' /\ t \in Issued'
    BY <1>2, <1>4, <2>1 DEF Expired
  <2>3. ASSUME NEW p \in Requests, t \in CanYield(p) PROVE t \in CanYield(p)'
    BY <1>2, <1>8, <2>3 DEF CanYield
  <2> QED
    BY <1>2, <1>7, <2>1, <2>2, <2>3 DEF OpenMeaning
<1>11. OpenTokens' = OpenTokens \cup {n}
  <2>1. OpenTokens' \subseteq Issued \cup {n}
    BY <1>4, <1>7 DEF OpenMeaning
  <2> QED
    BY <1>6, <1>9, <1>10, <2>1, OpenStep
<1>12. OpenTokens \subseteq Issued
  BY <1>7 DEF OpenMeaning
<1>13. OpenFamilies' = OpenFamilies \cup {n}
  BY <1>3, <1>4, <1>11, <1>12 DEF OpenFamilies, FamilyOf
<1> QED
  BY <1>5, <1>13

\* In every behaviour of the token service sessions behave as Session says:
\* opened by a login, closed at most once, never open again.
THEOREM ImplementsSession == Spec => RefinesSession
<1>1. Init => Abstract!Init
  <2> SUFFICES ASSUME Init PROVE Abstract!Init
    OBVIOUS
  <2>1. Issued = {} /\ OpenMeaning
    BY InitInv, OpenTokensDef DEF Init, Issued
  <2>2. OpenFamilies = {} /\ Roots = {}
    BY <2>1 DEF OpenMeaning, OpenFamilies, Roots
  <2> QED
    BY <2>2 DEF Abstract!Init, SessionPhase
<1>2. ASSUME IInv, [Next]_vars
      PROVE  [Abstract!Next]_SessionPhase
  <2>1. OpenFamilies \subseteq Roots /\ Roots \subseteq Tokens
    BY <1>2, OpenFamiliesAreRoots DEF Roots, Issued
  <2>2. (OpenFamilies \subseteq Roots)'
    BY <1>2, NextInv, OpenFamiliesAreRoots, PTL
  <2>3. CASE \E r \in Requests : LoginCreate(r)
    <3>1. PICK n \in Tokens \ Issued :
            Roots' = Roots \cup {n} /\ OpenFamilies' = OpenFamilies \cup {n}
      BY <1>2, <2>3, LoginOpens
    <3>2. n \notin Roots
      BY DEF Roots
    <3>3. Abstract!Open(n)
      BY <2>1, <3>1, <3>2 DEF Abstract!Open, SessionPhase
    <3> QED
      BY <3>3 DEF Abstract!Next
  <2>4. CASE ~\E r \in Requests : LoginCreate(r)
    <3> DEFINE S == OpenFamilies \ OpenFamilies'
    <3>1. OpenFamilies' \subseteq OpenFamilies /\ Roots' = Roots
      BY <1>2, <2>4, FamilyStep
    <3>2. \A f \in S : SessionPhase[f] = "open"
      BY <2>1 DEF SessionPhase
    <3>3. SessionPhase' =
            [f \in Tokens |-> IF f \in S THEN "closed" ELSE SessionPhase[f]]
      BY <2>1, <3>1 DEF SessionPhase
    <3>4. S \in SUBSET Tokens
      BY <2>1
    <3> QED
      BY <3>2, <3>3, <3>4 DEF Abstract!Next, Abstract!Close
  <2> QED
    BY <2>3, <2>4
<1> QED
  BY <1>1, <1>2, Invariance, PTL DEF Spec, RefinesSession, Abstract!Spec
=============================================================================
