---------------------------- MODULE ClientProofs ----------------------------
(***************************************************************************)
(* What a client of the API can rely on: proofs about its session, for any *)
(* number of tabs, calls at once, token pairs and reloads, and about the   *)
(* rate limiter that meets its requests, for every limit, window and       *)
(* delay. The two modules share no state: a step of one is any step of     *)
(* the other.                                                              *)
(*                                                                         *)
(* The session. A 401 makes one call the leader; the rest of its page      *)
(* queues. That no refresh token is presented twice rests on two facts     *)
(* about what is in flight: a new pair that has not arrived is in nobody's *)
(* hands (Unseen), and restoreSession runs alone in its page               *)
(* (RestoresAlone), so that a page has at most one exchange.               *)
(*                                                                         *)
(* The limiter. The count a request sees covers every second let in during *)
(* the window that ends with it, because no entry of the last window is    *)
(* ever lost (RecentIsStored), and it cannot be older than MaxDelay.       *)
(***************************************************************************)
EXTENDS RateLimiter, WebSession, FiniteSetTheorems, TLAPS

(***************************************************************************)
(* The session of the web client.                                          *)
(***************************************************************************)
\* An exchange whose new pair is on its way to the page.
Answered(c) == Exchanging(c) /\ call[c].reply = "ok"

\* Every pair somebody holds was issued.
Numbered ==
    /\ kept <= issued
    /\ \A c \in Calls : call[c].token <= issued /\ call[c].pair <= issued

(***************************************************************************)
(* A new pair on its way is in nobody's hands, so nobody can have sent or  *)
(* exchanged it.                                                           *)
(***************************************************************************)
Unseen(c) ==
    /\ call[c].pair \in (1..issued) \ rotated
    /\ call[c].pair # kept
    /\ \A d \in Calls : call[d].token # call[c].pair
    /\ \A d \in Calls : Answered(d) /\ call[d].pair = call[c].pair => d = c

\* What restoreSession runs, up to and with its own refresh.
Restoring(c) ==
    \/ call[c].stage # "idle" /\ call[c].kind = "restore"
    \/ call[c].stage = "restoring"

\* Nothing else of the page runs meanwhile.
RestoresAlone ==
    \A c \in Calls : Restoring(c) =>
        /\ status[TabOf(c)] = "initializing"
        /\ \A d \in UnderWay(TabOf(c)) : d = c

IInv ==
    /\ TypeOK
    /\ Numbered
    /\ FlagHasLeader
    /\ \A c \in Calls : Answered(c) => Unseen(c)
    /\ RestoresAlone

(***************************************************************************)
(* Calls, and what an action may do to them.                               *)
(***************************************************************************)
LEMMA TabOfCall ==
    ASSUME NEW c \in Calls
    PROVE  TabOf(c) \in Tabs
  BY DEF Calls, TabOf

LEMMA IdleCall == Idle \in Call
  BY WebAssumption DEF Idle, Call, Stage, Kind, Reply

LEMMA SentCall ==
    ASSUME NEW r \in Call, NEW stage \in Stage, NEW pair \in 0..MaxPairs
    PROVE  /\ Sent(r, stage, pair) \in Call
           /\ Sent(r, stage, pair).stage = stage
           /\ Sent(r, stage, pair).kind = r.kind
           /\ Sent(r, stage, pair).token = pair
           /\ Sent(r, stage, pair).body = r.body
           /\ Sent(r, stage, pair).pair = 0
           /\ Sent(r, stage, pair).reply = "none"
  <1> DEFINE r1 == [r EXCEPT !.stage = stage]
             r2 == [r1 EXCEPT !.token = pair]
             r3 == [r2 EXCEPT !.pair = 0]
             r4 == [r3 EXCEPT !.reply = "none"]
  <1>1. r1 \in Call /\ r1.stage = stage /\ r1.kind = r.kind /\ r1.body = r.body
    BY DEF Call
  <1>2. /\ r2 \in Call /\ r2.stage = stage /\ r2.kind = r.kind /\ r2.body = r.body
        /\ r2.token = pair
    <2> HIDE DEF r1
    <2> QED  BY <1>1 DEF Call
  <1>3. /\ r3 \in Call /\ r3.stage = stage /\ r3.kind = r.kind /\ r3.body = r.body
        /\ r3.token = pair /\ r3.pair = 0
    <2> HIDE DEF r2
    <2> QED  BY <1>2, WebAssumption DEF Call
  <1>4. /\ r4 \in Call /\ r4.stage = stage /\ r4.kind = r.kind /\ r4.body = r.body
        /\ r4.token = pair /\ r4.pair = 0 /\ r4.reply = "none"
    <2> HIDE DEF r3
    <2> QED  BY <1>3 DEF Call, Reply
  <1> QED  BY <1>4 DEF Sent

\* What Begin makes of an idle call.
Begun(kind, pair, body) ==
    Sent([Idle EXCEPT !.kind = kind, !.body = body], "sent", pair)

LEMMA BegunCall ==
    ASSUME NEW kind \in Kind, NEW pair \in 0..MaxPairs, NEW body \in 0..MaxPairs,
           NEW r, r = Begun(kind, pair, body)
    PROVE  /\ r \in Call
           /\ r.stage = "sent" /\ r.kind = kind
           /\ r.token = pair /\ r.pair = 0 /\ r.reply = "none"
  <1> DEFINE named == [Idle EXCEPT !.kind = kind]
             new == [named EXCEPT !.body = body]
  <1>1. named \in Call /\ named.kind = kind
    BY IdleCall DEF Call, Idle
  <1>2. new \in Call /\ new.kind = kind
    <2> HIDE DEF named
    <2> QED  BY <1>1 DEF Call
  <1>3. "sent" \in Stage  BY DEF Stage
  <1> HIDE DEF new
  <1>4. r = Sent(new, "sent", pair)  BY DEF Begun, new
  <1> QED  BY <1>2, <1>3, <1>4, SentCall

(***************************************************************************)
(* One call changes: what must be known of it for the facts about leaders. *)
(***************************************************************************)
LEMMA SameLeaders ==
    ASSUME FlagHasLeader, UNCHANGED isRefreshing,
           \A c \in Calls : Leading(c)' <=> Leading(c)
    PROVE  FlagHasLeader'
  BY DEF FlagHasLeader, UnderWay, Leading

LEMMA InitIInv == Init => IInv
  <1> SUFFICES ASSUME Init PROVE IInv  OBVIOUS
  <1> USE WebAssumption DEF Init
  <1>1. \A c \in Calls : call[c] = Idle  OBVIOUS
  <1>a. mixed \in BOOLEAN  OBVIOUS
  <1>2. TypeOK
    BY <1>1, <1>a, IdleCall DEF TypeOK, Exchanging, Idle, Pairs
  <1>3. Numbered /\ RestoresAlone /\ \A c \in Calls : ~Answered(c)
    BY <1>1 DEF Numbered, RestoresAlone, Restoring, Answered, Exchanging, Idle
  <1>4. FlagHasLeader
    BY <1>1, TabOfCall DEF FlagHasLeader, UnderWay, Idle
  <1> QED  BY <1>2, <1>3, <1>4 DEF IInv

(***************************************************************************)
(* Three of the invariant's parts, for the steps that leave them alone.    *)
(***************************************************************************)
\* A step that brings no new answer, and hands out nothing but what was kept
\* or what was never issued.
LEMMA UnseenKept ==
    ASSUME IInv, issued' \in Nat, issued <= issued', UNCHANGED rotated,
           kept' \in {kept, 0, issued + 1},
           \A d \in Calls : call'[d].token \in {call[d].token, kept, 0, issued + 1},
           \A d \in Calls : Answered(d)' => Answered(d) /\ call'[d].pair = call[d].pair
    PROVE  \A d \in Calls : Answered(d)' => Unseen(d)'
  <1> SUFFICES ASSUME NEW d \in Calls, Answered(d)' PROVE Unseen(d)'  OBVIOUS
  <1>1. Unseen(d) /\ Answered(d) /\ call'[d].pair = call[d].pair  BY DEF IInv
  <1>2. call[d].pair \in 1..issued /\ issued \in Nat
    BY <1>1 DEF Unseen, IInv, TypeOK, Pairs
  <1>3. call'[d].pair \in (1..issued') \ rotated' /\ call'[d].pair # kept'
    BY <1>1, <1>2 DEF Unseen
  <1>4. \A e \in Calls : call'[e].token # call'[d].pair
    BY <1>1, <1>2 DEF Unseen
  <1>5. \A e \in Calls : Answered(e)' /\ call'[e].pair = call'[d].pair => e = d
    BY <1>1 DEF Unseen
  <1> QED  BY <1>3, <1>4, <1>5 DEF Unseen

\* A step that begins no call and moves no restoring page.
LEMMA AloneKept ==
    ASSUME IInv,
           \A d \in Calls : call'[d].stage # "idle" => call[d].stage # "idle",
           \A d \in Calls : Restoring(d)' =>
              Restoring(d) /\ status'[TabOf(d)] = status[TabOf(d)]
    PROVE  RestoresAlone'
  BY DEF IInv, RestoresAlone, UnderWay

LEMMA StutterIInv ==
    ASSUME IInv, UNCHANGED vars
    PROVE  IInv'
  <1>1. TypeOK' /\ Numbered'  BY DEF IInv, TypeOK, Numbered, vars, server, Exchanging
  <1>2. FlagHasLeader'  BY SameLeaders DEF IInv, Leading, vars
  <1>3. \A d \in Calls : Answered(d)' => Unseen(d)'
    BY UnseenKept DEF IInv, TypeOK, Pairs, Answered, Exchanging, vars, server
  <1>4. RestoresAlone'  BY AloneKept DEF Restoring, vars
  <1> QED  BY <1>1, <1>2, <1>3, <1>4 DEF IInv

(***************************************************************************)
(* A call begins.                                                          *)
(***************************************************************************)
LEMMA BeginStep ==
    ASSUME IInv, NEW c \in Calls, NEW kind \in Kind, NEW pair \in 0..MaxPairs,
           NEW body \in 0..MaxPairs, Begin(c, kind, pair, body),
           issued' \in Nat, issued <= issued', UNCHANGED <<isRefreshing, rotated>>,
           kept' \in {kept, issued + 1}, kept' <= issued',
           pair \in {kept, issued + 1}, pair <= issued'
    PROVE  /\ call' \in [Calls -> Call]
           /\ \A d \in Calls : Exchanging(d)' => call'[d].token # 0
           /\ \A d \in Calls : d # c => call'[d] = call[d]
           /\ call[c].stage = "idle" /\ call'[c].kind = kind /\ call'[c].stage = "sent"
           /\ Numbered' /\ FlagHasLeader'
           /\ \A d \in Calls : Answered(d)' => Unseen(d)'
           /\ \A d \in Calls : d # c /\ Restoring(d)' => Restoring(d)
  <1> DEFINE r == Begun(kind, pair, body)
  <1>1. /\ r \in Call /\ r.stage = "sent" /\ r.kind = kind
        /\ r.token = pair /\ r.pair = 0 /\ r.reply = "none"
    BY BegunCall
  <1>2. call' = [call EXCEPT ![c] = r] /\ call[c].stage = "idle"  BY DEF Begin, Begun
  <1> HIDE DEF r
  <1>3. call \in [Calls -> Call] /\ issued \in Nat  BY DEF IInv, TypeOK, Pairs
  <1>4. call'[c] = r /\ \A d \in Calls : d # c => call'[d] = call[d]
    BY <1>2, <1>3
  <1>5. call' \in [Calls -> Call]  BY <1>1, <1>2, <1>3
  <1>6. \A d \in Calls : Exchanging(d)' => call'[d].token # 0
    BY <1>1, <1>4 DEF IInv, TypeOK, Exchanging
  <1>7. Numbered'
    <2>1. call'[c].token <= issued' /\ call'[c].pair <= issued'  BY <1>1, <1>4
    <2>2. ASSUME NEW d \in Calls, d # c
          PROVE  call'[d].token <= issued' /\ call'[d].pair <= issued'
      <3>1. call[d].token <= issued /\ call[d].pair <= issued
        BY DEF IInv, Numbered
      <3>2. call[d].token \in Nat /\ call[d].pair \in Nat
        BY <1>3, WebAssumption DEF Call
      <3> QED  BY <1>3, <1>4, <2>2, <3>1, <3>2
    <2> QED  BY <2>1, <2>2 DEF Numbered
  <1>8. FlagHasLeader'
    <2>1. \A d \in Calls : Leading(d)' <=> Leading(d)
      BY <1>1, <1>2, <1>4 DEF Leading
    <2> QED  BY <2>1, SameLeaders DEF IInv
  <1>9. \A d \in Calls : Answered(d)' => Unseen(d)'
    <2>1. \A d \in Calls : call'[d].token \in {call[d].token, kept, 0, issued + 1}
      BY <1>1, <1>4
    <2>2. \A d \in Calls : Answered(d)' => Answered(d) /\ call'[d].pair = call[d].pair
      BY <1>1, <1>4 DEF Answered, Exchanging
    <2> QED  BY <2>1, <2>2, UnseenKept
  <1>10. \A d \in Calls : d # c /\ Restoring(d)' => Restoring(d)
    BY <1>4 DEF Restoring
  <1> QED
    BY <1>1, <1>2, <1>4, <1>5, <1>6, <1>7, <1>8, <1>9, <1>10

LEMMA PageCallStep ==
    ASSUME IInv, NEW c \in Calls, PageCall(c)
    PROVE  IInv'
  <1>1. /\ status[TabOf(c)] = "authenticated" /\ Begin(c, "page", kept, 0)
        /\ UNCHANGED <<kept, status, isRefreshing, issued, live, fresh, rotated, lost, mixed, reloads>>
    BY DEF PageCall, server
  <1>2. kept \in 0..MaxPairs /\ kept <= issued /\ issued \in Nat
    BY DEF IInv, TypeOK, Numbered, Pairs
  <1>3. "page" \in Kind /\ 0 \in 0..MaxPairs  BY WebAssumption DEF Kind
  <1>4. /\ call' \in [Calls -> Call]
        /\ \A d \in Calls : Exchanging(d)' => call'[d].token # 0
        /\ \A d \in Calls : d # c => call'[d] = call[d]
        /\ call[c].stage = "idle" /\ call'[c].kind = "page"
        /\ call'[c].stage = "sent"
        /\ Numbered' /\ FlagHasLeader'
        /\ \A d \in Calls : Answered(d)' => Unseen(d)'
        /\ \A d \in Calls : d # c /\ Restoring(d)' => Restoring(d)
    BY <1>1, <1>2, <1>3, BeginStep
  <1>5. TypeOK'  BY <1>1, <1>4 DEF IInv, TypeOK
  <1>6. RestoresAlone'
    <2>1. ASSUME NEW d \in Calls, Restoring(d)'
          PROVE  d # c /\ TabOf(d) # TabOf(c) /\ Restoring(d)
      <3>1. d # c  BY <1>4, <2>1 DEF Restoring
      <3>2. Restoring(d)  BY <1>4, <2>1, <3>1
      <3> QED  BY <1>1, <3>1, <3>2 DEF IInv, RestoresAlone
    <2> QED  BY <1>1, <1>4, <2>1 DEF IInv, RestoresAlone, UnderWay
  <1> QED  BY <1>4, <1>5, <1>6 DEF IInv

LEMMA RestoreStep ==
    ASSUME IInv, NEW c \in Calls, Restore(c)
    PROVE  IInv'
  <1> DEFINE t == TabOf(c)
  <1>1. /\ status[t] = "initializing" /\ UnderWay(t) = {}
        /\ UNCHANGED <<kept, isRefreshing, issued, live, fresh, rotated, lost, mixed, reloads>>
    BY DEF Restore, server
  <1>2. t \in Tabs  BY TabOfCall
  <1>3. \A d \in Calls : Restoring(d) => TabOf(d) # t
    BY <1>1 DEF UnderWay, Restoring
  <1>4. CASE kept = 0
    <2>1. UNCHANGED call /\ status' = [status EXCEPT ![t] = "unauthenticated"]
      BY <1>4 DEF Restore
    <2>2. TypeOK' /\ Numbered'
      BY <1>1, <2>1 DEF IInv, TypeOK, Numbered, Exchanging
    <2>3. FlagHasLeader'  BY <1>1, <2>1, SameLeaders DEF IInv, Leading
    <2>4. \A d \in Calls : Answered(d)' => Unseen(d)'
      BY <1>1, <2>1, UnseenKept DEF IInv, TypeOK, Pairs, Answered, Exchanging
    <2>5. RestoresAlone'
      BY <1>3, <2>1, AloneKept, TabOfCall DEF Restoring, IInv, TypeOK
    <2> QED  BY <2>2, <2>3, <2>4, <2>5 DEF IInv
  <1>5. CASE kept # 0
    <2>1. Begin(c, "restore", kept, 0) /\ UNCHANGED status
      BY <1>5 DEF Restore
    <2>2. kept \in 0..MaxPairs /\ kept <= issued /\ issued \in Nat
      BY DEF IInv, TypeOK, Numbered, Pairs
    <2>3. "restore" \in Kind /\ 0 \in 0..MaxPairs  BY WebAssumption DEF Kind
    <2>4. /\ call' \in [Calls -> Call]
          /\ \A d \in Calls : Exchanging(d)' => call'[d].token # 0
          /\ \A d \in Calls : d # c => call'[d] = call[d]
          /\ Numbered' /\ FlagHasLeader'
          /\ \A d \in Calls : Answered(d)' => Unseen(d)'
          /\ \A d \in Calls : d # c /\ Restoring(d)' => Restoring(d)
      BY <1>1, <2>1, <2>2, <2>3, BeginStep
    <2>5. TypeOK'  BY <1>1, <2>1, <2>4 DEF IInv, TypeOK
    <2>6. RestoresAlone'
      <3> SUFFICES ASSUME NEW d \in Calls, Restoring(d)'
                   PROVE  /\ status[TabOf(d)] = "initializing"
                          /\ \A e \in UnderWay(TabOf(d))' : e = d
        BY <2>1 DEF RestoresAlone
      <3>1. CASE d = c
        BY <1>1, <2>4, <3>1 DEF UnderWay
      <3>2. CASE d # c
        <4>1. Restoring(d) /\ TabOf(d) # t  BY <1>3, <2>4, <3>2
        <4> QED  BY <2>4, <4>1 DEF IInv, RestoresAlone, UnderWay
      <3> QED  BY <3>1, <3>2
    <2> QED  BY <2>4, <2>5, <2>6 DEF IInv
  <1> QED  BY <1>4, <1>5

LEMMA LoginStep ==
    ASSUME IInv, NEW c \in Calls, Login(c)
    PROVE  IInv'
  <1> DEFINE new == issued + 1
  <1>1. /\ status[TabOf(c)] = "unauthenticated" /\ issued < MaxPairs
        /\ issued' = new /\ live' = live \cup {new} /\ fresh' = fresh \cup {new}
        /\ kept' = new /\ Begin(c, "login", new, 0)
        /\ mixed' = (UnderWay(TabOf(c)) # {})
        /\ UNCHANGED <<status, isRefreshing, rotated, lost, reloads>>
    BY DEF Login
  <1>2. issued \in 1..MaxPairs /\ new \in 1..MaxPairs /\ new \in Nat
    BY <1>1, WebAssumption DEF IInv, TypeOK, Pairs
  <1>3. "login" \in Kind /\ 0 \in 0..MaxPairs /\ new \in 0..MaxPairs
    BY <1>2, WebAssumption DEF Kind
  <1> HIDE DEF new
  <1>a. new = issued + 1 /\ issued <= new  BY <1>2 DEF new
  <1>4. /\ call' \in [Calls -> Call]
        /\ \A d \in Calls : Exchanging(d)' => call'[d].token # 0
        /\ \A d \in Calls : d # c => call'[d] = call[d]
        /\ call[c].stage = "idle" /\ call'[c].kind = "login"
        /\ call'[c].stage = "sent"
        /\ Numbered' /\ FlagHasLeader'
        /\ \A d \in Calls : Answered(d)' => Unseen(d)'
        /\ \A d \in Calls : d # c /\ Restoring(d)' => Restoring(d)
    BY <1>1, <1>2, <1>3, <1>a, BeginStep
  <1>5. TypeOK'
    <2>1. 1..issued \subseteq 1..new /\ new \notin 1..issued /\ new \in 1..new
      BY <1>2, <1>a
    <2>2. kept' \in 0..MaxPairs /\ issued' \in Pairs  BY <1>1, <1>2 DEF Pairs
    <2> QED  BY <1>1, <1>4, <2>1, <2>2 DEF IInv, TypeOK
  <1>6. RestoresAlone'
    <2>1. ASSUME NEW d \in Calls, Restoring(d)'
          PROVE  d # c /\ TabOf(d) # TabOf(c) /\ Restoring(d)
      <3>1. d # c  BY <1>4, <2>1 DEF Restoring
      <3>2. Restoring(d)  BY <1>4, <2>1, <3>1
      <3> QED  BY <1>1, <3>1, <3>2 DEF IInv, RestoresAlone
    <2> QED  BY <1>1, <1>4, <2>1 DEF IInv, RestoresAlone, UnderWay
  <1> QED  BY <1>4, <1>5, <1>6 DEF IInv

LEMMA LogoutStep ==
    ASSUME IInv, NEW c \in Calls, Logout(c)
    PROVE  IInv'
  <1> DEFINE t == TabOf(c)
  <1>1. /\ status[t] = "authenticated"
        /\ UNCHANGED <<kept, isRefreshing, issued, live, fresh, rotated, lost, mixed, reloads>>
    BY DEF Logout, server
  <1>2. t \in Tabs  BY TabOfCall
  <1>3. \A d \in Calls : Restoring(d) => TabOf(d) # t
    BY <1>1 DEF IInv, RestoresAlone
  <1>4. CASE kept = 0
    <2>1. UNCHANGED call /\ status' = [status EXCEPT ![t] = "unauthenticated"]
      BY <1>4 DEF Logout
    <2>2. TypeOK' /\ Numbered'
      BY <1>1, <2>1 DEF IInv, TypeOK, Numbered, Exchanging
    <2>3. FlagHasLeader'  BY <1>1, <2>1, SameLeaders DEF IInv, Leading
    <2>4. \A d \in Calls : Answered(d)' => Unseen(d)'
      BY <1>1, <2>1, UnseenKept DEF IInv, TypeOK, Pairs, Answered, Exchanging
    <2>5. RestoresAlone'
      BY <1>3, <2>1, AloneKept, TabOfCall DEF Restoring, IInv, TypeOK
    <2> QED  BY <2>2, <2>3, <2>4, <2>5 DEF IInv
  <1>5. CASE kept # 0
    <2>1. Begin(c, "logout", kept, kept) /\ UNCHANGED status
      BY <1>5 DEF Logout
    <2>2. kept \in 0..MaxPairs /\ kept <= issued /\ issued \in Nat
      BY DEF IInv, TypeOK, Numbered, Pairs
    <2>3. "logout" \in Kind  BY DEF Kind
    <2>4. /\ call' \in [Calls -> Call]
          /\ \A d \in Calls : Exchanging(d)' => call'[d].token # 0
          /\ \A d \in Calls : d # c => call'[d] = call[d]
          /\ call'[c].kind = "logout" /\ call'[c].stage = "sent"
          /\ Numbered' /\ FlagHasLeader'
          /\ \A d \in Calls : Answered(d)' => Unseen(d)'
          /\ \A d \in Calls : d # c /\ Restoring(d)' => Restoring(d)
      BY <1>1, <2>1, <2>2, <2>3, BeginStep
    <2>5. TypeOK'  BY <1>1, <2>1, <2>4 DEF IInv, TypeOK
    <2>6. RestoresAlone'
      <3>1. ASSUME NEW d \in Calls, Restoring(d)'
            PROVE  d # c /\ TabOf(d) # t /\ Restoring(d)
        BY <1>3, <2>4, <3>1 DEF Restoring
      <3> QED  BY <2>1, <2>4, <3>1 DEF IInv, RestoresAlone, UnderWay
    <2> QED  BY <2>4, <2>5, <2>6 DEF IInv
  <1> QED  BY <1>4, <1>5

(***************************************************************************)
(* The server and the network.                                             *)
(***************************************************************************)
LEMMA ReplyCall ==
    ASSUME IInv, NEW c \in Calls, NEW reply \in Reply,
           call' = [call EXCEPT ![c].reply = reply]
    PROVE  /\ call' \in [Calls -> Call]
           /\ \A d \in Calls : /\ call'[d].stage = call[d].stage
                               /\ call'[d].kind = call[d].kind
                               /\ call'[d].token = call[d].token
                               /\ call'[d].pair = call[d].pair
           /\ \A d \in Calls : d # c => call'[d] = call[d]
           /\ call'[c].reply = reply
  <1>1. call \in [Calls -> Call]  BY DEF IInv, TypeOK
  <1>2. call'[c] = [call[c] EXCEPT !.reply = reply]  BY <1>1
  <1>3. call[c] \in Call  BY <1>1
  <1>4. /\ call'[c] \in Call /\ call'[c].reply = reply
        /\ call'[c].stage = call[c].stage /\ call'[c].kind = call[c].kind
        /\ call'[c].token = call[c].token /\ call'[c].pair = call[c].pair
    BY <1>2, <1>3 DEF Call
  <1>5. \A d \in Calls : d # c => call'[d] = call[d]  BY <1>1
  <1>6. call' \in [Calls -> Call]  BY <1>1, <1>4, <1>5
  <1> QED  BY <1>4, <1>5, <1>6

\* An answer other than a new pair changes nothing that the invariant is about.
LEMMA ReplyStep ==
    ASSUME IInv, NEW c \in Calls, NEW reply \in Reply,
           call' = [call EXCEPT ![c].reply = reply],
           ~Exchanging(c) \/ reply # "ok",
           UNCHANGED <<kept, status, isRefreshing, issued, rotated>>
    PROVE  /\ call' \in [Calls -> Call]
           /\ \A d \in Calls : Exchanging(d)' => call'[d].token # 0
           /\ Numbered' /\ FlagHasLeader' /\ RestoresAlone'
           /\ \A d \in Calls : Answered(d)' => Unseen(d)'
  <1>1. /\ call' \in [Calls -> Call]
        /\ \A d \in Calls : /\ call'[d].stage = call[d].stage
                            /\ call'[d].kind = call[d].kind
                            /\ call'[d].token = call[d].token
                            /\ call'[d].pair = call[d].pair
        /\ \A d \in Calls : d # c => call'[d] = call[d]
        /\ call'[c].reply = reply
    BY ReplyCall
  <1>2. \A d \in Calls : Exchanging(d)' => call'[d].token # 0
    BY <1>1 DEF IInv, TypeOK, Exchanging
  <1>3. Numbered'  BY <1>1 DEF IInv, Numbered
  <1>4. FlagHasLeader'  BY <1>1, SameLeaders DEF IInv, Leading
  <1>5. RestoresAlone'  BY <1>1, AloneKept DEF Restoring
  <1>6. \A d \in Calls : Answered(d)' => Answered(d) /\ call'[d].pair = call[d].pair
    BY <1>1 DEF Answered, Exchanging
  <1>7. \A d \in Calls : Answered(d)' => Unseen(d)'
    BY <1>1, <1>6, UnseenKept DEF IInv, TypeOK, Pairs
  <1> QED  BY <1>1, <1>2, <1>3, <1>4, <1>5, <1>7

LEMMA ServeStep ==
    ASSUME IInv, NEW c \in Calls, Serve(c)
    PROVE  IInv'
  <1>1. PICK reply \in Reply : call' = [call EXCEPT ![c].reply = reply]
    BY DEF Serve, Reply
  <1>2. ~Exchanging(c)  BY DEF Serve, Exchanging
  <1>3. /\ UNCHANGED <<kept, status, isRefreshing, issued, fresh, rotated, lost, mixed, reloads>>
        /\ live' \subseteq live
    BY DEF Serve
  <1>4. /\ call' \in [Calls -> Call]
        /\ \A d \in Calls : Exchanging(d)' => call'[d].token # 0
        /\ Numbered' /\ FlagHasLeader' /\ RestoresAlone'
        /\ \A d \in Calls : Answered(d)' => Unseen(d)'
    BY <1>1, <1>2, <1>3, ReplyStep
  <1>5. TypeOK'  BY <1>3, <1>4 DEF IInv, TypeOK
  <1> QED  BY <1>4, <1>5 DEF IInv

LEMMA BreakStep ==
    ASSUME IInv, NEW c \in Calls, Break(c)
    PROVE  IInv'
  <1>1. /\ call' = [call EXCEPT ![c].reply = "error"]
        /\ UNCHANGED <<kept, status, isRefreshing, issued, live, fresh, rotated, lost, mixed, reloads>>
    BY DEF Break, server
  <1>2. "error" \in Reply  BY DEF Reply
  <1>3. /\ call' \in [Calls -> Call]
        /\ \A d \in Calls : Exchanging(d)' => call'[d].token # 0
        /\ Numbered' /\ FlagHasLeader' /\ RestoresAlone'
        /\ \A d \in Calls : Answered(d)' => Unseen(d)'
    BY <1>1, <1>2, ReplyStep
  <1>4. TypeOK'  BY <1>1, <1>3 DEF IInv, TypeOK
  <1> QED  BY <1>3, <1>4 DEF IInv

LEMMA ExpireAccessStep ==
    ASSUME IInv, NEW p \in Pairs, ExpireAccess(p) \/ EndSession(p)
    PROVE  IInv'
  <1>1. /\ UNCHANGED <<kept, status, isRefreshing, call, issued, rotated, lost, mixed, reloads>>
        /\ live' \subseteq live /\ fresh' \subseteq fresh
    BY DEF ExpireAccess, EndSession
  <1>2. TypeOK' /\ Numbered'
    BY <1>1 DEF IInv, TypeOK, Numbered, Exchanging
  <1>3. FlagHasLeader'  BY <1>1, SameLeaders DEF IInv, Leading
  <1>4. \A d \in Calls : Answered(d)' => Unseen(d)'
    BY <1>1, UnseenKept DEF IInv, TypeOK, Pairs, Answered, Exchanging
  <1>5. RestoresAlone'  BY <1>1, AloneKept DEF Restoring
  <1> QED  BY <1>2, <1>3, <1>4, <1>5 DEF IInv

\* The new pair of an exchange: the next number, that nobody has seen.
LEMMA ExchangeStep ==
    ASSUME IInv, NEW c \in Calls, Exchange(c)
    PROVE  IInv'
  <1> DEFINE new == issued + 1
  <1>1. CASE call[c].token \notin live
    <2>1. /\ call' = [call EXCEPT ![c].reply = "401"]
          /\ UNCHANGED <<kept, status, isRefreshing, issued, live, fresh, rotated, lost, mixed, reloads>>
      BY <1>1 DEF Exchange, server
    <2>2. "401" \in Reply  BY DEF Reply
    <2>3. /\ call' \in [Calls -> Call]
          /\ \A d \in Calls : Exchanging(d)' => call'[d].token # 0
          /\ Numbered' /\ FlagHasLeader' /\ RestoresAlone'
          /\ \A d \in Calls : Answered(d)' => Unseen(d)'
      BY <2>1, <2>2, ReplyStep
    <2>4. TypeOK'  BY <2>1, <2>3 DEF IInv, TypeOK
    <2> QED  BY <2>3, <2>4 DEF IInv
  <1>2. CASE call[c].token \in live
    <2>1. /\ Exchanging(c) /\ call[c].reply = "none" /\ issued < MaxPairs
          /\ issued' = new
          /\ live' = (live \ {call[c].token}) \cup {new}
          /\ fresh' = fresh \cup {new}
          /\ rotated' = rotated \cup {call[c].token}
          /\ UNCHANGED <<kept, status, isRefreshing, lost, mixed, reloads>>
      BY <1>2 DEF Exchange
    <2>2. call' = [call EXCEPT ![c].reply = "ok", ![c].pair = new]
      BY <1>2 DEF Exchange
    <2>3. issued \in 1..MaxPairs /\ new \in 1..MaxPairs /\ new \in 0..MaxPairs
      BY <2>1, WebAssumption DEF IInv, TypeOK, Pairs
    <2>4. call \in [Calls -> Call] /\ call[c] \in Call  BY DEF IInv, TypeOK
    <2>5. \A d \in Calls : d # c => call'[d] = call[d]  BY <2>2, <2>4
    <2>6. /\ call'[c] \in Call /\ call'[c].reply = "ok" /\ call'[c].pair = new
          /\ call'[c].stage = call[c].stage /\ call'[c].kind = call[c].kind
          /\ call'[c].token = call[c].token
      <3> DEFINE answer == [call[c] EXCEPT !.reply = "ok"]
      <3>1. /\ answer \in Call /\ answer.reply = "ok"
            /\ answer.stage = call[c].stage /\ answer.kind = call[c].kind
            /\ answer.token = call[c].token
        BY <2>4 DEF Call, Reply
      <3>2. call'[c] = [answer EXCEPT !.pair = new]  BY <2>2, <2>4
      <3> HIDE DEF answer
      <3> QED  BY <2>3, <3>1, <3>2 DEF Call
    <2>7. call' \in [Calls -> Call]
      <3>1. \A d \in Calls : call'[d] \in Call  BY <2>4, <2>5, <2>6
      <3>2. call' = [d \in Calls |-> call'[d]]  BY <2>2, <2>4
      <3> QED  BY <3>1, <3>2
    <2> HIDE DEF new
    <2>8. \A d \in Calls : /\ call'[d].stage = call[d].stage
                           /\ call'[d].kind = call[d].kind
                           /\ call'[d].token = call[d].token
                           /\ call'[d].pair \in {call[d].pair, new}
      BY <2>5, <2>6
    <2>9. /\ \A d \in Calls : call[d].token <= issued /\ call[d].pair <= issued
          /\ \A d \in Calls : call[d].token \in Nat /\ call[d].pair \in Nat
          /\ kept \in Nat /\ kept <= issued
      BY <2>4, WebAssumption DEF IInv, Numbered, TypeOK, Call
    <2>a. new = issued + 1  BY DEF new
    <2>10. /\ 1..issued \subseteq 1..new /\ new \notin 1..issued /\ new \in 1..new
           /\ kept # new /\ \A d \in Calls : call[d].token # new /\ call[d].pair # new
      BY <2>3, <2>9, <2>a
    <2>11. TypeOK'
      <3>1. \A d \in Calls : Exchanging(d)' => call'[d].token # 0
        BY <2>8 DEF IInv, TypeOK, Exchanging
      <3>2. call[c].token \in 1..issued
        BY <1>2 DEF IInv, TypeOK
      <3>3. rotated' \subseteq (1..new) \ live'
        BY <2>1, <2>10, <3>2 DEF IInv, TypeOK
      <3>4. live' \subseteq 1..new /\ fresh' \subseteq 1..new /\ lost' \subseteq 1..new
        BY <2>1, <2>10 DEF IInv, TypeOK
      <3> QED  BY <2>1, <2>3, <2>7, <3>1, <3>3, <3>4 DEF IInv, TypeOK, Pairs
    <2>12. Numbered'
      BY <2>1, <2>3, <2>8, <2>9, <2>a DEF Numbered
    <2>13. FlagHasLeader'  BY <2>1, <2>8, SameLeaders DEF IInv, Leading
    <2>14. RestoresAlone'  BY <2>1, <2>8, AloneKept DEF Restoring
    <2>15. ASSUME NEW d \in Calls, Answered(d)' PROVE Unseen(d)'
      <3>1. CASE d = c
        <4>1. \A e \in Calls : Answered(e)' /\ call'[e].pair = new => e = c
          BY <2>5, <2>10
        <4>2. new \notin rotated'
          BY <1>2, <2>1, <2>10 DEF IInv, TypeOK
        <4> QED  BY <2>1, <2>6, <2>8, <2>10, <3>1, <4>1, <4>2 DEF Unseen
      <3>2. CASE d # c
        <4>1. Answered(d) /\ call'[d].pair = call[d].pair
          BY <2>5, <2>15, <3>2 DEF Answered, Exchanging
        <4>2. Unseen(d)  BY <4>1 DEF IInv
        <4>3. call[c].token # call[d].pair /\ call[d].pair # new
          BY <2>10, <4>2 DEF Unseen
        <4>4. \A e \in Calls : Answered(e)' /\ call'[e].pair = call[d].pair => e = d
          BY <2>5, <2>6, <4>2, <4>3 DEF Unseen, Answered, Exchanging
        <4>5. call[d].pair \in (1..issued') \ rotated' /\ call[d].pair # kept'
          BY <2>1, <2>10, <4>2, <4>3 DEF Unseen
        <4>6. \A e \in Calls : call'[e].token # call[d].pair
          BY <2>8, <4>2 DEF Unseen
        <4> QED  BY <4>1, <4>4, <4>5, <4>6 DEF Unseen
      <3> QED  BY <3>1, <3>2
    <2> QED  BY <2>11, <2>12, <2>13, <2>14, <2>15 DEF IInv
  <1> QED  BY <1>1, <1>2

(***************************************************************************)
(* The page handles an answer: one call moves on, or ends.                 *)
(***************************************************************************)
LEMMA MoveStep ==
    ASSUME IInv, NEW c \in Calls, call[c].stage # "idle",
           NEW r \in Call, call' = [call EXCEPT ![c] = r],
           r.token \in {call[c].token, kept, 0}, r.pair \in {call[c].pair, 0},
           r.reply = "none", r.stage \in {"refreshing", "restoring"} => r.token # 0,
           r.stage = "restoring" \/ (r.stage # "idle" /\ r.kind = "restore")
             => Restoring(c) /\ UNCHANGED status,
           kept' \in {kept, 0}, UNCHANGED <<issued, rotated>>,
           \A t \in Tabs : t # TabOf(c) => status'[t] = status[t]
    PROVE  /\ call' \in [Calls -> Call] /\ call'[c] = r
           /\ \A d \in Calls : d # c => call'[d] = call[d]
           /\ \A d \in Calls : Exchanging(d)' => call'[d].token # 0
           /\ Numbered' /\ RestoresAlone'
           /\ \A d \in Calls : Answered(d)' => Unseen(d)'
  <1>1. call \in [Calls -> Call] /\ kept \in Nat /\ issued \in Nat
    BY WebAssumption DEF IInv, TypeOK, Pairs
  <1>2. call' \in [Calls -> Call] /\ call'[c] = r
    BY <1>1
  <1>3. \A d \in Calls : d # c => call'[d] = call[d]  BY <1>1
  <1>4. \A d \in Calls : Exchanging(d)' => call'[d].token # 0
    BY <1>2, <1>3 DEF IInv, TypeOK, Exchanging
  <1>5. Numbered'
    BY <1>1, <1>2, <1>3 DEF IInv, Numbered
  <1>6. RestoresAlone'
    <2>1. ASSUME NEW d \in Calls, Restoring(d)'
          PROVE  Restoring(d) /\ status'[TabOf(d)] = status[TabOf(d)]
      <3>1. CASE d = c
        BY <1>2, <2>1, <3>1 DEF Restoring
      <3>2. CASE d # c
        <4>1. Restoring(d)  BY <1>3, <2>1, <3>2 DEF Restoring
        <4>2. TabOf(d) # TabOf(c)
          BY <3>2, <4>1 DEF IInv, RestoresAlone, UnderWay
        <4> QED  BY <4>1, <4>2, TabOfCall
      <3> QED  BY <3>1, <3>2
    <2>2. \A d \in Calls : call'[d].stage # "idle" => call[d].stage # "idle"
      BY <1>3
    <2> QED  BY <2>1, <2>2, AloneKept
  <1>7. \A d \in Calls : Answered(d)' => Unseen(d)'
    <2>1. \A d \in Calls : call'[d].token \in {call[d].token, kept, 0, issued + 1}
      BY <1>2, <1>3
    <2>2. \A d \in Calls : Answered(d)' => Answered(d) /\ call'[d].pair = call[d].pair
      BY <1>2, <1>3 DEF Answered, Exchanging
    <2> QED  BY <1>1, <2>1, <2>2, UnseenKept
  <1> QED  BY <1>2, <1>3, <1>4, <1>5, <1>6, <1>7

LEMMA IdleFields ==
    /\ Idle \in Call /\ Idle.stage = "idle" /\ Idle.token = 0
    /\ Idle.pair = 0 /\ Idle.reply = "none" /\ Idle.kind = "page"
  BY IdleCall DEF Idle

\* What a call's caller makes of the session.
Status == {"initializing", "authenticated", "unauthenticated"}

LEMMA SetStatusType ==
    ASSUME IInv, NEW t \in Tabs, NEW s \in Status, SetStatus(t, s)
    PROVE  /\ status' \in [Tabs -> Status]
           /\ \A u \in Tabs : u # t => status'[u] = status[u]
  BY DEF IInv, TypeOK, SetStatus, Status

LEMMA SucceedStep ==
    ASSUME IInv, NEW c \in Calls, Succeed(c)
    PROVE  IInv'
  <1> DEFINE t == TabOf(c)
  <1>1. /\ call[c].stage \in {"sent", "again", "retrying"}
        /\ call' = [call EXCEPT ![c] = Idle]
        /\ isRefreshing' = [isRefreshing EXCEPT ![t] = @ /\ call[c].stage # "retrying"]
        /\ UNCHANGED <<issued, live, fresh, rotated, lost, mixed, reloads>>
    BY DEF Succeed, server, Lower
  <1>2. t \in Tabs  BY TabOfCall
  <1>3. /\ kept' \in {kept, 0} /\ status' \in [Tabs -> Status]
        /\ \A u \in Tabs : u # t => status'[u] = status[u]
    <2>1. CASE call[c].kind = "page"
      <3>1. UNCHANGED <<kept, status>>  BY <2>1 DEF Succeed
      <3> QED  BY <3>1 DEF IInv, TypeOK, Status
    <2>2. CASE call[c].kind = "logout"
      <3>1. kept' = 0 /\ SetStatus(t, "unauthenticated")  BY <2>2 DEF Succeed
      <3>2. "unauthenticated" \in Status  BY DEF Status
      <3> QED  BY <1>2, <3>1, <3>2, SetStatusType
    <2>3. CASE call[c].kind \notin {"page", "logout"}
      <3>1. kept' = kept /\ SetStatus(t, "authenticated")  BY <2>3 DEF Succeed
      <3>2. "authenticated" \in Status  BY DEF Status
      <3> QED  BY <1>2, <3>1, <3>2, SetStatusType
    <2> QED  BY <2>1, <2>2, <2>3
  <1>4. /\ call' \in [Calls -> Call] /\ call'[c] = Idle
        /\ \A d \in Calls : d # c => call'[d] = call[d]
        /\ \A d \in Calls : Exchanging(d)' => call'[d].token # 0
        /\ Numbered' /\ RestoresAlone'
        /\ \A d \in Calls : Answered(d)' => Unseen(d)'
    BY <1>1, <1>3, IdleFields, MoveStep
  <1>5. TypeOK'
    <2>1. isRefreshing' \in [Tabs -> BOOLEAN]  BY <1>1 DEF IInv, TypeOK
    <2>2. kept' \in 0..MaxPairs  BY <1>3, WebAssumption DEF IInv, TypeOK
    <2> QED  BY <1>1, <1>3, <1>4, <2>1, <2>2 DEF IInv, TypeOK, Status
  <1>6. FlagHasLeader'
    <2>1. CASE call[c].stage # "retrying"
      <3>1. UNCHANGED isRefreshing
        <4>1. isRefreshing[t] \in BOOLEAN  BY <1>2 DEF IInv, TypeOK
        <4> QED  BY <1>1, <2>1, <4>1 DEF IInv, TypeOK
      <3>2. \A d \in Calls : Leading(d)' <=> Leading(d)
        BY <1>1, <1>4, <2>1, IdleFields DEF Leading
      <3> QED  BY <3>1, <3>2, SameLeaders DEF IInv
    <2>2. CASE call[c].stage = "retrying"
      <3>1. /\ isRefreshing'[t] = FALSE
            /\ \A u \in Tabs : u # t => isRefreshing'[u] = isRefreshing[u]
        BY <1>1, <1>2, <2>2 DEF IInv, TypeOK
      <3>2. \A d \in Calls : Leading(d)' <=> Leading(d) /\ d # c
        BY <1>4, IdleFields DEF Leading
      <3>3. \A d \in Calls : TabOf(d) = t => ~Leading(d)'
        BY <1>1, <2>2, <3>2, <1>2 DEF IInv, FlagHasLeader, UnderWay, Leading
      <3> QED  BY <1>4, <3>1, <3>2, <3>3 DEF IInv, FlagHasLeader, UnderWay, Leading
    <2> QED  BY <2>1, <2>2
  <1> QED  BY <1>4, <1>5, <1>6 DEF IInv

LEMMA RejectStep ==
    ASSUME IInv, NEW c \in Calls, Reject(c)
    PROVE  IInv'
  <1> DEFINE t == TabOf(c)
             again == call[c].kind = "restore" /\ kept # 0
             r == IF again THEN Sent(call[c], "restoring", kept) ELSE Idle
  <1>1. /\ call[c].stage \in {"sent", "again"}
        /\ UNCHANGED <<isRefreshing, issued, live, fresh, rotated, lost, mixed, reloads>>
    BY DEF Reject, Rejected, server
  <1>2. t \in Tabs /\ call \in [Calls -> Call] /\ kept \in 0..MaxPairs
    BY TabOfCall DEF IInv, TypeOK
  <1>3. call' = [call EXCEPT ![c] = r]
    BY <1>2 DEF Reject
  <1>4. CASE again
    <2>1. UNCHANGED <<kept, status>>  BY <1>4 DEF Reject
    <2>2. "restoring" \in Stage /\ call[c] \in Call  BY <1>2 DEF Stage
    <2>3. /\ r \in Call /\ r.stage = "restoring" /\ r.kind = "restore"
          /\ r.token = kept /\ r.pair = 0 /\ r.reply = "none"
      BY <1>2, <1>4, <2>2, SentCall
    <2>4. Restoring(c)  BY <1>1, <1>4 DEF Restoring
    <2> HIDE DEF r
    <2>5. /\ call' \in [Calls -> Call] /\ call'[c] = r
          /\ \A d \in Calls : d # c => call'[d] = call[d]
          /\ \A d \in Calls : Exchanging(d)' => call'[d].token # 0
          /\ Numbered' /\ RestoresAlone'
          /\ \A d \in Calls : Answered(d)' => Unseen(d)'
      BY <1>1, <1>3, <1>4, <2>1, <2>3, <2>4, MoveStep
    <2>6. TypeOK'  BY <1>1, <2>1, <2>5 DEF IInv, TypeOK
    <2>7. FlagHasLeader'
      <3>1. \A d \in Calls : Leading(d)' <=> Leading(d)
        BY <1>1, <2>3, <2>5 DEF Leading
      <3> QED  BY <1>1, <3>1, SameLeaders DEF IInv
    <2> QED  BY <2>5, <2>6, <2>7 DEF IInv
  <1>5. CASE ~again
    <2>1. /\ kept' \in {kept, 0} /\ status' \in [Tabs -> Status]
          /\ \A u \in Tabs : u # t => status'[u] = status[u]
      <3>1. CASE call[c].kind = "page"
        <4>1. UNCHANGED <<kept, status>>  BY <3>1 DEF Reject
        <4> QED  BY <4>1 DEF IInv, TypeOK, Status
      <3>2. CASE call[c].kind = "login"
        <4>1. kept' = kept /\ SetStatus(t, "unauthenticated")  BY <3>2 DEF Reject
        <4>2. "unauthenticated" \in Status  BY DEF Status
        <4> QED  BY <1>2, <4>1, <4>2, SetStatusType
      <3>3. CASE call[c].kind \notin {"page", "login"}
        <4>1. kept' = 0 /\ SetStatus(t, "unauthenticated")
          BY <1>5, <3>3 DEF Reject
        <4>2. "unauthenticated" \in Status  BY DEF Status
        <4> QED  BY <1>2, <4>1, <4>2, SetStatusType
      <3> QED  BY <3>1, <3>2, <3>3
    <2>2. r = Idle  BY <1>5
    <2> HIDE DEF r
    <2>3. /\ call' \in [Calls -> Call] /\ call'[c] = r
          /\ \A d \in Calls : d # c => call'[d] = call[d]
          /\ \A d \in Calls : Exchanging(d)' => call'[d].token # 0
          /\ Numbered' /\ RestoresAlone'
          /\ \A d \in Calls : Answered(d)' => Unseen(d)'
      BY <1>1, <1>3, <2>1, <2>2, IdleFields, MoveStep
    <2>4. kept' \in 0..MaxPairs  BY <1>2, <2>1, WebAssumption
    <2>5. TypeOK'  BY <1>1, <2>1, <2>3, <2>4 DEF IInv, TypeOK, Status
    <2>6. FlagHasLeader'
      <3>1. \A d \in Calls : Leading(d)' <=> Leading(d)
        BY <1>1, <2>2, <2>3, IdleFields DEF Leading
      <3> QED  BY <1>1, <3>1, SameLeaders DEF IInv
    <2> QED  BY <2>3, <2>5, <2>6 DEF IInv
  <1> QED  BY <1>4, <1>5

LEMMA NotRestoredStep ==
    ASSUME IInv, NEW c \in Calls, NotRestored(c)
    PROVE  IInv'
  <1> DEFINE t == TabOf(c)
  <1>1. /\ call[c].stage = "restoring" /\ kept' = 0
        /\ SetStatus(t, "unauthenticated")
        /\ call' = [call EXCEPT ![c] = Idle]
        /\ UNCHANGED <<isRefreshing, issued, live, fresh, rotated, lost, mixed, reloads>>
    BY DEF NotRestored, server
  <1>2. t \in Tabs /\ "unauthenticated" \in Status  BY TabOfCall DEF Status
  <1>3. /\ status' \in [Tabs -> Status]
        /\ \A u \in Tabs : u # t => status'[u] = status[u]
    BY <1>1, <1>2, SetStatusType
  <1>4. /\ call' \in [Calls -> Call] /\ call'[c] = Idle
        /\ \A d \in Calls : d # c => call'[d] = call[d]
        /\ \A d \in Calls : Exchanging(d)' => call'[d].token # 0
        /\ Numbered' /\ RestoresAlone'
        /\ \A d \in Calls : Answered(d)' => Unseen(d)'
    BY <1>1, <1>3, IdleFields, MoveStep
  <1>5. TypeOK'  BY <1>1, <1>3, <1>4, WebAssumption DEF IInv, TypeOK, Status
  <1>6. FlagHasLeader'
    <2>1. \A d \in Calls : Leading(d)' <=> Leading(d)
      BY <1>1, <1>4, IdleFields DEF Leading
    <2> QED  BY <1>1, <2>1, SameLeaders DEF IInv
  <1> QED  BY <1>4, <1>5, <1>6 DEF IInv

\* A new pair arrives: it is stored, and sent with what is retried.
LEMMA ArriveUnseen ==
    ASSUME IInv, NEW c \in Calls, Answered(c), ~Answered(c)',
           kept' = call[c].pair, UNCHANGED <<issued, rotated>>,
           \A d \in Calls : call'[d].token \in {call[d].token, call[c].pair},
           \A d \in Calls : Answered(d)' => Answered(d) /\ call'[d].pair = call[d].pair
    PROVE  \A d \in Calls : Answered(d)' => Unseen(d)'
  <1> SUFFICES ASSUME NEW d \in Calls, Answered(d)' PROVE Unseen(d)'  OBVIOUS
  <1>1. Unseen(d) /\ Answered(d) /\ call'[d].pair = call[d].pair /\ d # c
    BY DEF IInv
  <1>2. call[d].pair # call[c].pair  BY <1>1 DEF Unseen
  <1>3. \A e \in Calls : call'[e].token # call[d].pair
    BY <1>1, <1>2 DEF Unseen
  <1> QED  BY <1>1, <1>2, <1>3 DEF Unseen

LEMMA RestoredStep ==
    ASSUME IInv, NEW c \in Calls, Restored(c)
    PROVE  IInv'
  <1> DEFINE named == [call[c] EXCEPT !.kind = "restored"]
             r == Sent(named, "sent", call[c].pair)
  <1>1. /\ Answered(c) /\ call[c].stage = "restoring" /\ kept' = call[c].pair
        /\ UNCHANGED <<status, isRefreshing, issued, live, fresh, rotated, lost, mixed, reloads>>
    BY DEF Restored, Store, server, Answered, Exchanging
  <1>2. call \in [Calls -> Call] /\ call[c] \in Call /\ issued \in Nat
    BY WebAssumption DEF IInv, TypeOK, Pairs
  <1>3. call' = [call EXCEPT ![c] = r]  BY DEF Restored
  <1>4. named \in Call /\ named.kind = "restored"
    BY <1>2 DEF Call, Kind
  <1>5. "sent" \in Stage /\ call[c].pair \in 0..MaxPairs  BY <1>2 DEF Stage, Call
  <1> HIDE DEF named
  <1>6. /\ r \in Call /\ r.stage = "sent" /\ r.kind = "restored"
        /\ r.token = call[c].pair /\ r.pair = 0 /\ r.reply = "none"
    BY <1>4, <1>5, SentCall
  <1> HIDE DEF r
  <1>7. /\ call' \in [Calls -> Call] /\ call'[c] = r
        /\ \A d \in Calls : d # c => call'[d] = call[d]
    BY <1>2, <1>3, <1>6
  <1>8. TypeOK'
    <2>1. \A d \in Calls : Exchanging(d)' => call'[d].token # 0
      BY <1>6, <1>7 DEF IInv, TypeOK, Exchanging
    <2> QED  BY <1>1, <1>5, <1>7, <2>1 DEF IInv, TypeOK
  <1>9. Numbered'
    BY <1>1, <1>2, <1>6, <1>7 DEF IInv, Numbered
  <1>10. FlagHasLeader'
    <2>1. \A d \in Calls : Leading(d)' <=> Leading(d)
      BY <1>1, <1>6, <1>7 DEF Leading
    <2> QED  BY <1>1, <2>1, SameLeaders DEF IInv
  <1>11. \A d \in Calls : Answered(d)' => Unseen(d)'
    BY <1>1, <1>6, <1>7, ArriveUnseen DEF Answered, Exchanging
  <1>12. RestoresAlone'
    BY <1>1, <1>6, <1>7, AloneKept DEF Restoring
  <1> QED  BY <1>8, <1>9, <1>10, <1>11, <1>12 DEF IInv

LEMMA SubscribeStep ==
    ASSUME IInv, NEW c \in Calls, Subscribe(c)
    PROVE  IInv'
  <1> DEFINE queued == [call[c] EXCEPT !.stage = "queued"]
             r == [queued EXCEPT !.reply = "none"]
  <1>1. /\ call[c].stage = "sent"
        /\ UNCHANGED <<kept, status, isRefreshing, issued, live, fresh, rotated, lost, mixed, reloads>>
    BY DEF Subscribe, Unauthorized, server
  <1>2. call \in [Calls -> Call] /\ call[c] \in Call  BY DEF IInv, TypeOK
  <1>3. call' = [call EXCEPT ![c] = r]  BY <1>2 DEF Subscribe
  <1>4. /\ queued \in Call /\ queued.stage = "queued" /\ queued.kind = call[c].kind
        /\ queued.token = call[c].token /\ queued.pair = call[c].pair
    BY <1>2 DEF Call, Stage
  <1>5. /\ r \in Call /\ r.stage = "queued" /\ r.kind = call[c].kind
        /\ r.token = call[c].token /\ r.pair = call[c].pair /\ r.reply = "none"
    <2> HIDE DEF queued
    <2> QED  BY <1>4 DEF Call, Reply
  <1> HIDE DEF r
  <1>6. r.kind = "restore" => Restoring(c)  BY <1>1, <1>5 DEF Restoring
  <1>7. /\ call' \in [Calls -> Call] /\ call'[c] = r
        /\ \A d \in Calls : d # c => call'[d] = call[d]
        /\ \A d \in Calls : Exchanging(d)' => call'[d].token # 0
        /\ Numbered' /\ RestoresAlone'
        /\ \A d \in Calls : Answered(d)' => Unseen(d)'
    BY <1>1, <1>3, <1>5, <1>6, MoveStep
  <1>8. TypeOK'  BY <1>1, <1>7 DEF IInv, TypeOK
  <1>9. FlagHasLeader'
    <2>1. \A d \in Calls : Leading(d)' <=> Leading(d)
      BY <1>1, <1>5, <1>7 DEF Leading
    <2> QED  BY <1>1, <2>1, SameLeaders DEF IInv
  <1> QED  BY <1>7, <1>8, <1>9 DEF IInv

\* The flag was down, so nobody led: now c does.
LEMMA LeadStep ==
    ASSUME IInv, NEW c \in Calls, Lead(c)
    PROVE  IInv'
  <1> DEFINE t == TabOf(c)
             r == Sent(call[c], "refreshing", kept)
  <1>1. /\ call[c].stage = "sent" /\ ~isRefreshing[t] /\ kept # 0
        /\ isRefreshing' = [isRefreshing EXCEPT ![t] = TRUE]
        /\ UNCHANGED <<kept, status, issued, live, fresh, rotated, lost, mixed, reloads>>
    BY DEF Lead, Unauthorized, server
  <1>2. /\ t \in Tabs /\ call \in [Calls -> Call] /\ call[c] \in Call
        /\ kept \in 0..MaxPairs /\ "refreshing" \in Stage
    BY TabOfCall DEF IInv, TypeOK, Stage
  <1>3. call' = [call EXCEPT ![c] = r]  BY <1>2 DEF Lead
  <1>4. /\ r \in Call /\ r.stage = "refreshing" /\ r.kind = call[c].kind
        /\ r.token = kept /\ r.pair = 0 /\ r.reply = "none"
    BY <1>2, SentCall
  <1> HIDE DEF r
  <1>5. r.kind = "restore" => Restoring(c)  BY <1>1, <1>4 DEF Restoring
  <1>6. /\ call' \in [Calls -> Call] /\ call'[c] = r
        /\ \A d \in Calls : d # c => call'[d] = call[d]
        /\ \A d \in Calls : Exchanging(d)' => call'[d].token # 0
        /\ Numbered' /\ RestoresAlone'
        /\ \A d \in Calls : Answered(d)' => Unseen(d)'
    BY <1>1, <1>3, <1>4, <1>5, MoveStep
  <1>7. TypeOK'
    <2>1. isRefreshing' \in [Tabs -> BOOLEAN]  BY <1>1 DEF IInv, TypeOK
    <2> QED  BY <1>1, <1>6, <2>1 DEF IInv, TypeOK
  <1>8. FlagHasLeader'
    <2>1. /\ isRefreshing'[t] = TRUE
          /\ \A u \in Tabs : u # t => isRefreshing'[u] = isRefreshing[u]
      BY <1>1, <1>2 DEF IInv, TypeOK
    <2>2. \A d \in Calls : Leading(d)' <=> Leading(d) \/ d = c
      BY <1>4, <1>6 DEF Leading
    <2>3. \A d \in Calls : TabOf(d) = t => ~Leading(d)
      BY <1>1, <1>2 DEF IInv, FlagHasLeader, UnderWay, Leading
    <2>4. \A d \in Calls : d # c => (call'[d].stage # "idle" <=> call[d].stage # "idle")
      BY <1>6
    <2>5. ASSUME NEW u \in Tabs, u = t
          PROVE  /\ isRefreshing'[u] <=> \E d \in UnderWay(u)' : Leading(d)'
                 /\ \A d, e \in UnderWay(u)' : Leading(d)' /\ Leading(e)' => d = e
      <3>1. c \in UnderWay(u)' /\ Leading(c)'
        BY <1>4, <1>6, <2>2, <2>5 DEF UnderWay
      <3> QED  BY <2>1, <2>2, <2>3, <2>5, <3>1 DEF UnderWay
    <2>6. ASSUME NEW u \in Tabs, u # t
          PROVE  /\ isRefreshing'[u] <=> \E d \in UnderWay(u)' : Leading(d)'
                 /\ \A d, e \in UnderWay(u)' : Leading(d)' /\ Leading(e)' => d = e
      <3>1. UnderWay(u)' = UnderWay(u)  BY <2>4, <2>6 DEF UnderWay
      <3>2. \A d \in UnderWay(u) : Leading(d)' <=> Leading(d)
        BY <2>2, <2>6 DEF UnderWay
      <3> QED  BY <2>1, <2>6, <3>1, <3>2 DEF IInv, FlagHasLeader
    <2> QED  BY <2>5, <2>6 DEF FlagHasLeader
  <1> QED  BY <1>6, <1>7, <1>8 DEF IInv

\* The leader is retried with the new pair, and so are its subscribers.
LEMMA RefreshedCalls ==
    ASSUME IInv, NEW c \in Calls, Refreshed(c)
    PROVE  LET new == call[c].pair
               Retry(d, stage) ==
                 /\ call'[d] \in Call /\ call'[d].stage = stage
                 /\ call'[d].kind = call[d].kind /\ call'[d].token = new
                 /\ call'[d].pair = 0 /\ call'[d].reply = "none"
           IN  /\ call' = [d \in Calls |-> call'[d]]
               /\ Retry(c, "retrying")
               /\ c \notin Subscribers(TabOf(c))
               /\ \A d \in Subscribers(TabOf(c)) : Retry(d, "again")
               /\ \A d \in Calls \ Subscribers(TabOf(c)) : d # c => call'[d] = call[d]
  <1> DEFINE t == TabOf(c)
             new == call[c].pair
             Retry(d, stage) ==
               /\ call'[d] \in Call /\ call'[d].stage = stage
               /\ call'[d].kind = call[d].kind /\ call'[d].token = new
               /\ call'[d].pair = 0 /\ call'[d].reply = "none"
  <1>1. call' = [d \in Calls |->
                   CASE d = c -> Sent(call[d], "retrying", new)
                     [] d \in Subscribers(t) -> Sent(call[d], "again", new)
                     [] OTHER -> call[d]]
    BY DEF Refreshed, Retried, Notified
  <1>2. c \notin Subscribers(t) /\ Subscribers(t) \subseteq Calls
    BY DEF Refreshed, Subscribers, UnderWay
  <1>3. /\ call' = [d \in Calls |-> call'[d]]
        /\ call'[c] = Sent(call[c], "retrying", new)
        /\ \A d \in Subscribers(t) : call'[d] = Sent(call[d], "again", new)
        /\ \A d \in Calls : d # c /\ d \notin Subscribers(t) => call'[d] = call[d]
    BY <1>1, <1>2, Zenon
  <1>4. call \in [Calls -> Call] /\ new \in 0..MaxPairs
    BY DEF IInv, TypeOK, Call
  <1>5. "retrying" \in Stage /\ "again" \in Stage  BY DEF Stage
  <1>6. Retry(c, "retrying")  BY <1>3, <1>4, <1>5, SentCall
  <1>7. ASSUME NEW d \in Subscribers(t) PROVE Retry(d, "again")
    BY <1>2, <1>3, <1>4, <1>5, SentCall
  <1> QED  BY <1>2, <1>3, <1>6, <1>7

\* The leader stays the leader, its subscribers are retried.
LEMMA RefreshedStep ==
    ASSUME IInv, NEW c \in Calls, Refreshed(c)
    PROVE  IInv'
  <1> DEFINE t == TabOf(c)
             new == call[c].pair
  <1>1. /\ call[c].stage = "refreshing" /\ Answered(c) /\ kept' = new
        /\ UNCHANGED <<status, isRefreshing, issued, live, fresh, rotated, lost, mixed, reloads>>
    BY DEF Refreshed, Store, server, Answered, Exchanging
  <1>2. call \in [Calls -> Call] /\ new \in 0..MaxPairs /\ issued \in Nat
    BY WebAssumption DEF IInv, TypeOK, Call, Pairs
  <1>3. /\ call' = [d \in Calls |-> call'[d]] /\ c \notin Subscribers(t)
        /\ \A d \in Calls : d # c /\ d \notin Subscribers(t) => call'[d] = call[d]
    BY RefreshedCalls
  <1>4. \A d \in Subscribers(t) : d \in Calls /\ call[d].stage = "queued"
    BY DEF Subscribers, UnderWay
  <1>6. /\ call'[c] \in Call /\ call'[c].stage = "retrying"
        /\ call'[c].kind = call[c].kind /\ call'[c].token = new
        /\ call'[c].pair = 0 /\ call'[c].reply = "none"
    BY RefreshedCalls
  <1>7. ASSUME NEW d \in Subscribers(t)
        PROVE  /\ call'[d] \in Call /\ call'[d].stage = "again"
               /\ call'[d].kind = call[d].kind /\ call'[d].token = new
               /\ call'[d].pair = 0 /\ call'[d].reply = "none"
    BY RefreshedCalls
  <1> HIDE DEF new
  <1>8. call' \in [Calls -> Call]
    <2>1. \A d \in Calls : call'[d] \in Call  BY <1>2, <1>3, <1>6, <1>7
    <2> QED  BY <1>3, <2>1
  <1>9. \A d \in Calls : Leading(d)' <=> Leading(d)
    BY <1>1, <1>3, <1>4, <1>6, <1>7 DEF Leading
  <1>10. \A d \in Calls : Exchanging(d)' => Exchanging(d) /\ call'[d] = call[d] /\ d # c
    BY <1>3, <1>6, <1>7 DEF Exchanging
  <1>11. TypeOK'
    <2>1. \A d \in Calls : Exchanging(d)' => call'[d].token # 0
      BY <1>10 DEF IInv, TypeOK
    <2> QED  BY <1>1, <1>2, <1>8, <2>1 DEF IInv, TypeOK
  <1>12. Numbered'
    <2>1. new <= issued  BY DEF IInv, Numbered, new
    <2>2. ASSUME NEW d \in Calls
          PROVE  call'[d].token <= issued /\ call'[d].pair <= issued
      <3>1. \/ call'[d] = call[d]
            \/ call'[d].token = new /\ call'[d].pair = 0
        BY <1>3, <1>6, <1>7
      <3> QED  BY <1>2, <2>1, <3>1 DEF IInv, Numbered
    <2> QED  BY <1>1, <2>1, <2>2 DEF Numbered
  <1>13. FlagHasLeader'  BY <1>1, <1>9, SameLeaders DEF IInv
  <1>14. \A d \in Calls : Answered(d)' => Unseen(d)'
    <2>1. \A d \in Calls : call'[d].token \in {call[d].token, call[c].pair}
      BY <1>3, <1>6, <1>7 DEF new
    <2>2. \A d \in Calls : Answered(d)' => Answered(d) /\ call'[d].pair = call[d].pair
      BY <1>10 DEF Answered
    <2>3. ~Answered(c)'  BY <1>10 DEF Answered
    <2> QED  BY <1>1, <2>1, <2>2, <2>3, ArriveUnseen DEF new
  <1>15. RestoresAlone'
    <2>1. ASSUME NEW d \in Calls
          PROVE  /\ call'[d].stage # "idle" => call[d].stage # "idle"
                 /\ Restoring(d)' => Restoring(d)
      BY <1>1, <1>3, <1>4, <1>6, <1>7 DEF Restoring
    <2> QED  BY <1>1, <2>1, AloneKept
  <1> QED  BY <1>11, <1>12, <1>13, <1>14, <1>15 DEF IInv

(***************************************************************************)
(* Steps that end several calls of one page at once.                       *)
(***************************************************************************)
LEMMA EndStep ==
    ASSUME IInv, NEW t \in Tabs, NEW ended \in SUBSET Calls,
           call' = [d \in Calls |-> IF d \in ended THEN Idle ELSE call[d]],
           \A d \in ended : TabOf(d) = t,
           \A d \in Calls : TabOf(d) = t /\ Leading(d) => d \in ended,
           isRefreshing' = [isRefreshing EXCEPT ![t] = FALSE],
           \A u \in Tabs : u # t => status'[u] = status[u],
           \A d \in Calls : TabOf(d) = t /\ Restoring(d) => d \in ended,
           kept' \in {kept, 0}, UNCHANGED issued
    PROVE  /\ call' \in [Calls -> Call] /\ isRefreshing' \in [Tabs -> BOOLEAN]
           /\ \A d \in ended : call'[d] = Idle
           /\ \A d \in Calls : d \notin ended => call'[d] = call[d]
           /\ \A d \in Calls : Exchanging(d)' => call'[d].token # 0
           /\ Numbered' /\ FlagHasLeader' /\ RestoresAlone'
           /\ UNCHANGED rotated => \A d \in Calls : Answered(d)' => Unseen(d)'
  <1>1. /\ call \in [Calls -> Call] /\ issued \in Nat /\ kept \in Nat
        /\ isRefreshing \in [Tabs -> BOOLEAN]
    BY WebAssumption DEF IInv, TypeOK, Pairs
  <1>2. \A d \in ended : call'[d] = Idle  OBVIOUS
  <1>3. \A d \in Calls : d \notin ended => call'[d] = call[d]  OBVIOUS
  <1>4. call' \in [Calls -> Call]  BY <1>1, IdleFields
  <1>5. \A d \in Calls : Exchanging(d)' => call'[d].token # 0
    BY <1>2, <1>3, IdleFields DEF IInv, TypeOK, Exchanging
  <1>6. Numbered'
    BY <1>1, <1>2, <1>3, IdleFields DEF IInv, Numbered
  <1>7. FlagHasLeader'
    <2>1. /\ isRefreshing'[t] = FALSE
          /\ \A u \in Tabs : u # t => isRefreshing'[u] = isRefreshing[u]
      BY <1>1
    <2>2. \A d \in Calls : Leading(d)' <=> Leading(d) /\ d \notin ended
      BY <1>2, <1>3, IdleFields DEF Leading
    <2>3. ASSUME NEW u \in Tabs, u = t
          PROVE  /\ isRefreshing'[u] <=> \E d \in UnderWay(u)' : Leading(d)'
                 /\ \A d, e \in UnderWay(u)' : Leading(d)' /\ Leading(e)' => d = e
      BY <2>1, <2>2, <2>3 DEF UnderWay
    <2>4. ASSUME NEW u \in Tabs, u # t
          PROVE  /\ isRefreshing'[u] <=> \E d \in UnderWay(u)' : Leading(d)'
                 /\ \A d, e \in UnderWay(u)' : Leading(d)' /\ Leading(e)' => d = e
      <3>1. UnderWay(u)' = UnderWay(u)  BY <1>3, <2>4 DEF UnderWay
      <3>2. \A d \in UnderWay(u) : Leading(d)' <=> Leading(d)
        BY <2>2, <2>4 DEF UnderWay
      <3> QED  BY <2>1, <2>4, <3>1, <3>2 DEF IInv, FlagHasLeader
    <2> QED  BY <2>3, <2>4 DEF FlagHasLeader
  <1>8. RestoresAlone'
    <2>1. \A d \in Calls : call'[d].stage # "idle" => call[d].stage # "idle"
      BY <1>2, <1>3, IdleFields
    <2>2. ASSUME NEW d \in Calls, Restoring(d)'
          PROVE  Restoring(d) /\ status'[TabOf(d)] = status[TabOf(d)]
      <3>1. d \notin ended  BY <1>2, <2>2, IdleFields DEF Restoring
      <3>2. Restoring(d)  BY <1>3, <2>2, <3>1 DEF Restoring
      <3> QED  BY <3>1, <3>2, TabOfCall
    <2> QED  BY <2>1, <2>2, AloneKept
  <1>9. ASSUME UNCHANGED rotated
        PROVE  \A d \in Calls : Answered(d)' => Unseen(d)'
    <2>1. \A d \in Calls : call'[d].token \in {call[d].token, kept, 0, issued + 1}
      BY <1>2, <1>3, IdleFields
    <2>2. \A d \in Calls : Answered(d)' => Answered(d) /\ call'[d].pair = call[d].pair
      BY <1>2, <1>3, IdleFields DEF Answered, Exchanging
    <2> QED  BY <1>1, <1>9, <2>1, <2>2, UnseenKept
  <1> QED
    BY <1>1, <1>2, <1>3, <1>4, <1>5, <1>6, <1>7, <1>8, <1>9

LEMMA GiveUpStep ==
    ASSUME IInv, NEW c \in Calls, GiveUp(c)
    PROVE  IInv'
  <1> DEFINE t == TabOf(c)
             ended == {c} \cup Subscribers(t)
  <1>1. /\ GivesUp(c) /\ kept' = 0 /\ SetStatus(t, "unauthenticated")
        /\ isRefreshing' = [isRefreshing EXCEPT ![t] = FALSE]
        /\ UNCHANGED <<issued, live, fresh, rotated, lost, mixed, reloads>>
    BY DEF GiveUp, server
  <1>2. call' = [d \in Calls |-> IF d \in ended THEN Idle ELSE call[d]]
    BY DEF GiveUp
  <1>3. /\ ended \in SUBSET Calls /\ \A d \in ended : TabOf(d) = t
        /\ t \in Tabs /\ "unauthenticated" \in Status /\ c \in ended
    BY TabOfCall DEF Subscribers, UnderWay, Status
  <1>4. call[c].stage # "idle"
    BY <1>1 DEF GivesUp, Unauthorized, Leading
  <1>5. ASSUME NEW d \in Calls, TabOf(d) = t, Leading(d)
        PROVE  d \in ended
    <2>1. isRefreshing[t] /\ d \in UnderWay(t) /\ c \in UnderWay(t)
      BY <1>3, <1>4, <1>5 DEF IInv, FlagHasLeader, UnderWay, Leading
    <2>2. Leading(c)  BY <1>1, <2>1 DEF GivesUp
    <2> QED  BY <1>3, <1>5, <2>1, <2>2 DEF IInv, FlagHasLeader
  <1>6. ASSUME NEW d \in Calls, TabOf(d) = t, Restoring(d)
        PROVE  d \in ended
    <2>1. c \in UnderWay(t)  BY <1>4 DEF UnderWay
    <2> QED  BY <1>3, <1>6, <2>1 DEF IInv, RestoresAlone
  <1>7. /\ status' \in [Tabs -> Status]
        /\ \A u \in Tabs : u # t => status'[u] = status[u]
    BY <1>1, <1>3, SetStatusType
  <1> HIDE DEF ended
  <1>8. /\ call' \in [Calls -> Call] /\ isRefreshing' \in [Tabs -> BOOLEAN]
        /\ \A d \in Calls : Exchanging(d)' => call'[d].token # 0
        /\ Numbered' /\ FlagHasLeader' /\ RestoresAlone'
        /\ \A d \in Calls : Answered(d)' => Unseen(d)'
    BY <1>1, <1>2, <1>3, <1>5, <1>6, <1>7, EndStep
  <1>9. TypeOK'
    BY <1>1, <1>7, <1>8, WebAssumption DEF IInv, TypeOK, Status
  <1> QED  BY <1>8, <1>9 DEF IInv

\* What a reload cuts off was sent with an old pair: no new one is spent.
LEMMA ReloadStep ==
    ASSUME IInv, NEW t \in Tabs, Reload(t)
    PROVE  IInv'
  <1> DEFINE ended == {d \in Calls : TabOf(d) = t}
             cut == {d \in UnderWay(t) : Exchanging(d)}
             gone == {call[c].token : c \in cut}
  <1>1. /\ reloads < MaxReloads /\ reloads' = reloads + 1
        /\ SetStatus(t, "initializing")
        /\ isRefreshing' = [isRefreshing EXCEPT ![t] = FALSE]
        /\ call' = [d \in Calls |-> IF d \in ended THEN Idle ELSE call[d]]
        /\ lost' = lost \cup gone
        /\ UNCHANGED <<kept, issued, fresh, mixed>>
    BY DEF Reload
  <1>2. PICK done \in SUBSET live :
          /\ done \subseteq gone
          /\ live' = live \ done /\ rotated' = rotated \cup done
    BY DEF Reload
  <1>3. /\ status' \in [Tabs -> Status]
        /\ \A u \in Tabs : u # t => status'[u] = status[u]
    <2>1. "initializing" \in Status  BY DEF Status
    <2> QED  BY <1>1, <2>1, SetStatusType
  <1>4. /\ ended \in SUBSET Calls /\ \A d \in ended : TabOf(d) = t
        /\ \A d \in Calls : TabOf(d) = t => d \in ended
    OBVIOUS
  <1>5. \A d \in cut : d \in Calls /\ Exchanging(d) /\ call[d].token \in gone
    BY DEF UnderWay
  <1>a. \A p \in gone : \E d \in cut : call[d].token = p  OBVIOUS
  <1> HIDE DEF ended, cut, gone
  <1>6. /\ call' \in [Calls -> Call] /\ isRefreshing' \in [Tabs -> BOOLEAN]
        /\ \A d \in ended : call'[d] = Idle
        /\ \A d \in Calls : d \notin ended => call'[d] = call[d]
        /\ \A d \in Calls : Exchanging(d)' => call'[d].token # 0
        /\ Numbered' /\ FlagHasLeader' /\ RestoresAlone'
    BY <1>1, <1>3, <1>4, EndStep
  <1>7. gone \subseteq 1..issued
    <2> SUFFICES ASSUME NEW d \in cut PROVE call[d].token \in 1..issued
      BY <1>a
    <2>1. call[d] \in Call /\ call[d].token # 0 /\ call[d].token <= issued
      BY <1>5 DEF IInv, TypeOK, Numbered
    <2>2. call[d].token \in Nat /\ issued \in Nat
      BY <2>1, WebAssumption DEF Call, IInv, TypeOK, Pairs
    <2> QED  BY <2>1, <2>2
  <1>8. TypeOK'
    <2>1. live' \subseteq 1..issued /\ rotated' \subseteq (1..issued) \ live'
      BY <1>2 DEF IInv, TypeOK
    <2>2. lost' \subseteq 1..issued  BY <1>1, <1>7 DEF IInv, TypeOK
    <2>3. reloads' \in 0..MaxReloads
      BY <1>1, WebAssumption DEF IInv, TypeOK
    <2> QED  BY <1>1, <1>3, <1>6, <2>1, <2>2, <2>3 DEF IInv, TypeOK, Status
  <1>9. ASSUME NEW d \in Calls, Answered(d)'
        PROVE  Unseen(d)'
    <2>1. d \notin ended /\ call'[d] = call[d] /\ Answered(d)
      BY <1>6, <1>9, IdleFields DEF Answered, Exchanging
    <2>2. Unseen(d)  BY <2>1 DEF IInv
    <2>3. call[d].pair \notin gone
      BY <1>5, <1>a, <2>2 DEF Unseen
    <2>4. call[d].pair \in (1..issued) \ rotated'  BY <1>2, <2>2, <2>3 DEF Unseen
    <2>5. call[d].pair # 0  BY <2>2 DEF Unseen, IInv, TypeOK, Pairs
    <2>6. \A e \in Calls : call'[e].token # call[d].pair
      BY <1>6, <2>2, <2>5, IdleFields DEF Unseen
    <2>7. \A e \in Calls : Answered(e)' /\ call'[e].pair = call[d].pair => e = d
      BY <1>6, <2>2, IdleFields DEF Unseen, Answered, Exchanging
    <2> QED  BY <1>1, <2>1, <2>2, <2>4, <2>6, <2>7 DEF Unseen
  <1> QED  BY <1>6, <1>8, <1>9 DEF IInv

LEMMA NextIInv == IInv /\ [Next]_vars => IInv'
  <1> SUFFICES ASSUME IInv, [Next]_vars PROVE IInv'  OBVIOUS
  <1>1. ASSUME NEW c \in Calls, PageCall(c) \/ Restore(c) \/ Login(c) \/ Logout(c)
        PROVE  IInv'
    BY <1>1, PageCallStep, RestoreStep, LoginStep, LogoutStep
  <1>2. ASSUME NEW c \in Calls, Network(c) PROVE IInv'
    BY <1>2, ServeStep, ExchangeStep, BreakStep DEF Network
  <1>3. ASSUME NEW c \in Calls, Handle(c) PROVE IInv'
    BY <1>3, SucceedStep, RejectStep, RestoredStep, NotRestoredStep, SubscribeStep,
       LeadStep, RefreshedStep, GiveUpStep DEF Handle
  <1>4. ASSUME NEW p \in Pairs, ExpireAccess(p) \/ EndSession(p) PROVE IInv'
    BY <1>4, ExpireAccessStep
  <1>5. ASSUME NEW t \in Tabs, Reload(t) PROVE IInv'
    BY <1>5, ReloadStep
  <1>6. CASE UNCHANGED vars  BY <1>6, StutterIInv
  <1> QED  BY <1>1, <1>2, <1>3, <1>4, <1>5, <1>6 DEF Next

LEMMA Invariance == Spec => []IInv
  BY InitIInv, NextIInv, PTL DEF Spec

(***************************************************************************)
(* The state of the session is always well typed; in particular a pair     *)
(* that was exchanged is not one the server accepts.                       *)
(***************************************************************************)
THEOREM TypeCorrect == Spec => []TypeOK
  <1>1. IInv => TypeOK  BY DEF IInv
  <1> QED  BY <1>1, Invariance, PTL

(***************************************************************************)
(* In every tab the interceptor's flag is up exactly while one call leads  *)
(* a refresh, however many calls, tabs and reloads there are.              *)
(***************************************************************************)
THEOREM FlagIsLed == Spec => []FlagHasLeader
  <1>1. IInv => FlagHasLeader  BY DEF IInv
  <1> QED  BY <1>1, Invariance, PTL

(***************************************************************************)
(* What a step does to the calls: nothing, a change of one call of one of  *)
(* three kinds, or one of the three actions that change several.           *)
(***************************************************************************)
OthersStay(c) == \A d \in Calls : d # c => call'[d] = call[d]

\* The server answers, or nobody does.
GetsReply(c) ==
    /\ OthersStay(c)
    /\ call'[c].stage = call[c].stage /\ call'[c].token = call[c].token
    /\ call'[c].reply # "none"
    /\ UNCHANGED <<kept, lost>>
    /\ \/ UNCHANGED rotated
       \/ /\ Exchanging(c) /\ call[c].reply = "none"
          /\ rotated' = rotated \cup {call[c].token}

\* The page presents the refresh token it has, and is the only one to.
StartsExchange(c) ==
    /\ OthersStay(c)
    /\ call[c].stage \in {"sent", "again"}
    /\ call'[c].stage \in {"refreshing", "restoring"}
    /\ call'[c].token = kept
    /\ \A d \in Calls : TabOf(d) = TabOf(c) => ~Exchanging(d)
    /\ UNCHANGED <<kept, rotated, lost>>

\* The page begins a call, queues it, or ends it.
MovesOn(c) ==
    /\ OthersStay(c)
    /\ call[c].stage \notin {"queued", "refreshing"}
    /\ call'[c].stage \in {"idle", "sent", "queued"}
    /\ \/ call[c].stage # "restoring" /\ kept' \in {kept, issued + 1}
       \/ kept' = 0
       \/ Answered(c) /\ kept' = call[c].pair
    /\ UNCHANGED <<rotated, lost>>

LEMMA HowCallsChange ==
    ASSUME IInv, [Next]_vars
    PROVE  \/ UNCHANGED <<call, kept, rotated, lost>>
           \/ \E c \in Calls : \/ GetsReply(c) \/ StartsExchange(c) \/ MovesOn(c)
                               \/ Refreshed(c) \/ GiveUp(c)
           \/ \E t \in Tabs : Reload(t)
  <1>1. /\ call \in [Calls -> Call] /\ kept \in 0..MaxPairs /\ issued \in Nat
        /\ 0 \in 0..MaxPairs
    BY WebAssumption DEF IInv, TypeOK, Pairs
  <1>2. ASSUME NEW c \in Calls, NEW kind \in Kind, NEW pair \in 0..MaxPairs,
               NEW body \in 0..MaxPairs, Begin(c, kind, pair, body),
               UNCHANGED <<rotated, lost>>, kept' \in {kept, issued + 1}
        PROVE  MovesOn(c)
    <2> DEFINE r == Begun(kind, pair, body)
    <2>1. r.stage = "sent"  BY BegunCall
    <2>2. call' = [call EXCEPT ![c] = r] /\ call[c].stage = "idle"
      BY <1>2 DEF Begin, Begun
    <2> HIDE DEF r
    <2>3. call'[c] = r /\ OthersStay(c)  BY <1>1, <2>2 DEF OthersStay
    <2> QED  BY <1>2, <2>1, <2>2, <2>3 DEF MovesOn
  <1>3. ASSUME NEW c \in Calls, PageCall(c) PROVE MovesOn(c)
    <2>1. Begin(c, "page", kept, 0) /\ UNCHANGED <<kept, rotated, lost>> /\ "page" \in Kind
      BY <1>3 DEF PageCall, server, Kind
    <2> QED  BY <1>1, <1>2, <2>1
  <1>4. ASSUME NEW c \in Calls, Restore(c)
        PROVE  MovesOn(c) \/ UNCHANGED <<call, kept, rotated, lost>>
    <2>1. UNCHANGED <<kept, rotated, lost>> /\ "restore" \in Kind
      BY <1>4 DEF Restore, server, Kind
    <2>2. UNCHANGED call \/ Begin(c, "restore", kept, 0)  BY <1>4 DEF Restore
    <2> QED  BY <1>1, <1>2, <2>1, <2>2
  <1>5. ASSUME NEW c \in Calls, Login(c) PROVE MovesOn(c)
    <2>1. /\ Begin(c, "login", issued + 1, 0) /\ UNCHANGED <<rotated, lost>>
          /\ kept' = issued + 1 /\ issued < MaxPairs
      BY <1>5 DEF Login
    <2>2. issued + 1 \in 0..MaxPairs /\ "login" \in Kind
      BY <1>1, <2>1, WebAssumption DEF Kind
    <2> QED  BY <1>1, <1>2, <2>1, <2>2
  <1>6. ASSUME NEW c \in Calls, Logout(c)
        PROVE  MovesOn(c) \/ UNCHANGED <<call, kept, rotated, lost>>
    <2>1. UNCHANGED <<kept, rotated, lost>> /\ "logout" \in Kind
      BY <1>6 DEF Logout, server, Kind
    <2>2. UNCHANGED call \/ Begin(c, "logout", kept, kept)  BY <1>6 DEF Logout
    <2> QED  BY <1>1, <1>2, <2>1, <2>2
  <1>7. ASSUME NEW c \in Calls, Network(c) PROVE GetsReply(c)
    <2>1. ASSUME NEW reply \in Reply \ {"none"},
                 call' = [call EXCEPT ![c].reply = reply],
                 UNCHANGED <<kept, rotated, lost>>
          PROVE  GetsReply(c)
      <3>1. /\ call'[c].stage = call[c].stage /\ call'[c].token = call[c].token
            /\ call'[c].reply = reply /\ OthersStay(c)
        BY <2>1, ReplyCall DEF OthersStay
      <3> QED  BY <2>1, <3>1 DEF GetsReply
    <2>2. CASE Serve(c)
      <3>1. PICK reply \in Reply \ {"none"} : call' = [call EXCEPT ![c].reply = reply]
        BY <2>2 DEF Serve, Reply
      <3> QED  BY <2>1, <2>2, <3>1 DEF Serve
    <2>3. CASE Break(c)
      <3>1. "error" \in Reply \ {"none"}  BY DEF Reply
      <3> QED  BY <2>1, <2>3, <3>1 DEF Break, server
    <2>4. CASE Exchange(c) /\ call[c].token \notin live
      <3>1. "401" \in Reply \ {"none"}  BY DEF Reply
      <3> QED  BY <2>1, <2>4, <3>1 DEF Exchange, server
    <2>5. CASE Exchange(c) /\ call[c].token \in live
      <3> DEFINE answer == [call[c] EXCEPT !.reply = "ok"]
                 r == [answer EXCEPT !.pair = issued + 1]
      <3>1. /\ Exchanging(c) /\ call[c].reply = "none"
            /\ rotated' = rotated \cup {call[c].token} /\ UNCHANGED <<kept, lost>>
            /\ call' = [call EXCEPT ![c].reply = "ok", ![c].pair = issued + 1]
        BY <2>5 DEF Exchange
      <3>2. call'[c] = r /\ OthersStay(c)  BY <1>1, <3>1 DEF OthersStay
      <3>3. /\ answer \in Call /\ answer.stage = call[c].stage
            /\ answer.token = call[c].token /\ answer.reply = "ok"
        BY <1>1 DEF Call, Reply
      <3> HIDE DEF answer
      <3>4. r.stage = call[c].stage /\ r.token = call[c].token /\ r.reply = "ok"
        BY <3>3 DEF Call
      <3> QED  BY <3>1, <3>2, <3>4 DEF GetsReply
    <2> QED  BY <1>7, <2>2, <2>3, <2>4, <2>5 DEF Network
  <1>8. ASSUME NEW c \in Calls, Succeed(c) PROVE MovesOn(c)
    <2>1. /\ call[c].stage \in {"sent", "again", "retrying"}
          /\ call' = [call EXCEPT ![c] = Idle] /\ kept' \in {kept, 0}
          /\ UNCHANGED <<rotated, lost>>
      <3>1. kept' \in {kept, 0}
        <4>1. CASE call[c].kind = "page"  BY <1>8, <4>1 DEF Succeed
        <4>2. CASE call[c].kind = "logout"  BY <1>8, <4>2 DEF Succeed
        <4>3. CASE call[c].kind \notin {"page", "logout"}  BY <1>8, <4>3 DEF Succeed
        <4> QED  BY <4>1, <4>2, <4>3
      <3> QED  BY <1>8, <3>1 DEF Succeed, server
    <2>2. call'[c] = Idle /\ OthersStay(c)  BY <1>1, <2>1 DEF OthersStay
    <2> QED  BY <2>1, <2>2, IdleFields DEF MovesOn
  <1>9. ASSUME NEW c \in Calls, Reject(c) PROVE MovesOn(c) \/ StartsExchange(c)
    <2>1. call[c].stage \in {"sent", "again"} /\ UNCHANGED <<rotated, lost>>
      BY <1>9 DEF Reject, Rejected, server
    <2>2. CASE call[c].kind = "restore" /\ kept # 0
      <3>1. call' = [call EXCEPT ![c] = Sent(call[c], "restoring", kept)]
        BY <1>1, <1>9, <2>2 DEF Reject
      <3>2. UNCHANGED kept  BY <1>9, <2>2 DEF Reject
      <3>3. "restoring" \in Stage /\ call[c] \in Call  BY <1>1 DEF Stage
      <3>4. /\ call'[c].stage = "restoring" /\ call'[c].token = kept /\ OthersStay(c)
        BY <1>1, <3>1, <3>3, SentCall DEF OthersStay
      <3>5. \A d \in Calls : TabOf(d) = TabOf(c) => ~Exchanging(d)
        <4>1. Restoring(c)  BY <2>1, <2>2 DEF Restoring
        <4>2. \A d \in UnderWay(TabOf(c)) : d = c
          BY <4>1 DEF IInv, RestoresAlone
        <4> QED  BY <2>1, <4>2 DEF UnderWay, Exchanging
      <3> QED  BY <2>1, <3>2, <3>4, <3>5 DEF StartsExchange
    <2>3. CASE ~(call[c].kind = "restore" /\ kept # 0)
      <3>1. call' = [call EXCEPT ![c] = Idle]
        BY <1>1, <1>9, <2>3 DEF Reject
      <3>2. kept' \in {kept, 0}
        <4>1. CASE call[c].kind = "page"  BY <1>9, <4>1 DEF Reject
        <4>2. CASE call[c].kind = "login"  BY <1>9, <4>2 DEF Reject
        <4>3. CASE call[c].kind \notin {"page", "login"}  BY <1>9, <2>3, <4>3 DEF Reject
        <4> QED  BY <4>1, <4>2, <4>3
      <3>3. call'[c] = Idle /\ OthersStay(c)  BY <1>1, <3>1 DEF OthersStay
      <3> QED  BY <2>1, <3>2, <3>3, IdleFields DEF MovesOn
    <2> QED  BY <2>2, <2>3
  <1>10. ASSUME NEW c \in Calls, Restored(c) PROVE MovesOn(c)
    <2> DEFINE named == [call[c] EXCEPT !.kind = "restored"]
    <2>1. /\ Answered(c) /\ call[c].stage = "restoring" /\ kept' = call[c].pair
          /\ UNCHANGED <<rotated, lost>>
      BY <1>10 DEF Restored, Store, server, Answered, Exchanging
    <2>2. named \in Call  BY <1>1 DEF Call, Kind
    <2>3. call' = [call EXCEPT ![c] = Sent(named, "sent", call[c].pair)]
      BY <1>10 DEF Restored
    <2> HIDE DEF named
    <2>4. "sent" \in Stage /\ call[c].pair \in 0..MaxPairs  BY <1>1 DEF Stage, Call
    <2>5. call'[c].stage = "sent" /\ OthersStay(c)
      BY <1>1, <2>2, <2>3, <2>4, SentCall DEF OthersStay
    <2> QED  BY <2>1, <2>5 DEF MovesOn
  <1>11. ASSUME NEW c \in Calls, NotRestored(c) PROVE MovesOn(c)
    <2>1. /\ call[c].stage = "restoring" /\ kept' = 0
          /\ call' = [call EXCEPT ![c] = Idle] /\ UNCHANGED <<rotated, lost>>
      BY <1>11 DEF NotRestored, server
    <2>2. call'[c] = Idle /\ OthersStay(c)  BY <1>1, <2>1 DEF OthersStay
    <2> QED  BY <2>1, <2>2, IdleFields DEF MovesOn
  <1>12. ASSUME NEW c \in Calls, Subscribe(c) PROVE MovesOn(c)
    <2> DEFINE queued == [call[c] EXCEPT !.stage = "queued"]
    <2>1. call[c].stage = "sent" /\ UNCHANGED <<kept, rotated, lost>>
      BY <1>12 DEF Subscribe, Unauthorized, server
    <2>2. call'[c] = [queued EXCEPT !.reply = "none"] /\ OthersStay(c)
      BY <1>1, <1>12 DEF Subscribe, OthersStay
    <2>3. queued \in Call /\ queued.stage = "queued"  BY <1>1 DEF Call, Stage
    <2> HIDE DEF queued
    <2>4. call'[c].stage = "queued"  BY <2>2, <2>3 DEF Call
    <2> QED  BY <2>1, <2>2, <2>4 DEF MovesOn
  <1>13. ASSUME NEW c \in Calls, Lead(c) PROVE StartsExchange(c)
    <2>1. /\ call[c].stage = "sent" /\ ~isRefreshing[TabOf(c)]
          /\ UNCHANGED <<kept, rotated, lost>>
          /\ call' = [call EXCEPT ![c] = Sent(call[c], "refreshing", kept)]
      BY <1>1, <1>13 DEF Lead, Unauthorized, server
    <2>2. "refreshing" \in Stage /\ call[c] \in Call  BY <1>1 DEF Stage
    <2>3. /\ call'[c].stage = "refreshing" /\ call'[c].token = kept /\ OthersStay(c)
      BY <1>1, <2>1, <2>2, SentCall DEF OthersStay
    <2>4. ASSUME NEW d \in Calls, TabOf(d) = TabOf(c), Exchanging(d) PROVE FALSE
      <3>1. CASE Leading(d)
        BY <2>1, <2>4, <3>1, TabOfCall DEF IInv, FlagHasLeader, UnderWay, Leading
      <3>2. CASE call[d].stage = "restoring"
        BY <2>1, <2>4, <3>2 DEF IInv, RestoresAlone, Restoring, UnderWay
      <3> QED  BY <2>4, <3>1, <3>2 DEF Exchanging, Leading
    <2> QED  BY <2>1, <2>3, <2>4 DEF StartsExchange
  <1>14. ASSUME NEW c \in Calls, Handle(c)
         PROVE  StartsExchange(c) \/ MovesOn(c) \/ Refreshed(c) \/ GiveUp(c)
    BY <1>8, <1>9, <1>10, <1>11, <1>12, <1>13, <1>14 DEF Handle
  <1>15. ASSUME NEW p \in Pairs, ExpireAccess(p) \/ EndSession(p)
         PROVE  UNCHANGED <<call, kept, rotated, lost>>
    BY <1>15 DEF ExpireAccess, EndSession
  <1>16. CASE UNCHANGED vars  BY <1>16 DEF vars, server
  <1> QED
    BY <1>3, <1>4, <1>5, <1>6, <1>7, <1>14, <1>15, <1>16 DEF Next

(***************************************************************************)
(* A refresh token is presented twice only by two exchanges at once, which *)
(* only two tabs can have. While there are none, what is kept was          *)
(* exchanged only if the answer of that exchange is on its way to a page.  *)
(***************************************************************************)
OneTab == \A s, t \in Tabs : s = t

Apart == \A c, d \in Calls : Exchanging(c) /\ Exchanging(d) => c = d

KeptIsNew ==
    kept \in rotated \ lost =>
      \E c \in Calls : /\ Exchanging(c) /\ call[c].token = kept
                       /\ call[c].reply # "none"

LEMMA OneTabApart ==
    ASSUME OneTab, IInv
    PROVE  Apart
  <1> SUFFICES ASSUME NEW c \in Calls, NEW d \in Calls, Exchanging(c), Exchanging(d)
               PROVE  c = d
    BY DEF Apart
  <1>1. TabOf(c) = TabOf(d) /\ TabOf(c) \in Tabs  BY TabOfCall DEF OneTab
  <1>2. c \in UnderWay(TabOf(c)) /\ d \in UnderWay(TabOf(c))
    BY <1>1 DEF UnderWay, Exchanging
  <1>3. CASE Restoring(c) \/ Restoring(d)
    BY <1>1, <1>2, <1>3 DEF IInv, RestoresAlone
  <1>4. CASE ~Restoring(c) /\ ~Restoring(d)
    <2>1. Leading(c) /\ Leading(d)  BY <1>4 DEF Restoring, Exchanging, Leading
    <2> QED  BY <1>1, <1>2, <2>1 DEF IInv, FlagHasLeader
  <1> QED  BY <1>3, <1>4

LEMMA KeptStep ==
    ASSUME Apart, Apart', IInv, KeptIsNew, NoReplay, [Next]_vars
    PROVE  (KeptIsNew /\ NoReplay)'
  <1>1. rotated \subseteq 1..issued /\ issued \in Nat
    BY DEF IInv, TypeOK, Pairs
  <1>2. CASE UNCHANGED <<call, kept, rotated, lost>>
    BY <1>2 DEF KeptIsNew, NoReplay, Exchanging
  <1>3. ASSUME NEW c \in Calls, GetsReply(c)
        PROVE  (KeptIsNew /\ NoReplay)'
    <2>1. /\ \A d \in Calls : d # c => call'[d] = call[d]
          /\ call'[c].stage = call[c].stage /\ call'[c].token = call[c].token
          /\ call'[c].reply # "none" /\ UNCHANGED <<kept, lost>>
      BY <1>3 DEF GetsReply, OthersStay
    <2>2. \A d \in Calls : Exchanging(d)' <=> Exchanging(d)
      BY <2>1 DEF Exchanging
    <2>3. CASE UNCHANGED rotated
      <3>1. KeptIsNew'  BY <2>1, <2>2, <2>3 DEF KeptIsNew
      <3>2. NoReplay'  BY <2>1, <2>2, <2>3 DEF NoReplay
      <3> QED  BY <3>1, <3>2
    <2>4. CASE Exchanging(c) /\ rotated' = rotated \cup {call[c].token}
      <3>1. KeptIsNew'
        <4>1. CASE kept = call[c].token
          BY <2>1, <2>2, <2>4, <4>1 DEF KeptIsNew
        <4>2. CASE kept # call[c].token
          BY <2>1, <2>2, <2>4, <4>2 DEF KeptIsNew
        <4> QED  BY <4>1, <4>2
      <3>2. ASSUME NEW d \in Calls, Exchanging(d)', call'[d].reply = "none" PROVE FALSE
        BY <2>1, <2>2, <2>4, <3>2 DEF Apart
      <3> QED  BY <3>1, <3>2 DEF NoReplay
    <2> QED  BY <1>3, <2>3, <2>4 DEF GetsReply
  <1>4. ASSUME NEW c \in Calls, StartsExchange(c)
        PROVE  (KeptIsNew /\ NoReplay)'
    <2>1. \A d \in Calls : ~Exchanging(d)
      <3> SUFFICES ASSUME NEW d \in Calls, Exchanging(d) PROVE FALSE  OBVIOUS
      <3>1. d # c /\ Exchanging(c)'  BY <1>4 DEF StartsExchange, Exchanging
      <3>2. Exchanging(d)'  BY <1>4, <3>1 DEF StartsExchange, OthersStay, Exchanging
      <3> QED  BY <3>1, <3>2 DEF Apart, Exchanging
    <2>2. kept \notin rotated \ lost  BY <2>1 DEF KeptIsNew
    <2>3. /\ \A d \in Calls : Exchanging(d)' => d = c
          /\ call'[c].token = kept /\ UNCHANGED <<kept, rotated, lost>>
      BY <1>4, <2>1 DEF StartsExchange, OthersStay, Exchanging
    <2> QED  BY <2>2, <2>3 DEF KeptIsNew, NoReplay
  <1>5. ASSUME NEW c \in Calls, MovesOn(c)
        PROVE  (KeptIsNew /\ NoReplay)'
    <2>1. /\ \A d \in Calls : d # c => call'[d] = call[d]
          /\ call'[c].stage \in {"idle", "sent", "queued"}
          /\ call[c].stage # "refreshing" /\ UNCHANGED <<rotated, lost>>
      BY <1>5 DEF MovesOn, OthersStay
    <2>2. NoReplay'  BY <2>1 DEF NoReplay, Exchanging
    <2>3. CASE call[c].stage # "restoring" /\ kept' \in {kept, issued + 1}
      <3>1. issued + 1 \notin rotated  BY <1>1
      <3>2. \A d \in Calls : Exchanging(d) => d # c  BY <2>1, <2>3 DEF Exchanging
      <3> QED  BY <2>1, <2>2, <2>3, <3>1, <3>2 DEF KeptIsNew, Exchanging
    <2>4. CASE kept' = 0
      BY <1>1, <2>1, <2>2, <2>4 DEF KeptIsNew
    <2>5. CASE Answered(c) /\ kept' = call[c].pair
      <3>1. kept' \notin rotated  BY <2>5 DEF IInv, Unseen
      <3> QED  BY <2>1, <2>2, <3>1 DEF KeptIsNew
    <2> QED  BY <1>5, <2>3, <2>4, <2>5 DEF MovesOn
  <1>6. ASSUME NEW c \in Calls, Refreshed(c)
        PROVE  (KeptIsNew /\ NoReplay)'
    <2>1. /\ Answered(c) /\ call[c].stage = "refreshing" /\ kept' = call[c].pair
          /\ UNCHANGED <<rotated, lost>>
      BY <1>6 DEF Refreshed, Store, server, Answered, Exchanging
    <2>2. kept' \notin rotated  BY <2>1 DEF IInv, Unseen
    <2>3. ASSUME NEW d \in Calls, Exchanging(d)', call'[d].reply = "none"
          PROVE  FALSE
      <3>1. call'[d].stage \in {"retrying", "again"} \/ (call'[d] = call[d] /\ d # c)
        BY <1>6, RefreshedCalls
      <3>2. Exchanging(d) /\ d # c  BY <2>3, <3>1 DEF Exchanging
      <3> QED  BY <2>1, <3>2 DEF Answered, Apart
    <2> QED  BY <2>1, <2>2, <2>3 DEF KeptIsNew, NoReplay
  <1>7. ASSUME NEW c \in Calls, GiveUp(c)
        PROVE  (KeptIsNew /\ NoReplay)'
    <2>1. kept' = 0 /\ UNCHANGED <<rotated, lost>>  BY <1>7 DEF GiveUp, server
    <2>2. \A d \in Calls : call'[d] = Idle \/ call'[d] = call[d]
      BY <1>7 DEF GiveUp
    <2> QED
      BY <1>1, <2>1, <2>2, IdleFields DEF KeptIsNew, NoReplay, Exchanging
  <1>8. ASSUME NEW t \in Tabs, Reload(t)
        PROVE  (KeptIsNew /\ NoReplay)'
    <2> DEFINE gone == {call[c].token : c \in {d \in UnderWay(t) : Exchanging(d)}}
    <2>1. /\ kept' = kept /\ lost' = lost \cup gone
          /\ rotated' \subseteq rotated \cup gone
      BY <1>8 DEF Reload
    <2>2. \A d \in Calls : IF TabOf(d) = t THEN call'[d] = Idle
                                           ELSE call'[d] = call[d]
      BY <1>8 DEF Reload
    <2>3. \A d \in Calls : Exchanging(d) /\ TabOf(d) = t => call[d].token \in gone
      BY DEF UnderWay, Exchanging
    <2>4. NoReplay'
      BY <2>1, <2>2, IdleFields DEF NoReplay, Exchanging
    <2>5. KeptIsNew'
      BY <2>1, <2>2, <2>3 DEF KeptIsNew, Exchanging
    <2> QED  BY <2>4, <2>5
  <1> QED
    BY <1>2, <1>3, <1>4, <1>5, <1>6, <1>7, <1>8, HowCallsChange

LEMMA KeptInvariance == Spec /\ []Apart => [](KeptIsNew /\ NoReplay)
  <1>1. Init => KeptIsNew /\ NoReplay
    BY IdleFields DEF Init, KeptIsNew, NoReplay, Exchanging
  <1>2. /\ Apart /\ Apart' /\ IInv /\ KeptIsNew /\ NoReplay /\ [Next]_vars
        => (KeptIsNew /\ NoReplay)'
    BY KeptStep
  <1> QED  BY <1>1, <1>2, Invariance, PTL DEF Spec

LEMMA OneTabInvariance ==
    ASSUME OneTab
    PROVE  Spec => [](KeptIsNew /\ NoReplay)
  <1>1. IInv => Apart  BY OneTabApart
  <1> QED  BY <1>1, Invariance, KeptInvariance, PTL

(***************************************************************************)
(* In any number of tabs, a refresh token that was exchanged before is     *)
(* presented only after two exchanges were under way at once: calls,       *)
(* logins, logouts, reloads and failures alone never lead to it.           *)
(***************************************************************************)
THEOREM ReplayNeedsOverlap == Spec /\ []Apart => []NoReplay
  <1> QED  BY KeptInvariance, PTL

(***************************************************************************)
(* One tab never presents a refresh token that was exchanged before, for   *)
(* any number of calls at once, unless a reload cut that exchange off.     *)
(***************************************************************************)
THEOREM NeverReplayed ==
    ASSUME OneTab
    PROVE  Spec => []NoReplay
  <1> QED  BY OneTabInvariance, PTL

(***************************************************************************)
(* What one tab at rest keeps. Between two logins of different sessions    *)
(* four facts hold: what is kept is the newest pair, or its exchange is    *)
(* under way or was cut off; an exchange presents what is kept, and its    *)
(* answer is the newest pair; the call that enters a session (restored or  *)
(* logged in) is alone; and a user is shown only with tokens.              *)
(***************************************************************************)
Entering(c) ==
    /\ call[c].stage # "idle"
    /\ call[c].kind \in {"restore", "restored", "login"}

KeptIsNewest ==
    kept # 0 => \/ kept = issued \/ kept \in lost
                \/ \E c \in Calls : Exchanging(c) /\ call[c].token = kept

ExchangesKept ==
    \A c \in Calls :
        /\ Exchanging(c) => kept \in {0, call[c].token}
        /\ Answered(c) => call[c].pair = issued

EntersAlone ==
    \A c \in Calls : Entering(c) =>
        /\ kept # 0
        /\ \A t \in Tabs : status[t] # "authenticated"
        /\ \A d \in Calls : call[d].stage # "idle" => d = c

Newest ==
    /\ KeptIsNewest
    /\ ExchangesKept
    /\ EntersAlone
    /\ \A t \in Tabs : status[t] = "authenticated" => kept # 0

\* A step that leaves the tokens and the exchanges alone, and enters nothing.
LEMMA NewestUntouched ==
    ASSUME Newest, UNCHANGED <<kept, issued, lost>>,
           \A d \in Calls : Exchanging(d)' <=> Exchanging(d),
           \A d \in Calls : Exchanging(d) =>
              call'[d].token = call[d].token /\ call'[d].pair = call[d].pair,
           \A d \in Calls : Answered(d)' => Answered(d),
           \A d \in Calls : Entering(d)' =>
              /\ Entering(d)
              /\ \A e \in Calls : call'[e].stage # "idle" => call[e].stage # "idle",
           \A t \in Tabs : status'[t] = "authenticated" => status[t] = "authenticated"
    PROVE  Newest'
  <1>1. KeptIsNewest'  BY DEF Newest, KeptIsNewest
  <1>2. ExchangesKept'  BY DEF Newest, ExchangesKept, Answered
  <1>3. EntersAlone'  BY DEF Newest, EntersAlone
  <1> QED  BY <1>1, <1>2, <1>3 DEF Newest

\* The tokens are cleared: the call that did so entered alone, or none enters.
LEMMA NewestCleared ==
    ASSUME Newest, NEW c \in Calls, call[c].stage # "idle", kept' = 0,
           UNCHANGED issued, \A t \in Tabs : status'[t] # "authenticated",
           \A d \in Calls : call'[d] = Idle \/ (call'[d] = call[d] /\ d # c)
    PROVE  Newest'
  <1>1. KeptIsNewest'  BY DEF KeptIsNewest
  <1>2. ExchangesKept'
    BY IdleFields DEF Newest, ExchangesKept, Answered, Exchanging
  <1>3. EntersAlone'
    BY IdleFields DEF Newest, EntersAlone, Entering
  <1> QED  BY <1>1, <1>2, <1>3 DEF Newest

\* Whatever runs is one call, and it presents nothing.
LEMMA NewestAlone ==
    ASSUME NEW c \in Calls, \A d \in Calls : d # c => call'[d].stage = "idle",
           ~Exchanging(c)', kept' # 0 => kept' = issued' \/ kept' \in lost',
           Entering(c)' => kept' # 0 /\ \A t \in Tabs : status'[t] # "authenticated",
           \A t \in Tabs : status'[t] = "authenticated" => kept' # 0
    PROVE  Newest'
  <1>1. \A d \in Calls : ~Exchanging(d)' /\ ~Answered(d)'
    BY DEF Exchanging, Answered
  <1>2. KeptIsNewest'  BY DEF KeptIsNewest
  <1>3. ExchangesKept'  BY <1>1 DEF ExchangesKept
  <1>4. EntersAlone'  BY DEF EntersAlone, Entering
  <1> QED  BY <1>2, <1>3, <1>4 DEF Newest

LEMMA NewestPageCall ==
    ASSUME OneTab, IInv, Newest, NEW c \in Calls, PageCall(c) \/ Logout(c)
    PROVE  Newest'
  <1>1. /\ status[TabOf(c)] = "authenticated" /\ TabOf(c) \in Tabs
        /\ UNCHANGED <<kept, issued, lost>>
    BY TabOfCall DEF PageCall, Logout, server
  <1>2. kept # 0  BY <1>1 DEF Newest
  <1>3. PICK kind \in {"page", "logout"}, body \in {0, kept} :
           Begin(c, kind, kept, body) /\ UNCHANGED status
    BY <1>2 DEF PageCall, Logout
  <1>4. kind \in Kind /\ kept \in 0..MaxPairs /\ body \in 0..MaxPairs
        /\ call \in [Calls -> Call]
    BY <1>3, WebAssumption DEF Kind, IInv, TypeOK
  <1> DEFINE r == Begun(kind, kept, body)
  <1>5. r.stage = "sent" /\ r.kind = kind  BY <1>4, BegunCall
  <1>6. call' = [call EXCEPT ![c] = r] /\ call[c].stage = "idle"
    BY <1>3 DEF Begin, Begun
  <1> HIDE DEF r
  <1>7. call'[c] = r /\ \A d \in Calls : d # c => call'[d] = call[d]
    BY <1>4, <1>6
  <1>8. \A d \in Calls : Exchanging(d)' <=> Exchanging(d)
    BY <1>5, <1>6, <1>7 DEF Exchanging
  <1>9. \A d \in Calls : Exchanging(d) => call'[d] = call[d]
    BY <1>6, <1>7 DEF Exchanging
  <1>10. \A d \in Calls : ~Entering(d)
    BY <1>1 DEF Newest, EntersAlone
  <1>11. \A d \in Calls : ~Entering(d)'
    <2> SUFFICES ASSUME NEW d \in Calls, Entering(d)' PROVE FALSE  OBVIOUS
    <2>1. d # c  BY <1>3, <1>5, <1>7 DEF Entering
    <2> QED  BY <1>7, <1>10, <2>1 DEF Entering
  <1> QED
    BY <1>1, <1>3, <1>8, <1>9, <1>11, NewestUntouched DEF Answered

LEMMA NewestRestore ==
    ASSUME OneTab, IInv, Newest, NEW c \in Calls, Restore(c)
    PROVE  Newest'
  <1>1. /\ \A t \in Tabs : t = TabOf(c)
        /\ status[TabOf(c)] = "initializing" /\ UnderWay(TabOf(c)) = {}
        /\ UNCHANGED <<kept, issued, lost>> /\ TabOf(c) \in Tabs
    BY TabOfCall DEF Restore, server, OneTab
  <1>2. \A d \in Calls : call[d].stage = "idle"
    BY <1>1, TabOfCall DEF UnderWay
  <1>3. CASE kept = 0
    <2>1. UNCHANGED call /\ status' = [status EXCEPT ![TabOf(c)] = "unauthenticated"]
      BY <1>3 DEF Restore
    <2>2. \A t \in Tabs : status'[t] # "authenticated"
      BY <1>1, <2>1 DEF IInv, TypeOK
    <2> QED
      BY <1>1, <2>1, <2>2, NewestUntouched DEF Exchanging, Entering, Answered
  <1>4. CASE kept # 0
    <2>1. Begin(c, "restore", kept, 0) /\ UNCHANGED status  BY <1>4 DEF Restore
    <2>2. /\ "restore" \in Kind /\ kept \in 0..MaxPairs /\ 0 \in 0..MaxPairs
          /\ call \in [Calls -> Call]
      BY WebAssumption DEF Kind, IInv, TypeOK
    <2> DEFINE r == Begun("restore", kept, 0)
    <2>3. r.stage = "sent"  BY <2>2, BegunCall
    <2>4. call' = [call EXCEPT ![c] = r]  BY <2>1 DEF Begin, Begun
    <2> HIDE DEF r
    <2>5. call'[c] = r /\ \A d \in Calls : d # c => call'[d] = call[d]
      BY <2>2, <2>4
    <2>6. ~Exchanging(c)' /\ \A d \in Calls : d # c => call'[d].stage = "idle"
      BY <1>2, <2>3, <2>5 DEF Exchanging
    <2>7. kept = issued \/ kept \in lost
      BY <1>2, <1>4 DEF Newest, KeptIsNewest, Exchanging
    <2>8. \A t \in Tabs : status'[t] # "authenticated"
      BY <1>1, <2>1
    <2> QED  BY <1>1, <1>4, <2>6, <2>7, <2>8, NewestAlone
  <1> QED  BY <1>3, <1>4

\* A login that nothing of its page overlaps starts afresh.
LEMMA NewestLogin ==
    ASSUME OneTab, IInv, NEW c \in Calls, Login(c), ~mixed'
    PROVE  Newest'
  <1> DEFINE new == issued + 1
  <1>1. /\ \A t \in Tabs : t = TabOf(c)
        /\ status[TabOf(c)] = "unauthenticated" /\ UnderWay(TabOf(c)) = {}
        /\ kept' = new /\ issued' = new /\ UNCHANGED status
        /\ Begin(c, "login", new, 0) /\ issued < MaxPairs
    BY TabOfCall DEF Login, OneTab
  <1>2. \A d \in Calls : call[d].stage = "idle"
    BY <1>1, TabOfCall DEF UnderWay
  <1>3. /\ "login" \in Kind /\ new \in 0..MaxPairs /\ 0 \in 0..MaxPairs
        /\ new # 0 /\ call \in [Calls -> Call]
    BY <1>1, WebAssumption DEF Kind, IInv, TypeOK, Pairs
  <1> HIDE DEF new
  <1> DEFINE r == Begun("login", new, 0)
  <1>4. r.stage = "sent"  BY <1>3, BegunCall
  <1>5. call' = [call EXCEPT ![c] = r]  BY <1>1 DEF Begin, Begun
  <1> HIDE DEF r
  <1>6. call'[c] = r /\ \A d \in Calls : d # c => call'[d] = call[d]
    BY <1>3, <1>5
  <1>7. ~Exchanging(c)' /\ \A d \in Calls : d # c => call'[d].stage = "idle"
    BY <1>2, <1>4, <1>6 DEF Exchanging
  <1>8. \A t \in Tabs : status'[t] # "authenticated"  BY <1>1
  <1> QED  BY <1>1, <1>3, <1>7, <1>8, NewestAlone

LEMMA NewestNetwork ==
    ASSUME OneTab, IInv, Newest, NEW c \in Calls, Network(c)
    PROVE  Newest'
  <1>1. ASSUME NEW reply \in Reply, call' = [call EXCEPT ![c].reply = reply],
               ~Exchanging(c) \/ reply # "ok",
               UNCHANGED <<kept, status, issued, lost>>
        PROVE  Newest'
    <2>1. /\ \A d \in Calls : /\ call'[d].stage = call[d].stage
                              /\ call'[d].kind = call[d].kind
                              /\ call'[d].token = call[d].token
                              /\ call'[d].pair = call[d].pair
          /\ \A d \in Calls : d # c => call'[d] = call[d]
          /\ call'[c].reply = reply
      BY <1>1, ReplyCall
    <2>2. \A d \in Calls : Exchanging(d)' <=> Exchanging(d)  BY <2>1 DEF Exchanging
    <2>3. \A d \in Calls : Entering(d)' <=> Entering(d)  BY <2>1 DEF Entering
    <2>4. \A d \in Calls : Answered(d)' => Answered(d)
      BY <1>1, <2>1, <2>2 DEF Answered
    <2> QED  BY <1>1, <2>1, <2>2, <2>3, <2>4, NewestUntouched
  <1>2. CASE Serve(c)
    <2>1. PICK reply \in Reply : call' = [call EXCEPT ![c].reply = reply]
      BY <1>2 DEF Serve, Reply
    <2> QED  BY <1>1, <1>2, <2>1 DEF Serve, Exchanging
  <1>3. CASE Break(c)
    <2>1. "error" \in Reply  BY DEF Reply
    <2> QED  BY <1>1, <1>3, <2>1 DEF Break, server
  <1>4. CASE Exchange(c) /\ call[c].token \notin live
    <2>1. "401" \in Reply  BY DEF Reply
    <2> QED  BY <1>1, <1>4, <2>1 DEF Exchange, server
  <1>5. CASE Exchange(c) /\ call[c].token \in live
    <2> DEFINE answer == [call[c] EXCEPT !.reply = "ok"]
               r == [answer EXCEPT !.pair = issued + 1]
    <2>1. /\ Exchanging(c) /\ issued' = issued + 1
          /\ UNCHANGED <<kept, status, lost>>
          /\ call' = [call EXCEPT ![c].reply = "ok", ![c].pair = issued + 1]
          /\ call \in [Calls -> Call]
      BY <1>5 DEF Exchange, IInv, TypeOK
    <2>2. call'[c] = r /\ \A d \in Calls : d # c => call'[d] = call[d]
      BY <2>1
    <2>3. /\ answer \in Call /\ answer.stage = call[c].stage
          /\ answer.token = call[c].token /\ answer.kind = call[c].kind
      BY <2>1 DEF Call, Reply
    <2> HIDE DEF answer
    <2>4. /\ r.stage = call[c].stage /\ r.token = call[c].token
          /\ r.kind = call[c].kind /\ r.pair = issued + 1
      BY <2>3 DEF Call
    <2> HIDE DEF r
    <2>5. \A d \in Calls : /\ call'[d].stage = call[d].stage
                           /\ call'[d].kind = call[d].kind
                           /\ call'[d].token = call[d].token
      BY <2>2, <2>4
    <2>6. \A d \in Calls : Exchanging(d) => d = c  BY <2>1, OneTabApart DEF Apart
    <2>7. \A d \in Calls : Exchanging(d)' <=> Exchanging(d)  BY <2>5 DEF Exchanging
    <2>8. kept \in {0, call[c].token}  BY <2>1 DEF Newest, ExchangesKept
    <2>9. KeptIsNewest'  BY <2>1, <2>5, <2>7, <2>8 DEF KeptIsNewest
    <2>10. ExchangesKept'
      BY <2>1, <2>2, <2>4, <2>5, <2>6, <2>7, <2>8 DEF ExchangesKept, Answered
    <2>11. EntersAlone'  BY <2>1, <2>5 DEF Newest, EntersAlone, Entering
    <2> QED  BY <2>1, <2>9, <2>10, <2>11 DEF Newest
  <1> QED  BY <1>2, <1>3, <1>4, <1>5 DEF Network

\* A call ends, and neither stores nor clears tokens.
LEMMA NewestEnds ==
    ASSUME OneTab, IInv, Newest, NEW c \in Calls, call[c].stage # "idle",
           ~Exchanging(c), call' = [call EXCEPT ![c] = Idle],
           UNCHANGED <<kept, issued, lost>>,
           \A t \in Tabs : status'[t] = "authenticated" =>
              status[t] = "authenticated" \/ Entering(c)
    PROVE  Newest'
  <1>1. call'[c] = Idle /\ \A d \in Calls : d # c => call'[d] = call[d]
    BY DEF IInv, TypeOK
  <1>2. CASE Entering(c)
    <2>1. kept # 0 /\ \A d \in Calls : d # c => call[d].stage = "idle"
      BY <1>2 DEF Newest, EntersAlone
    <2>2. kept = issued \/ kept \in lost
      BY <2>1 DEF Newest, KeptIsNewest, Exchanging
    <2>3. ~Exchanging(c)' /\ ~Entering(c)'
      BY <1>1, IdleFields DEF Exchanging, Entering
    <2> QED  BY <1>1, <2>1, <2>2, <2>3, NewestAlone
  <1>3. CASE ~Entering(c)
    <2>1. \A d \in Calls : Exchanging(d)' <=> Exchanging(d)
      BY <1>1, IdleFields DEF Exchanging
    <2>2. \A d \in Calls : Exchanging(d) => call'[d] = call[d]
      BY <1>1
    <2>3. \A d \in Calls : Answered(d)' => Answered(d)
      BY <1>1, IdleFields DEF Answered, Exchanging
    <2>4. \A d \in Calls : Entering(d)' => Entering(d)
      BY <1>1, IdleFields DEF Entering
    <2>5. \A d \in Calls : call'[d].stage # "idle" => call[d].stage # "idle"
      BY <1>1, IdleFields
    <2> QED  BY <1>3, <2>1, <2>2, <2>3, <2>4, <2>5, NewestUntouched
  <1> QED  BY <1>2, <1>3

LEMMA NewestSucceed ==
    ASSUME OneTab, IInv, Newest, NEW c \in Calls, Succeed(c)
    PROVE  Newest'
  <1>1. /\ call[c].stage \in {"sent", "again", "retrying"}
        /\ call' = [call EXCEPT ![c] = Idle] /\ UNCHANGED <<issued, lost>>
        /\ call \in [Calls -> Call] /\ \A t \in Tabs : t = TabOf(c)
    BY TabOfCall DEF Succeed, server, IInv, TypeOK, OneTab
  <1>2. ~Exchanging(c) /\ call[c].kind \in Kind  BY <1>1 DEF Exchanging, Call
  <1>3. CASE call[c].kind = "page"
    <2>1. UNCHANGED <<kept, status>>  BY <1>3 DEF Succeed
    <2> QED  BY <1>1, <1>2, <2>1, NewestEnds
  <1>4. CASE call[c].kind = "logout"
    <2>1. kept' = 0 /\ SetStatus(TabOf(c), "unauthenticated")
      BY <1>4 DEF Succeed
    <2>2. \A t \in Tabs : status'[t] # "authenticated"
      BY <1>1, <2>1 DEF SetStatus, IInv, TypeOK
    <2>3. \A d \in Calls : call'[d] = Idle \/ (call'[d] = call[d] /\ d # c)
      BY <1>1
    <2> QED  BY <1>1, <2>1, <2>2, <2>3, NewestCleared
  <1>5. CASE call[c].kind \notin {"page", "logout"}
    <2>1. Entering(c)  BY <1>1, <1>2, <1>5 DEF Entering, Kind
    <2>2. UNCHANGED kept  BY <1>5 DEF Succeed
    <2> QED  BY <1>1, <1>2, <2>1, <2>2, NewestEnds
  <1> QED  BY <1>3, <1>4, <1>5

LEMMA NewestReject ==
    ASSUME OneTab, IInv, Newest, NEW c \in Calls, Reject(c)
    PROVE  Newest'
  <1>1. /\ call[c].stage \in {"sent", "again"} /\ UNCHANGED <<issued, lost>>
        /\ call \in [Calls -> Call] /\ \A t \in Tabs : t = TabOf(c)
        /\ kept \in 0..MaxPairs
    BY TabOfCall DEF Reject, Rejected, server, IInv, TypeOK, OneTab
  <1>2. ~Exchanging(c)  BY <1>1 DEF Exchanging
  <1>3. CASE call[c].kind = "restore" /\ kept # 0
    <2>1. /\ UNCHANGED <<kept, status>>
          /\ call' = [call EXCEPT ![c] = Sent(call[c], "restoring", kept)]
      BY <1>1, <1>3 DEF Reject
    <2>2. "restoring" \in Stage /\ call[c] \in Call  BY <1>1 DEF Stage
    <2>3. /\ call'[c].stage = "restoring" /\ call'[c].token = kept
          /\ call'[c].reply = "none"
          /\ \A d \in Calls : d # c => call'[d] = call[d]
      BY <1>1, <2>1, <2>2, SentCall
    <2>4. Entering(c)  BY <1>1, <1>3 DEF Entering
    <2>5. /\ \A t \in Tabs : status'[t] # "authenticated"
          /\ \A d \in Calls : d # c => call'[d].stage = "idle"
      BY <2>1, <2>3, <2>4 DEF Newest, EntersAlone
    <2>6. KeptIsNewest'  BY <2>1, <2>3 DEF KeptIsNewest, Exchanging
    <2>7. ExchangesKept'
      BY <2>1, <2>3, <2>5 DEF ExchangesKept, Answered, Exchanging
    <2>8. EntersAlone'  BY <1>3, <2>1, <2>5 DEF EntersAlone, Entering
    <2> QED  BY <2>5, <2>6, <2>7, <2>8 DEF Newest
  <1>4. CASE ~(call[c].kind = "restore" /\ kept # 0)
    <2>1. call' = [call EXCEPT ![c] = Idle]  BY <1>1, <1>4 DEF Reject
    <2>2. CASE call[c].kind = "page"
      <3>1. UNCHANGED <<kept, status>>  BY <2>2 DEF Reject
      <3> QED  BY <1>1, <1>2, <2>1, <3>1, NewestEnds
    <2>3. CASE call[c].kind = "login"
      <3>1. UNCHANGED kept  BY <2>3 DEF Reject
      <3>2. Entering(c)  BY <1>1, <2>3 DEF Entering
      <3> QED  BY <1>1, <1>2, <2>1, <3>1, <3>2, NewestEnds
    <2>4. CASE call[c].kind \notin {"page", "login"}
      <3>1. kept' = 0 /\ SetStatus(TabOf(c), "unauthenticated")
        BY <1>4, <2>4 DEF Reject
      <3>2. \A t \in Tabs : status'[t] # "authenticated"
        BY <1>1, <3>1 DEF SetStatus, IInv, TypeOK
      <3>3. \A d \in Calls : call'[d] = Idle \/ (call'[d] = call[d] /\ d # c)
        BY <1>1, <2>1
      <3> QED  BY <1>1, <3>1, <3>2, <3>3, NewestCleared
    <2> QED  BY <2>2, <2>3, <2>4
  <1> QED  BY <1>3, <1>4

\* The new pair arrives, and nothing presents the old one.
LEMMA NewestArrives ==
    ASSUME OneTab, IInv, Newest, NEW c \in Calls, Answered(c), kept' = call[c].pair,
           UNCHANGED <<issued, status>>, \A d \in Calls : ~Exchanging(d)',
           \A d \in Calls : /\ call'[d].stage # "idle" => call[d].stage # "idle"
                            /\ Entering(d)' => Entering(d) \/ Restoring(d)
    PROVE  Newest'
  <1>1. kept' = issued' /\ kept' # 0
    BY DEF Newest, ExchangesKept, IInv, TypeOK, Pairs
  <1>2. KeptIsNewest' /\ ExchangesKept'
    BY <1>1 DEF KeptIsNewest, ExchangesKept, Answered
  <1>3. EntersAlone'
    <2> SUFFICES ASSUME NEW d \in Calls, Entering(d)'
                 PROVE  /\ \A t \in Tabs : status[t] # "authenticated"
                        /\ \A e \in Calls : call[e].stage # "idle" => e = d
      BY <1>1 DEF EntersAlone
    <2>1. CASE Entering(d)  BY <2>1 DEF Newest, EntersAlone
    <2>2. CASE Restoring(d)
      <3>1. \A t \in Tabs : t = TabOf(d)  BY TabOfCall DEF OneTab
      <3>2. \A e \in Calls : TabOf(e) = TabOf(d)  BY <3>1, TabOfCall
      <3> QED  BY <2>2, <3>1, <3>2 DEF IInv, RestoresAlone, UnderWay
    <2> QED  BY <2>1, <2>2
  <1> QED  BY <1>1, <1>2, <1>3 DEF Newest

LEMMA NewestRestored ==
    ASSUME OneTab, IInv, Newest, NEW c \in Calls, Restored(c)
    PROVE  Newest'
  <1> DEFINE named == [call[c] EXCEPT !.kind = "restored"]
  <1>1. /\ Answered(c) /\ call[c].stage = "restoring" /\ kept' = call[c].pair
        /\ UNCHANGED <<issued, status>> /\ call \in [Calls -> Call]
    BY DEF Restored, Store, server, Answered, Exchanging, IInv, TypeOK
  <1>2. named \in Call /\ "sent" \in Stage /\ call[c].pair \in 0..MaxPairs
    BY <1>1 DEF Call, Kind, Stage
  <1>3. call' = [call EXCEPT ![c] = Sent(named, "sent", call[c].pair)]
    BY DEF Restored
  <1> HIDE DEF named
  <1>4. call'[c].stage = "sent" /\ \A d \in Calls : d # c => call'[d] = call[d]
    BY <1>1, <1>2, <1>3, SentCall
  <1>5. \A d \in Calls : ~Exchanging(d)'
    BY <1>1, <1>4, OneTabApart DEF Apart, Answered, Exchanging
  <1>6. \A d \in Calls : /\ call'[d].stage # "idle" => call[d].stage # "idle"
                         /\ Entering(d)' => Entering(d) \/ Restoring(d)
    BY <1>1, <1>4 DEF Entering, Restoring
  <1> QED  BY <1>1, <1>5, <1>6, NewestArrives

LEMMA NewestRefreshed ==
    ASSUME OneTab, IInv, Newest, NEW c \in Calls, Refreshed(c)
    PROVE  Newest'
  <1>1. /\ Answered(c) /\ call[c].stage = "refreshing" /\ kept' = call[c].pair
        /\ UNCHANGED <<issued, status>>
    BY DEF Refreshed, Store, server, Answered, Exchanging
  <1>2. ASSUME NEW d \in Calls
        PROVE  \/ call'[d] = call[d] /\ d # c
               \/ /\ call'[d].stage \in {"retrying", "again"}
                  /\ call'[d].kind = call[d].kind /\ call[d].stage # "idle"
    BY <1>1, RefreshedCalls DEF Subscribers, UnderWay
  <1>3. \A d \in Calls : ~Exchanging(d)'
    BY <1>1, <1>2, OneTabApart DEF Apart, Answered, Exchanging
  <1>4. \A d \in Calls : /\ call'[d].stage # "idle" => call[d].stage # "idle"
                         /\ Entering(d)' => Entering(d)
    BY <1>2 DEF Entering
  <1> QED  BY <1>1, <1>3, <1>4, NewestArrives

LEMMA NewestSubscribe ==
    ASSUME OneTab, IInv, Newest, NEW c \in Calls, Subscribe(c)
    PROVE  Newest'
  <1> DEFINE queued == [call[c] EXCEPT !.stage = "queued"]
             r == [queued EXCEPT !.reply = "none"]
  <1>1. /\ call[c].stage = "sent" /\ UNCHANGED <<kept, status, issued, lost>>
        /\ call \in [Calls -> Call]
    BY DEF Subscribe, Unauthorized, server, IInv, TypeOK
  <1>2. call'[c] = r /\ \A d \in Calls : d # c => call'[d] = call[d]
    BY <1>1 DEF Subscribe
  <1>3. queued \in Call /\ queued.stage = "queued" /\ queued.kind = call[c].kind
    BY <1>1 DEF Call, Stage
  <1> HIDE DEF queued
  <1>4. r.stage = "queued" /\ r.kind = call[c].kind
    BY <1>3 DEF Call
  <1> HIDE DEF r
  <1>5. \A d \in Calls : Exchanging(d)' <=> Exchanging(d)
    BY <1>1, <1>2, <1>4 DEF Exchanging
  <1>6. \A d \in Calls : Exchanging(d) => call'[d] = call[d]
    BY <1>1, <1>2 DEF Exchanging
  <1>7. \A d \in Calls : Entering(d)' => Entering(d)
    BY <1>1, <1>2, <1>4 DEF Entering
  <1>8. \A d \in Calls : call'[d].stage # "idle" => call[d].stage # "idle"
    BY <1>1, <1>2
  <1> QED  BY <1>1, <1>5, <1>6, <1>7, <1>8, NewestUntouched DEF Answered

LEMMA NewestLead ==
    ASSUME OneTab, IInv, IInv', Newest, NEW c \in Calls, Lead(c)
    PROVE  Newest'
  <1>1. /\ call[c].stage = "sent" /\ kept # 0
        /\ UNCHANGED <<kept, status, issued, lost>>
        /\ call' = [call EXCEPT ![c] = Sent(call[c], "refreshing", kept)]
        /\ call \in [Calls -> Call] /\ kept \in 0..MaxPairs
    BY DEF Lead, Unauthorized, server, IInv, TypeOK
  <1>2. "refreshing" \in Stage /\ call[c] \in Call  BY <1>1 DEF Stage
  <1>3. /\ call'[c].stage = "refreshing" /\ call'[c].token = kept
        /\ call'[c].kind = call[c].kind /\ call'[c].reply = "none"
        /\ \A d \in Calls : d # c => call'[d] = call[d]
    BY <1>1, <1>2, SentCall
  <1>4. \A d \in Calls : Exchanging(d)' => d = c
    <2>1. Apart'
      <3> SUFFICES ASSUME NEW d \in Calls, NEW e \in Calls, Exchanging(d)', Exchanging(e)'
                   PROVE  d = e
        BY DEF Apart
      <3>1. TabOf(d) = TabOf(e) /\ TabOf(d) \in Tabs  BY TabOfCall DEF OneTab
      <3>2. d \in UnderWay(TabOf(d))' /\ e \in UnderWay(TabOf(d))'
        BY <3>1 DEF UnderWay, Exchanging
      <3>3. CASE Restoring(d)' \/ Restoring(e)'
        BY <3>1, <3>2, <3>3 DEF IInv, RestoresAlone
      <3>4. CASE ~Restoring(d)' /\ ~Restoring(e)'
        <4>1. Leading(d)' /\ Leading(e)'  BY <3>4 DEF Restoring, Exchanging, Leading
        <4> QED  BY <3>1, <3>2, <4>1 DEF IInv, FlagHasLeader
      <3> QED  BY <3>3, <3>4
    <2>2. Exchanging(c)'  BY <1>3 DEF Exchanging
    <2> QED  BY <2>1, <2>2 DEF Apart
  <1>5. KeptIsNewest'  BY <1>1, <1>3 DEF KeptIsNewest, Exchanging
  <1>6. ExchangesKept'
    BY <1>1, <1>3, <1>4 DEF ExchangesKept, Answered
  <1>7. EntersAlone'
    BY <1>1, <1>3 DEF Newest, EntersAlone, Entering
  <1> QED  BY <1>1, <1>5, <1>6, <1>7 DEF Newest

LEMMA NewestGiveUp ==
    ASSUME OneTab, IInv, Newest, NEW c \in Calls, GiveUp(c) \/ NotRestored(c)
    PROVE  Newest'
  <1>1. /\ kept' = 0 /\ UNCHANGED issued /\ call[c].stage # "idle"
        /\ status' = [status EXCEPT ![TabOf(c)] = "unauthenticated"]
        /\ \A t \in Tabs : t = TabOf(c)
    BY TabOfCall DEF GiveUp, GivesUp, Unauthorized, Leading, NotRestored, SetStatus,
       server, OneTab
  <1>2. \A t \in Tabs : status'[t] # "authenticated"
    BY <1>1 DEF IInv, TypeOK
  <1>3. \A d \in Calls : call'[d] = Idle \/ (call'[d] = call[d] /\ d # c)
    <2>1. CASE GiveUp(c)  BY <2>1 DEF GiveUp
    <2>2. CASE NotRestored(c)  BY <2>2 DEF NotRestored, IInv, TypeOK
    <2> QED  BY <2>1, <2>2
  <1> QED  BY <1>1, <1>2, <1>3, NewestCleared

\* A reload cuts off the exchange of what is kept.
LEMMA NewestReload ==
    ASSUME OneTab, IInv, Newest, NEW t \in Tabs, Reload(t)
    PROVE  Newest'
  <1> DEFINE gone == {call[c].token : c \in {d \in UnderWay(t) : Exchanging(d)}}
  <1>1. /\ lost' = lost \cup gone /\ UNCHANGED <<kept, issued>>
        /\ status' = [status EXCEPT ![t] = "initializing"]
        /\ \A u \in Tabs : u = t
    BY DEF Reload, SetStatus, OneTab
  <1>2. \A d \in Calls : TabOf(d) = t  BY <1>1, TabOfCall
  <1>3. \A d \in Calls : call'[d] = Idle  BY <1>2 DEF Reload
  <1>4. \A d \in Calls : Exchanging(d) => call[d].token \in gone
    BY <1>2 DEF UnderWay, Exchanging
  <1>5. \A u \in Tabs : status'[u] # "authenticated"
    BY <1>1 DEF IInv, TypeOK
  <1> HIDE DEF gone
  <1>6. KeptIsNewest'  BY <1>1, <1>4 DEF Newest, KeptIsNewest
  <1>7. ExchangesKept' /\ EntersAlone'
    BY <1>3, IdleFields DEF ExchangesKept, EntersAlone, Entering, Answered, Exchanging
  <1> QED  BY <1>5, <1>6, <1>7 DEF Newest

LEMMA NewestStep ==
    ASSUME OneTab, IInv, IInv', ~mixed => Newest, [Next]_vars
    PROVE  (~mixed => Newest)'
  <1> SUFFICES ASSUME ~mixed' PROVE Newest'  OBVIOUS
  <1>1. ASSUME NEW c \in Calls, Login(c) PROVE Newest'
    BY <1>1, NewestLogin
  <1>2. ASSUME ~\E c \in Calls : Login(c) PROVE Newest
    BY <1>2 DEF Next, PageCall, Restore, Logout, Network, Serve, Exchange, Break,
       Handle, Succeed, Reject, Restored, NotRestored, Subscribe, Lead, Refreshed,
       GiveUp, ExpireAccess, EndSession, Reload, vars
  <1>3. ASSUME Newest, NEW c \in Calls,
               PageCall(c) \/ Restore(c) \/ Logout(c) \/ Network(c)
        PROVE  Newest'
    BY <1>3, NewestPageCall, NewestRestore, NewestNetwork
  <1>4. ASSUME Newest, NEW c \in Calls, Handle(c) PROVE Newest'
    BY <1>4, NewestSucceed, NewestReject, NewestRestored, NewestSubscribe, NewestLead,
       NewestRefreshed, NewestGiveUp DEF Handle
  <1>5. ASSUME Newest, NEW t \in Tabs, Reload(t) PROVE Newest'
    BY <1>5, NewestReload
  <1>6. ASSUME Newest, UNCHANGED <<kept, status, call, issued, lost>> PROVE Newest'
    BY <1>6, NewestUntouched DEF Exchanging, Answered, Entering
  <1>7. ASSUME NEW p \in Pairs, ExpireAccess(p) \/ EndSession(p)
        PROVE  UNCHANGED <<kept, status, call, issued, lost>>
    BY <1>7 DEF ExpireAccess, EndSession
  <1>8. CASE UNCHANGED vars
    BY <1>2, <1>6, <1>8 DEF vars, server, Login
  <1> QED
    BY <1>1, <1>2, <1>3, <1>4, <1>5, <1>6, <1>7, <1>8 DEF Next

(***************************************************************************)
(* One tab at rest that shows a user keeps the newest tokens the server    *)
(* issued, for any number of calls at once, pairs and reloads -- unless a  *)
(* reload cut off the exchange of what it keeps, or its last login was     *)
(* answered while calls of an earlier session were under way.              *)
(***************************************************************************)
THEOREM StorageInSync ==
    ASSUME OneTab
    PROVE  Spec => []InSync
  <1>1. Init => (~mixed => Newest)
    BY IdleFields DEF Init, Newest, KeptIsNewest, ExchangesKept, EntersAlone, Entering,
       Answered, Exchanging
  <1>2. IInv /\ IInv' /\ (~mixed => Newest) /\ [Next]_vars => (~mixed => Newest)'
    BY NewestStep
  <1>3. (~mixed => Newest) => InSync
    <2> SUFFICES ASSUME Newest, NEW t \in Tabs, AtRest(t)
                 PROVE  kept = issued \/ kept \in lost
      BY DEF InSync
    <2>1. \A c \in Calls : ~Exchanging(c)
      BY TabOfCall DEF OneTab, AtRest, UnderWay, Exchanging
    <2> QED  BY <2>1 DEF Newest, KeptIsNewest, AtRest
  <1> QED  BY <1>1, <1>2, <1>3, Invariance, PTL DEF Spec

(***************************************************************************)
(* A retry never carries the token that was refused, in any number of      *)
(* tabs: it carries a pair that nobody had seen when the refresh ended.    *)
(***************************************************************************)
THEOREM RetriesAreNew == Spec => RetriesWithNewToken
  <1> DEFINE Renewed ==
        \A c \in Calls :
          /\ call'[c].stage \in {"retrying", "again"}
          /\ call'[c].stage # call[c].stage
          => call'[c].token # call[c].token
  <1>1. ASSUME IInv, [Next]_vars PROVE Renewed
    <2> SUFFICES ASSUME NEW c \in Calls,
                        call'[c].stage \in {"retrying", "again"},
                        call'[c].stage # call[c].stage
                 PROVE  call'[c].token # call[c].token
      OBVIOUS
    <2>1. ASSUME NEW d \in Calls, GetsReply(d) \/ StartsExchange(d) \/ MovesOn(d)
          PROVE  FALSE
      BY <2>1 DEF GetsReply, StartsExchange, MovesOn, OthersStay
    <2>2. ASSUME NEW d \in Calls, GiveUp(d) PROVE FALSE
      <3>1. call'[c] = Idle \/ call'[c] = call[c]  BY <2>2 DEF GiveUp
      <3> QED  BY <3>1, IdleFields
    <2>3. ASSUME NEW t \in Tabs, Reload(t) PROVE FALSE
      <3>1. call'[c] = Idle \/ call'[c] = call[c]  BY <2>3 DEF Reload
      <3> QED  BY <3>1, IdleFields
    <2>4. PICK d \in Calls : Refreshed(d)
      BY <1>1, <2>1, <2>2, <2>3, HowCallsChange
    <2>5. Answered(d)  BY <2>4 DEF Refreshed, Answered, Exchanging
    <2>6. call[c].token # call[d].pair  BY <1>1, <2>5 DEF IInv, Unseen
    <2>7. call'[c].token = call[d].pair \/ call'[c] = call[c]
      BY <1>1, <2>4, RefreshedCalls
    <2> QED  BY <2>6, <2>7
  <1>2. IInv /\ [Next]_vars => [Renewed]_vars  BY <1>1
  <1> QED  BY <1>2, Invariance, PTL DEF Spec, RetriesWithNewToken

(***************************************************************************)
(* The step that ends a refresh retries or rejects every call that waits   *)
(* for it: in every tab, a queued call waits on or is queued no longer.    *)
(***************************************************************************)
THEOREM QueueIsServed == Spec => QueueServed
  <1> DEFINE Served ==
        \A c \in Calls : Waits(c) => Waits(c)' \/ call'[c].stage # "queued"
  <1>1. ASSUME IInv, [Next]_vars PROVE Served
    <2> SUFFICES ASSUME NEW c \in Calls, Waits(c), call'[c].stage = "queued"
                 PROVE  Waits(c)'
      OBVIOUS
    <2>1. PICK d \in UnderWay(TabOf(c)) : call[d].stage = "refreshing"
      BY DEF Waits
    <2>2. /\ d \in Calls /\ TabOf(d) = TabOf(c) /\ call[c].stage = "queued"
          /\ TabOf(c) \in Tabs
      BY TabOfCall DEF UnderWay, Waits
    <2>3. call'[d].stage = "refreshing"
      <3>1. CASE UNCHANGED call  BY <2>1, <3>1
      <3>2. ASSUME NEW e \in Calls, GetsReply(e) \/ StartsExchange(e) \/ MovesOn(e)
            PROVE  call'[d].stage = "refreshing"
        BY <2>1, <2>2, <3>2 DEF GetsReply, StartsExchange, MovesOn, OthersStay
      <3>3. ASSUME NEW e \in Calls, Refreshed(e) PROVE call'[d].stage = "refreshing"
        <4>1. e # d
          <5>1. ASSUME e = d PROVE FALSE
            <6>1. c \in Subscribers(TabOf(e)) /\ c # e
              BY <2>1, <2>2, <5>1 DEF Subscribers, UnderWay
            <6> QED  BY <1>1, <3>3, <6>1, RefreshedCalls
          <5> QED  BY <5>1
        <4>2. d \notin Subscribers(TabOf(e))  BY <2>1 DEF Subscribers
        <4>3. call'[d] = call[d]
          BY <1>1, <2>2, <3>3, <4>1, <4>2, RefreshedCalls
        <4> QED  BY <2>1, <4>3
      <3>4. ASSUME NEW e \in Calls, GiveUp(e) PROVE call'[d].stage = "refreshing"
        <4>1. c \notin Subscribers(TabOf(e))
          BY <2>2, <3>4, IdleFields DEF GiveUp
        <4>2. TabOf(e) # TabOf(c)  BY <2>2, <4>1 DEF Subscribers, UnderWay
        <4>3. call'[d] = call[d]
          BY <2>2, <3>4, <4>2 DEF GiveUp, Subscribers, UnderWay
        <4> QED  BY <2>1, <4>3
      <3>5. ASSUME NEW t \in Tabs, Reload(t) PROVE call'[d].stage = "refreshing"
        <4>1. TabOf(c) # t  BY <2>2, <3>5, IdleFields DEF Reload
        <4> QED  BY <2>1, <2>2, <3>5, <4>1 DEF Reload
      <3> QED  BY <1>1, <3>1, <3>2, <3>3, <3>4, <3>5, HowCallsChange
    <2> QED  BY <2>2, <2>3 DEF Waits, UnderWay
  <1>2. IInv /\ [Next]_vars => [Served]_vars  BY <1>1
  <1> QED  BY <1>2, Invariance, PTL DEF Spec, QueueServed

(***************************************************************************)
(* The rate limiter.                                                       *)
(***************************************************************************)
\* Requests in progress are at most MaxDelay old.
Prompt ==
    \A r \in Requests : stamp[r] # None => now <= stamp[r] + MaxDelay

\* The key outlives every request by a window.
KeyLasts == \A s \in arrived : s + Window <= keyExpires

LimiterInv ==
    /\ LimiterTypeOK
    /\ Admitted \subseteq arrived
    /\ entries \subseteq arrived
    /\ Prompt
    /\ KeyLasts
    /\ RecentIsStored
    /\ SecondsBounded

(***************************************************************************)
(* Finite sets of seconds and the arithmetic of their cardinalities.       *)
(***************************************************************************)
LEMMA SecondsFinite ==
    ASSUME NEW S, S \subseteq Seconds
    PROVE  IsFiniteSet(S) /\ Cardinality(S) \in Nat
  <1>1. IsFiniteSet(Seconds)
    BY FS_Interval, LimiterAssumption DEF Seconds
  <1> QED  BY <1>1, FS_Subset, FS_CardinalityType

LEMMA OneMore ==
    ASSUME NEW S, NEW T, NEW t, NEW n \in Nat,
           T \subseteq Seconds, S \subseteq T \cup {t}, Cardinality(T) < n
    PROVE  Cardinality(S) <= n
  <1>1. IsFiniteSet(T) /\ Cardinality(T) \in Nat
    BY SecondsFinite
  <1>2. IsFiniteSet(T \cup {t}) /\ Cardinality(T \cup {t}) <= Cardinality(T) + 1
    BY <1>1, FS_AddElement, FS_CardinalityType
  <1>3. /\ Cardinality(S) <= Cardinality(T \cup {t})
        /\ Cardinality(S) \in Nat /\ Cardinality(T \cup {t}) \in Nat
    BY <1>2, FS_Subset, FS_CardinalityType
  <1> QED  BY <1>1, <1>2, <1>3

LEMMA LimiterInitInv == LimiterInit => LimiterInv
  <1> SUFFICES ASSUME LimiterInit PROVE LimiterInv  OBVIOUS
  <1> USE LimiterAssumption
  <1>1. LimiterTypeOK  BY DEF LimiterInit, LimiterTypeOK, Seconds
  <1>2. Admitted = {}  BY DEF LimiterInit, Admitted, Seconds
  <1>3. SecondsBounded
    <2>1. \A x \in Seconds : Within(x) = {}  BY <1>2 DEF Within
    <2> QED  BY <2>1, FS_EmptySet DEF SecondsBounded
  <1> QED  BY <1>1, <1>2, <1>3 DEF LimiterInit, LimiterInv, Prompt, KeyLasts, RecentIsStored

LEMMA ArriveStep ==
    ASSUME LimiterInv, NEW r \in Requests, Arrive(r)
    PROVE  LimiterInv'
  <1> USE LimiterAssumption DEF Arrive
  <1>1. LimiterTypeOK'  BY DEF LimiterInv, LimiterTypeOK, Seconds
  <1>2. Admitted' = Admitted  BY DEF Admitted, Seconds
  <1>3. Prompt'  BY DEF LimiterInv, LimiterTypeOK, Prompt, Seconds
  <1>4. (KeyLasts /\ RecentIsStored)'
    BY DEF LimiterInv, KeyLasts, RecentIsStored, Stored
  <1>5. SecondsBounded'
    BY <1>2 DEF LimiterInv, SecondsBounded, Within, Seconds
  <1> QED  BY <1>1, <1>2, <1>3, <1>4, <1>5 DEF LimiterInv

LEMMA TickStep ==
    ASSUME LimiterInv, Tick
    PROVE  LimiterInv'
  <1> USE LimiterAssumption DEF Tick
  <1>1. LimiterTypeOK'
    BY DEF LimiterInv, LimiterTypeOK, Seconds
  <1>2. Admitted' = Admitted  BY DEF Admitted, Seconds
  <1>3. Prompt'  BY DEF LimiterInv, LimiterTypeOK, Prompt, Seconds
  <1>4. KeyLasts'  BY DEF LimiterInv, KeyLasts
  <1>5. RecentIsStored'
    BY DEF LimiterInv, LimiterTypeOK, KeyLasts, RecentIsStored, Stored, Seconds
  <1>6. SecondsBounded'
    BY <1>2 DEF LimiterInv, SecondsBounded, Within, Seconds
  <1> QED  BY <1>1, <1>2, <1>3, <1>4, <1>5, <1>6 DEF LimiterInv

LEMMA ExecuteStep ==
    ASSUME LimiterInv, NEW r \in Requests, Execute(r)
    PROVE  LimiterInv'
  <1> USE LimiterAssumption
  <1> DEFINE t == stamp[r]
  <1>1. t \in 0..now /\ now \in Seconds /\ t \in Seconds /\ now <= t + MaxDelay
    BY DEF Execute, LimiterInv, LimiterTypeOK, Prompt, Seconds
  <1>2. Kept(t) \subseteq 0..now /\ Kept(t) \subseteq Seconds
    <2>1. Stored \subseteq entries  BY DEF Stored
    <2>2. Kept(t) \subseteq Stored  BY DEF Kept
    <2>3. entries \subseteq 0..now  BY DEF LimiterInv, LimiterTypeOK
    <2>4. 0..now \subseteq Seconds  BY <1>1 DEF Seconds
    <2> QED  BY <2>1, <2>2, <2>3, <2>4
  <1>3. LimiterTypeOK'
    <2>1. now' \in Seconds /\ keyExpires' \in Nat
      BY <1>1 DEF Execute, Seconds
    <2>2. entries' \subseteq 0..now' /\ arrived' \subseteq 0..now'
      BY <1>1, <1>2 DEF Execute, LimiterInv, LimiterTypeOK
    <2>3. stamp' \in [Requests -> 0..now' \cup {None}]
      BY DEF Execute, LimiterInv, LimiterTypeOK
    <2>4. admitted' \in [Seconds -> Nat]
      BY <1>1 DEF Execute, LimiterInv, LimiterTypeOK
    <2>5. Limited(t) \in BOOLEAN  BY DEF Limited
    <2>6. last' \in [limited : BOOLEAN, until : Int]
      BY <1>1, <2>5 DEF Execute, RetryAfter, Seconds
    <2> QED  BY <2>1, <2>2, <2>3, <2>4, <2>6 DEF LimiterTypeOK, Seconds
  <1>4. Admitted' \subseteq Admitted \cup {t}
    BY <1>1 DEF Execute, Admitted, LimiterInv, LimiterTypeOK, Seconds
  <1>5. (Admitted \subseteq arrived /\ entries \subseteq arrived)'
    <2>1. (Admitted \subseteq arrived)'
      BY <1>4 DEF Execute, LimiterInv
    <2>2. Kept(t) \subseteq arrived
      BY DEF Kept, Stored, LimiterInv
    <2> QED  BY <2>1, <2>2 DEF Execute
  <1>6. Prompt'  BY DEF Execute, LimiterInv, Prompt
  <1>7. KeyLasts'
    BY <1>1 DEF Execute, LimiterInv, LimiterTypeOK, KeyLasts, Seconds
  <1>8. RecentIsStored'
    <2> SUFFICES ASSUME NEW s \in arrived', s > now - Window
                 PROVE  s \in entries' /\ now < keyExpires'
      BY DEF RecentIsStored, Stored, Execute
    <2>1. CASE s = t
      BY <2>1, <1>1 DEF Execute, Seconds
    <2>2. CASE s \in arrived
      <3>1. s \in Stored  BY <2>2 DEF LimiterInv, RecentIsStored
      <3>2. s \in 0..now  BY <2>2 DEF LimiterInv, LimiterTypeOK
      <3>3. s > t - Window  BY <1>1, <3>2 DEF Seconds
      <3> QED  BY <1>1, <3>1, <3>3 DEF Execute, Kept, Seconds
    <2> QED  BY <2>1, <2>2 DEF Execute
  <1>9. SecondsBounded'
    <2> SUFFICES ASSUME NEW x \in Seconds
                 PROVE  Cardinality(Within(x)') <= MaxRequests
      BY DEF SecondsBounded, Seconds
    <2>1. Within(x)' \subseteq Within(x) \cup {t}
      BY <1>4 DEF Within
    <2>2. Cardinality(Within(x)) <= MaxRequests
      BY DEF LimiterInv, SecondsBounded
    <2>3. Within(x) \subseteq Seconds  BY DEF Within, Admitted
    <2>4. CASE t \notin Within(x)'
      <3>1. Within(x)' \subseteq Within(x)  BY <2>1, <2>4
      <3>2. /\ Cardinality(Within(x)') <= Cardinality(Within(x))
            /\ Cardinality(Within(x)') \in Nat /\ Cardinality(Within(x)) \in Nat
        BY <3>1, <2>3, SecondsFinite, FS_Subset
      <3> QED  BY <3>2, <2>2
    <2>5. CASE Limited(t)
      <3>1. Within(x)' = Within(x)
        BY <2>5, <1>1 DEF Execute, Within, Admitted, LimiterInv, LimiterTypeOK, Seconds
      <3> QED  BY <3>1, <2>2
    <2>6. CASE t \in Within(x)' /\ ~Limited(t)
      <3>1. x <= t /\ t < x + Window - MaxDelay  BY <2>6 DEF Within
      <3>2. Within(x) \subseteq Kept(t)
        <4> SUFFICES ASSUME NEW s \in Within(x) PROVE s \in Kept(t)
          OBVIOUS
        <4>1. s \in Seconds /\ s \in arrived /\ x <= s
          BY DEF Within, Admitted, LimiterInv
        <4>2. s > now - Window /\ s > t - Window
          BY <1>1, <3>1, <4>1 DEF Seconds
        <4>3. s \in Stored  BY <4>1, <4>2 DEF LimiterInv, RecentIsStored
        <4> QED  BY <4>2, <4>3 DEF Kept
      <3>3. Cardinality(Kept(t)) < MaxRequests
        BY <2>6, <1>2, SecondsFinite DEF Limited
      <3>4. Within(x)' \subseteq Kept(t) \cup {t}  BY <2>1, <3>2
      <3> QED  BY <1>2, <3>3, <3>4, OneMore
    <2> QED  BY <2>4, <2>5, <2>6
  <1> QED  BY <1>3, <1>5, <1>6, <1>7, <1>8, <1>9 DEF LimiterInv

LEMMA LimiterNextInv == LimiterInv /\ [LimiterNext]_limiterVars => LimiterInv'
  <1> SUFFICES ASSUME LimiterInv, [LimiterNext]_limiterVars PROVE LimiterInv'  OBVIOUS
  <1>1. CASE \E r \in Requests : Arrive(r)  BY <1>1, ArriveStep
  <1>2. CASE \E r \in Requests : Execute(r)  BY <1>2, ExecuteStep
  <1>3. CASE Tick  BY <1>3, TickStep
  <1>4. CASE UNCHANGED limiterVars
    <2>1. /\ LimiterTypeOK' = LimiterTypeOK /\ Admitted' = Admitted /\ arrived' = arrived
          /\ Prompt' = Prompt /\ KeyLasts' = KeyLasts /\ entries' = entries
      BY <1>4 DEF limiterVars, LimiterTypeOK, Admitted, Prompt, KeyLasts, Seconds
    <2>2. RecentIsStored' = RecentIsStored
      BY <1>4 DEF limiterVars, RecentIsStored, Stored
    <2>3. SecondsBounded' = SecondsBounded
      BY <1>4 DEF limiterVars, SecondsBounded, Within, Admitted, Seconds
    <2> QED  BY <2>1, <2>2, <2>3 DEF LimiterInv
  <1> QED  BY <1>1, <1>2, <1>3, <1>4 DEF LimiterNext

LEMMA LimiterInvariance == LimiterSpec => []LimiterInv
  BY LimiterInitInv, LimiterNextInv, PTL DEF LimiterSpec

(***************************************************************************)
(* The state of the limiter is always well typed.                          *)
(***************************************************************************)
THEOREM LimiterTypeCorrect == LimiterSpec => []LimiterTypeOK
  <1>1. LimiterInv => LimiterTypeOK  BY DEF LimiterInv
  <1> QED  BY <1>1, LimiterInvariance, PTL

(***************************************************************************)
(* No request of the last window is forgotten by the sorted set.           *)
(***************************************************************************)
THEOREM NothingForgotten == LimiterSpec => []RecentIsStored
  <1>1. LimiterInv => RecentIsStored  BY DEF LimiterInv
  <1> QED  BY <1>1, LimiterInvariance, PTL

(***************************************************************************)
(* Requests are let in during at most MaxRequests seconds of any window,   *)
(* whatever the limit, the window and the delays.                          *)
(***************************************************************************)
THEOREM LimitOfSeconds == LimiterSpec => []SecondsBounded
  <1>1. LimiterInv => SecondsBounded  BY DEF LimiterInv
  <1> QED  BY <1>1, LimiterInvariance, PTL

(***************************************************************************)
(* A client none of whose requests came during the last window is let in,  *)
(* whatever other requests are on their way.                               *)
(***************************************************************************)
THEOREM QuietClientForgiven == LimiterSpec => QuietIsForgiven
  <1> DEFINE Forgives ==
        \A r \in Requests :
          /\ stamp[r] # None /\ stamp'[r] = None
          /\ \A s \in arrived : s <= stamp[r] - Window
          => ~last'.limited
  <1>1. ASSUME LimiterInv, [LimiterNext]_limiterVars, NEW r \in Requests,
               stamp[r] # None, stamp'[r] = None,
               \A s \in arrived : s <= stamp[r] - Window
        PROVE  ~last'.limited
    <2> USE LimiterAssumption
    <2>1. stamp \in [Requests -> (0..now) \cup {None}] /\ now \in Seconds
      BY <1>1 DEF LimiterInv, LimiterTypeOK
    <2>2. PICK q \in Requests : Execute(q)
      <3>1. ~Tick /\ ~UNCHANGED limiterVars
        BY <1>1 DEF Tick, limiterVars
      <3>2. ASSUME NEW p \in Requests, Arrive(p) PROVE FALSE
        BY <1>1, <2>1, <3>2 DEF Arrive, Seconds
      <3> QED  BY <1>1, <3>1, <3>2 DEF LimiterNext
    <2>3. q = r
      BY <1>1, <2>1, <2>2 DEF Execute
    <2>4. Kept(stamp[r]) = {}
      <3>1. entries \subseteq arrived /\ arrived \subseteq 0..now
        BY <1>1 DEF LimiterInv, LimiterTypeOK
      <3>2. stamp[r] \in Int
        BY <1>1, <2>1 DEF Seconds
      <3>3. ASSUME NEW s \in Kept(stamp[r]) PROVE FALSE
        <4>1. s \in arrived /\ s \in Int /\ s > stamp[r] - Window
          BY <2>1, <3>1, <3>3 DEF Kept, Stored, Seconds
        <4> QED  BY <1>1, <3>2, <4>1
      <3> QED  BY <3>3
    <2>5. ~Limited(stamp[r])
      BY <2>4, FS_EmptySet DEF Limited
    <2> QED  BY <2>2, <2>3, <2>5 DEF Execute
  <1>2. LimiterInv /\ [LimiterNext]_limiterVars => [Forgives]_limiterVars
    BY <1>1
  <1> QED  BY <1>2, LimiterInvariance, PTL DEF LimiterSpec, QuietIsForgiven
=============================================================================
