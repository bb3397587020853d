---------------------------- MODULE RateLimiter ----------------------------
(***************************************************************************)
(* RedisRateLimiter.is_rate_limited for one key: a sorted set of the       *)
(* seconds in which requests came, shared by all API processes. A request  *)
(* first reads the clock and then, some time later, runs one MULTI/EXEC    *)
(* transaction: drop what is older than the window, count, add, set the    *)
(* expiry of the key. The member added is the second itself, so requests   *)
(* of one second are one entry, and a refused request is entered too.      *)
(***************************************************************************)
EXTENDS Integers, FiniteSets

CONSTANTS
    Requests,      \* requests of this key that can be in progress at once
    None,
    MaxRequests,   \* max_requests
    Window,        \* window_seconds
    MaxDelay,      \* seconds between reading the clock and the transaction
    MaxBurst,      \* bound: requests counted in one second
    MaxTime        \* bound: the clock stops here

VARIABLES
    now,           \* int(time.time())
    entries,       \* the members of the sorted set
    keyExpires,    \* when Redis drops the whole key
    stamp,         \* the clock as each request in progress read it
    arrived,       \* history: the seconds of all transactions
    admitted,      \* history: how many requests of each second were let in
    last           \* the last answer, and when it says to come back

limiterVars == <<now, entries, keyExpires, stamp, arrived, admitted, last>>
-----------------------------------------------------------------------------
ASSUME LimiterAssumption ==
    /\ None \notin Int
    /\ MaxRequests \in Nat \ {0}
    /\ Window \in Nat \ {0}
    /\ MaxDelay \in Nat
    /\ MaxBurst \in Nat \ {0}
    /\ MaxTime \in Nat

LimiterInit ==
    /\ now = 0
    /\ entries = {}
    /\ keyExpires = 0
    /\ stamp = [r \in Requests |-> None]
    /\ arrived = {}
    /\ admitted = [s \in 0..MaxTime |-> 0]
    /\ last = [limited |-> FALSE, until |-> 0]

\* What the key holds: EXPIRE has removed it if nobody came for a window.
Stored == IF now < keyExpires THEN entries ELSE {}

\* Mutant: nothing is removed, the expiry of the key is relied upon.
KeptAll(t) == Stored

\* zremrangebyscore(key, 0, t - Window) leaves these.
Kept(t) == {s \in Stored : s > t - Window}

\* Mutant: the comparison is off by one.
LimitedLate(t) == Cardinality(Kept(t)) > MaxRequests

Limited(t) == Cardinality(Kept(t)) >= MaxRequests

\* Retry-After of a refused request: "reset" is the request's own second.
RetryAfter(t) == t - now
-----------------------------------------------------------------------------
\* A request of this key arrives and reads the clock.
Arrive(r) ==
    /\ stamp[r] = None
    /\ admitted[now] < MaxBurst
    /\ stamp' = [stamp EXCEPT ![r] = now]
    /\ UNCHANGED <<now, entries, keyExpires, arrived, admitted, last>>

\* Its transaction, and the answer computed from the count.
Execute(r) ==
    LET t == stamp[r]
    IN  /\ t # None
        /\ entries' = Kept(t) \cup {t}
        /\ keyExpires' = now + Window
        /\ arrived' = arrived \cup {t}
        /\ admitted' = [admitted EXCEPT ![t] = IF Limited(t) THEN @ ELSE @ + 1]
        /\ last' = [limited |-> Limited(t), until |-> now + RetryAfter(t)]
        /\ stamp' = [stamp EXCEPT ![r] = None]
        /\ UNCHANGED now

Tick ==
    /\ now < MaxTime
    /\ \A r \in Requests : stamp[r] # None => now < stamp[r] + MaxDelay
    /\ now' = now + 1
    /\ UNCHANGED <<entries, keyExpires, stamp, arrived, admitted, last>>

LimiterNext ==
    \/ \E r \in Requests : Arrive(r) \/ Execute(r)
    \/ Tick

LimiterSpec == LimiterInit /\ [][LimiterNext]_limiterVars
-----------------------------------------------------------------------------
Seconds == 0..MaxTime
Admitted == {s \in Seconds : admitted[s] > 0}

LimiterTypeOK ==
    /\ now \in Seconds
    /\ entries \subseteq 0..now
    /\ keyExpires \in Nat
    /\ stamp \in [Requests -> (0..now) \cup {None}]
    /\ arrived \subseteq 0..now
    /\ admitted \in [Seconds -> Nat]
    /\ last \in [limited : BOOLEAN, until : Int]

(***************************************************************************)
(* What the limiter does promise: the requests it lets in fall into at     *)
(* most MaxRequests different seconds of any window, less the time a       *)
(* request may take from the clock to the transaction.                     *)
(***************************************************************************)
Within(x) == {s \in Admitted : x <= s /\ s < x + Window - MaxDelay}

SecondsBounded ==
    \A x \in Seconds : Cardinality(Within(x)) <= MaxRequests

(***************************************************************************)
(* No entry that still counts is lost, neither to the removal of old       *)
(* entries by a request with a later clock nor to the expiry of the key.   *)
(***************************************************************************)
RecentIsStored == \A s \in arrived : s > now - Window => s \in Stored

(***************************************************************************)
(* A client that stayed away for a window is let in.                       *)
(***************************************************************************)
QuietIsForgiven ==
    [][\A r \in Requests :
         /\ stamp[r] # None /\ stamp'[r] = None
         /\ \A s \in arrived : s <= stamp[r] - Window
         => ~last'.limited]_limiterVars
-----------------------------------------------------------------------------
(***************************************************************************)
(* Statements of the repository's documents that the code does not keep:   *)
(* TLC refutes each with the constants README.md names.                    *)
(***************************************************************************)

\* No more than MaxRequests requests are let in during any window.
LetIn(x) == UNION {{s} \X (1..admitted[s]) : s \in x..(x + Window - 1) \cap Seconds}
LimitHolds == \A x \in Seconds : Cardinality(LetIn(x)) <= MaxRequests

\* A refused client that waits as long as Retry-After says, and is the next
\* to come, is let in.
RetryAfterHelps ==
    [][\A r \in Requests :
         /\ last.limited
         /\ stamp[r] # None /\ stamp'[r] = None
         /\ stamp[r] >= last.until
         => ~last'.limited]_limiterVars
=============================================================================
