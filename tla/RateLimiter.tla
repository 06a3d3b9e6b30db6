---------------------------- MODULE RateLimiter -----------------------------
(***************************************************************************)
(* TokenBucketRateLimiter.allow for one API key.  enforce_rate_limit is a  *)
(* plain function, so FastAPI calls it from several threads at once, and   *)
(* nothing locks the bucket.  A thread can lose the interpreter where a    *)
(* call returns: after monotonic(), get(), _Bucket() and min().  Time is   *)
(* counted in ticks, and Rate is tokens per tick.                          *)
(***************************************************************************)
EXTENDS Integers

CONSTANTS
    Threads,
    Rate, Burst, Cost,
    Second,    \* ticks in a second
    MaxTime,   \* bound on the clock
    NoThread

ASSUME LimiterAssumption ==
    /\ Rate \in Nat /\ Burst \in Nat /\ Cost \in Nat /\ Second \in Nat \ {0}
    /\ MaxTime \in Nat
    /\ NoThread \notin Threads

VARIABLES
    clock,
    pc,        \* where a thread is in allow
    now,       \* its reading of the clock
    mine,      \* its bucket; a bucket has the name of the thread that made it
    refilled,  \* the result of its min()
    current,   \* the bucket in _buckets
    tokens, lastRefill,
    since,     \* history: the start of a window of time,
    admitted,  \* the calls admitted in it,
    alone,     \* whether no two calls have overlapped in it,
    promise    \* and when the Retry-After of its last answer, a 429, is over

callVars   == <<pc, now, mine, refilled>>
bucketVars == <<current, tokens, lastRefill>>
windowVars == <<since, admitted, alone, promise>>
vars == <<clock, callVars, bucketVars, windowVars>>

Times == 0 .. MaxTime

TypeOK ==
    /\ clock \in Times
    /\ pc \in [Threads -> {"idle", "get", "create", "refill", "spend"}]
    /\ now \in [Threads -> Times]
    /\ mine \in [Threads -> Threads \cup {NoThread}]
    /\ refilled \in [Threads -> Int] /\ \A t \in Threads : refilled[t] =< Burst
    /\ current \in Threads \cup {NoThread}
    /\ tokens \in [Threads -> Int] /\ \A t \in Threads : tokens[t] =< Burst
    /\ lastRefill \in [Threads -> Times]
    /\ since \in Times /\ admitted \in Nat /\ alone \in BOOLEAN
    /\ promise \subseteq Nat

Init ==
    /\ clock = 0
    /\ pc = [t \in Threads |-> "idle"]
    /\ now = [t \in Threads |-> 0]
    /\ mine = [t \in Threads |-> NoThread]
    /\ refilled = [t \in Threads |-> 0]
    /\ current = NoThread
    /\ tokens = [t \in Threads |-> 0]
    /\ lastRefill = [t \in Threads |-> 0]
    /\ since = 0 /\ admitted = 0 /\ alone = TRUE /\ promise = {}

Goes(t, place) == pc' = [pc EXCEPT ![t] = place]

Call(t) ==
    /\ pc[t] = "idle"
    /\ now' = [now EXCEPT ![t] = clock]
    /\ Goes(t, "get")
    /\ alone' = (alone /\ \A u \in Threads : pc[u] = "idle")
    /\ UNCHANGED <<clock, mine, refilled, bucketVars, since, admitted, promise>>

Get(t) ==
    /\ pc[t] = "get"
    /\ mine' = [mine EXCEPT ![t] = current]
    /\ Goes(t, IF current = NoThread THEN "create" ELSE "refill")
    /\ UNCHANGED <<clock, now, refilled, bucketVars, windowVars>>

(* It goes into _buckets over one that another thread has put there. *)
Create(t) ==
    /\ pc[t] = "create"
    /\ tokens' = [tokens EXCEPT ![t] = Burst]
    /\ lastRefill' = [lastRefill EXCEPT ![t] = now[t]]
    /\ current' = t
    /\ mine' = [mine EXCEPT ![t] = t]
    /\ Goes(t, "refill")
    /\ UNCHANGED <<clock, now, refilled, windowVars>>

(* A slip: an idle client saves up tokens for ever. *)
Uncapped(t) == tokens[mine[t]] + (now[t] - lastRefill[mine[t]]) * Rate

(* The elapsed time is negative when another thread has refilled the bucket *)
(* since this one read the clock.                                          *)
Capped(t) ==
    LET more == tokens[mine[t]] + (now[t] - lastRefill[mine[t]]) * Rate
    IN IF more < Burst THEN more ELSE Burst

Refill(t) ==
    /\ pc[t] = "refill"
    /\ refilled' = [refilled EXCEPT ![t] = Capped(t)]
    /\ Goes(t, "spend")
    /\ UNCHANGED <<clock, now, mine, bucketVars, windowVars>>

(* A slip: the time of the refill is kept when nothing was added. *)
LaterTime(t) ==
    IF lastRefill[mine[t]] > now[t] THEN lastRefill[mine[t]] ELSE now[t]

RefillTime(t) == now[t]

(* Assigns what was computed, whatever another thread has assigned since,   *)
(* and returns.                                                            *)
Stores(t, balance) ==
    /\ pc[t] = "spend"
    /\ tokens' = [tokens EXCEPT ![mine[t]] = balance]
    /\ lastRefill' = [lastRefill EXCEPT ![mine[t]] = RefillTime(t)]
    /\ Goes(t, "idle")
    /\ now' = [now EXCEPT ![t] = 0]
    /\ mine' = [mine EXCEPT ![t] = NoThread]
    /\ refilled' = [refilled EXCEPT ![t] = 0]
    /\ UNCHANGED <<clock, current, since, alone>>

(* A slip: a full bucket is not charged. *)
FullIsFree(t) == IF refilled[t] = Burst THEN Burst ELSE refilled[t] - Cost

Charged(t) == refilled[t] - Cost

Admit(t) ==
    /\ refilled[t] >= Cost
    /\ Stores(t, Charged(t))
    /\ admitted' = IF alone THEN admitted + 1 ELSE admitted
    /\ promise' = {}

(* A slip: int() in place of round() *)
CutOff(a, b) == a \div b

(* round() of a quotient: the nearest integer, the even one of two *)
Rounded(a, b) ==
    LET whole == a \div b
        twice == 2 * (a % b)
    IN IF twice < b \/ (twice = b /\ whole % 2 = 0) THEN whole ELSE whole + 1

Seconds(t) == IF Rate = 0 THEN 1 ELSE Rounded(Cost - refilled[t], Rate * Second)

(* The header of the 429, in seconds *)
RetryAfter(t) == IF Seconds(t) < 1 THEN 1 ELSE Seconds(t)

Refuse(t) ==
    /\ refilled[t] < Cost
    /\ Stores(t, refilled[t])
    /\ promise' = IF alone THEN {now[t] + RetryAfter(t) * Second} ELSE {}
    /\ UNCHANGED admitted

Tick ==
    /\ clock < MaxTime
    /\ clock' = clock + 1
    /\ UNCHANGED <<callVars, bucketVars, windowVars>>

(* History: a window may be opened whenever nobody is in allow. *)
OpenWindow ==
    /\ \A t \in Threads : pc[t] = "idle"
    /\ since' = clock /\ admitted' = 0 /\ alone' = TRUE /\ promise' = {}
    /\ UNCHANGED <<clock, callVars, bucketVars>>

-----------------------------------------------------------------------------

Allow(t) == Call(t) \/ Get(t) \/ Create(t) \/ Refill(t) \/ Admit(t) \/ Refuse(t)

Next == (\E t \in Threads : Allow(t)) \/ Tick \/ OpenWindow

Spec == Init /\ [][Next]_vars

-----------------------------------------------------------------------------

(* In every window in which calls do not overlap the client gets no more   *)
(* than the burst and what was refilled, whatever overlapping calls did to *)
(* the bucket before.                                                      *)
WithinRate == alone => admitted * Cost =< Burst + Rate * (clock - since)

(* A thread with an old reading of the clock takes back tokens and sets    *)
(* the clock of the bucket back: together that never puts a client in      *)
(* debt, and it is served again as soon as Cost tokens have been refilled. *)
Solvent == \A t \in Threads : tokens[t] + Rate * (clock - lastRefill[t]) >= 0

(* The half seconds, in ticks doubled, that rounding can take from the wait: *)
(* none where a request is refilled within the second every 429 asks for.  *)
Grace == IF Cost =< Rate * Second THEN 0 ELSE Second

(* A client that waits, alone, as long as its 429 says is admitted; where a *)
(* request takes longer than a second to refill, it may have to wait half a *)
(* second more, since Retry-After is rounded (1.25 s to 1), and no longer.  *)
RetryAfterEnough ==
    [][\A t \in Threads :
           Refuse(t) /\ alone /\ Rate > 0 =>
               \A over \in promise : 2 * now[t] < 2 * over + Grace]_vars
=============================================================================
