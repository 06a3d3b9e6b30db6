--------------------------- MODULE CircuitBreaker ---------------------------
(***************************************************************************)
(* CircuitBreaker of the gateway, shared by all its calls.  The clock is   *)
(* kept as one bit: whether reset_timeout has passed since _opened_at.     *)
(***************************************************************************)
EXTENDS Integers

CONSTANT FailThreshold    \* fail_threshold

ASSUME ThresholdAssumption == FailThreshold \in Nat \ {0}

VARIABLES
    state,     \* _state
    failures,  \* _failures, counted up to FailThreshold: no more is compared
    ripe       \* time.monotonic() - _opened_at >= reset_timeout

breakerVars == <<state, failures, ripe>>

BreakerTypeOK ==
    /\ state \in {"closed", "open", "half_open"}
    /\ failures \in 0 .. FailThreshold
    /\ ripe \in BOOLEAN

BreakerInit == state = "closed" /\ failures = 0 /\ ripe = TRUE

(* A slip: allow reads the field, not the property. *)
FieldOnly == state

(* _state as the property of the same name returns and leaves it *)
MaybeHalfOpen == IF state = "open" /\ ripe THEN "half_open" ELSE state

(* allow returns, or raises CircuitOpenError *)
Allow  == MaybeHalfOpen # "open" /\ state' = MaybeHalfOpen /\ UNCHANGED <<failures, ripe>>
Reject == MaybeHalfOpen = "open" /\ UNCHANGED breakerVars

(* A slip: a success leaves the count of failures alone. *)
SuccessKeepsCount == state' = "closed" /\ UNCHANGED <<failures, ripe>>

RecordSuccess == state' = "closed" /\ failures' = 0 /\ UNCHANGED ripe

Counted == IF failures < FailThreshold THEN failures + 1 ELSE failures

RecordFailure ==
    /\ failures' = Counted
    /\ IF state = "half_open" \/ Counted >= FailThreshold
       THEN state' = "open" /\ ripe' = FALSE
       ELSE UNCHANGED <<state, ripe>>

Elapse == ripe = FALSE /\ ripe' = TRUE /\ UNCHANGED <<state, failures>>
=============================================================================
