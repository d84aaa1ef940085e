--------------------------- MODULE CircuitBreaker ---------------------------
(***************************************************************************)
(* api-breaker: a check node before the upstream and an observe node after *)
(* it share one breaker, each use of which is atomic (a mutex).  open_for  *)
(* stands for open_until: the ticks left until the breaker may half-open.  *)
(***************************************************************************)
EXTENDS Integers

CONSTANTS
    unhealthy_threshold, healthy_threshold,
    break_base_sec, max_breaker_sec,
    MaxRound,              \* bound on trip_round: the backoff is saturated there
    Closed                 \* open_until is None

Backoff(round) ==
    LET ceiling == IF max_breaker_sec > break_base_sec THEN max_breaker_sec ELSE break_base_sec
    IN  IF break_base_sec * 2^round < ceiling THEN break_base_sec * 2^round ELSE ceiling

ASSUME BreakerAssumption ==
    /\ {unhealthy_threshold, healthy_threshold, break_base_sec} \subseteq Nat \ {0}
    /\ max_breaker_sec \in Nat /\ MaxRound \in 0..16
    /\ Backoff(MaxRound) = Backoff(MaxRound + 1)
    /\ Closed \notin Nat

VARIABLES
    unhealthy_count, healthy_count, trip_round, open_for,
    rest,      \* history: ticks since the last trip (saturated)
    probed     \* history: a request passed the check since the last trip

breakerState == <<unhealthy_count, healthy_count, trip_round, open_for>>
breakerVars  == <<breakerState, rest, probed>>

BreakerInit ==
    /\ unhealthy_count = 0 /\ healthy_count = 0 /\ trip_round = 0
    /\ open_for = Closed
    /\ rest = break_base_sec /\ probed = FALSE

\* Mutant: the cooldown is not awaited.
AllowAtOnce == TRUE

\* The open window is over, or there is none.
allow == open_for \in {0, Closed}

\* The check node lets the request through; an elapsed window is closed.
CheckPasses ==
    /\ allow
    /\ open_for' = Closed
    /\ probed' = TRUE
    /\ UNCHANGED <<unhealthy_count, healthy_count, trip_round, rest>>

CheckRejects == ~allow /\ UNCHANGED breakerVars

\* Mutant: the next spell starts with the backoff of the last one.
HealthyKeepsRound ==
    /\ unhealthy_count' = 0
    /\ healthy_count' = IF healthy_count + 1 >= healthy_threshold THEN 0 ELSE healthy_count + 1
    /\ UNCHANGED <<trip_round, open_for, rest, probed>>

record_healthy ==
    /\ unhealthy_count' = 0
    /\ IF healthy_count + 1 >= healthy_threshold
       THEN healthy_count' = 0 /\ trip_round' = 0
       ELSE healthy_count' = healthy_count + 1 /\ UNCHANGED trip_round
    /\ UNCHANGED <<open_for, rest, probed>>

record_unhealthy ==
    /\ healthy_count' = 0
    /\ IF unhealthy_count + 1 >= unhealthy_threshold
       THEN /\ unhealthy_count' = 0
            /\ open_for' = Backoff(trip_round)
            /\ trip_round' = IF trip_round < MaxRound THEN trip_round + 1 ELSE trip_round
            /\ rest' = 0 /\ probed' = FALSE
       ELSE /\ unhealthy_count' = unhealthy_count + 1
            /\ UNCHANGED <<open_for, trip_round, rest, probed>>

\* The observe node: a status in neither list changes nothing.
Observe(status) ==
    \/ status = "unhealthy" /\ record_unhealthy
    \/ status = "healthy"   /\ record_healthy
    \/ status = "other"     /\ UNCHANGED breakerVars

BreakerTick ==
    /\ open_for' = IF allow THEN open_for ELSE open_for - 1
    /\ rest' = IF rest < break_base_sec THEN rest + 1 ELSE rest
    /\ UNCHANGED <<unhealthy_count, healthy_count, trip_round, probed>>

-----------------------------------------------------------------------------
\* A trip gives the upstream a rest: no request passes the check for
\* break_base_sec after it, whatever answers of earlier requests come in
\* meanwhile (they may reset the round, or trip the breaker again).
RestsAfterTrip == rest < break_base_sec => ~probed
=============================================================================
