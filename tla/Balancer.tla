------------------------------ MODULE Balancer ------------------------------
(***************************************************************************)
(* The load balancer of upstream nodes and stream listeners: it picks one  *)
(* of a pool's targets, and counts what each has in flight by guards that  *)
(* are dropped with their owner.  Round robin takes one atomic step; least *)
(* connections reads the counters one after the other.                     *)
(***************************************************************************)
EXTENDS Integers, Sequences

CONSTANTS
    Pools,          \* one balancer each
    target_count,   \* targets of a pool
    Strategies,     \* the strategies to look at
    IpHash          \* where each client's address hashes to

Targets == 0..(target_count - 1)

VARIABLES
    strategy,
    rr_counter,   \* counter, modulo the number of targets
    in_flight     \* [Pools -> [Targets -> Nat]]

balancerVars == <<strategy, rr_counter, in_flight>>

BalancerInit ==
    /\ strategy \in Strategies
    /\ rr_counter = [p \in Pools |-> 0]
    /\ in_flight = [p \in Pools |-> [t \in Targets |-> 0]]

\* min_by_key: the first of the smallest.
LeastOf(loads) ==
    CHOOSE i \in DOMAIN loads :
        \A j \in DOMAIN loads : loads[i] < loads[j] \/ (loads[i] = loads[j] /\ i <= j)

\* The targets a selection may end at for client c, given the counters it read.
select(p, c, loads) ==
    CASE strategy = "round_robin"       -> rr_counter[p]
      [] strategy = "least_connections" -> LeastOf(loads) - 1
      [] strategy = "ip_hash"           -> IpHash[c]

CountSelect(p) ==
    rr_counter' = IF strategy = "round_robin"
                  THEN [rr_counter EXCEPT ![p] = (@ + 1) % target_count]
                  ELSE rr_counter

owned_acquire(p, t) == in_flight' = [in_flight EXCEPT ![p][t] = @ + 1]

\* A guard is dropped.
Drop(p, t) == in_flight' = [in_flight EXCEPT ![p][t] = @ - 1]
=============================================================================
