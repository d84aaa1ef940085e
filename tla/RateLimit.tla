----------------------------- MODULE RateLimit -----------------------------
(***************************************************************************)
(* The two limiters of the request rate: the fixed window of limit-count   *)
(* (a counter in the process-wide store) and the token bucket of           *)
(* rate-limit (a bucket in the plugin instance), for one client key.  A    *)
(* recompiled policy has a new instance; requests under way keep the old.  *)
(* Each use is atomic (the map's entry is locked); time is in ticks.       *)
(***************************************************************************)
EXTENDS Integers

CONSTANTS
    count, time_window,     \* limit-count: requests per window, ticks per window
    cost,                   \* rate-limit: a token, in units small enough that
    capacity, refill,       \* the burst and the refill of a tick are whole
    Instances,              \* the rate-limit instances that can be there at once
    FirstInstance,          \* the one compiled first
    MaxRecompiles           \* bound: recompilations in time_window ticks

ASSUME RateAssumption ==
    /\ {count, time_window, cost} \subseteq Nat \ {0}
    /\ capacity \in Nat /\ refill \in Nat /\ MaxRecompiles \in Nat
    /\ FirstInstance \in Instances

VARIABLES
    age,       \* ticks since the window started (saturated at time_window)
    used,      \* requests counted in the window
    current,   \* the instance of the policy in force
    tokens,    \* what is left in each instance's bucket as of its last refill
    idle,      \* ticks since that refill (saturated)
    granted,   \* history: granted[n] requests passed limit-count in the last
               \* n ticks, the current one included
    taken,     \* history: the same for rate-limit, with the instance in force
    drawn,     \* history: the same for each instance
    renewed    \* history: the same for recompilations

windowVars == <<age, used, granted>>
bucketVars == <<current, tokens, idle, taken, drawn, renewed>>
rateVars   == <<windowVars, bucketVars>>

Zeroes       == [n \in 1..time_window |-> 0]
OneMore(log) == [n \in 1..time_window |-> log[n] + 1]

RateInit ==
    /\ age = time_window /\ used = 0
    /\ current = FirstInstance
    /\ tokens = [b \in Instances |-> capacity] /\ idle = [b \in Instances |-> 0]
    /\ granted = Zeroes /\ taken = Zeroes /\ renewed = Zeroes
    /\ drawn = [b \in Instances |-> Zeroes]

-----------------------------------------------------------------------------
(* limit-count: incr_fixed_window. *)

\* A window that is over is replaced by one that starts now.
Started == IF age >= time_window THEN 0 ELSE age
Counted == IF age >= time_window THEN 0 ELSE used

WindowAllows ==
    /\ Counted < count
    /\ age' = Started
    /\ used' = Counted + 1
    /\ granted' = OneMore(granted)
    /\ UNCHANGED bucketVars

WindowRejects ==
    /\ Counted >= count
    /\ age' = Started
    /\ used' = Counted
    /\ UNCHANGED <<granted, bucketVars>>

-----------------------------------------------------------------------------
(* rate-limit: try_consume. *)

AtMost(n, limit) == IF n < limit THEN n ELSE limit

Refilled(b) == AtMost(tokens[b] + idle[b] * refill, capacity)

\* Mutant: a refill does not move the instant the next one counts from.
BucketRefillsAgain(b) ==
    /\ Refilled(b) >= cost
    /\ tokens' = [tokens EXCEPT ![b] = Refilled(b) - cost]
    /\ taken' = IF b = current THEN OneMore(taken) ELSE taken
    /\ drawn' = [drawn EXCEPT ![b] = OneMore(drawn[b])]
    /\ UNCHANGED <<current, idle, renewed, windowVars>>

BucketAllows(b) ==
    /\ Refilled(b) >= cost
    /\ tokens' = [tokens EXCEPT ![b] = Refilled(b) - cost]
    /\ idle' = [idle EXCEPT ![b] = 0]
    /\ taken' = IF b = current THEN OneMore(taken) ELSE taken
    /\ drawn' = [drawn EXCEPT ![b] = OneMore(drawn[b])]
    /\ UNCHANGED <<current, renewed, windowVars>>

BucketRejects(b) ==
    /\ Refilled(b) < cost
    /\ tokens' = [tokens EXCEPT ![b] = Refilled(b)]
    /\ idle' = [idle EXCEPT ![b] = 0]
    /\ UNCHANGED <<current, taken, drawn, renewed, windowVars>>

\* A new graph is compiled: its bucket, in place of one that is gone, is full.
\* The window is in the shared store and lives on.
Recompile(b) ==
    /\ renewed[time_window] < MaxRecompiles
    /\ current' = b
    /\ tokens' = [tokens EXCEPT ![b] = capacity]
    /\ idle' = [idle EXCEPT ![b] = 0]
    /\ drawn' = [drawn EXCEPT ![b] = Zeroes]
    /\ renewed' = OneMore(renewed)
    /\ UNCHANGED <<taken, windowVars>>

Shift(log) == [n \in 1..time_window |-> IF n = 1 THEN 0 ELSE log[n - 1]]

\* A bucket is full after capacity ticks at the latest (if it fills at all).
\* An instance that is no longer live is forgotten.
RateTick(live) ==
    /\ age' = AtMost(age + 1, time_window)
    /\ tokens' = [b \in Instances |-> IF b \in live THEN tokens[b] ELSE capacity]
    /\ idle' = [b \in Instances |-> IF b \in live THEN AtMost(idle[b] + 1, capacity) ELSE 0]
    /\ drawn' = [b \in Instances |-> IF b \in live THEN Shift(drawn[b]) ELSE Zeroes]
    /\ granted' = Shift(granted) /\ taken' = Shift(taken) /\ renewed' = Shift(renewed)
    /\ UNCHANGED <<used, current>>

-----------------------------------------------------------------------------
\* However requests are timed, no stretch of time_window ticks sees more than
\* twice the count pass limit-count (a window on each side of a boundary).  No
\* stretch sees more pass one instance of rate-limit than the burst and what was
\* refilled in the meantime pay for; a stretch in which the policy was recompiled
\* sees at most a burst more with every recompilation pass the instance in force.
RatesBounded ==
    /\ granted[time_window] <= 2 * count
    /\ \A n \in 1..time_window :
          /\ \A b \in Instances : cost * drawn[b][n] <= capacity + refill * (n - 1)
          /\ cost * taken[n] <= (1 + renewed[n]) * capacity + refill * (n - 1)
=============================================================================
