------------------------- MODULE TrafficPathProofs -------------------------
(***************************************************************************)
(* limit-conn counts right, for any number of concurrent requests and any  *)
(* ceiling; and so it does inside a policy: whatever else the chain        *)
(* consists of, its acquire and release nodes use the counter as LimitConn *)
(* says.                                                                   *)
(***************************************************************************)
EXTENDS TrafficPath, FiniteSetTheorems, TLAPS

InCount  == In({"over", "held", "releasing"})
Admitted == In({"held", "releasing"})

\* The release node floors the counter at zero.  The floor must never be what
\* ends the loop, or a slot is lost: the counter a release loaded is positive,
\* since the request itself is counted.
ConnInv ==
    /\ counter \in Int /\ leaked \in Nat
    /\ slot \in [Requests -> Slots]
    /\ cur \in [Requests -> Int]
    /\ \A r \in Requests : slot[r] = "releasing" => cur[r] > 0
    /\ CounterIsExact
    /\ NeverOverCeiling

\* The sets the invariant counts are finite, and the admitted are counted.
LEMMA Finite ==
    /\ IsFiniteSet(InCount) /\ Cardinality(InCount) \in Nat
    /\ IsFiniteSet(Admitted) /\ Cardinality(Admitted) \in Nat
    /\ Cardinality(Admitted) <= Cardinality(InCount)
<1>1. InCount \subseteq Requests /\ Admitted \subseteq InCount
    BY DEF InCount, Admitted, In
<1>2. IsFiniteSet(InCount)
    BY <1>1, FS_Subset, ConnAssumption
<1> QED BY <1>1, <1>2, FS_Subset, FS_CardinalityType

\* A request that is counted keeps the counter above zero.
LEMMA CountedIsPositive ==
    ASSUME ConnInv, NEW r \in Requests, slot[r] \in {"over", "held", "releasing"}
    PROVE  counter > 0
<1>1. r \in InCount
    BY DEF InCount, In
<1>2. Cardinality(InCount) # 0
    BY <1>1, Finite, FS_EmptySet
<1> QED BY <1>2, Finite DEF ConnInv, CounterIsExact, InCount

\* What a change of one request's slot does to a set that is counted.
LEMMA SlotMoves ==
    ASSUME ConnInv, NEW r \in Requests, NEW s \in Slots,
           NEW states \in SUBSET Slots,
           slot' = [slot EXCEPT ![r] = s]
    PROVE  /\ slot' \in [Requests -> Slots]
           /\ slot[r] \in states /\ s \in states => In(states)' = In(states)
           /\ slot[r] \notin states /\ s \notin states => In(states)' = In(states)
           /\ slot[r] \notin states /\ s \in states =>
                 Cardinality(In(states)') = Cardinality(In(states)) + 1
           /\ slot[r] \in states /\ s \notin states =>
                 Cardinality(In(states)') = Cardinality(In(states)) - 1
<1>1. IsFiniteSet(In(states))
    BY FS_Subset, ConnAssumption DEF In
<1>2. slot[r] \notin states /\ s \in states => In(states)' = In(states) \cup {r} /\ r \notin In(states)
    BY DEF ConnInv, In
<1>3. slot[r] \in states /\ s \notin states => In(states)' = In(states) \ {r} /\ r \in In(states)
    BY DEF ConnInv, In
<1>4. /\ slot' \in [Requests -> Slots]
      /\ slot[r] \in states /\ s \in states => In(states)' = In(states)
      /\ slot[r] \notin states /\ s \notin states => In(states)' = In(states)
    BY DEF ConnInv, In
<1>5. slot[r] \notin states /\ s \in states =>
          Cardinality(In(states)') = Cardinality(In(states)) + 1
    BY <1>1, <1>2, FS_AddElement
<1>6. slot[r] \in states /\ s \notin states =>
          Cardinality(In(states)') = Cardinality(In(states)) - 1
    BY <1>1, <1>3, FS_RemoveElement
<1> QED BY <1>4, <1>5, <1>6

\* Every step of a request keeps the invariant.
LEMMA ConnStep ==
    ASSUME ConnInv, NEW r \in Requests,
           \/ Acquire(r) \/ Undo(r) \/ Load(r) \/ CompareExchange(r) \/ Disconnect(r)
    PROVE  ConnInv'
<1> USE DEF ConnInv, CounterIsExact, NeverOverCeiling
<1> DEFINE C == {"over", "held", "releasing"}
           A == {"held", "releasing"}
<1>f. /\ Cardinality(In(C)) \in Nat /\ Cardinality(In(A)) \in Nat
      /\ Cardinality(In(A)) <= Cardinality(In(C))
      /\ Ceiling \in Nat
    BY Finite, ConnAssumption DEF InCount, Admitted, Ceiling
<1>s. C \in SUBSET Slots /\ A \in SUBSET Slots /\ Ceiling' = Ceiling
    BY DEF Slots, Ceiling
<1>1. CASE Acquire(r)
    <2> DEFINE s == IF counter >= Ceiling THEN "over" ELSE "held"
    <2>1. s \in Slots /\ s # "releasing" /\ slot' = [slot EXCEPT ![r] = s] /\ slot[r] = "none"
        BY <1>1 DEF Acquire, Slots
    <2>2. slot' \in [Requests -> Slots] /\ Cardinality(In(C)') = Cardinality(In(C)) + 1
        BY <1>s, <2>1, SlotMoves
    <2>3. CASE counter >= Ceiling
        <3>1. In(A)' = In(A)
            BY <1>s, <2>1, <2>3, SlotMoves
        <3> QED BY <1>1, <1>s, <1>f, <2>1, <2>2, <3>1 DEF Acquire
    <2>4. CASE ~(counter >= Ceiling)
        <3>1. Cardinality(In(A)') = Cardinality(In(A)) + 1
            BY <1>s, <2>1, <2>4, SlotMoves
        <3> QED BY <1>1, <1>s, <1>f, <2>1, <2>2, <2>4, <3>1 DEF Acquire
    <2> QED BY <2>3, <2>4
<1>2. CASE Undo(r)
    <2>1. "none" \in Slots /\ slot' = [slot EXCEPT ![r] = "none"] /\ slot[r] = "over"
        BY <1>2 DEF Undo, Slots
    <2>2. /\ slot' \in [Requests -> Slots] /\ Cardinality(In(C)') = Cardinality(In(C)) - 1
          /\ In(A)' = In(A)
        <3>1. slot' \in [Requests -> Slots] /\ Cardinality(In(C)') = Cardinality(In(C)) - 1
            BY <1>s, <2>1, SlotMoves
        <3>2. In(A)' = In(A)
            BY <1>s, <2>1, SlotMoves
        <3> QED BY <3>1, <3>2
    <2> QED BY <1>2, <1>s, <1>f, <2>1, <2>2 DEF Undo
<1>3. CASE Load(r)
    <2>1. "releasing" \in Slots /\ slot' = [slot EXCEPT ![r] = "releasing"] /\ slot[r] = "held"
        BY <1>3 DEF Load, Slots
    <2>2. slot' \in [Requests -> Slots] /\ In(C)' = In(C) /\ In(A)' = In(A)
        BY <1>s, <2>1, SlotMoves
    <2>3. counter > 0
        BY <2>1, CountedIsPositive
    <2> QED BY <1>3, <1>s, <1>f, <2>1, <2>2, <2>3 DEF Load
<1>4. CASE CompareExchange(r)
    <2>0. slot[r] = "releasing" /\ cur[r] > 0 /\ counter > 0
        BY <1>4, CountedIsPositive DEF CompareExchange
    <2>1. CASE slot' = [slot EXCEPT ![r] = "none"] /\ counter = cur[r] /\ counter' = cur[r] - 1
               /\ cur' = [cur EXCEPT ![r] = 0]
        <3>1. "none" \in Slots
            BY DEF Slots
        <3>2. /\ slot' \in [Requests -> Slots]
              /\ Cardinality(In(C)') = Cardinality(In(C)) - 1
              /\ Cardinality(In(A)') = Cardinality(In(A)) - 1
            BY <1>s, <2>0, <2>1, <3>1, SlotMoves
        <3> QED BY <1>4, <1>s, <1>f, <2>0, <2>1, <3>2 DEF CompareExchange
    <2>2. CASE cur' = [cur EXCEPT ![r] = counter] /\ UNCHANGED <<counter, slot>>
        <3>1. In(C)' = In(C) /\ In(A)' = In(A)
            BY <2>2 DEF In
        <3> QED BY <1>4, <1>s, <1>f, <2>0, <2>2, <3>1 DEF CompareExchange
    <2> QED BY <1>4, <2>0, <2>1, <2>2 DEF CompareExchange
<1>5. CASE Disconnect(r)
    <2>1. "none" \in Slots /\ slot' = [slot EXCEPT ![r] = "none"] /\ slot[r] = "held"
        BY <1>5 DEF Disconnect, Slots
    <2>2. /\ slot' \in [Requests -> Slots]
          /\ Cardinality(In(C)') = Cardinality(In(C)) - 1
          /\ Cardinality(In(A)') = Cardinality(In(A)) - 1
        <3>1. slot' \in [Requests -> Slots] /\ Cardinality(In(C)') = Cardinality(In(C)) - 1
            BY <1>s, <2>1, SlotMoves
        <3>2. Cardinality(In(A)') = Cardinality(In(A)) - 1
            BY <1>s, <2>1, SlotMoves
        <3> QED BY <3>1, <3>2
    <2> QED BY <1>5, <1>s, <1>f, <2>1, <2>2 DEF Disconnect
<1> QED BY <1>1, <1>2, <1>3, <1>4, <1>5

\* The inductive invariant of the counter.
THEOREM ConnInvAlways == ConnSpec => []ConnInv
<1>1. ConnInit => ConnInv
    <2> SUFFICES ASSUME ConnInit PROVE ConnInv
        OBVIOUS
    <2>1. In({"over", "held", "releasing"}) = {} /\ In({"held", "releasing"}) = {}
        BY DEF ConnInit, In
    <2>2. Cardinality({}) = 0 /\ Ceiling \in Nat
        BY FS_EmptySet, ConnAssumption DEF Ceiling
    <2> QED BY <2>1, <2>2 DEF ConnInit, ConnInv, CounterIsExact, NeverOverCeiling, Slots
<1>2. ConnInv /\ [ConnNext]_connVars => ConnInv'
    <2> SUFFICES ASSUME ConnInv, [ConnNext]_connVars PROVE ConnInv'
        OBVIOUS
    <2>1. CASE ConnNext
        BY <2>1, ConnStep DEF ConnNext
    <2>2. CASE UNCHANGED connVars
        BY <2>2 DEF connVars, ConnInv, CounterIsExact, NeverOverCeiling, In, Ceiling
    <2> QED BY <2>1, <2>2
<1> QED BY <1>1, <1>2, PTL DEF ConnSpec

\* However increments, undos and release loops interleave, the counter equals
\* the requests that are counted and the slots that disconnects have cost.
THEOREM CounterAlways == ConnSpec => []CounterIsExact
<1>1. ConnInv => CounterIsExact
    BY DEF ConnInv
<1> QED BY <1>1, ConnInvAlways, PTL

\* The acquire node never lets more than conn + burst requests be between it
\* and the release node.
THEOREM CeilingAlways == ConnSpec => []NeverOverCeiling
<1>1. ConnInv => NeverOverCeiling
    BY DEF ConnInv
<1> QED BY <1>1, ConnInvAlways, PTL

-----------------------------------------------------------------------------
(* The policy. *)

\* A policy with any chain of guards is an implementation of the bare
\* connection limit: each step of a request, of the clock and of a reload is a
\* step of LimitConn or leaves the counter alone.
THEOREM PathImplementsConn == Spec => ConnSpec
<1>1. Init => ConnInit
    BY DEF Init
<1>2. [Next]_vars => [ConnNext]_connVars
    <2> SUFFICES ASSUME [Next]_vars PROVE [ConnNext]_connVars
        OBVIOUS
    <2>1. ASSUME NEW r \in Requests, limit_conn_acquire(r) \/ limit_conn_release(r)
          PROVE  ConnNext
        BY <2>1 DEF limit_conn_acquire, limit_conn_release, ConnNext
    <2>2. ASSUME NEW r \in Requests,
                 \/ Arrive(r) \/ rate_limit(r) \/ limit_count(r)
                 \/ api_breaker_check(r) \/ api_breaker_observe(r)
                 \/ proxy_cache_lookup(r) \/ proxy_cache_store(r)
                 \/ UpstreamAnswers(r) \/ UpstreamFails(r)
          PROVE  UNCHANGED connVars
        BY <2>2 DEF Arrive, rate_limit, limit_count, api_breaker_check, api_breaker_observe,
                    proxy_cache_lookup, proxy_cache_store, UpstreamAnswers, UpstreamFails, connVars
    <2>3. ASSUME NEW r \in Requests, Dropped(r)
          PROVE  ConnNext \/ UNCHANGED connVars
        BY <2>3 DEF Dropped, ConnNext
    <2>4. CASE Tick \/ Reload \/ Recover
        BY <2>4 DEF Tick, Reload, Recover, connVars
    <2>5. CASE UNCHANGED vars
        BY <2>5 DEF vars, connVars
    <2> QED BY <2>1, <2>2, <2>3, <2>4, <2>5 DEF Next, Step
<1> QED BY <1>1, <1>2, PTL DEF Spec, ConnSpec

\* In any policy, no more than conn + burst requests are at the upstream.
THEOREM PathCeilingAlways == Spec => []NeverOverCeiling
BY PathImplementsConn, CeilingAlways, PTL

\* In any policy, the counter is exact: an error edge, a rejected check or a
\* reload between acquire and release costs no slot.
THEOREM PathCounterAlways == Spec => []CounterIsExact
BY PathImplementsConn, CounterAlways, PTL

-----------------------------------------------------------------------------
(* The breaker. *)

BreakerNext ==
    CheckPasses \/ CheckRejects \/ (\E s \in {"healthy", "unhealthy", "other"} : Observe(s))
    \/ BreakerTick

\* The steps of a policy that touch the breaker are those of its two nodes and
\* of the clock.
LEMMA PathUsesBreaker == [Next]_vars => [BreakerNext]_breakerVars
<1> SUFFICES ASSUME [Next]_vars PROVE BreakerNext \/ UNCHANGED breakerVars
    OBVIOUS
<1>1. ASSUME NEW r \in Requests, api_breaker_check(r)
      PROVE  BreakerNext
    BY <1>1 DEF api_breaker_check, BreakerNext
<1>2. ASSUME NEW r \in Requests, api_breaker_observe(r)
      PROVE  BreakerNext
    <2>1. Observe(status[r])
        BY <1>2 DEF api_breaker_observe
    <2>2. status[r] \in {"healthy", "unhealthy", "other"}
        BY <2>1 DEF Observe
    <2> QED BY <2>1, <2>2 DEF BreakerNext
<1>3. ASSUME NEW r \in Requests,
             \/ Arrive(r) \/ rate_limit(r) \/ limit_count(r)
             \/ limit_conn_acquire(r) \/ limit_conn_release(r)
             \/ proxy_cache_lookup(r) \/ proxy_cache_store(r)
             \/ UpstreamAnswers(r) \/ UpstreamFails(r) \/ Dropped(r)
      PROVE  UNCHANGED breakerVars
    BY <1>3 DEF Arrive, rate_limit, limit_count, limit_conn_acquire, limit_conn_release,
                proxy_cache_lookup, proxy_cache_store, UpstreamAnswers, UpstreamFails, Dropped
<1>4. CASE Tick
    BY <1>4 DEF Tick, BreakerNext
<1>5. CASE Reload \/ Recover
    BY <1>5 DEF Reload, Recover
<1>6. CASE UNCHANGED vars
    BY <1>6 DEF vars
<1> QED BY <1>1, <1>2, <1>3, <1>4, <1>5, <1>6 DEF Next, Step

\* A power of two that the backoff may meet is at least one.
LEMMA PowerPositive == \A n \in 0..16 : 2^n \in Nat /\ 2^n >= 1
<1> DEFINE P(n) == 2^n \in Nat /\ 2^n >= 1
<1>1. /\ P(0) /\ P(1) /\ P(2) /\ P(3) /\ P(4) /\ P(5) /\ P(6) /\ P(7) /\ P(8)
      /\ P(9) /\ P(10) /\ P(11) /\ P(12) /\ P(13) /\ P(14) /\ P(15) /\ P(16)
    OBVIOUS
<1>2. 0..16 = {0, 1, 2, 3, 4, 5, 6, 7, 8, 9, 10, 11, 12, 13, 14, 15, 16}
    OBVIOUS
<1>3. \A n \in 0..16 : P(n)
    <2> HIDE DEF P
    <2> QED BY <1>1, <1>2, Zenon
<1> QED BY <1>3

\* The product of a positive number and one that is at least one.
LEMMA ProductAtLeast ==
    ASSUME NEW a \in Nat, NEW b \in Nat, b >= 1
    PROVE  a * b \in Nat /\ a * b >= a
OBVIOUS

\* The backoff of any round is at least that of the first.
LEMMA BackoffAtLeastBase ==
    ASSUME NEW round \in 0..MaxRound
    PROVE  Backoff(round) \in Nat /\ Backoff(round) >= break_base_sec
<1>1. round \in 0..16 /\ break_base_sec \in Nat /\ max_breaker_sec \in Nat
    BY BreakerAssumption
<1>2. break_base_sec * 2^round \in Nat /\ break_base_sec * 2^round >= break_base_sec
    BY <1>1, PowerPositive, ProductAtLeast
<1> QED BY <1>1, <1>2 DEF Backoff

\* RestsAfterTrip compares two history variables; what makes it inductive is the
\* breaker's own timer: as long as the rest is not over, the window that the
\* last trip opened has at least the remainder to go.
BreakerInv ==
    /\ trip_round \in 0..MaxRound
    /\ rest \in Nat
    /\ open_for \in Nat \cup {Closed}
    /\ rest < break_base_sec =>
          /\ ~probed
          /\ open_for \in Nat /\ open_for + rest >= break_base_sec

LEMMA BreakerStep == BreakerInv /\ [BreakerNext]_breakerVars => BreakerInv'
<1> SUFFICES ASSUME BreakerInv, BreakerNext \/ UNCHANGED breakerVars PROVE BreakerInv'
    OBVIOUS
<1> USE DEF BreakerInv
<1>a. /\ break_base_sec \in Nat \ {0} /\ MaxRound \in Nat /\ Closed \notin Nat
    BY BreakerAssumption
<1>1. CASE CheckPasses
    BY <1>1, <1>a DEF CheckPasses, allow
<1>2. CASE CheckRejects \/ UNCHANGED breakerVars
    BY <1>2 DEF CheckRejects, breakerVars, breakerState
<1>3. CASE record_healthy
    BY <1>3, <1>a DEF record_healthy
<1>4. CASE record_unhealthy
    <2>1. Backoff(trip_round) \in Nat /\ Backoff(trip_round) >= break_base_sec
        BY BackoffAtLeastBase
    <2> QED BY <1>4, <1>a, <2>1 DEF record_unhealthy
<1>5. CASE BreakerTick
    BY <1>5, <1>a DEF BreakerTick, allow
<1> QED BY <1>1, <1>2, <1>3, <1>4, <1>5 DEF BreakerNext, Observe

\* In any policy, with any thresholds and backoffs: no request passes the check
\* within break_base_sec of a trip, whatever late answers are observed meanwhile.
THEOREM RestAlways == Spec => []RestsAfterTrip
<1>1. Init => BreakerInv
    BY BreakerAssumption DEF Init, BreakerInit, BreakerInv
<1>2. BreakerInv => RestsAfterTrip
    BY DEF BreakerInv, RestsAfterTrip
<1> QED BY <1>1, <1>2, PathUsesBreaker, BreakerStep, PTL DEF Spec

-----------------------------------------------------------------------------
(* The cache. *)

CacheNext ==
    \/ \E r \in Requests : Hit(r) \/ Miss(r) \/ FindExpired(r) \/ RemoveExpired(r)
    \/ \E s : put(s)
    \/ CacheTick

\* The steps of a policy that touch the cache are those of its two nodes and of
\* the clock.
LEMMA PathUsesCache == [Next]_vars => [CacheNext]_cacheVars
<1> SUFFICES ASSUME [Next]_vars PROVE CacheNext \/ UNCHANGED cacheVars
    OBVIOUS
<1>1. ASSUME NEW r \in Requests, proxy_cache_lookup(r)
      PROVE  CacheNext \/ UNCHANGED cacheVars
    BY <1>1 DEF proxy_cache_lookup, CacheNext
<1>2. ASSUME NEW r \in Requests, proxy_cache_store(r)
      PROVE  CacheNext \/ UNCHANGED cacheVars
    BY <1>2 DEF proxy_cache_store, CacheNext
<1>3. ASSUME NEW r \in Requests,
             \/ Arrive(r) \/ rate_limit(r) \/ limit_count(r)
             \/ limit_conn_acquire(r) \/ limit_conn_release(r)
             \/ api_breaker_check(r) \/ api_breaker_observe(r)
             \/ UpstreamAnswers(r) \/ UpstreamFails(r) \/ Dropped(r)
      PROVE  UNCHANGED cacheVars
    BY <1>3 DEF Arrive, rate_limit, limit_count, limit_conn_acquire, limit_conn_release,
                api_breaker_check, api_breaker_observe, UpstreamAnswers, UpstreamFails, Dropped
<1>4. CASE Tick
    BY <1>4 DEF Tick, CacheNext
<1>5. CASE Reload \/ Recover
    BY <1>5 DEF Reload, Recover
<1>6. CASE UNCHANGED vars
    BY <1>6 DEF vars
<1> QED BY <1>1, <1>2, <1>3, <1>4, <1>5, <1>6 DEF Next, Step

\* What makes FreshEntryKept inductive: while the newest entry is fresh, no
\* lookup can find the key expired, so that whoever is about to remove it was
\* so already when the entry was stored.
CacheInv ==
    /\ FreshEntryKept
    /\ Fresh(newest) => expired \subseteq rivals

LEMMA CacheStep == CacheInv /\ [CacheNext]_cacheVars => CacheInv'
<1> SUFFICES ASSUME CacheInv, CacheNext \/ UNCHANGED cacheVars PROVE CacheInv'
    OBVIOUS
<1> USE DEF CacheInv, FreshEntryKept
<1>1. ASSUME NEW r \in Requests, FindExpired(r)
      PROVE  CacheInv'
    BY <1>1 DEF FindExpired, Fresh
<1>2. ASSUME NEW r \in Requests, RemoveExpired(r)
      PROVE  CacheInv'
    BY <1>2 DEF RemoveExpired, Fresh
<1>3. ASSUME NEW s, put(s)
      PROVE  CacheInv'
    BY <1>3 DEF put, Fresh
<1>4. CASE CacheTick
    <2>1. Fresh(newest') => Fresh(newest)
        BY <1>4 DEF CacheTick, Older
    <2>2. entry = newest => entry' = newest'
        BY <1>4 DEF CacheTick
    <2>3. entry = NoEntry => entry' = NoEntry
        BY <1>4 DEF CacheTick, Older, Fresh
    <2>4. UNCHANGED <<expired, rivals>> /\ Fresh(newest)' = Fresh(newest')
        BY <1>4 DEF CacheTick, Fresh
    <2> QED BY <2>1, <2>2, <2>3, <2>4
<1>5. CASE (\E r \in Requests : Hit(r) \/ Miss(r)) \/ UNCHANGED cacheVars
    BY <1>5 DEF Hit, Miss, cacheVars, Fresh
<1> QED BY <1>1, <1>2, <1>3, <1>4, <1>5 DEF CacheNext

\* In any policy, for any number of requests and any ttl: an entry is there for
\* as long as it is fresh, unless a lookup that had found its predecessor expired
\* has removed it.
THEOREM FreshEntryAlways == Spec => []FreshEntryKept
<1>1. Init => CacheInv
    BY DEF Init, CacheInit, CacheInv, FreshEntryKept, Fresh
<1>2. CacheInv => FreshEntryKept
    BY DEF CacheInv
<1> QED BY <1>1, <1>2, PathUsesCache, CacheStep, PTL DEF Spec

-----------------------------------------------------------------------------
(* The rate limits. *)

RateNext ==
    \/ WindowAllows \/ WindowRejects \/ RateTick(Live)
    \/ \E b \in Instances : BucketAllows(b) \/ BucketRejects(b) \/ Recompile(b)

\* A request goes through a graph with a rate-limit instance that is there.
GraphInv == current \in Instances /\ graph \in [Requests -> Instances]

LEMMA GraphStep == GraphInv /\ [Next]_vars => GraphInv'
<1> SUFFICES ASSUME GraphInv, [Next]_vars PROVE GraphInv'
    OBVIOUS
<1> USE DEF GraphInv
<1>0. FirstInstance \in Instances
    BY RateAssumption
<1>1. ASSUME NEW r \in Requests, NEW i, Goto(r, i)
      PROVE  graph' \in [Requests -> Instances]
    BY <1>0, <1>1 DEF Goto
<1>2. ASSUME NEW r \in Requests, Step(r) \/ UpstreamFails(r) \/ Dropped(r)
      PROVE  graph' \in [Requests -> Instances]
    <2>1. CASE rate_limit(r)
        BY <1>1, <2>1 DEF rate_limit, Pass, Fail
    <2>2. CASE limit_count(r)
        BY <1>1, <2>2 DEF limit_count, Pass, Fail
    <2>3. CASE limit_conn_acquire(r) \/ limit_conn_release(r)
        BY <1>1, <2>3 DEF limit_conn_acquire, limit_conn_release, Pass, Fail, pathVars
    <2>4. CASE api_breaker_check(r) \/ api_breaker_observe(r)
        BY <1>1, <2>4 DEF api_breaker_check, api_breaker_observe, Pass, Fail
    <2>5. CASE proxy_cache_lookup(r) \/ proxy_cache_store(r)
        BY <1>1, <2>5 DEF proxy_cache_lookup, proxy_cache_store, Pass, Fail, pathVars
    <2>6. CASE UpstreamAnswers(r)
        BY <2>6 DEF UpstreamAnswers
    <2>7. CASE UpstreamFails(r) \/ Dropped(r)
        BY <1>1, <2>7 DEF UpstreamFails, Dropped, Fail
    <2> QED BY <1>2, <2>1, <2>2, <2>3, <2>4, <2>5, <2>6, <2>7 DEF Step
<1>3. ASSUME NEW r \in Requests, Step(r) \/ UpstreamFails(r) \/ Dropped(r)
      PROVE  current' = current
    BY <1>3 DEF Step, rate_limit, limit_count, limit_conn_acquire, limit_conn_release,
                api_breaker_check, api_breaker_observe, proxy_cache_lookup, proxy_cache_store,
                UpstreamAnswers, UpstreamFails, Dropped, WindowAllows, WindowRejects,
                BucketAllows, BucketRejects, rateVars, bucketVars
<1>4. ASSUME NEW r \in Requests, Arrive(r) PROVE GraphInv'
    BY <1>4 DEF Arrive, rateVars, bucketVars
<1>5. CASE Tick
    BY <1>5 DEF Tick, RateTick, rateVars, bucketVars, pathVars
<1>6. CASE Reload
    BY <1>6 DEF Reload, Recompile, pathVars
<1>7. CASE Recover \/ UNCHANGED vars
    BY <1>7 DEF Recover, vars, rateVars, bucketVars, pathVars
<1> QED BY <1>2, <1>3, <1>4, <1>5, <1>6, <1>7 DEF Next

\* The steps of a policy that touch the limiters are those of their nodes, of
\* the clock and of a reload.
LEMMA PathUsesRates == GraphInv /\ [Next]_vars => [RateNext]_rateVars
<1> SUFFICES ASSUME GraphInv, [Next]_vars PROVE RateNext \/ UNCHANGED rateVars
    OBVIOUS
<1>1. ASSUME NEW r \in Requests, rate_limit(r) \/ limit_count(r)
      PROVE  RateNext
    <2>1. graph[r] \in Instances
        BY DEF GraphInv
    <2> QED BY <1>1, <2>1 DEF rate_limit, limit_count, RateNext
<1>2. ASSUME NEW r \in Requests,
             \/ Arrive(r) \/ limit_conn_acquire(r) \/ limit_conn_release(r)
             \/ api_breaker_check(r) \/ api_breaker_observe(r)
             \/ proxy_cache_lookup(r) \/ proxy_cache_store(r)
             \/ UpstreamAnswers(r) \/ UpstreamFails(r) \/ Dropped(r)
      PROVE  UNCHANGED rateVars
    BY <1>2 DEF Arrive, limit_conn_acquire, limit_conn_release, api_breaker_check,
                api_breaker_observe, proxy_cache_lookup, proxy_cache_store,
                UpstreamAnswers, UpstreamFails, Dropped
<1>3. CASE Tick
    BY <1>3 DEF Tick, RateNext
<1>4. CASE Reload
    BY <1>4 DEF Reload, RateNext
<1>5. CASE Recover \/ UNCHANGED vars
    BY <1>5 DEF Recover, vars
<1> QED BY <1>1, <1>2, <1>3, <1>4, <1>5 DEF Next, Step

\* The fixed window.  What passed since it started is what it counted; what
\* passed in the rest of the last time_window ticks belongs to one earlier
\* window, since that one was time_window old when it was replaced.
WindowInv ==
    /\ age \in 0..time_window /\ used \in 0..count
    /\ granted \in [1..time_window -> Nat]
    /\ \A m, n \in 1..time_window : m <= n => granted[m] <= granted[n]
    /\ age < time_window =>
          /\ granted[age + 1] <= used
          /\ granted[time_window] <= granted[age + 1] + count
    /\ age = time_window => granted[1] = 0 /\ granted[time_window] <= count

LEMMA WindowStep == WindowInv /\ [RateNext]_rateVars => WindowInv'
<1> SUFFICES ASSUME WindowInv, RateNext \/ UNCHANGED rateVars PROVE WindowInv'
    OBVIOUS
<1> USE DEF WindowInv
<1>a. count \in Nat \ {0} /\ time_window \in Nat \ {0}
    BY RateAssumption
<1>1. CASE WindowAllows
    <2>1. /\ granted' \in [1..time_window -> Nat]
          /\ \A n \in 1..time_window : granted'[n] = granted[n] + 1
        BY <1>1 DEF WindowAllows, OneMore
    <2>2. CASE age = time_window
        <3>1. age' = 0 /\ used' = 1
            BY <1>1, <1>a, <2>2 DEF WindowAllows, Started, Counted
        <3> QED BY <1>a, <2>1, <2>2, <3>1
    <2>3. CASE age < time_window
        <3>1. age' = age /\ used' = used + 1 /\ used < count
            BY <1>1, <1>a, <2>3 DEF WindowAllows, Started, Counted
        <3>2. age + 1 \in 1..time_window /\ time_window \in 1..time_window
            BY <1>a, <2>3
        <3>3. /\ granted'[age + 1] = granted[age + 1] + 1
              /\ granted'[time_window] = granted[time_window] + 1
            BY <2>1, <3>2
        <3>4. \A m, n \in 1..time_window : m <= n => granted'[m] <= granted'[n]
            BY <2>1
        <3>5. age' \in 0..time_window /\ age' < time_window /\ used' \in 0..count
            BY <1>a, <2>3, <3>1
        <3>6. granted'[age' + 1] <= used' /\ granted'[time_window] <= granted'[age' + 1] + count
            BY <1>a, <2>3, <3>1, <3>2, <3>3
        <3>7. age' # time_window
            BY <1>a, <3>5
        <3> QED BY <2>1, <3>4, <3>5, <3>6, <3>7, Zenon
    <2>4. age = time_window \/ age < time_window
        BY <1>a
    <2> QED BY <2>2, <2>3, <2>4
<1>2. CASE WindowRejects
    <2>1. age < time_window
        BY <1>2, <1>a DEF WindowRejects, Counted
    <2> QED BY <1>2, <1>a, <2>1 DEF WindowRejects, Started, Counted
<1>3. CASE RateTick(Live)
    <2>1. /\ granted' \in [1..time_window -> Nat] /\ granted'[1] = 0
          /\ \A n \in 2..time_window : granted'[n] = granted[n - 1]
          /\ UNCHANGED used
        BY <1>3, <1>a DEF RateTick, Shift
    <2>2. \A m, n \in 1..time_window : m <= n => granted'[m] <= granted'[n]
        <3> SUFFICES ASSUME NEW m \in 1..time_window, NEW n \in 1..time_window, m <= n
                     PROVE  granted'[m] <= granted'[n]
            OBVIOUS
        <3>1. CASE m = 1
            BY <1>a, <2>1, <3>1
        <3>2. CASE m > 1
            <4>1. /\ m \in 2..time_window /\ n \in 2..time_window
                  /\ m - 1 \in 1..time_window /\ n - 1 \in 1..time_window /\ m - 1 <= n - 1
                BY <1>a, <3>2
            <4> QED BY <2>1, <4>1
        <3> QED BY <3>1, <3>2
    <2>3. granted'[time_window] <= granted[time_window]
        <3>1. CASE time_window = 1
            BY <1>a, <2>1, <3>1
        <3>2. CASE time_window > 1
            <4>1. time_window \in 2..time_window /\ time_window - 1 \in 1..time_window
                BY <1>a, <3>2
            <4> QED BY <1>a, <2>1, <4>1
        <3> QED BY <1>a, <3>1, <3>2
    <2>4. CASE age >= time_window - 1
        <3>1. age' = time_window
            BY <1>3, <1>a, <2>4 DEF RateTick, AtMost
        <3>2. granted[time_window] <= count
            BY <1>a, <2>4
        <3> QED BY <1>a, <2>1, <2>2, <2>3, <3>1, <3>2
    <2>5. CASE age < time_window - 1
        <3>1. age' = age + 1 /\ age + 2 \in 2..time_window
            BY <1>3, <1>a, <2>5 DEF RateTick, AtMost
        <3>2. granted'[age' + 1] = granted[age + 1]
            BY <2>1, <3>1
        <3> QED BY <1>a, <2>1, <2>2, <2>3, <2>5, <3>1, <3>2
    <2> QED BY <1>a, <2>4, <2>5
<1>4. ASSUME NEW b \in Instances, BucketAllows(b) \/ BucketRejects(b) \/ Recompile(b)
      PROVE  UNCHANGED windowVars
    BY <1>4 DEF BucketAllows, BucketRejects, Recompile
<1>5. CASE UNCHANGED windowVars
    BY <1>5 DEF windowVars
<1> QED BY <1>1, <1>2, <1>3, <1>4, <1>5 DEF RateNext, rateVars

\* The token bucket.  In every stretch of ticks, what was taken out and what is
\* left now came from a burst, a burst more with every new bucket, and the
\* refills of that stretch.
Covered(log, more, left) ==
    \A n \in 1..time_window : cost * log[n] + left <= (1 + more[n]) * capacity + refill * (n - 1)

BucketInv ==
    /\ current \in Instances
    /\ tokens \in [Instances -> 0..capacity] /\ idle \in [Instances -> Nat]
    /\ taken \in [1..time_window -> Nat] /\ renewed \in [1..time_window -> Nat]
    /\ drawn \in [Instances -> [1..time_window -> Nat]]
    /\ Covered(taken, renewed, Refilled(current))
    /\ \A b \in Instances : Covered(drawn[b], Zeroes, Refilled(b))

\* Products with one factor changed by one.
LEMMA OneTimesMore ==
    ASSUME NEW a \in Int, NEW b \in Int
    PROVE  a * b \in Int /\ a * (b + 1) = a * b + a /\ (b + 1) * a = b * a + a /\ a * 0 = 0 /\ 0 * a = 0
OBVIOUS

\* Products of natural numbers are natural, and grow with a factor.
LEMMA ProductMonotone ==
    ASSUME NEW a \in Nat, NEW b \in Nat, NEW c \in Nat, b <= c
    PROVE  a * b \in Nat /\ b * a \in Nat /\ b * a <= c * a
OBVIOUS

\* What a bucket with t tokens holds i ticks later: never more than its capacity,
\* t at first, and at most a refill more with every tick.
Content(t, i) == AtMost(t + i * refill, capacity)

LEMMA ContentType ==
    ASSUME NEW t \in 0..capacity, NEW i \in Nat
    PROVE  Content(t, i) \in 0..capacity
<1>1. i * refill \in Nat /\ capacity \in Nat
    BY RateAssumption, ProductMonotone
<1> QED BY <1>1 DEF Content, AtMost

LEMMA ContentFirst ==
    ASSUME NEW t \in 0..capacity
    PROVE  Content(t, 0) = t
<1>1. 0 * refill = 0 /\ capacity \in Nat
    BY RateAssumption, OneTimesMore
<1>2. Content(t, 0) = AtMost(t + 0, capacity)
    BY <1>1, Zenon DEF Content
<1> QED BY <1>1, <1>2 DEF AtMost

LEMMA ContentLater ==
    ASSUME NEW t \in 0..capacity, NEW i \in Nat, NEW j \in Nat, j <= i + 1
    PROVE  Content(t, j) <= Content(t, i) + refill
<1>1. refill \in Nat /\ capacity \in Nat /\ i + 1 \in Nat
    BY RateAssumption
<1>2. j * refill \in Nat /\ j * refill <= (i + 1) * refill
    BY <1>1, ProductMonotone
<1>3. (i + 1) * refill = i * refill + refill /\ i * refill \in Nat
    BY <1>1, OneTimesMore, ProductMonotone
<1> QED BY <1>1, <1>2, <1>3 DEF Content, AtMost

\* The right-hand side of Covered, and its left-hand side, are integers.
LEMMA CoveredTerms ==
    ASSUME NEW log \in [1..time_window -> Nat], NEW more \in [1..time_window -> Nat],
           NEW n \in 1..time_window
    PROVE  /\ cost \in Nat /\ capacity \in Nat /\ refill \in Nat
           /\ cost * log[n] \in Nat /\ (1 + more[n]) * capacity \in Nat
           /\ refill * (n - 1) \in Nat /\ capacity <= (1 + more[n]) * capacity
<1>1. cost \in Nat /\ capacity \in Nat /\ refill \in Nat /\ time_window \in Nat
    BY RateAssumption
<1>2. log[n] \in Nat /\ 1 + more[n] \in Nat /\ n - 1 \in Nat /\ 1 <= 1 + more[n]
    BY <1>1
<1>3. cost * log[n] \in Nat /\ refill * (n - 1) \in Nat
    BY <1>1, <1>2, ProductMonotone
<1>4. (1 + more[n]) * capacity \in Nat /\ capacity <= (1 + more[n]) * capacity
    <2>1. PICK k \in Nat : k = more[n]
        BY <1>1
    <2>2. k * capacity \in Nat /\ (k + 1) * capacity = k * capacity + capacity
        BY <1>1, ProductMonotone, OneTimesMore
    <2>3. 1 + more[n] = k + 1
        BY <2>1
    <2> QED BY <1>1, <2>2, <2>3
<1> QED BY <1>1, <1>3, <1>4

\* A full bucket nobody has used.
LEMMA CoveredAtFirst == Covered(Zeroes, Zeroes, capacity)
<1> SUFFICES ASSUME NEW n \in 1..time_window
             PROVE  cost * Zeroes[n] + capacity <= (1 + Zeroes[n]) * capacity + refill * (n - 1)
    BY DEF Covered
<1>1. Zeroes \in [1..time_window -> Nat] /\ Zeroes[n] = 0
    BY DEF Zeroes
<1>2. cost * Zeroes[n] = 0
    BY <1>1, RateAssumption, OneTimesMore
<1> QED BY <1>1, <1>2, CoveredTerms

\* A request takes a token.
LEMMA CoveredTake ==
    ASSUME NEW log \in [1..time_window -> Nat], NEW more \in [1..time_window -> Nat],
           NEW left \in 0..capacity, left >= cost, Covered(log, more, left)
    PROVE  OneMore(log) \in [1..time_window -> Nat] /\ Covered(OneMore(log), more, left - cost)
<1>1. /\ OneMore(log) \in [1..time_window -> Nat]
      /\ \A n \in 1..time_window : OneMore(log)[n] = log[n] + 1
    BY DEF OneMore
<1>2. ASSUME NEW n \in 1..time_window
      PROVE  cost * OneMore(log)[n] + (left - cost) <= (1 + more[n]) * capacity + refill * (n - 1)
    <2>1. cost * log[n] + left <= (1 + more[n]) * capacity + refill * (n - 1)
        BY DEF Covered
    <2>2. cost * OneMore(log)[n] = cost * log[n] + cost
        BY <1>1, RateAssumption, OneTimesMore
    <2> QED BY <2>1, <2>2, CoveredTerms
<1> QED BY <1>1, <1>2 DEF Covered

\* A new bucket takes the place of the old one.
LEMMA CoveredRenew ==
    ASSUME NEW log \in [1..time_window -> Nat], NEW more \in [1..time_window -> Nat],
           NEW left \in 0..capacity, Covered(log, more, left)
    PROVE  OneMore(more) \in [1..time_window -> Nat] /\ Covered(log, OneMore(more), capacity)
<1>1. /\ OneMore(more) \in [1..time_window -> Nat]
      /\ \A n \in 1..time_window : OneMore(more)[n] = more[n] + 1
    BY DEF OneMore
<1>2. ASSUME NEW n \in 1..time_window
      PROVE  cost * log[n] + capacity <= (1 + OneMore(more)[n]) * capacity + refill * (n - 1)
    <2>1. cost * log[n] + left <= (1 + more[n]) * capacity + refill * (n - 1)
        BY DEF Covered
    <2>2. (1 + OneMore(more)[n]) * capacity = (1 + more[n]) * capacity + capacity
        <3>1. 1 + OneMore(more)[n] = (1 + more[n]) + 1 /\ 1 + more[n] \in Int /\ capacity \in Int
            BY <1>1, RateAssumption
        <3> QED BY <3>1, OneTimesMore
    <2>3. /\ cost * log[n] \in Nat /\ (1 + more[n]) * capacity \in Nat
          /\ refill * (n - 1) \in Nat /\ capacity \in Nat
        BY CoveredTerms
    <2> QED BY <2>1, <2>2, <2>3
<1> QED BY <1>1, <1>2 DEF Covered

\* A tick: every stretch begins a tick later.
LEMMA CoveredTick ==
    ASSUME NEW log \in [1..time_window -> Nat], NEW more \in [1..time_window -> Nat],
           NEW left \in 0..capacity, NEW later \in 0..capacity, later <= left + refill,
           Covered(log, more, left)
    PROVE  /\ Shift(log) \in [1..time_window -> Nat] /\ Shift(more) \in [1..time_window -> Nat]
           /\ Covered(Shift(log), Shift(more), later)
<1>0. time_window \in Nat \ {0}
    BY RateAssumption
<1>1. /\ Shift(log) \in [1..time_window -> Nat] /\ Shift(more) \in [1..time_window -> Nat]
      /\ Shift(log)[1] = 0
      /\ \A n \in 2..time_window : Shift(log)[n] = log[n - 1] /\ Shift(more)[n] = more[n - 1]
    BY <1>0 DEF Shift
<1>2. ASSUME NEW n \in 1..time_window
      PROVE  cost * Shift(log)[n] + later <= (1 + Shift(more)[n]) * capacity + refill * (n - 1)
    <2>1. CASE n = 1
        <3>1. cost * Shift(log)[n] = 0
            BY <1>1, <2>1, RateAssumption, OneTimesMore
        <3>2. /\ (1 + Shift(more)[n]) * capacity \in Nat /\ refill * (n - 1) \in Nat
              /\ capacity <= (1 + Shift(more)[n]) * capacity /\ capacity \in Nat
            BY <1>1, CoveredTerms
        <3> QED BY <3>1, <3>2
    <2>2. CASE n > 1
        <3>1. n \in 2..time_window /\ n - 1 \in 1..time_window /\ (n - 1) - 1 \in Nat
            BY <1>0, <2>2
        <3>2. cost * log[n - 1] + left <= (1 + more[n - 1]) * capacity + refill * ((n - 1) - 1)
            BY <3>1 DEF Covered
        <3>3. refill * (((n - 1) - 1) + 1) = refill * ((n - 1) - 1) + refill
            BY <3>1, RateAssumption, OneTimesMore
        <3>4. ((n - 1) - 1) + 1 = n - 1
            OBVIOUS
        <3>5. refill * (n - 1) = refill * ((n - 1) - 1) + refill
            BY <3>3, <3>4
        <3>6. Shift(log)[n] = log[n - 1] /\ Shift(more)[n] = more[n - 1]
            BY <1>1, <3>1
        <3>7. /\ cost * log[n - 1] \in Nat /\ (1 + more[n - 1]) * capacity \in Nat
              /\ refill * ((n - 1) - 1) \in Nat /\ refill \in Nat /\ capacity \in Nat
            BY <3>1, CoveredTerms
        <3> QED BY <3>2, <3>5, <3>6, <3>7
    <2> QED BY <2>1, <2>2
<1> QED BY <1>1, <1>2 DEF Covered

\* A history of nothing stays one.
LEMMA ShiftZeroes == Shift(Zeroes) = Zeroes
<1>1. \A n \in 1..time_window : n # 1 => n - 1 \in 1..time_window
    BY RateAssumption
<1> QED BY <1>1 DEF Shift, Zeroes

LEMMA BucketStep == BucketInv /\ [RateNext]_rateVars => BucketInv'
<1> SUFFICES ASSUME BucketInv, RateNext \/ UNCHANGED rateVars PROVE BucketInv'
    OBVIOUS
<1>t. /\ current \in Instances
      /\ tokens \in [Instances -> 0..capacity] /\ idle \in [Instances -> Nat]
      /\ taken \in [1..time_window -> Nat] /\ renewed \in [1..time_window -> Nat]
      /\ drawn \in [Instances -> [1..time_window -> Nat]]
    BY DEF BucketInv
<1>n. cost \in Nat /\ capacity \in Nat /\ Zeroes \in [1..time_window -> Nat]
    BY RateAssumption DEF Zeroes
<1>c. /\ Covered(taken, renewed, Refilled(current))
      /\ \A b \in Instances : Covered(drawn[b], Zeroes, Refilled(b))
    BY DEF BucketInv
<1>r. \A b \in Instances :
          /\ Refilled(b) = Content(tokens[b], idle[b]) /\ Refilled(b) \in 0..capacity
          /\ Refilled(b)' = Content(tokens'[b], idle'[b])
    <2>1. \A b \in Instances :
              /\ Refilled(b) = Content(tokens[b], idle[b])
              /\ Refilled(b)' = Content(tokens'[b], idle'[b])
        BY DEF Refilled, Content, AtMost
    <2> QED BY <1>t, <2>1, ContentType
\* One instance is used, and left with t; what the others hold stays.
<1>u. ASSUME NEW b \in Instances, NEW t \in 0..capacity,
             tokens' = [tokens EXCEPT ![b] = t], idle' = [idle EXCEPT ![b] = 0]
      PROVE  /\ tokens' \in [Instances -> 0..capacity] /\ idle' \in [Instances -> Nat]
             /\ Refilled(b)' = t
             /\ \A a \in Instances \ {b} : Refilled(a)' = Refilled(a)
    <2>1. tokens'[b] = t /\ idle'[b] = 0
        BY <1>t, <1>u
    <2>2. \A a \in Instances \ {b} : tokens'[a] = tokens[a] /\ idle'[a] = idle[a]
        BY <1>t, <1>u
    <2>3. Refilled(b)' = Content(t, 0)
        BY <1>r, <2>1
    <2>4. Refilled(b)' = t
        BY <2>3, ContentFirst
    <2>5. \A a \in Instances \ {b} : Refilled(a)' = Refilled(a)
        BY <1>r, <2>2
    <2>6. tokens' \in [Instances -> 0..capacity] /\ idle' \in [Instances -> Nat]
        BY <1>t, <1>u
    <2> QED BY <2>4, <2>5, <2>6
<1>1. ASSUME NEW b \in Instances, BucketAllows(b) PROVE BucketInv'
    <2>1. Refilled(b) \in 0..capacity /\ Refilled(b) >= cost /\ Refilled(b) - cost \in 0..capacity
        BY <1>1, <1>n, <1>r DEF BucketAllows
    <2>2. /\ tokens' \in [Instances -> 0..capacity] /\ idle' \in [Instances -> Nat]
          /\ Refilled(b)' = Refilled(b) - cost
          /\ \A a \in Instances \ {b} : Refilled(a)' = Refilled(a)
        BY <1>1, <1>u, <2>1 DEF BucketAllows
    <2>3. /\ drawn' = [drawn EXCEPT ![b] = OneMore(drawn[b])]
          /\ taken' = IF b = current THEN OneMore(taken) ELSE taken
          /\ current' = current /\ renewed' = renewed
        BY <1>1 DEF BucketAllows
    <2>4. OneMore(drawn[b]) \in [1..time_window -> Nat] /\ Covered(OneMore(drawn[b]), Zeroes, Refilled(b) - cost)
        BY <1>t, <1>n, <1>c, <2>1, CoveredTake
    <2>5. drawn' \in [Instances -> [1..time_window -> Nat]]
        BY <1>t, <2>3, <2>4
    <2>6. ASSUME NEW a \in Instances PROVE Covered(drawn'[a], Zeroes, Refilled(a)')
        <3>1. CASE a = b
            BY <1>t, <2>2, <2>3, <2>4, <3>1
        <3>2. CASE a # b
            BY <1>t, <1>c, <2>2, <2>3, <3>2
        <3> QED BY <3>1, <3>2
    <2>7. taken' \in [1..time_window -> Nat] /\ Covered(taken', renewed, Refilled(current)')
        <3>1. CASE b = current
            <4>1. /\ OneMore(taken) \in [1..time_window -> Nat]
                  /\ Covered(OneMore(taken), renewed, Refilled(b) - cost)
                BY <1>t, <1>c, <2>1, <3>1, CoveredTake
            <4> QED BY <2>2, <2>3, <3>1, <4>1
        <3>2. CASE b # current
            BY <1>t, <1>c, <2>2, <2>3, <3>2
        <3> QED BY <3>1, <3>2
    <2> QED BY <1>t, <2>2, <2>3, <2>5, <2>6, <2>7 DEF BucketInv, Covered, Zeroes, Refilled
<1>2. ASSUME NEW b \in Instances, BucketRejects(b) PROVE BucketInv'
    <2>1. /\ tokens' \in [Instances -> 0..capacity] /\ idle' \in [Instances -> Nat]
          /\ \A a \in Instances : Refilled(a)' = Refilled(a)
        BY <1>2, <1>r, <1>u DEF BucketRejects
    <2>2. UNCHANGED <<current, taken, drawn, renewed>>
        BY <1>2 DEF BucketRejects
    <2> QED BY <1>t, <1>c, <2>1, <2>2 DEF BucketInv, Covered, Zeroes, Refilled
<1>3. ASSUME NEW b \in Instances, Recompile(b) PROVE BucketInv'
    <2>1. /\ tokens' \in [Instances -> 0..capacity] /\ idle' \in [Instances -> Nat]
          /\ Refilled(b)' = capacity
          /\ \A a \in Instances \ {b} : Refilled(a)' = Refilled(a)
        <3>1. capacity \in 0..capacity
            BY <1>n
        <3> QED BY <1>3, <1>u, <3>1 DEF Recompile
    <2>2. /\ current' = b /\ drawn' = [drawn EXCEPT ![b] = Zeroes]
          /\ renewed' = OneMore(renewed) /\ taken' = taken
        BY <1>3 DEF Recompile
    <2>3. drawn' \in [Instances -> [1..time_window -> Nat]]
        BY <1>t, <1>n, <2>2
    <2>4. ASSUME NEW a \in Instances PROVE Covered(drawn'[a], Zeroes, Refilled(a)')
        <3>1. CASE a = b
            BY <1>t, <2>1, <2>2, <3>1, CoveredAtFirst
        <3>2. CASE a # b
            BY <1>t, <1>c, <2>1, <2>2, <3>2
        <3> QED BY <3>1, <3>2
    <2>5. renewed' \in [1..time_window -> Nat] /\ Covered(taken, renewed', capacity)
        BY <1>t, <1>c, <1>r, <2>2, CoveredRenew
    <2>6. Covered(taken, renewed', Refilled(b)')
        BY <2>1, <2>5
    <2> QED BY <1>t, <2>1, <2>2, <2>3, <2>4, <2>5, <2>6 DEF BucketInv, Covered, Zeroes, Refilled
<1>4. CASE RateTick(Live)
    <2>1. /\ tokens' = [b \in Instances |-> IF b \in Live THEN tokens[b] ELSE capacity]
          /\ idle' = [b \in Instances |-> IF b \in Live THEN AtMost(idle[b] + 1, capacity) ELSE 0]
          /\ drawn' = [b \in Instances |-> IF b \in Live THEN Shift(drawn[b]) ELSE Zeroes]
          /\ taken' = Shift(taken) /\ renewed' = Shift(renewed) /\ current' = current
        BY <1>4 DEF RateTick
    <2>2. tokens' \in [Instances -> 0..capacity] /\ idle' \in [Instances -> Nat]
        BY <1>t, <1>n, <2>1 DEF AtMost
    <2>3. ASSUME NEW b \in Instances, b \in Live
          PROVE  Refilled(b)' \in 0..capacity /\ Refilled(b)' <= Refilled(b) + refill
        <3>1. tokens'[b] = tokens[b] /\ idle'[b] \in Nat /\ idle'[b] <= idle[b] + 1
            BY <1>t, <1>n, <2>1, <2>3 DEF AtMost
        <3> QED BY <1>t, <1>r, <3>1, ContentType, ContentLater
    <2>4. ASSUME NEW b \in Instances
          PROVE  drawn'[b] \in [1..time_window -> Nat] /\ Covered(drawn'[b], Zeroes, Refilled(b)')
        <3>1. CASE b \in Live
            <4>1. drawn'[b] = Shift(drawn[b]) /\ drawn[b] \in [1..time_window -> Nat]
                BY <1>t, <2>1, <3>1
            <4>2. /\ Shift(drawn[b]) \in [1..time_window -> Nat]
                  /\ Covered(Shift(drawn[b]), Shift(Zeroes), Refilled(b)')
                BY <1>n, <1>c, <1>r, <2>3, <3>1, <4>1, CoveredTick
            <4> QED BY <4>1, <4>2, ShiftZeroes
        <3>2. CASE b \notin Live
            <4>1. tokens'[b] = capacity /\ idle'[b] = 0 /\ drawn'[b] = Zeroes
                BY <2>1, <3>2
            <4>2. capacity \in 0..capacity
                BY <1>n
            <4>3. Refilled(b)' = capacity
                BY <1>r, <4>1, <4>2, ContentFirst
            <4> QED BY <1>n, <4>1, <4>3, CoveredAtFirst
        <3> QED BY <3>1, <3>2
    <2>5. /\ taken' \in [1..time_window -> Nat] /\ renewed' \in [1..time_window -> Nat]
          /\ Covered(taken', renewed', Refilled(current)')
        <3>1. current \in Live
            BY DEF Live
        <3>2. Refilled(current)' \in 0..capacity /\ Refilled(current)' <= Refilled(current) + refill
            <4>1. PICK b \in Instances : b = current
                BY <1>t
            <4>2. current' = b
                BY <2>1, <4>1
            <4>3. b \in Live
                BY <3>1, <4>1
            <4> QED BY <2>3, <4>1, <4>2, <4>3
        <3> QED BY <1>t, <1>c, <1>r, <2>1, <3>2, CoveredTick
    <2>6. drawn' \in [Instances -> [1..time_window -> Nat]]
        BY <2>1, <2>4
    <2> QED BY <1>t, <2>1, <2>2, <2>4, <2>5, <2>6 DEF BucketInv, Covered, Zeroes, Refilled
<1>5. CASE WindowAllows \/ WindowRejects \/ UNCHANGED rateVars
    BY <1>5 DEF WindowAllows, WindowRejects, rateVars, bucketVars, BucketInv, Refilled
<1> QED BY <1>1, <1>2, <1>3, <1>4, <1>5 DEF RateNext

\* In any policy, for any limits, any timing of requests and any number of
\* recompilations, with requests that stay in an old graph for as long as they
\* like: no time_window ticks see more than twice the count pass limit-count, no
\* stretch sees more pass one instance of rate-limit than the burst and the
\* refills of that stretch pay for, and the instance in force lets at most a
\* burst more through with every recompilation in the stretch.
THEOREM RatesAlways == Spec => []RatesBounded
<1>1. Init => WindowInv
    BY RateAssumption DEF Init, RateInit, WindowInv, Zeroes
<1>2. Init => BucketInv /\ GraphInv
    <2> SUFFICES ASSUME Init PROVE BucketInv /\ GraphInv
        OBVIOUS
    <2>1. /\ capacity \in 0..capacity /\ FirstInstance \in Instances
          /\ current = FirstInstance /\ graph = [r \in Requests |-> FirstInstance]
          /\ tokens = [b \in Instances |-> capacity] /\ idle = [b \in Instances |-> 0]
          /\ taken = Zeroes /\ renewed = Zeroes /\ drawn = [b \in Instances |-> Zeroes]
        BY RateAssumption DEF Init, RateInit
    <2>2. Zeroes \in [1..time_window -> Nat]
        BY DEF Zeroes
    <2>3. ASSUME NEW b \in Instances PROVE Refilled(b) = capacity
        <3>1. Refilled(b) = Content(tokens[b], idle[b])
            BY DEF Refilled, Content
        <3>2. tokens[b] = capacity /\ idle[b] = 0
            BY <2>1
        <3> QED BY <2>1, <3>1, <3>2, ContentFirst
    <2>4. Covered(Zeroes, Zeroes, capacity)
        BY CoveredAtFirst
    <2> QED BY <2>1, <2>2, <2>3, <2>4 DEF BucketInv, GraphInv
<1>3. WindowInv /\ BucketInv => RatesBounded
    <2> SUFFICES ASSUME WindowInv, BucketInv PROVE RatesBounded
        OBVIOUS
    <2>1. granted[time_window] <= 2 * count
        BY RateAssumption, SMTT(30) DEF WindowInv
    <2>2. \A b \in Instances : Refilled(b) \in 0..capacity
        BY ContentType DEF BucketInv, Refilled, Content
    <2>3. ASSUME NEW n \in 1..time_window, NEW b \in Instances
          PROVE  cost * drawn[b][n] <= capacity + refill * (n - 1)
        <3>1. cost * drawn[b][n] + Refilled(b) <= (1 + Zeroes[n]) * capacity + refill * (n - 1)
            BY DEF BucketInv, Covered
        <3>2. (1 + Zeroes[n]) * capacity = capacity
            BY RateAssumption DEF Zeroes
        <3>3. Zeroes \in [1..time_window -> Nat] /\ drawn[b] \in [1..time_window -> Nat]
            BY DEF Zeroes, BucketInv
        <3>4. cost * drawn[b][n] \in Nat /\ refill * (n - 1) \in Nat /\ capacity \in Nat
            BY <3>3, CoveredTerms
        <3> QED BY <2>2, <3>1, <3>2, <3>4
    <2>4. ASSUME NEW n \in 1..time_window
          PROVE  cost * taken[n] <= (1 + renewed[n]) * capacity + refill * (n - 1)
        <3>1. cost * taken[n] + Refilled(current) <= (1 + renewed[n]) * capacity + refill * (n - 1)
            BY DEF BucketInv, Covered
        <3>2. /\ cost * taken[n] \in Nat /\ (1 + renewed[n]) * capacity \in Nat
              /\ refill * (n - 1) \in Nat /\ Refilled(current) \in 0..capacity /\ capacity \in Nat
            BY <2>2, CoveredTerms DEF BucketInv
        <3> QED BY <3>1, <3>2
    <2> QED BY <2>1, <2>3, <2>4 DEF RatesBounded
<1> QED BY <1>1, <1>2, <1>3, GraphStep, PathUsesRates, WindowStep, BucketStep, PTL DEF Spec
=============================================================================
