---------------------------- MODULE TrafficPath ----------------------------
(***************************************************************************)
(* Requests on their way through a policy that guards its upstream with    *)
(* traffic-control nodes: rate limits, and the pairs of nodes around the   *)
(* upstream (connection limit, breaker, cache).  All requests share the    *)
(* state of the nodes.  The policy is a chain of nodes.  The error ports   *)
(* of the guards lead to the client; the release node, where there is one, *)
(* is the policy's catch-all as well, so that it is on every path out of   *)
(* the upstream, as limit-conn requires (two edges into it would be        *)
(* refused by validate_policy).                                            *)
(***************************************************************************)
EXTENDS LimitConn, CircuitBreaker, RateLimit, ProxyCache, Sequences

CONSTANTS
    Chains,       \* the policies to look at, as sequences of nodes
    MaxLeaked     \* bound on the requests dropped while they hold a slot

VARIABLES
    chain,     \* the policy
    pos,       \* the node each request is at; 0 outside
    graph,     \* the rate-limit instance in the graph each request goes through,
               \* until it has been there
    status,    \* the upstream's answer to each request
    sick       \* the upstream has not recovered yet

pathVars == <<chain, pos, graph, status, sick>>
vars     == <<connVars, breakerVars, rateVars, cacheVars, pathVars>>

Init ==
    /\ ConnInit /\ BreakerInit /\ RateInit /\ CacheInit
    /\ chain \in Chains
    /\ pos = [r \in Requests |-> 0]
    /\ graph = [r \in Requests |-> FirstInstance]
    /\ status = [r \in Requests |-> "none"]
    /\ sick = TRUE

At(r, node) == pos[r] > 0 /\ chain[pos[r]] = node

\* Some node from i on looks at the upstream's answer.
Observed(i) == i > 0 /\ \E j \in i..Len(chain) : chain[j] \in {"observe", "store"}

\* The request has a rate limit ahead of it.
Limited(i) == i > 0 /\ \E j \in i..Len(chain) : chain[j] = "rate-limit"

\* The context goes with the request; its answer and its graph are kept in mind
\* as long as they matter.
Goto(r, i) ==
    /\ pos' = [pos EXCEPT ![r] = i]
    /\ graph' = [graph EXCEPT ![r] = IF Limited(i) THEN @ ELSE FirstInstance]
    /\ status' = [status EXCEPT ![r] = IF Observed(i) THEN @ ELSE "none"]
    /\ UNCHANGED <<chain, sick>>

HasNode(nodes) == \E i \in DOMAIN chain : chain[i] \in nodes

\* Through the success port, to the client in the end.
Pass(r) == Goto(r, IF pos[r] = Len(chain) THEN 0 ELSE pos[r] + 1)

ReleaseNode == CHOOSE i \in DOMAIN chain : chain[i] = "release"

\* Through the error port, or to the catch-all once a slot is held.
Fail(r) == Goto(r, IF slot[r] = "held" THEN ReleaseNode ELSE 0)

-----------------------------------------------------------------------------
\* The request takes the graph in force, and keeps it.
Arrive(r) ==
    /\ pos[r] = 0
    /\ pos' = [pos EXCEPT ![r] = 1]
    /\ graph' = [graph EXCEPT ![r] = current]
    /\ UNCHANGED <<chain, status, sick>>
    /\ UNCHANGED <<connVars, breakerVars, rateVars, cacheVars>>

rate_limit(r) ==
    /\ At(r, "rate-limit")
    /\ (BucketAllows(graph[r]) /\ Pass(r)) \/ (BucketRejects(graph[r]) /\ Fail(r))
    /\ UNCHANGED <<connVars, breakerVars, cacheVars>>

limit_count(r) ==
    /\ At(r, "limit-count")
    /\ (WindowAllows /\ Pass(r)) \/ (WindowRejects /\ Fail(r))
    /\ UNCHANGED <<connVars, breakerVars, cacheVars>>

limit_conn_acquire(r) ==
    /\ At(r, "acquire")
    /\ \/ Acquire(r) /\ (IF slot'[r] = "held" THEN Pass(r) ELSE UNCHANGED pathVars)
       \/ Undo(r) /\ Fail(r)
    /\ UNCHANGED <<breakerVars, rateVars, cacheVars>>

limit_conn_release(r) ==
    /\ At(r, "release")
    /\ \/ Load(r) /\ UNCHANGED pathVars
       \/ CompareExchange(r) /\ (IF slot'[r] = "none" THEN Pass(r) ELSE UNCHANGED pathVars)
    /\ UNCHANGED <<breakerVars, rateVars, cacheVars>>

api_breaker_check(r) ==
    /\ At(r, "check")
    /\ (CheckPasses /\ Pass(r)) \/ (CheckRejects /\ Fail(r))
    /\ UNCHANGED <<connVars, rateVars, cacheVars>>

api_breaker_observe(r) ==
    /\ At(r, "observe")
    /\ Observe(status[r]) /\ Pass(r)
    /\ UNCHANGED <<connVars, rateVars, cacheVars>>

\* A hit is answered through the error port; a request whose method is not
\* cacheable is let through, here and at the store.
proxy_cache_lookup(r) ==
    /\ At(r, "lookup")
    /\ \/ r \notin cache_methods /\ Pass(r) /\ UNCHANGED cacheVars
       \/ r \in cache_methods /\ Hit(r) /\ Fail(r)
       \/ r \in cache_methods /\ (Miss(r) \/ RemoveExpired(r)) /\ Pass(r)
       \/ r \in cache_methods /\ FindExpired(r) /\ UNCHANGED pathVars
    /\ UNCHANGED <<connVars, breakerVars, rateVars>>

proxy_cache_store(r) ==
    /\ At(r, "store")
    /\ IF r \in cache_methods /\ status[r] \in cache_statuses
       THEN put(status[r]) ELSE UNCHANGED cacheVars
    /\ Pass(r)
    /\ UNCHANGED <<connVars, breakerVars, rateVars>>

\* The upstream answers; once it has recovered, with a healthy status.
UpstreamAnswers(r) ==
    /\ At(r, "upstream")
    /\ \E s \in (IF sick THEN {"healthy", "unhealthy", "other"} ELSE {"healthy"}) :
          LET i == IF pos[r] = Len(chain) THEN 0 ELSE pos[r] + 1
          IN  /\ pos' = [pos EXCEPT ![r] = i]
              /\ status' = [status EXCEPT ![r] = IF Observed(i) THEN s ELSE "none"]
    /\ UNCHANGED <<chain, graph, sick>>
    /\ UNCHANGED <<connVars, breakerVars, rateVars, cacheVars>>

\* No answer: the upstream node's own error port.
UpstreamFails(r) ==
    /\ At(r, "upstream") /\ sick
    /\ Fail(r)
    /\ UNCHANGED <<connVars, breakerVars, rateVars, cacheVars>>

\* The client disconnects while the upstream is awaited.
Dropped(r) ==
    /\ At(r, "upstream") /\ leaked < MaxLeaked
    /\ IF slot[r] = "held" THEN Disconnect(r) ELSE UNCHANGED connVars
    /\ Goto(r, 0)
    /\ UNCHANGED <<breakerVars, rateVars, cacheVars>>

Step(r) ==
    \/ rate_limit(r) \/ limit_count(r)
    \/ limit_conn_acquire(r) \/ limit_conn_release(r)
    \/ api_breaker_check(r) \/ api_breaker_observe(r)
    \/ proxy_cache_lookup(r) \/ proxy_cache_store(r)
    \/ UpstreamAnswers(r)

\* The rate-limit instances that a request may still use.
Live == {current} \cup {graph[r] : r \in {q \in Requests : Limited(pos[q])}}

\* The clock: the limiters have a part in it only where the policy has one.
Tick ==
    /\ BreakerTick
    /\ IF HasNode({"rate-limit", "limit-count"}) THEN RateTick(Live) ELSE UNCHANGED rateVars
    /\ CacheTick
    /\ UNCHANGED <<connVars, pathVars>>

\* The policy is recompiled under the requests' feet.
Reload ==
    /\ HasNode({"rate-limit"})
    /\ \E b \in Instances \ Live : Recompile(b)
    /\ UNCHANGED <<connVars, breakerVars, cacheVars, pathVars>>

Recover ==
    /\ sick /\ sick' = FALSE
    /\ UNCHANGED <<connVars, breakerVars, rateVars, cacheVars, chain, pos, graph, status>>

Next ==
    \/ \E r \in Requests : Arrive(r) \/ Step(r) \/ UpstreamFails(r) \/ Dropped(r)
    \/ Tick \/ Reload \/ Recover

Spec == Init /\ [][Next]_vars

-----------------------------------------------------------------------------
\* An upstream that has recovered, and that requests keep heading for, gets out
\* of the breaker: the window ends, probes pass, and the backoff is reset.  It
\* takes clients who do not all hang up before the answer, since an answer no
\* one waits for is not observed.
BreakerRecovers ==
    /\ []<>(\E r \in Requests : At(r, "check"))
    /\ <>[][~\E r \in Requests : Dropped(r)]_vars
    => (~sick ~> [](open_for = Closed /\ trip_round = 0))
=============================================================================
