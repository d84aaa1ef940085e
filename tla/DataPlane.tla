----------------------------- MODULE DataPlane -----------------------------
(***************************************************************************)
(* The listeners of the gateway's data plane: an HTTP listener whose       *)
(* requests go through a guarded policy, or a listener whose connections   *)
(* hold places in a load balancer.  The two share nothing but the clock,   *)
(* and are looked at one at a time.                                        *)
(***************************************************************************)
EXTENDS TrafficPath, Streams

VARIABLE listener

planeVars == <<listener, vars, streamVars>>

ByPolicy(A) == listener = "policy" /\ A /\ UNCHANGED <<listener, streamVars>>
ByPool(A)   == listener = "pool" /\ A /\ UNCHANGED <<listener, vars>>

PlaneInit ==
    /\ Init /\ StreamInit
    /\ listener \in {"policy", "pool"}
    /\ listener = "policy" => /\ protocol = CHOOSE p \in Protocols : TRUE
                              /\ strategy = CHOOSE s \in Strategies : TRUE
    /\ listener = "pool" => chain = CHOOSE c \in Chains : TRUE

PlaneNext == ByPolicy(Next) \/ ByPool(StreamNext)

\* The runtime polls requests and readers, time passes, the upstream answers
\* what it is asked (or the node's time-out does), sockets come or fail, and
\* select! picks at random among what is ready, so that the prune tick has its
\* turn.  Nothing obliges a client to come.
PlaneFairness ==
    /\ WF_planeVars(ByPolicy(Tick))
    /\ \A r \in Requests : WF_planeVars(ByPolicy(Step(r)))
    /\ WF_planeVars(ByPool(StreamTick))
    /\ WF_planeVars(ByPool(create_session \/ CreateFails))
    /\ SF_planeVars(ByPool(Prune))
    /\ \A c \in Clients :
          WF_planeVars(ByPool(ReaderTimeout(c))) /\ WF_planeVars(ByPool(Leave(c)))

PlaneSpec == PlaneInit /\ [][PlaneNext]_planeVars /\ PlaneFairness
=============================================================================
