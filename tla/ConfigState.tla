---------------------------- MODULE ConfigState ----------------------------
(***************************************************************************)
(* The shared gateway state: the gateway configuration and the route table *)
(* compiled from it, each behind a fair read-write lock, and the consumer  *)
(* store, which is swapped without a lock.  Tasks of the runtime work on   *)
(* it: Admin API handlers, the reload paths, and the data plane.           *)
(*                                                                         *)
(* Code between two awaits is one step.  A read section that holds no lock *)
(* across an await (take the lock, read, drop it) is one step too: no      *)
(* other task can change what the lock protects while it runs.             *)
(***************************************************************************)
EXTENDS RwLock

CONSTANTS
    RouteNames,      \* names a route may have
    PolicyNames,     \* names a policy may have
    Versions,        \* contents a policy may have
    BadVersions,     \* the contents that validation or compilation rejects
    ConsumerNames,   \* names a consumer may have
    Credentials,     \* the credential value of a consumer
    DiskConfigs,     \* configurations gateway.yaml may hold
    InitialConfig,   \* the configuration the process started with
    Ops,             \* which operations the environment invokes
    Absent           \* no such resource, no value

Configs == [routes    : [RouteNames -> PolicyNames \cup {Absent}],
            policies  : [PolicyNames -> Versions \cup {Absent}],
            consumers : [ConsumerNames -> Credentials \cup {Absent}]]

RouteTables == [RouteNames -> (PolicyNames \X Versions) \cup {Absent}]

AllOps == {"crud", "read", "reload", "status", "request"}

-----------------------------------------------------------------------------
(* Building a consumer store and compiling the route table. *)

\* Two consumers may not share a credential.
from_config_ok(consumers) ==
    \A c, d \in ConsumerNames :
        c # d /\ consumers[c] # Absent => consumers[c] # consumers[d]

\* Every policy, used or not, must compile, and every route must name one.
compile_routes_ok(gw) ==
    /\ \A p \in PolicyNames : gw.policies[p] \notin BadVersions
    /\ \A r \in RouteNames :
          gw.routes[r] # Absent => gw.policies[gw.routes[r]] # Absent

validate_gateway(gw) == from_config_ok(gw.consumers) /\ compile_routes_ok(gw)

\* Each route is bound to the graph of the policy it names; the graph is
\* identified with the policy's name and content.
compile_routes(gw) ==
    [r \in RouteNames |->
        IF gw.routes[r] = Absent THEN Absent
        ELSE <<gw.routes[r], gw.policies[gw.routes[r]]>>]

ASSUME ConfigAssumption ==
    /\ Absent \notin PolicyNames \cup Versions \cup Credentials
    /\ Absent \notin PolicyNames \X Versions
    /\ BadVersions \subseteq Versions
    /\ InitialConfig \in Configs /\ validate_gateway(InitialConfig)
    /\ DiskConfigs \subseteq Configs
    /\ Ops \subseteq AllOps

-----------------------------------------------------------------------------
VARIABLES
    gateway,       \* the value behind SharedState.gateway
    routes,        \* the value behind SharedState.routes
    consumers,     \* resources.consumers, an atomically swapped pointer
    gatewayLock,   \* who holds and who waits for `gateway`
    routesLock,    \* who holds and who waits for `routes`
    pc,            \* where each task is
    cand,          \* the configuration a task is applying
    view,          \* the route table a task read under `routes`
    lone           \* history: no other apply was between its swaps when the
                   \* consumer store was last swapped

vars == <<gateway, routes, consumers, gatewayLock, routesLock, pc, cand, view, lone>>

locks == <<gatewayLock, routesLock>>
data  == <<gateway, routes, consumers, lone>>

PC == {"idle",
       "edit",         \* in a CRUD handler, at gateway.read()
       "get",          \* in a list, get or export handler, at gateway.read()
       "apply",        \* in apply_gateway, nothing done yet
       "ask_gateway",  \* consumer store swapped, gateway.write() not called
       "swap_gateway", \* at gateway.write()
       "swap_routes",  \* gateway written and still locked, at routes.write()
       "status",       \* in the status handler, at routes.read()
       "status_gw",    \* holding routes.read(), at gateway.read()
       "match",        \* a request at routes.read()
       "running"}      \* a request executing the graph it matched

TypeOK ==
    /\ gateway \in Configs
    /\ routes \in RouteTables
    /\ consumers \in [ConsumerNames -> Credentials \cup {Absent}]
    /\ gatewayLock \in Lock
    /\ routesLock \in Lock
    /\ pc \in [Tasks -> PC]
    /\ cand \in [Tasks -> Configs \cup {Absent}]
    /\ view \in [Tasks -> RouteTables \cup {Absent}]
    /\ lone \in BOOLEAN

\* SharedState::new: everything is built from one valid configuration.
Init ==
    /\ gateway = InitialConfig
    /\ routes = compile_routes(InitialConfig)
    /\ consumers = InitialConfig.consumers
    /\ gatewayLock = Unlocked
    /\ routesLock = Unlocked
    /\ pc = [t \in Tasks |-> "idle"]
    /\ cand = [t \in Tasks |-> Absent]
    /\ view = [t \in Tasks |-> Absent]
    /\ lone = TRUE

Goto(t, label) == pc' = [pc EXCEPT ![t] = label]

-----------------------------------------------------------------------------
(* Admin API: create, update and delete of routes, policies, consumers. *)

\* A CRUD handler calls gateway.read().
BeginEdit(t) ==
    /\ "crud" \in Ops /\ pc[t] = "idle"
    /\ gatewayLock' = Ask(gatewayLock, t, "read")
    /\ Goto(t, "edit")
    /\ UNCHANGED <<data, routesLock, cand, view>>

\* The handler holds the read guard: it clones the configuration, edits the
\* clone, and drops the guard before it commits.
Editing(t) == pc[t] = "edit" /\ Holds(gatewayLock, t)

Commit(t, candidate) ==
    /\ gatewayLock' = Release(gatewayLock, t)
    /\ cand' = [cand EXCEPT ![t] = candidate]
    /\ Goto(t, "apply")
    /\ UNCHANGED <<data, routesLock, view>>

\* 404 or 409: the handler returns without committing.
Refuse(t) ==
    /\ gatewayLock' = Release(gatewayLock, t)
    /\ Goto(t, "idle")
    /\ UNCHANGED <<data, routesLock, cand, view>>

WithRoute(r, p)    == [gateway EXCEPT !.routes[r] = p]
WithPolicy(p, v)   == [gateway EXCEPT !.policies[p] = v]
WithConsumer(c, k) == [gateway EXCEPT !.consumers[c] = k]

create_route(t) ==
    /\ Editing(t)
    /\ \E r \in RouteNames, p \in PolicyNames :
          \/ gateway.routes[r] # Absent /\ Refuse(t)
          \/ gateway.routes[r] = Absent /\ Commit(t, WithRoute(r, p))

update_route(t) ==
    /\ Editing(t)
    /\ \E r \in RouteNames, p \in PolicyNames :
          \/ gateway.routes[r] = Absent /\ Refuse(t)
          \/ gateway.routes[r] # Absent /\ Commit(t, WithRoute(r, p))

delete_route(t) ==
    /\ Editing(t)
    /\ \E r \in RouteNames :
          \/ gateway.routes[r] = Absent /\ Refuse(t)
          \/ gateway.routes[r] # Absent /\ Commit(t, WithRoute(r, Absent))

update_policy(t) ==
    /\ Editing(t)
    /\ \E p \in PolicyNames, v \in Versions : Commit(t, WithPolicy(p, v))

delete_policy(t) ==
    /\ Editing(t)
    /\ \E p \in PolicyNames :
          \/ gateway.policies[p] = Absent /\ Refuse(t)
          \/ gateway.policies[p] # Absent /\ Commit(t, WithPolicy(p, Absent))

create_consumer(t) ==
    /\ Editing(t)
    /\ \E c \in ConsumerNames, k \in Credentials :
          \/ gateway.consumers[c] # Absent /\ Refuse(t)
          \/ gateway.consumers[c] = Absent /\ Commit(t, WithConsumer(c, k))

upsert_consumer(t) ==
    /\ Editing(t)
    /\ \E c \in ConsumerNames, k \in Credentials : Commit(t, WithConsumer(c, k))

delete_consumer(t) ==
    /\ Editing(t)
    /\ \E c \in ConsumerNames :
          \/ gateway.consumers[c] = Absent /\ Refuse(t)
          \/ gateway.consumers[c] # Absent /\ Commit(t, WithConsumer(c, Absent))

Edit(t) ==
    \/ create_route(t)    \/ update_route(t)    \/ delete_route(t)
    \/ update_policy(t)   \/ delete_policy(t)
    \/ create_consumer(t) \/ upsert_consumer(t) \/ delete_consumer(t)

\* The list, get and export handlers read under gateway.read() and answer.
BeginGet(t) ==
    /\ "read" \in Ops /\ pc[t] = "idle"
    /\ gatewayLock' = Ask(gatewayLock, t, "read")
    /\ Goto(t, "get")
    /\ UNCHANGED <<data, routesLock, cand, view>>

Get(t) ==
    /\ pc[t] = "get" /\ Holds(gatewayLock, t)
    /\ gatewayLock' = Release(gatewayLock, t)
    /\ Goto(t, "idle")
    /\ UNCHANGED <<data, routesLock, cand, view>>

-----------------------------------------------------------------------------
(* apply_gateway, reached from a commit and from a reload. *)

\* The file watcher or POST /api/config/reload read gateway.yaml.  A file that
\* does not parse ends the reload here, which changes nothing.
reload_from_disk(t) ==
    /\ "reload" \in Ops /\ pc[t] = "idle"
    /\ \E gw \in DiskConfigs : cand' = [cand EXCEPT ![t] = gw]
    /\ Goto(t, "apply")
    /\ UNCHANGED <<data, locks, view>>

\* Mutant: the consumer store is swapped before the routes are compiled.
RejectedAfterSwap(t) ==
    /\ pc[t] = "apply" /\ ~validate_gateway(cand[t])
    /\ consumers' = IF from_config_ok(cand[t].consumers) THEN cand[t].consumers ELSE consumers
    /\ cand' = [cand EXCEPT ![t] = Absent]
    /\ Goto(t, "idle")
    /\ UNCHANGED <<gateway, routes, lone, locks, view>>

\* Consumer store or route table cannot be built: Err, nothing swapped.
ApplyRejected(t) ==
    /\ pc[t] = "apply" /\ ~validate_gateway(cand[t])
    /\ cand' = [cand EXCEPT ![t] = Absent]
    /\ Goto(t, "idle")
    /\ UNCHANGED <<data, locks, view>>

\* The apply of t has swapped the consumer store and not yet both the others.
Swapping(t) == pc[t] \in {"ask_gateway", "swap_gateway", "swap_routes"}

\* Mutant: the build errors are ignored.
ApplyUnvalidated(t) ==
    /\ pc[t] = "apply"
    /\ consumers' = cand[t].consumers
    /\ lone' = \A u \in Tasks : ~Swapping(u)
    /\ Goto(t, "ask_gateway")
    /\ UNCHANGED <<gateway, routes, locks, cand, view>>

\* Both are built; the consumer store is swapped at once, under no lock.
ApplyConsumers(t) ==
    /\ pc[t] = "apply" /\ validate_gateway(cand[t])
    /\ consumers' = cand[t].consumers
    /\ lone' = \A u \in Tasks : ~Swapping(u)
    /\ Goto(t, "ask_gateway")
    /\ UNCHANGED <<gateway, routes, locks, cand, view>>

ApplyAskGateway(t) ==
    /\ pc[t] = "ask_gateway"
    /\ gatewayLock' = Ask(gatewayLock, t, "write")
    /\ Goto(t, "swap_gateway")
    /\ UNCHANGED <<data, routesLock, cand, view>>

\* Mutant: the gateway guard is dropped before the route table is locked.
ApplyGatewayDropsGuard(t) ==
    /\ pc[t] = "swap_gateway" /\ Holds(gatewayLock, t)
    /\ gateway' = cand[t]
    /\ gatewayLock' = Release(gatewayLock, t)
    /\ routesLock' = Ask(routesLock, t, "write")
    /\ Goto(t, "swap_routes")
    /\ UNCHANGED <<routes, consumers, lone, cand, view>>

\* The gateway guard stays alive while the task waits for the route table.
ApplyGateway(t) ==
    /\ pc[t] = "swap_gateway" /\ Holds(gatewayLock, t)
    /\ gateway' = cand[t]
    /\ routesLock' = Ask(routesLock, t, "write")
    /\ Goto(t, "swap_routes")
    /\ UNCHANGED <<routes, consumers, lone, gatewayLock, cand, view>>

\* The route table is swapped and both guards are dropped.
ApplyRoutes(t) ==
    /\ pc[t] = "swap_routes" /\ Holds(routesLock, t)
    /\ routes' = compile_routes(cand[t])
    /\ gatewayLock' = Release(gatewayLock, t)
    /\ routesLock' = Release(routesLock, t)
    /\ cand' = [cand EXCEPT ![t] = Absent]
    /\ Goto(t, "idle")
    /\ UNCHANGED <<gateway, consumers, lone, view>>

-----------------------------------------------------------------------------
(* GET /api/status, and the data plane. *)

BeginStatus(t) ==
    /\ "status" \in Ops /\ pc[t] = "idle"
    /\ routesLock' = Ask(routesLock, t, "read")
    /\ Goto(t, "status")
    /\ UNCHANGED <<data, gatewayLock, cand, view>>

\* Mutant: the routes guard is dropped after the count.
StatusDropsRoutes(t) ==
    /\ pc[t] = "status" /\ Holds(routesLock, t)
    /\ view' = [view EXCEPT ![t] = routes]
    /\ routesLock' = Release(routesLock, t)
    /\ gatewayLock' = Ask(gatewayLock, t, "read")
    /\ Goto(t, "status_gw")
    /\ UNCHANGED <<data, cand>>

\* The routes guard stays alive while the handler waits for the gateway lock.
StatusRoutes(t) ==
    /\ pc[t] = "status" /\ Holds(routesLock, t)
    /\ view' = [view EXCEPT ![t] = routes]
    /\ gatewayLock' = Ask(gatewayLock, t, "read")
    /\ Goto(t, "status_gw")
    /\ UNCHANGED <<data, routesLock, cand>>

StatusGateway(t) ==
    /\ pc[t] = "status_gw" /\ Holds(gatewayLock, t)
    /\ view' = [view EXCEPT ![t] = Absent]
    /\ gatewayLock' = Release(gatewayLock, t)
    /\ routesLock' = Release(routesLock, t)
    /\ Goto(t, "idle")
    /\ UNCHANGED <<data, cand>>

BeginRequest(t) ==
    /\ "request" \in Ops /\ pc[t] = "idle"
    /\ routesLock' = Ask(routesLock, t, "read")
    /\ Goto(t, "match")
    /\ UNCHANGED <<data, gatewayLock, cand, view>>

\* Mutant: the routes guard lives as long as the request.
RequestKeepsGuard(t) ==
    /\ pc[t] = "match" /\ Holds(routesLock, t)
    /\ \/ \E r \in RouteNames : routes[r] # Absent /\ Goto(t, "running")
       \/ Goto(t, "idle")
    /\ UNCHANGED <<data, locks, cand, view>>

\* The request matches, clones the graph's Arc and drops the guard; an
\* unmatched request (no route) is answered 404 at once.
handle_request(t) ==
    /\ pc[t] = "match" /\ Holds(routesLock, t)
    /\ routesLock' = Release(routesLock, t)
    /\ \/ \E r \in RouteNames : routes[r] # Absent /\ Goto(t, "running")
       \/ Goto(t, "idle")
    /\ UNCHANGED <<data, gatewayLock, cand, view>>

\* The graph finishes, if its upstream ever answers.
EndRequest(t) ==
    /\ pc[t] = "running"
    /\ Goto(t, "idle")
    /\ UNCHANGED <<data, locks, cand, view>>

-----------------------------------------------------------------------------
\* What a task does once started, other than wait for an upstream.
Progress(t) ==
    \/ Edit(t) \/ Get(t)
    \/ ApplyRejected(t) \/ ApplyConsumers(t) \/ ApplyAskGateway(t)
    \/ ApplyGateway(t) \/ ApplyRoutes(t)
    \/ StatusRoutes(t) \/ StatusGateway(t)
    \/ handle_request(t)

Begin(t) ==
    \/ BeginEdit(t) \/ BeginGet(t) \/ reload_from_disk(t)
    \/ BeginStatus(t) \/ BeginRequest(t)

Next == \E t \in Tasks : Begin(t) \/ Progress(t) \/ EndRequest(t)

Spec == Init /\ [][Next]_vars

\* The runtime polls every task that can run.  Nothing obliges a client to
\* send a request, or an upstream to answer one.
Fairness == \A t \in Tasks : WF_vars(Progress(t))

FairSpec == Spec /\ Fairness

-----------------------------------------------------------------------------
(* Properties. *)

\* Whoever holds the gateway lock for reading (export, list, the CRUD clone)
\* sees the configuration whose compiled routes the data plane is matching on.
ReadersSeeRunningConfig ==
    \A t \in Tasks :
        gatewayLock.mode[t] = "read" /\ Holds(gatewayLock, t)
            => routes = compile_routes(gateway)

\* GET /api/status reports a route count and a policy count that belong to one
\* and the same configuration, although it takes two locks one after the other.
StatusIsOneConfig ==
    \A t \in Tasks :
        pc[t] = "status_gw" /\ Holds(gatewayLock, t)
            => view[t] = compile_routes(gateway)

\* The last-good guarantee: however applies interleave and fail, the running
\* gateway configuration and the running consumer store are ones that passed
\* the build, and every route in the table has a compiled graph of a policy
\* the builder accepted.
LastGood ==
    /\ validate_gateway(gateway)
    /\ from_config_ok(consumers)
    /\ \A r \in RouteNames : routes[r] # Absent => routes[r][2] \notin BadVersions

\* apply_gateway swaps the three pieces of state one after the other, under
\* two locks and none.  When no apply is between its swaps, consumer store,
\* gateway configuration and route table are of one and the same candidate,
\* whatever was rejected, reloaded or undone before: unless the store was last
\* swapped while another apply was between its own swaps.  Then the store may
\* stay one candidate's and the rest the other's, until the next apply that
\* runs alone.
PiecesAgree ==
    lone /\ (\A t \in Tasks : ~Swapping(t))
        => consumers = gateway.consumers /\ routes = compile_routes(gateway)

\* No task waits for ever on the two locks: an apply, an Admin API call and the
\* matching of a request all come to an end, even if upstreams never answer.
EveryTaskFinishes ==
    \A t \in Tasks : pc[t] \notin {"idle", "running"} ~> pc[t] \in {"idle", "running"}
=============================================================================
