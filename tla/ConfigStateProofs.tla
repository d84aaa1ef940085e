------------------------- MODULE ConfigStateProofs -------------------------
(***************************************************************************)
(* For any number of tasks and any configurations: type correctness of the *)
(* shared gateway state, exclusion of the two fair locks, the last-good    *)
(* guarantee, and that no reader of the gateway lock ever sees a           *)
(* configuration other than the one the data plane is matching on.         *)
(***************************************************************************)
EXTENDS ConfigState, TLAPS

-----------------------------------------------------------------------------
(* The inductive invariant. *)

\* The line of a lock is a total order on the tasks in it.
LockInv(L) ==
    /\ \A t \in Tasks : L.ahead[t] \subseteq InLine(L) \ {t}
    /\ \A t, u \in InLine(L) : t # u => t \in L.ahead[u] \/ u \in L.ahead[t]
    /\ \A t \in Tasks : L.mode[t] = "none" => L.ahead[t] = {}

\* What a task asked for follows from where it is.
GatewayMode(label) ==
    CASE label \in {"edit", "get", "status_gw"}       -> "read"
      [] label \in {"swap_gateway", "swap_routes"}    -> "write"
      [] OTHER                                        -> "none"

RoutesMode(label) ==
    CASE label \in {"status", "status_gw", "match"} -> "read"
      [] label = "swap_routes"                      -> "write"
      [] OTHER                                      -> "none"

ModesInv ==
    \A t \in Tasks : /\ gatewayLock.mode[t] = GatewayMode(pc[t])
                     /\ routesLock.mode[t] = RoutesMode(pc[t])

\* A guard kept across an await is still held at the other side of it.
GuardsInv ==
    \A t \in Tasks : /\ pc[t] = "swap_routes" => Holds(gatewayLock, t)
                     /\ pc[t] = "status_gw" => Holds(routesLock, t)

\* What a task carries from one step to the next.
CarriedInv ==
    \A t \in Tasks :
        /\ pc[t] \in {"apply", "ask_gateway", "swap_gateway", "swap_routes"}
              => cand[t] \in Configs
        /\ pc[t] \in {"ask_gateway", "swap_gateway", "swap_routes"}
              => validate_gateway(cand[t])
        /\ pc[t] = "swap_routes" => gateway = cand[t]
        /\ pc[t] = "status_gw" => view[t] = routes

\* Between applies the route table is the compiled gateway configuration.
RoutesInv ==
    (\A t \in Tasks : pc[t] # "swap_routes") => routes = compile_routes(gateway)

Inv ==
    /\ TypeOK
    /\ LockInv(gatewayLock)
    /\ LockInv(routesLock)
    /\ ModesInv
    /\ GuardsInv
    /\ CarriedInv
    /\ RoutesInv
    /\ LastGood

-----------------------------------------------------------------------------
(* The lock. *)

\* An unlocked lock has an empty, well-ordered line.
LEMMA UnlockedInv == Unlocked \in Lock /\ LockInv(Unlocked)
BY DEF Unlocked, Lock, LockInv, InLine, Modes

\* read() and write() keep the line well ordered, and take the lock from nobody.
LEMMA AskInv ==
    ASSUME NEW L \in Lock, LockInv(L), NEW t \in Tasks, L.mode[t] = "none",
           NEW m \in {"read", "write"}
    PROVE  /\ Ask(L, t, m) \in Lock
           /\ LockInv(Ask(L, t, m))
           /\ Ask(L, t, m).mode = [L.mode EXCEPT ![t] = m]
           /\ \A u \in Tasks : u # t /\ Holds(L, u) => Holds(Ask(L, t, m), u)
<1> DEFINE K == Ask(L, t, m)
<1>1. /\ L.mode \in [Tasks -> Modes] /\ L.ahead \in [Tasks -> SUBSET Tasks]
      /\ K.mode = [L.mode EXCEPT ![t] = m]
      /\ K.ahead = [L.ahead EXCEPT ![t] = InLine(L)]
  BY DEF Ask, Lock
<1>2. InLine(L) \subseteq Tasks /\ t \notin InLine(L) /\ InLine(K) = InLine(L) \cup {t}
  BY <1>1 DEF InLine, Modes
<1>3. K \in Lock
  BY <1>1, <1>2 DEF Lock, Ask, Modes
<1> HIDE DEF K
<1>4. \A u \in Tasks : K.ahead[u] \subseteq InLine(K) \ {u}
  BY <1>1, <1>2 DEF LockInv
<1>5. \A u, v \in InLine(K) : u # v => u \in K.ahead[v] \/ v \in K.ahead[u]
  BY <1>1, <1>2 DEF LockInv
<1>6. \A u \in Tasks : K.mode[u] = "none" => K.ahead[u] = {}
  BY <1>1 DEF LockInv
<1>7. ASSUME NEW u \in Tasks, u # t, Holds(L, u) PROVE Holds(K, u)
  <2>1. t \notin L.ahead[u]
    BY <1>2 DEF LockInv
  <2>2. K.mode[u] = L.mode[u] /\ K.ahead[u] = L.ahead[u]
    BY <1>1, <1>7
  <2>3. \A w \in L.ahead[u] : K.mode[w] = L.mode[w]
    BY <1>1, <2>1
  <2> QED BY <1>7, <2>2, <2>3 DEF Holds
<1> QED BY <1>1, <1>3, <1>4, <1>5, <1>6, <1>7 DEF LockInv, K

\* Dropping a guard keeps the line well ordered, and takes the lock from nobody else.
LEMMA ReleaseInv ==
    ASSUME NEW L \in Lock, LockInv(L), NEW t \in Tasks
    PROVE  /\ Release(L, t) \in Lock
           /\ LockInv(Release(L, t))
           /\ Release(L, t).mode = [L.mode EXCEPT ![t] = "none"]
           /\ \A u \in Tasks : u # t /\ Holds(L, u) => Holds(Release(L, t), u)
<1> DEFINE K == Release(L, t)
<1>1. /\ L.mode \in [Tasks -> Modes] /\ L.ahead \in [Tasks -> SUBSET Tasks]
      /\ K.mode = [L.mode EXCEPT ![t] = "none"]
      /\ K.ahead = [u \in Tasks |-> IF u = t THEN {} ELSE L.ahead[u] \ {t}]
  BY DEF Release, Lock
<1>2. InLine(K) = InLine(L) \ {t}
  BY <1>1 DEF InLine, Modes
<1>3. K \in Lock
  BY <1>1 DEF Lock, Release, Modes
<1> HIDE DEF K
<1>4. ASSUME NEW u \in Tasks PROVE K.ahead[u] \subseteq InLine(K) \ {u}
  <2>1. L.ahead[u] \subseteq InLine(L) \ {u}
    BY DEF LockInv
  <2>2. K.ahead[u] = {} \/ K.ahead[u] = L.ahead[u] \ {t}
    BY <1>1
  <2> QED BY <1>2, <2>1, <2>2
<1>5. \A u, v \in InLine(K) : u # v => u \in K.ahead[v] \/ v \in K.ahead[u]
  BY <1>1, <1>2 DEF LockInv, InLine
<1>6. \A u \in Tasks : K.mode[u] = "none" => K.ahead[u] = {}
  BY <1>1 DEF LockInv
<1>7. ASSUME NEW u \in Tasks, u # t, Holds(L, u) PROVE Holds(K, u)
  <2>1. K.mode[u] = L.mode[u] /\ K.ahead[u] \subseteq L.ahead[u] /\ t \notin K.ahead[u]
    BY <1>1, <1>7
  <2>2. \A w \in K.ahead[u] : K.mode[w] = L.mode[w]
    BY <1>1, <2>1
  <2> QED BY <1>7, <2>1, <2>2 DEF Holds
<1> QED BY <1>1, <1>3, <1>4, <1>5, <1>6, <1>7 DEF LockInv, K

\* A writer that holds the lock is the only holder.
LEMMA WriterExcludes ==
    ASSUME NEW L \in Lock, LockInv(L), NEW t \in Tasks, NEW u \in Tasks, t # u,
           L.mode[t] = "write", Holds(L, t)
    PROVE  ~Holds(L, u)
<1>1. L.ahead[t] = {} /\ t \in InLine(L)
  BY DEF Holds, InLine
<1>2. CASE L.mode[u] = "none"
  BY <1>2 DEF Holds
<1>3. CASE L.mode[u] # "none"
  <2>1. u \in InLine(L)
    BY <1>3 DEF InLine
  <2>2. t \in L.ahead[u]
    BY <1>1, <2>1 DEF LockInv
  <2> QED BY <2>2 DEF Holds
<1> QED BY <1>2, <1>3

-----------------------------------------------------------------------------
(* What the build accepts. *)

\* The route table compiled from an accepted configuration binds every route
\* to a policy content the builder accepted.
LEMMA CompiledIsGood ==
    ASSUME NEW gw \in Configs, validate_gateway(gw)
    PROVE  /\ compile_routes(gw) \in RouteTables
           /\ \A r \in RouteNames : compile_routes(gw)[r] # Absent
                                       => compile_routes(gw)[r][2] \notin BadVersions
<1>1. ASSUME NEW r \in RouteNames
      PROVE  /\ gw.routes[r] # Absent => /\ gw.routes[r] \in PolicyNames
                                         /\ gw.policies[gw.routes[r]] \in Versions \ BadVersions
  BY DEF Configs, validate_gateway, compile_routes_ok
<1>2. compile_routes(gw) \in RouteTables
  BY <1>1 DEF compile_routes, RouteTables
<1>3. ASSUME NEW r \in RouteNames, compile_routes(gw)[r] # Absent
      PROVE  compile_routes(gw)[r][2] \notin BadVersions
  BY <1>1, <1>3 DEF compile_routes
<1> QED BY <1>2, <1>3

-----------------------------------------------------------------------------
(* One lemma per kind of step. *)

\* The modes a label stands for.
LEMMA ModeTable ==
    /\ \A l \in {"edit", "get", "status_gw"} : GatewayMode(l) = "read"
    /\ \A l \in {"swap_gateway", "swap_routes"} : GatewayMode(l) = "write"
    /\ \A l \in {"idle", "apply", "ask_gateway", "status", "match", "running"} :
          GatewayMode(l) = "none"
    /\ \A l \in {"status", "status_gw", "match"} : RoutesMode(l) = "read"
    /\ RoutesMode("swap_routes") = "write"
    /\ \A l \in {"idle", "edit", "get", "apply", "ask_gateway", "swap_gateway", "running"} :
          RoutesMode(l) = "none"
BY DEF GatewayMode, RoutesMode

\* At most one apply is between its two swaps.
LEMMA OneSwapper ==
    ASSUME Inv, NEW t \in Tasks, NEW u \in Tasks,
           pc[t] = "swap_routes", Holds(gatewayLock, u)
    PROVE  t = u
<1>1. gatewayLock.mode[t] = "write" /\ Holds(gatewayLock, t)
  BY ModeTable DEF Inv, ModesInv, GuardsInv
<1> QED BY <1>1, WriterExcludes DEF Inv, TypeOK

\* Every CRUD handler ends its read section in a refusal or in the commit of
\* a well-formed candidate.
LEMMA EditShape ==
    ASSUME TypeOK, NEW t \in Tasks, Edit(t)
    PROVE  Editing(t) /\ (Refuse(t) \/ \E c \in Configs : Commit(t, c))
<1>1. Editing(t)
  BY DEF Edit, create_route, update_route, delete_route, update_policy,
         delete_policy, create_consumer, upsert_consumer, delete_consumer
<1>2. ASSUME NEW r \in RouteNames, NEW p \in PolicyNames \cup {Absent}
      PROVE  WithRoute(r, p) \in Configs
  BY DEF WithRoute, TypeOK, Configs
<1>3. ASSUME NEW p \in PolicyNames, NEW v \in Versions \cup {Absent}
      PROVE  WithPolicy(p, v) \in Configs
  BY DEF WithPolicy, TypeOK, Configs
<1>4. ASSUME NEW c \in ConsumerNames, NEW k \in Credentials \cup {Absent}
      PROVE  WithConsumer(c, k) \in Configs
  BY DEF WithConsumer, TypeOK, Configs
<1>5. CASE create_route(t) \/ update_route(t) \/ delete_route(t)
  BY <1>1, <1>2, <1>5 DEF create_route, update_route, delete_route
<1>6. CASE update_policy(t) \/ delete_policy(t)
  BY <1>1, <1>3, <1>6 DEF update_policy, delete_policy
<1>7. CASE create_consumer(t) \/ upsert_consumer(t) \/ delete_consumer(t)
  BY <1>1, <1>4, <1>7 DEF create_consumer, upsert_consumer, delete_consumer
<1> QED BY <1>5, <1>6, <1>7 DEF Edit

\* What a step must do to the two locks for the lock part of the invariant to
\* survive it.
LockStep(L, K, t, m) ==
    /\ K \in Lock
    /\ LockInv(K)
    /\ K.mode = [L.mode EXCEPT ![t] = m]
    /\ \A u \in Tasks : u # t /\ Holds(L, u) => Holds(K, u)

\* Moving one task, with its locks, keeps the lock part of the invariant.
LEMMA MoveTask ==
    ASSUME Inv, NEW t \in Tasks, NEW label \in PC, Goto(t, label),
           LockStep(gatewayLock, gatewayLock', t, GatewayMode(label)),
           LockStep(routesLock, routesLock', t, RoutesMode(label)),
           label = "swap_routes" => Holds(gatewayLock', t),
           label = "status_gw" => Holds(routesLock', t)
    PROVE  /\ pc' \in [Tasks -> PC]
           /\ pc'[t] = label /\ \A u \in Tasks : u # t => pc'[u] = pc[u]
           /\ gatewayLock' \in Lock /\ LockInv(gatewayLock)'
           /\ routesLock' \in Lock /\ LockInv(routesLock)'
           /\ ModesInv' /\ GuardsInv'
<1>1. /\ pc' \in [Tasks -> PC] /\ pc'[t] = label
      /\ \A u \in Tasks : u # t => pc'[u] = pc[u]
  BY DEF Goto, Inv, TypeOK
<1>2. /\ gatewayLock' \in Lock /\ LockInv(gatewayLock)'
      /\ routesLock' \in Lock /\ LockInv(routesLock)'
  BY DEF LockStep
<1>3. ASSUME NEW u \in Tasks
      PROVE  gatewayLock'.mode[u] = GatewayMode(pc'[u]) /\ routesLock'.mode[u] = RoutesMode(pc'[u])
  <2>1. gatewayLock.mode \in [Tasks -> Modes] /\ routesLock.mode \in [Tasks -> Modes]
    BY DEF Inv, TypeOK, Lock
  <2> QED BY <1>1, <2>1 DEF LockStep, Inv, ModesInv
<1>4. ASSUME NEW u \in Tasks
      PROVE  /\ pc'[u] = "swap_routes" => Holds(gatewayLock', u)
             /\ pc'[u] = "status_gw" => Holds(routesLock', u)
  BY <1>1 DEF LockStep, Inv, GuardsInv
<1> QED BY <1>1, <1>2, <1>3, <1>4 DEF ModesInv, GuardsInv

\* A lock the step leaves alone.
LEMMA SameLock ==
    ASSUME NEW L \in Lock, LockInv(L), NEW t \in Tasks, NEW K, K = L, NEW m, L.mode[t] = m
    PROVE  LockStep(L, K, t, m)
BY DEF LockStep, Lock

\* A lock the step asks for.
LEMMA AskStep ==
    ASSUME NEW L \in Lock, LockInv(L), NEW t \in Tasks, L.mode[t] = "none",
           NEW m \in {"read", "write"}, NEW K, K = Ask(L, t, m)
    PROVE  LockStep(L, K, t, m)
BY AskInv DEF LockStep

\* A lock the step releases.
LEMMA ReleaseStep ==
    ASSUME NEW L \in Lock, LockInv(L), NEW t \in Tasks, NEW K, K = Release(L, t)
    PROVE  LockStep(L, K, t, "none")
BY ReleaseInv DEF LockStep

\* A CRUD handler asks for the gateway lock.
LEMMA BeginEditStep ==
    ASSUME Inv, NEW t \in Tasks, BeginEdit(t)
    PROVE  Inv'
<1>1. /\ pc[t] = "idle"
      /\ gatewayLock \in Lock /\ LockInv(gatewayLock) /\ gatewayLock.mode[t] = GatewayMode(pc[t])
      /\ routesLock \in Lock /\ LockInv(routesLock) /\ routesLock.mode[t] = RoutesMode(pc[t])
  BY DEF BeginEdit, Inv, ModesInv, TypeOK
<1>2. LockStep(gatewayLock, gatewayLock', t, GatewayMode("edit"))
  <2>1. gatewayLock' = Ask(gatewayLock, t, "read") /\ gatewayLock.mode[t] = "none"
    BY <1>1, ModeTable DEF BeginEdit
  <2>2. GatewayMode("edit") = "read"
    BY ModeTable
  <2> QED BY <1>1, <2>1, <2>2, AskStep
<1>3. LockStep(routesLock, routesLock', t, RoutesMode("edit"))
  <2>1. routesLock' = routesLock /\ RoutesMode("edit") = RoutesMode(pc[t])
    BY <1>1, ModeTable DEF BeginEdit, locks
  <2> QED BY <1>1, <2>1, SameLock
<1>4. /\ pc' \in [Tasks -> PC]
      /\ pc'[t] = "edit" /\ \A u \in Tasks : u # t => pc'[u] = pc[u]
      /\ gatewayLock' \in Lock /\ LockInv(gatewayLock)'
      /\ routesLock' \in Lock /\ LockInv(routesLock)'
      /\ ModesInv' /\ GuardsInv'
  <2>1. Goto(t, "edit") /\ "edit" \in PC
    BY DEF BeginEdit, PC
  <2> QED BY <1>2, <1>3, <2>1, MoveTask
<1>5. TypeOK'
  BY <1>1, <1>4 DEF BeginEdit, data, locks, Inv, TypeOK
<1>6. CarriedInv'
  BY <1>1, <1>4 DEF BeginEdit, data, locks, Inv, CarriedInv, TypeOK
<1>7. RoutesInv'
  BY <1>1, <1>4 DEF BeginEdit, data, locks, Inv, RoutesInv
<1>8. LastGood'
  BY DEF BeginEdit, data, locks, Inv, LastGood
<1> QED BY <1>4, <1>5, <1>6, <1>7, <1>8 DEF Inv

\* A read-only handler asks for the gateway lock.
LEMMA BeginGetStep ==
    ASSUME Inv, NEW t \in Tasks, BeginGet(t)
    PROVE  Inv'
<1>1. /\ pc[t] = "idle"
      /\ gatewayLock \in Lock /\ LockInv(gatewayLock) /\ gatewayLock.mode[t] = GatewayMode(pc[t])
      /\ routesLock \in Lock /\ LockInv(routesLock) /\ routesLock.mode[t] = RoutesMode(pc[t])
  BY DEF BeginGet, Inv, ModesInv, TypeOK
<1>2. LockStep(gatewayLock, gatewayLock', t, GatewayMode("get"))
  <2>1. gatewayLock' = Ask(gatewayLock, t, "read") /\ gatewayLock.mode[t] = "none"
    BY <1>1, ModeTable DEF BeginGet
  <2>2. GatewayMode("get") = "read"
    BY ModeTable
  <2> QED BY <1>1, <2>1, <2>2, AskStep
<1>3. LockStep(routesLock, routesLock', t, RoutesMode("get"))
  <2>1. routesLock' = routesLock /\ RoutesMode("get") = RoutesMode(pc[t])
    BY <1>1, ModeTable DEF BeginGet, locks
  <2> QED BY <1>1, <2>1, SameLock
<1>4. /\ pc' \in [Tasks -> PC]
      /\ pc'[t] = "get" /\ \A u \in Tasks : u # t => pc'[u] = pc[u]
      /\ gatewayLock' \in Lock /\ LockInv(gatewayLock)'
      /\ routesLock' \in Lock /\ LockInv(routesLock)'
      /\ ModesInv' /\ GuardsInv'
  <2>1. Goto(t, "get") /\ "get" \in PC
    BY DEF BeginGet, PC
  <2> QED BY <1>2, <1>3, <2>1, MoveTask
<1>5. TypeOK'
  BY <1>1, <1>4 DEF BeginGet, data, locks, Inv, TypeOK
<1>6. CarriedInv'
  BY <1>1, <1>4 DEF BeginGet, data, locks, Inv, CarriedInv, TypeOK
<1>7. RoutesInv'
  BY <1>1, <1>4 DEF BeginGet, data, locks, Inv, RoutesInv
<1>8. LastGood'
  BY DEF BeginGet, data, locks, Inv, LastGood
<1> QED BY <1>4, <1>5, <1>6, <1>7, <1>8 DEF Inv

\* A read-only handler answers.
LEMMA GetStep ==
    ASSUME Inv, NEW t \in Tasks, Get(t)
    PROVE  Inv'
<1>1. /\ pc[t] = "get"
      /\ gatewayLock \in Lock /\ LockInv(gatewayLock) /\ gatewayLock.mode[t] = GatewayMode(pc[t])
      /\ routesLock \in Lock /\ LockInv(routesLock) /\ routesLock.mode[t] = RoutesMode(pc[t])
  BY DEF Get, Inv, ModesInv, TypeOK
<1>2. LockStep(gatewayLock, gatewayLock', t, GatewayMode("idle"))
  <2>1. gatewayLock' = Release(gatewayLock, t) /\ GatewayMode("idle") = "none"
    BY <1>1, ModeTable DEF Get
  <2> QED BY <1>1, <2>1, ReleaseStep
<1>3. LockStep(routesLock, routesLock', t, RoutesMode("idle"))
  <2>1. routesLock' = routesLock /\ RoutesMode("idle") = RoutesMode(pc[t])
    BY <1>1, ModeTable DEF Get, locks
  <2> QED BY <1>1, <2>1, SameLock
<1>4. /\ pc' \in [Tasks -> PC]
      /\ pc'[t] = "idle" /\ \A u \in Tasks : u # t => pc'[u] = pc[u]
      /\ gatewayLock' \in Lock /\ LockInv(gatewayLock)'
      /\ routesLock' \in Lock /\ LockInv(routesLock)'
      /\ ModesInv' /\ GuardsInv'
  <2>1. Goto(t, "idle") /\ "idle" \in PC
    BY DEF Get, PC
  <2> QED BY <1>2, <1>3, <2>1, MoveTask
<1>5. TypeOK'
  BY <1>1, <1>4 DEF Get, data, locks, Inv, TypeOK
<1>6. CarriedInv'
  BY <1>1, <1>4 DEF Get, data, locks, Inv, CarriedInv, TypeOK
<1>7. RoutesInv'
  BY <1>1, <1>4 DEF Get, data, locks, Inv, RoutesInv
<1>8. LastGood'
  BY DEF Get, data, locks, Inv, LastGood
<1> QED BY <1>4, <1>5, <1>6, <1>7, <1>8 DEF Inv

\* A CRUD handler refuses.
LEMMA RefuseStep ==
    ASSUME Inv, NEW t \in Tasks, Editing(t), Refuse(t)
    PROVE  Inv'
<1>1. /\ pc[t] = "edit"
      /\ gatewayLock \in Lock /\ LockInv(gatewayLock) /\ gatewayLock.mode[t] = GatewayMode(pc[t])
      /\ routesLock \in Lock /\ LockInv(routesLock) /\ routesLock.mode[t] = RoutesMode(pc[t])
  BY DEF Editing, Inv, ModesInv, TypeOK
<1>2. LockStep(gatewayLock, gatewayLock', t, GatewayMode("idle"))
  <2>1. gatewayLock' = Release(gatewayLock, t) /\ GatewayMode("idle") = "none"
    BY <1>1, ModeTable DEF Refuse
  <2> QED BY <1>1, <2>1, ReleaseStep
<1>3. LockStep(routesLock, routesLock', t, RoutesMode("idle"))
  <2>1. routesLock' = routesLock /\ RoutesMode("idle") = RoutesMode(pc[t])
    BY <1>1, ModeTable DEF Refuse, locks
  <2> QED BY <1>1, <2>1, SameLock
<1>4. /\ pc' \in [Tasks -> PC]
      /\ pc'[t] = "idle" /\ \A u \in Tasks : u # t => pc'[u] = pc[u]
      /\ gatewayLock' \in Lock /\ LockInv(gatewayLock)'
      /\ routesLock' \in Lock /\ LockInv(routesLock)'
      /\ ModesInv' /\ GuardsInv'
  <2>1. Goto(t, "idle") /\ "idle" \in PC
    BY DEF Refuse, PC
  <2> QED BY <1>2, <1>3, <2>1, MoveTask
<1>5. TypeOK'
  BY <1>1, <1>4 DEF Refuse, data, locks, Inv, TypeOK
<1>6. CarriedInv'
  BY <1>1, <1>4 DEF Refuse, data, locks, Inv, CarriedInv, TypeOK
<1>7. RoutesInv'
  BY <1>1, <1>4 DEF Refuse, data, locks, Inv, RoutesInv
<1>8. LastGood'
  BY DEF Refuse, data, locks, Inv, LastGood
<1> QED BY <1>4, <1>5, <1>6, <1>7, <1>8 DEF Inv

\* A CRUD handler commits its candidate.
LEMMA CommitStep ==
    ASSUME Inv, NEW t \in Tasks, Editing(t), NEW c \in Configs, Commit(t, c)
    PROVE  Inv'
<1>1. /\ pc[t] = "edit"
      /\ gatewayLock \in Lock /\ LockInv(gatewayLock) /\ gatewayLock.mode[t] = GatewayMode(pc[t])
      /\ routesLock \in Lock /\ LockInv(routesLock) /\ routesLock.mode[t] = RoutesMode(pc[t])
  BY DEF Editing, Inv, ModesInv, TypeOK
<1>2. LockStep(gatewayLock, gatewayLock', t, GatewayMode("apply"))
  <2>1. gatewayLock' = Release(gatewayLock, t) /\ GatewayMode("apply") = "none"
    BY <1>1, ModeTable DEF Commit
  <2> QED BY <1>1, <2>1, ReleaseStep
<1>3. LockStep(routesLock, routesLock', t, RoutesMode("apply"))
  <2>1. routesLock' = routesLock /\ RoutesMode("apply") = RoutesMode(pc[t])
    BY <1>1, ModeTable DEF Commit, locks
  <2> QED BY <1>1, <2>1, SameLock
<1>4. /\ pc' \in [Tasks -> PC]
      /\ pc'[t] = "apply" /\ \A u \in Tasks : u # t => pc'[u] = pc[u]
      /\ gatewayLock' \in Lock /\ LockInv(gatewayLock)'
      /\ routesLock' \in Lock /\ LockInv(routesLock)'
      /\ ModesInv' /\ GuardsInv'
  <2>1. Goto(t, "apply") /\ "apply" \in PC
    BY DEF Commit, PC
  <2> QED BY <1>2, <1>3, <2>1, MoveTask
<1>5. TypeOK'
  BY <1>1, <1>4 DEF Commit, data, locks, Inv, TypeOK
<1>6. CarriedInv'
  BY <1>1, <1>4 DEF Commit, data, locks, Inv, CarriedInv, TypeOK
<1>7. RoutesInv'
  BY <1>1, <1>4 DEF Commit, data, locks, Inv, RoutesInv
<1>8. LastGood'
  BY DEF Commit, data, locks, Inv, LastGood
<1> QED BY <1>4, <1>5, <1>6, <1>7, <1>8 DEF Inv

\* A reload has read gateway.yaml.
LEMMA ReloadStep ==
    ASSUME Inv, NEW t \in Tasks, reload_from_disk(t)
    PROVE  Inv'
<1>1. /\ pc[t] = "idle"
      /\ gatewayLock \in Lock /\ LockInv(gatewayLock) /\ gatewayLock.mode[t] = GatewayMode(pc[t])
      /\ routesLock \in Lock /\ LockInv(routesLock) /\ routesLock.mode[t] = RoutesMode(pc[t])
  BY DEF reload_from_disk, Inv, ModesInv, TypeOK
<1>2. LockStep(gatewayLock, gatewayLock', t, GatewayMode("apply"))
  <2>1. gatewayLock' = gatewayLock /\ GatewayMode("apply") = GatewayMode(pc[t])
    BY <1>1, ModeTable DEF reload_from_disk, locks
  <2> QED BY <1>1, <2>1, SameLock
<1>3. LockStep(routesLock, routesLock', t, RoutesMode("apply"))
  <2>1. routesLock' = routesLock /\ RoutesMode("apply") = RoutesMode(pc[t])
    BY <1>1, ModeTable DEF reload_from_disk, locks
  <2> QED BY <1>1, <2>1, SameLock
<1>4. /\ pc' \in [Tasks -> PC]
      /\ pc'[t] = "apply" /\ \A u \in Tasks : u # t => pc'[u] = pc[u]
      /\ gatewayLock' \in Lock /\ LockInv(gatewayLock)'
      /\ routesLock' \in Lock /\ LockInv(routesLock)'
      /\ ModesInv' /\ GuardsInv'
  <2>1. Goto(t, "apply") /\ "apply" \in PC
    BY DEF reload_from_disk, PC
  <2> QED BY <1>2, <1>3, <2>1, MoveTask
<1>5. TypeOK'
  BY ConfigAssumption, <1>1, <1>4 DEF reload_from_disk, data, locks, Inv, TypeOK
<1>6. CarriedInv'
  BY ConfigAssumption, <1>1, <1>4 DEF reload_from_disk, data, locks, Inv, CarriedInv, TypeOK
<1>7. RoutesInv'
  BY <1>1, <1>4 DEF reload_from_disk, data, locks, Inv, RoutesInv
<1>8. LastGood'
  BY DEF reload_from_disk, data, locks, Inv, LastGood
<1> QED BY <1>4, <1>5, <1>6, <1>7, <1>8 DEF Inv

\* A candidate is rejected.
LEMMA ApplyRejectedStep ==
    ASSUME Inv, NEW t \in Tasks, ApplyRejected(t)
    PROVE  Inv'
<1>1. /\ pc[t] = "apply"
      /\ gatewayLock \in Lock /\ LockInv(gatewayLock) /\ gatewayLock.mode[t] = GatewayMode(pc[t])
      /\ routesLock \in Lock /\ LockInv(routesLock) /\ routesLock.mode[t] = RoutesMode(pc[t])
  BY DEF ApplyRejected, Inv, ModesInv, TypeOK
<1>2. LockStep(gatewayLock, gatewayLock', t, GatewayMode("idle"))
  <2>1. gatewayLock' = gatewayLock /\ GatewayMode("idle") = GatewayMode(pc[t])
    BY <1>1, ModeTable DEF ApplyRejected, locks
  <2> QED BY <1>1, <2>1, SameLock
<1>3. LockStep(routesLock, routesLock', t, RoutesMode("idle"))
  <2>1. routesLock' = routesLock /\ RoutesMode("idle") = RoutesMode(pc[t])
    BY <1>1, ModeTable DEF ApplyRejected, locks
  <2> QED BY <1>1, <2>1, SameLock
<1>4. /\ pc' \in [Tasks -> PC]
      /\ pc'[t] = "idle" /\ \A u \in Tasks : u # t => pc'[u] = pc[u]
      /\ gatewayLock' \in Lock /\ LockInv(gatewayLock)'
      /\ routesLock' \in Lock /\ LockInv(routesLock)'
      /\ ModesInv' /\ GuardsInv'
  <2>1. Goto(t, "idle") /\ "idle" \in PC
    BY DEF ApplyRejected, PC
  <2> QED BY <1>2, <1>3, <2>1, MoveTask
<1>5. TypeOK'
  BY <1>1, <1>4 DEF ApplyRejected, data, locks, Inv, TypeOK
<1>6. CarriedInv'
  BY <1>1, <1>4 DEF ApplyRejected, data, locks, Inv, CarriedInv, TypeOK
<1>7. RoutesInv'
  BY <1>1, <1>4 DEF ApplyRejected, data, locks, Inv, RoutesInv
<1>8. LastGood'
  BY DEF ApplyRejected, data, locks, Inv, LastGood
<1> QED BY <1>4, <1>5, <1>6, <1>7, <1>8 DEF Inv

\* The consumer store is swapped.
LEMMA ApplyConsumersStep ==
    ASSUME Inv, NEW t \in Tasks, ApplyConsumers(t)
    PROVE  Inv'
<1>1. /\ pc[t] = "apply"
      /\ gatewayLock \in Lock /\ LockInv(gatewayLock) /\ gatewayLock.mode[t] = GatewayMode(pc[t])
      /\ routesLock \in Lock /\ LockInv(routesLock) /\ routesLock.mode[t] = RoutesMode(pc[t])
  BY DEF ApplyConsumers, Inv, ModesInv, TypeOK
<1>2. LockStep(gatewayLock, gatewayLock', t, GatewayMode("ask_gateway"))
  <2>1. gatewayLock' = gatewayLock /\ GatewayMode("ask_gateway") = GatewayMode(pc[t])
    BY <1>1, ModeTable DEF ApplyConsumers, locks
  <2> QED BY <1>1, <2>1, SameLock
<1>3. LockStep(routesLock, routesLock', t, RoutesMode("ask_gateway"))
  <2>1. routesLock' = routesLock /\ RoutesMode("ask_gateway") = RoutesMode(pc[t])
    BY <1>1, ModeTable DEF ApplyConsumers, locks
  <2> QED BY <1>1, <2>1, SameLock
<1>4. /\ pc' \in [Tasks -> PC]
      /\ pc'[t] = "ask_gateway" /\ \A u \in Tasks : u # t => pc'[u] = pc[u]
      /\ gatewayLock' \in Lock /\ LockInv(gatewayLock)'
      /\ routesLock' \in Lock /\ LockInv(routesLock)'
      /\ ModesInv' /\ GuardsInv'
  <2>1. Goto(t, "ask_gateway") /\ "ask_gateway" \in PC
    BY DEF ApplyConsumers, PC
  <2> QED BY <1>2, <1>3, <2>1, MoveTask
<1>5. TypeOK'
  BY <1>1, <1>4 DEF CarriedInv, Configs, ApplyConsumers, data, locks, Inv, TypeOK
<1>6. CarriedInv'
  BY <1>1, <1>4 DEF ApplyConsumers, data, locks, Inv, CarriedInv, TypeOK
<1>7. RoutesInv'
  BY <1>1, <1>4 DEF ApplyConsumers, data, locks, Inv, RoutesInv
<1>8. LastGood'
  BY <1>1 DEF ApplyConsumers, Inv, CarriedInv, LastGood, validate_gateway
<1> QED BY <1>4, <1>5, <1>6, <1>7, <1>8 DEF Inv

\* The apply asks for the gateway lock.
LEMMA ApplyAskGatewayStep ==
    ASSUME Inv, NEW t \in Tasks, ApplyAskGateway(t)
    PROVE  Inv'
<1>1. /\ pc[t] = "ask_gateway"
      /\ gatewayLock \in Lock /\ LockInv(gatewayLock) /\ gatewayLock.mode[t] = GatewayMode(pc[t])
      /\ routesLock \in Lock /\ LockInv(routesLock) /\ routesLock.mode[t] = RoutesMode(pc[t])
  BY DEF ApplyAskGateway, Inv, ModesInv, TypeOK
<1>2. LockStep(gatewayLock, gatewayLock', t, GatewayMode("swap_gateway"))
  <2>1. gatewayLock' = Ask(gatewayLock, t, "write") /\ gatewayLock.mode[t] = "none"
    BY <1>1, ModeTable DEF ApplyAskGateway
  <2>2. GatewayMode("swap_gateway") = "write"
    BY ModeTable
  <2> QED BY <1>1, <2>1, <2>2, AskStep
<1>3. LockStep(routesLock, routesLock', t, RoutesMode("swap_gateway"))
  <2>1. routesLock' = routesLock /\ RoutesMode("swap_gateway") = RoutesMode(pc[t])
    BY <1>1, ModeTable DEF ApplyAskGateway, locks
  <2> QED BY <1>1, <2>1, SameLock
<1>4. /\ pc' \in [Tasks -> PC]
      /\ pc'[t] = "swap_gateway" /\ \A u \in Tasks : u # t => pc'[u] = pc[u]
      /\ gatewayLock' \in Lock /\ LockInv(gatewayLock)'
      /\ routesLock' \in Lock /\ LockInv(routesLock)'
      /\ ModesInv' /\ GuardsInv'
  <2>1. Goto(t, "swap_gateway") /\ "swap_gateway" \in PC
    BY DEF ApplyAskGateway, PC
  <2> QED BY <1>2, <1>3, <2>1, MoveTask
<1>5. TypeOK'
  BY <1>1, <1>4 DEF ApplyAskGateway, data, locks, Inv, TypeOK
<1>6. CarriedInv'
  BY <1>1, <1>4 DEF ApplyAskGateway, data, locks, Inv, CarriedInv, TypeOK
<1>7. RoutesInv'
  BY <1>1, <1>4 DEF ApplyAskGateway, data, locks, Inv, RoutesInv
<1>8. LastGood'
  BY DEF ApplyAskGateway, data, locks, Inv, LastGood
<1> QED BY <1>4, <1>5, <1>6, <1>7, <1>8 DEF Inv

\* The gateway configuration is swapped.
LEMMA ApplyGatewayStep ==
    ASSUME Inv, NEW t \in Tasks, ApplyGateway(t)
    PROVE  Inv'
<1>1. /\ pc[t] = "swap_gateway"
      /\ gatewayLock \in Lock /\ LockInv(gatewayLock) /\ gatewayLock.mode[t] = GatewayMode(pc[t])
      /\ routesLock \in Lock /\ LockInv(routesLock) /\ routesLock.mode[t] = RoutesMode(pc[t])
  BY DEF ApplyGateway, Inv, ModesInv, TypeOK
<1>2. LockStep(gatewayLock, gatewayLock', t, GatewayMode("swap_routes"))
  <2>1. gatewayLock' = gatewayLock /\ GatewayMode("swap_routes") = GatewayMode(pc[t])
    BY <1>1, ModeTable DEF ApplyGateway, locks
  <2> QED BY <1>1, <2>1, SameLock
<1>3. LockStep(routesLock, routesLock', t, RoutesMode("swap_routes"))
  <2>1. routesLock' = Ask(routesLock, t, "write") /\ routesLock.mode[t] = "none"
    BY <1>1, ModeTable DEF ApplyGateway
  <2>2. RoutesMode("swap_routes") = "write"
    BY ModeTable
  <2> QED BY <1>1, <2>1, <2>2, AskStep
<1>9. Holds(gatewayLock', t) /\ \A u \in Tasks : pc[u] # "swap_routes"
  BY <1>1, OneSwapper DEF ApplyGateway
<1>4. /\ pc' \in [Tasks -> PC]
      /\ pc'[t] = "swap_routes" /\ \A u \in Tasks : u # t => pc'[u] = pc[u]
      /\ gatewayLock' \in Lock /\ LockInv(gatewayLock)'
      /\ routesLock' \in Lock /\ LockInv(routesLock)'
      /\ ModesInv' /\ GuardsInv'
  <2>1. Goto(t, "swap_routes") /\ "swap_routes" \in PC
    BY DEF ApplyGateway, PC
  <2> QED BY <1>2, <1>3, <1>9, <2>1, MoveTask
<1>5. TypeOK'
  BY <1>1, <1>4 DEF CarriedInv, ApplyGateway, data, locks, Inv, TypeOK
<1>6. CarriedInv'
  BY <1>1, <1>4, <1>9 DEF ApplyGateway, Inv, CarriedInv, TypeOK
<1>7. RoutesInv'
  BY <1>4 DEF RoutesInv
<1>8. LastGood'
  BY <1>1 DEF ApplyGateway, Inv, CarriedInv, LastGood
<1> QED BY <1>4, <1>5, <1>6, <1>7, <1>8 DEF Inv

\* The route table is swapped.
LEMMA ApplyRoutesStep ==
    ASSUME Inv, NEW t \in Tasks, ApplyRoutes(t)
    PROVE  Inv'
<1>1. /\ pc[t] = "swap_routes"
      /\ gatewayLock \in Lock /\ LockInv(gatewayLock) /\ gatewayLock.mode[t] = GatewayMode(pc[t])
      /\ routesLock \in Lock /\ LockInv(routesLock) /\ routesLock.mode[t] = RoutesMode(pc[t])
  BY DEF ApplyRoutes, Inv, ModesInv, TypeOK
<1>2. LockStep(gatewayLock, gatewayLock', t, GatewayMode("idle"))
  <2>1. gatewayLock' = Release(gatewayLock, t) /\ GatewayMode("idle") = "none"
    BY <1>1, ModeTable DEF ApplyRoutes
  <2> QED BY <1>1, <2>1, ReleaseStep
<1>3. LockStep(routesLock, routesLock', t, RoutesMode("idle"))
  <2>1. routesLock' = Release(routesLock, t) /\ RoutesMode("idle") = "none"
    BY <1>1, ModeTable DEF ApplyRoutes
  <2> QED BY <1>1, <2>1, ReleaseStep
<1>9. cand[t] \in Configs /\ validate_gateway(cand[t]) /\ gateway = cand[t]
  BY <1>1 DEF Inv, CarriedInv
<1>10. \A u \in Tasks : u # t => pc[u] # "swap_routes" /\ pc[u] # "status_gw"
  <2>1. Holds(gatewayLock, t) /\ Holds(routesLock, t) /\ routesLock.mode[t] = "write"
    BY <1>1, ModeTable DEF ApplyRoutes, Inv, GuardsInv
  <2>2. \A u \in Tasks : u # t => ~Holds(gatewayLock, u) /\ ~Holds(routesLock, u)
    BY <1>1, <2>1, ModeTable, WriterExcludes DEF Inv, TypeOK
  <2> QED BY <2>2 DEF Inv, GuardsInv
<1>4. /\ pc' \in [Tasks -> PC]
      /\ pc'[t] = "idle" /\ \A u \in Tasks : u # t => pc'[u] = pc[u]
      /\ gatewayLock' \in Lock /\ LockInv(gatewayLock)'
      /\ routesLock' \in Lock /\ LockInv(routesLock)'
      /\ ModesInv' /\ GuardsInv'
  <2>1. Goto(t, "idle") /\ "idle" \in PC
    BY DEF ApplyRoutes, PC
  <2> QED BY <1>2, <1>3, <2>1, MoveTask
<1>5. TypeOK'
  BY <1>4, <1>9, CompiledIsGood DEF ApplyRoutes, Inv, TypeOK
<1>6. CarriedInv'
  BY <1>4, <1>9, <1>10 DEF ApplyRoutes, Inv, CarriedInv, TypeOK
<1>7. RoutesInv'
  BY <1>9 DEF ApplyRoutes, RoutesInv
<1>8. LastGood'
  BY <1>9, CompiledIsGood DEF ApplyRoutes, Inv, LastGood
<1> QED BY <1>4, <1>5, <1>6, <1>7, <1>8 DEF Inv

\* The status handler asks for the route table.
LEMMA BeginStatusStep ==
    ASSUME Inv, NEW t \in Tasks, BeginStatus(t)
    PROVE  Inv'
<1>1. /\ pc[t] = "idle"
      /\ gatewayLock \in Lock /\ LockInv(gatewayLock) /\ gatewayLock.mode[t] = GatewayMode(pc[t])
      /\ routesLock \in Lock /\ LockInv(routesLock) /\ routesLock.mode[t] = RoutesMode(pc[t])
  BY DEF BeginStatus, Inv, ModesInv, TypeOK
<1>2. LockStep(gatewayLock, gatewayLock', t, GatewayMode("status"))
  <2>1. gatewayLock' = gatewayLock /\ GatewayMode("status") = GatewayMode(pc[t])
    BY <1>1, ModeTable DEF BeginStatus, locks
  <2> QED BY <1>1, <2>1, SameLock
<1>3. LockStep(routesLock, routesLock', t, RoutesMode("status"))
  <2>1. routesLock' = Ask(routesLock, t, "read") /\ routesLock.mode[t] = "none"
    BY <1>1, ModeTable DEF BeginStatus
  <2>2. RoutesMode("status") = "read"
    BY ModeTable
  <2> QED BY <1>1, <2>1, <2>2, AskStep
<1>4. /\ pc' \in [Tasks -> PC]
      /\ pc'[t] = "status" /\ \A u \in Tasks : u # t => pc'[u] = pc[u]
      /\ gatewayLock' \in Lock /\ LockInv(gatewayLock)'
      /\ routesLock' \in Lock /\ LockInv(routesLock)'
      /\ ModesInv' /\ GuardsInv'
  <2>1. Goto(t, "status") /\ "status" \in PC
    BY DEF BeginStatus, PC
  <2> QED BY <1>2, <1>3, <2>1, MoveTask
<1>5. TypeOK'
  BY <1>1, <1>4 DEF BeginStatus, data, locks, Inv, TypeOK
<1>6. CarriedInv'
  BY <1>1, <1>4 DEF BeginStatus, data, locks, Inv, CarriedInv, TypeOK
<1>7. RoutesInv'
  BY <1>1, <1>4 DEF BeginStatus, data, locks, Inv, RoutesInv
<1>8. LastGood'
  BY DEF BeginStatus, data, locks, Inv, LastGood
<1> QED BY <1>4, <1>5, <1>6, <1>7, <1>8 DEF Inv

\* The status handler reads the route table.
LEMMA StatusRoutesStep ==
    ASSUME Inv, NEW t \in Tasks, StatusRoutes(t)
    PROVE  Inv'
<1>1. /\ pc[t] = "status"
      /\ gatewayLock \in Lock /\ LockInv(gatewayLock) /\ gatewayLock.mode[t] = GatewayMode(pc[t])
      /\ routesLock \in Lock /\ LockInv(routesLock) /\ routesLock.mode[t] = RoutesMode(pc[t])
  BY DEF StatusRoutes, Inv, ModesInv, TypeOK
<1>2. LockStep(gatewayLock, gatewayLock', t, GatewayMode("status_gw"))
  <2>1. gatewayLock' = Ask(gatewayLock, t, "read") /\ gatewayLock.mode[t] = "none"
    BY <1>1, ModeTable DEF StatusRoutes
  <2>2. GatewayMode("status_gw") = "read"
    BY ModeTable
  <2> QED BY <1>1, <2>1, <2>2, AskStep
<1>3. LockStep(routesLock, routesLock', t, RoutesMode("status_gw"))
  <2>1. routesLock' = routesLock /\ RoutesMode("status_gw") = RoutesMode(pc[t])
    BY <1>1, ModeTable DEF StatusRoutes, locks
  <2> QED BY <1>1, <2>1, SameLock
<1>9. Holds(routesLock', t)
  BY DEF StatusRoutes
<1>4. /\ pc' \in [Tasks -> PC]
      /\ pc'[t] = "status_gw" /\ \A u \in Tasks : u # t => pc'[u] = pc[u]
      /\ gatewayLock' \in Lock /\ LockInv(gatewayLock)'
      /\ routesLock' \in Lock /\ LockInv(routesLock)'
      /\ ModesInv' /\ GuardsInv'
  <2>1. Goto(t, "status_gw") /\ "status_gw" \in PC
    BY DEF StatusRoutes, PC
  <2> QED BY <1>2, <1>3, <1>9, <2>1, MoveTask
<1>5. TypeOK'
  BY <1>1, <1>4 DEF StatusRoutes, data, locks, Inv, TypeOK
<1>6. CarriedInv'
  BY <1>1, <1>4 DEF StatusRoutes, data, locks, Inv, CarriedInv, TypeOK
<1>7. RoutesInv'
  BY <1>1, <1>4 DEF StatusRoutes, data, locks, Inv, RoutesInv
<1>8. LastGood'
  BY DEF StatusRoutes, data, locks, Inv, LastGood
<1> QED BY <1>4, <1>5, <1>6, <1>7, <1>8 DEF Inv

\* The status handler answers.
LEMMA StatusGatewayStep ==
    ASSUME Inv, NEW t \in Tasks, StatusGateway(t)
    PROVE  Inv'
<1>1. /\ pc[t] = "status_gw"
      /\ gatewayLock \in Lock /\ LockInv(gatewayLock) /\ gatewayLock.mode[t] = GatewayMode(pc[t])
      /\ routesLock \in Lock /\ LockInv(routesLock) /\ routesLock.mode[t] = RoutesMode(pc[t])
  BY DEF StatusGateway, Inv, ModesInv, TypeOK
<1>2. LockStep(gatewayLock, gatewayLock', t, GatewayMode("idle"))
  <2>1. gatewayLock' = Release(gatewayLock, t) /\ GatewayMode("idle") = "none"
    BY <1>1, ModeTable DEF StatusGateway
  <2> QED BY <1>1, <2>1, ReleaseStep
<1>3. LockStep(routesLock, routesLock', t, RoutesMode("idle"))
  <2>1. routesLock' = Release(routesLock, t) /\ RoutesMode("idle") = "none"
    BY <1>1, ModeTable DEF StatusGateway
  <2> QED BY <1>1, <2>1, ReleaseStep
<1>4. /\ pc' \in [Tasks -> PC]
      /\ pc'[t] = "idle" /\ \A u \in Tasks : u # t => pc'[u] = pc[u]
      /\ gatewayLock' \in Lock /\ LockInv(gatewayLock)'
      /\ routesLock' \in Lock /\ LockInv(routesLock)'
      /\ ModesInv' /\ GuardsInv'
  <2>1. Goto(t, "idle") /\ "idle" \in PC
    BY DEF StatusGateway, PC
  <2> QED BY <1>2, <1>3, <2>1, MoveTask
<1>5. TypeOK'
  BY <1>1, <1>4 DEF StatusGateway, data, locks, Inv, TypeOK
<1>6. CarriedInv'
  BY <1>1, <1>4 DEF StatusGateway, data, locks, Inv, CarriedInv, TypeOK
<1>7. RoutesInv'
  BY <1>1, <1>4 DEF StatusGateway, data, locks, Inv, RoutesInv
<1>8. LastGood'
  BY DEF StatusGateway, data, locks, Inv, LastGood
<1> QED BY <1>4, <1>5, <1>6, <1>7, <1>8 DEF Inv

\* A request asks for the route table.
LEMMA BeginRequestStep ==
    ASSUME Inv, NEW t \in Tasks, BeginRequest(t)
    PROVE  Inv'
<1>1. /\ pc[t] = "idle"
      /\ gatewayLock \in Lock /\ LockInv(gatewayLock) /\ gatewayLock.mode[t] = GatewayMode(pc[t])
      /\ routesLock \in Lock /\ LockInv(routesLock) /\ routesLock.mode[t] = RoutesMode(pc[t])
  BY DEF BeginRequest, Inv, ModesInv, TypeOK
<1>2. LockStep(gatewayLock, gatewayLock', t, GatewayMode("match"))
  <2>1. gatewayLock' = gatewayLock /\ GatewayMode("match") = GatewayMode(pc[t])
    BY <1>1, ModeTable DEF BeginRequest, locks
  <2> QED BY <1>1, <2>1, SameLock
<1>3. LockStep(routesLock, routesLock', t, RoutesMode("match"))
  <2>1. routesLock' = Ask(routesLock, t, "read") /\ routesLock.mode[t] = "none"
    BY <1>1, ModeTable DEF BeginRequest
  <2>2. RoutesMode("match") = "read"
    BY ModeTable
  <2> QED BY <1>1, <2>1, <2>2, AskStep
<1>4. /\ pc' \in [Tasks -> PC]
      /\ pc'[t] = "match" /\ \A u \in Tasks : u # t => pc'[u] = pc[u]
      /\ gatewayLock' \in Lock /\ LockInv(gatewayLock)'
      /\ routesLock' \in Lock /\ LockInv(routesLock)'
      /\ ModesInv' /\ GuardsInv'
  <2>1. Goto(t, "match") /\ "match" \in PC
    BY DEF BeginRequest, PC
  <2> QED BY <1>2, <1>3, <2>1, MoveTask
<1>5. TypeOK'
  BY <1>1, <1>4 DEF BeginRequest, data, locks, Inv, TypeOK
<1>6. CarriedInv'
  BY <1>1, <1>4 DEF BeginRequest, data, locks, Inv, CarriedInv, TypeOK
<1>7. RoutesInv'
  BY <1>1, <1>4 DEF BeginRequest, data, locks, Inv, RoutesInv
<1>8. LastGood'
  BY DEF BeginRequest, data, locks, Inv, LastGood
<1> QED BY <1>4, <1>5, <1>6, <1>7, <1>8 DEF Inv

\* A request ends.
LEMMA EndRequestStep ==
    ASSUME Inv, NEW t \in Tasks, EndRequest(t)
    PROVE  Inv'
<1>1. /\ pc[t] = "running"
      /\ gatewayLock \in Lock /\ LockInv(gatewayLock) /\ gatewayLock.mode[t] = GatewayMode(pc[t])
      /\ routesLock \in Lock /\ LockInv(routesLock) /\ routesLock.mode[t] = RoutesMode(pc[t])
  BY DEF EndRequest, Inv, ModesInv, TypeOK
<1>2. LockStep(gatewayLock, gatewayLock', t, GatewayMode("idle"))
  <2>1. gatewayLock' = gatewayLock /\ GatewayMode("idle") = GatewayMode(pc[t])
    BY <1>1, ModeTable DEF EndRequest, locks
  <2> QED BY <1>1, <2>1, SameLock
<1>3. LockStep(routesLock, routesLock', t, RoutesMode("idle"))
  <2>1. routesLock' = routesLock /\ RoutesMode("idle") = RoutesMode(pc[t])
    BY <1>1, ModeTable DEF EndRequest, locks
  <2> QED BY <1>1, <2>1, SameLock
<1>4. /\ pc' \in [Tasks -> PC]
      /\ pc'[t] = "idle" /\ \A u \in Tasks : u # t => pc'[u] = pc[u]
      /\ gatewayLock' \in Lock /\ LockInv(gatewayLock)'
      /\ routesLock' \in Lock /\ LockInv(routesLock)'
      /\ ModesInv' /\ GuardsInv'
  <2>1. Goto(t, "idle") /\ "idle" \in PC
    BY DEF EndRequest, PC
  <2> QED BY <1>2, <1>3, <2>1, MoveTask
<1>5. TypeOK'
  BY <1>1, <1>4 DEF EndRequest, data, locks, Inv, TypeOK
<1>6. CarriedInv'
  BY <1>1, <1>4 DEF EndRequest, data, locks, Inv, CarriedInv, TypeOK
<1>7. RoutesInv'
  BY <1>1, <1>4 DEF EndRequest, data, locks, Inv, RoutesInv
<1>8. LastGood'
  BY DEF EndRequest, data, locks, Inv, LastGood
<1> QED BY <1>4, <1>5, <1>6, <1>7, <1>8 DEF Inv

\* A request matches, or is answered 404.
LEMMA HandleRequestStep ==
    ASSUME Inv, NEW t \in Tasks, handle_request(t)
    PROVE  Inv'
<1>1. PICK label \in {"running", "idle"} : Goto(t, label)
  BY DEF handle_request
<1>2. /\ pc[t] = "match" /\ gatewayLock.mode[t] = "none" /\ routesLock.mode[t] = "read"
      /\ GatewayMode(label) = "none" /\ RoutesMode(label) = "none" /\ label \in PC
      /\ label # "swap_routes" /\ label # "status_gw"
  BY ModeTable DEF handle_request, Inv, ModesInv, PC
<1>3. LockStep(gatewayLock, gatewayLock', t, GatewayMode(label))
  BY <1>2, SameLock DEF handle_request, Inv, TypeOK
<1>4. LockStep(routesLock, routesLock', t, RoutesMode(label))
  BY <1>2, ReleaseInv DEF handle_request, LockStep, Inv, TypeOK
<1>5. /\ pc' \in [Tasks -> PC]
      /\ pc'[t] = label /\ \A u \in Tasks : u # t => pc'[u] = pc[u]
      /\ gatewayLock' \in Lock /\ LockInv(gatewayLock)'
      /\ routesLock' \in Lock /\ LockInv(routesLock)'
      /\ ModesInv' /\ GuardsInv'
  BY <1>1, <1>2, <1>3, <1>4, MoveTask
<1>6. TypeOK'
  BY <1>5 DEF handle_request, data, Inv, TypeOK
<1>7. CarriedInv'
  BY <1>2, <1>5 DEF handle_request, data, Inv, CarriedInv
<1>8. RoutesInv'
  BY <1>2, <1>5 DEF handle_request, data, Inv, RoutesInv
<1>9. LastGood'
  BY DEF handle_request, data, Inv, LastGood
<1> QED BY <1>5, <1>6, <1>7, <1>8, <1>9 DEF Inv

-----------------------------------------------------------------------------
\* The invariant holds at the start.
LEMMA InitInv == Init => Inv
<1> SUFFICES ASSUME Init PROVE Inv
  OBVIOUS
<1>1. InitialConfig \in Configs /\ validate_gateway(InitialConfig)
  BY ConfigAssumption
<1>2. TypeOK
  BY <1>1, UnlockedInv, CompiledIsGood DEF Init, TypeOK, PC, Configs
<1>3. LockInv(gatewayLock) /\ LockInv(routesLock)
  BY UnlockedInv DEF Init
<1>4. ModesInv
  BY ModeTable DEF Init, ModesInv, Unlocked
<1>5. GuardsInv /\ CarriedInv /\ RoutesInv
  BY DEF Init, GuardsInv, CarriedInv, RoutesInv
<1>6. LastGood
  BY <1>1, CompiledIsGood DEF Init, LastGood, validate_gateway
<1> QED BY <1>2, <1>3, <1>4, <1>5, <1>6 DEF Inv

\* Every step keeps the invariant.
LEMMA NextInv == Inv /\ [Next]_vars => Inv'
<1> SUFFICES ASSUME Inv, [Next]_vars PROVE Inv'
  OBVIOUS
<1>1. CASE UNCHANGED vars
  BY <1>1 DEF vars, Inv, TypeOK, ModesInv, GuardsInv, CarriedInv, RoutesInv, LastGood
<1>2. ASSUME NEW t \in Tasks, Begin(t) PROVE Inv'
  BY <1>2, BeginEditStep, BeginGetStep, ReloadStep, BeginStatusStep, BeginRequestStep DEF Begin
<1>3. ASSUME NEW t \in Tasks, Edit(t) PROVE Inv'
  <2>1. TypeOK
    BY DEF Inv
  <2> QED BY <1>3, <2>1, EditShape, RefuseStep, CommitStep
<1>4. ASSUME NEW t \in Tasks, Progress(t), ~Edit(t) PROVE Inv'
  BY <1>4, GetStep, ApplyRejectedStep, ApplyConsumersStep, ApplyAskGatewayStep,
     ApplyGatewayStep, ApplyRoutesStep, StatusRoutesStep, StatusGatewayStep,
     HandleRequestStep DEF Progress
<1>5. ASSUME NEW t \in Tasks, EndRequest(t) PROVE Inv'
  BY <1>5, EndRequestStep
<1> QED BY <1>1, <1>2, <1>3, <1>4, <1>5 DEF Next

\* The inductive invariant holds in every reachable state.
THEOREM InvAlways == Spec => []Inv
<1> QED BY InitInv, NextInv, PTL DEF Spec

\* Type correctness of the shared state.
THEOREM TypeCorrect == Spec => []TypeOK
<1>1. Inv => TypeOK
  BY DEF Inv
<1> QED BY <1>1, InvAlways, PTL

\* The last-good guarantee of apply_gateway.
THEOREM LastGoodAlways == Spec => []LastGood
<1>1. Inv => LastGood
  BY DEF Inv
<1> QED BY <1>1, InvAlways, PTL

\* Holders of gateway.read() see the configuration the data plane runs.
THEOREM ReadersAlways == Spec => []ReadersSeeRunningConfig
<1>1. Inv => ReadersSeeRunningConfig
  <2> SUFFICES ASSUME Inv, NEW t \in Tasks,
                      gatewayLock.mode[t] = "read", Holds(gatewayLock, t)
               PROVE  routes = compile_routes(gateway)
    BY DEF ReadersSeeRunningConfig
  <2>1. ASSUME NEW u \in Tasks PROVE pc[u] # "swap_routes"
    <3> SUFFICES ASSUME pc[u] = "swap_routes" PROVE FALSE
      OBVIOUS
    <3>1. u = t
      BY OneSwapper
    <3> QED BY <3>1, ModeTable DEF Inv, ModesInv
  <2> QED BY <2>1 DEF Inv, RoutesInv
<1> QED BY <1>1, InvAlways, PTL

\* GET /api/status answers from one configuration.
THEOREM StatusAlways == Spec => []StatusIsOneConfig
<1>1. Inv => StatusIsOneConfig
  <2> SUFFICES ASSUME Inv, NEW t \in Tasks, pc[t] = "status_gw", Holds(gatewayLock, t)
               PROVE  view[t] = compile_routes(gateway)
    BY DEF StatusIsOneConfig
  <2>1. \A u \in Tasks : pc[u] # "swap_routes"
    BY OneSwapper
  <2> QED BY <2>1 DEF Inv, RoutesInv, CarriedInv
<1> QED BY <1>1, InvAlways, PTL

\* The store an apply swapped alone is that of its candidate, and of the
\* gateway configuration once the apply has ended.
LoneInv ==
    lone => /\ \A t, u \in Tasks : Swapping(t) /\ Swapping(u) => t = u
            /\ \A t \in Tasks : Swapping(t) => consumers = cand[t].consumers
            /\ (\A t \in Tasks : ~Swapping(t)) => consumers = gateway.consumers

\* A step that moves no apply into or out of its swaps.
LEMMA LoneKept ==
    ASSUME LoneInv, lone' = lone, consumers' = consumers, gateway' = gateway,
           \A u \in Tasks : Swapping(u)' <=> Swapping(u),
           \A u \in Tasks : Swapping(u) => cand'[u] = cand[u]
    PROVE  LoneInv'
BY DEF LoneInv

\* Every step keeps it.
LEMMA LoneNext == Inv /\ LoneInv /\ [Next]_vars => LoneInv'
<1> SUFFICES ASSUME Inv, LoneInv, [Next]_vars PROVE LoneInv'
  OBVIOUS
<1> USE DEF Inv, TypeOK, Goto, Swapping
<1>1. CASE UNCHANGED vars
  BY <1>1 DEF vars, LoneInv
<1>2. ASSUME NEW t \in Tasks, Begin(t) PROVE LoneInv'
  BY <1>2, LoneKept
     DEF Begin, BeginEdit, BeginGet, reload_from_disk, BeginStatus, BeginRequest, data
<1>3. ASSUME NEW t \in Tasks, Edit(t) PROVE LoneInv'
  BY <1>3, EditShape, LoneKept DEF Editing, Refuse, Commit, data
<1>4. ASSUME NEW t \in Tasks, Get(t) \/ StatusRoutes(t) \/ StatusGateway(t) \/ handle_request(t)
      PROVE  LoneInv'
  BY <1>4, LoneKept DEF Get, StatusRoutes, StatusGateway, handle_request, data
<1>5. ASSUME NEW t \in Tasks, EndRequest(t) \/ ApplyRejected(t) PROVE LoneInv'
  BY <1>5, LoneKept DEF EndRequest, ApplyRejected, data
<1>6. ASSUME NEW t \in Tasks, ApplyAskGateway(t) PROVE LoneInv'
  BY <1>6, LoneKept DEF ApplyAskGateway, data
<1>7. ASSUME NEW t \in Tasks, ApplyConsumers(t) PROVE LoneInv'
  BY <1>7 DEF ApplyConsumers, LoneInv
<1>8. ASSUME NEW t \in Tasks, ApplyGateway(t) PROVE LoneInv'
  BY <1>8 DEF ApplyGateway, LoneInv
<1>9. ASSUME NEW t \in Tasks, ApplyRoutes(t) PROVE LoneInv'
  <2>1. gateway = cand[t]
    BY <1>9 DEF ApplyRoutes, CarriedInv
  <2> QED BY <1>9, <2>1 DEF ApplyRoutes, LoneInv
<1> QED BY <1>1, <1>2, <1>3, <1>4, <1>5, <1>6, <1>7, <1>8, <1>9 DEF Next, Progress

\* Applies that do not overlap never leave the consumers of one candidate
\* beside the routes of another.
THEOREM PiecesAlways == Spec => []PiecesAgree
<1>1. Init => LoneInv
  BY DEF Init, LoneInv, Swapping
<1>2. Inv /\ LoneInv => PiecesAgree
  BY DEF Inv, RoutesInv, LoneInv, PiecesAgree, Swapping
<1> QED BY <1>1, <1>2, LoneNext, InvAlways, PTL DEF Spec
=============================================================================
