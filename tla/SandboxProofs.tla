--------------------------- MODULE SandboxProofs ---------------------------
(***************************************************************************)
(* The walk of the engine, for every policy, and of the sandbox around it. *)
(* Validation protects the walk: for every policy whose endpoints carry no *)
(* dotted node id, the walk never reaches a node that does not exist, and  *)
(* comes back to a node only where validation lets paths meet, whatever    *)
(* fails.  The trace is the path that was walked.                          *)
(***************************************************************************)
EXTENDS Sandbox, WellFoundedInduction, FiniteSetTheorems, SequenceTheorems, TLAPS

\* A non-empty set of indices has a largest one, so that "the last entry
\* wins" names an entry.
LEMMA LastOfMember ==
    ASSUME NEW n \in Nat, NEW S \in SUBSET (1..n), S # {}
    PROVE  LastOf(S) \in S
<1> DEFINE T == {m \in Nat : \E i \in S : m + i = n}
<1>1. T \subseteq Nat /\ T # {}
    <2>1. PICK i \in S : TRUE
        OBVIOUS
    <2>2. i \in 1..n /\ n - i \in Nat /\ (n - i) + i = n
        OBVIOUS
    <2> QED BY <2>2
<1>2. \E x \in T : \A y \in T : ~ (<<y, x>> \in OpToRel(<, Nat))
    <2> HIDE DEF T
    <2> QED BY <1>1, NatLessThanWellFounded, WFMin
<1>3. PICK x \in T : \A y \in T : ~(y < x)
    <2>1. PICK x \in T : \A y \in T : ~ (<<y, x>> \in OpToRel(<, Nat))
        BY <1>2
    <2>2. ASSUME NEW y \in T, y < x PROVE <<y, x>> \in OpToRel(<, Nat)
        BY <1>1, <2>2 DEF OpToRel
    <2> QED BY <2>1, <2>2
<1>4. PICK i \in S : x + i = n
    OBVIOUS
<1>5. \A j \in S : j <= i
    <2> TAKE j \in S
    <2>1. i \in Nat /\ j \in 1..n /\ x \in Nat
        OBVIOUS
    <2>2. n - j \in Nat /\ (n - j) + j = n
        BY <2>1
    <2>3. n - j \in T
        BY <2>2
    <2>4. ~(n - j < x)
        BY <1>3, <2>3
    <2> HIDE DEF T
    <2> QED BY <1>4, <2>1, <2>2, <2>4
<1> QED BY <1>5 DEF LastOf

\* Elements of a sequence have its element type.
LEMMA ElementType ==
    ASSUME NEW S, NEW s \in Seq(S), NEW i \in DOMAIN s
    PROVE  s[i] \in S
OBVIOUS

\* A sequence of length 1 is the tuple of its element.
LEMMA Singleton ==
    ASSUME NEW s \in Seq(Segment), Len(s) = 1
    PROVE  s = <<s[1]>>
OBVIOUS

\* Without a dotted id, the two readings of an endpoint name the same node.
LEMMA ReadingsAgree ==
    ASSUME NEW ep \in Seq(Segment), Len(ep) \in {1, 2}
    PROVE  parse_edge_endpoint(ep).node = FirstSegment(ep)
<1>1. CASE Len(ep) = 1
    <2>1. ep = <<ep[1]>>
        BY <1>1
    <2> QED BY <1>1, <2>1 DEF parse_edge_endpoint, FirstSegment
<1>2. CASE Len(ep) = 2
    <2>1. SubSeq(ep, 1, 1) = <<ep[1]>>
        <3> DEFINE q == SubSeq(ep, 1, 1)
        <3>1. q \in Seq(Segment) /\ Len(q) = 1 /\ q[1] = ep[1]
            BY <1>2
        <3>2. q = <<q[1]>>
            <4> HIDE DEF q
            <4> QED BY <3>1, Singleton
        <3> QED BY <3>1, <3>2
    <2> QED BY <1>2, <2>1 DEF parse_edge_endpoint, FirstSegment
<1> QED BY <1>1, <1>2

\* A compiled edge of a validated policy leads to a node that exists.
LEMMA EdgeTargetExists ==
    ASSUME NEW p, WellFormed(p), Undotted(p), validate_policy(p),
           NEW n, NEW ports, EdgeTarget(p, n, ports) # NoNode
    PROVE  EdgeTarget(p, n, ports) \in NodeIds(p)
<1> DEFINE O == EdgesOut(p, n, ports)
           i == LastOf(O)
<1>1. O # {} /\ EdgeTarget(p, n, ports) = parse_edge_endpoint(p.edges[i].to).node
    BY DEF EdgeTarget
<1>2. PICK k \in Nat : DOMAIN p.edges = 1..k
    <2>1. PICK T : p.edges \in Seq(T)
        BY DEF WellFormed
    <2>2. Len(p.edges) \in Nat /\ DOMAIN p.edges = 1..Len(p.edges)
        BY <2>1, LenProperties
    <2> QED BY <2>2
<1>3. O \in SUBSET (1..k)
    BY <1>2 DEF EdgesOut
<1>4. i \in DOMAIN p.edges
    <2> HIDE DEF O
    <2> QED BY <1>1, <1>2, <1>3, LastOfMember
<1> HIDE DEF O, i
<1>5. p.edges[i].to \in Seq(Segment) /\ Len(p.edges[i].to) \in {1, 2}
    <2>1. p.edges[i] \in [from : Seq(Segment) \ {NoNode}, to : Seq(Segment) \ {NoNode}]
        BY <1>4, ElementType DEF WellFormed
    <2>2. p.edges[i].to \in Seq(Segment)
        BY <2>1
    <2> QED BY <1>4, <2>2 DEF Undotted
<1>6. FirstSegment(p.edges[i].to) \in NodeIds(p)
    BY <1>4 DEF validate_policy, EdgesResolve
<1> QED BY <1>1, <1>5, <1>6, ReadingsAgree

\* The walk starts at a node of the policy.
LEMMA EntryExists ==
    ASSUME NEW p, WellFormed(p), Undotted(p), validate_policy(p)
    PROVE  entry_node_id(p) \in NodeIds(p)
<1> DEFINE L == {i \in DOMAIN p.nodes : p.nodes[i].type = "listener"}
           l == LastOf(L)
<1>1. PICK k \in Nat : DOMAIN p.nodes = 1..k
    BY DEF WellFormed
<1>2. L # {}
    BY DEF validate_policy, HasListener, IdsOfType
<1>3. L \in SUBSET (1..k)
    BY <1>1
<1>4. l \in L
    <2> HIDE DEF L
    <2> QED BY <1>2, <1>3, LastOfMember
<1>5. listener_node_id(p) = p.nodes[l].id
    BY DEF listener_node_id
<1>6. listener_node_id(p) \in NodeIds(p)
    <2>1. l \in DOMAIN p.nodes
        BY <1>4
    <2> HIDE DEF l
    <2> QED BY <1>5, <2>1 DEF NodeIds
<1> QED BY <1>6, EdgeTargetExists DEF entry_node_id, success_edge

-----------------------------------------------------------------------------
(* The ways into a node. *)

\* The endpoints of an edge.
LEMMA EndpointType ==
    ASSUME NEW p, WellFormed(p), NEW i \in DOMAIN p.edges
    PROVE  p.edges[i].from \in Seq(Segment) /\ p.edges[i].to \in Seq(Segment)
<1>1. p.edges[i] \in [from : Seq(Segment) \ {NoNode}, to : Seq(Segment) \ {NoNode}]
    BY ElementType DEF WellFormed
<1> QED BY <1>1

\* An edge of the compiled graph, other than the catch-all, is one of the
\* configured edges.
Leads(p, m, x) == x \in {success_edge(p, m), ErrorTarget(p, m)} \ {NoNode}

LEMMA EdgeBehind ==
    ASSUME NEW p, WellFormed(p), NEW m, NEW x, Leads(p, m, x), x # p.error_handler
    PROVE  \E i \in DOMAIN p.edges : NodeOf(p.edges[i].from) = m /\ NodeOf(p.edges[i].to) = x
<1>1. PICK ports : x = EdgeTarget(p, m, ports)
    BY DEF Leads, success_edge, ErrorTarget, error_edge
<1> DEFINE O == EdgesOut(p, m, ports)
           i == LastOf(O)
<1>2. O # {} /\ x = NodeOf(p.edges[i].to)
    BY <1>1 DEF EdgeTarget, Leads, NodeOf
<1>3. PICK k \in Nat : DOMAIN p.edges = 1..k
    BY DEF WellFormed
<1>4. O \in SUBSET (1..k)
    BY <1>3 DEF EdgesOut
<1>5. i \in O
    <2> HIDE DEF O
    <2> QED BY <1>2, <1>4, LastOfMember
<1> HIDE DEF i
<1>6. i \in DOMAIN p.edges /\ NodeOf(p.edges[i].from) = m
    BY <1>5 DEF EdgesOut, NodeOf
<1> QED BY <1>2, <1>6

\* A node that validation lets have one edge only is entered from one node.
LEMMA OneWayIn ==
    ASSUME NEW p, WellFormed(p), Undotted(p), OneNamePerInput(p), validate_policy(p),
           NEW x, x \notin Rejoined(p), NEW m, NEW n, Leads(p, m, x), Leads(p, n, x)
    PROVE  m = n
<1>1. x # p.error_handler /\ x \notin IdsOfType(p, "client") \cup IdsOfType(p, "error-handler")
    BY DEF Rejoined
<1>2. PICK i \in DOMAIN p.edges : NodeOf(p.edges[i].from) = m /\ NodeOf(p.edges[i].to) = x
    BY <1>1, EdgeBehind
<1>3. PICK j \in DOMAIN p.edges : NodeOf(p.edges[j].from) = n /\ NodeOf(p.edges[j].to) = x
    BY <1>1, EdgeBehind
<1>4. p.edges[i].to = p.edges[j].to
    BY <1>2, <1>3 DEF OneNamePerInput
<1>5. FirstSegment(p.edges[i].to) = x
    BY <1>2, EndpointType, ReadingsAgree DEF Undotted, NodeOf
<1>6. i = j
    BY <1>1, <1>4, <1>5 DEF validate_policy, OneEdgePerInput
<1> QED BY <1>2, <1>3, <1>6

\* The entry, unless it is shared, is entered from the listener.
LEMMA EntryFromListener ==
    ASSUME NEW p, WellFormed(p), Undotted(p), OneNamePerInput(p), validate_policy(p),
           entry_node_id(p) \notin Rejoined(p), NEW m, Leads(p, m, entry_node_id(p))
    PROVE  m \in Rejoined(p)
<1> DEFINE L == {i \in DOMAIN p.nodes : p.nodes[i].type = "listener"}
           l == LastOf(L)
<1>1. PICK k \in Nat : DOMAIN p.nodes = 1..k
    BY DEF WellFormed
<1>2. L # {} /\ L \in SUBSET (1..k)
    BY <1>1 DEF validate_policy, HasListener, IdsOfType
<1>3. l \in L
    <2> HIDE DEF L
    <2> QED BY <1>2, LastOfMember
<1>4. listener_node_id(p) = p.nodes[l].id
    BY DEF listener_node_id
<1>5. listener_node_id(p) \in IdsOfType(p, "listener")
    <2> HIDE DEF l
    <2> QED BY <1>3, <1>4 DEF IdsOfType
<1>6. listener_node_id(p) \in Rejoined(p)
    BY <1>5 DEF Rejoined
<1>7. Leads(p, listener_node_id(p), entry_node_id(p))
    BY <1>6 DEF entry_node_id, Leads
<1> QED BY <1>6, <1>7, OneWayIn

-----------------------------------------------------------------------------
(* The walk stays on the policy's nodes. *)

\* The inductive invariant: the policy under execution is a parsed one, it
\* passed validation before the walk began, and the walk stands at one of its
\* nodes.
NeverMissingInv ==
    /\ WellFormed(policy)
    /\ pc = "walking" /\ Undotted(policy) =>
          validate_policy(policy) /\ current \in NodeIds(policy)

LEMMA NeverMissingStep == NeverMissingInv /\ [Next]_vars => NeverMissingInv'
<1> SUFFICES ASSUME NeverMissingInv, [Next]_vars PROVE NeverMissingInv'
    OBVIOUS
<1> USE DEF NeverMissingInv
<1>w. WellFormed(policy)
    OBVIOUS
<1>1. CASE Reject
    BY <1>1 DEF Reject
<1>2. CASE Start
    BY <1>2, <1>w, EntryExists DEF Start
<1>3. CASE NodeNotFound
    BY <1>3 DEF NodeNotFound
<1>4. CASE PluginOk
    <2> DEFINE next == IF current \in terminal_node_ids(policy) THEN NoNode
                       ELSE success_edge(policy, current)
    <2>1. policy' = policy /\ pc = "walking" /\ Advance(next)
        BY <1>4 DEF PluginOk
    <2>2. Undotted(policy) /\ next # NoNode => next \in NodeIds(policy)
        BY <1>w, <2>1, EdgeTargetExists DEF success_edge
    <2> HIDE DEF next
    <2> QED BY <2>1, <2>2 DEF Advance
<1>5. CASE PluginErr
    <2> DEFINE next == ErrorTarget(policy, current)
    <2>1. policy' = policy /\ pc = "walking" /\ Advance(next)
        BY <1>5 DEF PluginErr, Failed
    <2>2. Undotted(policy) /\ next # NoNode => next \in NodeIds(policy)
        BY <1>w, <2>1, EdgeTargetExists
        DEF ErrorTarget, error_edge, validate_policy, HandlerResolves
    <2> HIDE DEF next
    <2> QED BY <2>1, <2>2 DEF Advance
<1>6. CASE UNCHANGED vars
    BY <1>6 DEF vars
<1> QED BY <1>1, <1>2, <1>3, <1>4, <1>5, <1>6 DEF Next, Walk

\* Whatever nodes fail, the walk of a policy that validate_policy accepted
\* never ends in NODE_NOT_FOUND, provided no endpoint names a dotted id.
THEOREM UndottedNeverMissingAlways == Spec => []UndottedNeverMissing
<1>1. Init => NeverMissingInv
    BY EngineAssumption DEF Init, NeverMissingInv
<1>2. NeverMissingInv => UndottedNeverMissing
    BY DEF NeverMissingInv, UndottedNeverMissing, AcceptedNeverMissing
<1> QED BY <1>1, <1>2, NeverMissingStep, PTL DEF Spec

LEMMA CatchAllStep == CatchAllHandlesAll /\ [Next]_vars => CatchAllHandlesAll'
<1> USE DEF CatchAllHandlesAll
<1> SUFFICES ASSUME CatchAllHandlesAll, [Next]_vars PROVE CatchAllHandlesAll'
    OBVIOUS
<1>1. CASE Reject \/ Start \/ UNCHANGED vars
    BY <1>1 DEF Reject, Start, vars
<1>2. CASE NodeNotFound \/ PluginOk
    BY <1>2 DEF NodeNotFound, PluginOk
<1>3. CASE PluginErr
    BY <1>3 DEF PluginErr, Failed, ErrorTarget
<1> QED BY <1>1, <1>2, <1>3 DEF Next, Walk

\* With a catch-all configured, no error of any node ends in the engine's own
\* 500: this invariant is inductive as it stands.
THEOREM CatchAllAlways == Spec => []CatchAllHandlesAll
<1>1. Init => CatchAllHandlesAll
    BY DEF Init, CatchAllHandlesAll
<1> QED BY <1>1, CatchAllStep, PTL DEF Spec

-----------------------------------------------------------------------------
(* The trace is the path. *)

\* Compiled edges and the entry are names.
LEMMA ParsedType ==
    ASSUME NEW ep \in Seq(Segment) \ {NoNode}
    PROVE  parse_edge_endpoint(ep).node \in Seq(Segment)
<1>1. CASE Len(ep) > 1
    <2>1. SubSeq(ep, 1, Len(ep) - 1) \in Seq(Segment)
        BY <1>1
    <2> QED BY <1>1, <2>1 DEF parse_edge_endpoint
<1>2. CASE ~(Len(ep) > 1)
    BY <1>2 DEF parse_edge_endpoint
<1> QED BY <1>1, <1>2

LEMMA EdgeTargetType ==
    ASSUME NEW p, WellFormed(p), NEW n, NEW ports
    PROVE  EdgeTarget(p, n, ports) \in Seq(Segment)
<1> DEFINE O == EdgesOut(p, n, ports)
           i == LastOf(O)
<1>1. CASE O = {}
    BY <1>1 DEF EdgeTarget, NoNode
<1>2. CASE O # {}
    <2>1. PICK k \in Nat : DOMAIN p.edges = 1..k
        BY DEF WellFormed
    <2>2. O \in SUBSET (1..k)
        BY <2>1 DEF EdgesOut
    <2>3. i \in DOMAIN p.edges
        <3> HIDE DEF O
        <3> QED BY <1>2, <2>1, <2>2, LastOfMember
    <2>4. EdgeTarget(p, n, ports) = parse_edge_endpoint(p.edges[i].to).node
        BY <1>2 DEF EdgeTarget
    <2> HIDE DEF i, O
    <2>5. p.edges[i] \in [from : Seq(Segment) \ {NoNode}, to : Seq(Segment) \ {NoNode}]
        BY <2>3, ElementType DEF WellFormed
    <2> QED BY <2>4, <2>5, ParsedType
<1> QED BY <1>1, <1>2

LEMMA EntryType ==
    ASSUME NEW p, WellFormed(p), validate_policy(p)
    PROVE  entry_node_id(p) \in Seq(Segment) /\ entry_node_id(p) # NoNode
<1> DEFINE L == {i \in DOMAIN p.nodes : p.nodes[i].type = "listener"}
           l == LastOf(L)
<1>1. PICK k \in Nat : DOMAIN p.nodes = 1..k
    BY DEF WellFormed
<1>2. L # {} /\ L \in SUBSET (1..k)
    BY <1>1 DEF validate_policy, HasListener, IdsOfType
<1>3. l \in DOMAIN p.nodes
    <2>1. l \in L
        <3> HIDE DEF L
        <3> QED BY <1>2, LastOfMember
    <2> QED BY <2>1
<1>4. listener_node_id(p) = p.nodes[l].id
    BY DEF listener_node_id
<1> HIDE DEF l
<1>5. p.nodes[l] \in [id : Seq(Segment) \ {NoNode}, type : NodeTypes]
    BY <1>3, ElementType DEF WellFormed
<1> QED BY <1>4, <1>5, EdgeTargetType DEF entry_node_id, success_edge

Outcomes == {"Success", "Error"}
EdgesTaken == {"Terminal", "Success", "EndOfChain", "Error", "CatchAll", "Unhandled",
               "NodeNotFound"}
Step == [node : Seq(Segment), outcome : Outcomes, edge : EdgesTaken, next : Seq(Segment)]

\* Failures are counted by a natural number, and recording one more step adds
\* one to it exactly when the step is a failure.
LEMMA FailuresNat ==
    ASSUME NEW t, NEW i \in Nat
    PROVE  Failures(t, i) \in Nat
<1> DEFINE F == {j \in 1..i : IsFailure(t[j])}
<1>1. IsFiniteSet(1..i)
    BY FS_Interval
<1>2. F \subseteq 1..i
    OBVIOUS
<1>3. IsFiniteSet(F)
    BY <1>1, <1>2, FS_Subset
<1> HIDE DEF F
<1>4. Cardinality(F) \in Nat
    BY <1>3, FS_CardinalityType
<1> QED BY <1>4 DEF Failures, F

LEMMA FailuresAppend ==
    ASSUME NEW t \in Seq(Step), NEW e \in Step
    PROVE  /\ \A i \in 0..Len(t) : Failures(Append(t, e), i) = Failures(t, i)
           /\ Failures(Append(t, e), Len(t) + 1)
                = Failures(t, Len(t)) + (IF IsFailure(e) THEN 1 ELSE 0)
<1> DEFINE u == Append(t, e)
<1>1. Len(u) = Len(t) + 1 /\ u[Len(t) + 1] = e /\ \A j \in 1..Len(t) : u[j] = t[j]
    OBVIOUS
<1> HIDE DEF u
<1>2. ASSUME NEW i \in 0..Len(t) PROVE Failures(u, i) = Failures(t, i)
    <2>1. \A j \in 1..i : u[j] = t[j]
        BY <1>1
    <2>2. {j \in 1..i : IsFailure(u[j])} = {j \in 1..i : IsFailure(t[j])}
        BY <2>1
    <2> QED BY <2>2 DEF Failures
<1>3. Failures(u, Len(t) + 1) = Failures(t, Len(t)) + (IF IsFailure(e) THEN 1 ELSE 0)
    <2> DEFINE n == Len(t)
               F == {j \in 1..n : IsFailure(t[j])}
               G == {j \in 1..(n + 1) : IsFailure(u[j])}
    <2>1. n \in Nat /\ n + 1 \notin F
        OBVIOUS
    <2>2. IsFiniteSet(F)
        <3>1. IsFiniteSet(1..n) /\ F \subseteq 1..n
            BY <2>1, FS_Interval
        <3> QED BY <3>1, FS_Subset
    <2>3. Failures(t, n) = Cardinality(F) /\ Failures(u, n + 1) = Cardinality(G)
        BY DEF Failures
    <2>4. CASE IsFailure(e)
        <3>1. G = F \cup {n + 1}
            BY <1>1, <2>1, <2>4
        <3>2. Cardinality(F \cup {n + 1}) = Cardinality(F) + 1
            <4> HIDE DEF F, n
            <4> QED BY <2>1, <2>2, FS_AddElement
        <3> HIDE DEF F, G, n
        <3> QED BY <2>3, <2>4, <3>1, <3>2 DEF n
    <2>5. CASE ~IsFailure(e)
        <3>1. G = F
            BY <1>1, <2>1, <2>5
        <3>2. Failures(t, n) \in Nat
            BY <2>1, FailuresNat
        <3> HIDE DEF F, G
        <3> QED BY <2>3, <2>5, <3>1, <3>2
    <2> QED BY <2>4, <2>5
<1> QED BY <1>2, <1>3 DEF u

\* The inductive invariant.  Beyond what the property says: nothing is recorded
\* before the walk, a walk with nothing recorded yet stands at the entry, a
\* cut-off trace is full, so that no later step is appended to it, and every
\* recorded failure has its error.
TraceTypeOK ==
    /\ WellFormed(policy)
    /\ pc \in {"walking", "done"} => current \in Seq(Segment)
    /\ steps \in Seq(Step)
    /\ errors \in Seq(Seq(Segment))
    /\ truncated \in BOOLEAN

TraceInv ==
    /\ TraceTypeOK
    /\ pc \in {"new", "rejected"} => steps = << >> /\ errors = << >> /\ ~truncated
    /\ pc = "walking" /\ steps = << >> /\ ~truncated => current = entry_node_id(policy)
    /\ truncated => Len(steps) = max_steps
    /\ \A i \in 1..Len(steps) : IsFailure(steps[i]) => Failures(steps, i) \in 1..Len(errors)
    /\ TraceIsPath

\* Recording one step of the walk keeps the invariant: e is the step taken, and
\* it failed exactly when an error was pushed.
LEMMA RecordedStep ==
    ASSUME TraceInv, pc = "walking", policy' = policy,
           NEW e \in Step, e.node = current,
           steps' = IF Len(steps) >= max_steps THEN steps ELSE Append(steps, e),
           truncated' = (truncated \/ Len(steps) >= max_steps),
           errors' = IF IsFailure(e) THEN Append(errors, current) ELSE errors,
           \/ pc' = "done" /\ current' = current /\ e.next = NoNode
           \/ pc' = "walking" /\ current' = e.next
    PROVE  TraceInv'
<1> DEFINE n == Len(steps)
           m == Len(errors)
<1>1. /\ steps \in Seq(Step) /\ errors \in Seq(Seq(Segment)) /\ truncated \in BOOLEAN
      /\ current \in Seq(Segment) /\ WellFormed(policy)
    BY DEF TraceInv, TraceTypeOK
<1>2. n \in Nat /\ m \in Nat /\ max_steps \in Nat /\ n <= max_steps
    BY <1>1, EngineAssumption DEF TraceInv, TraceIsPath
<1>3. /\ errors' \in Seq(Seq(Segment))
      /\ Len(errors') = m + (IF IsFailure(e) THEN 1 ELSE 0)
      /\ \A k \in 1..m : errors'[k] = errors[k]
      /\ IsFailure(e) => errors'[m + 1] = current
    <2>1. CASE IsFailure(e)
        <3>1. errors' = Append(errors, current)
            BY <2>1
        <3>2. /\ Append(errors, current) \in Seq(Seq(Segment))
              /\ Len(Append(errors, current)) = m + 1
              /\ \A k \in 1..m : Append(errors, current)[k] = errors[k]
              /\ Append(errors, current)[m + 1] = current
            BY <1>1
        <3> QED BY <2>1, <3>1, <3>2
    <2>2. CASE ~IsFailure(e)
        <3>1. errors' = errors
            BY <2>2
        <3> QED BY <1>1, <1>2, <2>2, <3>1
    <2> QED BY <2>1, <2>2
<1>4. current' \in Seq(Segment) /\ WellFormed(policy)'
    <2>1. e.next \in Seq(Segment)
        BY DEF Step
    <2> QED BY <1>1, <2>1
<1>6. CASE n >= max_steps
    <2>a. n = max_steps /\ steps' = steps
        BY <1>2, <1>6
    <2>b. truncated'
        BY <1>6, Zenon
    <2>1. n = max_steps /\ steps' = steps /\ truncated'
        BY <2>a, <2>b
    <2>2. \A i : Failures(steps', i) = Failures(steps, i)
        BY <2>1
    <2>3. Failures(steps, n) \in Nat /\ Failures(steps, n) <= m
        BY <1>2, FailuresNat DEF TraceInv, TraceIsPath
    <2>4. Failures(steps, n) <= Len(errors')
        BY <1>2, <1>3, <2>3
    <2>5. \A i \in 1..n : IsFailure(steps[i]) =>
              Failures(steps, i) \in 1..Len(errors') /\ steps[i].node = errors'[Failures(steps, i)]
        <3> SUFFICES ASSUME NEW i \in 1..n, IsFailure(steps[i])
                     PROVE  Failures(steps, i) \in 1..Len(errors') /\ steps[i].node = errors'[Failures(steps, i)]
            OBVIOUS
        <3>1. Failures(steps, i) \in 1..m /\ steps[i].node = errors[Failures(steps, i)]
            BY DEF TraceInv, TraceIsPath
        <3>2. Failures(steps, i) \in 1..Len(errors')
            BY <1>2, <1>3, <3>1
        <3> QED BY <1>3, <3>1, <3>2
    <2>6. TraceTypeOK'
        BY <1>1, <1>3, <1>4, <2>1 DEF TraceTypeOK
    <2>7. entry_node_id(policy)' = entry_node_id(policy)
        OBVIOUS
    <2>8. TraceIsPath'
        BY <1>2, <2>1, <2>2, <2>4, <2>5, <2>7 DEF TraceInv, TraceIsPath
    <2> QED BY <2>1, <2>2, <2>5, <2>6, <2>8 DEF TraceInv
<1>7. CASE n < max_steps
    <2>1. ~truncated /\ steps' = Append(steps, e) /\ ~truncated'
        BY <1>1, <1>2, <1>7 DEF TraceInv
    <2>2. /\ steps' \in Seq(Step) /\ Len(steps') = n + 1 /\ steps'[n + 1] = e
          /\ \A i \in 1..n : steps'[i] = steps[i]
        BY <1>1, <2>1
    <2>3. /\ \A i \in 0..n : Failures(steps', i) = Failures(steps, i)
          /\ Failures(steps', n + 1) = Failures(steps, n) + (IF IsFailure(e) THEN 1 ELSE 0)
        BY <1>1, <2>1, FailuresAppend
    <2>4. Failures(steps, n) = m
        BY <2>1 DEF TraceInv, TraceIsPath
    <2>5. Failures(steps', n + 1) = Len(errors')
        BY <1>2, <1>3, <2>3, <2>4
    <2>6. ASSUME NEW i \in 1..(n + 1), IsFailure(steps'[i])
          PROVE  Failures(steps', i) \in 1..Len(errors') /\ steps'[i].node = errors'[Failures(steps', i)]
        <3>1. CASE i \in 1..n
            <4>1. IsFailure(steps[i]) /\ Failures(steps', i) = Failures(steps, i) /\ steps'[i] = steps[i]
                BY <1>2, <2>2, <2>3, <2>6, <3>1
            <4>2. Failures(steps, i) \in 1..m /\ steps[i].node = errors[Failures(steps, i)]
                BY <3>1, <4>1 DEF TraceInv, TraceIsPath
            <4>3. Failures(steps, i) \in 1..Len(errors')
                BY <1>2, <1>3, <4>2
            <4>4. errors'[Failures(steps, i)] = errors[Failures(steps, i)]
                BY <1>3, <4>2
            <4> HIDE DEF m, n
            <4> QED BY <4>1, <4>2, <4>3, <4>4
        <3>2. CASE i = n + 1
            <4>1. IsFailure(e) /\ Len(errors') = m + 1 /\ errors'[m + 1] = current
                BY <1>3, <2>2, <2>6, <3>2
            <4>2. m + 1 \in 1..(m + 1)
                BY <1>2
            <4> QED BY <2>2, <2>5, <3>2, <4>1, <4>2
        <3> QED BY <1>2, <3>1, <3>2
    <2>7. TraceTypeOK'
        BY <1>3, <1>4, <2>1, <2>2 DEF TraceTypeOK
    <2>8. steps'[1].node = entry_node_id(policy)'
        <3>1. CASE steps = << >>
            <4>1. n + 1 = 1 /\ current = entry_node_id(policy)
                BY <2>1, <3>1 DEF TraceInv
            <4> QED BY <2>2, <4>1
        <3>2. CASE steps # << >>
            <4>1. 1 \in 1..n
                BY <1>1, <3>2
            <4> QED BY <2>2, <3>2, <4>1 DEF TraceInv, TraceIsPath
        <3> QED BY <3>1, <3>2
    <2>9. ASSUME NEW i \in 1..n PROVE steps'[i].next = steps'[i + 1].node
        <3>1. steps # << >>
            BY <2>9
        <3>2. CASE i = n
            <4>1. steps[n].next = current
                BY <2>1, <3>1 DEF TraceInv, TraceIsPath
            <4> QED BY <2>2, <2>9, <3>2, <4>1
        <3>3. CASE i # n
            <4>1. i \in 1..(n - 1) /\ i + 1 \in 1..n
                BY <1>2, <2>9, <3>3
            <4>2. steps[i].next = steps[i + 1].node
                BY <3>1, <4>1 DEF TraceInv, TraceIsPath
            <4> QED BY <2>2, <2>9, <4>1, <4>2
        <3> QED BY <3>2, <3>3
    <2>10. e.next = IF pc' = "done" THEN NoNode ELSE current'
        OBVIOUS
    <2>11. steps' # << >> /\ Len(steps') <= max_steps /\ Len(steps') - 1 = n
        BY <1>2, <1>7, <2>2
    <2>12. Len(errors') \in Nat
        BY <1>3
    <2> HIDE DEF n, m
    <2>13. TraceIsPath'
        <3>1. steps'[Len(steps')].next = IF pc' = "done" THEN NoNode ELSE current'
            BY <2>2, <2>10
        <3>2. Failures(steps', Len(steps')) = Len(errors')
            BY <2>2, <2>5
        <3>3. Failures(steps', Len(steps')) <= Len(errors')
            BY <2>12, <3>2
        <3>4. \A i \in 1..(Len(steps') - 1) : steps'[i].next = steps'[i + 1].node
            BY <2>9, <2>11
        <3>5. \A i \in 1..Len(steps') : IsFailure(steps'[i]) => steps'[i].node = errors'[Failures(steps', i)]
            BY <2>2, <2>6
        <3>6. max_steps' = max_steps
            OBVIOUS
        <3> QED BY <2>8, <2>11, <3>1, <3>2, <3>3, <3>4, <3>5, <3>6 DEF TraceIsPath
    <2> QED BY <2>1, <2>2, <2>6, <2>7, <2>11, <2>13 DEF TraceInv
<1> QED BY <1>2, <1>6, <1>7

\* The step that is recorded.
LEMMA StepRecord ==
    ASSUME NEW node \in Seq(Segment), NEW outcome \in Outcomes, NEW edge \in EdgesTaken,
           NEW next \in Seq(Segment)
    PROVE  LET e == [node |-> node, outcome |-> outcome, edge |-> edge, next |-> next]
           IN  /\ e \in Step /\ e.node = node /\ e.next = next
               /\ IsFailure(e) <=> outcome = "Error" /\ edge # "NodeNotFound"
<1> DEFINE e == [node |-> node, outcome |-> outcome, edge |-> edge, next |-> next]
<1>1. e \in Step
    BY DEF Step
<1>2. e.node = node /\ e.next = next /\ e.outcome = outcome /\ e.edge = edge
    OBVIOUS
<1>3. IsFailure(e) <=> outcome = "Error" /\ edge # "NodeNotFound"
    <2> HIDE DEF e
    <2> QED BY <1>2 DEF IsFailure
<1> QED BY <1>1, <1>2, <1>3

\* Every step of the engine keeps the invariant.
LEMMA TraceStep == TraceInv /\ [Next]_vars => TraceInv'
<1> SUFFICES ASSUME TraceInv, [Next]_vars PROVE TraceInv'
    OBVIOUS
<1>w. /\ WellFormed(policy) /\ policy.error_handler \in Seq(Segment)
      /\ pc = "walking" => current \in Seq(Segment)
    BY DEF TraceInv, TraceTypeOK, WellFormed
<1>n. NoNode \in Seq(Segment)
    BY DEF NoNode
<1>1. CASE Reject
    BY <1>1 DEF Reject, TraceInv, TraceTypeOK, TraceIsPath
<1>2. CASE Start
    <2>1. entry_node_id(policy) \in Seq(Segment)
        BY <1>2, <1>w, EntryType DEF Start
    <2>2. /\ pc' = "walking" /\ current' = entry_node_id(policy) /\ pc = "new"
          /\ UNCHANGED <<policy, errors, steps, truncated>>
        BY <1>2 DEF Start
    <2>3. steps = << >> /\ errors = << >> /\ ~truncated
        BY <2>2 DEF TraceInv
    <2>4. TraceTypeOK'
        BY <2>1, <2>2 DEF TraceInv, TraceTypeOK
    <2>5. TraceIsPath'
        BY <2>2, <2>3 DEF TraceInv, TraceIsPath
    <2> QED BY <2>2, <2>3, <2>4, <2>5 DEF TraceInv
<1>3. CASE NodeNotFound
    <2> DEFINE e == [node |-> current, outcome |-> "Error", edge |-> "NodeNotFound",
                     next |-> NoNode]
    <2>1. e \in Step /\ e.node = current /\ e.next = NoNode /\ ~IsFailure(e)
        <3>1. current \in Seq(Segment)
            BY <1>3, <1>w DEF NodeNotFound
        <3>2. "Error" \in Outcomes /\ "NodeNotFound" \in EdgesTaken
            BY DEF Outcomes, EdgesTaken
        <3> QED BY <1>n, <3>1, <3>2, StepRecord
    <2>2. /\ pc = "walking" /\ pc' = "done" /\ UNCHANGED <<policy, current, errors>>
          /\ steps' = IF Len(steps) >= max_steps THEN steps ELSE Append(steps, e)
          /\ truncated' = (truncated \/ Len(steps) >= max_steps)
        BY <1>3 DEF NodeNotFound, record_step
    <2> HIDE DEF e
    <2> QED BY <2>1, <2>2, RecordedStep
<1>4. CASE PluginOk
    <2> DEFINE terminal == current \in terminal_node_ids(policy)
               next == IF terminal THEN NoNode ELSE success_edge(policy, current)
               edge == IF terminal THEN "Terminal"
                       ELSE IF next # NoNode THEN "Success" ELSE "EndOfChain"
               e == [node |-> current, outcome |-> "Success", edge |-> edge, next |-> next]
    <2>1. next \in Seq(Segment)
        <3>1. success_edge(policy, current) \in Seq(Segment)
            BY <1>w, EdgeTargetType DEF success_edge
        <3> HIDE DEF terminal
        <3> QED BY <1>n, <3>1
    <2>2. edge \in EdgesTaken
        <3>1. edge \in {"Terminal", "Success", "EndOfChain"}
            <4> HIDE DEF terminal, next
            <4> QED BY Zenon
        <3> HIDE DEF edge
        <3> QED BY <3>1 DEF EdgesTaken
    <2>3. /\ pc = "walking" /\ UNCHANGED <<policy, errors>> /\ Advance(next)
          /\ record_step("Success", edge, next)
        BY <1>4 DEF PluginOk
    <2> HIDE DEF next, edge
    <2>4. /\ steps' = IF Len(steps) >= max_steps THEN steps ELSE Append(steps, e)
          /\ truncated' = (truncated \/ Len(steps) >= max_steps)
        BY <2>3 DEF record_step
    <2>5. e \in Step /\ e.node = current /\ e.next = next /\ ~IsFailure(e)
        <3>1. current \in Seq(Segment) /\ "Success" \in Outcomes
            BY <1>w, <2>3 DEF Outcomes
        <3> QED BY <2>1, <2>2, <3>1, StepRecord
    <2>6. \/ pc' = "done" /\ current' = current /\ next = NoNode
          \/ pc' = "walking" /\ current' = next
        BY <2>3 DEF Advance
    <2> HIDE DEF e
    <2> QED BY <2>3, <2>4, <2>5, <2>6, RecordedStep
<1>5. CASE PluginErr
    <2> DEFINE next == ErrorTarget(policy, current)
               edge == IF error_edge(policy, current) # NoNode THEN "Error"
                       ELSE IF next # NoNode THEN "CatchAll" ELSE "Unhandled"
               e == [node |-> current, outcome |-> "Error", edge |-> edge, next |-> next]
    <2>1. next \in Seq(Segment)
        BY <1>w, EdgeTargetType DEF ErrorTarget, error_edge
    <2>2. edge \in EdgesTaken /\ edge # "NodeNotFound"
        <3>1. edge \in {"Error", "CatchAll", "Unhandled"}
            <4> HIDE DEF next
            <4> QED BY Zenon
        <3> HIDE DEF edge
        <3> QED BY <3>1 DEF EdgesTaken
    <2>3. /\ pc = "walking" /\ UNCHANGED policy /\ Advance(next)
          /\ errors' = Append(errors, current)
          /\ record_step("Error", edge, next)
        BY <1>5 DEF PluginErr, Failed
    <2> HIDE DEF next, edge
    <2>4. /\ steps' = IF Len(steps) >= max_steps THEN steps ELSE Append(steps, e)
          /\ truncated' = (truncated \/ Len(steps) >= max_steps)
        BY <2>3 DEF record_step
    <2>5. e \in Step /\ e.node = current /\ e.next = next /\ IsFailure(e)
        <3>1. current \in Seq(Segment) /\ "Error" \in Outcomes
            BY <1>w, <2>3 DEF Outcomes
        <3> QED BY <2>1, <2>2, <3>1, StepRecord
    <2>6. \/ pc' = "done" /\ current' = current /\ next = NoNode
          \/ pc' = "walking" /\ current' = next
        BY <2>3 DEF Advance
    <2> HIDE DEF e
    <2> QED BY <2>3, <2>4, <2>5, <2>6, RecordedStep
<1>6. CASE UNCHANGED vars
    BY <1>6 DEF vars, TraceInv, TraceTypeOK, TraceIsPath
<1> QED BY <1>1, <1>2, <1>3, <1>4, <1>5, <1>6 DEF Next, Walk

\* Before the walk there is nothing to trace.
NothingTraced ==
    WellFormed(policy) /\ pc = "new" /\ errors = << >> /\ steps = << >> /\ truncated = FALSE

LEMMA TraceNew == NothingTraced => TraceInv
<1> SUFFICES ASSUME NothingTraced PROVE TraceInv
    OBVIOUS
<1> USE DEF NothingTraced
<1> DEFINE F == {i \in 1..0 : IsFailure(steps[i])}
<1>1. F = {} /\ Len(steps) = 0 /\ Len(errors) = 0
    OBVIOUS
<1>2. Failures(steps, Len(steps)) = 0
    BY <1>1, FS_EmptySet DEF Failures
<1>3. TraceIsPath
    BY <1>1, <1>2, EngineAssumption DEF TraceIsPath
<1>4. TraceTypeOK
    <2>a. << >> \in Seq(Step) /\ << >> \in Seq(Seq(Segment))
        OBVIOUS
    <2>1. steps \in Seq(Step) /\ errors \in Seq(Seq(Segment)) /\ truncated \in BOOLEAN
        BY <2>a, Zenon
    <2>2. pc \notin {"walking", "done"}
        OBVIOUS
    <2> QED BY <2>1, <2>2 DEF TraceTypeOK
<1> QED BY <1>1, <1>3, <1>4 DEF TraceInv

\* The recorded trace of an execution is the path the engine took and the
\* errors it collected are those of the trace, for every policy, every limit on
\* the trace and whatever fails.
THEOREM TraceAlways == Spec => []TraceIsPath
<1>1. Init => TraceInv
    BY EngineAssumption, TraceNew DEF Init, NothingTraced
<1>2. TraceInv => TraceIsPath
    BY DEF TraceInv
<1> QED BY <1>1, <1>2, TraceStep, PTL DEF Spec

-----------------------------------------------------------------------------
(* A walk comes back to a node only where validation lets paths meet. *)

\* The inductive invariant: only an accepted policy is walked, every recorded
\* step took an edge of the compiled graph, and the property itself.
RevisitInv ==
    /\ steps # << >> \/ pc = "walking" => validate_policy(policy)
    /\ pc = "walking" => current # NoNode
    /\ \A i \in 1..Len(steps) :
          steps[i].next # NoNode => Leads(policy, steps[i].node, steps[i].next)
    /\ NoHiddenLoop

\* Recording one step keeps it: the way into a node entered twice leads back,
\* step by step, to a shared node or to the entry.
LEMMA RevisitRecorded ==
    ASSUME TraceInv, RevisitInv, pc = "walking", policy' = policy,
           pc' = "walking" => current' # NoNode,
           NEW e \in Step, e.node = current,
           e.next # NoNode => Leads(policy, current, e.next),
           steps' = IF Len(steps) >= max_steps THEN steps ELSE Append(steps, e)
    PROVE  RevisitInv'
<1>1. steps \in Seq(Step) /\ Len(steps) \in Nat /\ max_steps \in Nat /\ WellFormed(policy)
    BY EngineAssumption DEF TraceInv, TraceTypeOK
<1>2. validate_policy(policy) /\ current # NoNode
    BY DEF RevisitInv
<1>3. CASE Len(steps) >= max_steps
    <2>1. steps' = steps
        BY <1>3
    <2> QED BY <1>2, <2>1 DEF RevisitInv, NoHiddenLoop
<1>4. CASE ~(Len(steps) >= max_steps)
    <2> DEFINE n == Len(steps)
    <2>1. /\ Len(steps') = n + 1 /\ steps'[n + 1] = e
          /\ \A i \in 1..n : steps'[i] = steps[i]
        BY <1>1, <1>4
    <2>2. n # max_steps /\ ~truncated
        BY <1>1, <1>4 DEF TraceInv, TraceTypeOK
    <2>3. /\ n = 0 => current = entry_node_id(policy)
          /\ n > 0 => /\ steps[1].node = entry_node_id(policy)
                      /\ steps[n].next = current
                      /\ \A i \in 1..(n - 1) : steps[i].next = steps[i + 1].node
        BY <1>1, <2>2 DEF TraceInv, TraceIsPath
    <2>4. \A i \in 1..n + 1 : steps'[i].next # NoNode => Leads(policy, steps'[i].node, steps'[i].next)
        BY <1>1, <2>1 DEF RevisitInv
    <2>5. ASSUME Undotted(policy), OneNamePerInput(policy),
                 NEW i \in 1..n + 1, NEW j \in 1..n + 1, i < j, steps'[i].node = steps'[j].node
          PROVE  \E k \in i..j : steps'[k].node \in Rejoined(policy)
        <3>1. CASE j <= n
            <4>1. i \in 1..n /\ j \in 1..n
                BY <1>1, <2>5, <3>1
            <4>2. PICK k \in i..j : steps[k].node \in Rejoined(policy)
                BY <2>1, <2>5, <4>1 DEF RevisitInv, NoHiddenLoop
            <4>3. k \in 1..n
                BY <1>1, <4>1
            <4> QED BY <2>1, <4>2, <4>3
        <3>2. CASE j = n + 1
            <4>1. i \in 1..n /\ n > 0 /\ n \in 1..n /\ n \in i..j /\ j \in i..j
                BY <1>1, <2>5, <3>2
            <4>2. steps'[j].node = current /\ steps[n].next = current /\ steps[i].node = current
                BY <2>1, <2>3, <2>5, <3>2, <4>1
            <4> SUFFICES ASSUME current \notin Rejoined(policy), steps[n].node \notin Rejoined(policy)
                         PROVE  \E k \in i..j : steps'[k].node \in Rejoined(policy)
                BY <2>1, <4>1, <4>2
            <4>4. Leads(policy, steps[n].node, current)
                BY <1>2, <4>1, <4>2 DEF RevisitInv
            <4>5. CASE i = 1
                <5>1. current = entry_node_id(policy)
                    BY <2>3, <4>1, <4>2, <4>5
                <5> QED BY <1>1, <1>2, <2>5, <4>4, <5>1, EntryFromListener
            <4>6. CASE i > 1
                <5>1. i - 1 \in 1..n /\ i - 1 < n /\ i - 1 \in 1..(n - 1) /\ (i - 1) + 1 = i
                    BY <1>1, <4>1, <4>6
                <5>2. steps[i - 1].next = current
                    BY <2>3, <4>1, <4>2, <5>1
                <5>3. Leads(policy, steps[i - 1].node, current)
                    BY <1>2, <5>1, <5>2 DEF RevisitInv
                <5>4. steps[i - 1].node = steps[n].node
                    BY <1>1, <1>2, <2>5, <4>4, <5>3, OneWayIn
                <5>5. PICK k \in (i - 1)..n : steps[k].node \in Rejoined(policy)
                    BY <2>5, <4>1, <5>1, <5>4 DEF RevisitInv, NoHiddenLoop
                <5>6. k # i - 1
                    BY <5>4, <5>5
                <5>7. k \in i..j /\ k \in 1..n
                    BY <1>1, <3>2, <4>1, <5>1, <5>5, <5>6
                <5> QED BY <2>1, <5>5, <5>7
            <4> QED BY <1>1, <4>5, <4>6
        <3> QED BY <1>1, <2>5, <3>1, <3>2
    <2>6. NoHiddenLoop'
        BY <2>1, <2>5 DEF NoHiddenLoop
    <2> QED BY <1>2, <2>1, <2>4, <2>6 DEF RevisitInv
<1> QED BY <1>3, <1>4

\* Every step of the engine keeps it.
LEMMA RevisitStep == TraceInv /\ RevisitInv /\ [Next]_vars => RevisitInv'
<1> SUFFICES ASSUME TraceInv, RevisitInv, [Next]_vars PROVE RevisitInv'
    OBVIOUS
<1>w. /\ WellFormed(policy) /\ policy.error_handler \in Seq(Segment)
      /\ pc = "walking" => current \in Seq(Segment)
    BY DEF TraceInv, TraceTypeOK, WellFormed
<1>n. NoNode \in Seq(Segment)
    BY DEF NoNode
<1>1. CASE Reject \/ UNCHANGED vars
    BY <1>1 DEF Reject, vars, RevisitInv, NoHiddenLoop
<1>2. CASE Start
    <2>1. entry_node_id(policy) # NoNode
        BY <1>2, <1>w, EntryType DEF Start
    <2> QED BY <1>2, <2>1 DEF Start, RevisitInv, NoHiddenLoop
<1>3. ASSUME NEW outcome \in Outcomes, NEW edge \in EdgesTaken, NEW next \in Seq(Segment),
             pc = "walking", policy' = policy, record_step(outcome, edge, next),
             pc' = "walking" => current' # NoNode,
             next # NoNode => Leads(policy, current, next)
      PROVE  RevisitInv'
    <2> DEFINE e == [node |-> current, outcome |-> outcome, edge |-> edge, next |-> next]
    <2>1. e \in Step /\ e.node = current /\ e.next = next
        BY <1>w, <1>3, StepRecord
    <2>2. steps' = IF Len(steps) >= max_steps THEN steps ELSE Append(steps, e)
        BY <1>3 DEF record_step
    <2> HIDE DEF e
    <2> QED BY <1>3, <2>1, <2>2, RevisitRecorded
<1>4. CASE NodeNotFound
    <2>1. "Error" \in Outcomes /\ "NodeNotFound" \in EdgesTaken
        BY DEF Outcomes, EdgesTaken
    <2>2. pc = "walking" /\ policy' = policy /\ record_step("Error", "NodeNotFound", NoNode)
          /\ pc' = "done"
        BY <1>4 DEF NodeNotFound
    <2> QED BY <1>n, <1>3, <2>1, <2>2
<1>5. CASE PluginOk
    <2> DEFINE terminal == current \in terminal_node_ids(policy)
               next == IF terminal THEN NoNode ELSE success_edge(policy, current)
               edge == IF terminal THEN "Terminal"
                       ELSE IF next # NoNode THEN "Success" ELSE "EndOfChain"
    <2>1. next \in Seq(Segment) /\ (next # NoNode => Leads(policy, current, next))
        <3>1. success_edge(policy, current) \in Seq(Segment)
            BY <1>w, EdgeTargetType DEF success_edge
        <3> HIDE DEF terminal
        <3> QED BY <1>n, <3>1 DEF Leads
    <2>2. edge \in EdgesTaken /\ "Success" \in Outcomes
        <3>1. edge \in {"Terminal", "Success", "EndOfChain"}
            <4> HIDE DEF terminal, next
            <4> QED BY Zenon
        <3> HIDE DEF edge
        <3> QED BY <3>1 DEF EdgesTaken, Outcomes
    <2>3. pc = "walking" /\ policy' = policy /\ record_step("Success", edge, next) /\ Advance(next)
        BY <1>5 DEF PluginOk
    <2> HIDE DEF next, edge
    <2>4. pc' = "walking" => current' # NoNode
        BY <2>3 DEF Advance
    <2> QED BY <1>3, <2>1, <2>2, <2>3, <2>4
<1>6. CASE PluginErr
    <2> DEFINE next == ErrorTarget(policy, current)
               edge == IF error_edge(policy, current) # NoNode THEN "Error"
                       ELSE IF next # NoNode THEN "CatchAll" ELSE "Unhandled"
    <2>1. next \in Seq(Segment) /\ (next # NoNode => Leads(policy, current, next))
        BY <1>w, EdgeTargetType DEF ErrorTarget, error_edge, Leads
    <2>2. edge \in EdgesTaken /\ "Error" \in Outcomes
        <3>1. edge \in {"Error", "CatchAll", "Unhandled"}
            <4> HIDE DEF next
            <4> QED BY Zenon
        <3> HIDE DEF edge
        <3> QED BY <3>1 DEF EdgesTaken, Outcomes
    <2>3. pc = "walking" /\ policy' = policy /\ record_step("Error", edge, next) /\ Advance(next)
        BY <1>6 DEF PluginErr, Failed
    <2> HIDE DEF next, edge
    <2>4. pc' = "walking" => current' # NoNode
        BY <2>3 DEF Advance
    <2> QED BY <1>3, <2>1, <2>2, <2>3, <2>4
<1> QED BY <1>1, <1>2, <1>4, <1>5, <1>6 DEF Next, Walk

\* A walk of an accepted policy never comes back to a node but by way of an
\* error handler, the catch-all, a client or the listener.
THEOREM NoHiddenLoopAlways == Spec => []NoHiddenLoop
<1>1. Init => TraceInv
    BY EngineAssumption, TraceNew DEF Init, NothingTraced
<1>2. Init => RevisitInv
    BY DEF Init, RevisitInv, NoHiddenLoop
<1>3. RevisitInv => NoHiddenLoop
    BY DEF RevisitInv
<1> QED BY <1>1, <1>2, <1>3, TraceStep, RevisitStep, PTL DEF Spec

-----------------------------------------------------------------------------
(* The sandbox drives the engine: what holds of an execution holds of a      *)
(* sandbox run.                                                              *)

\* A synthesised policy is a well-formed one.
Nameable(nodes) ==
    /\ nodes \in Seq([id : Seq(Segment), type : NodeTypes])
    /\ \A i \in DOMAIN nodes :
          AutoId[i] \in Seq(Segment) \ {NoNode, <<"listener">>, <<"client">>}

LEMMA NamedType ==
    ASSUME NEW nodes, Nameable(nodes)
    PROVE  /\ Named(nodes) \in Seq([id : Seq(Segment) \ {NoNode}, type : NodeTypes])
           /\ Len(Named(nodes)) = Len(nodes)
           /\ \A i \in 1..Len(nodes) :
                 /\ Named(nodes)[i].type = nodes[i].type
                 /\ Named(nodes)[i].id = IF nodes[i].id = NoNode THEN AutoId[i] ELSE nodes[i].id
<1> DEFINE n == Len(nodes)
           U == [id : Seq(Segment) \ {NoNode}, type : NodeTypes]
<1>1. n \in Nat /\ DOMAIN nodes = 1..n
    BY DEF Nameable
<1>2. ASSUME NEW i \in 1..n
      PROVE  /\ Named(nodes)[i] \in U
             /\ Named(nodes)[i].type = nodes[i].type
             /\ Named(nodes)[i].id = IF nodes[i].id = NoNode THEN AutoId[i] ELSE nodes[i].id
    <2>1. nodes[i] \in [id : Seq(Segment), type : NodeTypes]
        BY <1>1, ElementType DEF Nameable
    <2>2. AutoId[i] \in Seq(Segment) \ {NoNode}
        BY <1>1 DEF Nameable
    <2>3. Named(nodes)[i] = IF nodes[i].id = NoNode THEN [nodes[i] EXCEPT !.id = AutoId[i]]
                            ELSE nodes[i]
        BY <1>1 DEF Named
    <2>4. CASE nodes[i].id = NoNode
        BY <2>1, <2>2, <2>3, <2>4
    <2>5. CASE nodes[i].id # NoNode
        BY <2>1, <2>3, <2>5
    <2> QED BY <2>4, <2>5
<1>3. Named(nodes) \in [1..n -> U]
    BY <1>1, <1>2 DEF Named
<1>4. Named(nodes) \in Seq(U) /\ Len(Named(nodes)) = n
    <2> HIDE DEF U
    <2> QED BY <1>1, <1>3
<1> QED BY <1>2, <1>4

\* What a concatenation holds, counted from where each part begins.
LEMMA Joined ==
    ASSUME NEW S, NEW s \in Seq(S), NEW t \in Seq(S)
    PROVE  /\ s \o t \in Seq(S) /\ Len(s \o t) = Len(s) + Len(t)
           /\ \A i \in 1..Len(s) : (s \o t)[i] = s[i]
           /\ \A i \in 1..Len(t) : (s \o t)[Len(s) + i] = t[i]
OBVIOUS

LEMMA Appended ==
    ASSUME NEW S, NEW s \in Seq(S), NEW e \in S
    PROVE  /\ Append(s, e) \in Seq(S) /\ Len(Append(s, e)) = Len(s) + 1
           /\ Append(s, e)[Len(s) + 1] = e
           /\ \A i \in 1..Len(s) : Append(s, e)[i] = s[i]
OBVIOUS

\* The edges of a synthesised policy are read back as they were written.
LEMMA PortNames ==
    "in" \in Segment /\ "out" \in Segment /\ "success" \in Segment /\ "error" \in Segment
BY NamesAssumption

Names == Seq(Segment) \ {NoNode}

LEMMA ReadBack ==
    ASSUME NEW id \in Names, NEW port \in Segment
    PROVE  /\ Append(id, port) \in Names
           /\ parse_edge_endpoint(Append(id, port)) = [node |-> id, port |-> port]
           /\ FirstSegment(Append(id, port)) = <<id[1]>>
<1> DEFINE ep == Append(id, port)
           n == Len(id)
<1>1. id \in Seq(Segment) /\ n \in Nat /\ n > 0
    BY DEF Names, NoNode
<1>2. /\ ep \in Seq(Segment) /\ Len(ep) = n + 1 /\ ep[n + 1] = port
      /\ \A i \in 1..n : ep[i] = id[i]
    BY <1>1, Appended
<1>3. ep # NoNode
    <2> HIDE DEF ep, n
    <2> QED BY <1>1, <1>2 DEF NoNode
<1>4. SubSeq(ep, 1, n) = id
    <2>1. /\ SubSeq(ep, 1, n) \in Seq(Segment) /\ Len(SubSeq(ep, 1, n)) = n
          /\ \A i \in 1..n : SubSeq(ep, 1, n)[i] = id[i]
        <3> HIDE DEF ep
        <3> QED BY <1>1, <1>2
    <2> HIDE DEF ep
    <2> QED BY <1>1, <2>1, SeqEqual
<1>5. Len(ep) - 1 = n /\ Len(ep) > 1
    BY <1>1, <1>2
<1> HIDE DEF ep
<1>6. parse_edge_endpoint(ep) = [node |-> id, port |-> port]
    BY <1>2, <1>4, <1>5 DEF parse_edge_endpoint
<1>7. FirstSegment(ep) = <<id[1]>>
    BY <1>1, <1>2 DEF FirstSegment
<1> QED BY <1>2, <1>3, <1>6, <1>7 DEF ep, Names

LEMMA WireEnds ==
    ASSUME NEW from \in Names, NEW port \in Segment, NEW to \in Names
    PROVE  /\ Wire(from, port, to) \in [from : Names, to : Names]
           /\ parse_edge_endpoint(Wire(from, port, to).from) = [node |-> from, port |-> port]
           /\ parse_edge_endpoint(Wire(from, port, to).to) = [node |-> to, port |-> "in"]
           /\ FirstSegment(Wire(from, port, to).from) = <<from[1]>>
           /\ FirstSegment(Wire(from, port, to).to) = <<to[1]>>
<1>1. /\ Wire(from, port, to).from = Append(from, port)
      /\ Wire(from, port, to).to = Append(to, "in")
      /\ Wire(from, port, to) = [from |-> Append(from, port), to |-> Append(to, "in")]
    BY DEF Wire
<1>2. Append(from, port) \in Names /\ Append(to, "in") \in Names
    BY PortNames, ReadBack
<1>3. Wire(from, port, to) \in [from : Names, to : Names]
    BY <1>1, <1>2
<1> QED BY <1>1, <1>3, PortNames, ReadBack

LEMMA WireType ==
    ASSUME NEW from \in Names, NEW port \in Segment, NEW to \in Names
    PROVE  Wire(from, port, to) \in [from : Names, to : Names]
BY WireEnds

\* The two nodes that the synthesiser adds.
LEMMA TwoNames == <<"listener">> \in Names /\ <<"client">> \in Names /\ <<"listener">> # <<"client">>
<1>1. "listener" \in Segment /\ "client" \in Segment
    BY NamesAssumption
<1> QED BY <1>1 DEF Names, NoNode

\* A list of user nodes, as the synthesiser hands it on.
UserList(user) == user \in Seq([id : Names, type : NodeTypes]) /\ Len(user) > 0

LEMMA UserNames ==
    ASSUME NEW user, UserList(user), NEW i \in 1..Len(user)
    PROVE  user[i] \in [id : Names, type : NodeTypes] /\ user[i].id \in Names
<1> DEFINE U == [id : Names, type : NodeTypes]
<1>1. user \in Seq(U) /\ i \in DOMAIN user
    BY DEF UserList
<1>2. user[i] \in U
    <2> HIDE DEF U
    <2> QED BY <1>1, ElementType
<1> QED BY <1>2

UserEdge(user, i) ==
    IF i = 1 THEN Wire(<<"listener">>, "out", user[1].id)
    ELSE Wire(user[i - 1].id, "success", IF i > Len(user) THEN <<"client">> ELSE user[i].id)
ErrorEdge(user, i) == Wire(user[i].id, "error", <<"client">>)

\* The synthesised policy, entry by entry.
LEMMA AroundParts ==
    ASSUME NEW user, UserList(user), NEW wired \in BOOLEAN
    PROVE  LET p == Around(user, wired)
               n == Len(user)
           IN  /\ WellFormed(p)
               /\ p.error_handler = NoNode
               /\ DOMAIN p.nodes = 1..(n + 2)
               /\ p.nodes[1] = [id |-> <<"listener">>, type |-> "listener"]
               /\ \A i \in 1..n : p.nodes[i + 1] = user[i]
               /\ p.nodes[n + 2] = [id |-> <<"client">>, type |-> "client"]
               /\ DOMAIN p.edges = 1..(n + 1 + (IF wired THEN n ELSE 0))
               /\ \A i \in 1..(n + 1) : p.edges[i] = UserEdge(user, i)
               /\ wired => \A i \in 1..n : p.edges[n + 1 + i] = ErrorEdge(user, i)
<1> DEFINE n == Len(user)
           U == [id : Names, type : NodeTypes]
           E == [from : Names, to : Names]
           chain == [i \in 1..(n + 1) |-> UserEdge(user, i)]
           failing == IF wired THEN [i \in DOMAIN user |-> ErrorEdge(user, i)] ELSE << >>
           first == << [id |-> <<"listener">>, type |-> "listener"] >>
           last == << [id |-> <<"client">>, type |-> "client"] >>
           p == Around(user, wired)
<1>1. n \in Nat /\ n > 0 /\ DOMAIN user = 1..n /\ user \in Seq(U)
    BY DEF UserList
<1>2. \A i \in 1..n : user[i].id \in Names
    BY UserNames
<1>3. p = [nodes |-> first \o user \o last, edges |-> chain \o failing, error_handler |-> NoNode]
    BY DEF Around, UserEdge, ErrorEdge
<1>4. first \in Seq(U) /\ last \in Seq(U) /\ Len(first) = 1 /\ Len(last) = 1
    <2>1. [id |-> <<"listener">>, type |-> "listener"] \in U /\ [id |-> <<"client">>, type |-> "client"] \in U
        BY TwoNames DEF NodeTypes
    <2> HIDE DEF U
    <2> QED BY <2>1
<1>5. /\ p.nodes \in Seq(U) /\ Len(p.nodes) = n + 2
      /\ p.nodes[1] = [id |-> <<"listener">>, type |-> "listener"]
      /\ \A i \in 1..n : p.nodes[i + 1] = user[i]
      /\ p.nodes[n + 2] = [id |-> <<"client">>, type |-> "client"]
    <2>1. first[1] = [id |-> <<"listener">>, type |-> "listener"] /\ last[1] = [id |-> <<"client">>, type |-> "client"]
        OBVIOUS
    <2>2. p.nodes = first \o user \o last
        BY <1>3
    <2> HIDE DEF U, first, last, p
    <2> HIDE DEF n
    <2>3. /\ first \o user \in Seq(U) /\ Len(first \o user) = n + 1
          /\ (first \o user)[1] = first[1]
          /\ \A i \in 1..n : (first \o user)[i + 1] = user[i]
        <3>1. /\ first \o user \in Seq(U) /\ Len(first \o user) = 1 + n
              /\ \A i \in 1..1 : (first \o user)[i] = first[i]
              /\ \A i \in 1..n : (first \o user)[1 + i] = user[i]
            <4>1. /\ first \o user \in Seq(U) /\ Len(first \o user) = Len(first) + Len(user)
                  /\ \A i \in 1..Len(first) : (first \o user)[i] = first[i]
                  /\ \A i \in 1..Len(user) : (first \o user)[Len(first) + i] = user[i]
                <5>1. first \in Seq(U) /\ user \in Seq(U)
                    BY <1>1, <1>4
                <5> QED BY <5>1, Joined
            <4>2. Len(first) = 1 /\ Len(user) = n
                BY <1>4 DEF n
            <4> QED BY <4>1, <4>2, Zenon
        <3>2. 1 + n = n + 1 /\ 1 \in 1..1 /\ \A i \in 1..n : 1 + i = i + 1
            BY <1>1
        <3> QED BY <3>1, <3>2
    <2> DEFINE q == first \o user
    <2> HIDE DEF q
    <2>4. q \in Seq(U) /\ Len(q) = n + 1 /\ p.nodes = q \o last
        BY <2>2, <2>3 DEF q
    <2>5. /\ q \o last \in Seq(U) /\ Len(q \o last) = n + 2
          /\ \A i \in 1..(n + 1) : (q \o last)[i] = q[i]
          /\ (q \o last)[n + 2] = last[1]
        <3>1. /\ q \o last \in Seq(U) /\ Len(q \o last) = (n + 1) + 1
              /\ \A i \in 1..(n + 1) : (q \o last)[i] = q[i]
              /\ \A i \in 1..1 : (q \o last)[(n + 1) + i] = last[i]
            <4>1. /\ q \o last \in Seq(U) /\ Len(q \o last) = Len(q) + Len(last)
                  /\ \A i \in 1..Len(q) : (q \o last)[i] = q[i]
                  /\ \A i \in 1..Len(last) : (q \o last)[Len(q) + i] = last[i]
                <5>1. q \in Seq(U) /\ last \in Seq(U)
                    BY <1>4, <2>4
                <5> QED BY <5>1, Joined
            <4> QED BY <1>4, <2>4, <4>1, Zenon
        <3>2. (n + 1) + 1 = n + 2 /\ 1 \in 1..1
            BY <1>1
        <3> QED BY <3>1, <3>2
    <2>6. 1 \in 1..(n + 1) /\ \A i \in 1..n : i + 1 \in 1..(n + 1)
        BY <1>1
    <2> QED BY <2>1, <2>3, <2>4, <2>5, <2>6 DEF q
<1>6. chain \in Seq(E) /\ Len(chain) = n + 1
    <2>1. ASSUME NEW i \in 1..(n + 1) PROVE UserEdge(user, i) \in E
        <3>1. CASE i = 1
            <4>1. user[1].id \in Names
                BY <1>1, <1>2
            <4>2. UserEdge(user, i) = Wire(<<"listener">>, "out", user[1].id)
                BY <3>1 DEF UserEdge
            <4> DEFINE to == user[1].id
            <4> HIDE DEF to
            <4>3. to \in Names /\ UserEdge(user, i) = Wire(<<"listener">>, "out", to)
                BY <4>1, <4>2 DEF to
            <4> QED BY <4>3, TwoNames, PortNames, WireType
        <3>2. CASE i # 1
            <4>1. i - 1 \in 1..n /\ (i <= n => i \in 1..n)
                BY <1>1, <3>2
            <4> DEFINE to == IF i > n THEN <<"client">> ELSE user[i].id
            <4>2. user[i - 1].id \in Names /\ to \in Names
                BY <1>1, <1>2, <4>1, TwoNames
            <4>3. UserEdge(user, i) = Wire(user[i - 1].id, "success", to)
                BY <3>2 DEF UserEdge
            <4> DEFINE from == user[i - 1].id
            <4> HIDE DEF to, from
            <4>4. from \in Names /\ to \in Names /\ UserEdge(user, i) = Wire(from, "success", to)
                BY <4>2, <4>3 DEF from
            <4> QED BY <4>4, PortNames, WireType
        <3> QED BY <3>1, <3>2
    <2> HIDE DEF E
    <2>2. chain \in [1..(n + 1) -> E]
        BY <2>1
    <2> QED BY <1>1, <2>2
<1>7. failing \in Seq(E) /\ Len(failing) = IF wired THEN n ELSE 0
    <2>1. ASSUME NEW i \in 1..n PROVE ErrorEdge(user, i) \in E
        BY <1>2, TwoNames, PortNames, WireEnds DEF ErrorEdge
    <2> HIDE DEF E
    <2>2. CASE wired
        <3>1. failing \in [1..n -> E]
            BY <1>1, <2>1, <2>2
        <3> QED BY <1>1, <2>2, <3>1
    <2>3. CASE ~wired
        BY <2>3
    <2> QED BY <2>2, <2>3
<1>8. p.edges = chain \o failing /\ p.error_handler = NoNode
    BY <1>3
<1>9. /\ p.edges \in Seq(E) /\ Len(p.edges) = n + 1 + (IF wired THEN n ELSE 0)
      /\ \A i \in 1..(n + 1) : p.edges[i] = chain[i]
      /\ wired => \A i \in 1..n : p.edges[n + 1 + i] = failing[i]
    <2> DEFINE f == IF wired THEN n ELSE 0
    <2> HIDE DEF E, chain, failing, p, n
    <2>1. /\ p.edges \in Seq(E) /\ Len(p.edges) = (n + 1) + f
          /\ \A i \in 1..(n + 1) : p.edges[i] = chain[i]
          /\ \A i \in 1..f : p.edges[(n + 1) + i] = failing[i]
        <3>1. /\ chain \o failing \in Seq(E) /\ Len(chain \o failing) = Len(chain) + Len(failing)
              /\ \A i \in 1..Len(chain) : (chain \o failing)[i] = chain[i]
              /\ \A i \in 1..Len(failing) : (chain \o failing)[Len(chain) + i] = failing[i]
            <4>1. chain \in Seq(E) /\ failing \in Seq(E)
                BY <1>6, <1>7
            <4> QED BY <4>1, Joined
        <3>2. Len(chain) = n + 1 /\ Len(failing) = f /\ p.edges = chain \o failing
            BY <1>6, <1>7, <1>8
        <3> HIDE DEF f
        <3> QED BY <3>1, <3>2, Zenon
    <2> QED BY <2>1
<1>10. wired => \A i \in 1..n : failing[i] = ErrorEdge(user, i)
    BY <1>1
<1>11. \A i \in 1..(n + 1) : chain[i] = UserEdge(user, i)
    OBVIOUS
<1>12. NoNode \in Seq(Segment)
    BY DEF NoNode
<1> HIDE DEF chain, failing, p
<1>13. WellFormed(p)
    BY <1>5, <1>8, <1>9, <1>12 DEF WellFormed, Names
<1>14. DOMAIN p.nodes = 1..(n + 2) /\ DOMAIN p.edges = 1..(n + 1 + (IF wired THEN n ELSE 0))
    <2> HIDE DEF n, U, E
    <2> QED BY <1>5, <1>9, Zenon, LenProperties
<1> QED BY <1>5, <1>8, <1>9, <1>10, <1>11, <1>13, <1>14 DEF p

\* The two readings of an edge: from's node and port, and to's node.
Ends(edge, from, port, to) ==
    /\ parse_edge_endpoint(edge.from).node = from
    /\ parse_edge_endpoint(edge.from).port = port
    /\ parse_edge_endpoint(edge.to).node = to
    /\ FirstSegment(edge.from) = <<from[1]>>
    /\ FirstSegment(edge.to) = <<to[1]>>

\* The synthesised edges, endpoint by endpoint: edge i leads into user node i,
\* or from the last one into the client; edge n + 1 + i is the error edge of i.
LEMMA AroundEdges ==
    ASSUME NEW user, UserList(user), NEW wired \in BOOLEAN
    PROVE  LET n == Len(user)
               e == Around(user, wired).edges
           IN  /\ Ends(e[1], <<"listener">>, "out", user[1].id)
               /\ \A i \in 1..(n - 1) : Ends(e[i + 1], user[i].id, "success", user[i + 1].id)
               /\ Ends(e[n + 1], user[n].id, "success", <<"client">>)
               /\ wired => \A i \in 1..n : Ends(e[n + 1 + i], user[i].id, "error", <<"client">>)
<1> DEFINE n == Len(user)
           e == Around(user, wired).edges
<1>1. /\ \A i \in 1..(n + 1) : e[i] = UserEdge(user, i)
      /\ wired => \A i \in 1..n : e[n + 1 + i] = ErrorEdge(user, i)
    BY AroundParts
<1>2. n \in Nat /\ n > 0
    BY DEF UserList
<1>3. \A i \in 1..n : user[i].id \in Names
    BY UserNames
<1> HIDE DEF e
<1>4. ASSUME NEW k, NEW from \in Names, NEW port \in Segment, NEW to \in Names,
             e[k] = Wire(from, port, to)
      PROVE  Ends(e[k], from, port, to)
    <2> DEFINE w == Wire(from, port, to)
    <2>1. /\ parse_edge_endpoint(w.from) = [node |-> from, port |-> port]
          /\ parse_edge_endpoint(w.to) = [node |-> to, port |-> "in"]
          /\ FirstSegment(w.from) = <<from[1]>>
          /\ FirstSegment(w.to) = <<to[1]>>
        BY WireEnds
    <2> HIDE DEF w
    <2>2. Ends(w, from, port, to)
        BY <2>1 DEF Ends
    <2> QED BY <1>4, <2>2 DEF w
<1>5. Ends(e[1], <<"listener">>, "out", user[1].id)
    <2>1. 1 \in 1..(n + 1) /\ 1 \in 1..n
        BY <1>2
    <2>2. e[1] = Wire(<<"listener">>, "out", user[1].id)
        BY <1>1, <2>1 DEF UserEdge
    <2> QED BY <1>3, <1>4, <2>1, <2>2, TwoNames, PortNames
<1>6. ASSUME NEW i \in 1..(n - 1)
      PROVE  Ends(e[i + 1], user[i].id, "success", user[i + 1].id)
    <2>1. /\ i \in 1..n /\ i + 1 \in 1..n /\ i + 1 \in 1..(n + 1)
          /\ i + 1 # 1 /\ ~(i + 1 > n) /\ (i + 1) - 1 = i
        BY <1>2
    <2> HIDE DEF n
    <2>2. e[i + 1] = Wire(user[i].id, "success", user[i + 1].id)
        BY <1>1, <2>1 DEF UserEdge, n
    <2> QED BY <1>3, <1>4, <2>1, <2>2, PortNames
<1>7. Ends(e[n + 1], user[n].id, "success", <<"client">>)
    <2>1. /\ n \in 1..n /\ n + 1 \in 1..(n + 1)
          /\ n + 1 # 1 /\ n + 1 > n /\ (n + 1) - 1 = n
        BY <1>2
    <2> HIDE DEF n
    <2>2. e[n + 1] = Wire(user[n].id, "success", <<"client">>)
        BY <1>1, <2>1 DEF UserEdge, n
    <2> QED BY <1>3, <1>4, <2>1, <2>2, TwoNames, PortNames
<1>8. ASSUME wired, NEW i \in 1..n
      PROVE  Ends(e[n + 1 + i], user[i].id, "error", <<"client">>)
    <2>1. e[n + 1 + i] = Wire(user[i].id, "error", <<"client">>)
        BY <1>1, <1>8 DEF ErrorEdge
    <2> QED BY <1>3, <1>4, <2>1, TwoNames, PortNames
<1> QED BY <1>5, <1>6, <1>7, <1>8 DEF e

\* An edge is the listener's, a success edge or an error edge.
LEMMA EdgeKinds ==
    ASSUME NEW n \in Nat, n > 0, NEW wired \in BOOLEAN,
           NEW k \in 1..(n + 1 + (IF wired THEN n ELSE 0))
    PROVE  \/ k = 1
           \/ \E i \in 1..n : k = i + 1
           \/ wired /\ \E i \in 1..n : k = n + 1 + i
<1>1. CASE k <= n + 1 /\ k # 1
    <2>1. k - 1 \in 1..n /\ k = (k - 1) + 1
        BY <1>1
    <2> QED BY <2>1
<1>2. CASE k > n + 1
    <2> DEFINE i == k - (n + 1)
    <2>1. CASE wired
        <3>1. i \in 1..n /\ k = n + 1 + i
            BY <1>2, <2>1
        <3> HIDE DEF i
        <3> QED BY <2>1, <3>1
    <2>2. CASE ~wired
        BY <1>2, <2>2
    <2> QED BY <2>1, <2>2
<1> QED BY <1>1, <1>2

LEMMA LastOfOne ==
    ASSUME NEW n \in Nat, n > 0
    PROVE  LastOf({n}) = n
<1>1. {n} \in SUBSET (1..n) /\ {n} # {}
    OBVIOUS
<1> QED BY <1>1, LastOfMember

\* What the walk of a synthesised policy finds: it enters at the first user
\* node, success leads to the next one and from the last one to the client, and
\* an error leads to the client or nowhere.  This takes ids that are distinct
\* and are not those of the two nodes around them.
Distinct(user) ==
    /\ \A i, j \in 1..Len(user) : user[i].id = user[j].id => i = j
    /\ \A i \in 1..Len(user) : /\ user[i].id \notin {<<"listener">>, <<"client">>}
                               /\ user[i].type \notin {"listener", "client"}

LEMMA AroundWalk ==
    ASSUME NEW user, UserList(user), NEW wired \in BOOLEAN, Distinct(user)
    PROVE  LET n == Len(user)
               p == Around(user, wired)
           IN  /\ entry_node_id(p) = user[1].id
               /\ \A i \in 1..(n - 1) : success_edge(p, user[i].id) = user[i + 1].id
               /\ success_edge(p, user[n].id) = <<"client">>
               /\ \A i \in 1..n :
                     ErrorTarget(p, user[i].id) = IF wired THEN <<"client">> ELSE NoNode
               /\ terminal_node_ids(p) = {<<"client">>}
               /\ <<"client">> \in NodeIds(p)
               /\ \A i \in 1..n : user[i].id \in NodeIds(p)
               /\ ~MayFail(p, <<"client">>)
<1> DEFINE n == Len(user)
           p == Around(user, wired)
           m == n + 1 + (IF wired THEN n ELSE 0)
<1>1. /\ p.error_handler = NoNode
      /\ DOMAIN p.nodes = 1..(n + 2)
      /\ p.nodes[1] = [id |-> <<"listener">>, type |-> "listener"]
      /\ \A i \in 1..n : p.nodes[i + 1] = user[i]
      /\ p.nodes[n + 2] = [id |-> <<"client">>, type |-> "client"]
      /\ DOMAIN p.edges = 1..m
    BY AroundParts
<1>2. n \in Nat /\ n > 0
    BY DEF UserList
<1>3. /\ Ends(p.edges[1], <<"listener">>, "out", user[1].id)
      /\ \A i \in 1..(n - 1) : Ends(p.edges[i + 1], user[i].id, "success", user[i + 1].id)
      /\ Ends(p.edges[n + 1], user[n].id, "success", <<"client">>)
      /\ wired => \A i \in 1..n : Ends(p.edges[n + 1 + i], user[i].id, "error", <<"client">>)
    BY AroundEdges
<1> DEFINE fn(k) == parse_edge_endpoint(p.edges[k].from).node
           fp(k) == parse_edge_endpoint(p.edges[k].from).port
           tn(k) == parse_edge_endpoint(p.edges[k].to).node
<1>11. \A k, x, ports : k \in EdgesOut(p, x, ports) <=> k \in 1..m /\ fn(k) = x /\ fp(k) \in ports
    BY <1>1 DEF EdgesOut
<1>12. \A x, ports : EdgeTarget(p, x, ports) = IF EdgesOut(p, x, ports) = {} THEN NoNode
                                              ELSE tn(LastOf(EdgesOut(p, x, ports)))
    BY DEF EdgeTarget
<1> HIDE DEF p
<1>4. /\ fn(1) = <<"listener">> /\ fp(1) = "out" /\ tn(1) = user[1].id
      /\ \A i \in 1..(n - 1) : fn(i + 1) = user[i].id /\ fp(i + 1) = "success" /\ tn(i + 1) = user[i + 1].id
      /\ fn(n + 1) = user[n].id /\ fp(n + 1) = "success" /\ tn(n + 1) = <<"client">>
    BY <1>3 DEF Ends
<1>5. ASSUME NEW i \in 1..n
      PROVE  fn(i + 1) = user[i].id /\ fp(i + 1) = "success"
    <2>1. i \in 1..(n - 1) \/ i = n
        BY <1>2
    <2> HIDE DEF n, fn, fp, tn
    <2> QED BY <1>4, <2>1
<1>6. ASSUME wired, NEW i \in 1..n
      PROVE  fn(n + 1 + i) = user[i].id /\ fp(n + 1 + i) = "error" /\ tn(n + 1 + i) = <<"client">>
    BY <1>3, <1>6 DEF Ends
<1> HIDE DEF fn, fp, tn, n
<1>8. ASSUME NEW k \in 1..m
      PROVE  \/ k = 1
             \/ \E i \in 1..n : k = i + 1
             \/ wired /\ \E i \in 1..n : k = n + 1 + i
    BY <1>2, EdgeKinds
<1>9. 1 \in 1..m /\ (\A i \in 1..n : i + 1 \in 1..m) /\ (wired => \A i \in 1..n : n + 1 + i \in 1..m)
    <2>1. CASE wired
        BY <1>2, <2>1
    <2>2. CASE ~wired
        BY <1>2, <2>2
    <2> QED BY <2>1, <2>2
<1> HIDE DEF m
<1>10. /\ \A i, j \in 1..n : user[i].id = user[j].id => i = j
       /\ \A i \in 1..n : /\ user[i].id \notin {<<"listener">>, <<"client">>}
                           /\ user[i].type \notin {"listener", "client"}
    BY DEF Distinct, n
<1>13. EdgesOut(p, <<"listener">>, SuccessPorts) = {1}
    <2>1. 1 \in EdgesOut(p, <<"listener">>, SuccessPorts)
        BY <1>4, <1>9, <1>11 DEF SuccessPorts
    <2>2. ASSUME NEW k \in EdgesOut(p, <<"listener">>, SuccessPorts), k # 1
          PROVE  FALSE
        <3>1. k \in 1..m /\ fn(k) = <<"listener">>
            BY <1>11
        <3>2. PICK i \in 1..n : fn(k) = user[i].id
            BY <1>5, <1>6, <1>8, <2>2, <3>1
        <3> QED BY <1>10, <3>1, <3>2
    <2> QED BY <2>1, <2>2
<1>14. ASSUME NEW i \in 1..n
       PROVE  /\ EdgesOut(p, user[i].id, SuccessPorts) = {i + 1}
              /\ EdgesOut(p, user[i].id, {"error"}) = IF wired THEN {n + 1 + i} ELSE {}
    <2>0. user[i].id # <<"listener">>
        BY <1>10
    <2>1. i + 1 \in EdgesOut(p, user[i].id, SuccessPorts)
        BY <1>5, <1>9, <1>11 DEF SuccessPorts
    <2>2. wired => n + 1 + i \in EdgesOut(p, user[i].id, {"error"})
        BY <1>6, <1>9, <1>11
    <2>3. ASSUME NEW k \in EdgesOut(p, user[i].id, SuccessPorts) PROVE k = i + 1
        <3>1. k \in 1..m
            BY <1>11
        <3>2. fn(k) = user[i].id /\ fp(k) \in SuccessPorts
            BY <1>11
        <3>3. CASE k = 1
            BY <1>4, <2>0, <3>2, <3>3
        <3>4. CASE \E j \in 1..n : k = j + 1
            <4>1. PICK j \in 1..n : k = j + 1
                BY <3>4
            <4>2. user[j].id = user[i].id
                BY <1>5, <3>2, <4>1
            <4> QED BY <1>10, <4>1, <4>2
        <3>5. CASE wired /\ \E j \in 1..n : k = n + 1 + j
            <4>1. PICK j \in 1..n : k = n + 1 + j
                BY <3>5
            <4>2. fp(k) = "error"
                BY <1>6, <3>5, <4>1
            <4> QED BY <3>2, <4>2 DEF SuccessPorts
        <3> QED BY <1>8, <3>1, <3>3, <3>4, <3>5
    <2>4. ASSUME NEW k \in EdgesOut(p, user[i].id, {"error"}) PROVE wired /\ k = n + 1 + i
        <3>1. k \in 1..m
            BY <1>11
        <3>2. fn(k) = user[i].id /\ fp(k) = "error"
            BY <1>11
        <3>3. CASE k = 1
            BY <1>4, <2>0, <3>2, <3>3
        <3>4. CASE \E j \in 1..n : k = j + 1
            <4>1. PICK j \in 1..n : k = j + 1
                BY <3>4
            <4>2. fp(k) = "success"
                BY <1>5, <4>1
            <4> QED BY <3>2, <4>2
        <3>5. CASE wired /\ \E j \in 1..n : k = n + 1 + j
            <4>1. PICK j \in 1..n : k = n + 1 + j
                BY <3>5
            <4>2. user[j].id = user[i].id
                BY <1>6, <3>2, <3>5, <4>1
            <4> QED BY <1>10, <3>5, <4>1, <4>2
        <3> QED BY <1>8, <3>1, <3>3, <3>4, <3>5
    <2>5. EdgesOut(p, user[i].id, SuccessPorts) = {i + 1}
        BY <2>1, <2>3
    <2>6. EdgesOut(p, user[i].id, {"error"}) = IF wired THEN {n + 1 + i} ELSE {}
        BY <2>2, <2>4
    <2> QED BY <2>5, <2>6
<1>15. /\ \A i \in 1..(n - 1) : success_edge(p, user[i].id) = user[i + 1].id
       /\ success_edge(p, user[n].id) = <<"client">>
    <2>1. ASSUME NEW i \in 1..n
          PROVE  success_edge(p, user[i].id) = tn(i + 1)
        <3>1. LastOf({i + 1}) = i + 1
            BY <1>2, LastOfOne
        <3> QED BY <1>12, <1>14, <3>1 DEF success_edge
    <2>2. n \in 1..n /\ \A i \in 1..(n - 1) : i \in 1..n
        BY <1>2
    <2> QED BY <1>4, <2>1, <2>2
<1>16. ASSUME NEW i \in 1..n
       PROVE  ErrorTarget(p, user[i].id) = IF wired THEN <<"client">> ELSE NoNode
    <2>1. CASE wired
        <3>1. LastOf({n + 1 + i}) = n + 1 + i
            <4>1. n + 1 + i \in Nat /\ n + 1 + i > 0
                BY <1>2
            <4> QED BY <4>1, LastOfOne
        <3>2. error_edge(p, user[i].id) = <<"client">>
            <4>1. EdgesOut(p, user[i].id, {"error"}) = {n + 1 + i} /\ tn(n + 1 + i) = <<"client">>
                BY <1>6, <1>14, <2>1
            <4> HIDE DEF tn
            <4> QED BY <1>12, <3>1, <4>1 DEF error_edge
        <3>3. <<"client">> # NoNode
            BY TwoNames DEF Names
        <3> QED BY <2>1, <3>2, <3>3 DEF ErrorTarget
    <2>2. CASE ~wired
        <3>1. error_edge(p, user[i].id) = NoNode
            BY <1>12, <1>14, <2>2 DEF error_edge
        <3> QED BY <1>1, <2>2, <3>1 DEF ErrorTarget
    <2> QED BY <2>1, <2>2
<1>17. ASSUME NEW k \in 1..(n + 2)
       PROVE  k = 1 \/ k = n + 2 \/ \E i \in 1..n : k = i + 1 /\ p.nodes[k] = user[i]
    <2>1. CASE k # 1 /\ k # n + 2
        <3>1. k - 1 \in 1..n /\ k = (k - 1) + 1
            BY <1>2, <2>1
        <3> QED BY <1>1, <3>1
    <2> QED BY <2>1
<1>18. 1 \in 1..(n + 2) /\ n + 2 \in 1..(n + 2) /\ \A i \in 1..n : i + 1 \in 1..(n + 2)
    BY <1>2
<1>19. {i \in DOMAIN p.nodes : p.nodes[i].type = "listener"} = {1}
    BY <1>1, <1>10, <1>17, <1>18
<1>20. {i \in DOMAIN p.nodes : p.nodes[i].type = "client"} = {n + 2}
    BY <1>1, <1>10, <1>17, <1>18
<1>21. {i \in DOMAIN p.nodes : p.nodes[i].id = <<"client">>} = {n + 2}
    BY <1>1, <1>10, <1>17, <1>18, TwoNames
<1>22. LastOf({1}) = 1 /\ LastOf({n + 2}) = n + 2
    BY <1>2, LastOfOne
<1>23. entry_node_id(p) = user[1].id
    <2>1. listener_node_id(p) = <<"listener">>
        <3>1. listener_node_id(p) = p.nodes[1].id
            BY <1>19, <1>22, Zenon DEF listener_node_id
        <3> QED BY <1>1, <3>1
    <2>2. success_edge(p, <<"listener">>) = user[1].id
        BY <1>4, <1>12, <1>13, <1>22 DEF success_edge
    <2>3. user[1].id # NoNode
        <3>1. 1 \in 1..Len(user)
            BY <1>2 DEF n
        <3> QED BY <3>1, UserNames DEF Names
    <2> QED BY <2>1, <2>2, <2>3 DEF entry_node_id
<1>24. terminal_node_ids(p) = {<<"client">>}
    BY <1>1, <1>20 DEF terminal_node_ids, IdsOfType
<1>25. <<"client">> \in NodeIds(p) /\ \A i \in 1..n : user[i].id \in NodeIds(p)
    BY <1>1, <1>18 DEF NodeIds
<1>26. ~MayFail(p, <<"client">>)
    <2>1. PluginType(p, <<"client">>) = p.nodes[n + 2].type
        BY <1>21, <1>22, Zenon DEF PluginType
    <2> QED BY <1>1, <2>1 DEF MayFail
<1> QED BY <1>15, <1>16, <1>23, <1>24, <1>25, <1>26 DEF p, n

\* A synthesised policy passes validation and compiles, unless an id is dotted
\* or a type is unknown.  Here an id may be one of the two that are added.
LEMMA AroundValid ==
    ASSUME NEW user, UserList(user), NEW wired \in BOOLEAN,
           \A i, j \in 1..Len(user) : user[i].id = user[j].id => i = j,
           \A i \in 1..Len(user) : user[i].type # "unknown" /\ Len(user[i].id) = 1
    PROVE  validate_policy(Around(user, wired)) /\ compile_policy_ok(Around(user, wired))
<1> DEFINE n == Len(user)
           p == Around(user, wired)
           m == n + 1 + (IF wired THEN n ELSE 0)
<1>1. /\ p.error_handler = NoNode
      /\ DOMAIN p.nodes = 1..(n + 2)
      /\ p.nodes[1] = [id |-> <<"listener">>, type |-> "listener"]
      /\ \A i \in 1..n : p.nodes[i + 1] = user[i]
      /\ p.nodes[n + 2] = [id |-> <<"client">>, type |-> "client"]
      /\ DOMAIN p.edges = 1..m
    BY AroundParts
<1>2. n \in Nat /\ n > 0
    BY DEF UserList
<1>3. /\ Ends(p.edges[1], <<"listener">>, "out", user[1].id)
      /\ \A i \in 1..(n - 1) : Ends(p.edges[i + 1], user[i].id, "success", user[i + 1].id)
      /\ Ends(p.edges[n + 1], user[n].id, "success", <<"client">>)
      /\ wired => \A i \in 1..n : Ends(p.edges[n + 1 + i], user[i].id, "error", <<"client">>)
    BY AroundEdges
<1>4. /\ \A i, j \in 1..n : user[i].id = user[j].id => i = j
      /\ \A i \in 1..n : user[i].type # "unknown" /\ user[i].id = <<user[i].id[1]>>
    <2>1. ASSUME NEW i \in 1..n PROVE user[i].id = <<user[i].id[1]>>
        <3>1. user[i].id \in Seq(Segment)
            BY UserNames DEF Names
        <3> QED BY <3>1, Singleton
    <2> QED BY <2>1
<1> HIDE DEF p
<1> DEFINE ff(k) == FirstSegment(p.edges[k].from)
           ft(k) == FirstSegment(p.edges[k].to)
           fp(k) == parse_edge_endpoint(p.edges[k].from).port
           tn(k) == parse_edge_endpoint(p.edges[k].to).node
           Ids == NodeIds(p)
<1>5. <<"listener">> \in Ids /\ <<"client">> \in Ids /\ \A i \in 1..n : user[i].id \in Ids
    <2>1. 1 \in 1..(n + 2) /\ n + 2 \in 1..(n + 2) /\ \A i \in 1..n : i + 1 \in 1..(n + 2)
        BY <1>2
    <2> HIDE DEF n
    <2> QED BY <1>1, <2>1 DEF NodeIds
<1>6. /\ ff(1) = <<"listener">> /\ fp(1) = "out"
      /\ \A i \in 1..n : ff(i + 1) = user[i].id /\ fp(i + 1) = "success"
      /\ \A i \in 1..n : tn(i) = user[i].id /\ ft(i) = user[i].id
      /\ tn(n + 1) = <<"client">> /\ ft(n + 1) = <<"client">>
    <2>1. <<"listener">> = << <<"listener">>[1] >> /\ <<"client">> = << <<"client">>[1] >>
        OBVIOUS
    <2>2. 1 \in 1..n /\ n \in 1..n /\ \A i \in 1..n : i \in 1..(n - 1) \/ i = n
        BY <1>2
    <2>3. \A i \in 1..n : i = 1 \/ (i - 1 \in 1..(n - 1) /\ (i - 1) + 1 = i)
        BY <1>2
    <2>4. \A i \in 1..(n - 1) : i \in 1..n /\ i + 1 \in 1..n
        BY <1>2
    <2> HIDE DEF n
    <2>5. ff(1) = <<"listener">> /\ fp(1) = "out" /\ tn(1) = user[1].id /\ ft(1) = user[1].id
        BY <1>3, <1>4, <2>1, <2>2 DEF Ends
    <2>6. /\ ff(n + 1) = user[n].id /\ fp(n + 1) = "success"
          /\ tn(n + 1) = <<"client">> /\ ft(n + 1) = <<"client">>
        BY <1>3, <1>4, <2>1, <2>2 DEF Ends
    <2>7. ASSUME NEW i \in 1..(n - 1)
          PROVE  /\ ff(i + 1) = user[i].id /\ fp(i + 1) = "success"
                 /\ tn(i + 1) = user[i + 1].id /\ ft(i + 1) = user[i + 1].id
        <3>1. Ends(p.edges[i + 1], user[i].id, "success", user[i + 1].id)
            BY <1>3
        <3>2. user[i].id = <<user[i].id[1]>> /\ user[i + 1].id = <<user[i + 1].id[1]>>
            BY <1>4, <2>4
        <3> QED BY <3>1, <3>2 DEF Ends
    <2> HIDE DEF ff, fp, tn, ft
    <2>8. \A i \in 1..n : ff(i + 1) = user[i].id /\ fp(i + 1) = "success"
        BY <2>2, <2>6, <2>7
    <2>9. ASSUME NEW i \in 1..n PROVE tn(i) = user[i].id /\ ft(i) = user[i].id
        <3>1. CASE i = 1
            BY <2>5, <3>1
        <3>2. CASE i # 1
            <4> DEFINE j == i - 1
            <4>1. j \in 1..(n - 1) /\ j + 1 = i
                BY <2>3, <3>2
            <4>2. tn(j + 1) = user[j + 1].id /\ ft(j + 1) = user[j + 1].id
                <5> HIDE DEF j
                <5> QED BY <2>7, <4>1
            <4> HIDE DEF j
            <4> QED BY <4>1, <4>2
        <3> QED BY <3>1, <3>2
    <2> QED BY <2>5, <2>6, <2>8, <2>9
<1>7. ASSUME wired, NEW i \in 1..n
      PROVE  /\ ff(n + 1 + i) = user[i].id /\ fp(n + 1 + i) = "error"
             /\ tn(n + 1 + i) = <<"client">> /\ ft(n + 1 + i) = <<"client">>
    <2>1. Ends(p.edges[n + 1 + i], user[i].id, "error", <<"client">>)
        BY <1>3, <1>7
    <2>2. <<"client">> = << <<"client">>[1] >> /\ user[i].id = <<user[i].id[1]>>
        BY <1>4
    <2> HIDE DEF n
    <2> QED BY <2>1, <2>2 DEF Ends
<1>8. ASSUME NEW k \in 1..m
      PROVE  \/ k = 1
             \/ \E i \in 1..n : k = i + 1
             \/ wired /\ \E i \in 1..n : k = n + 1 + i
    BY <1>2, EdgeKinds
<1>9. 1 \in 1..m /\ n + 1 \in 1..m /\ \A i \in 1..n : i \in 1..m
    <2>1. CASE wired
        BY <1>2, <2>1
    <2>2. CASE ~wired
        BY <1>2, <2>2
    <2> QED BY <2>1, <2>2
<1>10. 1 \in 1..n /\ \A i \in 1..n : i + 1 \in 1..n \/ i + 1 = n + 1
    BY <1>2
<1> HIDE DEF n, m, ff, ft, fp, tn, Ids
<1>11. ASSUME NEW k \in 1..m
       PROVE  /\ ff(k) \in Ids /\ ft(k) \in Ids
              /\ fp(k) \in SuccessPorts \cup {"error"}
              /\ k \in 1..n \/ (tn(k) = <<"client">> /\ ft(k) = <<"client">>)
    <2>1. CASE k = 1
        <3>1. ff(k) = <<"listener">> /\ fp(k) = "out" /\ k \in 1..n
            BY <1>6, <1>10, <2>1
        <3>2. ft(k) = user[k].id
            BY <1>6, <3>1
        <3>3. ff(k) \in Ids /\ ft(k) \in Ids
            BY <1>5, <3>1, <3>2
        <3>4. fp(k) \in SuccessPorts \cup {"error"}
            BY <3>1 DEF SuccessPorts
        <3> QED BY <3>1, <3>3, <3>4
    <2>2. CASE \E i \in 1..n : k = i + 1
        <3>1. PICK i \in 1..n : k = i + 1
            BY <2>2
        <3>2. ff(k) = user[i].id /\ fp(k) = "success" /\ (k \in 1..n \/ k = n + 1)
            BY <1>6, <1>10, <3>1
        <3>3. \/ k \in 1..n /\ ft(k) = user[k].id
              \/ tn(k) = <<"client">> /\ ft(k) = <<"client">>
            BY <1>6, <3>2
        <3>4. ff(k) \in Ids /\ ft(k) \in Ids
            BY <1>5, <3>2, <3>3
        <3>5. fp(k) \in SuccessPorts \cup {"error"}
            BY <3>2 DEF SuccessPorts
        <3> QED BY <3>3, <3>4, <3>5
    <2>3. CASE wired /\ \E i \in 1..n : k = n + 1 + i
        <3>1. PICK i \in 1..n : k = n + 1 + i
            BY <2>3
        <3>2. /\ ff(k) = user[i].id /\ fp(k) = "error"
              /\ tn(k) = <<"client">> /\ ft(k) = <<"client">>
            BY <1>7, <2>3, <3>1
        <3> QED BY <1>5, <3>2 DEF SuccessPorts
    <2> QED BY <1>8, <2>1, <2>2, <2>3
<1>12. EdgesResolve(p)
    BY <1>1, <1>11 DEF EdgesResolve, ff, ft, Ids
<1>13. HasListener(p) /\ HasClient(p)
    <2>1. 1 \in 1..(n + 2) /\ n + 2 \in 1..(n + 2)
        BY <1>2
    <2>2. p.nodes[1].type = "listener" /\ p.nodes[n + 2].type = "client"
        BY <1>1
    <2>3. \E i \in DOMAIN p.nodes : p.nodes[i].type = "listener"
        BY <1>1, <2>1, <2>2
    <2>4. \E i \in DOMAIN p.nodes : p.nodes[i].type = "client"
        BY <1>1, <2>1, <2>2
    <2>5. HasListener(p)
        BY <2>3 DEF HasListener, IdsOfType
    <2>6. HasClient(p)
        BY <2>4 DEF HasClient, IdsOfType
    <2> QED BY <2>5, <2>6
<1>14. OneEdgePerInput(p)
    <2>1. <<"client">> \in IdsOfType(p, "client")
        <3>1. n + 2 \in 1..(n + 2)
            BY <1>2
        <3>2. p.nodes[n + 2].id = <<"client">> /\ p.nodes[n + 2].type = "client"
            BY <1>1
        <3> QED BY <1>1, <3>1, <3>2 DEF IdsOfType
    <2>2. ASSUME NEW k \in 1..m, NEW l \in 1..m, k # l, p.edges[k].to = p.edges[l].to
          PROVE  ft(k) = <<"client">>
        <3>1. ft(k) = ft(l) /\ tn(k) = tn(l)
            BY <2>2 DEF ft, tn
        <3>2. ~(k \in 1..n /\ l \in 1..n)
            BY <1>4, <1>6, <2>2, <3>1
        <3> QED BY <1>11, <3>1, <3>2
    <2> QED BY <1>1, <2>1, <2>2 DEF OneEdgePerInput, ft
<1>15. NoOrphans(p)
    <2>1. ASSUME NEW x \in Ids PROVE \E k \in 1..m : x = ff(k) \/ x = ft(k)
        <3>1. PICK q \in 1..(n + 2) : x = p.nodes[q].id
            BY <1>1 DEF Ids, NodeIds
        <3>2. CASE q = 1
            BY <1>1, <1>6, <1>9, <3>1, <3>2
        <3>3. CASE q = n + 2
            BY <1>1, <1>6, <1>9, <3>1, <3>3
        <3>4. CASE q # 1 /\ q # n + 2
            <4> DEFINE i == q - 1
            <4>1. i \in 1..n /\ i + 1 = q
                BY <1>2, <3>4
            <4> HIDE DEF i
            <4>2. x = user[i].id
                BY <1>1, <3>1, <4>1
            <4> QED BY <1>6, <1>9, <4>1, <4>2
        <3> QED BY <3>2, <3>3, <3>4
    <2> QED BY <1>1, <2>1 DEF NoOrphans, ff, ft, Ids
<1>16. HandlerResolves(p)
    BY <1>1 DEF HandlerResolves
<1>17. ASSUME NEW q \in 1..(n + 2) PROVE p.nodes[q].type # "unknown"
    <2>1. CASE q # 1 /\ q # n + 2
        <3> DEFINE i == q - 1
        <3>1. i \in 1..n /\ i + 1 = q
            BY <1>2, <2>1
        <3> HIDE DEF i
        <3> QED BY <1>1, <1>4, <3>1
    <2> QED BY <1>1, <2>1
<1>18. compile_policy_ok(p)
    BY <1>1, <1>11, <1>13, <1>17 DEF compile_policy_ok, fp
<1> QED BY <1>12, <1>13, <1>14, <1>15, <1>16, <1>18 DEF validate_policy, p

-----------------------------------------------------------------------------
(* The invariant of a sandbox run. *)

\* What the walk of a synthesised policy has done so far: the first k user nodes
\* are visited, and either nothing failed and the next node is due, or the k-th
\* failed and its error edge leads to the client.
VisitedUpTo(user, k) == \A i \in 1..k : steps[i].node = user[i].id

Underway(user, wired, k) ==
    /\ Len(steps) = k /\ VisitedUpTo(user, k)
    /\ \/ /\ errors = << >>
          /\ current = IF k = Len(user) THEN <<"client">> ELSE user[k + 1].id
       \/ k > 0 /\ wired /\ errors = <<user[k].id>> /\ current = <<"client">>

OverClean(user) ==
    /\ errors = << >>
    /\ Len(steps) = Len(user) + 1 /\ VisitedUpTo(user, Len(user))
    /\ steps[Len(user) + 1].node = <<"client">>

OverFailed(user, wired, k) ==
    /\ errors = <<user[k].id>> /\ VisitedUpTo(user, k)
    /\ wired => Len(steps) = k + 1 /\ steps[k + 1].node = <<"client">>
    /\ ~wired => Len(steps) = k

PathOf(user, wired) ==
    /\ pc = "walking" => \E k \in 0..Len(user) : Underway(user, wired, k)
    /\ pc = "done" => OverClean(user) \/ \E k \in 1..Len(user) : OverFailed(user, wired, k)

\* One step of such a walk.
LEMMA PathStep ==
    ASSUME NEW user, UserList(user), Distinct(user), NEW wired \in BOOLEAN,
           policy = Around(user, wired), TraceInv, ~truncated, ~truncated',
           PathOf(user, wired), Start \/ Walk
    PROVE  PathOf(user, wired)'
<1> DEFINE n == Len(user)
<1>1. n \in Nat /\ n > 0
    BY DEF UserList
<1>2. /\ entry_node_id(policy) = user[1].id
      /\ \A i \in 1..(n - 1) : success_edge(policy, user[i].id) = user[i + 1].id
      /\ success_edge(policy, user[n].id) = <<"client">>
      /\ \A i \in 1..n :
            ErrorTarget(policy, user[i].id) = IF wired THEN <<"client">> ELSE NoNode
      /\ terminal_node_ids(policy) = {<<"client">>}
      /\ <<"client">> \in NodeIds(policy)
      /\ \A i \in 1..n : user[i].id \in NodeIds(policy)
      /\ ~MayFail(policy, <<"client">>)
    BY AroundWalk
<1>3. /\ \A i \in 1..n : user[i].id \notin {NoNode, <<"client">>}
      /\ <<"client">> # NoNode
    BY UserNames, TwoNames DEF Distinct, Names
<1>4. CASE Start
    <2>1. /\ steps = << >> /\ errors = << >> /\ pc' = "walking" /\ current' = user[1].id
          /\ UNCHANGED <<steps, errors>>
        BY <1>2, <1>4 DEF Start, TraceInv
    <2>2. 0 \in 0..n /\ 0 # n /\ 0 + 1 = 1
        BY <1>1
    <2>3. Underway(user, wired, 0)'
        BY <2>1, <2>2 DEF Underway, VisitedUpTo
    <2> QED BY <2>1, <2>2, <2>3 DEF PathOf
<1>5. CASE Walk
    <2>1. pc = "walking"
        BY <1>5 DEF Walk, NodeNotFound, PluginOk, PluginErr, Failed
    <2>2. PICK k \in 0..n : Underway(user, wired, k)
        BY <2>1 DEF PathOf
    <2>3. /\ steps \in Seq(Step) /\ errors \in Seq(Seq(Segment)) /\ max_steps \in Nat
          /\ current \in Seq(Segment)
        BY <2>1, EngineAssumption DEF TraceInv, TraceTypeOK
    <2> HIDE DEF n
    <2>4. k < n => k + 1 \in 1..n /\ k + 1 \in 0..n
        BY <1>1
    <2>5. /\ Len(steps) = k /\ VisitedUpTo(user, k)
          /\ \/ errors = << >> /\ k = n /\ current = <<"client">>
             \/ errors = << >> /\ k < n /\ current = user[k + 1].id
             \/ k \in 1..n /\ wired /\ errors = <<user[k].id>> /\ current = <<"client">>
        BY <1>1, <2>2 DEF Underway, n
    <2>6. current \in NodeIds(policy)
        BY <1>2, <2>4, <2>5
    \* a step that is recorded
    <2>7. ASSUME NEW outcome \in Outcomes, NEW edge \in EdgesTaken, NEW next \in Seq(Segment),
                 record_step(outcome, edge, next)
          PROVE  /\ Len(steps') = k + 1 /\ steps'[k + 1].node = current
                 /\ VisitedUpTo(user, k)'
                 /\ k < n /\ current = user[k + 1].id => VisitedUpTo(user, k + 1)'
        <3> DEFINE e == [node |-> current, outcome |-> outcome, edge |-> edge, next |-> next]
        <3>0. e \in Step /\ e.node = current
            BY <2>3, StepRecord
        <3>1. ~(Len(steps) >= max_steps)
            BY <2>7, Zenon DEF record_step
        <3>2. steps' = Append(steps, e)
            BY <2>7, <3>1 DEF record_step
        <3> HIDE DEF e
        <3>3. /\ Len(steps') = k + 1 /\ steps'[k + 1] = e
              /\ \A i \in 1..k : steps'[i] = steps[i]
            BY <2>3, <2>5, <3>0, <3>2, Appended
        <3>4. \A i \in 1..k : steps'[i].node = user[i].id
            BY <2>5, <3>3 DEF VisitedUpTo
        <3>5. steps'[k + 1].node = current
            BY <3>0, <3>3
        <3>6. \A i \in 1..(k + 1) : i \in 1..k \/ i = k + 1
            OBVIOUS
        <3>7. current = user[k + 1].id => \A i \in 1..(k + 1) : steps'[i].node = user[i].id
            BY <3>4, <3>5, <3>6
        <3> QED BY <3>3, <3>4, <3>5, <3>7 DEF VisitedUpTo
    <2>8. CASE NodeNotFound
        BY <2>6, <2>8 DEF NodeNotFound
    <2>9. CASE PluginOk
        <3> DEFINE terminal == current \in terminal_node_ids(policy)
                   next == IF terminal THEN NoNode ELSE success_edge(policy, current)
                   edge == IF terminal THEN "Terminal"
                           ELSE IF next # NoNode THEN "Success" ELSE "EndOfChain"
        <3>1. errors' = errors /\ Advance(next) /\ record_step("Success", edge, next)
            BY <2>9 DEF PluginOk
        <3>2. terminal <=> current = <<"client">>
            BY <1>2
        <3>3. /\ current = <<"client">> => next = NoNode
              /\ k < n /\ current = user[k + 1].id =>
                    next = IF k + 1 = n THEN <<"client">> ELSE user[k + 2].id
            <4>1. ASSUME k < n, current = user[k + 1].id
                  PROVE  next = IF k + 1 = n THEN <<"client">> ELSE user[k + 2].id
                <5>1. ~terminal
                    BY <1>3, <2>4, <3>2, <4>1
                <5>2. k + 1 # n => k + 1 \in 1..(n - 1) /\ (k + 1) + 1 = k + 2
                    BY <1>1, <4>1
                <5> HIDE DEF terminal
                <5> QED BY <1>2, <4>1, <5>1, <5>2
            <4> QED BY <3>2, <4>1
        <3>4. next \in Seq(Segment) /\ edge \in EdgesTaken /\ "Success" \in Outcomes
            <4>1. success_edge(policy, current) \in Seq(Segment) /\ NoNode \in Seq(Segment)
                BY EdgeTargetType DEF success_edge, TraceInv, TraceTypeOK, NoNode
            <4>2. edge \in {"Terminal", "Success", "EndOfChain"}
                <5> HIDE DEF terminal, next
                <5> QED BY Zenon
            <4> HIDE DEF terminal, edge
            <4> QED BY <4>1, <4>2 DEF EdgesTaken, Outcomes
        <3> HIDE DEF terminal, next, edge
        <3>5. /\ Len(steps') = k + 1 /\ steps'[k + 1].node = current
              /\ VisitedUpTo(user, k)'
              /\ k < n /\ current = user[k + 1].id => VisitedUpTo(user, k + 1)'
            BY <2>7, <3>1, <3>4
        <3>6. CASE current = <<"client">>
            <4>1. pc' = "done"
                BY <3>1, <3>3, <3>6 DEF Advance
            <4>2. CASE errors = << >> /\ k = n
                <5>1. OverClean(user)'
                    BY <3>1, <3>5, <3>6, <4>2 DEF OverClean, n
                <5> QED BY <4>1, <5>1 DEF PathOf
            <4>3. CASE k \in 1..n /\ wired /\ errors = <<user[k].id>>
                <5>1. OverFailed(user, wired, k)'
                    BY <3>1, <3>5, <3>6, <4>3 DEF OverFailed
                <5> QED BY <4>1, <4>3, <5>1 DEF PathOf, n
            <4> QED BY <1>3, <2>4, <2>5, <3>6, <4>2, <4>3
        <3>7. CASE current # <<"client">>
            <4>1. errors = << >> /\ k < n /\ current = user[k + 1].id
                BY <2>5, <3>7
            <4>2. next # NoNode
                <5>1. k + 1 # n => k + 2 \in 1..n
                    BY <1>1, <4>1
                <5> QED BY <1>3, <3>3, <4>1, <5>1
            <4>3. pc' = "walking" /\ current' = next
                BY <2>1, <3>1, <4>2 DEF Advance
            <4>4. (k + 1) + 1 = k + 2
                OBVIOUS
            <4>5. Underway(user, wired, k + 1)'
                BY <3>1, <3>3, <3>5, <4>1, <4>3, <4>4 DEF Underway, n
            <4> QED BY <2>4, <4>1, <4>3, <4>5 DEF PathOf, n
        <3> QED BY <3>6, <3>7
    <2>10. CASE PluginErr
        <3> DEFINE next == ErrorTarget(policy, current)
                   edge == IF error_edge(policy, current) # NoNode THEN "Error"
                           ELSE IF next # NoNode THEN "CatchAll" ELSE "Unhandled"
        <3>1. /\ errors' = Append(errors, current) /\ Advance(next)
              /\ record_step("Error", edge, next) /\ MayFail(policy, current)
            BY <2>10 DEF PluginErr, Failed
        <3>2. /\ errors = << >> /\ k < n /\ current = user[k + 1].id
            BY <1>2, <2>5, <3>1
        <3>3. next = IF wired THEN <<"client">> ELSE NoNode
            BY <1>2, <2>4, <3>2
        <3>4. next \in Seq(Segment) /\ edge \in EdgesTaken /\ "Error" \in Outcomes
            <4>1. edge \in {"Error", "CatchAll", "Unhandled"}
                <5> HIDE DEF next
                <5> QED BY Zenon
            <4>2. <<"client">> \in Seq(Segment) /\ NoNode \in Seq(Segment)
                BY TwoNames DEF Names, NoNode
            <4> HIDE DEF next, edge
            <4> QED BY <3>3, <4>1, <4>2 DEF EdgesTaken, Outcomes
        <3> HIDE DEF next, edge
        <3>5. Len(steps') = k + 1 /\ VisitedUpTo(user, k + 1)'
            BY <2>7, <3>1, <3>2, <3>4
        <3>6. errors' = <<user[k + 1].id>>
            BY <3>1, <3>2
        <3>7. k + 1 \in 1..n /\ k + 1 \in 0..n /\ k + 1 > 0
            BY <2>4, <3>2
        <3>8. CASE wired
            <4>1. pc' = "walking" /\ current' = <<"client">>
                BY <1>3, <2>1, <3>1, <3>3, <3>8 DEF Advance
            <4>2. Underway(user, wired, k + 1)'
                BY <3>5, <3>6, <3>7, <3>8, <4>1 DEF Underway
            <4> QED BY <3>7, <4>1, <4>2 DEF PathOf, n
        <3>9. CASE ~wired
            <4>1. pc' = "done"
                BY <3>1, <3>3, <3>9 DEF Advance
            <4>2. OverFailed(user, wired, k + 1)'
                BY <3>5, <3>6, <3>9 DEF OverFailed
            <4> QED BY <3>7, <4>1, <4>2 DEF PathOf, n
        <3> QED BY <3>8, <3>9
    <2> QED BY <1>5, <2>8, <2>9, <2>10 DEF Walk
<1> QED BY <1>4, <1>5

\* The engine's invariants, whichever policy it was given.
EngineInv ==
    /\ NeverMissingInv
    /\ TraceInv
    /\ RevisitInv
    /\ CatchAllHandlesAll
    /\ pc = "new" => response = "unset"

LEMMA EngineStep == EngineInv /\ [Next]_vars => EngineInv'
<1>1. ASSUME pc = "new" => response = "unset", [Next]_vars
      PROVE  pc' = "new" => response' = "unset"
    BY <1>1 DEF Next, Reject, Start, Walk, NodeNotFound, PluginOk, PluginErr, Failed, Advance, vars
<1> QED BY <1>1, NeverMissingStep, TraceStep, RevisitStep, CatchAllStep DEF EngineInv

\* The ids of the request are not those the synthesiser adds.
Plain == \A i \in DOMAIN request.nodes : request.nodes[i].id \notin {<<"listener">>, <<"client">>}

\* The inductive invariant: the policy of a node list is the one synthesised
\* from it, a rejected policy failed validation or compilation, a complete trace
\* is the walk of that policy, and only a finished walk is answered 200.
SandboxInv ==
    /\ request \in Requests
    /\ EngineInv
    /\ policy = Empty => pc = "new"
    /\ pc = "rejected" => ~(validate_policy(policy) /\ compile_policy_ok(policy))
    /\ answer = "200" => pc = "done"
    /\ request.for = "nodes" /\ policy # Empty =>
          /\ synthesize_ok(request.nodes)
          /\ policy = synthesize_policy(request.nodes, request.on_error)
    /\ request.for = "nodes" /\ policy # Empty /\ Plain /\ ~truncated =>
          PathOf(Named(request.nodes), request.on_error = "client")

\* An accepted node list is a list of user nodes with ids of their own.
LEMMA AcceptedList ==
    ASSUME NEW r \in Requests, synthesize_ok(r.nodes)
    PROVE  /\ Nameable(r.nodes)
           /\ UserList(Named(r.nodes))
           /\ \A i, j \in 1..Len(Named(r.nodes)) :
                 Named(r.nodes)[i].id = Named(r.nodes)[j].id => i = j
           /\ (\A i \in DOMAIN r.nodes : r.nodes[i].id \notin {<<"listener">>, <<"client">>})
                 => Distinct(Named(r.nodes))
<1> DEFINE nodes == r.nodes
           user == Named(nodes)
           n == Len(nodes)
<1>1. Nameable(nodes)
    BY SandboxAssumption DEF Nameable
<1>2. /\ user \in Seq([id : Seq(Segment) \ {NoNode}, type : NodeTypes])
      /\ Len(user) = n
      /\ \A i \in 1..n : /\ user[i].type = nodes[i].type
                         /\ user[i].id = IF nodes[i].id = NoNode THEN AutoId[i] ELSE nodes[i].id
    BY <1>1, NamedType
<1>3. n \in Nat /\ n > 0 /\ DOMAIN nodes = 1..n
    BY <1>1 DEF synthesize_ok, Nameable
<1>4. UserList(user)
    BY <1>2, <1>3 DEF UserList, Names
<1>5. \A i, j \in 1..n : user[i].id = user[j].id => i = j
    BY <1>3 DEF synthesize_ok
<1>6. ASSUME \A i \in DOMAIN nodes : nodes[i].id \notin {<<"listener">>, <<"client">>}
      PROVE  Distinct(user)
    <2>1. ASSUME NEW i \in 1..n
          PROVE  /\ user[i].id \notin {<<"listener">>, <<"client">>}
                 /\ user[i].type \notin {"listener", "client"}
        <3>1. AutoId[i] \notin {<<"listener">>, <<"client">>}
            BY <1>1, <1>3 DEF Nameable
        <3>2. nodes[i].type \notin {"listener", "client"}
            BY <1>3 DEF synthesize_ok
        <3>3. nodes[i].id \notin {<<"listener">>, <<"client">>}
            BY <1>3, <1>6
        <3> HIDE DEF user, nodes
        <3>4. user[i].id = AutoId[i] \/ user[i].id = nodes[i].id
            BY <1>2
        <3>5. user[i].type = nodes[i].type
            BY <1>2
        <3> QED BY <3>1, <3>2, <3>3, <3>4, <3>5, Zenon
    <2> HIDE DEF user, nodes
    <2> QED BY <1>2, <1>5, <2>1 DEF Distinct
<1> HIDE DEF user
<1>7. \A i, j \in 1..Len(user) : user[i].id = user[j].id => i = j
    BY <1>2, <1>5
<1> QED BY <1>1, <1>4, <1>6, <1>7 DEF user

\* Before the walk begins the invariant only asks for the policy to be the
\* one of the request.
LEMMA PolicyChosen ==
    ASSUME SandboxInv, Arrived, Synthesize \/ Lookup
    PROVE  SandboxInv'
<1>1. /\ pc = "new" /\ UNCHANGED <<pc, errors, response, steps, truncated, request, answer>>
      /\ answer = "none"
    BY DEF SandboxInv, Arrived, Synthesize, Lookup
<1>2. /\ steps = << >> /\ errors = << >> /\ truncated = FALSE /\ response = "unset"
    BY <1>1 DEF SandboxInv, EngineInv, TraceInv, TraceTypeOK
<1>3. request \in Requests
    BY DEF SandboxInv
<1>4. /\ WellFormed(policy)'
      /\ request.for = "nodes" /\ policy' # Empty =>
            /\ synthesize_ok(request.nodes)
            /\ policy' = synthesize_policy(request.nodes, request.on_error)
    <2>1. CASE Synthesize
        <3>1. /\ synthesize_ok(request.nodes)
              /\ policy' = synthesize_policy(request.nodes, request.on_error)
            BY <2>1 DEF Synthesize, Malformed
        <3>2. UserList(Named(request.nodes))
            BY <1>3, <3>1, AcceptedList
        <3>3. WellFormed(synthesize_policy(request.nodes, request.on_error))
            BY <3>2, AroundParts DEF synthesize_policy
        <3> QED BY <3>1, <3>3
    <2>2. CASE Lookup
        <3>1. policy' = request.policy /\ request.policy # Empty /\ request.for = "policy"
            BY <2>2 DEF Lookup
        <3>2. request.policy \in Policies
            BY <1>3, <3>1, SandboxAssumption
        <3> QED BY <3>1, <3>2, EngineAssumption
    <2> QED BY <2>1, <2>2
<1>5. TraceInv'
    <2>1. NothingTraced'
        BY <1>1, <1>2, <1>4 DEF NothingTraced
    <2> QED BY <2>1, TraceNew, PTL
<1>6. RevisitInv'
    BY <1>1, <1>2 DEF RevisitInv, NoHiddenLoop
<1>7. EngineInv'
    BY <1>1, <1>2, <1>4, <1>5, <1>6 DEF EngineInv, NeverMissingInv, CatchAllHandlesAll
<1> QED BY <1>1, <1>3, <1>4, <1>7 DEF SandboxInv, PathOf

\* A step of the sandbox answers, chooses the policy, or is a step of the engine.
LEMMA SandboxStep == SandboxInv /\ [SandboxNext]_sandboxVars => SandboxInv'
<1> SUFFICES ASSUME SandboxInv, [SandboxNext]_sandboxVars PROVE SandboxInv'
    OBVIOUS
<1>1. CASE Synthesize \/ Lookup
    <2>1. Arrived
        BY <1>1 DEF Synthesize, Lookup
    <2> QED BY <1>1, <2>1, PolicyChosen
<1>2. CASE UNCHANGED <<vars, request>> /\ (answer' = "200" => pc = "done")
    <2>1. /\ UNCHANGED <<policy, pc, current, errors, response, steps, truncated, request>>
          /\ UNCHANGED vars
        BY <1>2 DEF vars
    <2>2. EngineInv'
        BY <2>1, EngineStep DEF SandboxInv
    <2>3. PathOf(Named(request.nodes), request.on_error = "client")
              => PathOf(Named(request.nodes), request.on_error = "client")'
        BY <2>1 DEF PathOf, Underway, OverClean, OverFailed, VisitedUpTo
    <2> QED BY <1>2, <2>1, <2>2, <2>3 DEF SandboxInv, Plain
<1>3. CASE Rejected
    <2>1. /\ Reject /\ answer' = "400" /\ request' = request /\ policy' = policy
          /\ policy # Empty /\ pc' = "rejected" /\ truncated' = truncated
          /\ ~(validate_policy(policy) /\ compile_policy_ok(policy))
        BY <1>3 DEF Rejected, Reject
    <2>2. EngineInv'
        BY <2>1, EngineStep DEF SandboxInv, Next
    <2>3. PathOf(Named(request.nodes), request.on_error = "client")'
        BY <2>1 DEF PathOf
    <2> QED BY <2>1, <2>2, <2>3 DEF SandboxInv, Plain
<1>4. CASE Execute
    <2>1. /\ Start \/ Walk
          /\ answer = "none" /\ policy # Empty /\ UNCHANGED <<request, answer>>
        BY <1>4 DEF Execute
    <2>2. EngineInv'
        BY <2>1, EngineStep DEF SandboxInv, Next
    <2>3. policy' = policy /\ pc' # "rejected" /\ (~truncated' => ~truncated)
        <3>1. CASE Start
            BY <3>1 DEF Start
        <3>2. CASE Walk
            <4>1. policy' = policy /\ pc' # "rejected"
                BY <3>2 DEF Walk, NodeNotFound, PluginOk, PluginErr, Failed, Advance
            <4>2. \E outcome, edge, next : record_step(outcome, edge, next)
                BY <3>2, Zenon DEF Walk, NodeNotFound, PluginOk, PluginErr, Failed
            <4>3. ~truncated' => ~truncated
                BY <4>2, Zenon DEF record_step
            <4> QED BY <4>1, <4>3
        <3> QED BY <2>1, <3>1, <3>2
    <2>4. ASSUME request.for = "nodes", Plain, ~truncated'
          PROVE  PathOf(Named(request.nodes), request.on_error = "client")'
        <3>0. PICK user, wired : user = Named(request.nodes) /\ wired = (request.on_error = "client")
            OBVIOUS
        <3>1. /\ synthesize_ok(request.nodes) /\ request \in Requests /\ TraceInv
              /\ policy = synthesize_policy(request.nodes, request.on_error)
              /\ ~truncated /\ PathOf(user, wired)
            BY <2>1, <2>3, <2>4, <3>0 DEF SandboxInv, EngineInv
        <3>2. UserList(user) /\ Distinct(user)
            BY <2>4, <3>0, <3>1, AcceptedList DEF Plain
        <3>3. policy = Around(user, wired) /\ wired \in BOOLEAN
            BY <3>0, <3>1 DEF synthesize_policy
        <3>4. PathOf(user, wired)'
            BY <2>1, <2>4, <3>1, <3>2, <3>3, PathStep
        <3>5. user = Named(request.nodes)' /\ wired = (request.on_error = "client")'
            BY <2>1, <3>0
        <3> QED BY <3>4, <3>5
    <2> QED BY <2>1, <2>2, <2>3, <2>4 DEF SandboxInv, Plain
<1>5. CASE BadRequest \/ NotFound \/ BadContext \/ Timeout \/ Finish
    BY <1>2, <1>5 DEF BadRequest, NotFound, BadContext, Timeout, Finish
<1>6. CASE UNCHANGED sandboxVars
    BY <1>2, <1>6 DEF sandboxVars, SandboxInv
<1> QED BY <1>1, <1>3, <1>4, <1>5, <1>6 DEF SandboxNext, run_sandbox

\* The invariant says that the sandbox runs what it was given.
LEMMA FaithfulInv == SandboxInv => SandboxFaithful
<1> SUFFICES ASSUME SandboxInv PROVE SandboxFaithful
    OBVIOUS
<1> DEFINE user == Named(request.nodes)
           wired == request.on_error = "client"
           n == Len(user)
<1>1. request \in Requests /\ steps \in Seq(Step)
    BY DEF SandboxInv, EngineInv, TraceInv, TraceTypeOK
<1>2. SynthesizedIsValid
    <2> SUFFICES ASSUME request.for = "nodes", pc = "rejected",
                        \A i \in DOMAIN request.nodes :
                           ~(request.nodes[i].type = "unknown" \/ Len(user[i].id) > 1)
                 PROVE  FALSE
        BY DEF SynthesizedIsValid
    <2>1. /\ synthesize_ok(request.nodes) /\ policy = Around(user, wired)
          /\ ~(validate_policy(policy) /\ compile_policy_ok(policy))
        BY DEF SandboxInv, synthesize_policy
    <2>2. /\ Nameable(request.nodes) /\ UserList(user)
          /\ \A i, j \in 1..n : user[i].id = user[j].id => i = j
        BY <1>1, <2>1, AcceptedList
    <2>3. ASSUME NEW i \in 1..n PROVE user[i].type # "unknown" /\ Len(user[i].id) = 1
        <3>1. /\ i \in DOMAIN request.nodes
              /\ user[i].type = request.nodes[i].type
            <4>1. /\ Len(user) = Len(request.nodes)
                  /\ \A l \in 1..Len(request.nodes) : user[l].type = request.nodes[l].type
                BY <2>2, NamedType
            <4>2. DOMAIN request.nodes = 1..Len(request.nodes)
                BY <2>2 DEF Nameable
            <4> HIDE DEF user
            <4> QED BY <4>1, <4>2
        <3>2. user[i].id \in Names
            BY <2>2, UserNames
        <3> HIDE DEF user
        <3>3. Len(user[i].id) \in Nat /\ Len(user[i].id) # 0
            BY <3>2 DEF Names, NoNode
        <3>4. ~(Len(user[i].id) > 1) /\ user[i].type # "unknown"
            BY <3>1
        <3> DEFINE l == Len(user[i].id)
        <3> HIDE DEF l
        <3>5. l \in Nat /\ l # 0 /\ ~(l > 1)
            BY <3>3, <3>4 DEF l
        <3>6. l = 1
            BY <3>5
        <3> QED BY <3>4, <3>6 DEF l
    <2>4. wired \in BOOLEAN
        OBVIOUS
    <2> HIDE DEF user, wired
    <2> QED BY <2>1, <2>2, <2>3, <2>4, AroundValid
<1>3. ASSUME Plain PROVE SandboxRunsEveryNode
    <2> SUFFICES ASSUME request.for = "nodes", answer = "200", ~truncated
                 PROVE  LET ids    == [i \in DOMAIN user |-> user[i].id]
                            failed == {i \in DOMAIN user :
                                         user[i].id \in {errors[j] : j \in DOMAIN errors}}
                        IN  IF failed = {} THEN Visited = Append(ids, <<"client">>)
                            ELSE \E i \in failed :
                                    Visited = SubSeq(ids, 1, i) \o
                                        (IF wired THEN << <<"client">> >> ELSE << >>)
        BY Zenon DEF SandboxRunsEveryNode
    <2> DEFINE ids    == [i \in DOMAIN user |-> user[i].id]
               failed == {i \in DOMAIN user : user[i].id \in {errors[j] : j \in DOMAIN errors}}
    <2>1. pc = "done" /\ policy # Empty
        BY DEF SandboxInv
    <2>2. synthesize_ok(request.nodes) /\ PathOf(user, wired)
        BY <1>3, <2>1 DEF SandboxInv
    <2>3. UserList(user)
        BY <1>1, <2>2, AcceptedList
    <2> HIDE DEF user, wired
    <2>4. n \in Nat /\ n > 0 /\ DOMAIN user = 1..n
        BY <2>3 DEF UserList
    <2>5. ids \in Seq(Names) /\ Len(ids) = n /\ \A i \in 1..n : ids[i] = user[i].id
        <3>1. \A i \in 1..n : user[i].id \in Names
            BY <2>3, UserNames
        <3>2. ids \in [1..n -> Names]
            BY <2>4, <3>1
        <3> HIDE DEF n
        <3> QED BY <2>4, <3>2
    <2>6. Visited \in Seq(Seq(Segment)) /\ Len(Visited) = Len(steps)
          /\ \A i \in 1..Len(steps) : Visited[i] = steps[i].node
        <3>1. ASSUME NEW i \in 1..Len(steps) PROVE steps[i].node \in Seq(Segment)
            <4>1. steps[i] \in Step
                BY <1>1, ElementOfSeq
            <4> QED BY <4>1 DEF Step
        <3>2. Visited \in [1..Len(steps) -> Seq(Segment)]
            BY <1>1, <3>1 DEF Visited
        <3> QED BY <1>1, <3>2 DEF Visited
    <2>7. <<"client">> \in Names /\ Names \subseteq Seq(Segment)
        BY TwoNames DEF Names
    <2> HIDE DEF ids, n
    <2>8. ids \in Seq(Seq(Segment))
        BY <2>5, <2>7
    <2>9. CASE OverClean(user)
        <3>1. failed = {}
            BY <2>9 DEF OverClean
        <3>2. Visited = Append(ids, <<"client">>)
            <4> DEFINE a == Append(ids, <<"client">>)
            <4>1. /\ a \in Seq(Seq(Segment)) /\ Len(a) = n + 1
                  /\ a[n + 1] = <<"client">> /\ \A i \in 1..n : a[i] = user[i].id
                <5>1. <<"client">> \in Seq(Segment)
                    BY <2>7
                <5>2. /\ a \in Seq(Seq(Segment)) /\ Len(a) = Len(ids) + 1
                      /\ a[Len(ids) + 1] = <<"client">>
                      /\ \A i \in 1..Len(ids) : a[i] = ids[i]
                    BY <2>8, <5>1, Appended
                <5> HIDE DEF a
                <5> QED BY <2>5, <5>2
            <4>2. /\ Len(steps) = n + 1 /\ steps[n + 1].node = <<"client">>
                  /\ \A i \in 1..n : steps[i].node = user[i].id
                BY <2>9 DEF OverClean, VisitedUpTo, n
            <4>3. \A i \in 1..(n + 1) : i \in 1..n \/ i = n + 1
                BY <2>4
            <4> HIDE DEF a
            <4>4. ASSUME NEW i \in 1..Len(Visited) PROVE Visited[i] = a[i]
                <5>1. i \in 1..(n + 1) /\ Visited[i] = steps[i].node
                    BY <2>6, <4>2
                <5> QED BY <4>1, <4>2, <4>3, <5>1
            <4>5. Len(Visited) = Len(a)
                BY <2>6, <4>1, <4>2
            <4>6. Visited = a
                BY <2>6, <4>1, <4>4, <4>5, SeqEqual
            <4> QED BY <4>6 DEF a
        <3> HIDE DEF failed
        <3>3. IF failed = {} THEN Visited = Append(ids, <<"client">>)
              ELSE \E i \in failed :
                      Visited = SubSeq(ids, 1, i) \o (IF wired THEN << <<"client">> >> ELSE << >>)
            BY <3>1, <3>2
        <3> QED BY <3>3, Zenon DEF failed, ids
    <2>10. ASSUME NEW k \in 1..n, OverFailed(user, wired, k)
           PROVE  /\ k \in failed
                  /\ Visited = SubSeq(ids, 1, k) \o (IF wired THEN << <<"client">> >> ELSE << >>)
        <3>1. k \in failed
            <4>1. errors = <<user[k].id>>
                BY <2>10 DEF OverFailed
            <4>2. 1 \in DOMAIN errors /\ errors[1] = user[k].id
                BY <4>1
            <4> QED BY <2>4, <4>2
        <3> DEFINE q == SubSeq(ids, 1, k)
                   t == IF wired THEN << <<"client">> >> ELSE << >>
        <3>2. /\ q \in Seq(Seq(Segment)) /\ Len(q) = k
              /\ \A i \in 1..k : q[i] = user[i].id
            <4>1. \A i \in 1..k : i \in 1..n
                BY <2>4
            <4>2. q \in Seq(Seq(Segment)) /\ Len(q) = k /\ \A i \in 1..k : q[i] = ids[i]
                BY <2>4, <2>5, <2>8
            <4> HIDE DEF q
            <4> QED BY <2>5, <4>1, <4>2
        <3>3. /\ \A i \in 1..k : steps[i].node = user[i].id
              /\ wired => Len(steps) = k + 1 /\ steps[k + 1].node = <<"client">>
              /\ ~wired => Len(steps) = k
            BY <2>10 DEF OverFailed, VisitedUpTo
        <3>4. CASE wired
            <4> DEFINE c == << <<"client">> >>
            <4>1. t = c /\ c \in Seq(Seq(Segment)) /\ Len(c) = 1 /\ c[1] = <<"client">>
                BY <2>7, <3>4, SMTT(30)
            <4> HIDE DEF c, q, t
            <4>2. /\ q \o c \in Seq(Seq(Segment)) /\ Len(q \o c) = Len(q) + Len(c)
                  /\ \A i \in 1..Len(q) : (q \o c)[i] = q[i]
                  /\ \A i \in 1..Len(c) : (q \o c)[Len(q) + i] = c[i]
                <5>1. q \in Seq(Seq(Segment)) /\ c \in Seq(Seq(Segment))
                    BY <3>2, <4>1
                <5> QED BY <5>1, Joined
            <4> DEFINE a == q \o c
            <4> HIDE DEF a
            <4>3. /\ a \in Seq(Seq(Segment)) /\ Len(a) = k + 1
                  /\ a[k + 1] = <<"client">> /\ \A i \in 1..k : a[i] = user[i].id
                <5>1. 1 \in 1..1
                    OBVIOUS
                <5> QED BY <3>2, <4>1, <4>2, <5>1 DEF a
            <4>4. \A i \in 1..(k + 1) : i \in 1..k \/ i = k + 1
                BY <2>4
            <4>5. ASSUME NEW i \in 1..Len(Visited) PROVE Visited[i] = a[i]
                <5>1. i \in 1..(k + 1) /\ Visited[i] = steps[i].node
                    BY <2>6, <3>3, <3>4
                <5> QED BY <3>3, <3>4, <4>3, <4>4, <5>1
            <4>6. Len(Visited) = Len(a)
                BY <2>6, <3>3, <3>4, <4>3
            <4>7. Visited = a
                BY <2>6, <4>3, <4>5, <4>6, SeqEqual
            <4>8. Visited = q \o t
                BY <4>1, <4>7 DEF a
            <4> QED BY <3>1, <4>8 DEF q, t
        <3>5. CASE ~wired
            <4>1. t = << >>
                BY <3>5
            <4> HIDE DEF q, t
            <4>2. q \o << >> = q
                BY <3>2, ConcatEmptySeq
            <4>3. Visited = q
                BY <2>6, <3>2, <3>3, <3>5, SeqEqual
            <4>4. Visited = q \o t
                BY <4>1, <4>2, <4>3
            <4> QED BY <3>1, <4>4 DEF q, t
        <3> QED BY <3>4, <3>5
    <2>11. OverClean(user) \/ \E k \in 1..n : OverFailed(user, wired, k)
        BY <2>1, <2>2 DEF PathOf, n
    <2>12. CASE \E k \in 1..n : OverFailed(user, wired, k)
        <3>1. PICK k \in 1..n : OverFailed(user, wired, k)
            BY <2>12
        <3>2. /\ k \in failed
              /\ Visited = SubSeq(ids, 1, k) \o (IF wired THEN << <<"client">> >> ELSE << >>)
            BY <2>10, <3>1
        <3> HIDE DEF failed
        <3>3. failed # {} /\ \E i \in failed :
                  Visited = SubSeq(ids, 1, i) \o (IF wired THEN << <<"client">> >> ELSE << >>)
            BY <3>2
        <3> QED BY <3>3 DEF failed, ids
    <2> QED BY <2>9, <2>11, <2>12
<1> QED BY <1>2, <1>3 DEF SandboxFaithful, Plain

LEMMA SandboxStart == SandboxInit => SandboxInv
<1> SUFFICES ASSUME SandboxInit PROVE SandboxInv
    OBVIOUS
<1>1. WellFormed(policy)
    <2>1. /\ policy.nodes = << >> /\ policy.edges = << >> /\ policy.error_handler = << >>
        BY DEF SandboxInit, Empty, NoNode
    <2>2. \A S : << >> \in Seq(S)
        OBVIOUS
    <2> QED BY <2>1, <2>2 DEF WellFormed
<1>2. TraceInv
    BY <1>1, TraceNew DEF SandboxInit, NothingTraced
<1>3. RevisitInv
    BY DEF SandboxInit, RevisitInv, NoHiddenLoop
<1>4. EngineInv
    BY <1>1, <1>2, <1>3 DEF SandboxInit, EngineInv, NeverMissingInv, CatchAllHandlesAll
<1> QED BY <1>4 DEF SandboxInit, SandboxInv

\* The sandbox runs what it was given: an accepted node list makes a valid
\* policy unless an id is dotted or a type unknown, and a complete trace visits
\* its nodes in order up to the first that fails.
THEOREM SandboxFaithfulAlways == SandboxSpec => []SandboxFaithful
<1>1. SandboxInit => SandboxInv
    BY SandboxStart
<1> QED BY <1>1, SandboxStep, FaithfulInv, PTL DEF SandboxSpec

\* What holds of one execution holds of the engine inside the sandbox, for the
\* configured and the synthesised policies.
THEOREM SandboxEngineAlways ==
    SandboxSpec => [](/\ UndottedNeverMissing /\ NoHiddenLoop
                      /\ TraceIsPath /\ CatchAllHandlesAll)
<1>1. SandboxInit => SandboxInv
    BY SandboxStart
<1>2. SandboxInv => UndottedNeverMissing
    BY DEF SandboxInv, EngineInv, NeverMissingInv, UndottedNeverMissing, AcceptedNeverMissing
<1>3. SandboxInv => NoHiddenLoop
    BY DEF SandboxInv, EngineInv, RevisitInv
<1>4. SandboxInv => TraceIsPath /\ CatchAllHandlesAll
    BY DEF SandboxInv, EngineInv, TraceInv
<1> QED BY <1>1, <1>2, <1>3, <1>4, SandboxStep, PTL DEF SandboxSpec
=============================================================================
