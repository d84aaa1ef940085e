---------------------------- MODULE PolicyGraph ----------------------------
(***************************************************************************)
(* Policies as configured, the structural validation they must pass, and   *)
(* the graph that compilation makes of them.                               *)
(*                                                                         *)
(* A dotted name is the sequence of its segments: the endpoint "up.in" is  *)
(* <<"up", "in">>, the node id "a.b" is <<"a", "b">>.  A policy is a       *)
(* record of its nodes and edges, in the order of the configuration, and   *)
(* its error_handler, which is NoNode when unset.                          *)
(***************************************************************************)
EXTENDS Naturals, Sequences

Segment == STRING

NoNode == << >>

\* A node of any other registered type is a "plugin"; "unknown" is a type the
\* factory does not know.
NodeTypes == {"listener", "client", "error-handler", "plugin", "unknown"}

\* Endpoints and ids have at least one segment.
WellFormed(policy) ==
    LET Names == Seq(Segment) \ {NoNode}
    IN  /\ policy.nodes \in Seq([id : Names, type : NodeTypes])
        /\ policy.edges \in Seq([from : Names, to : Names])
        /\ policy.error_handler \in Seq(Segment)

NodeIds(policy) == {policy.nodes[i].id : i \in DOMAIN policy.nodes}

IdsOfType(policy, type) ==
    {policy.nodes[i].id : i \in {j \in DOMAIN policy.nodes : policy.nodes[j].type = type}}

\* HashMap::insert overwrites: of several entries the last one stays.
LastOf(S) == CHOOSE i \in S : \A j \in S : j <= i

-----------------------------------------------------------------------------
(* The two readings of an endpoint. *)

\* validate_policy reads the node up to the FIRST dot.
FirstSegment(endpoint) == <<endpoint[1]>>

\* parse_edge_endpoint splits at the LAST dot; without a dot the port is "out".
parse_edge_endpoint(endpoint) ==
    IF Len(endpoint) > 1
    THEN [node |-> SubSeq(endpoint, 1, Len(endpoint) - 1), port |-> endpoint[Len(endpoint)]]
    ELSE [node |-> endpoint, port |-> "out"]

-----------------------------------------------------------------------------
(* validate_policy: one operator per rule. *)

HasListener(policy) == IdsOfType(policy, "listener") # {}
HasClient(policy)   == IdsOfType(policy, "client") # {}

\* Mutant: the target of an edge is not looked up.
EdgesResolveFromOnly(policy) ==
    \A i \in DOMAIN policy.edges :
        FirstSegment(policy.edges[i].from) \in NodeIds(policy)

EdgesResolve(policy) ==
    \A i \in DOMAIN policy.edges :
        /\ FirstSegment(policy.edges[i].from) \in NodeIds(policy)
        /\ FirstSegment(policy.edges[i].to) \in NodeIds(policy)

\* Mutant: only the edges from success ports are counted.
OneSuccessEdgePerInput(policy) ==
    \A i, j \in {k \in DOMAIN policy.edges :
                    policy.edges[k].from[Len(policy.edges[k].from)] # "error"} :
        i # j /\ policy.edges[i].to = policy.edges[j].to
            => FirstSegment(policy.edges[i].to)
                  \in IdsOfType(policy, "client") \cup IdsOfType(policy, "error-handler")

\* Only client and error-handler nodes may share an input.
OneEdgePerInput(policy) ==
    \A i, j \in DOMAIN policy.edges :
        i # j /\ policy.edges[i].to = policy.edges[j].to
            => FirstSegment(policy.edges[i].to)
                  \in IdsOfType(policy, "client") \cup IdsOfType(policy, "error-handler")

NoOrphans(policy) ==
    \A n \in NodeIds(policy) :
        \/ n = policy.error_handler
        \/ \E i \in DOMAIN policy.edges :
              n \in {FirstSegment(policy.edges[i].from), FirstSegment(policy.edges[i].to)}

HandlerResolves(policy) ==
    policy.error_handler # NoNode => policy.error_handler \in NodeIds(policy)

validate_policy(policy) ==
    /\ HasListener(policy)
    /\ HasClient(policy)
    /\ EdgesResolve(policy)
    /\ OneEdgePerInput(policy)
    /\ NoOrphans(policy)
    /\ HandlerResolves(policy)

-----------------------------------------------------------------------------
(* compile_policy: when it fails, and the maps it builds. *)

SuccessPorts == {"success", "out"}

compile_policy_ok(policy) ==
    /\ \A i \in DOMAIN policy.nodes : policy.nodes[i].type # "unknown"
    /\ HasListener(policy)
    /\ \A i \in DOMAIN policy.edges :
          parse_edge_endpoint(policy.edges[i].from).port \in SuccessPorts \cup {"error"}

EdgesOut(policy, n, ports) ==
    {i \in DOMAIN policy.edges :
        LET from == parse_edge_endpoint(policy.edges[i].from)
        IN  from.node = n /\ from.port \in ports}

\* Lookup in success_edges or error_edges: NoNode when there is no entry.
EdgeTarget(policy, n, ports) ==
    IF EdgesOut(policy, n, ports) = {} THEN NoNode
    ELSE parse_edge_endpoint(policy.edges[LastOf(EdgesOut(policy, n, ports))].to).node

success_edge(policy, n) == EdgeTarget(policy, n, SuccessPorts)
error_edge(policy, n)   == EdgeTarget(policy, n, {"error"})

listener_node_id(policy) ==
    policy.nodes[LastOf({i \in DOMAIN policy.nodes : policy.nodes[i].type = "listener"})].id

\* The listener itself when its output is not wired.
entry_node_id(policy) ==
    LET l == listener_node_id(policy)
    IN  IF success_edge(policy, l) # NoNode THEN success_edge(policy, l) ELSE l

terminal_node_ids(policy) == IdsOfType(policy, "client")

\* The plugin behind an id: the node inserted last under it.
PluginType(policy, n) ==
    policy.nodes[LastOf({i \in DOMAIN policy.nodes : policy.nodes[i].id = n})].type

\* The listener, client and error-handler plugins only ever return Ok.
MayFail(policy, n) == PluginType(policy, n) = "plugin"

-----------------------------------------------------------------------------
(* Where the walk may go from a node. *)

\* On an error: the node's error edge, else the policy's catch-all.
ErrorTarget(policy, n) ==
    IF error_edge(policy, n) # NoNode THEN error_edge(policy, n) ELSE policy.error_handler

Successors(policy, n) ==
    ( (IF n \in terminal_node_ids(policy) THEN {} ELSE {success_edge(policy, n)})
      \cup (IF MayFail(policy, n) THEN {ErrorTarget(policy, n)} ELSE {}) ) \ {NoNode}

\* No set of nodes in which every node has a successor within the set.
Acyclic(policy) ==
    LET next == [n \in NodeIds(policy) |-> Successors(policy, n)]
    IN  \A S \in SUBSET NodeIds(policy) :
            S # {} => \E n \in S : next[n] \cap S = {}

\* Every endpoint is a plain "node.port" or "node": both readings agree.
Undotted(policy) ==
    \A i \in DOMAIN policy.edges :
        Len(policy.edges[i].from) \in {1, 2} /\ Len(policy.edges[i].to) \in {1, 2}

-----------------------------------------------------------------------------
(* Inputs. *)

NodeOf(endpoint) == parse_edge_endpoint(endpoint).node

\* The edges into a node spell its input alike.  validate_policy compares the
\* endpoints as they are written: to it, "b" and "b.in" are two inputs.
OneNamePerInput(policy) ==
    \A i, j \in DOMAIN policy.edges :
        NodeOf(policy.edges[i].to) = NodeOf(policy.edges[j].to)
            => policy.edges[i].to = policy.edges[j].to

\* The nodes that have more than one way in: those that validation lets share
\* an input, the catch-all, and the listener, where the walk began.
Rejoined(policy) ==
    IdsOfType(policy, "listener") \cup IdsOfType(policy, "client")
        \cup IdsOfType(policy, "error-handler") \cup {policy.error_handler}
=============================================================================
