----------------------------- MODULE MCSandbox -----------------------------
(* Small instances of Sandbox, and of the engine it drives, for TLC. *)
EXTENDS Sandbox

Node(id, type) == [id |-> id, type |-> type]
Edge(from, to) == [from |-> from, to |-> to]

\* listener, a plugin that may fail, a second node, client.
Nodes(type) == << Node(<<"listener">>, "listener"), Node(<<"a">>, "plugin"),
                  Node(<<"b">>, type), Node(<<"client">>, "client") >>

\* "a" is wired behind the listener; up to ExtraEdges further edges, in any
\* order and with repetitions: bare endpoints, unknown ports and nodes, shared
\* inputs, overwritten outputs and cycles are all among them.
CONSTANT ExtraEdges
Good == {Edge(f, t) : f \in {<<"a", "success">>, <<"a", "error">>, <<"b">>, <<"b", "error">>},
                      t \in {<<"a", "in">>, <<"b", "in">>, <<"client", "in">>}}
Odd  == {Edge(f, <<"ghost", "in">>) : f \in {<<"a", "success">>, <<"a", "error">>, <<"b">>}}
        \cup {Edge(<<"a", "weird">>, <<"b", "in">>), Edge(<<"a", "success">>, <<"listener", "in">>),
              Edge(<<"b">>, <<"a">>)}

EdgeLists(edges, n) == UNION {[1..k -> edges] : k \in 0..n}

PoliciesWith(types, edgeLists) ==
    {[nodes |-> Nodes(type),
      edges |-> << Edge(<<"listener", "out">>, <<"a", "in">>) >> \o es,
      error_handler |-> h] : type \in types, es \in edgeLists, h \in {NoNode, <<"b">>}}

\* A policy with an unknown type never runs.
MCPolicies ==
    PoliciesWith({"plugin", "error-handler"},
                 EdgeLists(Good, ExtraEdges) \cup EdgeLists(Good \cup Odd, 2))
    \cup PoliciesWith({"unknown"}, EdgeLists(Good, 1))

\* A node id with a dot, and endpoints that name it or that only begin like it.
MCDottedPolicies ==
    {[nodes |-> << Node(<<"listener">>, "listener"), Node(id, "plugin"),
                   Node(<<"client">>, "client") >>,
      edges |-> << Edge(<<"listener", "out">>, t) , Edge(f, <<"client", "in">>) >>,
      error_handler |-> NoNode] :
        id \in {<<"a">>, <<"a", "b">>},
        t \in {<<"a", "in">>, <<"a", "b", "in">>},
        f \in {<<"a", "success">>, <<"a", "b", "success">>}}

PolicyRequest(p) == [for |-> "policy", policy |-> p, nodes |-> << >>, on_error |-> "stop"]

MCAllPolicies == MCPolicies \cup MCDottedPolicies

-----------------------------------------------------------------------------
AutoIds  == << <<"p-0">>, <<"p-1">>, <<"p-2">> >>

UserIds == {NoNode, <<"a">>, <<"p-1">>, <<"a", "b">>, <<"listener">>, <<"client">>}
UserNodes(ids) == [id : ids, type : {"plugin", "error-handler", "unknown", "client"}]

MCNodeRequests ==
    [for : {"nodes"}, policy : {Empty},
     nodes : UNION {[1..n -> UserNodes({NoNode, <<"a">>, <<"p-1">>, <<"a", "b">>})] : n \in 0..2}
             \cup [1..3 -> [id : UserIds, type : {"plugin"}]],
     on_error : {"stop", "client"}]

MCRequests ==
    MCNodeRequests
    \cup {PolicyRequest(p) : p \in MCAllPolicies \cup {Empty}}
    \cup {[PolicyRequest(Empty) EXCEPT !.for = "unclear"]}

MCDottedRequests == {PolicyRequest(p) : p \in MCDottedPolicies}
=============================================================================
