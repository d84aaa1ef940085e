------------------------------ MODULE Sandbox ------------------------------
(***************************************************************************)
(* POST /api/debug/sandbox: a configured policy, or one synthesised around *)
(* a list of nodes, is validated, compiled and executed by the one engine, *)
(* under a time limit, and the trace is the answer.                        *)
(***************************************************************************)
EXTENDS GraphEngine

CONSTANTS
    Requests,   \* what is posted: see Malformed
    AutoId      \* AutoId[i]: the id given to a blank node at index i

Empty == [nodes |-> << >>, edges |-> << >>, error_handler |-> NoNode]

\* A request is parsed JSON.  The id given to a blank node ends in its index, so
\* it is never one of the two that the synthesiser adds itself.
ASSUME SandboxAssumption ==
    \A r \in Requests :
        /\ r.policy \in Policies \cup {Empty}
        /\ r.nodes \in Seq([id : Seq(Segment), type : NodeTypes])
        /\ \A i \in DOMAIN r.nodes :
              AutoId[i] \in Seq(Segment) \ {NoNode, <<"listener">>, <<"client">>}

\* The synthesiser's own names are strings like the user's.
ASSUME NamesAssumption ==
    {"listener", "client", "in", "out", "success", "error"} \subseteq Segment

VARIABLES
    request,    \* the request being served
    answer      \* "none", "400", "404", "504", or "200" with the trace

sandboxVars == <<vars, request, answer>>

-----------------------------------------------------------------------------
(* synthesize_policy *)

\* The nodes with an id each.
Named(nodes) ==
    [i \in DOMAIN nodes |->
        IF nodes[i].id = NoNode THEN [nodes[i] EXCEPT !.id = AutoId[i]]
        ELSE nodes[i]]

synthesize_ok(nodes) ==
    /\ nodes # << >>
    /\ \A i \in DOMAIN nodes : nodes[i].type \notin {"listener", "client"}
    /\ \A i, j \in DOMAIN nodes : Named(nodes)[i].id = Named(nodes)[j].id => i = j

Wire(from, port, to) == [from |-> Append(from, port), to |-> Append(to, "in")]

\* listener, the user's nodes chained through their success ports, client; with
\* wired, every error port leads to the client.
Around(user, wired) ==
    LET chain == [i \in 1..(Len(user) + 1) |->
                    IF i = 1 THEN Wire(<<"listener">>, "out", user[1].id)
                    ELSE Wire(user[i - 1].id, "success",
                              IF i > Len(user) THEN <<"client">> ELSE user[i].id)]
        failing == IF wired
                   THEN [i \in DOMAIN user |-> Wire(user[i].id, "error", <<"client">>)]
                   ELSE << >>
    IN  [nodes |-> << [id |-> <<"listener">>, type |-> "listener"] >> \o user
                   \o << [id |-> <<"client">>, type |-> "client"] >>,
         edges |-> chain \o failing,
         error_handler |-> NoNode]

\* Mutant: on_error is read the wrong way round.
SynthesizeInverted(nodes, on_error) == Around(Named(nodes), on_error = "stop")

synthesize_policy(nodes, on_error) == Around(Named(nodes), on_error = "client")

-----------------------------------------------------------------------------
(* run_sandbox *)

\* A request has nodes or the name of a policy: its "for" is "nodes", "policy"
\* or, for both or neither of them, "unclear".  Policies stands for the
\* configured policies; a name that is not among them is Empty here.  A blank
\* node id is NoNode.
Malformed(r) == r.for = "unclear" \/ (r.for = "nodes" /\ ~synthesize_ok(r.nodes))

SandboxInit ==
    /\ request \in Requests
    /\ answer = "none"
    /\ policy = Empty /\ pc = "new" /\ current = NoNode /\ errors = << >>
    /\ response = "unset" /\ steps = << >> /\ truncated = FALSE

Arrived == answer = "none" /\ policy = Empty

BadRequest ==
    /\ Arrived /\ Malformed(request)
    /\ answer' = "400"
    /\ UNCHANGED <<vars, request>>

NotFound ==
    /\ Arrived /\ request.for = "policy" /\ request.policy = Empty
    /\ answer' = "404"
    /\ UNCHANGED <<vars, request>>

Synthesize ==
    /\ Arrived /\ request.for = "nodes" /\ ~Malformed(request)
    /\ policy' = synthesize_policy(request.nodes, request.on_error)
    /\ UNCHANGED <<pc, current, errors, response, steps, truncated, request, answer>>

Lookup ==
    /\ Arrived /\ request.for = "policy" /\ request.policy # Empty
    /\ policy' = request.policy
    /\ UNCHANGED <<pc, current, errors, response, steps, truncated, request, answer>>

Rejected ==
    /\ answer = "none" /\ policy # Empty /\ Reject
    /\ answer' = "400"
    /\ UNCHANGED request

\* The policy compiles and the posted context does not materialise.
BadContext ==
    /\ answer = "none" /\ policy # Empty /\ pc = "new"
    /\ validate_policy(policy) /\ compile_policy_ok(policy)
    /\ answer' = "400"
    /\ UNCHANGED <<vars, request>>

Execute ==
    /\ answer = "none" /\ policy # Empty
    /\ Start \/ Walk
    /\ UNCHANGED <<request, answer>>

\* The time limit drops the run, and its trace with it.
Timeout ==
    /\ answer = "none" /\ pc = "walking"
    /\ answer' = "504"
    /\ UNCHANGED <<vars, request>>

\* The trace is finished, stored and returned.
Finish ==
    /\ answer = "none" /\ pc = "done"
    /\ answer' = "200"
    /\ UNCHANGED <<vars, request>>

run_sandbox ==
    \/ BadRequest \/ NotFound \/ Synthesize \/ Lookup \/ Rejected \/ BadContext
    \/ Execute \/ Finish

SandboxNext == run_sandbox \/ Timeout

SandboxSpec == SandboxInit /\ [][SandboxNext]_sandboxVars

\* Every plugin call returns in the end.  Nothing makes the time limit strike: a
\* run that never yields to the runtime is never dropped.
SandboxFairSpec == SandboxSpec /\ WF_sandboxVars(run_sandbox)

-----------------------------------------------------------------------------
(* Properties. *)

\* The ids of the trace, in order.
Visited == [i \in DOMAIN steps |-> steps[i].node]

\* A sandbox run exercises the nodes it was given: a complete trace visits
\* them in the order of the request up to the first that fails, and then the
\* client, unless the failure stops the run (on_error: stop).
SandboxRunsEveryNode ==
    request.for = "nodes" /\ answer = "200" /\ ~truncated =>
        LET user   == Named(request.nodes)
            ids    == [i \in DOMAIN user |-> user[i].id]
            failed == {i \in DOMAIN user : user[i].id \in {errors[j] : j \in DOMAIN errors}}
        IN  IF failed = {} THEN Visited = Append(ids, <<"client">>)
            ELSE \E i \in failed :
                    Visited = SubSeq(ids, 1, i) \o (IF request.on_error = "client"
                                                    THEN << <<"client">> >> ELSE << >>)

\* A node list that the synthesiser accepts is turned into a policy the
\* validator accepts: the user never sees a complaint about nodes and edges
\* that are not theirs (only an unknown plugin type or a dotted id is refused).
SynthesizedIsValid ==
    request.for = "nodes" /\ pc = "rejected" =>
        \E i \in DOMAIN request.nodes :
            request.nodes[i].type = "unknown" \/ Len(Named(request.nodes)[i].id) > 1

\* The sandbox runs what it was given: every accepted node list makes a valid
\* policy, and without the ids the synthesiser adds itself, every node is run.
SandboxFaithful ==
    /\ SynthesizedIsValid
    /\ (\A i \in DOMAIN request.nodes : request.nodes[i].id \notin {<<"listener">>, <<"client">>})
          => SandboxRunsEveryNode

\* A policy whose edges, error edges and catch-all form no cycle is walked to
\* its end, whatever fails on the way.
AcyclicTerminates ==
    (pc = "walking" /\ Acyclic(policy)) ~> (pc = "done" \/ answer = "504")
=============================================================================
