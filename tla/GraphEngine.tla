---------------------------- MODULE GraphEngine ----------------------------
(***************************************************************************)
(* One execution of a policy: validation and compilation, then the walk of *)
(* the compiled graph with a trace recorder attached.  What a plugin does  *)
(* is left open: a node that can fail may fail on any visit, and any node  *)
(* may write a response.                                                   *)
(***************************************************************************)
EXTENDS PolicyGraph, FiniteSets

CONSTANTS
    Policies,     \* the policies somebody may configure
    max_steps,    \* debug.max_steps: how many steps a trace records
    MaxErrors     \* bound on the errors of one walk

ASSUME EngineAssumption ==
    /\ max_steps \in Nat /\ MaxErrors \in Nat
    /\ \A p \in Policies : WellFormed(p)

VARIABLES
    policy,     \* the policy being executed
    pc,         \* "new", "rejected", "walking" or "done"
    current,    \* current_node_id
    errors,     \* ctx.errors: the ids of the nodes that failed, in order
    response,   \* who wrote ctx.response last
    steps,      \* TraceRecorder.steps
    truncated   \* TraceRecorder.truncated

vars == <<policy, pc, current, errors, response, steps, truncated>>

Init ==
    /\ policy \in Policies
    /\ pc = "new"
    /\ current = NoNode
    /\ errors = << >>
    /\ response = "unset"
    /\ steps = << >>
    /\ truncated = FALSE

-----------------------------------------------------------------------------
Reject ==
    /\ pc = "new"
    /\ ~(validate_policy(policy) /\ compile_policy_ok(policy))
    /\ pc' = "rejected"
    /\ UNCHANGED <<policy, current, errors, response, steps, truncated>>

\* The walk starts behind the listener.
Start ==
    /\ pc = "new"
    /\ validate_policy(policy) /\ compile_policy_ok(policy)
    /\ pc' = "walking"
    /\ current' = entry_node_id(policy)
    /\ UNCHANGED <<policy, errors, response, steps, truncated>>

\* A step beyond max_steps is not recorded, only noted.
record_step(outcome, edge, next) ==
    /\ steps' = IF Len(steps) >= max_steps THEN steps
                ELSE Append(steps, [node |-> current, outcome |-> outcome,
                                    edge |-> edge, next |-> next])
    /\ truncated' = (truncated \/ Len(steps) >= max_steps)

\* Mutant: no break at the end of the chain.
AdvanceForever(next) ==
    /\ current' = IF next = NoNode THEN current ELSE next
    /\ UNCHANGED pc

\* Follow the edge, or stop where there is none.
Advance(next) ==
    IF next = NoNode THEN pc' = "done" /\ UNCHANGED current
    ELSE current' = next /\ UNCHANGED pc

NodeNotFound ==
    /\ pc = "walking" /\ current \notin NodeIds(policy)
    /\ response' = "node_not_found"
    /\ record_step("Error", "NodeNotFound", NoNode)
    /\ pc' = "done"
    /\ UNCHANGED <<policy, current, errors>>

\* The plugin returned Ok.
PluginOk ==
    /\ pc = "walking" /\ current \in NodeIds(policy)
    /\ response' \in {response, "plugin"}
    /\ LET terminal == current \in terminal_node_ids(policy)
           next     == IF terminal THEN NoNode ELSE success_edge(policy, current)
       IN  /\ record_step("Success",
                          IF terminal THEN "Terminal"
                          ELSE IF next # NoNode THEN "Success" ELSE "EndOfChain",
                          next)
           /\ Advance(next)
    /\ UNCHANGED <<policy, errors>>

\* The plugin returned Err: the error is tagged and pushed, the step is traced
\* as leading to traced, and the walk goes to next, or ends in the engine's 500.
Failed(tag, next, traced) ==
    /\ pc = "walking" /\ current \in NodeIds(policy)
    /\ MayFail(policy, current) /\ Len(errors) < MaxErrors
    /\ errors' = Append(errors, tag)
    /\ response' \in IF next = NoNode THEN {"unhandled"} ELSE {response, "plugin"}
    /\ record_step("Error",
                   IF error_edge(policy, current) # NoNode THEN "Error"
                   ELSE IF next # NoNode THEN "CatchAll" ELSE "Unhandled",
                   traced)
    /\ Advance(next)
    /\ UNCHANGED policy

\* Mutant: the trace names the error edge even when the catch-all is taken.
PluginErrTraceEdge ==
    Failed(current, ErrorTarget(policy, current), error_edge(policy, current))

\* Mutant: the catch-all is not consulted.
PluginErrNoCatchAll ==
    Failed(current, error_edge(policy, current), error_edge(policy, current))

\* The error names the failing node; the walk goes to the error edge, else to
\* the catch-all, else nowhere.
PluginErr ==
    Failed(current, ErrorTarget(policy, current), ErrorTarget(policy, current))

Walk == NodeNotFound \/ PluginOk \/ PluginErr

Next == Reject \/ Start \/ Walk

Spec == Init /\ [][Next]_vars

-----------------------------------------------------------------------------
(* Properties. *)

\* Validation is what protects the walk: a policy that was accepted never ends
\* in NODE_NOT_FOUND, whichever nodes fail.
AcceptedNeverMissing == pc = "walking" => current \in NodeIds(policy)

\* The same for policies without dotted names, the case the code gets right.
UndottedNeverMissing == Undotted(policy) => AcceptedNeverMissing

\* Nothing limits the steps of a walk, and no rule of validate_policy forbids a
\* cycle.  What the rule of one edge per input ensures all the same: a walk
\* comes back to a node only by way of a node with several ways in, that is an
\* error handler, the catch-all, a client whose id a plugin shares, or the
\* listener.  (For policies without dotted names in which a node's input has
\* one name.)
NoHiddenLoop ==
    Undotted(policy) /\ OneNamePerInput(policy) =>
        \A i, j \in 1..Len(steps) :
            i < j /\ steps[i].node = steps[j].node =>
                \E k \in i..j : steps[k].node \in Rejoined(policy)

\* A step that failed in a plugin, and how many of a trace's first n steps did.
IsFailure(step)    == step.outcome = "Error" /\ step.edge # "NodeNotFound"
Failures(trace, n) == Cardinality({i \in 1..n : IsFailure(trace[i])})

\* A trace is the path the engine took: it starts at the entry node, each step
\* leads to the next one, and unless it was cut off at its limit, its last step
\* leads to the node the walk stands at, or to nowhere once the walk is over.
\* The errors a handler renders are those of the trace, in the order they
\* happened (the k-th failure is the k-th error); a cut-off trace misses only
\* the latest.
TraceIsPath ==
    /\ Len(steps) <= max_steps
    /\ steps # << >> =>
         /\ steps[1].node = entry_node_id(policy)
         /\ \A i \in 1..(Len(steps) - 1) : steps[i].next = steps[i + 1].node
         /\ ~truncated => steps[Len(steps)].next = IF pc = "done" THEN NoNode ELSE current
    /\ Failures(steps, Len(steps)) <= Len(errors)
    /\ \A i \in 1..Len(steps) : IsFailure(steps[i]) => steps[i].node = errors[Failures(steps, i)]
    /\ ~truncated => Failures(steps, Len(steps)) = Len(errors)

\* With a catch-all configured, no error of any node surfaces as the engine's
\* own 500, however many nodes fail and wherever they are wired.
CatchAllHandlesAll == policy.error_handler # NoNode => response # "unhandled"
=============================================================================
