\* Dotted names: a policy that passes validation and has no such node.
CONSTANTS
    Policies <- MCDottedPolicies
    Requests <- MCDottedRequests
    AutoId <- AutoIds
    ExtraEdges = 1
    max_steps = 4
    MaxErrors = 2
SPECIFICATION SandboxSpec
INVARIANT AcceptedNeverMissing
\* A run ends.
CHECK_DEADLOCK FALSE
