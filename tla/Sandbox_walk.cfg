\* Every policy of the family and every node list, with traces that are shorter
\* than some walks.
CONSTANTS
    Policies <- MCAllPolicies
    Requests <- MCRequests
    AutoId <- AutoIds
    ExtraEdges = 3
    max_steps = 4
    MaxErrors = 2
SPECIFICATION SandboxFairSpec
INVARIANTS UndottedNeverMissing NoHiddenLoop TraceIsPath CatchAllHandlesAll SandboxFaithful
PROPERTY AcyclicTerminates
\* A run ends.
CHECK_DEADLOCK FALSE
