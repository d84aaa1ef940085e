\* Two writers, nothing fails.
CONSTANTS
    Nodes = {"n1", "n2"}
    PutOrder <- MCPutOrder
    Values = {"v1", "v2"}
    Absent = Absent
    None = None
    ValidConfigs <- MCValidConfigs
    Seed <- MCSeed
    InitialEtcd <- MCSeed
    Writers = {"n1", "n2"}
    MaxHandlers = 2
    MaxCommits = 2
    MaxFaults = 0
SPECIFICATION FairSpec
PROPERTY Converges
\* The cluster comes to rest.
CHECK_DEADLOCK FALSE
