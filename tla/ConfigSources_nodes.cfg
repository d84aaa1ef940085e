\* Three changes of a file with two good contents and a broken one, and a
\* reload on demand; or a cold start of two nodes, with two writers, a failing
\* call or a crash.
CONSTANTS
    Contents = {"a", "b", "broken"}
    Loadable = {"a", "b"}
    MaxEvents = 3
    MaxReloads = 1
    Nodes = {"n1", "n2"}
    PutOrder <- MCPutOrder
    Values = {"v1", "v2"}
    Absent = Absent
    None = None
    ValidConfigs <- MCValidConfigs
    Seed <- MCSeed
    InitialEtcd <- MCEmpty
    Writers = {"n1", "n2"}
    MaxHandlers = 2
    MaxCommits = 2
    MaxFaults = 1
SPECIFICATION SourceSpec
INVARIANT RunsValid
INVARIANT NoEditPending
PROPERTY OneWriterConverges
PROPERTY EveryNodeStarts
PROPERTY LastEditServed
\* Edits and writes come to an end.
CHECK_DEADLOCK FALSE
