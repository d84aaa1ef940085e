\* Three tasks, every operation.
CONSTANTS
    t1 = t1  t2 = t2  t3 = t3
    r1 = r1  p1 = p1  v1 = v1  vBad = vBad
    c1 = c1  c2 = c2  k1 = k1
    Absent = Absent
    Tasks = {t1, t2, t3}
    RouteNames = {r1}
    PolicyNames = {p1}
    Versions = {v1, vBad}
    BadVersions = {vBad}
    ConsumerNames = {c1, c2}
    Credentials = {k1}
    InitialConfig <- MCInitialConfig
    DiskConfigs <- MCDiskConfigs
    Ops = {"crud", "read", "reload", "status", "request"}
SPECIFICATION Spec
SYMMETRY TaskSymmetry
INVARIANTS ReadersSeeRunningConfig StatusIsOneConfig LastGood PiecesAgree
\* The status handler and an apply can block each other for ever.
CHECK_DEADLOCK FALSE
