\* One status call against one apply.
CONSTANTS
    t1 = t1  t2 = t2  t3 = t3
    r1 = r1  p1 = p1  v1 = v1  vBad = vBad
    c1 = c1  c2 = c2  k1 = k1
    Absent = Absent
    Tasks = {t1, t2}
    RouteNames = {r1}
    PolicyNames = {p1}
    Versions = {v1}
    BadVersions = {}
    ConsumerNames = {c1}
    Credentials = {k1}
    InitialConfig <- MCInitialConfig
    DiskConfigs <- MCGoodDiskConfigs
    Ops = {"reload", "status"}
SPECIFICATION FairSpec
PROPERTY EveryTaskFinishes
CHECK_DEADLOCK FALSE
