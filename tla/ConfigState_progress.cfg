\* Three tasks, without the status handler: no task is stuck on the locks.
CONSTANTS
    t1 = t1  t2 = t2  t3 = t3
    r1 = r1  p1 = p1  v1 = v1  vBad = vBad
    c1 = c1  c2 = c2  k1 = k1
    Absent = Absent
    Tasks = {t1, t2, t3}
    RouteNames = {r1}
    PolicyNames = {p1}
    Versions = {v1}
    BadVersions = {}
    ConsumerNames = {}
    Credentials = {k1}
    InitialConfig <- MCInitialConfig
    DiskConfigs <- MCGoodDiskConfigs
    Ops = {"crud", "reload", "request"}
SPECIFICATION FairSpec
PROPERTY EveryTaskFinishes
