--------------------------- MODULE ConfigSources ---------------------------
(***************************************************************************)
(* Where a gateway takes its configuration from: system.yaml chooses       *)
(* gateway.yaml, watched and reloaded, or etcd, polled and written.  The   *)
(* choice is made once, when the process starts; the half that was not     *)
(* chosen does not run.                                                    *)
(***************************************************************************)
EXTENDS EtcdCluster, HotReload

VARIABLE source

allVars == <<source, vars, watchVars>>

FromFile(A) == source = "file" /\ A /\ UNCHANGED <<source, vars>>
FromEtcd(A) == source = "etcd" /\ A /\ UNCHANGED <<source, watchVars>>

\* In a cluster the file is that of the seed.
SourceInit ==
    /\ Init /\ WatchInit
    /\ source \in {"file", "etcd"}
    /\ source = "etcd" => file = CHOOSE f \in Loadable : TRUE

SourceNext == FromFile(WatchNext) \/ FromEtcd(Next)

\* Both threads of the watcher run, nothing obliges anyone to edit or to ask for
\* a reload, but the handler of one finishes.  In a cluster a supervisor
\* restarts a node that is down, handlers run on, the poll tasks tick, and etcd
\* answers.
SourceFairness ==
    /\ WF_allVars(FromFile(Notify)) /\ WF_allVars(FromFile(watch_config))
    /\ WF_allVars(FromFile(ReloadApply))
    /\ \A n \in Nodes :
          /\ WF_allVars(FromEtcd(Startup(n)))
          /\ WF_allVars(FromEtcd(\E t \in Tasks : Write(n, t)))
          /\ WF_allVars(FromEtcd(PollLoad(n))) /\ WF_allVars(FromEtcd(PollApply(n)))

SourceSpec == SourceInit /\ [][SourceNext]_allVars /\ SourceFairness

-----------------------------------------------------------------------------
\* Nodes that take their configuration from etcd all come up, whatever crashes,
\* unless a fault, or a commit that overlapped another write, has left
\* etcd with what does not compile.
EveryNodeStarts == source = "etcd" => NodesComeUp
=============================================================================
