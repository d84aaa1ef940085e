------------------------ MODULE ConfigSourcesProofs ------------------------
(***************************************************************************)
(* The two sources of a configuration.  The watcher misses no edit, for    *)
(* any number of edits, reloads on demand and contents.  No node of a      *)
(* cluster ever serves a configuration that does not compile, for any      *)
(* number of nodes, keys, values, writes, failures and crashes.            *)
(***************************************************************************)
EXTENDS ConfigSources, TLAPS

-----------------------------------------------------------------------------
(* The watcher. *)

\* NoEditPending is about the one control point where the watcher can stay for
\* ever.  What makes it inductive is what holds at every other one: an edit
\* that has not been read is announced by an event still to come, or the
\* watcher is on its way to the reload.
EditAnnounced ==
    /\ events \in Nat
    /\ \/ loaded.content = file
       \/ events > 0
       \/ channel = 1
       \/ pc \in {"debounce", "drain", "reload"}

\* Whenever the watcher waits and no event is under way, it has read the file
\* as it stands.
THEOREM NoEditPendingAlways == WatchSpec => []NoEditPending
<1> USE DEF EditAnnounced, Read
<1>1. WatchInit => EditAnnounced
    BY DEF WatchInit
<1>2. EditAnnounced /\ [WatchNext]_watchVars => EditAnnounced'
    <2> SUFFICES ASSUME EditAnnounced, [WatchNext]_watchVars PROVE EditAnnounced'
        OBVIOUS
    <2>1. CASE Change
        BY <2>1 DEF Change
    <2>2. CASE Notify
        BY <2>2 DEF Notify
    <2>3. CASE Recv \/ Debounced \/ Drain
        BY <2>3 DEF Recv, Debounced, Drain
    <2>4. CASE reload_from_disk \/ WatchApply
        BY <2>4 DEF reload_from_disk, WatchApply
    <2>5. CASE reload_config \/ ReloadApply
        BY <2>5 DEF reload_config, ReloadApply
    <2>6. CASE UNCHANGED watchVars
        BY <2>6 DEF watchVars
    <2> QED BY <2>1, <2>2, <2>3, <2>4, <2>5, <2>6 DEF WatchNext, watch_config
<1>3. EditAnnounced => NoEditPending
    BY DEF NoEditPending
<1> QED BY <1>1, <1>2, <1>3, PTL DEF WatchSpec

-----------------------------------------------------------------------------
(* The cluster. *)

\* RunsValid speaks of the moment a candidate is served; the candidate was
\* validated when its commit began, and etcd has changed many times since.  The
\* invariant carries the verdict from the one moment to the other.
CandidatesValid ==
    /\ DOMAIN running = Nodes /\ DOMAIN job = Nodes
    /\ \A n \in Nodes : DOMAIN job[n] = Tasks
    /\ \A n \in Nodes, t \in Tasks :
          /\ DOMAIN job[n][t] = DOMAIN Idle
          /\ job[n][t].pc \in {"range", "put"} => job[n][t].cand \in ValidConfigs
    /\ RunsValid

\* Every step of a node keeps the invariant.
LEMMA CandidatesStep ==
    ASSUME CandidatesValid, NEW n \in Nodes, NEW t \in Tasks,
           \/ Startup(n) \/ Write(n, t) \/ BeginCommit(n, t) \/ CallFails(n, t)
           \/ PollLoad(n) \/ PollApply(n) \/ Crash(n)
    PROVE  CandidatesValid'
<1> USE DEF CandidatesValid, RunsValid, Idle
<1>0. Main \in Tasks
    BY DEF Tasks
<1>1. CASE Start(n)
    BY <1>1 DEF Start
<1>2. CASE BeginSeed(n)
    BY <1>0, <1>2 DEF BeginSeed
<1>3. CASE SeedDone(n)
    BY <1>0, <1>3 DEF SeedDone
<1>4. CASE BeginCommit(n, t)
    <2>1. PICK c \in ValidConfigs :
              job' = [job EXCEPT ![n][t] = [Idle EXCEPT !.pc = "range", !.cand = c]]
        BY <1>4 DEF BeginCommit
    <2>2. UNCHANGED running
        BY <1>4 DEF BeginCommit
    <2> QED BY <2>1, <2>2
<1>5. CASE Range(n, t)
    BY <1>5 DEF Range
<1>6. CASE Put(n, t)
    BY <1>6 DEF Put
<1>7. CASE Delete(n, t)
    BY <1>7 DEF Delete
<1>8. CASE Apply(n, t)
    BY <1>8 DEF Apply
<1>9. CASE CallFails(n, t)
    BY <1>9 DEF CallFails
<1>10. CASE PollLoad(n)
    BY <1>10 DEF PollLoad
<1>11. CASE PollApply(n)
    BY <1>11 DEF PollApply
<1>12. CASE Crash(n)
    BY <1>12 DEF Crash
<1> QED BY <1>1, <1>2, <1>3, <1>4, <1>5, <1>6, <1>7, <1>8, <1>9, <1>10, <1>11, <1>12
        DEF Startup, Write

\* A node starts from a valid configuration, applies only candidates that were
\* validated, and discards what it polls in the middle of a write unless it
\* compiles.
THEOREM RunsValidAlways == Spec => []RunsValid
<1>1. Init => CandidatesValid
    BY DEF Init, CandidatesValid, RunsValid, Idle
<1>2. CandidatesValid /\ [Next]_vars => CandidatesValid'
    <2> SUFFICES ASSUME CandidatesValid, [Next]_vars PROVE CandidatesValid'
        OBVIOUS
    <2>1. CASE Next
        BY <2>1, CandidatesStep DEF Next, Tasks
    <2>2. CASE UNCHANGED vars
        BY <2>2 DEF vars, CandidatesValid, RunsValid
    <2> QED BY <2>1, <2>2
<1>3. CandidatesValid => RunsValid
    BY DEF CandidatesValid
<1> QED BY <1>1, <1>2, <1>3, PTL DEF Spec

-----------------------------------------------------------------------------
(* A gateway with either source. *)

\* The source that was chosen runs as it does alone, the other stands still.
THEOREM SourceImplements == SourceSpec => WatchSpec /\ Spec
<1>1. SourceInit => WatchInit /\ Init
    BY DEF SourceInit
<1>2. [SourceNext]_allVars => [WatchNext]_watchVars /\ [Next]_vars
    BY DEF SourceNext, FromFile, FromEtcd, allVars
<1> QED BY <1>1, <1>2, PTL DEF SourceSpec, WatchSpec, Spec

\* Whatever the source, no edit waits for a watcher that waits, and no node
\* serves what does not compile.
THEOREM SourcesAlways == SourceSpec => [](NoEditPending /\ RunsValid)
BY SourceImplements, NoEditPendingAlways, RunsValidAlways, PTL
=============================================================================
