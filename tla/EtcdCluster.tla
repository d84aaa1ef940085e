---------------------------- MODULE EtcdCluster ----------------------------
(***************************************************************************)
(* Gateway nodes that share their configuration through etcd.  A node      *)
(* starts by loading the prefix, seeding it from its gateway.yaml when it  *)
(* is empty; an Admin API write reconciles etcd key by key and then        *)
(* applies locally; a poll task reloads and applies what changed.          *)
(*                                                                         *)
(* A range request reads all keys at once; every put and delete is a step  *)
(* of its own.  apply_gateway is one step here (ConfigState opens it up).  *)
(***************************************************************************)
EXTENDS Naturals, Sequences, FiniteSets

CONSTANTS
    Nodes,
    PutOrder,        \* the keys, routes first, then policies, then consumers
    Values,          \* contents of a resource
    Absent,          \* no such key
    None,            \* no configuration
    ValidConfigs,    \* the configurations that build and compile
    Seed,            \* what gateway.yaml holds
    InitialEtcd,     \* what etcd holds before the first node starts
    Writers,         \* the nodes whose Admin API is used
    MaxHandlers,     \* bound: how many Admin API writes a node has under way at once
    MaxCommits, MaxFaults   \* bounds: a fault is a call that fails or a crash

Keys    == {PutOrder[i] : i \in DOMAIN PutOrder}
Configs == [Keys -> Values \cup {Absent}]
Present(c)  == {k \in Keys : c[k] # Absent}
is_empty(c) == Present(c) = {}

\* What writes to etcd on a node: its start-up, and the handlers of its Admin API.
Main     == 0
Handlers == 1..MaxHandlers
Tasks    == {Main} \cup Handlers

ASSUME EtcdAssumption ==
    /\ Absent \notin Values /\ None \notin Configs
    /\ ValidConfigs \subseteq Configs
    /\ Seed \in ValidConfigs /\ InitialEtcd \in Configs
    /\ Writers \subseteq Nodes
    /\ {MaxHandlers, MaxCommits, MaxFaults} \subseteq Nat

VARIABLES
    etcd,       \* the keys under the prefix
    running,    \* the configuration each node serves; None while it is down
    last,       \* the poll task's fingerprint of what it applied last
    polled,     \* what the poll task loaded and has not applied yet, or None
    job,        \* what each task of a node is writing: a commit, the seeding, or nothing
    writers,    \* history: the nodes that have written
    overlap,    \* history: has a commit run while another task was writing?
    commits, failures, crashes

history == <<writers, overlap>>
bounds  == <<commits, failures, crashes>>
vars    == <<etcd, running, last, polled, job, history, bounds>>

Idle == [pc |-> "idle", cand |-> None, todo |-> << >>, drop |-> {}]

Init ==
    /\ etcd = InitialEtcd
    /\ running = [n \in Nodes |-> None]
    /\ last = [n \in Nodes |-> None]
    /\ polled = [n \in Nodes |-> None]
    /\ job = [n \in Nodes |-> [t \in Tasks |-> Idle]]
    /\ writers = {} /\ overlap = FALSE
    /\ commits = 0 /\ failures = 0 /\ crashes = 0

\* The task is writing to etcd; it is writing a commit.
Busy(n, t)       == job[n][t].pc # "idle"
Committing(n, t) == job[n][t].pc \in {"range", "put"}

\* The keys of c in the order in which they are written.
Puts(c) == SelectSeq(PutOrder, LAMBDA k : c[k] # Absent)

-----------------------------------------------------------------------------
(* Start: build_source and SharedState::new. *)

\* etcd holds a configuration: the local file is ignored.  A configuration
\* that does not compile ends the process, to be started again.
Start(n) ==
    /\ running[n] = None /\ job[n][Main].pc = "idle"
    /\ ~is_empty(etcd) \/ is_empty(Seed)
    /\ etcd \in ValidConfigs
    /\ running' = [running EXCEPT ![n] = etcd]
    /\ UNCHANGED <<etcd, last, polled, job, history, bounds>>

\* Mutant: the prefix is not seeded.
NoSeed(n) == FALSE

\* Mutant: the keys are queued, but not what to write under them.
SeedNothing(n) ==
    /\ running[n] = None /\ job[n][Main].pc = "idle"
    /\ is_empty(etcd) /\ ~is_empty(Seed)
    /\ job' = [job EXCEPT ![n][Main] = [Idle EXCEPT !.pc = "seed", !.todo = Puts(Seed)]]
    /\ writers' = writers \cup {n}
    /\ overlap' = (overlap \/ \E m \in Nodes, t \in Tasks : Committing(m, t))
    /\ UNCHANGED <<etcd, running, last, polled, bounds>>

\* The prefix is empty: seed it.
BeginSeed(n) ==
    /\ running[n] = None /\ job[n][Main].pc = "idle"
    /\ is_empty(etcd) /\ ~is_empty(Seed)
    /\ job' = [job EXCEPT ![n][Main] = [Idle EXCEPT !.pc = "seed", !.cand = Seed,
                                                    !.todo = Puts(Seed)]]
    /\ writers' = writers \cup {n}
    /\ overlap' = (overlap \/ \E m \in Nodes, t \in Tasks : Committing(m, t))
    /\ UNCHANGED <<etcd, running, last, polled, bounds>>

\* write_all is done: load again, and start with what is there.
SeedDone(n) ==
    /\ job[n][Main].pc = "seed" /\ job[n][Main].todo = << >>
    /\ job' = [job EXCEPT ![n][Main] = Idle]
    /\ running' = [running EXCEPT ![n] = IF etcd \in ValidConfigs THEN etcd ELSE None]
    /\ UNCHANGED <<etcd, last, polled, history, bounds>>

-----------------------------------------------------------------------------
(* commit: an Admin API write of one resource. *)

\* The handler edits a clone of the running configuration and validates it; an
\* invalid candidate is refused before etcd is touched.  Nothing keeps a second
\* handler of the node from doing the same (handlers are alike: the first that
\* is free takes the request).
BeginCommit(n, t) ==
    /\ n \in Writers /\ running[n] # None
    /\ t \in Handlers /\ \A u \in Handlers : (job[n][u].pc = "idle") => t <= u
    /\ job[n][t].pc = "idle"
    /\ commits < MaxCommits
    /\ commits' = commits + 1
    /\ \E k \in Keys, v \in Values \cup {Absent} :
          LET cand == [running[n] EXCEPT ![k] = v]
          IN  /\ cand \in ValidConfigs
              /\ job' = [job EXCEPT ![n][t] = [Idle EXCEPT !.pc = "range", !.cand = cand]]
    /\ writers' = writers \cup {n}
    /\ overlap' = (overlap \/ \E m \in Nodes, u \in Tasks : Busy(m, u))
    /\ UNCHANGED <<etcd, running, last, polled, failures, crashes>>

\* range_prefix: which keys to delete in the end is decided here.
Range(n, t) ==
    /\ job[n][t].pc = "range"
    /\ job' = [job EXCEPT ![n][t].pc = "put",
                          ![n][t].todo = Puts(job[n][t].cand),
                          ![n][t].drop = Present(etcd) \ Present(job[n][t].cand)]
    /\ UNCHANGED <<etcd, running, last, polled, history, bounds>>

\* The next resource of the candidate, or of the seed, is written.
Put(n, t) ==
    /\ job[n][t].pc \in {"put", "seed"} /\ job[n][t].todo # << >>
    /\ LET k == Head(job[n][t].todo)
       IN  etcd' = [etcd EXCEPT ![k] = job[n][t].cand[k]]
    /\ job' = [job EXCEPT ![n][t].todo = Tail(job[n][t].todo)]
    /\ UNCHANGED <<running, last, polled, history, bounds>>

Delete(n, t) ==
    /\ job[n][t].pc = "put" /\ job[n][t].todo = << >>
    /\ \E k \in job[n][t].drop :
          /\ etcd' = [etcd EXCEPT ![k] = Absent]
          /\ job' = [job EXCEPT ![n][t].drop = job[n][t].drop \ {k}]
    /\ UNCHANGED <<running, last, polled, history, bounds>>

\* Everything is written: apply_gateway on the writing node.
Apply(n, t) ==
    /\ job[n][t].pc = "put" /\ job[n][t].todo = << >> /\ job[n][t].drop = {}
    /\ running' = [running EXCEPT ![n] = job[n][t].cand]
    /\ job' = [job EXCEPT ![n][t] = Idle]
    /\ UNCHANGED <<etcd, last, polled, history, bounds>>

\* A call fails, or times out after it took effect: the commit returns Err with
\* what it wrote left in place; a failed seeding ends the process.
CallFails(n, t) ==
    /\ job[n][t].pc # "idle" /\ failures + crashes < MaxFaults
    /\ failures' = failures + 1
    /\ job' = [job EXCEPT ![n][t] = Idle]
    /\ UNCHANGED <<etcd, running, last, polled, history, commits, crashes>>

-----------------------------------------------------------------------------
(* spawn_watch *)

\* Mutant: the first poll takes what the node started with as applied.
PollLoadStale(n) ==
    /\ running[n] # None /\ polled[n] = None
    /\ etcd # last[n]
    /\ IF last[n] = None THEN last' = [last EXCEPT ![n] = etcd] /\ UNCHANGED polled
       ELSE polled' = [polled EXCEPT ![n] = etcd] /\ UNCHANGED last
    /\ UNCHANGED <<etcd, running, job, history, bounds>>

\* load_all, and the fingerprint differs.  A poll that fails, or that finds
\* nothing new, changes nothing.
PollLoad(n) ==
    /\ running[n] # None /\ polled[n] = None
    /\ etcd # last[n]
    /\ polled' = [polled EXCEPT ![n] = etcd]
    /\ UNCHANGED <<etcd, running, last, job, history, bounds>>

\* Mutant: what comes out of etcd is taken as valid.
PollApplyUnchecked(n) ==
    /\ polled[n] # None
    /\ running' = [running EXCEPT ![n] = polled[n]]
    /\ last' = [last EXCEPT ![n] = polled[n]]
    /\ polled' = [polled EXCEPT ![n] = None]
    /\ UNCHANGED <<etcd, job, history, bounds>>

\* apply_gateway; the fingerprint is kept only if it succeeds.
PollApply(n) ==
    /\ polled[n] # None
    /\ IF polled[n] \in ValidConfigs
       THEN /\ running' = [running EXCEPT ![n] = polled[n]]
            /\ last' = [last EXCEPT ![n] = polled[n]]
       ELSE UNCHANGED <<running, last>>
    /\ polled' = [polled EXCEPT ![n] = None]
    /\ UNCHANGED <<etcd, job, history, bounds>>

\* The process dies, wherever it is.
Crash(n) ==
    /\ failures + crashes < MaxFaults
    /\ running[n] # None \/ job[n][Main].pc # "idle"
    /\ crashes' = crashes + 1
    /\ running' = [running EXCEPT ![n] = None]
    /\ last' = [last EXCEPT ![n] = None]
    /\ polled' = [polled EXCEPT ![n] = None]
    /\ job' = [job EXCEPT ![n] = [t \in Tasks |-> Idle]]
    /\ UNCHANGED <<etcd, history, commits, failures>>

-----------------------------------------------------------------------------
Startup(n)  == Start(n) \/ BeginSeed(n)
Write(n, t) == Range(n, t) \/ Put(n, t) \/ Delete(n, t) \/ Apply(n, t)
               \/ (t = Main /\ SeedDone(n))

Next == \E n \in Nodes :
    \/ Startup(n) \/ PollLoad(n) \/ PollApply(n) \/ Crash(n)
    \/ \E t \in Tasks : BeginCommit(n, t) \/ Write(n, t) \/ CallFails(n, t)

Spec == Init /\ [][Next]_vars

\* A supervisor restarts a node that is down; handlers run on; the poll task
\* ticks; etcd answers.  (Writes are finite, and their number is bounded: that
\* one of them goes on is enough.)
Fairness ==
    \A n \in Nodes :
        /\ WF_vars(Startup(n)) /\ WF_vars(\E t \in Tasks : Write(n, t))
        /\ WF_vars(PollLoad(n)) /\ WF_vars(PollApply(n))

FairSpec == Spec /\ Fairness

-----------------------------------------------------------------------------
(* Properties. *)

\* Last-good: whatever a poll catches in the middle of another node's commit,
\* a failed commit or a failed seeding, a node serves a valid configuration.
RunsValid == \A n \in Nodes : running[n] # None => running[n] \in ValidConfigs

\* Once the writes are over, every node that is up serves what etcd holds
\* (unless that is invalid, in which case it keeps the last good one).
Converges ==
    <>[](etcd \in ValidConfigs => \A n \in Nodes : running[n] \in {etcd, None})

\* The same when one node does all the writing, one Admin API call after the
\* other, and its calls succeed, whichever node crashes in the middle of it.
\* Writes of two nodes, and two writes of one node that overlap, are excepted:
\* their puts and their local applies may come in different orders, and then
\* the nodes and etcd stay apart for ever.
OneWriterConverges ==
    <>[]( \/ Cardinality(writers) > 1 \/ overlap \/ failures > 0
          \/ etcd \in ValidConfigs => \A n \in Nodes : running[n] \in {etcd, None})

\* Every node comes up and stays up in the end, also when several find the prefix
\* empty and seed it at the same time, and also after a crash.  Two things may
\* leave in etcd what does not compile, and nothing repairs that: a call that
\* failed or a crash in the middle of a seeding or a commit, and a commit that
\* runs while the same or another node seeds or commits.
NodesComeUp ==
    \A n \in Nodes :
        <>[]( \/ running[n] # None
              \/ (failures + crashes > 0 \/ overlap) /\ etcd \notin ValidConfigs)
=============================================================================
