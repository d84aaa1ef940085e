# Featherbit in TLA+

Featherbit is an API gateway in Rust on the tokio runtime. A request matches a
route, the route names a policy, and the policy is a graph of plugin nodes that
the engine walks: success edges, error edges, a catch-all. The configuration is
swapped under the running gateway by an Admin API, a file watcher or an etcd
store. Beside HTTP it relays TCP, UDP and WebSocket connections. This directory
models the parts of it in which tasks, requests, connections or nodes meet,
checks them with TLC on small instances and proves the main safety properties
with TLAPS for all instances.

`PROJECT.json` maps every definition to the lines it models and lists runs,
mutants, hazards, findings and theorems. Paths below are relative to the root
of the repository.

## 1. Inventory

| component | state | operations | talks to | what is hard |
|---|---|---|---|---|
| shared state (`src/state.rs`, `src/consumers/`) | gateway configuration and route table, each behind a fair `RwLock`; consumer store behind an atomic swap | new, apply_gateway, validate_gateway, reload_from_disk | everyone | two locks, three pieces to swap; apply by several tasks at once |
| admin API (`src/admin/`) | none of its own | CRUD of routes, policies, consumers; list, get, export; status; reload; debug and sandbox | shared state, config store, engine | clone, edit, commit without a lock in between; lock order |
| HTTP listener (`src/server/`) | connection tasks, shutdown signal | match, run the policy, answer | shared state, engine | must not hold the route table while an upstream answers |
| policy graph and engine (`src/graph/`) | compiled graph; one context per request | validate, compile, run | plugins, debug | two ways to read an endpoint; errors on error paths; cycles |
| debug (`src/debug/`, `src/admin/debug.rs`) | ring buffer of traces; the recorder of one run | record, finish, list, sandbox | engine | step limit, time limit, generated ids |
| file watcher (`src/hot_reload/`) | one-slot channel | notify, debounce, drain, reload | shared state | an event between drain and read |
| config store (`src/config_store/`) | etcd keys, the poll's fingerprint | load, seed, commit, poll | shared state, etcd | many puts per commit, crashes, several nodes |
| batch sink (`src/batch/`) | bounded channel, buffer, retry counter | push, receive, flush, retry, drain | loggers | partial failures, a full queue, drop while failing |
| traffic guards (`src/traffic/`, limit-conn, api-breaker, proxy-cache) | atomic counters, breakers, cache entries | acquire / release, check / observe, lookup / store | engine, other requests | two nodes of a policy share state across an upstream call |
| rate limits (`src/ratelimit/`, limit-count, rate-limit) | window counters, token buckets | take | other requests | boundaries of windows, refill, recompile |
| stream proxy (`src/stream/`, `src/server/websocket.rs`) | UDP session map, relay and reader tasks | peek, relay, forward, expire, prune, shut down | balancer | expiry against a late datagram; bytes read ahead of the relay |
| load balancing, outbound (`src/balancer.rs`, `src/outbound/`, upstream, proxy-mirror, traffic-split) | in-flight counters, connection pools | select, call | upstreams | in-flight counts on every way out |
| session logins (openid-connect, cas-auth, authz-casdoor, dingtalk, feishu) | sealed session and flow cookies in the browser; cached keys and tokens | redirect, callback, validate, refresh keys | browser, identity provider | several tabs, single-use codes, key rotation |
| credential and authorization plugins | none but the consumer store and caches | decide, attach the identity | consumer store, callouts | the store is swapped under them; services that fail; a context that remembers |
| transformation, function and script plugins, codecs | none | rewrite, answer, call | engine, functions | each works on what the one before left: codings, lengths, statuses |
| logger plugins | a batch sink each | push, flush | sinks | per-logger flush results |
| routing and variables (`src/routing/`, `src/vars/`) | none | match, resolve, evaluate | listener, plugins | lenient parsing |
| configuration files, metrics, admin UI | – | parse, count | – | sequential |

What makes each part correct:

- **shared state**: whoever can see the gateway configuration sees the one the
  route table was compiled from; only a configuration that is valid as a whole
  gets in; after an apply all three pieces are one configuration; nobody waits
  for ever.
- **engine**: an accepted policy can be walked (no missing node), the trace is
  the path, each error carries the id of its node, a catch-all catches, an
  acyclic policy ends, and a walk goes round only where paths may meet.
- **sandbox**: a synthesised policy is one validation accepts, and its trace
  shows each of the nodes that were posted.
- **watcher**: the last edit is served in the end.
- **etcd store**: a node serves only what compiles, and all nodes end up with
  what etcd holds.
- **batch sink**: accepted entries are settled in order, each once, each sent at
  most `max_retry_count + 1` times, and none is left when the task ends.
- **traffic guards**: no more than `conn + burst` requests at the upstream, the
  counter exact; an open breaker rests for its base time and closes again once
  the upstream is well.
- **rate limits**: no stretch of time lets more through than the
  configuration promises.
- **proxy cache**: what was stored last is found until it expires.
- **balancer, relays**: a target's counter is what it has in flight; what was
  read to find out where to go is not lost; idle sessions go, busy ones stay.
- **a request's way through its nodes**: whoever it is taken for, it proved to be;
  no refusal is overlooked; what was hidden stays hidden; every body leaves with
  headers that describe it; a failure looks like one.
- **session logins**: a login ends as the one it began as, whatever other tabs
  do; one that nothing disturbed succeeds; a published key is known, a withdrawn
  one soon is not; a logout ends the session.

## 2. Modules

| module | models |
|---|---|
| `RwLock` | tokio's fair read-write lock, as the shared state uses it (external) |
| `ConfigState` (+ `MCConfigState`) | shared state, Admin handlers, the data plane's use of the route table |
| `PolicyGraph` | policies, `validate_policy`, `compile_policy`, endpoints |
| `GraphEngine` | `CompiledGraph::run` with a trace recorder |
| `Sandbox` (+ `MCSandbox`) | the sandbox handler around the engine; extends `GraphEngine` |
| `LogPipe` | abstract: entries wait in line and are settled from its front |
| `BatchSink` | the channel, `run_loop`, `flush_with_retry`; implements `LogPipe` |
| `Loggers` | the logger plugins' flushers and `from_config`, over `BatchSink`; the collector is external |
| `EtcdCluster` (+ `MCEtcdCluster`) | gateway nodes over one etcd prefix |
| `HotReload` | the watcher, the file, the notification thread, the reload on demand |
| `ConfigSources` (+ `MCConfigSources`) | the choice between the two at start-up; extends both |
| `LimitConn` | the acquire and release nodes on an atomic counter |
| `CircuitBreaker` | the check and observe nodes on a breaker |
| `RateLimit` | fixed window and token bucket |
| `ProxyCache` | the lookup and store nodes on one cache key |
| `TrafficPath` | requests going through chains of the above around an upstream; extends all four |
| `Balancer` | target selection and in-flight guards |
| `Streams` | TCP, SNI, upstream and WebSocket connections and UDP sessions over a balancer |
| `DataPlane` (+ `MCDataPlane`) | a listener whose requests go through a guarded policy, or one whose connections share targets; extends `TrafficPath` and `Streams` |
| `JwksCache` | openid-connect's check of a signed token: the cached key set, its mutex, the one forced fetch, the provider's rotation |
| `Logins` | tabs of one browser going through openid-connect, authz-casdoor or cas-auth; extends `JwksCache` |
| `Context` | the context of a request, consumers, content codings, options of a node |
| `Vars` | variables, expressions, route matching |
| `Credentials`, `Authorization`, `Providers` | the nodes that establish who is asking, decide, or have a provider name the user |
| `Transform`, `Checks`, `Backends` | the nodes that rewrite, limit and validate, and those that ask someone else |
| `Exchange` (+ `MCExchange`) | one request through the nodes of a policy; each of the above extends the one before |
| `*Proofs` | the theorems, one module per component |

### State and actions

`ConfigState`. `gateway`, `routes`, `consumers` are the three pieces; the locks
are records of what each task asked for and who is ahead of it, so that fairness
(a queued writer blocks later readers) is in the model. A task is an Admin
handler, a reload or a request. Code between two awaits is one step.
`BeginEdit`/`Edit` are the CRUD handlers (each resource has the edits its
handler makes, 404 and 409 answers included in `Refuse`), `ApplyRejected`,
`ApplyConsumers`, `ApplyAskGateway`, `ApplyGateway`, `ApplyRoutes` are
`apply_gateway` from its checks to the last guard it drops,
`StatusRoutes`/`StatusGateway` the status handler, `handle_request` and
`EndRequest` the data plane. What a resource contains is a version; the names
it refers to and whether it compiles are kept.

`PolicyGraph`, `GraphEngine`. Names are sequences of segments, because
`validate_policy` cuts endpoints at the first dot and `parse_edge_endpoint` at
the last. `Start`/`Reject` are compilation, `PluginOk`, `PluginErr` and
`NodeNotFound` one turn of the loop in `run`. A plugin may return either result
on each visit.

`Sandbox`. One action per early return of `run_sandbox`; `Execute` takes a step
of the engine while no answer is out, `Timeout` drops the run.

`BatchSink`. `push` is `try_send`; `Receive`, `Deadline`, `Closed` are the arms
of `run_loop`'s select; `FlushOk`, `FlushErr(n)` (n entries were accepted before
the failure) and `Retry` are `flush_with_retry`. Timers may fire at any time.

`Loggers`. A flusher is a record (how it sends, which statuses it takes for
success), a plugin a flusher with the keys `from_config` insists on. `Answer`,
`NoAnswer`, `Stream`, `Datagram`, `Datagrams` and `Append1` are one flush each:
they decide what the collector now has and call `FlushOk` or `FlushErr(n)` of the
sink; `AnyFlusher` is what the `BatchFlusher` trait itself allows. `push` is the
end of every logger's `execute`. A collector keeps nothing unless it answers with
2xx (or its answer is lost); it then keeps the batch, except that Elasticsearch's
`_bulk` may keep any part of one it answers with 200 (`Accepted`).

`EtcdCluster`. `job[n][t]` is what a task of a node is writing: task 0 is its
start-up, the others its Admin handlers, of which several may be in `commit` at
once, because nothing locks it. A range read is atomic; every put and delete of a commit is a
step; `CallFails` fails a call, which may or may not have taken effect; `Crash`
takes a node down anywhere. `Start`, `BeginSeed`, `SeedDone` are `build_source`,
`PollLoad`/`PollApply` the poll task.

`HotReload`. `Change` is the environment, `Notify` the blocking send,
`Recv`/`Debounced`/`Drain`/`reload_from_disk`/`WatchApply` the loop,
`reload_config`/`ReloadApply` the Admin handler that reads the same file. The
file may be unreadable in between.

`TrafficPath`. `pos[r]` is the node request `r` is at. Each step of a node is a
step of `LimitConn`, `CircuitBreaker`, `RateLimit` or `ProxyCache` joined with the
move to the next node; `UpstreamAnswers`, `UpstreamFails`, `Dropped` are the
upstream and the client. A reload gives the policy a new rate-limit instance with a
full bucket (`Recompile`), and requests under way keep the one of their graph
(`graph[r]`). Time is a tick that ages windows, buckets, the breaker
and the cache entry. A lookup that finds an expired entry (`FindExpired`) lets go
of it before it removes the key (`RemoveExpired`).

`Streams`. `relay[c]` is the task of a client's connection, from `Accept` over the
search for the SNI (`PeekRead`, `PeekEnds`), the selection (`Scan` is one load of
`least_connections`, `Select`) and the guard (`TakePlace`) to `Connect`, `RoundTrip`
or `proxy_upgrade` and the end, which drops the guard. A ClientHello is a number of
units after which the name is known. `loop` is the UDP receive loop (`Forward`,
`Open`, `create_session`, `CreateFails`, `Prune`), `reader[c]` the reader of a
session (`Reply`, `ReaderFails`, `ReaderTimeout`, and `Leave`, the store to `alive`
after the decision). `Shutdown` ends accept and receive loops. Ages are counted
from the last event and saturated at `idle_timeout`.

`JwksCache`. `cache` is `jwks_cache`, `holder` its mutex, `req[q]` a request in
`validate_via_jwks`. `Lock` is `get_jwks` up to the call (or the cached answer),
`Answered` the provider's side, `Store` what follows; `WithKeys` is the rest of
the function, with its second fetch. A token is the key that signed it.

`Logins`. `jar` is the browser's cookies, `tab[t]` a tab's place and the flow and
code it carries. `Serve` and `begin_auth` are the two ends of a request for the
page, `handle_callback` and `CasCallback` the callback up to the provider call,
`Exchange`, `ValidateIdToken`, `CheckNonce` the rest of it, `ArriveAt...` the
arrival of an answer, when the browser applies its cookies. Tabs share the jar,
so that one tab's flow cookie replaces the other's. Over HTTP/2 a browser may send
each cookie in a header of its own, and the code reads the first: `FlowSeen` is
what the callback then sees. The jar has the plugin's two cookies only; one of the
upstream's that comes first would hide both. `CallFails`, `Reload`,
`Expire`, `Logout` are bounded mishaps.

`Exchange`. A policy is a chain of nodes with error edges; `Compile` builds every
node (`*_from_config`), `Route` matches the route, `RunNode` runs one node
(`*_execute`) and follows its success or error edge, `Deliver` is what the listener
makes of the context. An `*_execute` operator gives the set of ways its node may
end: one for what the code decides, several for what a service or a random draw
decides. A text is who wrote it and what it parses as; a body also knows the
codings applied to it, and a content-length is the body it was computed for, so that
stale framing headers show. A credential is the name it claims and the secret it
was made with. One option of one node may be missing or wrong: `Required` and
`Usable` options then refuse the policy, the others fall back to their default, as
the code does. A denial of OPA is its reply: any status, cut to 16 bits as the code
does, a reason and headers. An answer whose status is outside 100..999 is lost
(`Deliver`), because the listener unwraps what the response builder refuses.
`SwapStore` replaces the consumers between two nodes. `sent`, `hidden` and `who` are
history: the requests that left, the credentials that were to be taken out, the
consumers attached, in their order.

## 3. Runs

| run | checks | what it shows |
|---|---|---|
| `ConfigState_safety` | ReadersSeeRunningConfig, StatusIsOneConfig, LastGood, PiecesAgree | three tasks, any mix of operations: no half-applied configuration is seen, no invalid one gets in, and an apply that runs alone leaves consumers, gateway and routes of one configuration |
| `ConfigState_progress` | EveryTaskFinishes | without the status handler nobody waits for ever on the locks |
| `ConfigState_status_deadlock` (violation) | EveryTaskFinishes | status takes routes, gateway; apply takes gateway, routes |
| `Sandbox_walk` | UndottedNeverMissing, NoHiddenLoop, TraceIsPath, CatchAllHandlesAll, SandboxFaithful, AcyclicTerminates | every policy with up to three free edges on four nodes, every request of up to three nodes, every pattern of failures: accepted policies can be walked, a walk comes round only through a node that may have several ways in, the trace is the path with its errors, and the sandbox runs what was posted |
| `Sandbox_dotted` (violation) | AcceptedNeverMissing | an accepted policy with a dotted endpoint has no such node |
| `Loggers_flush` | RetriesAreExact, DeliveryExplained, DrainsOnDrop, PipeSpec | all seventeen loggers and the bare trait: four entries, a channel of one, batches of two, one retry; the sink implements the pipe, a retry sends exactly the rest, an entry that a collector of whole batches has confirmed is there, a second copy comes from an attempt in doubt |
| `ConfigSources_nodes` | RunsValid, NoEditPending, OneWriterConverges, EveryNodeStarts, LastEditServed | two nodes that seed an empty prefix at once, two writers with two Admin handlers each, one failing call or crash; or three changes of the file at any point of the watcher's loop, beside a reload on demand |
| `EtcdCluster_converge` (violation) | Converges | two writers, nothing fails, and a node stays behind for ever |
| `DataPlane` | NeverOverCeiling, CounterIsExact, RestsAfterTrip, RatesBounded, FreshEntryKept, InFlightIsExact, HelloIsReplayed, BreakerRecovers, SessionsTurnOver | three requests over six chains of guards, with a recompile under them; or two clients, two targets, five kinds of connection and three strategies |
| `Exchange` | IdentityIsProven, VerdictsHeeded, HiddenStaysHidden, RequestFramed, ClientCanRead, FailureIsVisible | 22 clients through 32 policies with every node type, each option in turn missing or wrong, every answer of every service, six kinds of denial by OPA, and a reload of the consumers between nodes |
| `Logins_tabs` | OwnLogin, StrayExplained, KnownKeyAccepted, WithdrawnKeyBound, LoneTabServed | three login plugins and bearer tokens: two tabs or requests, two keys, one mishap, cookies in one header or in several |
| `Logins_http_logout` (violation) | LogoutEndsSession | over plain HTTP the browser keeps the session cookie it was told to delete |

Some properties have a stated exception, which is what the code does:
`ClientCanRead` does not cover nodes that answer over what an upstream or a
compressor has framed, nor a denial to which OPA gave framing headers,
`RequestFramed` the body OpenWhisk is sent, `FailureIsVisible` failing upstreams and
scripts wired to the client and denials for which OPA named a status below 300,
`IdentityIsProven` leaves the group, labels and custom id to the last consumer
that had any, and the header of the custom id to the client if none had,
`PiecesAgree` leaves out applies that overlap, `NoHiddenLoop` inputs that are spelt
in two ways, `OneWriterConverges` overlapping commits also of one node,
`StrayExplained` a flow cookie hidden by another, `DeliveryExplained` (first half)
loggers that do not have the word of a collector of whole batches,
`RatesBounded` grants a burst more per recompile, `HelloIsReplayed` a read that crosses the cap,
`EveryNodeStarts` half a seed, or a commit that overlaps other writes, when
what is left in etcd does not compile, `LastEditServed` a reload on demand overtaken
by the watcher. Section 5 says more about each.

### Bounds, and why they are enough

- `ConfigState`: three tasks let two applies race while a third reads. One
  route, one policy and two consumers are enough for a dangling route, an
  uncompilable policy and a shared credential. Tasks are symmetric in the safety
  run; the liveness runs use no symmetry.
- `Sandbox`: three free edges are the least that give a cycle, an error path and
  a shared input at once; `max_steps = 4` is below the longest walks, so that
  truncation happens; `MaxErrors = 2` lets the catch-all fail too.
- `Loggers`: four entries exceed channel plus batch, so that pushes are refused
  and a batch fails part way with others behind it; one retry separates the
  first attempt, the last and one that starts at `first_fail`.
- `EtcdCluster`: two keys (a route and the policy it needs) give valid and
  invalid mixtures; two commits, which may be two handlers of one node at once
  (`MaxHandlers`), and one failure or crash (`MaxFaults`).
- `HotReload`: three events fill the channel, the drain and the reload; one
  reload on demand is enough to overtake the watcher. `ConfigSources` looks at one
  source at a time, because the half that was not chosen does not run.
- `TrafficPath`: three requests on a ceiling of two; thresholds of two; windows
  of three ticks. Counters that only grow are saturated where larger values
  behave alike (`MaxRound`, `rest`, `idle`, `age`), `MaxLeaked` bounds lost slots.
  Two rate-limit instances, the new one and that of requests under way, and one
  recompile in a window's length (`MaxRecompiles`) put a full burst on each side of
  the recompile. Two requests with a cacheable method let one store while the other removes.
- `Streams`: two clients on two targets can tie, overtake each other's scan and
  share a target; a ClientHello of up to three units under a cap of two, in reads of
  one or two, is cut, complete or crosses the cap. The round-robin counter is kept
  modulo the targets. The two listeners of `DataPlane` share nothing but the clock
  and are looked at one at a time.
- `Exchange`: the policies put nodes together whose work can spoil each other's,
  two that attach a consumer among them, and clients bring two consumers'
  credentials or a custom id of their own. OPA denies with no status, one that
  wraps around to 302 or to 200, 0, 403 and 5000, with and without framing
  headers. One fault at a time, one swap of the consumers: a second fault refuses the policy or takes
  another default, neither of which depends on the first.
- `Logins`: two tabs are enough to replace, use up or delete each other's flow
  cookie, two requests to meet at the key cache; two keys give a rotation. A key
  set lives two ticks and a call lasts one; `gone` is saturated just above their
  sum. Flow numbers are used again once no cookie or tab has them. Time passes in
  the bearer mode only, where tokens can be older than the rotation. The passing
  run is over https, the only scheme for which cookies are deleted.

### Fairness, and why the code justifies it

- `ConfigState`: weak fairness of each task's next step. tokio polls every ready
  task, and its lock is fair. A request at its upstream (`EndRequest`) is not
  fair: upstreams may never answer.
- `Sandbox`: weak fairness of the run; the handler is polled to its end.
- `Loggers`: weak fairness of the sink's background task; flushes return because
  calls and connections have a time limit and datagrams and files wait for no
  peer. Nothing is assumed of their result.
- `EtcdCluster`: weak fairness of start-up (a supervisor restarts a node), of each
  handler, and of the two halves of the poll, which runs on an interval.
- `HotReload`: weak fairness of the notification thread, of the loop and of a
  reload handler that has begun.
- `Streams`: weak fairness of time, of the set-up of a session (binding and
  resolving end) and of a reader's time-out and last store; strong fairness of
  `Prune`, which is one arm of a `select!` that picks at random among those that are
  ready. Nothing obliges clients or targets to send.
- `Exchange` states safety only.
- `TrafficPath`: weak fairness of time and of each request's step inside nodes
  and at the upstream (the upstream node has a time-out). `BreakerRecovers`
  additionally supposes that requests keep coming to the check and that clients
  do not for ever disconnect before the observe node: neither is the gateway's
  doing, so both are premises of the property and not of the specification.
- `Logins`: weak fairness of each open tab's next step: the gateway polls its
  tasks, calls to the provider end by their time limit, the browser follows
  redirects and the user logs in. `LoneTabServed` is about a tab with no other
  tab open: with two, each can turn the other away again and again.

## 4. Theorems

All proofs are for arbitrary constants that satisfy the named assumptions.

- **`ConfigStateProofs`** (assumption `ConfigAssumption`: the sentinel is no
  value, the initial configuration is valid). The invariant `Inv` adds to the
  properties: each lock's line is a total order (`LockInv`), what a task asked
  for follows from where it is (`ModesInv`), guards kept across an await are
  still held (`GuardsInv`), candidates past the checks are valid
  (`CarriedInv`), and outside a swap the table is the compiled gateway
  (`RoutesInv`). The properties alone are not inductive: that a reader cannot be
  inside a swap needs the exclusion of the lock, which needs its order. One
  lemma per action; `TypeCorrect`, `LastGoodAlways`, `ReadersAlways`,
  `StatusAlways` follow. For `PiecesAlways`, `LoneInv` adds
  that while the last swap was alone at most one apply is between its swaps, and
  that the store is that apply's candidate's, or the gateway's once none is.
- **`SandboxProofs`**, for the engine's `Spec` and for `SandboxSpec`
  (`EngineAssumption`: policies are well formed; `SandboxAssumption`: requests
  are parsed JSON, and no id that the synthesiser makes up is `listener` or
  `client`; `NamesAssumption`: its six names are strings like the user's).
  *Validation*: for an endpoint without a dotted id the two readings agree, rule by
  rule, and every target of a compiled edge is then a node; `NeverMissingInv`
  (a walk of such a policy stands at one of its nodes) follows. *Trace*:
  `TraceIsPath` says nothing about a trace that is empty or cut off, so `TraceInv`
  adds that nothing is recorded before the walk, that a walk without a record
  stands at the entry, that a cut-off trace is full, and that each recorded
  failure has its error. *Loops*: `RevisitInv` adds to `NoHiddenLoop` that every
  recorded step took an edge of the compiled graph; two visits of a node that no
  two edges enter come from two visits of the node before it, and so back, along
  the trace, to a node where paths may meet or to the entry. *Sandbox*: `SandboxInv` says what a run of a synthesised
  policy has done so far: the first k nodes were visited, and either nothing
  failed and the next one is due, or the k-th failed and the client is; its
  lemmas compute, for a list of any length, what each edge of the synthesised
  policy means to validation and to the walk. `CatchAllHandlesAll` is
  inductive as it stands.
- **`ConfigSourcesProofs`** (`ReloadAssumption`, `EtcdAssumption`).
  `EditAnnounced`: if what the watcher read last is not the file, an event, the
  channel or the loop still has it, whatever reloads on demand do beside it.
  `CandidatesValid`: a job that will apply carries a valid candidate; with it
  `RunsValid` is inductive, whatever the prefix holds. `SourceImplements`: a gateway
  with either source takes only steps of `WatchSpec` and of the cluster, so both
  carry over to it.
- **`TrafficPathProofs`** (`ConnAssumption`: finitely many requests, a positive
  ceiling; `BreakerAssumption`, `CacheAssumption`, `RateAssumption`). `ConnInv`:
  counter = counted requests + leaked slots, a release in progress is itself
  counted (so the floor at zero is never met), and admitted requests fit the
  ceiling; cardinality lemmas for a request that changes place. Every step of a
  policy is a step of `LimitConn` or leaves it alone, whatever the chain, so that
  the two invariants carry over. The other guards are proved inside the policy in
  the same way. `BreakerInv`: while the rest
  is not over, the window that the last trip opened has at least the remainder to
  go, and no backoff is shorter than the first. `CacheInv`: while the newest entry
  is fresh no lookup can find the key expired, so whoever may remove it had
  found its predecessor so. `WindowInv`: what passed before the current window
  belongs to one earlier window. `BucketInv`: in every stretch of ticks, what was
  taken from an instance and what is in its bucket came from the burst and the
  stretch's refills; what was taken from the instances in force, and what is in
  the bucket of the present one, from a burst more with every recompile in the
  stretch (`Covered`). The last two are about `granted`, `taken`, `drawn` and
  `renewed`, which count for every n what happened in the last n ticks, across
  recompiles.
- **`DataPlaneProofs`** (`StreamAssumption`: finitely many clients, the
  strategies of the code, `ip_hash` gives one of the targets). `StreamInv`:
  types (every target selected is one of the pool's); the buffer of every relay
  is what was read, up to the cap (`HelloKept`); a session being set up replaces
  none that has a place (`NewClient`); and the counters. Cardinality lemmas for a
  relay or a session that comes, goes, or is dropped with others.
  `PlaneImplements`: the plane takes only steps of `Streams` and of `TrafficPath`;
  hence `GuardsAlways`, the guards' invariants of the whole plane.
- **`LoggersProofs`** (`BatchAssumption`; `LoggerAssumption`: the loggers are
  the plugins of the source). `SinkInv` sees channel, buffer and batch in flight
  as one line: it is in the order of the pushes, all that has left it is
  older (`LineInOrder`), and of its entries exactly those in flight were tried, all
  equally often (`AttemptsCounted`). Neither property of the sink is inductive
  without that order. `LoggerInv` adds the collector: what it has of the line is in
  flight and in doubt (`OnlyInDoubt`), and a 200 counts for every logger
  (`Takes200`), so that what is sent again was not confirmed. That a confirmed
  entry is there is proved of the loggers in `Confirming`, whose collectors take a
  batch as a whole; of elasticsearch-logger only that it sends nothing twice but
  in doubt. `LoggersImplementPipe` is the step half of the refinement
  to `LogPipe`, through any logger.
- **`LoginsProofs`** (`JwksAssumption`; `TabsAssumption`: finitely many tabs).
  `JwksInv`: who has a call under way has the mutex; a key published all the time
  is in the answer it is looked for in; a key of an answer has been withdrawn no
  longer than the call has lasted, and one of the cache no longer than its age
  and a call. The two properties of the cache follow, and carry over to the
  logins because each of their steps is one of `JwksCache` or leaves it alone.
  `LoginInv`: until the callback, an undisturbed login's flow is that of the
  cookie; after it, flow and presented cookie agree; a callback that did not see
  the cookie counts as disturbed. A counting lemma shows that
  there is always a new flow.
- **`ExchangeProofs`** (`ChainAssumption`: error edges stay in the chain, options
  that are lists are lists). Chains of any length of all node types, with any
  options, one of them possibly spoilt; any clients, consumers and answers. The
  work is in one lemma per node type. `Fair` and `Fine` say how it ends: against a
  verdict it does not succeed, and if it refuses it writes a refusal. `Gentle`,
  `Mild` and `Works` say what it does to bodies: a body that is read is framed, one
  that is rewritten loses its framing headers or gets true ones, and only those
  nodes write a body over an answer that `KeepsFraming` names. `multi-auth` and
  the serverless lists run others in turn; which was the first to end is found as
  a least element, without induction. `ExchangeInv` adds to `VerdictsHeeded` and
  `FailureIsVisible` that each entry of the trail, wherever it stands, ended as its
  type may, and that a refusal stays visible until another node has run.
  `BodiesInv` adds to `RequestFramed` that the request and its headers are in order
  between nodes too, and to `ClientCanRead` that, until a node has framed an answer,
  there is nothing a refusal could be written over (`Fresh`).
  `SecretsInv` (`Guarded`) adds to `HiddenStaysHidden` that the places themselves
  are in order between nodes: what is there is what the client sent, a token made
  of it, the provider's, or nothing (`Kept`), and a credential that was hidden is
  out of its place, with nothing left that could bring it back (`Out`). One lemma
  per node type shows that it leaves all of this alone (`Quiet`), or takes out, or
  writes the gateway's own (`Safe`). `IdentityInv` adds to `IdentityIsProven`
  that the trail only grows and the store only moves on, so that what admitted a
  consumer stays there. `attach_consumer` writes what the consumer has
  and takes nothing away (`Joins`), which keeps `Identified`: of each field, the
  value is that of the last consumer that had one (`LatestAppend`). In `multi-auth`
  the earlier attempts fail, and a failed attempt attaches nobody (`Vouched`).
  Five theorems have hypotheses on the configuration, clients and consumers, which
  the gateway does not check, and which those of the run satisfy (TLC evaluates
  `MCRefusalCodes`, `MCMarksHonoured`, `MCSplitsWired`, `MCCredentialsApart` and
  `MCConsumersApart`). All of them exclude an operator's own instruction to do what
  the property forbids, or a client who guesses what only the gateway has:
  - `RefusalCodes`: configured refusal codes (`rejected_code`, `status_on_error`, a
    workflow's code, an injected abort) are no success codes;
  - `MarksHonoured`: no option has a node write or remove content-encoding,
    content-length or accept-encoding, and clients' requests are framed;
  - `SplitsWired`, for `ClientCanRead`: the error edge of a traffic-split leads
    somewhere, because the engine otherwise writes its 500 over the answer of the
    target;
  - `CredentialsApart`, for `HiddenStaysHidden` and `IdentityIsProven`: no
    option has a node write or remove a header or message by which clients and
    consumers are known, keys are looked for under one header and one parameter,
    and no client brings a credential of the gateway's own (its session tokens,
    its function keys and signatures). Without it a rewrite may put back what an
    earlier node hid;
  - `ConsumersApart`, for `IdentityIsProven`: no consumer's secret is the one the
    login providers sign with. How many nodes attach a consumer, in which order they
    are met and what the client sends as X-Consumer-Custom-ID is left open.

Only model-checked: liveness (`EveryTaskFinishes`, `AcyclicTerminates`,
`DrainsOnDrop`, `LastEditServed`, `OneWriterConverges`, `EveryNodeStarts`,
`BreakerRecovers`, `SessionsTurnOver`, `LoneTabServed`) and the liveness half of
the refinement to `LogPipe`, which need fairness and ENABLED. Every invariant of a
passing run is a theorem.

## 5. What the models found

Runs that end in a violation, each against a line of the repository:

1. `GET /api/status` and an apply can wait for each other for ever; what asks for
   their locks later waits behind them (`src/admin/status.rs:60`, `src/state.rs:118`).
2. `validate_policy` and the engine cut dotted endpoints at different dots
   (`src/graph/validation.rs:41`).
3. With two writers a node may keep a configuration that etcd no longer holds
   (`src/config_store/etcd.rs:260`).
4. Over plain HTTP a logout does not end the session: `delete_cookie` always
   sets `Secure`, also where the cookie was made without it, and browsers refuse
   such a cookie there, some of them with an exception for localhost
   (`src/plugins/util/cookie_session.rs:237`).

Seen on the way, without a run of its own:

- `apply_gateway` "atomically swaps" three pieces (`src/state.rs:102`), but the
  consumer store is swapped before the locks are taken (`src/state.rs:117`): two
  concurrent applies can leave the consumers of one with the gateway and the routes
  of the other, until the next apply (without its condition `lone`, `PiecesAgree`
  is violated);
- of two concurrent CRUD calls, or a CRUD call and a reload, the later commit
  undoes the earlier (`src/admin/policies.rs:64`, `src/state.rs:141`); the etcd
  commit has the same window (`src/config_store/etcd.rs:241`), and takes no lock
  (`etcd.rs:227`): the puts and the local applies of two commits of one node may
  come in different orders, and the node and etcd then stay apart for ever;
- a crash while seeding leaves a prefix that no node can start from
  (`src/config_store/etcd.rs:347`); nor is half a commit that does not compile
  repaired by anyone, and without any fault a node that is slow to seed can put a
  route back whose policy another node has just deleted; commits of the file store
  are in memory only and are lost at the next reload;
- a reload on demand that read the file before the watcher did, and applies after
  it, leaves the older edit in service (`src/state.rs:141`);
- a cyclic policy is accepted and never ends (`src/graph/engine.rs:50`), and a
  walk without an await cannot be timed out by the sandbox; the rule of one edge
  per input (`src/graph/validation.rs:74`) leaves only cycles through error
  handlers, clients, the catch-all or the listener, unless an input is spelt in two
  ways: to `validate_policy`, "b" and "b.in" are two inputs, to the engine one node;
- dotted node ids cannot be wired, and the sandbox accepts the reserved ids
  `listener` and `client` for a user's node (`src/debug/sandbox.rs:238`);
- a disconnect at the upstream leaks a limit-conn slot (`limit_conn.rs:255`);
  requests that are rejected inflate the counter for a moment and can reject
  others below the ceiling; the wiring shown in its documentation
  (`limit_conn.rs:11-30`), two edges into release, is refused by `validate_policy`;
- an elapsed breaker lets every waiting request through, not one probe
  (`src/traffic/mod.rs:61`), and late answers count while it is open;
- a rate-limit bucket is full again after a recompile, whatever the policy's change
  was: a burst before it and a burst after it go through at once;
- http-logger, skywalking-logger and clickhouse-logger count a 3xx answer as
  delivered although their client follows no redirect; tencent-cloud-cls counts
  401, 403, 404 and 413 as delivered, to drop the batch; elasticsearch-logger
  takes any 200 of `_bulk` for success (`elasticsearch_logger.rs:239`) without the
  per-item results, so that entries the cluster refused count as delivered and are
  not sent again;
- tcp-logger's comment "A TCP connect/write failure delivered nothing"
  (`tcp_logger.rs:79`) does not hold for a stream that broke half way, and the
  retry sends those lines again; file-logger's `write_all` without a flush can
  report success for what is not written.
- a page outside the cookies' path makes openid-connect and authz-casdoor
  redirect to the provider for ever; `from_config` checks the callback's path
  only, and cas-auth none;
- two tabs that log in at once can turn each other away with a 401, and the one
  that ends first deletes the other's flow cookie; a reloaded callback is a 401
  even with a session;
- session and flow cookies are looked for in the first Cookie header only
  (`openid_connect.rs:630`, `:773`, `authz_casdoor.rs:307`, `:316`,
  `cas_auth.rs:276`). HTTP/2 allows one header per cookie: a flow cookie behind the
  session's is not seen, and any cookie of the upstream's in front hides both;
- a token that names no key is checked against the only key of the cache; after
  a rotation it is refused, without a second fetch, until the cache expires, and
  while two keys are published it is always refused;
- an expired cache entry is removed after its lock is released
  (`src/traffic/mod.rs:146`), and a fresh one with it: one more miss. Lookup and
  store "always agree" on the key only if no node between them rewrites what it is
  made of;
- `peek_sni` says that the bytes it consumed are returned to be replayed
  (`src/stream/tcp.rs:104`), but of a read that crosses the 8 KiB cap it keeps only
  what fits (`tcp.rs:124`): the rest is lost to the target;
- WebSocket tunnels hold no place in the balancer, as the code says
  (`upstream.rs:144`), so that `least_connections` does not see them; the connect of
  `proxy_upgrade` has no time-out;
- a datagram that is forwarded while its session's reader gives up gets no answer;
  a new session's `last_seen` is set back to the arrival of its first datagram;
- the rule for plugins that replace a body, to remove its content-length and
  content-encoding (`src/plugins/util/content_codec.rs:10`), is kept by those that
  rewrite, and not by those that answer or refuse: error-handler, mocking, a cors
  preflight, an injected fault and every rejection after an upstream's answer;
- error-page leaves an upstream's own error answers alone by a flag that
  traffic-split, cache hits and fallback upstreams do not set;
- upstream and traffic-split forward the path without the query;
- a failing upstream or script sets no status; wired to the client it is a 200;
- a denial of OPA has the status of its reply (`opa.rs:225`, as `opa.md:58`
  documents), cut to 16 bits (`opa.rs:278`): with 200, 0 or 65736 a denied request
  that is wired to the client goes out as a success; a status outside 100..999
  makes the listener's response builder fail and its `unwrap` panic
  (`src/server/listener.rs:419`), so that the client gets no answer; and the reply's
  headers are inserted unseen (`opa.rs:230`), a content-length or content-encoding
  that does not fit the body included;
- `attach_consumer` never clears the previous consumer's group, labels and custom
  id (`src/consumers/mod.rs:163`), so that after two credential nodes the name of one
  consumer can go with the group of another, which `acl` then decides by; nor does
  it clear an X-Consumer-Custom-ID the client sent, if the consumer has none. Both
  happen in the run;
- lists of ip-restriction and others are read leniently: a mistyped `allow` admits
  everybody;
- openwhisk sends a coded body without its content-encoding.

## 6. Not modelled, and the plan

Left out, with the reason:

- TLS set-up (`src/server/tls.rs`) and the parsing of configuration files
  (`src/config/`): sequential set-up without state of their own; whether a
  configuration loads is an input of `HotReload`, `ConfigState` and `Exchange`;
- metrics and tracing plugins: counters and spans nothing else reads; their
  exporters are batch sinks;
- the Lua machine, request signing, sealing and signatures, compression: what they
  compute is external, what the gateway does with the result is modelled;
- the bytes of a ClientHello, of URLs, templates and messages; HTTP/3 and body
  limits; the drain of HTTP connections at shutdown;
- the ring buffer of finished traces, redaction and the diff of two contexts;
- the admin user interface, Basic authentication of the Admin API.

Next, in this order:

1. the trace store;
2. the HTTP listener's shutdown.
