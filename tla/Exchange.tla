----------------------------- MODULE Exchange -----------------------------
(***************************************************************************)
(* One request on its way through a policy: the listener matches a route,  *)
(* the engine runs the nodes of its graph one after another, each on the   *)
(* context the one before left, and what the context says at the end is    *)
(* delivered.  The graph is a chain with error edges: nodes is a sequence  *)
(* of [type, cfg, err]; a node that succeeds is followed by the next one,  *)
(* a node that fails by node err, by the client if err = Len(nodes) + 1,   *)
(* and by nobody if err = 0.                                               *)
(*                                                                         *)
(* The operator may have got one option of one node wrong, by its type or  *)
(* by leaving it out; the graph is then refused or runs with that option's *)
(* default.  An administrator may replace the consumers between two nodes. *)
(***************************************************************************)
EXTENDS Backends

CONSTANTS
    Chains,     \* a sequence of [match, nodes]
    Requests,   \* what the client may send
    Stores      \* the consumer store before and after a reload

VARIABLES
    idx, fault,     \* which chain, and the option that is wrong, if any
    phase,          \* "new", "up", "run", "done", "refused" or "lost"
    pos,            \* the node to run next
    ctx,
    store,          \* the index in Stores of the consumers in force
    trail,          \* history: the nodes that ran, how they ended, what was said
    client          \* history: what the client sent

vars == << idx, fault, phase, pos, ctx, store, trail, client >>

IsList(s) == Len(s) \in Nat /\ s = [i \in 1 .. Len(s) |-> s[i]]

\* A node of a chain of n: its error edge stays in the chain, and the options that
\* are lists are lists.
IsNode(node, n) ==
    /\ {"type", "cfg", "err"} \subseteq DOMAIN node
    /\ node.err \in 0 .. n + 1
    /\ \A o \in {"auth_plugins", "functions", "rules"} :
          Given(node.cfg, o) => IsList(node.cfg[o])

ASSUME ChainAssumption ==
    \A i \in DOMAIN Chains :
        LET nodes == Chains[i].nodes
        IN  IsList(nodes) /\ \A n \in DOMAIN nodes : IsNode(nodes[n], Len(nodes))

-----------------------------------------------------------------------------
\* No fault is << >>, any other << node, option, "wrong" or "missing" >>.
Spoilt(node, o, how) ==
    [node EXCEPT !.cfg = [p \in DOMAIN @ \ (IF how = "missing" THEN {o} ELSE {}) |->
                              IF p = o THEN Bad ELSE @[p]]]

Faults(chain) ==
    {<< >>} \cup UNION {{<< n, o, how >> : o \in DOMAIN chain.nodes[n].cfg,
                                           how \in {"wrong", "missing"}} :
                        n \in DOMAIN chain.nodes}

Nodes ==
    LET nodes == Chains[idx].nodes
    IN  IF fault = << >> THEN nodes
        ELSE [nodes EXCEPT ![fault[1]] = Spoilt(@, fault[2], fault[3])]

End == Len(Nodes) + 1

create_plugin(node) ==
    CASE node.type \in CredentialTypes    -> credential_created(node)
      [] node.type \in AuthorizationTypes -> authorization_created(node)
      [] node.type \in ProviderTypes      -> provider_created(node)
      [] node.type \in TransformTypes     -> transform_created(node)
      [] node.type \in CheckTypes         -> check_created(node)
      [] node.type \in BackendTypes       -> backend_created(node)
      [] node.type \in {"listener", "client"} -> TRUE
      [] OTHER                            -> FALSE

execute(node, c) ==
    CASE node.type \in CredentialTypes    -> credential_execute(node, c, Stores[store])
      [] node.type \in AuthorizationTypes -> authorization_execute(node, c)
      [] node.type \in ProviderTypes      -> provider_execute(node, c)
      [] node.type \in TransformTypes     -> transform_execute(node, c)
      [] node.type \in CheckTypes         -> check_execute(node, c)
      [] node.type \in BackendTypes       -> backend_execute(node, c)
      [] OTHER                            -> {Ok(c)}

-----------------------------------------------------------------------------
Init ==
    /\ idx \in DOMAIN Chains /\ fault \in Faults(Chains[idx])
    /\ phase = "new" /\ pos = 1 /\ store = 1 /\ trail = << >>
    /\ client \in Requests
    /\ ctx = NewContext(client)

\* The graph is built when every node is.
Compile ==
    /\ phase = "new"
    /\ phase' = IF \A n \in DOMAIN Nodes : create_plugin(Nodes[n]) THEN "up" ELSE "refused"
    /\ UNCHANGED << idx, fault, pos, ctx, store, trail, client >>

\* handle_request, up to the graph: a request no route matches is answered.
Route ==
    /\ phase = "up"
    /\ IF matches_route(Chains[idx].match, client)
       THEN phase' = "run" /\ ctx' = ctx
       ELSE phase' = "done" /\ ctx' = reject(ctx, "listener", 404)
    /\ UNCHANGED << idx, fault, pos, store, trail, client >>

RunNode ==
    /\ phase = "run" /\ pos # End
    /\ \E o \in execute(Nodes[pos], ctx) :
          LET err == Nodes[pos].err
          IN  /\ trail' = Append(trail, [pos |-> pos, ok |-> o.ok, said |-> o.said])
              /\ pos' = IF o.ok THEN pos + 1 ELSE IF err = 0 THEN End ELSE err
              /\ ctx' = IF o.ok THEN o.ctx
                        ELSE IF err = 0 THEN Unhandled(Recorded(o.ctx, pos))
                        ELSE Recorded(o.ctx, pos)
    /\ UNCHANGED << idx, fault, phase, store, client >>

\* handle_request, after the graph.  A WebSocket goes to the target the upstream
\* node noted, if nothing has refused it since.  A status that is none makes the
\* response builder fail, and the handler with it: the client gets no answer.
Deliver ==
    /\ phase = "run" /\ pos = End
    /\ IF client.protocol = "websocket" /\ ctx.res.status = 101 /\ ctx.msg["__ws_upstream"] # Absent
       THEN phase' = "done" /\ \E answer \in {101, 502} :
              ctx' = Send(StatusOnly(ctx, answer), "upstream",
                          [ToTarget(ctx) EXCEPT !.path = ctx.msg["__ws_upstream"], !.body = NoBody,
                                                !.headers = remove_ci(@, Framing)])
       ELSE LET status == IF ctx.res.status = 0 THEN 200 ELSE ctx.res.status
            IN  /\ ctx' = StatusOnly(ctx, status)
                /\ phase' = IF status \in 100 .. 999 THEN "done" ELSE "lost"
    /\ UNCHANGED << idx, fault, pos, store, trail, client >>

\* Only where a node is about to look for a consumer can the swap be noticed.
SwapStore ==
    /\ phase = "run" /\ pos # End /\ store = 1
    /\ Nodes[pos].type \in CredentialTypes
    /\ store' = 2
    /\ UNCHANGED << idx, fault, phase, pos, ctx, trail, client >>

Rest == phase \in {"done", "refused", "lost"} /\ UNCHANGED vars

Next == Compile \/ Route \/ RunNode \/ Deliver \/ SwapStore \/ Rest

Spec == Init /\ [][Next]_vars

-----------------------------------------------------------------------------
(* Properties. *)

Delivered == phase = "done" /\ trail # << >>
Ran(i)    == Nodes[trail[i].pos]

\* What a request proves: the credentials of u it carries, wherever they are.
Proves(req, u) ==
    LET auth == req.headers["authorization"]
        hmac == req.headers["x-hmac-signature"]
        under(cred, types) == /\ cred # Absent /\ cred.secret = u.secret
                              /\ \E t \in types : u.creds[t] = cred.id
    IN  \/ u.creds["key-auth"] # Absent /\ u.creds["key-auth"] \in
              {req.headers["x-api-key"], req.query["apikey"]}
        \/ under(auth, {"basic-auth", "jwt-auth", "hmac-auth"})
        \/ under(hmac, {"hmac-auth"})

Anonymously(u) ==
    \E i \in DOMAIN trail :
        LET cfg == Ran(i).cfg
            of(d) == Given(d, "anonymous_consumer") /\ d.anonymous_consumer = u.name
        IN  \/ of(cfg)
            \/ Given(cfg, "auth_plugins") /\ \E k \in DOMAIN cfg.auth_plugins :
                                                of(cfg.auth_plugins[k].cfg)

\* consumers/mod.rs, multi_auth.rs: whoever is attached, by whichever of the nodes, is
\* of a store that was in force, and the client's own request proved it or the
\* configuration admits it anonymously, also when attempts with other credentials
\* failed before and when a reload came between; and the context names the consumer
\* attached last.  attach_consumer clears nothing: the group, the labels and the custom
\* id are those of the last consumer that had one, which after two nodes need not be
\* the one named, and if none had, the X-Consumer-Custom-ID is what the client sent.
IdentityIsProven ==
    /\ \A k \in DOMAIN ctx.who :
          /\ \E s \in 1 .. store : ctx.who[k] \in Stores[s]
          /\ Proves(client, ctx.who[k]) \/ Anonymously(ctx.who[k])
    /\ Identified(client, ctx)

Backend(node) == node.type \in Forwarders \cup {"traffic-split", "proxy-mirror"}

\* The nodes that ask a service: on the way on which nothing failed, a request gets
\* to a backend only past services that allowed it.  A service that cannot be
\* reached lets it pass only where the configuration says so.
VerdictsHeeded ==
    \A k \in DOMAIN trail :
        (Backend(Ran(k)) /\ \A i \in 1 .. k - 1 : trail[i].ok)
        => \A i \in 1 .. k - 1 :
              \/ trail[i].said \in {"nothing", "allow", "plain"}
              \/ trail[i].said = "error" /\ MayDegrade(Ran(i))

\* hide_credentials: from the node that accepted a credential on, no request that
\* leaves the gateway carries it in a place it was to be taken out of; nor, past a
\* login node, the X-Userinfo the client wrote itself.
HiddenStaysHidden ==
    \A s \in ctx.sent : \A e \in s.hidden :
        /\ e[1] \in HeaderNames => s.req.headers[e[1]] # e[2]
        /\ e[1] \in QueryNames  => s.req.query[e[1]] # e[2]

\* Every request that leaves says truly how its body is coded and how long it is,
\* whatever the nodes before have made of the body (OpenWhisk is sent a coded body
\* without a word about it).
RequestFramed ==
    \A s \in ctx.sent :
        Framed(s.req.headers, s.req.body)
        \/ (\E k \in DOMAIN trail : Ran(k).type = "openwhisk" /\ s.to = "function")

\* Nodes whose answer says how it is framed, and nodes that write a body and leave
\* the framing headers of the one before.
Frames(node)    == Backend(node) \/ node.type \in {"gzip", "brotli"}
KeepsFraming(i) == ~trail[i].ok \/ Ran(i).type \in {"error-handler", "mocking", "cors", "echo"}

\* What the client gets says truly how it is coded and how long it is, in a coding
\* the client accepts: whatever mixture of nodes that rewrite, filter, compress and
\* decode the answer has been through.  Not so after a node that answers over a
\* framed answer and leaves its framing headers, nor when OPA gives framing headers
\* of its own to a denial, which are copied as they are (opa.rs, build_deny).
ClientCanRead ==
    (/\ Delivered /\ \A i \in DOMAIN trail : trail[i].said \notin InFraming
     /\ ~\E i, j \in DOMAIN trail : i < j /\ Frames(Ran(i)) /\ KeepsFraming(j))
    => /\ Framed(ctx.res.headers, ctx.res.body)
       /\ LET e == ctx.res.headers["content-encoding"]
          IN  e \notin {Absent, "identity"} => accepts_encoding([req |-> client], e)

\* Headers by which bodies are read; policies no option of which has a node write or
\* remove one of them (the gateway does as it is told), and clients whose own
\* requests are framed and who accept codings that are some.
Marks         == Framing \cup {"accept-encoding"}
Spares(names) == Marks \cap names = {}

HeadersSpared(cfg) ==
    /\ \A o \in {"send_headers_upstream", "upstream_headers", "request_headers", "remove_headers"} :
          Has(cfg, o) => Spares(cfg[o])
    /\ \A o \in {"add_headers", "headers", "response_headers"} :
          Has(cfg, o) => Spares(DOMAIN cfg[o])

KeysSpared(cfg) ==
    /\ KeyHeader(cfg) \notin Marks
    /\ Has(cfg, "auth_plugins") => \A i \in DOMAIN cfg.auth_plugins :
                                      KeyHeader(cfg.auth_plugins[i].cfg) \notin Marks

RulesSpare(node) ==
    LET cfg == node.cfg
    IN  /\ node.type = "data-mask" =>
              \A r \in Names(cfg, "request") : r.type = "header" => r.name \notin Marks
        /\ node.type = "traffic-label" /\ Has(cfg, "rules") =>
              \A i \in DOMAIN cfg.rules : \A a \in cfg.rules[i].actions : Spares(DOMAIN a.set_headers)
        /\ node.type = "fault-injection" /\ Has(cfg, "abort") =>
              (Has(cfg.abort, "headers") => Spares(DOMAIN cfg.abort.headers))

MarksSpared(node) == HeadersSpared(node.cfg) /\ KeysSpared(node.cfg) /\ RulesSpare(node)

FramedClient(req) ==
    LET accepted == req.headers["accept-encoding"]
    IN  /\ {"headers", "body"} \subseteq DOMAIN req /\ Marks \subseteq DOMAIN req.headers
        /\ Framed(req.headers, req.body)
        /\ accepted # Absent => {Absent, "identity"} \cap accepted = {}

\* The request a split has routed leaves by its error edge: one leads on.
SplitsWired ==
    \A i \in DOMAIN Chains : \A n \in DOMAIN Chains[i].nodes :
        LET node == Chains[i].nodes[n]
        IN  node.type = "traffic-split" => node.err # 0

MarksHonoured ==
    /\ \A i \in DOMAIN Chains : \A n \in DOMAIN Chains[i].nodes : MarksSpared(Chains[i].nodes[n])
    /\ \A req \in Requests : FramedClient(req)

\* Headers and messages that say who asks; and what a request brings to say so, its
\* keys and its claims.
Vouching     == {"authorization", "x-api-key", "x-hmac-signature", "x-userinfo",
                 "x-consumer-username", "x-consumer-custom-id"}
ConsumerKeys == {"consumer.name", "consumer.group", "consumer.labels", "consumer.custom_id"}

Keys(req)   == {req.headers["x-api-key"], req.query["apikey"]} \ {Absent}
Claims(req) == {req.headers["authorization"], req.headers["x-hmac-signature"]} \ {Absent}
IsClaim(v)  == v = [scheme |-> v.scheme, id |-> v.id, secret |-> v.secret, dated |-> v.dated]

\* Policies in which keys are looked for in one place, and where no option has a node
\* write or remove what says who asks.
KeysPlaced(cfg) ==
    /\ KeyHeader(cfg) = "x-api-key" /\ Absent \notin Names(cfg, "keys")
    /\ Has(cfg, "query_param") => cfg.query_param = "apikey"

OptionsSpare(cfg) ==
    /\ \A o \in {"send_headers_upstream", "upstream_headers", "remove_headers"} :
          Has(cfg, o) => Vouching \cap cfg[o] = {}
    /\ Has(cfg, "add_headers") => Vouching \cap DOMAIN cfg.add_headers = {}

VouchingSpared(node) ==
    LET cfg == node.cfg
    IN  /\ OptionsSpare(cfg) /\ KeysPlaced(cfg)
        /\ Has(cfg, "auth_plugins") =>
              \A i \in DOMAIN cfg.auth_plugins : KeysPlaced(cfg.auth_plugins[i].cfg)
        /\ node.type = "data-mask" =>
              \A r \in Names(cfg, "request") :
                 r.type \in {"header", "query"} => r.name \notin Vouching \cup {"apikey"}
        /\ node.type = "traffic-label" /\ Has(cfg, "rules") =>
              \A i \in DOMAIN cfg.rules : \A a \in cfg.rules[i].actions :
                 /\ Vouching \cap DOMAIN a.set_headers = {}
                 /\ ConsumerKeys \cap DOMAIN a.set_labels = {}

\* Clients, none of which brings the gateway's own credentials: what it signs in to
\* functions with, and what the provider gave it.
IsCaller(req) ==
    /\ {"headers", "query"} \subseteq DOMAIN req /\ "apikey" \in DOMAIN req.query
    /\ Vouching \subseteq DOMAIN req.headers /\ req.headers["x-userinfo"] # "provider's"
    /\ req.headers["authorization"] # Absent => IsClaim(req.headers["authorization"])

OwnClaims(cfg) ==
    {SessionToken} \cup (IF Has(cfg, "service_token") THEN {cfg.service_token} ELSE {})
                   \cup (IF Has(cfg, "iam") THEN {sign_v4(cfg)} ELSE {})

Strangers(req, cfg) ==
    Claims(req) \cap OwnClaims(cfg) = {} /\ Opt(cfg, "apikey", Absent) \notin Keys(req)

CredentialsApart ==
    /\ \A req \in Requests : IsCaller(req)
    /\ \A i \in DOMAIN Chains : \A n \in DOMAIN Chains[i].nodes :
          /\ VouchingSpared(Chains[i].nodes[n])
          /\ \A req \in Requests : Strangers(req, Chains[i].nodes[n].cfg)

\* No consumer has the provider's secret.
ConsumersApart == \A s \in 1 .. 2 : \A u \in Stores[s] : u.secret # "provider's"

\* Codes an operator may configure for a refusal, and policies in which none of them
\* is that of a success (the gateway accepts those too).
Refusals          == {s \in Nat : s >= 300}
Refuses(cfg, opt) == Has(cfg, opt) => cfg[opt] \in Refusals
AbortRefuses(cfg) == Has(cfg, "abort") => cfg.abort.http_status \in Refusals
RulesRefuse(cfg)  ==
    Has(cfg, "rules") => \A i \in DOMAIN cfg.rules :
        Refuses(cfg.rules[i].action, "code") /\ Refuses(cfg.rules[i].action, "rejected_code")

CodesRefuse(node) ==
    /\ Refuses(node.cfg, "rejected_code") /\ Refuses(node.cfg, "status_on_error")
    /\ node.type = "fault-injection" => AbortRefuses(node.cfg)
    /\ node.type = "workflow" => RulesRefuse(node.cfg)

RefusalCodes ==
    \A i \in DOMAIN Chains : \A n \in DOMAIN Chains[i].nodes : CodesRefuse(Chains[i].nodes[n])

\* A node that refuses and is wired to the client, or to nobody, is seen to have
\* refused: the status is neither unset nor that of a success.  An upstream and a
\* script write no status when they fail; a split answers by its error port; and a
\* denial of OPA has the status its reply names, cut to 16 bits, which may be that of
\* a success or 0, for which the listener writes 200.  The engine's 500 covers them all.
FailureIsVisible ==
    LET last == Len(trail)
    IN  (/\ Delivered /\ ~trail[last].ok
         /\ \/ Ran(last).err = 0
            \/ /\ Ran(last).type \notin {"upstream", "script", "traffic-split"} \cup Serverless
               /\ trail[last].said \notin AsSuccess)
        => ctx.res.status >= 300
=============================================================================
