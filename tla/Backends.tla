----------------------------- MODULE Backends -----------------------------
(***************************************************************************)
(* The nodes that answer by asking someone else: the upstream, its mirror  *)
(* and its alternatives, the functions of four providers, and the scripts  *)
(* that run in the gateway.  Whoever is asked is external: it gives one of *)
(* a few well-framed answers, in a coding the request it got accepts, or   *)
(* fails.                                                                  *)
(***************************************************************************)
EXTENDS Checks

-----------------------------------------------------------------------------
(* External: what a server answers to a request. *)

Reply(status, type, body) ==
    [status  |-> status,
     headers |-> [NoHeaders EXCEPT !["content-type"] = type, !["content-length"] = body,
                                   !["content-encoding"] = IF body.enc = << >> THEN Absent
                                                           ELSE body.enc[1]],
     body    |-> body]

Replies(req) ==
    LET accepted == req.headers["accept-encoding"]
        codings  == IF accepted = Absent THEN {} ELSE accepted
    IN  {Reply(200, "json", Body("server", "json")), Reply(404, "text", Body("server", "text"))}
        \cup {Reply(200, "text", encode(Body("server", "text"), e)) : e \in codings}

WithReply(c, r) == [c EXCEPT !.res = r]

\* OutboundClient: an answer, no answer in time, a request that cannot be built,
\* or a connection that fails.
Failures     == {"timeout", "invalid", "transport"}
request(req) == Replies(req) \cup {[failure |-> f] : f \in Failures}
Failed(a)    == "failure" \in DOMAIN a

-----------------------------------------------------------------------------
(* upstream, proxy-mirror, traffic-split *)

upstream_from_config(cfg) ==
    /\ Required(cfg, {"targets"}) /\ cfg.targets # {}
    /\ Usable(cfg, {"load_balancing"})
    /\ Opt(cfg, "load_balancing", "round_robin") \in {"round_robin", "least_connections", "ip_hash"}

\* The path goes out without its query; headers and body as they are.
ToTarget(c) == [c.req EXCEPT !.query = remove_ci(@, QueryNames)]

\* A failure writes no response at all.  A WebSocket is not forwarded here: its
\* target is noted for the listener.
upstream_execute(c) ==
    LET sent == Send(c, "upstream", ToTarget(c))
    IN  IF c.req.protocol = "websocket"
        THEN {Ok([c EXCEPT !.res.status = 101, !.msg["__ws_upstream"] = c.req.path])}
        ELSE {IF Failed(a) THEN Err(sent) ELSE Ok(WithReply(sent, a)) : a \in request(ToTarget(c))}

proxy_mirror_from_config(cfg) ==
    Required(cfg, {"host"}) /\ InRange(cfg, "sample_ratio", 0, 100)

should_mirror(cfg) ==
    LET ratio == Opt(cfg, "sample_ratio", 100)
    IN  IF ratio = 100 THEN {TRUE} ELSE IF ratio = 0 THEN {FALSE} ELSE BOOLEAN

\* The copy goes out with its query; what becomes of it is not looked at.
proxy_mirror_execute(cfg, c) ==
    {Ok(IF mirrored THEN Send(c, "mirror", [c.req EXCEPT !.path = Opt(cfg, "path", @)]) ELSE c) :
        mirrored \in should_mirror(cfg)}

\* A rule is [match, slots], a slot [weight, targets]; targets is Absent for the
\* slot that leaves the request to the route.
parse_targets(slot) == slot.targets # Bad /\ slot.targets # {}

traffic_split_from_config(cfg) ==
    /\ Required(cfg, {"rules"}) /\ cfg.rules # << >>
    /\ \A i \in DOMAIN cfg.rules :
          /\ parse(cfg.rules[i].match)
          /\ \A s \in cfg.rules[i].slots : parse_targets(s)
          /\ \E s \in cfg.rules[i].slots : s.weight > 0

select_rule(cfg, c) ==
    LET hits == {i \in DOMAIN cfg.rules : eval(cfg.rules[i].match, c)}
    IN  IF hits = {} THEN {} ELSE {cfg.rules[CHOOSE i \in hits : \A j \in hits : i <= j]}

\* Round robin by weight, over a counter that all requests share.
pick_slot(rule) == {s \in rule.slots : s.weight > 0}

proxy_to_target(c) ==
    LET sent == Send(c, "upstream", ToTarget(c))
    IN  {IF Failed(a) THEN Err(reject(sent, "traffic-split", 502)) ELSE Err(WithReply(sent, a)) :
            a \in request(ToTarget(c))}

\* A request that was routed leaves by the error port, like one that failed.
traffic_split_execute(cfg, c) ==
    LET slots == UNION {pick_slot(rule) : rule \in select_rule(cfg, c)}
    IN  IF slots = {} THEN {Ok(c)}
        ELSE UNION {IF s.targets = Absent THEN {Ok(c)} ELSE proxy_to_target(c) : s \in slots}

-----------------------------------------------------------------------------
(* workflow: a rule is [case, action]; the counter is that of limit-count *)

workflow_from_config(cfg) ==
    /\ Required(cfg, {"rules"}) /\ cfg.rules # << >>
    /\ \A i \in DOMAIN cfg.rules :
          /\ parse(cfg.rules[i].case)
          /\ LET a == cfg.rules[i].action
             IN  \/ a.type = "return" /\ Required(a, {"code"}) /\ a.code \in 100 .. 599
                 \/ /\ a.type = "limit-count"
                    /\ a.count > 0 /\ a.time_window > 0 /\ InRange(a, "rejected_code", 200, 599)

workflow_reject(c, status, body) == [reject(c, "workflow", status) EXCEPT !.res.body = body]

\* Within the window, over it, or no counter to be had.
workflow_execute(cfg, c) ==
    LET hits == {i \in DOMAIN cfg.rules : eval(cfg.rules[i].case, c)}
        a    == cfg.rules[CHOOSE i \in hits : \A j \in hits : i <= j].action
        text == Body("workflow", "json")
    IN  IF hits = {} THEN {Ok(c)}
        ELSE IF a.type = "return" THEN {Err(workflow_reject(c, a.code, text))}
        ELSE {Ok(c), Err(workflow_reject(c, 500, text)),
              Err(workflow_reject(c, Opt(a, "rejected_code", 503), NoBody))}

-----------------------------------------------------------------------------
(* Functions *)

\* The client's headers without those of its connection and the length; its
\* parameters, else those of the function's address.
forward_parts(c) == [c.req EXCEPT !.headers = remove_ci(@, {"content-length"})]

classify_error(f) ==
    CASE f = "timeout" -> 504 [] f = "invalid" -> 502 [] f = "transport" -> 503

\* The answer replaces the whole response; a failure only its status.
apply_response(c, a) ==
    IF Failed(a) THEN Err(StatusOnly(c, classify_error(a.failure))) ELSE Ok(WithReply(c, a))

Invoke(c, req) == {apply_response(Send(c, "function", req), a) : a \in request(req)}

aws_lambda_from_config(cfg) ==
    /\ Required(cfg, {"function_uri"})
    /\ Has(cfg, "iam") => Required(cfg.iam, {"accesskey", "secretkey"})

\* The signature the function's service checks.
sign_v4(cfg) == [scheme |-> "aws", id |-> cfg.iam.accesskey, secret |-> cfg.iam.secretkey,
                 dated |-> TRUE]

\* The client's own authorization is never forwarded, its x-api-key is.
aws_lambda_build_request(cfg, c) ==
    LET key == c.req.headers["x-api-key"]
    IN  [forward_parts(c) EXCEPT !.headers = [@ EXCEPT
            !["authorization"] = IF Has(cfg, "iam") THEN sign_v4(cfg) ELSE Absent,
            !["x-api-key"] = IF key = Absent /\ ~Has(cfg, "iam") THEN Opt(cfg, "apikey", Absent)
                             ELSE key]]

aws_lambda_execute(cfg, c) == Invoke(c, aws_lambda_build_request(cfg, c))

azure_functions_from_config(cfg) == Required(cfg, {"function_uri"})

azure_functions_build_request(cfg, c) ==
    [forward_parts(c) EXCEPT !.headers["x-functions-key"] =
        IF @ = Absent THEN Opt(cfg, "apikey", Absent) ELSE @]

azure_functions_execute(cfg, c) == Invoke(c, azure_functions_build_request(cfg, c))

openfunction_from_config(cfg) == Required(cfg, {"function_uri"})

openfunction_build_request(cfg, c) ==
    IF Has(cfg, "service_token")
    THEN [forward_parts(c) EXCEPT !.headers["authorization"] = cfg.service_token]
    ELSE forward_parts(c)

openfunction_execute(cfg, c) == Invoke(c, openfunction_build_request(cfg, c))

openwhisk_from_config(cfg) == Required(cfg, {"api_host", "service_token", "action"})

\* The client's body, without the header that says how it is coded.
openwhisk_build_request(cfg, c) ==
    [c.req EXCEPT !.method = "POST", !.query = remove_ci(@, QueryNames),
                  !.headers = [NoHeaders EXCEPT !["authorization"] = cfg.service_token,
                                                !["content-type"] = "json"]]

\* The envelope's status, headers and body; an empty one as it is.
map_response(c, a) ==
    IF is_empty(a.body) THEN Ok([c EXCEPT !.res = [a EXCEPT !.headers = NoHeaders]])
    ELSE IF ~IsJson(a.body) THEN Err(StatusOnly(c, 503))
    ELSE Ok([c EXCEPT !.res = [status |-> a.status, body |-> Body("function", "text"),
                               headers |-> [NoHeaders EXCEPT !["content-type"] = "text"]]])

openwhisk_execute(cfg, c) ==
    LET req  == openwhisk_build_request(cfg, c)
        sent == Send(c, "function", req)
    IN  {IF Failed(a) THEN apply_response(sent, a) ELSE map_response(sent, a) :
            a \in request(req) \cup {Reply(200, "json", NoBody)}}

-----------------------------------------------------------------------------
(* Scripts: a script is what it does to the context it is given. *)

LuaRuntime_new(script) == script \in {"nothing", "header", "answer", "fail"}

\* The context as the script leaves it, with the errors it never sees; any
\* failure, also that of reading the result, gives the context back untouched.
lua_execute(script, c) ==
    CASE script = "nothing" -> {Ok(c), Err(c)}
      [] script = "header"  -> {Ok([c EXCEPT !.req.headers["x-added"] = "script"]), Err(c)}
      [] script = "answer"  -> {Ok([Rewritten(c, Body("script", "text")) EXCEPT !.res.status = 403])}
      [] script = "fail"    -> {Err(c)}

script_from_config(cfg) ==
    /\ Has(cfg, "source") \/ Has(cfg, "inline")
    /\ Opt(cfg, "runtime", "lua") = "lua"
    /\ LuaRuntime_new(IF Has(cfg, "source") THEN cfg.source ELSE cfg.inline)

script_execute(cfg, c) == lua_execute(IF Has(cfg, "source") THEN cfg.source ELSE cfg.inline, c)

serverless_from_config(cfg) ==
    /\ Required(cfg, {"functions"}) /\ cfg.functions # << >>
    /\ \A i \in DOMAIN cfg.functions : LuaRuntime_new(cfg.functions[i])

\* Each gets the context of the one before; the first error ends the run.
serverless_run(cfg, c) ==
    LET upto[i \in 0 .. Len(cfg.functions)] ==
            IF i = 0 THEN {Ok(c)}
            ELSE UNION {IF o.ok THEN lua_execute(cfg.functions[i], o.ctx) ELSE {o} :
                        o \in upto[i - 1]}
    IN  upto[Len(cfg.functions)]

-----------------------------------------------------------------------------
Forwarders   == {"upstream", "aws-lambda", "azure-functions", "openfunction", "openwhisk"}
Serverless   == {"serverless-pre-function", "serverless-post-function"}
BackendTypes == Forwarders \cup Serverless \cup {"proxy-mirror", "traffic-split", "workflow", "script"}

backend_created(node) ==
    CASE node.type = "upstream"        -> upstream_from_config(node.cfg)
      [] node.type = "proxy-mirror"    -> proxy_mirror_from_config(node.cfg)
      [] node.type = "traffic-split"   -> traffic_split_from_config(node.cfg)
      [] node.type = "workflow"        -> workflow_from_config(node.cfg)
      [] node.type = "aws-lambda"      -> aws_lambda_from_config(node.cfg)
      [] node.type = "azure-functions" -> azure_functions_from_config(node.cfg)
      [] node.type = "openfunction"    -> openfunction_from_config(node.cfg)
      [] node.type = "openwhisk"       -> openwhisk_from_config(node.cfg)
      [] node.type = "script"          -> script_from_config(node.cfg)
      [] node.type \in Serverless      -> serverless_from_config(node.cfg)

backend_execute(node, c) ==
    CASE node.type = "upstream"        -> upstream_execute(c)
      [] node.type = "proxy-mirror"    -> proxy_mirror_execute(node.cfg, c)
      [] node.type = "traffic-split"   -> traffic_split_execute(node.cfg, c)
      [] node.type = "workflow"        -> workflow_execute(node.cfg, c)
      [] node.type = "aws-lambda"      -> aws_lambda_execute(node.cfg, c)
      [] node.type = "azure-functions" -> azure_functions_execute(node.cfg, c)
      [] node.type = "openfunction"    -> openfunction_execute(node.cfg, c)
      [] node.type = "openwhisk"       -> openwhisk_execute(node.cfg, c)
      [] node.type = "script"          -> script_execute(node.cfg, c)
      [] node.type \in Serverless      -> serverless_run(node.cfg, c)
=============================================================================
