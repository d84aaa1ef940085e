------------------------------ MODULE Checks ------------------------------
(***************************************************************************)
(* The nodes that identify, label, limit, validate or fail a request.  The *)
(* bodies a schema accepts are given by who wrote them, the headers by the *)
(* names it requires; an X-Forwarded-For is a sequence of [ip, port].      *)
(***************************************************************************)
EXTENDS Transform

-----------------------------------------------------------------------------
(* request-id, request-size-limit *)

request_id_from_config(cfg) == Opt(cfg, "algorithm", "uuid") = "uuid"

first_non_empty(h) == IF h["x-request-id"] = "" THEN Absent ELSE h["x-request-id"]

\* The client's own id or a new one; the response says it if nothing else has
\* set one.
request_id_execute(cfg, c) ==
    LET sent == first_non_empty(c.req.headers)
        id   == IF sent = Absent THEN "a new id" ELSE sent
        d    == [c EXCEPT !.req.headers["x-request-id"] = id]
    IN  {Ok(IF Opt(cfg, "include_in_response", TRUE) /\ first_non_empty(c.res.headers) = Absent
            THEN [d EXCEPT !.res.headers["x-request-id"] = id] ELSE d)}

request_size_limit_execute(cfg, c) ==
    Guard(c, "request-size-limit", 413, c.req.body.len <= Opt(cfg, "max_bytes", 9))

-----------------------------------------------------------------------------
(* real-ip *)

real_ip_from_config(cfg) ==
    /\ Required(cfg, {"source"}) /\ Usable(cfg, {"trusted_addresses"})
    /\ Given(cfg, "trusted_addresses") => cfg.trusted_addresses # {}

\* An address that does not parse has the ip Bad.
parse_ip_port(a) == a # Absent /\ a.ip # Bad

is_trusted(cfg, ip) == ip \in Names(cfg, "trusted_addresses")

\* Of a forwarding chain the last address or, recursively, the last that is not
\* a trusted proxy (one with a port never is), the first if all are.
get_addr(cfg, c) ==
    LET chain == c.req.headers["x-forwarded-for"]
        n     == Len(chain)
        proxy(a)  == a.port = Absent /\ is_trusted(cfg, a.ip)
        strangers == {i \in 2 .. n : ~proxy(chain[i])}
        walks     == Opt(cfg, "recursive", FALSE) /\ Given(cfg, "trusted_addresses")
    IN  IF cfg.source # "http_x_forwarded_for" THEN c.req.addr
        ELSE IF chain = Absent THEN Absent
        ELSE IF n = 1 \/ ~walks THEN chain[n]
        ELSE IF strangers = {} THEN chain[1]
        ELSE chain[CHOOSE i \in strangers : \A j \in strangers : j <= i]

\* Only a trusted peer is believed.
real_ip_execute(cfg, c) ==
    LET direct == c.req.addr
        a      == get_addr(cfg, c)
        kept   == IF a.port # Absent THEN a.port ELSE direct.port
    IN  {Ok(IF \/ Given(cfg, "trusted_addresses") /\ ~is_trusted(cfg, direct.ip)
               \/ ~parse_ip_port(a)
            THEN c
            ELSE [c EXCEPT !.req.addr = [ip |-> a.ip, port |-> kept]])}

-----------------------------------------------------------------------------
(* request-validation, oas-validator *)

compile_schema(cfg, o) == Usable(cfg, {o})

request_validation_from_config(cfg) ==
    /\ Given(cfg, "header_schema") \/ Given(cfg, "body_schema")
    /\ compile_schema(cfg, "header_schema") /\ compile_schema(cfg, "body_schema")
    /\ InRange(cfg, "rejected_code", 200, 599)

\* Any text is a form.
decode_urlencoded(c) == c.req.headers["content-type"] = "form"

\* The JSON that was validated is what is forwarded.
request_validation_execute(cfg, c) ==
    LET body == c.req.body
        meets(names) == \A n \in names : c.req.headers[n] # Absent
        form == decode_urlencoded(c)
        valid == ~is_empty(body) /\ (form \/ IsJson(body)) /\ body.by \in cfg.body_schema
        no    == {Err(reject(c, "request-validation", Opt(cfg, "rejected_code", 400)))}
    IN  IF ~meets(Names(cfg, "header_schema")) THEN no
        ELSE IF ~Given(cfg, "body_schema") THEN {Ok(c)}
        ELSE IF ~valid THEN no
        ELSE {Ok(IF form THEN c
                 ELSE [c EXCEPT !.req.body = Body("request-validation", "json"),
                                !.req.headers = remove_ci(@, {"content-length"})])}

\* A parameter or a body may be defined elsewhere in the document.
resolve_ref(entry) == entry # Bad

\* An operation is [method, path, query, headers, body_required, body_schema].
parse_template(op) == Len(op.path) > 0
path_matches(op, path) == match_path(op.path, path)

collect_required_params(op) == [query |-> op.query, headers |-> op.headers]
compile_body_schema(op)     == resolve_ref(op.body_schema)

oas_validator_from_config(cfg) ==
    /\ Required(cfg, {"spec"}) /\ \A op \in cfg.spec : parse_template(op) /\ compile_body_schema(op)
    /\ InRange(cfg, "rejected_code", 400, 599)

\* The one whose path has the most literal segments.
match_operation(cfg, c) ==
    LET ops == {op \in cfg.spec : op.method = c.req.method /\ path_matches(op, c.req.path)}
        literals(op) == Cardinality({i \in 1 .. Len(op.path) : op.path[i] # "*"})
    IN  {op \in ops : \A other \in ops : literals(other) <= literals(op)}

\* A request no operation describes passes.
oas_validator_execute(cfg, c) ==
    LET body  == c.req.body
        wants(op) == collect_required_params(op)
        json  == c.req.headers["content-type"] \in {Absent, "json"}
        valid(op) ==
            /\ \A q \in wants(op).query : c.req.query[q] # Absent
            /\ \A h \in wants(op).headers : c.req.headers[h] # Absent
            /\ op.body_required => ~is_empty(body)
            /\ op.body_schema # Absent /\ ~is_empty(body) /\ json
                  => IsJson(body) /\ body.by \in op.body_schema
    IN  IF match_operation(cfg, c) = {} THEN {Ok(c)}
        ELSE UNION {Guard(c, "oas-validator", Opt(cfg, "rejected_code", 400), valid(op)) :
                    op \in match_operation(cfg, c)}

-----------------------------------------------------------------------------
(* traffic-label, fault-injection *)

\* A rule is [match, actions], an action [set_headers, set_labels, weight].
parse_kv(a) == a.set_headers # Bad /\ a.set_labels # Bad

traffic_label_from_config(cfg) ==
    /\ Required(cfg, {"rules"}) /\ cfg.rules # << >>
    /\ \A i \in DOMAIN cfg.rules :
          /\ parse(cfg.rules[i].match) /\ cfg.rules[i].actions # {}
          /\ \A a \in cfg.rules[i].actions : parse_kv(a) /\ a.weight >= 1

\* Round robin by weight, over a counter that all requests share.
pick_action(rule) == rule.actions

\* The first matching rule whose action has something to set.
traffic_label_execute(cfg, c) ==
    LET set(a) == [c EXCEPT !.req.headers = Put(@, [k \in DOMAIN a.set_headers |->
                                                       interpolate(c, a.set_headers[k])]),
                            !.msg = Put(@, [k \in DOMAIN a.set_labels |->
                                                interpolate(c, a.set_labels[k])])]
        empty(a) == DOMAIN a.set_headers = {} /\ DOMAIN a.set_labels = {}
        hits     == {i \in DOMAIN cfg.rules : eval(cfg.rules[i].match, c)}
        idle(i)  == \E a \in pick_action(cfg.rules[i]) : empty(a)
        first    == {i \in hits : \A j \in hits : j < i => idle(j)}
    IN  {Ok(set(a)) : a \in UNION {{b \in pick_action(cfg.rules[i]) : ~empty(b)} : i \in first}}
        \cup (IF \A i \in hits : idle(i) THEN {Ok(c)} ELSE {})

parse_percentage(f) == InRange(f, "percentage", 0, 100)
parse_or_vars(f)    == Given(f, "vars") => \A e \in f.vars : parse(e)

fault_injection_from_config(cfg) ==
    /\ Given(cfg, "abort") \/ Given(cfg, "delay")
    /\ \A o \in {"abort", "delay"} :
          Given(cfg, o) => cfg[o] # Bad /\ parse_percentage(cfg[o]) /\ parse_or_vars(cfg[o])
    /\ Given(cfg, "abort") =>
          /\ Required(cfg.abort, {"http_status"}) /\ cfg.abort.http_status \in 200 .. 599
          /\ Usable(cfg.abort, {"body"}) /\ parse_headers(cfg.abort, "headers")
    /\ Given(cfg, "delay") => Required(cfg.delay, {"duration"})

\* 0 never hits, 100 or no percentage always does, the rest is chance.
sample_hit(f) ==
    LET p == Opt(f, "percentage", 100)
    IN  IF p = 0 THEN {FALSE} ELSE IF p = 100 THEN {TRUE} ELSE BOOLEAN

vars_match(f, c) == ~Given(f, "vars") \/ \E e \in f.vars : eval(e, c)

\* The delay passes; the abort writes over what response there is, its framing
\* headers excepted.
fault_injection_execute(cfg, c) ==
    LET f == cfg.abort
        body == IF Given(f, "body") THEN Body("fault", "text") ELSE NoBody
        aborted == PutHeaders(Answered(c, f.http_status, body), Opt(f, "headers", << >>))
    IN  IF ~Given(cfg, "abort") THEN {Ok(c)}
        ELSE {IF hit /\ vars_match(f, c) THEN Err(aborted) ELSE Ok(c) : hit \in sample_hit(f)}

-----------------------------------------------------------------------------
CheckTypes ==
    {"request-id", "request-size-limit", "real-ip", "request-validation", "oas-validator",
     "traffic-label", "fault-injection"}

check_created(node) ==
    CASE node.type = "request-id"         -> request_id_from_config(node.cfg)
      [] node.type = "request-size-limit" -> TRUE
      [] node.type = "real-ip"            -> real_ip_from_config(node.cfg)
      [] node.type = "request-validation" -> request_validation_from_config(node.cfg)
      [] node.type = "oas-validator"      -> oas_validator_from_config(node.cfg)
      [] node.type = "traffic-label"      -> traffic_label_from_config(node.cfg)
      [] node.type = "fault-injection"    -> fault_injection_from_config(node.cfg)

check_execute(node, c) ==
    CASE node.type = "request-id"         -> request_id_execute(node.cfg, c)
      [] node.type = "request-size-limit" -> request_size_limit_execute(node.cfg, c)
      [] node.type = "real-ip"            -> real_ip_execute(node.cfg, c)
      [] node.type = "request-validation" -> request_validation_execute(node.cfg, c)
      [] node.type = "oas-validator"      -> oas_validator_execute(node.cfg, c)
      [] node.type = "traffic-label"      -> traffic_label_execute(node.cfg, c)
      [] node.type = "fault-injection"    -> fault_injection_execute(node.cfg, c)
=============================================================================
