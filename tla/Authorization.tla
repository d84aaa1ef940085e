--------------------------- MODULE Authorization ---------------------------
(***************************************************************************)
(* The nodes that decide whether a request may go on: from the identity in *)
(* the context, from properties of the request, or by asking a service.    *)
(* A list of patterns, networks or hosts is the set of values it matches.  *)
(***************************************************************************)
EXTENDS Credentials

CONSTANT OpaDenials     \* what OPA may deny with: [status, reason, headers]

ASSUME OpaAssumption ==
    \A r \in OpaDenials : r.status \in Nat \cup {Absent} /\ r.reason \in BOOLEAN

\* An allow list and a deny list over a value that is there.
Listed(allow, deny, v) == v \notin deny /\ (allow # {} => v \in allow)
Code(cfg)              == Opt(cfg, "rejected_code", 403)
OneOf(cfg, a, b)       == (Names(cfg, a) = {}) # (Names(cfg, b) = {})

-----------------------------------------------------------------------------
(* By identity. *)

acl_from_config(cfg) == Names(cfg, "allowed_by") # {} \/ Names(cfg, "denied_by") # {}

\* The deny list wins; an allow list requires one of its groups.
acl_execute(cfg, c) ==
    IF c.msg["consumer.name"] = Absent THEN Guard(c, "acl", 401, FALSE)
    ELSE Guard(c, "acl", Code(cfg),
               Listed(Names(cfg, "allowed_by"), Names(cfg, "denied_by"), c.msg["consumer.group"]))

consumer_restriction_from_config(cfg) ==
    /\ Opt(cfg, "type", "consumer_name") \in {"consumer_name", "consumer_group_id"}
    /\ Names(cfg, "whitelist") = {} \/ Names(cfg, "blacklist") = {}
    /\ Names(cfg, "whitelist") \cup Names(cfg, "blacklist") # {}
          \/ Names(cfg, "allowed_by_methods") # {}

\* By name or by group; a consumer with an entry is held to its methods, unless
\* the whitelist already named it.
consumer_restriction_execute(cfg, c) ==
    LET v == c.msg[IF Opt(cfg, "type", "consumer_name") = "consumer_name"
                   THEN "consumer.name" ELSE "consumer.group"]
        white   == Names(cfg, "whitelist")
        entries == {e \in Names(cfg, "allowed_by_methods") : e.user = v}
    IN  IF v = Absent THEN Guard(c, "consumer-restriction", 401, FALSE)
        ELSE Guard(c, "consumer-restriction", Code(cfg),
                   /\ Listed(white, Names(cfg, "blacklist"), v)
                   /\ v \in white \/ \A e \in entries : c.req.method \in e.methods)

authz_casbin_from_config(cfg) ==
    Required(cfg, {"model", "policy"}) \/ Required(cfg, {"model_path", "policy_path"})

\* The consumer, else the header the configuration names, else "anonymous".
subject(c) ==
    IF c.msg["consumer.name"] # Absent THEN c.msg["consumer.name"]
    ELSE IF c.req.headers["x-userid"] # Absent THEN c.req.headers["x-userid"]
    ELSE "anonymous"

\* The policy is the set of subjects and methods it allows; a model that cannot
\* be evaluated denies.
authz_casbin_execute(cfg, c) ==
    Guard(c, "authz-casbin", 403, << subject(c), c.req.method >> \in Names(cfg, "policy"))

-----------------------------------------------------------------------------
(* By the request. *)

ip_matches(list, c) == split_remote_addr(c).ip \in list

ip_restriction_execute(cfg, c) ==
    Guard(c, "ip-restriction", 403,
          /\ ~ip_matches(Names(cfg, "deny"), c)
          /\ Names(cfg, "allow") # {} => ip_matches(cfg.allow, c))

ua_restriction_from_config(cfg) ==
    /\ OneOf(cfg, "allowlist", "denylist")
    /\ Usable(cfg, {"allowlist", "denylist"}) /\ InRange(cfg, "rejected_code", 200, 599)

ua_restriction_execute(cfg, c) ==
    LET ua == c.req.headers["user-agent"]
    IN  Guard(c, "ua-restriction", Code(cfg),
              IF ua = Absent THEN Opt(cfg, "bypass_missing", FALSE)
              ELSE Listed(Names(cfg, "allowlist"), Names(cfg, "denylist"), ua))

referer_restriction_from_config(cfg) ==
    OneOf(cfg, "whitelist", "blacklist") /\ Usable(cfg, {"whitelist", "blacklist"})

\* A referer without a host counts as missing.
referer_host(c) ==
    IF c.req.headers["referer"] = "no host" THEN Absent ELSE c.req.headers["referer"]

referer_restriction_execute(cfg, c) ==
    Guard(c, "referer-restriction", 403,
          IF referer_host(c) = Absent THEN Opt(cfg, "bypass_missing", FALSE)
          ELSE Listed(Names(cfg, "whitelist"), Names(cfg, "blacklist"), referer_host(c)))

uri_blocker_from_config(cfg) ==
    /\ Required(cfg, {"block_rules"}) /\ cfg.block_rules # {}
    /\ InRange(cfg, "rejected_code", 200, 599)

\* The answer has a body only if a message is configured.
uri_blocker_execute(cfg, c) ==
    IF resolve(c, << "request_uri" >>)[1] \notin cfg.block_rules THEN {Ok(c)}
    ELSE IF Has(cfg, "rejected_msg") THEN {Err(reject(c, "uri-blocker", Code(cfg)))}
    ELSE {Err(Answered(c, Code(cfg), NoBody))}

csrf_from_config(cfg) == Required(cfg, {"key"}) /\ Usable(cfg, {"expires"})

\* A token is [sign, fresh]: the key it was signed with, and whether it is young
\* enough; with expires = 0 no token is too old.
check_token(cfg, t) == t.sign = cfg.key /\ (t.fresh \/ Opt(cfg, "expires", 1) = 0)

set_cookie(cfg, c) == [c EXCEPT !.res.headers["cookie"] = [sign |-> cfg.key, fresh |-> TRUE]]

\* The header must repeat the cookie; every pass sets a new one.
csrf_execute(cfg, c) ==
    LET h == c.req.headers["x-csrf"]
        k == cookie_value(c)
        free == Opt(cfg, "phase", "request") = "response"
                \/ c.req.method \in {"GET", "HEAD", "OPTIONS"}
    IN  IF free \/ (h # Absent /\ k # Absent /\ h = k /\ check_token(cfg, k))
        THEN {Ok(set_cookie(cfg, c))}
        ELSE {Err(reject(c, "csrf", 401))}

-----------------------------------------------------------------------------
(* By asking: the service allows, denies, fails to answer (it times out, or *)
(* cannot be reached), or answers what cannot be read.                      *)

Answers == {"allow", "deny", "error"}

\* The headers a service answers with: the ones configured that it gave are
\* set, the others removed from what the client sent.
apply_allow(c, names, given) ==
    [c EXCEPT !.req.headers =
        [n \in DOMAIN @ |-> IF n \in names THEN (IF given THEN "service" ELSE Absent) ELSE @[n]]]

opa_from_config(cfg) == Required(cfg, {"host", "policy"})

\* The whole request is put in the question, headers and parameters included.
build_opa_input(c) == Send(c, "opa", [c.req EXCEPT !.headers = remove_ci(@, Framing), !.body = NoBody])

\* Mutant: a decision service that does not answer is taken as allowing.
opa_fail_open(cfg, c, a) ==
    Said(IF a = "garbled" THEN Err(StatusOnly(c, 503)) ELSE Ok(c), a)

opa_outcome(cfg, c, a) ==
    LET names == Names(cfg, "send_headers_upstream")
    IN  Said(CASE a = "allow"    -> Ok(apply_allow(c, names, TRUE))
               [] a = "plain"    -> Ok(apply_allow(c, names, FALSE))
               [] a = "error"    -> Err(StatusOnly(c, 403))
               [] a = "garbled"  -> Err(StatusOnly(c, 503)), a)

\* The status a denial names, "as u16": above 65535 it wraps around.
parse_opa_response(r) == IF r.status = Absent THEN 403 ELSE r.status % 65536

\* What is remembered of a denial for the properties: whether its status is that of
\* a success, and whether it brings framing headers.
AsSuccess == {"success", "framed success"}
InFraming == {"framed", "framed success"}

Tone(r) ==
    LET framed == Framing \cap DOMAIN r.headers # {}
    IN  IF parse_opa_response(r) < 300 THEN (IF framed THEN "framed success" ELSE "success")
        ELSE (IF framed THEN "framed" ELSE "deny")

\* OPA's status, headers and reason, the reason as the body.
build_deny(c, r) ==
    LET body == IF r.reason THEN Body("opa", "text") ELSE c.res.body
    IN  Said(Err(PutHeaders(Answered(c, parse_opa_response(r), body), r.headers)), Tone(r))

opa_execute(cfg, c) ==
    LET d == build_opa_input(c)
    IN  {opa_outcome(cfg, d, a) : a \in {"allow", "plain", "error", "garbled"}}
        \cup {build_deny(d, r) : r \in OpaDenials}

forward_auth_from_config(cfg) ==
    Required(cfg, {"uri"}) /\ Opt(cfg, "request_method", "GET") \in {"GET", "POST"}

\* The callout carries the configured client headers and, on POST, the body
\* with its coding.
build_callout_headers(cfg, c) ==
    LET names == Names(cfg, "request_headers") \cup
                 (IF Opt(cfg, "request_method", "GET") = "POST" THEN {"content-encoding"} ELSE {})
    IN  [n \in HeaderNames |-> IF n \in names THEN c.req.headers[n] ELSE Absent]

ForwardCallout(cfg, c) ==
    Send(c, "forward-auth",
         [c.req EXCEPT !.headers = build_callout_headers(cfg, c),
                       !.body = IF Opt(cfg, "request_method", "GET") = "POST" THEN @ ELSE NoBody])

\* A refusal is the service's own answer; with allow_degradation an unreachable
\* service lets the request pass unchanged.
forward_auth_execute(cfg, c0) ==
    LET c     == ForwardCallout(cfg, c0)
        names == Names(cfg, "upstream_headers")
    IN  {Said(Ok(apply_allow(c, names, TRUE)), "allow"),
         Said(Ok(apply_allow(c, names, FALSE)), "plain"),
         Said(Err(Answered(c, 302, Body("service", "text"))), "deny"),
         Said(Err(Answered(c, 403, Body("service", "text"))), "deny"),
         Said(IF Opt(cfg, "allow_degradation", FALSE) THEN Ok(c)
              ELSE Err(StatusOnly(c, Opt(cfg, "status_on_error", 403))), "error")}

authz_keycloak_from_config(cfg) ==
    /\ Required(cfg, {"token_endpoint", "client_id"})
    /\ Opt(cfg, "policy_enforcement_mode", "ENFORCING") \in {"ENFORCING", "PERMISSIVE"}

fetch_bearer(c) == Auth(c)

\* No permissions to ask about: refused when enforcing.
authz_keycloak_execute(cfg, c) ==
    IF Names(cfg, "permissions") = {}
    THEN Guard(c, "authz-keycloak", 403, Opt(cfg, "policy_enforcement_mode", "ENFORCING") # "ENFORCING")
    ELSE IF fetch_bearer(c) = Absent THEN Guard(c, "authz-keycloak", 403, FALSE)
    ELSE {Said(IF a = "allow" THEN Ok(c) ELSE Err(reject(c, "authz-keycloak", 403)), a) :
             a \in Answers}

\* The token of the Authorization header (a parameter, another header and a
\* cookie are tried too).
extract_token(c) == Auth(c)

\* Every option has a default.
wolf_rbac_from_config(cfg) == TRUE

\* wolf-rbac names the user, if the answer does, before it looks at the decision.
wolf_rbac_execute(c) ==
    LET named == WithUser([c EXCEPT !.req.headers["x-userid"] = "wolf"], "wolf")
    IN  IF extract_token(c) = Absent THEN {Err(reject(c, "wolf-rbac", 401))}
        ELSE {Said(Err(StatusOnly(c, 500)), "error")} \cup
             {Said(Ok(d), "allow") : d \in {c, named}} \cup
             {Said(Err(reject(d, "wolf-rbac", 401)), "deny") : d \in {c, named}}

-----------------------------------------------------------------------------
AuthorizationTypes ==
    {"acl", "consumer-restriction", "authz-casbin", "ip-restriction", "ua-restriction",
     "referer-restriction", "uri-blocker", "csrf", "opa", "forward-auth", "authz-keycloak",
     "wolf-rbac"}

authorization_created(node) ==
    CASE node.type = "acl"                  -> acl_from_config(node.cfg)
      [] node.type = "consumer-restriction" -> consumer_restriction_from_config(node.cfg)
      [] node.type = "authz-casbin"         -> authz_casbin_from_config(node.cfg)
      [] node.type = "ua-restriction"       -> ua_restriction_from_config(node.cfg)
      [] node.type = "referer-restriction"  -> referer_restriction_from_config(node.cfg)
      [] node.type = "uri-blocker"          -> uri_blocker_from_config(node.cfg)
      [] node.type = "csrf"                 -> csrf_from_config(node.cfg)
      [] node.type = "opa"                  -> opa_from_config(node.cfg)
      [] node.type = "forward-auth"         -> forward_auth_from_config(node.cfg)
      [] node.type = "authz-keycloak"       -> authz_keycloak_from_config(node.cfg)
      [] node.type = "wolf-rbac"            -> wolf_rbac_from_config(node.cfg)
      [] node.type = "ip-restriction"       -> TRUE

authorization_execute(node, c) ==
    CASE node.type = "acl"                  -> acl_execute(node.cfg, c)
      [] node.type = "consumer-restriction" -> consumer_restriction_execute(node.cfg, c)
      [] node.type = "authz-casbin"         -> authz_casbin_execute(node.cfg, c)
      [] node.type = "ip-restriction"       -> ip_restriction_execute(node.cfg, c)
      [] node.type = "ua-restriction"       -> ua_restriction_execute(node.cfg, c)
      [] node.type = "referer-restriction"  -> referer_restriction_execute(node.cfg, c)
      [] node.type = "uri-blocker"          -> uri_blocker_execute(node.cfg, c)
      [] node.type = "csrf"                 -> csrf_execute(node.cfg, c)
      [] node.type = "opa"                  -> opa_execute(node.cfg, c)
      [] node.type = "forward-auth"         -> forward_auth_execute(node.cfg, c)
      [] node.type = "authz-keycloak"       -> authz_keycloak_execute(node.cfg, c)
      [] node.type = "wolf-rbac"            -> wolf_rbac_execute(c)

\* What lets an unanswered question pass is only what the configuration says.
MayDegrade(node) == node.type = "forward-auth" /\ Opt(node.cfg, "allow_degradation", FALSE)
=============================================================================
