---------------------------- MODULE MCExchange ----------------------------
(***************************************************************************)
(* Policies that between them have a node of every type, in combinations   *)
(* in which one node's work can spoil another's, and clients with every    *)
(* kind of credential and body.                                            *)
(***************************************************************************)
EXTENDS Exchange

Nothing == << >>
Creds(key, basic, jwt, hmac, jwe) ==
    [t \in {"key-auth", "basic-auth", "jwt-auth", "hmac-auth", "jwe-decrypt"} |->
        CASE t = "key-auth" -> key [] t = "basic-auth" -> basic [] t = "jwt-auth" -> jwt
          [] t = "hmac-auth" -> hmac [] t = "jwe-decrypt" -> jwe]

\* Alice has all there is; Bob and the guest have neither group nor labels.
Alice(key) ==
    [name |-> "alice", group |-> "gold", labels |-> [custom_id |-> "7", tier |-> "one"],
     creds |-> Creds(key, "alice", "alice", "alice", "alice"), secret |-> "sa"]
Bob ==
    [name |-> "bob", group |-> Absent, labels |-> [custom_id |-> Absent, tier |-> Absent],
     creds |-> Creds("kb", "bob", "bob", "bob", Absent), secret |-> "sb"]
Guest ==
    [name |-> "guest", group |-> Absent, labels |-> [custom_id |-> Absent, tier |-> Absent],
     creds |-> Creds(Absent, Absent, Absent, Absent, Absent), secret |-> Absent]

MCStores == << {Alice("ka"), Bob, Guest}, {Alice("ka2"), Bob, Guest} >>

-----------------------------------------------------------------------------
Plain ==
    [method |-> "GET", path |-> << "api", "x" >>, host |-> "h", scheme |-> "http",
     protocol |-> "http", addr |-> [ip |-> "i1", port |-> 5],
     query |-> [n \in QueryNames |-> Absent], headers |-> NoHeaders, body |-> NoBody]

With(req, put)      == [req EXCEPT !.headers = Put(@, put)]
Header(n, v)        == [m \in {n} |-> v]
Carries(req, type, body) ==
    [With(req, Header("content-type", type)) EXCEPT
        !.method = "POST", !.body = body, !.headers["content-length"] = body,
        !.headers["content-encoding"] = IF body.enc = << >> THEN Absent ELSE body.enc[1]]
Claim(scheme, id, secret) == [scheme |-> scheme, id |-> id, secret |-> secret, dated |-> TRUE]
Says(req, scheme, id, secret) == With(req, Header("authorization", Claim(scheme, id, secret)))
\* A key and a custom id of the client's own.
KeyAndId(key, id) == With(Plain, [m \in {"x-api-key", "x-consumer-custom-id"} |->
                                     IF m = "x-api-key" THEN key ELSE id])
Token == [sign |-> "ck", fresh |-> TRUE]

MCRequests ==
    {With(Plain, Header("accept-encoding", {"gzip", "zstd"})),
     \* an unknown path, a preflight, a WebSocket
     [Plain EXCEPT !.path = << "other" >>],
     [With(Plain, Header("origin", "o1")) EXCEPT !.method = "OPTIONS"],
     [With(Plain, Header("x-api-key", "ka")) EXCEPT !.protocol = "websocket"],
     \* a key in two places, or in one
     [With(Plain, Header("x-api-key", "ka")) EXCEPT !.query["apikey"] = "ka"],
     [Plain EXCEPT !.query["apikey"] = "kb"],
     \* right and wrong secrets; a token that names one consumer with the key of another
     Says(Plain, "basic", "alice", "sa"),
     Says(KeyAndId("kb", "mine"), "basic", "alice", "wrong"),
     Says(With(Plain, Header("x-api-key", "kb")), "bearer", "alice", "wrong"),
     \* two credentials that are right
     Says(KeyAndId("kb", "mine"), "basic", "alice", "sa"),
     Says(Plain, "bearer", "alice", "sa"),
     Says(Plain, "signature", "bob", "sb"),
     [With(Plain, Header("x-hmac-signature", [Claim("signature", "alice", "sa") EXCEPT !.dated = FALSE]))
        EXCEPT !.path = << "api" >>],
     Says(Plain, "jwe", "alice", "sa"),
     \* codes and sessions, and a user the client made up
     With([Plain EXCEPT !.query["code"] = "z"], Header("x-userinfo", "client's")),
     [With(Plain, [m \in {"x-code", "cookie"} |-> IF m = "x-code" THEN "z" ELSE
                     [seal |-> "ss", user |-> "u1"]]) EXCEPT !.path = << "api", "out" >>],
     With(Plain, [m \in {"cookie", "x-userinfo"} |-> IF m = "x-userinfo" THEN "client's" ELSE
                     [seal |-> "ss", user |-> "u1"]]),
     \* bodies, with what the restrictions look at
     Carries(With(Plain, [m \in {"x-csrf", "cookie"} |-> Token]), "json", Body("client", "json")),
     Carries(With(Plain, Header("accept-encoding", {"br"})), "json",
             encode(Body("client", "json"), "gzip")),
     Carries(With(Plain, Header("user-agent", "bot")), "form", SizedBody("client", "form", 3)),
     With([Plain EXCEPT !.query["q"] = "v"], [m \in {"user-agent", "referer", "x-request-id"} |-> "good"]),
     With(Plain, Header("x-forwarded-for",
                        << [ip |-> "i9", port |-> Absent], [ip |-> "i8", port |-> Absent],
                           [ip |-> "i1", port |-> Absent] >>))}

\* OPA denies with and without a status, a reason and headers: 65736 is cut to 200,
\* 65838 to 302, and 5000 is no status.
Denial(status, reason, headers) == [status |-> status, reason |-> reason, headers |-> headers]
MCOpaDenials ==
    {Denial(Absent, FALSE, Nothing), Denial(65838, TRUE, Header("x-added", "o")),
     Denial(65736, TRUE, Nothing), Denial(0, FALSE, Header("content-encoding", "gzip")),
     Denial(403, TRUE, Header("content-encoding", "gzip")), Denial(5000, FALSE, Nothing)}

-----------------------------------------------------------------------------
Node(type, cfg, err) == [type |-> type, cfg |-> cfg, err |-> err]
Policy(nodes)        == [match |-> [path |-> << "api", "*" >>], nodes |-> nodes]

\* Nodes most policies have.
Upstream(err) == Node("upstream", [targets |-> {"t1"}, load_balancing |-> "ip_hash"], err)
KeyAuth(err)  == Node("key-auth", [use_consumers |-> TRUE, query_param |-> "apikey",
                                   hide_credentials |-> TRUE], err)
Rule(v, op, arg) == {[join |-> "and", rules |-> {[var |-> v, negate |-> FALSE, op |-> op, arg |-> arg]}]}
AnyOf(rules) == {[join |-> "or", rules |-> {[var |-> r[1], negate |-> TRUE, op |-> r[2], arg |-> r[3]] : r \in rules}]}
Sub(type, cfg) == [type |-> type, cfg |-> cfg]
ByConsumer == [use_consumers |-> TRUE]

MCChains == <<
    \* credentials
    Policy(<< KeyAuth(0), Node("attach-consumer-label", Nothing, 0),
              Node("acl", [allowed_by |-> {"gold"}, rejected_code |-> 403], 5), Upstream(5) >>),
    Policy(<< Node("multi-auth", [auth_plugins |-> << Sub("jwt-auth", ByConsumer),
                     Sub("basic-auth", [use_consumers |-> TRUE, hide_credentials |-> TRUE]),
                     Sub("hmac-auth", [use_consumers |-> TRUE, hide_credentials |-> TRUE]),
                     Sub("key-auth", [use_consumers |-> TRUE, anonymous_consumer |-> "guest",
                                      query_param |-> "apikey", hide_credentials |-> TRUE]) >>], 0),
              Node("proxy-mirror", [host |-> "m", sample_ratio |-> 50, path |-> << "copy" >>], 0),
              Node("consumer-restriction", [type |-> "consumer_name", blacklist |-> {"guest"},
                     allowed_by_methods |-> {[user |-> "bob", methods |-> {"POST"}]}], 5),
              Upstream(0) >>),
    Policy(<< Node("basic-auth", [use_consumers |-> TRUE, hide_credentials |-> FALSE], 2),
              Node("key-auth", [use_consumers |-> TRUE, anonymous_consumer |-> "guest"], 0),
              Node("acl", [allowed_by |-> {"gold"}, rejected_code |-> 403], 5), Upstream(5) >>),
    Policy(<< Node("jwt-auth", [secret |-> "own", algorithm |-> "HS256", use_consumers |-> TRUE], 3),
              Upstream(0) >>),
    Policy(<< Node("hmac-auth", [access_key |-> "bob", secret_key |-> "sb", keep_headers |-> TRUE,
                                 anonymous_consumer |-> "guest", use_consumers |-> TRUE,
                                 hide_credentials |-> TRUE], 3),
              Node("openfunction", [function_uri |-> "f", service_token |-> Claim("basic", "svc", "svc")], 3) >>),
    Policy(<< Node("basic-auth", [users |-> {<< "alice", "sa" >>}, use_consumers |-> TRUE,
                                  anonymous_consumer |-> "guest", hide_credentials |-> TRUE], 4),
              Node("authz-casbin", [model |-> "m", policy |-> {<< "anonymous", "GET" >>,
                                     << "guest", "POST" >>}], 4),
              Upstream(0) >>),
    Policy(<< Node("jwe-decrypt", [key |-> "sa", alg |-> "dir", strict |-> FALSE], 4),
              Node("wolf-rbac", Nothing, 4), Upstream(0) >>),
    Policy(<< Node("ldap-auth", [base_dn |-> "dn", ldap_uri |-> "ldap"], 3), Upstream(0) >>),
    \* users named by a provider
    Policy(<< Node("openid-connect", [discovery |-> "d", introspection_endpoint |-> "i",
                     client_id |-> "id", client_secret |-> "cs",
                     access_token_in_authorization_header |-> TRUE], 3), Upstream(0) >>),
    Policy(<< Node("openid-connect", [bearer_only |-> FALSE, jwks_uri |-> "j", client_id |-> "id",
                     client_secret |-> "cs", session_secret |-> "ss", redirect_uri |-> << "api", "x" >>,
                     authorization_endpoint |-> "a", token_endpoint |-> "t",
                     logout_path |-> << "api", "out" >>], 4),
              Node("proxy-mirror", [host |-> "m"], 0), Upstream(0) >>),
    Policy(<< Node("authz-casdoor", [endpoint_addr |-> "e", client_id |-> "id", client_secret |-> "cs",
                     session_secret |-> "ss", callback_url |-> << "api", "x" >>,
                     logout_path |-> << "api", "out" >>], 3), Upstream(0) >>),
    Policy(<< Node("cas-auth", [idp_uri |-> "i", session_secret |-> "ss",
                                logout_path |-> << "api", "out" >>], 3), Upstream(0) >>),
    Policy(<< Node("dingtalk-auth", [app_key |-> "k", app_secret |-> "s",
                                     set_userinfo_header |-> FALSE], 0), Upstream(3) >>),
    Policy(<< Node("feishu-auth", [app_id |-> "k", app_secret |-> "s", auth_redirect_uri |-> "u"], 3),
              Upstream(0) >>),
    \* authorization
    Policy(<< Node("opa", [host |-> "o", policy |-> "p", send_headers_upstream |-> {"x-added"}], 4),
              Node("forward-auth", [uri |-> "u", request_method |-> "POST", allow_degradation |-> TRUE,
                                    request_headers |-> {"authorization"}, status_on_error |-> 500,
                                    upstream_headers |-> {"x-userid"}], 4),
              Upstream(0) >>),
    Policy(<< Node("authz-keycloak", [token_endpoint |-> "e", client_id |-> "id",
                                      permissions |-> {"r"}, policy_enforcement_mode |-> "ENFORCING"], 0),
              Upstream(0) >>),
    Policy(<< Node("real-ip", [source |-> "http_x_forwarded_for", trusted_addresses |-> {"i1", "i8"},
                               recursive |-> TRUE], 0),
              Node("ip-restriction", [deny |-> {"i9"}, allow |-> {"i1", "i8"}], 0),
              Node("ua-restriction", [denylist |-> {"bot"}, bypass_missing |-> TRUE,
                                      rejected_code |-> 403], 0),
              Node("referer-restriction", [whitelist |-> {"good"}, bypass_missing |-> TRUE], 0),
              Node("uri-blocker", [block_rules |-> {<< "api" >>}, rejected_code |-> 403,
                                   rejected_msg |-> "no"], 0),
              Node("csrf", [key |-> "ck", expires |-> 0], 7), Upstream(0) >>),
    \* requests rewritten, labelled, checked
    Policy(<< Node("request-id", [algorithm |-> "uuid", include_in_response |-> TRUE], 0),
              Node("request-size-limit", [max_bytes |-> 2], 6),
              Node("data-mask", [request |-> {
                     [type |-> "query", name |-> "q", action |-> "replace", value |-> "***"],
                     [type |-> "header", name |-> "cookie", action |-> "remove", value |-> ""],
                     [type |-> "body", name |-> "f", action |-> "replace", value |-> "***"]},
                     max_body_size |-> 2], 0),
              Node("proxy-rewrite", [strip_path_prefix |-> << "api" >>, add_path_prefix |-> << "v1" >>,
                                     remove_headers |-> {"x-request-id"},
                                     add_headers |-> Header("x-added", "r")], 0),
              Upstream(0) >>),
    Policy(<< Node("request-validation", [body_schema |-> {"client"}, header_schema |-> {"content-type"},
                                          rejected_code |-> 400], 3),
              Node("azure-functions", [function_uri |-> "f", apikey |-> "ak"], 3) >>),
    Policy(<< Node("oas-validator", [rejected_code |-> 422, spec |-> {
                     [method |-> "POST", path |-> << "api", "*" >>, query |-> {}, headers |-> {},
                      body_required |-> TRUE, body_schema |-> {"client"}],
                     [method |-> "GET", path |-> << "api", "x" >>, query |-> {"q"},
                      headers |-> {"user-agent"}, body_required |-> FALSE, body_schema |-> Absent]}], 3),
              Node("openwhisk", [api_host |-> "h", service_token |-> Claim("basic", "svc", "svc"), action |-> "a"], 3) >>),
    Policy(<< Node("degraphql", [query |-> "q", variables |-> {"q"}], 4),
              Node("traffic-label", [rules |-> <<
                     [match |-> Rule(<< "method" >>, "==", "POST"), actions |->
                        {[set_headers |-> << >>, set_labels |-> << >>, weight |-> 1],
                         [set_headers |-> Header("x-added", Reference(<< "arg", "q" >>)),
                          set_labels |-> << >>, weight |-> 2]}],
                     [match |-> AnyOf({<< << "remote_addr" >>, "ipmatch", {"i9"} >>,
                                       << << "post_arg", "f" >>, "==", "client" >>,
                                       << << "msg", "consumer.name" >>, "has", {"alice"} >>}),
                      actions |-> {[set_headers |-> << >>, weight |-> 1,
                          set_labels |-> Header("label.tier", Literal("t"))]}] >>], 0),
              Node("aws-lambda", [function_uri |-> "f", iam |-> [accesskey |-> "a", secretkey |-> "s"]], 4) >>),
    Policy(<< Node("body-transformer", [request |-> "t"], 3),
              Node("aws-lambda", [function_uri |-> "f", apikey |-> "k"], 3) >>),
    \* answers rewritten
    Policy(<< Upstream(4), Node("response-rewrite", [filters |-> {"f"}, status_code |-> 201,
                                      headers |-> Header("x-added", Reference(<< "status" >>)),
                                      vars |-> Rule(<< "status" >>, "<", 300)], 0),
              Node("gzip", [types |-> {"text", "json"}, min_length |-> 1, comp_level |-> 5], 0),
              Node("brotli", [types |-> {"text", "json"}, comp_level |-> 0], 0) >>),
    Policy(<< Upstream(3), Node("body-transformer", [response |-> "t"], 3),
              Node("exit-transformer", [status_map |-> [s \in {404, 502} |-> 503], body |-> "b"], 0),
              Node("error-page", [error_503 |-> "page", error_404 |-> "page"], 0) >>),
    Policy(<< Upstream(3), Node("gzip", [types |-> {"text"}], 0),
              Node("response-rewrite", [body |-> "b", body_base64 |-> TRUE], 0),
              Node("brotli", [types |-> {"text"}], 0) >>),
    Policy(<< Node("cors", [allowed_origins |-> {"o1"}], 0), Upstream(4),
              Node("echo", [before_body |-> "b", headers |-> Header("x-added", "e")], 0),
              Node("error-handler", [status_code |-> 502], 0) >>),
    Policy(<< Node("listener", Nothing, 0), Node("redirect", [http_to_https |-> TRUE], 0),
              Node("error-page", [error_500 |-> "page"], 0), Node("client", Nothing, 0) >>),
    Policy(<< Node("no-such-plugin", Nothing, 0) >>),
    Policy(<< Node("redirect", [uri |-> Literal("u"), ret_code |-> 307, append_query_string |-> TRUE], 0),
              Node("proxy-rewrite", [phase |-> "response", remove_headers |-> {"x-added"}], 0) >>),
    Policy(<< Node("fault-injection", [abort |-> [http_status |-> 503, percentage |-> 50, body |-> "b",
                                         vars |-> {Rule(<< "http", "user-agent" >>, "in", {"bot"}),
                                                   Rule(<< "method" >>, "~=", "POST")}],
                                       delay |-> [duration |-> 1, percentage |-> 100]], 3),
              Node("mocking", [response_example |-> "e", response_status |-> 200, delay |-> 0], 0) >>),
    \* answers from elsewhere
    Policy(<< Node("traffic-split", [rules |-> << [match |-> Rule(<< "method" >>, "==", "GET"),
                     slots |-> {[weight |-> 1, targets |-> {"t2"}], [weight |-> 1, targets |-> Absent]}] >>], 4),
              Node("workflow", [rules |-> << [case |-> Rule(<< "uri" >>, "==", << "api" >>),
                                              action |-> [type |-> "return", code |-> 403]],
                                             [case |-> Rule(<< "method" >>, "==", "POST"), action |->
                                                [type |-> "limit-count", count |-> 1, time_window |-> 1]] >>], 4),
              Upstream(0) >>),
    Policy(<< Node("serverless-pre-function", [functions |-> << "header", "nothing" >>], 0),
              Node("script", [inline |-> "header"], 0), Upstream(4),
              Node("serverless-post-function", [functions |-> << "answer", "fail" >>], 0) >>)
    >>

\* The hypotheses under which the properties are theorems are met by these policies,
\* clients and consumers.
ASSUME MCRefusalCodes == RefusalCodes
ASSUME MCMarksHonoured == MarksHonoured
ASSUME MCSplitsWired == SplitsWired
ASSUME MCCredentialsApart == CredentialsApart
ASSUME MCConsumersApart == ConsumersApart
=============================================================================
