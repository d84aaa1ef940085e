----------------------------- MODULE Providers -----------------------------
(***************************************************************************)
(* The nodes that have an identity provider name the user: openid-connect, *)
(* authz-casdoor, cas-auth, dingtalk-auth and feishu-auth, as one request  *)
(* meets them.  What several requests of a browser do to the flow and the  *)
(* session is in Logins.  A sealed session cookie is [seal, user]: the     *)
(* secret it was sealed with and whose it is.  The calls to the provider   *)
(* are made from the configuration and carry of the client no more than    *)
(* its code, ticket or token.                                              *)
(***************************************************************************)
EXTENDS Authorization

\* What the provider, or the check of what it signed, comes to.
Verdicts == {"allow", "deny", "error"}

\* Nobody but the node may say who the user is: what the client says goes (and what
\* a node before it said, which is nothing to hide).
Unclaimed(c) ==
    LET said == c.req.headers["x-userinfo"]
        d    == [c EXCEPT !.req.headers = remove_ci(@, {"x-userinfo"})]
    IN  IF said \in {Absent, "provider's"} THEN d ELSE Hide(d, {"x-userinfo"}, said)

\* The user's record may lack an id.
Named(c) == {c, WithUser(c, "provider's")}

UserInfo(cfg, c) ==
    IF Opt(cfg, "set_userinfo_header", TRUE)
    THEN [c EXCEPT !.req.headers["x-userinfo"] = "provider's"] ELSE c

Redirect(c, to, cookie) ==
    LET put == [n \in {"location"} \cup (IF cookie = Absent THEN {} ELSE {"cookie"}) |->
                   IF n = "location" THEN to ELSE cookie]
    IN  PutHeaders(Answered(c, 302, NoBody), put)

\* The user of the session, for cookies this node sealed.
read_session(cfg, c) ==
    LET k == cookie_value(c)
    IN  IF k # Absent /\ "seal" \in DOMAIN k /\ k.seal = cfg.session_secret
        THEN k.user ELSE Absent

LogsOut(cfg, c) == Has(cfg, "logout_path") /\ c.req.path = cfg.logout_path
LoggedOut(c)    == {Err(Redirect(c, "home", "deleted"))}

\* At the callback, which carries a code and a state, the login ends, with a
\* session or without (Logins, also for the path of the cookies).
IsCallback(cfg, o, c) == c.req.path = cfg[o] /\ c.req.query["code"] # Absent
Returned(cfg, c, by, status) ==
    {Said(IF a = "allow" THEN Err(Redirect(c, "page", [seal |-> cfg.session_secret, user |-> "provider's"]))
          ELSE Err(reject(c, by, status)), a) : a \in Verdicts}

BeginLogin(c) == Err(Redirect(c, "provider", "flow"))

\* What the session keeps for the upstream.
SessionToken == [scheme |-> "bearer", id |-> "session", secret |-> "provider's", dated |-> TRUE]

-----------------------------------------------------------------------------
(* openid-connect *)

use_jwks(cfg)    == Has(cfg, "discovery") \/ Has(cfg, "jwks_uri")
bearer_only(cfg) == Opt(cfg, "bearer_only", TRUE)

build_interactive(cfg) ==
    /\ Required(cfg, {"session_secret", "redirect_uri"})
    /\ Has(cfg, "discovery") \/ Required(cfg, {"authorization_endpoint", "token_endpoint"})

openid_connect_from_config(cfg) ==
    /\ use_jwks(cfg) \/ Required(cfg, {"introspection_endpoint", "client_id", "client_secret"})
    /\ bearer_only(cfg) \/ /\ use_jwks(cfg) /\ Required(cfg, {"client_id", "client_secret"})
                           /\ build_interactive(cfg)
    /\ Usable(cfg, {"token_signing_alg_values_expected"})

parse_bearer(c) == IF Scheme(c, "bearer") THEN Auth(c) ELSE Absent

\* By the published keys (JwksCache) or by asking: a token that is not active,
\* or whose issuer or audience is not the one expected, is refused.
validate_via_jwks          == Verdicts
validate_via_introspection == Verdicts

\* Identity and token for the upstream.
attach(cfg, c, token) ==
    LET n == IF Opt(cfg, "access_token_in_authorization_header", FALSE)
             THEN "authorization" ELSE "x-access-token"
        d == UserInfo(cfg, c)
    IN  IF Opt(cfg, "set_access_token_header", TRUE) /\ token # Absent
        THEN [d EXCEPT !.req.headers[n] = token] ELSE d

\* The provider may have given no access token, and the address of its login
\* page, if it is not configured, has to be asked for.
openid_connect_interactive(cfg, c) ==
    IF LogsOut(cfg, c) THEN LoggedOut(c)
    ELSE IF IsCallback(cfg, "redirect_uri", c) THEN Returned(cfg, c, "openid-connect", 401)
    ELSE IF read_session(cfg, c) # Absent
    THEN {Ok(WithUser(attach(cfg, c, t), read_session(cfg, c))) : t \in {SessionToken, Absent}}
    ELSE {BeginLogin(c)} \cup
         (IF Has(cfg, "authorization_endpoint") THEN {}
          ELSE {Said(Err(reject(c, "openid-connect", 401)), "error")})

openid_connect_execute(cfg, c0) ==
    LET c     == Unclaimed(c0)
        asked == IF use_jwks(cfg) THEN validate_via_jwks ELSE validate_via_introspection
    IN  IF ~bearer_only(cfg) THEN openid_connect_interactive(cfg, c)
        ELSE IF parse_bearer(c) = Absent THEN {Err(reject(c, "openid-connect", 401))}
        ELSE {Said(Ok(d), "allow") : d \in Named(attach(cfg, c, parse_bearer(c)))}
             \cup {Said(Err(reject(c, "openid-connect", 401)), a) : a \in asked \ {"allow"}}

-----------------------------------------------------------------------------
(* authz-casdoor, cas-auth: with a session secret they log users in, without *)
(* one they ask about each request.                                          *)

session_secret(cfg) == Opt(cfg, "session_secret", Absent)

authz_casdoor_from_config(cfg) ==
    /\ Required(cfg, {"endpoint_addr", "client_id", "client_secret"})
    /\ session_secret(cfg) # Absent => Has(cfg, "callback_url")

\* The session's token replaces whatever the client authorized itself with.
attach_session(c, user) ==
    WithUser([c EXCEPT !.req.headers["authorization"] = SessionToken], user)

casdoor_interactive(cfg, c) ==
    IF LogsOut(cfg, c) THEN LoggedOut(c)
    ELSE IF IsCallback(cfg, "callback_url", c) THEN Returned(cfg, c, "authz-casdoor", 403)
    ELSE IF read_session(cfg, c) # Absent THEN {Ok(attach_session(c, read_session(cfg, c)))}
    ELSE {BeginLogin(c)}

\* A token of any scheme is asked about.
casdoor_stateless(c) ==
    IF Auth(c) = Absent THEN {Err(reject(c, "authz-casdoor", 403))}
    ELSE {Said(IF a = "allow" THEN Ok(c) ELSE Err(reject(c, "authz-casdoor", 403)), a) : a \in Verdicts}

authz_casdoor_execute(cfg, c) ==
    IF session_secret(cfg) # Absent THEN casdoor_interactive(cfg, c) ELSE casdoor_stateless(c)

cas_auth_from_config(cfg) == Required(cfg, {"idp_uri"})

extract_ticket(c) == c.req.query["code"]
cas_validate      == Verdicts

attach_user(c, user) == WithUser([c EXCEPT !.req.headers["x-cas-user"] = user], user)

\* The ticket comes back on the page's own address.
cas_interactive(cfg, c) ==
    IF LogsOut(cfg, c) THEN LoggedOut(c)
    ELSE IF read_session(cfg, c) # Absent THEN {Ok(attach_user(c, read_session(cfg, c)))}
    ELSE IF extract_ticket(c) # Absent THEN Returned(cfg, c, "cas-auth", 401)
    ELSE {Err(Redirect(c, "provider", Absent))}

cas_stateless(c) ==
    IF extract_ticket(c) = Absent THEN {Err(reject(c, "cas-auth", 401))}
    ELSE {Said(IF a = "allow" THEN Ok(attach_user(c, "provider's"))
               ELSE Err(reject(c, "cas-auth", 401)), a) : a \in cas_validate}

cas_auth_execute(cfg, c) ==
    IF session_secret(cfg) # Absent THEN cas_interactive(cfg, c) ELSE cas_stateless(c)

-----------------------------------------------------------------------------
(* dingtalk-auth, feishu-auth: a code in a header or a parameter. *)

extract_code(c) ==
    IF c.req.headers["x-code"] = Absent THEN c.req.query["code"] ELSE c.req.headers["x-code"]

dingtalk_auth_from_config(cfg) == Required(cfg, {"app_key", "app_secret"})
feishu_auth_from_config(cfg)   == Required(cfg, {"app_id", "app_secret", "auth_redirect_uri"})

\* DingTalk gives the application a token, which is cached, whoever is asking;
\* Feishu gives one for the code.  The user's record is then asked for.
access_token       == {"token", "error"}
fetch_access_token == {"token", "deny", "error"}
fetch_userinfo     == Verdicts

CodeLogin(cfg, c0, by, token) ==
    LET c == Unclaimed(c0)
    IN  IF extract_code(c) = Absent THEN {Err(reject(c, by, 401))}
        ELSE {Said(Ok(d), "allow") : d \in Named(UserInfo(cfg, c))}
             \cup {Said(Err(reject(c, by, 401)), a) :
                      a \in (token \cup fetch_userinfo) \ {"token", "allow"}}

dingtalk_auth_execute(cfg, c) == CodeLogin(cfg, c, "dingtalk-auth", access_token)
feishu_auth_execute(cfg, c)   == CodeLogin(cfg, c, "feishu-auth", fetch_access_token)

-----------------------------------------------------------------------------
ProviderTypes == {"openid-connect", "authz-casdoor", "cas-auth", "dingtalk-auth", "feishu-auth"}

provider_created(node) ==
    CASE node.type = "openid-connect" -> openid_connect_from_config(node.cfg)
      [] node.type = "authz-casdoor"  -> authz_casdoor_from_config(node.cfg)
      [] node.type = "cas-auth"       -> cas_auth_from_config(node.cfg)
      [] node.type = "dingtalk-auth"  -> dingtalk_auth_from_config(node.cfg)
      [] node.type = "feishu-auth"    -> feishu_auth_from_config(node.cfg)

provider_execute(node, c) ==
    CASE node.type = "openid-connect" -> openid_connect_execute(node.cfg, c)
      [] node.type = "authz-casdoor"  -> authz_casdoor_execute(node.cfg, c)
      [] node.type = "cas-auth"       -> cas_auth_execute(node.cfg, c)
      [] node.type = "dingtalk-auth"  -> dingtalk_auth_execute(node.cfg, c)
      [] node.type = "feishu-auth"    -> feishu_auth_execute(node.cfg, c)
=============================================================================
