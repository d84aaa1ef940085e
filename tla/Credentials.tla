---------------------------- MODULE Credentials ----------------------------
(***************************************************************************)
(* The nodes that establish who is asking.  Each takes its configuration,  *)
(* the context and the consumer store it loads, and gives the ways it may  *)
(* end.  An Authorization header is [scheme, id, secret, dated]: the name  *)
(* or key it claims, the secret it was made with (a password sent, a       *)
(* signature or an encryption under it), and whether its date, algorithm   *)
(* and signed headers are acceptable.                                      *)
(***************************************************************************)
EXTENDS Vars

\* Every node of this group needs its own credentials or the consumer store.
UsesConsumers(cfg) == Opt(cfg, "use_consumers", FALSE)
Inline(cfg, o)     == Names(cfg, o)

Auth(c)      == c.req.headers["authorization"]
Scheme(c, s) == Auth(c) # Absent /\ Auth(c).scheme = s

\* The value may appear in none of these places of a request that leaves.
Hide(c, places, v) == [c EXCEPT !.hidden = @ \cup {<< p, v >> : p \in places}]
Hides(cfg)         == Opt(cfg, "hide_credentials", FALSE)

\* The anonymous consumer, if it is configured and declared; the credential
\* that was not accepted stays in the request.
Anonymous(cfg, c, store, otherwise) ==
    LET known == IF Has(cfg, "anonymous_consumer") THEN get(store, cfg.anonymous_consumer)
                 ELSE {}
    IN  IF known # {} THEN {Ok(attach_consumer(c, u)) : u \in known} ELSE {Err(otherwise)}

-----------------------------------------------------------------------------
(* key-auth *)

key_auth_from_config(cfg) == Inline(cfg, "keys") # {} \/ UsesConsumers(cfg)

KeyHeader(cfg) == Opt(cfg, "header_name", "x-api-key")

\* Mutant: the key is taken out of the place it was found in.
StripWhereFound(cfg, c, key) ==
    LET h == KeyHeader(cfg)
    IN  Hide(IF c.req.headers[h] # Absent
             THEN [c EXCEPT !.req.headers = remove_ci(@, {h})]
             ELSE [c EXCEPT !.req.query = remove_ci(@, {Opt(cfg, "query_param", Absent)})],
             {h, "apikey"}, key)

\* Out of the header and out of the parameter.
strip_credential(cfg, c, key) ==
    LET h == KeyHeader(cfg)
    IN  Hide([c EXCEPT !.req.headers = remove_ci(@, {h}),
                       !.req.query = remove_ci(@, {Opt(cfg, "query_param", Absent)})],
             {h} \cup (IF Has(cfg, "query_param") THEN {cfg.query_param} ELSE {}), key)

\* The header first, then the query parameter; inline keys carry no identity.
key_auth_execute(cfg, c, store) ==
    LET sent  == c.req.headers[KeyHeader(cfg)]
        key   == IF sent # Absent \/ ~Has(cfg, "query_param") THEN sent
                 ELSE c.req.query[cfg.query_param]
        known == IF UsesConsumers(cfg) THEN find_by_credential(store, "key-auth", key) ELSE {}
        clean == IF Hides(cfg) THEN strip_credential(cfg, c, key) ELSE c
    IN  IF key \in Inline(cfg, "keys") THEN {Ok(clean)}
        ELSE IF known # {} THEN {Ok(attach_consumer(clean, u)) : u \in known}
        ELSE Anonymous(cfg, c, store, reject(c, "key-auth", 401))

-----------------------------------------------------------------------------
(* basic-auth: users are << name, password >> pairs *)

\* A map or a list of entries; anything else is refused.
parse_users(cfg) == Usable(cfg, {"users"})

basic_auth_from_config(cfg) ==
    parse_users(cfg) /\ (Inline(cfg, "users") # {} \/ UsesConsumers(cfg))

WithUser(c, name) == [c EXCEPT !.msg["user"] = name]

strip_basic(c) ==
    Hide([c EXCEPT !.req.headers = remove_ci(@, {"authorization"})], {"authorization"}, Auth(c))

basic_auth_execute(cfg, c, store) ==
    LET known == IF UsesConsumers(cfg) /\ Scheme(c, "basic")
                 THEN {u \in find_by_credential(store, "basic-auth", Auth(c).id) :
                          u.secret = Auth(c).secret}
                 ELSE {}
        clean    == IF Hides(cfg) THEN strip_basic(c) ELSE c
        named(o) == IF o.ok THEN [o EXCEPT !.ctx = WithUser(@, @.msg["consumer.name"])] ELSE o
    IN  IF Scheme(c, "basic") /\ << Auth(c).id, Auth(c).secret >> \in Inline(cfg, "users")
        THEN {Ok(WithUser(clean, Auth(c).id))}
        ELSE IF known # {}
        THEN {Ok(WithUser(attach_consumer(clean, u), Auth(c).id)) : u \in known}
        ELSE {named(o) : o \in Anonymous(cfg, c, store, reject(c, "basic-auth", 401))}

-----------------------------------------------------------------------------
(* jwt-auth *)

parse_algorithm(cfg) ==
    Opt(cfg, "algorithm", "HS256") \in {"HS256", "HS384", "HS512"}

jwt_auth_from_config(cfg) ==
    /\ Opt(cfg, "secret", Absent) # Absent \/ UsesConsumers(cfg)
    /\ parse_algorithm(cfg)

\* Mutant: the consumer the token names is attached before it is verified.
JwtAttachFirst(cfg, c, store) ==
    LET known == IF Scheme(c, "bearer") THEN find_by_credential(store, "jwt-auth", Auth(c).id)
                 ELSE {}
        no(d) == Err(reject(d, "jwt-auth", 401))
    IN  IF known = {} \/ ~UsesConsumers(cfg) THEN {no(c)}
        ELSE {IF u.secret = Auth(c).secret THEN Ok(attach_consumer(c, u))
              ELSE no(attach_consumer(c, u)) : u \in known}

\* The claims become the user, once the signature is verified.
verify(secret, c) == Auth(c).secret = secret

\* A token under the node's own secret; else, if consumers are used, one under
\* the secret of the consumer its key claim names.
jwt_auth_execute(cfg, c, store) ==
    LET known == IF UsesConsumers(cfg)
                 THEN {u \in find_by_credential(store, "jwt-auth", Auth(c).id) : verify(u.secret, c)}
                 ELSE {}
        user  == WithUser(c, Auth(c).id)
    IN  IF ~Scheme(c, "bearer") THEN {Err(reject(c, "jwt-auth", 401))}
        ELSE IF verify(Opt(cfg, "secret", Absent), c) THEN {Ok(user)}
        ELSE IF known # {} THEN {Ok(attach_consumer(user, u)) : u \in known}
        ELSE {Err(reject(c, "jwt-auth", 401))}

-----------------------------------------------------------------------------
(* hmac-auth *)

hmac_auth_from_config(cfg) ==
    /\ Has(cfg, "access_key") \/ UsesConsumers(cfg)
    /\ Has(cfg, "access_key") => Required(cfg, {"secret_key"})
    /\ Opt(cfg, "algorithm", "hmac-sha256") \in {"hmac-sha1", "hmac-sha256", "hmac-sha512"}
    /\ Usable(cfg, {"clock_skew"})

\* An Authorization header that carries a signature, else the X-HMAC headers.
retrieve_params(c) ==
    IF Scheme(c, "signature") THEN Auth(c) ELSE c.req.headers["x-hmac-signature"]

\* The algorithm, the clock and the headers that had to be signed.
validate_common(params) == params.dated

verify_signature(params, secret) == params.secret = secret

strip_headers(cfg, c, params) ==
    LET gone == (IF Opt(cfg, "keep_headers", FALSE) THEN {} ELSE {"x-hmac-signature"}) \cup
                (IF Hides(cfg) THEN {"authorization"} ELSE {})
    IN  Hide([c EXCEPT !.req.headers = remove_ci(@, gone)], gone, params)

hmac_auth_execute(cfg, c, store) ==
    LET params == retrieve_params(c)
        known  == IF UsesConsumers(cfg) /\ params # Absent
                  THEN find_by_credential(store, "hmac-auth", params.id) ELSE {}
        no     == reject(c, "hmac-auth", 401)
        clean  == strip_headers(cfg, c, params)
    IN  IF params = Absent THEN Anonymous(cfg, c, store, no)
        ELSE IF ~validate_common(params) THEN {Err(no)}
        ELSE IF Opt(cfg, "access_key", Absent) = params.id
        THEN {IF verify_signature(params, cfg.secret_key) THEN Ok(clean) ELSE Err(no)}
        ELSE IF known # {}
        THEN {IF verify_signature(params, u.secret) THEN Ok(attach_consumer(clean, u))
              ELSE Err(no) : u \in known}
        ELSE Anonymous(cfg, c, store, no)

-----------------------------------------------------------------------------
(* jwe-decrypt, ldap-auth *)

jwe_decrypt_from_config(cfg) ==
    /\ Has(cfg, "key") \/ UsesConsumers(cfg)
    /\ Opt(cfg, "key", Absent) # "not 32 bytes"
    /\ Opt(cfg, "alg", "dir") = "dir" /\ Opt(cfg, "enc", "A256GCM") = "A256GCM"

consumer_key(c, store) ==
    {u.secret : u \in find_by_credential(store, "jwe-decrypt", Auth(c).id)}

\* The plaintext replaces the header; the key is the node's own or that of the
\* consumer the token names, which is not attached.
jwe_decrypt_execute(cfg, c, store) ==
    LET keys == IF Has(cfg, "key") THEN {cfg.key} ELSE consumer_key(c, store)
    IN  IF Auth(c) = Absent
        THEN {IF Opt(cfg, "strict", TRUE) THEN Err(reject(c, "jwe-decrypt", 401)) ELSE Ok(c)}
        ELSE {IF Scheme(c, "jwe") /\ Auth(c).secret \in keys
              THEN Ok([c EXCEPT !.req.headers["authorization"] = [@ EXCEPT !.scheme = "bearer"]])
              ELSE Err(reject(c, "jwe-decrypt", 401))}

ldap_auth_from_config(cfg) == Required(cfg, {"base_dn", "ldap_uri"})

parse_basic(c) == Scheme(c, "basic")

\* The directory accepts, refuses, cannot be reached, or is too slow.
bind == {"allow", "deny", "error", "timeout"}

ldap_auth_execute(c) ==
    IF ~parse_basic(c) THEN {Err(reject(c, "ldap-auth", 401))}
    ELSE {Said(CASE a = "allow" -> Ok(WithUser(c, Auth(c).id))
                 [] a = "error" -> Err(StatusOnly(c, 401))
                 [] OTHER       -> Err(reject(c, "ldap-auth", 401)), a) : a \in bind}

-----------------------------------------------------------------------------
(* multi-auth: the first of its nodes that succeeds *)

SubTypes == {"key-auth", "basic-auth", "jwt-auth", "hmac-auth"}

sub_created(sub) ==
    CASE sub.type = "key-auth"   -> key_auth_from_config(sub.cfg)
      [] sub.type = "basic-auth" -> basic_auth_from_config(sub.cfg)
      [] sub.type = "jwt-auth"   -> jwt_auth_from_config(sub.cfg)
      [] sub.type = "hmac-auth"  -> hmac_auth_from_config(sub.cfg)
      [] OTHER                   -> FALSE

multi_auth_from_config(cfg) ==
    /\ Required(cfg, {"auth_plugins"})
    /\ cfg.auth_plugins # << >>
    /\ \A i \in 1 .. Len(cfg.auth_plugins) : sub_created(cfg.auth_plugins[i])

\* A failed attempt leaves its request and message changes; the response is the
\* one multi-auth was given.
NextAttempt(o, c) == [o.ctx EXCEPT !.res = c.res]

sub_execute(sub, c, store) ==
    CASE sub.type = "key-auth"   -> key_auth_execute(sub.cfg, c, store)
      [] sub.type = "basic-auth" -> basic_auth_execute(sub.cfg, c, store)
      [] sub.type = "jwt-auth"   -> jwt_auth_execute(sub.cfg, c, store)
      [] sub.type = "hmac-auth"  -> hmac_auth_execute(sub.cfg, c, store)

multi_auth_execute(cfg, c, store) ==
    LET subs == cfg.auth_plugins
        attempt[i \in 0 .. Len(subs)] ==
            IF i = 0 THEN {Err(c)}
            ELSE UNION {IF o.ok THEN {o} ELSE sub_execute(subs[i], NextAttempt(o, c), store) :
                        o \in attempt[i - 1]}
    IN  {IF o.ok THEN o ELSE Err(reject(NextAttempt(o, c), "multi-auth", 401)) :
         o \in attempt[Len(subs)]}

\* attach-consumer-label: the labels in the message become headers (every one
\* in the code, the tier here).
attach_consumer_label_execute(c) ==
    LET labels == c.msg["consumer.labels"]
    IN  IF labels # Absent /\ labels["tier"] # Absent
        THEN {Ok([c EXCEPT !.req.headers["x-consumer-tier"] = labels["tier"]])}
        ELSE {Ok(c)}

-----------------------------------------------------------------------------
CredentialTypes == SubTypes \cup {"multi-auth", "jwe-decrypt", "ldap-auth", "attach-consumer-label"}

credential_created(node) ==
    CASE node.type \in SubTypes       -> sub_created(node)
      [] node.type = "multi-auth"     -> multi_auth_from_config(node.cfg)
      [] node.type = "jwe-decrypt"    -> jwe_decrypt_from_config(node.cfg)
      [] node.type = "ldap-auth"      -> ldap_auth_from_config(node.cfg)
      [] node.type = "attach-consumer-label" -> TRUE

credential_execute(node, c, store) ==
    CASE node.type \in SubTypes       -> sub_execute(node, c, store)
      [] node.type = "multi-auth"     -> multi_auth_execute(node.cfg, c, store)
      [] node.type = "jwe-decrypt"    -> jwe_decrypt_execute(node.cfg, c, store)
      [] node.type = "ldap-auth"      -> ldap_auth_execute(c)
      [] node.type = "attach-consumer-label" -> attach_consumer_label_execute(c)
=============================================================================
