-------------------------- MODULE ExchangeProofs --------------------------
(***************************************************************************)
(* One request through a policy, for chains of any nodes with any          *)
(* configuration, any client and any consumers: no node lets a request     *)
(* pass against the verdict of the service it asked, and a node that       *)
(* refuses is seen to have refused; what leaves for a server, and what the *)
(* client gets, says truly how its body is coded and how long it is; a     *)
(* credential that was to be hidden leaves in no request; and who a        *)
(* request is taken to be is one consumer, whom the client proved to be or *)
(* the configuration admits.                                               *)
(***************************************************************************)
EXTENDS Exchange, WellFoundedInduction, SequenceTheorems, TLAPS

\* A non-empty set of natural numbers has a least element.
LEMMA LeastNatural ==
    ASSUME NEW S \in SUBSET Nat, S # {}
    PROVE  \E x \in S : \A y \in S : x <= y
<1>1. \E x \in S : \A y \in S : ~ (<<y, x>> \in OpToRel(<, Nat))
    BY NatLessThanWellFounded, WFMin
<1>2. PICK x \in S : \A y \in S : ~ (<<y, x>> \in OpToRel(<, Nat))
    BY <1>1
<1>3. ASSUME NEW y \in S, y < x PROVE <<y, x>> \in OpToRel(<, Nat)
    BY <1>3 DEF OpToRel
<1>4. \A y \in S : ~(y < x)
    BY <1>2, <1>3
<1> QED BY <1>4

-----------------------------------------------------------------------------
(* How nodes end. *)

Sayings == {"nothing", "allow", "plain", "deny", "garbled", "error", "timeout"}
           \cup AsSuccess \cup InFraming

\* All the proofs need to know of a context: it has a response with a status.
Shaped(c) == "res" \in DOMAIN c /\ "status" \in DOMAIN c.res

\* A node's end; what a node may not do against a verdict; what a node that
\* refuses must write, unless OPA has told it what.
IsEnd(o)   == o.ok \in BOOLEAN /\ o.said \in Sayings /\ Shaped(o.ctx)
Heeds(o)   == o.ok => o.said \in {"nothing", "allow", "plain"}
Visible(o) == ~o.ok /\ o.said \notin AsSuccess => o.ctx.res.status \in Refusals
Fair(o)    == IsEnd(o) /\ Heeds(o)
Fine(o)    == Fair(o) /\ Visible(o)

\* The three ways in which most nodes end.
LEMMA FineOk ==
    ASSUME NEW c, Shaped(c)
    PROVE  Fine(Ok(c)) /\ Fine(Said(Ok(c), "allow")) /\ Fine(Said(Ok(c), "plain"))
BY DEF Fine, Fair, IsEnd, Heeds, Visible, Ok, Said, Sayings

LEMMA FineErr ==
    ASSUME NEW c, Shaped(c), c.res.status \in Refusals
    PROVE  Fine(Err(c)) /\ \A a \in Sayings : Fine(Said(Err(c), a))
BY DEF Fine, Fair, IsEnd, Heeds, Visible, Err, Said, Sayings

\* Refusals: with a body, with the status alone, and with what was asked said.
LEMMA FineReject ==
    ASSUME NEW c, Shaped(c), NEW by, NEW s
    PROVE  /\ Shaped(reject(c, by, s)) /\ reject(c, by, s).res.status = s
           /\ Fair(Err(reject(c, by, s)))
           /\ s \in Refusals => Fine(Err(reject(c, by, s)))
           /\ s \in Refusals => \A a \in Sayings : Fine(Said(Err(reject(c, by, s)), a))
<1>1. Shaped(reject(c, by, s)) /\ reject(c, by, s).res.status = s
    BY DEF Shaped, reject
<1>2. Fair(Err(reject(c, by, s)))
    BY <1>1 DEF Fair, IsEnd, Heeds, Err, Sayings
<1> QED BY <1>1, <1>2, FineErr

LEMMA FineAnswer ==
    ASSUME NEW c, Shaped(c), NEW s, NEW b
    PROVE  /\ Shaped(Answered(c, s, b)) /\ Answered(c, s, b).res.status = s
           /\ Fair(Err(Answered(c, s, b)))
           /\ s \in Refusals => Fine(Err(Answered(c, s, b)))
           /\ s \in Refusals => \A a \in Sayings : Fine(Said(Err(Answered(c, s, b)), a))
<1>1. Shaped(Answered(c, s, b)) /\ Answered(c, s, b).res.status = s
    BY DEF Shaped, Answered
<1>2. Fair(Err(Answered(c, s, b)))
    BY <1>1 DEF Fair, IsEnd, Heeds, Err, Sayings
<1> QED BY <1>1, <1>2, FineErr

LEMMA ShapedHeaders ==
    ASSUME NEW c, Shaped(c), NEW h
    PROVE  Shaped(PutHeaders(c, h)) /\ PutHeaders(c, h).res.status = c.res.status
BY DEF Shaped, PutHeaders

LEMMA FineStatus ==
    ASSUME NEW c, Shaped(c), NEW s
    PROVE  /\ Shaped(StatusOnly(c, s)) /\ StatusOnly(c, s).res.status = s
           /\ Fair(Err(StatusOnly(c, s)))
           /\ Fair(Said(Err(StatusOnly(c, s)), "error"))
           /\ s \in Refusals => Fine(Err(StatusOnly(c, s)))
           /\ s \in Refusals => \A a \in Sayings : Fine(Said(Err(StatusOnly(c, s)), a))
<1>1. Shaped(StatusOnly(c, s)) /\ StatusOnly(c, s).res.status = s
    BY DEF Shaped, StatusOnly
<1>2. Fair(Err(StatusOnly(c, s))) /\ Fair(Said(Err(StatusOnly(c, s)), "error"))
    BY <1>1 DEF Fair, IsEnd, Heeds, Err, Said, Sayings
<1> QED BY <1>1, <1>2, FineErr

\* The codes that nodes refuse with unless they are configured.
LEMMA Codes ==
    /\ 302 \in Refusals /\ 400 \in Refusals /\ 401 \in Refusals /\ 403 \in Refusals
    /\ 404 \in Refusals /\ 405 \in Refusals /\ 413 \in Refusals /\ 500 \in Refusals
    /\ 502 \in Refusals /\ 503 \in Refusals /\ 504 \in Refusals
BY DEF Refusals

\* What changes nothing of the response.
LEMMA KeepsResponse ==
    ASSUME NEW c, Shaped(c)
    PROVE  /\ \A u : Shaped(attach_consumer(c, u)) /\ Shaped(WithUser(c, u))
           /\ \A p, v : Shaped(Hide(c, p, v)) /\ Shaped(Send(c, p, v))
           /\ \A n : Shaped(apply_allow(c, n, TRUE)) /\ Shaped(apply_allow(c, n, FALSE))
           /\ Shaped(Unclaimed(c)) /\ Shaped(strip_basic(c))
           /\ \A cfg, v : Shaped(strip_credential(cfg, c, v)) /\ Shaped(strip_headers(cfg, c, v))
           /\ \A cfg : Shaped(UserInfo(cfg, c)) /\ \A t : Shaped(attach(cfg, c, t))
           /\ \A u : Shaped(attach_session(c, u)) /\ Shaped(attach_user(c, u))
<1>1. \A u : Shaped(attach_consumer(c, u))
    BY DEF Shaped, attach_consumer
<1>2. ASSUME NEW d, Shaped(d), NEW v, NEW w
      PROVE  Shaped(WithUser(d, v)) /\ Shaped(Hide(d, v, w)) /\ Shaped([d EXCEPT !.req = v])
    BY <1>2 DEF Shaped, WithUser, Hide
<1>3. /\ \A p, v : Shaped(Send(c, p, v))
      /\ \A n : Shaped(apply_allow(c, n, TRUE)) /\ Shaped(apply_allow(c, n, FALSE))
    BY DEF Shaped, Send, apply_allow
<1>4. Shaped(Unclaimed(c)) /\ Shaped(strip_basic(c))
    BY <1>2 DEF Unclaimed, strip_basic
<1>5. \A cfg, v : Shaped(strip_credential(cfg, c, v)) /\ Shaped(strip_headers(cfg, c, v))
    BY <1>2 DEF strip_credential, strip_headers
<1>6. ASSUME NEW cfg PROVE Shaped(UserInfo(cfg, c)) /\ \A t : Shaped(attach(cfg, c, t))
    <2>1. Shaped(UserInfo(cfg, c))
        BY <1>2 DEF UserInfo
    <2> QED BY <1>2, <2>1 DEF attach
<1>7. \A u : Shaped(attach_session(c, u)) /\ Shaped(attach_user(c, u))
    BY <1>2 DEF attach_session, attach_user
<1> QED BY <1>1, <1>2, <1>3, <1>4, <1>5, <1>6, <1>7

-----------------------------------------------------------------------------
(* Credentials. *)

LEMMA FineAnonymous ==
    ASSUME NEW c, Shaped(c), NEW cfg, NEW users, NEW by,
           NEW o \in Anonymous(cfg, c, users, reject(c, by, 401))
    PROVE  Fine(o)
<1>1. o = Err(reject(c, by, 401)) \/ \E u : o = Ok(attach_consumer(c, u))
    BY DEF Anonymous
<1>2. \A u : Shaped(attach_consumer(c, u))
    BY KeepsResponse
<1> QED BY <1>1, <1>2, FineOk, FineReject, Codes

LEMMA FineKeyAuth ==
    ASSUME NEW c, Shaped(c), NEW cfg, NEW users, NEW o \in key_auth_execute(cfg, c, users)
    PROVE  Fine(o)
<1> DEFINE clean(k) == IF Hides(cfg) THEN strip_credential(cfg, c, k) ELSE c
<1>1. \A k, u : Shaped(clean(k)) /\ Shaped(attach_consumer(clean(k), u))
    BY KeepsResponse
<1>2. \/ \E k : o = Ok(clean(k))
      \/ \E k, u : o = Ok(attach_consumer(clean(k), u))
      \/ o \in Anonymous(cfg, c, users, reject(c, "key-auth", 401))
    BY DEF key_auth_execute
<1> QED BY <1>1, <1>2, FineOk, FineAnonymous

LEMMA FineBasicAuth ==
    ASSUME NEW c, Shaped(c), NEW cfg, NEW users, NEW o \in basic_auth_execute(cfg, c, users)
    PROVE  Fine(o)
<1> DEFINE clean == IF Hides(cfg) THEN strip_basic(c) ELSE c
<1>1. \A u : Shaped(WithUser(clean, u)) /\ \A n : Shaped(WithUser(attach_consumer(clean, u), n))
    BY KeepsResponse
<1>2. \/ \E n : o = Ok(WithUser(clean, n))
      \/ \E u, n : o = Ok(WithUser(attach_consumer(clean, u), n))
      \/ \E p \in Anonymous(cfg, c, users, reject(c, "basic-auth", 401)) :
            o = IF p.ok THEN [p EXCEPT !.ctx = WithUser(@, @.msg["consumer.name"])] ELSE p
    BY DEF basic_auth_execute
<1>3. ASSUME NEW p \in Anonymous(cfg, c, users, reject(c, "basic-auth", 401)), p.ok, NEW n
      PROVE  Fine([p EXCEPT !.ctx = WithUser(@, n)])
    <2>1. PICK u : p = Ok(attach_consumer(c, u))
        BY <1>3 DEF Anonymous, Err
    <2> DEFINE q == [p EXCEPT !.ctx = WithUser(@, n)]
    <2>2. q.ok = TRUE /\ q.said = "nothing" /\ q.ctx = WithUser(attach_consumer(c, u), n)
        BY <2>1 DEF Ok
    <2>3. Shaped(WithUser(attach_consumer(c, u), n))
        BY KeepsResponse
    <2> QED BY <2>2, <2>3 DEF Fine, Fair, IsEnd, Heeds, Visible, Sayings
<1> QED BY <1>1, <1>2, <1>3, FineOk, FineAnonymous

LEMMA FineJwtAuth ==
    ASSUME NEW c, Shaped(c), NEW cfg, NEW users, NEW o \in jwt_auth_execute(cfg, c, users)
    PROVE  Fine(o)
<1>1. \A n, u : Shaped(WithUser(c, n)) /\ Shaped(attach_consumer(WithUser(c, n), u))
    BY KeepsResponse
<1>2. \/ o = Err(reject(c, "jwt-auth", 401))
      \/ \E n : o = Ok(WithUser(c, n)) \/ \E u : o = Ok(attach_consumer(WithUser(c, n), u))
    BY DEF jwt_auth_execute
<1> QED BY <1>1, <1>2, FineOk, FineReject, Codes

LEMMA FineHmacAuth ==
    ASSUME NEW c, Shaped(c), NEW cfg, NEW users, NEW o \in hmac_auth_execute(cfg, c, users)
    PROVE  Fine(o)
<1> DEFINE clean == strip_headers(cfg, c, retrieve_params(c))
<1>1. Shaped(clean) /\ \A u : Shaped(attach_consumer(clean, u))
    BY KeepsResponse
<1>2. \/ o = Ok(clean) \/ \E u : o = Ok(attach_consumer(clean, u))
      \/ o = Err(reject(c, "hmac-auth", 401))
      \/ o \in Anonymous(cfg, c, users, reject(c, "hmac-auth", 401))
    BY DEF hmac_auth_execute
<1> QED BY <1>1, <1>2, FineOk, FineReject, Codes, FineAnonymous

LEMMA FineSub ==
    ASSUME NEW c, Shaped(c), NEW users, NEW sub, sub.type \in SubTypes,
           NEW o \in sub_execute(sub, c, users)
    PROVE  Fine(o)
BY FineKeyAuth, FineBasicAuth, FineJwtAuth, FineHmacAuth DEF sub_execute, SubTypes

\* The outcomes of multi-auth's attempts: those after attempt i, from those
\* after the one before.
Retried(subs, c, users, i, S) ==
    UNION {IF o.ok THEN {o} ELSE sub_execute(subs[i], NextAttempt(o, c), users) : o \in S}

IsAttempts(f, n, subs, c, users) ==
    f = [i \in 0 .. n |-> IF i = 0 THEN {Err(c)} ELSE Retried(subs, c, users, i, f[i - 1])]

LEMMA AttemptsExist ==
    ASSUME NEW subs, NEW c, NEW users, NEW n \in Nat
    PROVE  \E f : IsAttempts(f, n, subs, c, users)
<1> DEFINE D == {k \in Nat : ~\E f : IsAttempts(f, k, subs, c, users)}
<1> SUFFICES ASSUME D # {} PROVE FALSE
    OBVIOUS
<1>1. PICK k \in D : \A j \in D : k <= j
    BY LeastNatural
<1>2. CASE k = 0
    <2>1. IsAttempts([i \in 0 .. 0 |-> {Err(c)}], 0, subs, c, users)
        BY DEF IsAttempts
    <2> QED BY <1>2, <2>1
<1>3. CASE k # 0
    <2>1. k - 1 \in Nat /\ k - 1 \notin D
        BY <1>1, <1>3
    <2>2. PICK f : IsAttempts(f, k - 1, subs, c, users)
        BY <2>1
    <2> DEFINE g == [i \in 0 .. k |-> IF i < k THEN f[i] ELSE Retried(subs, c, users, k, f[k - 1])]
    <2>3. \A i \in 0 .. k : i # 0 => i - 1 \in 0 .. k /\ g[i - 1] = f[i - 1]
        OBVIOUS
    <2>4. \A i \in 0 .. k - 1 :
              f[i] = IF i = 0 THEN {Err(c)} ELSE Retried(subs, c, users, i, f[i - 1])
        BY <2>2 DEF IsAttempts
    <2>5. \A i \in 0 .. k :
              g[i] = IF i = 0 THEN {Err(c)} ELSE Retried(subs, c, users, i, g[i - 1])
        <3> TAKE i \in 0 .. k
        <3>1. CASE i < k
            <4>1. i \in 0 .. k - 1
                BY <3>1
            <4> QED BY <4>1, <3>1, <2>3, <2>4
        <3>2. CASE i = k
            BY <3>2, <2>3, <1>3
        <3> QED BY <3>1, <3>2
    <2>6. IsAttempts(g, k, subs, c, users)
        BY <2>5 DEF IsAttempts
    <2> QED BY <2>6
<1> QED BY <1>2, <1>3

\* However many attempts fail before one succeeds, each is made on a context
\* with the response that multi-auth was given.
LEMMA FineMultiAuth ==
    ASSUME NEW c, Shaped(c), NEW cfg, NEW users, IsList(cfg.auth_plugins),
           multi_auth_from_config(cfg),
           NEW o \in multi_auth_execute(cfg, c, users)
    PROVE  Fine(o)
<1> DEFINE subs == cfg.auth_plugins
           n == Len(subs)
           attempt == CHOOSE f : IsAttempts(f, n, subs, c, users)
           Tried(p) == IsEnd(p) /\ Heeds(p)
<1>1. n \in Nat /\ IsAttempts(attempt, n, subs, c, users)
    BY AttemptsExist DEF IsList
<1>2. \A i \in 1 .. n : subs[i].type \in SubTypes
    BY DEF multi_auth_from_config, sub_created, SubTypes
<1>3. ASSUME NEW p, IsEnd(p) PROVE Shaped(NextAttempt(p, c))
    BY <1>3 DEF IsEnd, NextAttempt, Shaped
<1> DEFINE D == {k \in 0 .. n : \E p \in attempt[k] : ~Tried(p)}
<1>4. D = {}
    <2> SUFFICES ASSUME D # {} PROVE FALSE
        OBVIOUS
    <2>1. PICK k \in D : \A j \in D : k <= j
        <3>1. D \in SUBSET Nat
            BY <1>1
        <3> QED BY <3>1, LeastNatural
    <2>2. PICK p \in attempt[k] : ~Tried(p)
        BY <2>1
    <2>3. CASE k = 0
        <3>1. p = Err(c)
            BY <1>1, <2>2, <2>3 DEF IsAttempts
        <3> QED BY <3>1, <2>2 DEF Err, IsEnd, Heeds, Sayings
    <2>4. CASE k # 0
        <3>1. k - 1 \in 0 .. n /\ k - 1 \notin D /\ k \in 1 .. n
            BY <1>1, <2>1, <2>4
        <3>2. p \in Retried(subs, c, users, k, attempt[k - 1])
            BY <1>1, <2>2, <2>4, <3>1 DEF IsAttempts
        <3>3. PICK q \in attempt[k - 1] :
                  p \in IF q.ok THEN {q} ELSE sub_execute(subs[k], NextAttempt(q, c), users)
            BY <3>2 DEF Retried
        <3>4. Tried(q)
            BY <3>1
        <3>5. ~q.ok => Fine(p)
            BY <3>1, <3>3, <3>4, <1>2, <1>3, FineSub
        <3> QED BY <2>2, <3>3, <3>4, <3>5 DEF Fine, Fair
    <2> QED BY <2>3, <2>4
<1>5. multi_auth_execute(cfg, c, users) =
          {IF p.ok THEN p ELSE Err(reject(NextAttempt(p, c), "multi-auth", 401)) : p \in attempt[n]}
    BY DEF multi_auth_execute, IsAttempts, Retried
<1>6. PICK p \in attempt[n] :
          o = IF p.ok THEN p ELSE Err(reject(NextAttempt(p, c), "multi-auth", 401))
    BY <1>5
<1>7. Tried(p)
    <2>1. n \in 0 .. n /\ n \notin D
        BY <1>1, <1>4
    <2> QED BY <2>1
<1>8. Shaped(NextAttempt(p, c))
    BY <1>3, <1>7
<1>9. 401 \in Refusals
    BY Codes
<1>10. ~p.ok => Fine(o)
    BY <1>6, <1>8, <1>9, FineReject
<1> QED BY <1>6, <1>7, <1>10 DEF Fine, Fair, Visible

LEMMA FineCredential ==
    ASSUME NEW c, Shaped(c), NEW users, NEW node, node.type \in CredentialTypes,
           credential_created(node),
           node.type = "multi-auth" => IsList(node.cfg.auth_plugins),
           NEW o \in credential_execute(node, c, users)
    PROVE  Fine(o)
<1>1. ASSUME NEW n, NEW t PROVE Shaped([c EXCEPT !.req.headers[n] = t])
    BY DEF Shaped
<1>r. 401 \in Refusals
    BY Codes
<1>2. CASE node.type \in SubTypes
    <2>1. o \in sub_execute(node, c, users)
        BY <1>2 DEF credential_execute, SubTypes
    <2> QED BY <1>2, <2>1, FineSub
<1>3. CASE node.type = "multi-auth"
    BY <1>3, FineMultiAuth DEF credential_execute, credential_created, SubTypes
<1>4. CASE node.type = "jwe-decrypt"
    <2>1. o \in jwe_decrypt_execute(node.cfg, c, users)
        BY <1>4 DEF credential_execute, SubTypes
    <2>2. \/ o = Err(reject(c, "jwe-decrypt", 401)) \/ o = Ok(c)
          \/ \E t : o = Ok([c EXCEPT !.req.headers["authorization"] = t])
        BY <2>1 DEF jwe_decrypt_execute
    <2>3. \A t : Shaped([c EXCEPT !.req.headers["authorization"] = t])
        BY <1>1
    <2>4. Fine(Err(reject(c, "jwe-decrypt", 401))) /\ Fine(Ok(c))
        BY <1>r, FineOk, FineReject
    <2>5. \A t : Fine(Ok([c EXCEPT !.req.headers["authorization"] = t]))
        BY <2>3, FineOk
    <2> QED BY <2>2, <2>4, <2>5
<1>5. CASE node.type = "ldap-auth"
    <2>1. o \in ldap_auth_execute(c)
        BY <1>5 DEF credential_execute, SubTypes
    <2>2. \/ o = Err(reject(c, "ldap-auth", 401))
          \/ \E n : o = Said(Ok(WithUser(c, n)), "allow")
          \/ \E a \in Sayings : o = Said(Err(StatusOnly(c, 401)), a)
                                \/ o = Said(Err(reject(c, "ldap-auth", 401)), a)
        BY <2>1 DEF ldap_auth_execute, bind, Sayings
    <2>3. \A n : Shaped(WithUser(c, n))
        BY KeepsResponse
    <2> QED BY <1>r, <2>2, <2>3, FineOk, FineReject, FineStatus
<1>6. CASE node.type = "attach-consumer-label"
    <2>1. o \in attach_consumer_label_execute(c)
        BY <1>6 DEF credential_execute, SubTypes
    <2>2. o = Ok(c) \/ \E t : o = Ok([c EXCEPT !.req.headers["x-consumer-tier"] = t])
        BY <2>1 DEF attach_consumer_label_execute
    <2> QED BY <1>1, <2>2, FineOk
<1> QED BY <1>2, <1>3, <1>4, <1>5, <1>6 DEF CredentialTypes

-----------------------------------------------------------------------------
(* Authorization. *)

LEMMA RefusalCode ==
    ASSUME NEW cfg, NEW opt, Refuses(cfg, opt), NEW default \in Refusals
    PROVE  Opt(cfg, opt, default) \in Refusals
BY DEF Refuses, Opt

ByService == {"opa", "forward-auth", "authz-keycloak", "wolf-rbac"}

\* The nodes that decide by themselves.
LEMMA FineRestriction ==
    ASSUME NEW c, Shaped(c), NEW node, node.type \in AuthorizationTypes \ ByService,
           NEW o \in authorization_execute(node, c)
    PROVE  Fair(o) /\ (Refuses(node.cfg, "rejected_code") => Fine(o))
<1> DEFINE cfg == node.cfg
<1>1. Refuses(cfg, "rejected_code") => Code(cfg) \in Refusals
    BY RefusalCode, Codes DEF Code
<1> DEFINE Good == Fair(o) /\ (Refuses(cfg, "rejected_code") => Fine(o))
<1>g. ASSUME o = Ok(c) \/ \E by : \E s \in {401, 403, Code(cfg)} : o = Err(reject(c, by, s))
      PROVE  Good
    BY <1>1, <1>g, Codes, FineOk, FineReject DEF Fine
<1> HIDE DEF Good
<1> SUFFICES Good
    BY DEF Good
<1>2. CASE node.type \in {"acl", "consumer-restriction", "authz-casbin", "ip-restriction",
                          "ua-restriction", "referer-restriction"}
    <2>1. CASE node.type = "acl"
        BY <2>1, <1>g DEF authorization_execute, acl_execute, Guard
    <2>2. CASE node.type = "consumer-restriction"
        BY <2>2, <1>g DEF authorization_execute, consumer_restriction_execute, Guard
    <2>3. CASE node.type = "authz-casbin"
        BY <2>3, <1>g DEF authorization_execute, authz_casbin_execute, Guard
    <2>4. CASE node.type = "ip-restriction"
        BY <2>4, <1>g DEF authorization_execute, ip_restriction_execute, Guard
    <2>5. CASE node.type = "ua-restriction"
        <3>1. o \in ua_restriction_execute(cfg, c)
            BY <2>5 DEF authorization_execute
        <3>2. o = Ok(c) \/ o = Err(reject(c, "ua-restriction", Code(cfg)))
            BY <3>1 DEF ua_restriction_execute, Guard
        <3> QED BY <3>2, <1>g
    <2>6. CASE node.type = "referer-restriction"
        <3>1. o \in referer_restriction_execute(cfg, c)
            BY <2>6 DEF authorization_execute
        <3>2. o = Ok(c) \/ o = Err(reject(c, "referer-restriction", 403))
            BY <3>1 DEF referer_restriction_execute, Guard
        <3> QED BY <3>2, <1>g
    <2> QED BY <1>2, <2>1, <2>2, <2>3, <2>4, <2>5, <2>6
<1>3. CASE node.type = "uri-blocker"
    <2>1. o = Ok(c) \/ o = Err(reject(c, "uri-blocker", Code(cfg)))
          \/ o = Err(Answered(c, Code(cfg), NoBody))
        BY <1>3 DEF authorization_execute, uri_blocker_execute
    <2> QED BY <1>1, <2>1, FineOk, FineReject, FineAnswer DEF Fine, Good
<1>4. CASE node.type = "csrf"
    <2>1. o = Ok(set_cookie(cfg, c)) \/ o = Err(reject(c, "csrf", 401))
        BY <1>4 DEF authorization_execute, csrf_execute
    <2>2. Shaped(set_cookie(cfg, c))
        BY DEF set_cookie, Shaped
    <2> QED BY <2>1, <2>2, FineOk, FineReject, Codes DEF Fine, Good
<1> QED BY <1>2, <1>3, <1>4 DEF AuthorizationTypes, ByService

\* A denial of OPA refuses; its status is that of a refusal, or it is remembered that
\* it is not.
LEMMA FineDenial ==
    ASSUME NEW c, Shaped(c), NEW r \in OpaDenials
    PROVE  Fine(build_deny(c, r))
<1> DEFINE body == IF r.reason THEN Body("opa", "text") ELSE c.res.body
           s == parse_opa_response(r)
           d == Answered(c, s, body)
           e == PutHeaders(d, r.headers)
           o == build_deny(c, r)
<1>1. s \in Nat
    BY OpaAssumption DEF parse_opa_response
<1>2. o.ok = FALSE /\ o.ctx = e /\ o.said = Tone(r)
    BY DEF build_deny, Said, Err
<1>3. Tone(r) \in Sayings /\ (Tone(r) \notin AsSuccess => ~(s < 300))
    BY DEF Tone, Sayings, AsSuccess, InFraming
<1>4. Shaped(d) /\ d.res.status = s
    <2> HIDE DEF body, s
    <2> QED BY FineAnswer
<1>5. Shaped(e) /\ e.res.status = s
    <2> HIDE DEF d
    <2> QED BY <1>4, ShapedHeaders
<1>6. Tone(r) \notin AsSuccess => s \in Refusals
    BY <1>1, <1>3 DEF Refusals
<1> HIDE DEF e, s, o
<1>7. Fine(o)
    BY <1>2, <1>3, <1>5, <1>6 DEF Fine, Fair, IsEnd, Heeds, Visible
<1> QED BY <1>7 DEF o

\* The nodes that ask: what denies, or does not answer, does not let pass.
LEMMA FineService ==
    ASSUME NEW c, Shaped(c), NEW node, node.type \in ByService \ {"forward-auth"},
           NEW o \in authorization_execute(node, c)
    PROVE  Fine(o)
<1> DEFINE cfg == node.cfg
<1>r. 401 \in Refusals /\ 403 \in Refusals /\ 500 \in Refusals /\ 503 \in Refusals
    BY Codes
<1>1. CASE node.type = "opa"
    <2>1. PICK d : d = build_opa_input(c) /\ Shaped(d)
        BY KeepsResponse DEF build_opa_input
    <2>2. \/ \E a \in {"allow", "plain", "error", "garbled"} : o = opa_outcome(cfg, d, a)
          \/ \E r \in OpaDenials : o = build_deny(d, r)
        BY <1>1, <2>1 DEF authorization_execute, opa_execute
    <2>3. ASSUME NEW a \in {"allow", "plain", "error", "garbled"}, o = opa_outcome(cfg, d, a)
          PROVE  Fine(o)
        <3> DEFINE names == Names(cfg, "send_headers_upstream")
        <3>s. a \in Sayings
            BY DEF Sayings
        <3>1. CASE a = "allow"
            <4>1. o = Said(Ok(apply_allow(d, names, TRUE)), "allow")
                BY <2>3, <3>1 DEF opa_outcome
            <4> QED BY <2>1, <4>1, FineOk, KeepsResponse
        <3>2. CASE a = "plain"
            <4>1. o = Said(Ok(apply_allow(d, names, FALSE)), "plain")
                BY <2>3, <3>2 DEF opa_outcome
            <4> QED BY <2>1, <4>1, FineOk, KeepsResponse
        <3>3. CASE a = "error"
            <4>1. o = Said(Err(StatusOnly(d, 403)), a)
                BY <2>3, <3>3 DEF opa_outcome
            <4> QED BY <1>r, <2>1, <3>s, <4>1, FineStatus
        <3>4. CASE a = "garbled"
            <4>1. o = Said(Err(StatusOnly(d, 503)), a)
                BY <2>3, <3>4 DEF opa_outcome
            <4> QED BY <1>r, <2>1, <3>s, <4>1, FineStatus
        <3> QED BY <3>1, <3>2, <3>3, <3>4
    <2>4. ASSUME NEW r \in OpaDenials, o = build_deny(d, r)
          PROVE  Fine(o)
        BY <2>1, <2>4, FineDenial
    <2> QED BY <2>2, <2>3, <2>4
<1>2. CASE node.type = "authz-keycloak"
    <2>1. \/ o = Ok(c) \/ o = Err(reject(c, "authz-keycloak", 403)) \/ o = Said(Ok(c), "allow")
          \/ \E a \in Sayings : o = Said(Err(reject(c, "authz-keycloak", 403)), a)
        BY <1>2 DEF authorization_execute, authz_keycloak_execute, Guard, Answers, Sayings
    <2> QED BY <1>r, <2>1, FineOk, FineReject
<1>3. CASE node.type = "wolf-rbac"
    <2> DEFINE named == WithUser([c EXCEPT !.req.headers["x-userid"] = "wolf"], "wolf")
    <2>1. Shaped(named)
        BY DEF Shaped, WithUser
    <2>2. \/ o = Err(reject(c, "wolf-rbac", 401)) \/ o = Said(Err(StatusOnly(c, 500)), "error")
          \/ \E d \in {c, named} : \/ o = Said(Ok(d), "allow")
                                   \/ o = Said(Err(reject(d, "wolf-rbac", 401)), "deny")
        BY <1>3 DEF authorization_execute, wolf_rbac_execute
    <2>3. "error" \in Sayings /\ "deny" \in Sayings
        BY DEF Sayings
    <2> HIDE DEF named
    <2>4. Fine(Err(reject(c, "wolf-rbac", 401))) /\ Fine(Said(Err(StatusOnly(c, 500)), "error"))
        BY <1>r, <2>3, FineReject, FineStatus
    <2>5. \A d \in {c, named} :
             Fine(Said(Ok(d), "allow")) /\ Fine(Said(Err(reject(d, "wolf-rbac", 401)), "deny"))
        BY <1>r, <2>1, <2>3, FineOk, FineReject
    <2> QED BY <2>2, <2>4, <2>5
<1> QED BY <1>1, <1>2, <1>3 DEF ByService

\* An unreachable service lets a request pass where degradation is configured,
\* and only there.
LEMMA FineForwardAuth ==
    ASSUME NEW c, Shaped(c), NEW node, node.type = "forward-auth",
           NEW o \in authorization_execute(node, c)
    PROVE  /\ IsEnd(o)
           /\ Heeds(o) \/ (o.said = "error" /\ MayDegrade(node))
           /\ Refuses(node.cfg, "status_on_error") => Visible(o)
<1> DEFINE cfg == node.cfg
           code == Opt(cfg, "status_on_error", 403)
<1>r. 302 \in Refusals /\ 403 \in Refusals /\ (Refuses(cfg, "status_on_error") => code \in Refusals)
    BY Codes, RefusalCode
<1> DEFINE names == Names(cfg, "upstream_headers")
           text == Body("service", "text")
<1>1. PICK d : d = ForwardCallout(cfg, c) /\ Shaped(d)
    BY KeepsResponse DEF ForwardCallout
<1>2. \/ o = Said(Ok(apply_allow(d, names, TRUE)), "allow")
      \/ o = Said(Ok(apply_allow(d, names, FALSE)), "plain")
      \/ o = Said(Err(Answered(d, 302, text)), "deny") \/ o = Said(Err(Answered(d, 403, text)), "deny")
      \/ o = Said(Ok(d), "error") /\ MayDegrade(node)
      \/ o = Said(Err(StatusOnly(d, code)), "error")
    <2>1. o \in forward_auth_execute(cfg, c)
        BY DEF authorization_execute
    <2>2. \/ o = Said(Ok(apply_allow(d, names, TRUE)), "allow")
          \/ o = Said(Ok(apply_allow(d, names, FALSE)), "plain")
          \/ o = Said(Err(Answered(d, 302, text)), "deny") \/ o = Said(Err(Answered(d, 403, text)), "deny")
          \/ o = Said(IF Opt(cfg, "allow_degradation", FALSE) THEN Ok(d)
                      ELSE Err(StatusOnly(d, code)), "error")
        BY <1>1, <2>1, Zenon DEF forward_auth_execute
    <2> QED BY <2>2 DEF MayDegrade
<1>3. CASE \/ o = Said(Ok(apply_allow(d, names, TRUE)), "allow")
           \/ o = Said(Ok(apply_allow(d, names, FALSE)), "plain")
    <2>1. Shaped(apply_allow(d, names, TRUE)) /\ Shaped(apply_allow(d, names, FALSE))
        BY <1>1, KeepsResponse
    <2>2. Fine(o)
        BY <1>3, <2>1, FineOk
    <2> QED BY <2>2 DEF Fine, Fair
<1>4. CASE o = Said(Err(Answered(d, 302, text)), "deny") \/ o = Said(Err(Answered(d, 403, text)), "deny")
    <2>1. "deny" \in Sayings
        BY DEF Sayings
    <2>2. Fine(o)
        BY <1>r, <1>1, <1>4, <2>1, FineAnswer
    <2> QED BY <2>2 DEF Fine, Fair
<1>5. CASE o = Said(Ok(d), "error") /\ MayDegrade(node)
    BY <1>1, <1>5 DEF IsEnd, Visible, Ok, Said, Sayings
<1>6. CASE o = Said(Err(StatusOnly(d, code)), "error")
    <2>1. "error" \in Sayings
        BY DEF Sayings
    <2>2. Fair(o) /\ (Refuses(cfg, "status_on_error") => Fine(o))
        BY <1>r, <1>1, <1>6, <2>1, FineStatus
    <2> QED BY <2>2 DEF Fine, Fair
<1> QED BY <1>2, <1>3, <1>4, <1>5, <1>6

-----------------------------------------------------------------------------
(* Identity providers. *)

LEMMA FineRedirect ==
    ASSUME NEW c, Shaped(c), NEW to, NEW k
    PROVE  /\ Fine(Err(Redirect(c, to, k)))
           /\ \A a \in Sayings : Fine(Said(Err(Redirect(c, to, k)), a))
<1>1. Shaped(Redirect(c, to, k)) /\ Redirect(c, to, k).res.status = 302
    <2>1. Shaped(Answered(c, 302, NoBody)) /\ Answered(c, 302, NoBody).res.status = 302
        BY FineAnswer
    <2>2. \E h : Redirect(c, to, k) = PutHeaders(Answered(c, 302, NoBody), h)
        BY DEF Redirect
    <2> QED BY <2>1, <2>2, ShapedHeaders
<1>2. 302 \in Refusals
    BY Codes
<1> QED BY <1>1, <1>2, FineErr

\* At the callback nothing passes, whatever the provider says.
LEMMA FineReturned ==
    ASSUME NEW c, Shaped(c), NEW cfg, NEW by, NEW s \in Refusals,
           NEW o \in Returned(cfg, c, by, s)
    PROVE  Fine(o)
<1> DEFINE k == [seal |-> cfg.session_secret, user |-> "provider's"]
<1>1. \E a \in Sayings : \/ o = Said(Err(Redirect(c, "page", k)), a)
                          \/ o = Said(Err(reject(c, by, s)), a)
    BY DEF Returned, Verdicts, Sayings
<1> HIDE DEF k
<1> QED BY <1>1, FineRedirect, FineReject

LEMMA FineNamed ==
    ASSUME NEW c, Shaped(c), NEW d \in Named(c)
    PROVE  Fine(Said(Ok(d), "allow"))
<1>1. Shaped(d)
    BY KeepsResponse DEF Named
<1> QED BY <1>1, FineOk

LEMMA FineOpenidConnect ==
    ASSUME NEW c, Shaped(c), NEW cfg, NEW o \in openid_connect_execute(cfg, c)
    PROVE  Fine(o)
<1>r. 401 \in Refusals /\ "error" \in Sayings /\ Verdicts \subseteq Sayings
    BY Codes DEF Sayings, Verdicts
<1>1. PICK d : d = Unclaimed(c) /\ Shaped(d)
    BY KeepsResponse
<1>2. CASE ~bearer_only(cfg)
    <2>1. o \in openid_connect_interactive(cfg, d)
        BY <1>1, <1>2 DEF openid_connect_execute
    <2>2. \/ o = Err(Redirect(d, "home", "deleted")) \/ o = Err(Redirect(d, "provider", "flow"))
          \/ o \in Returned(cfg, d, "openid-connect", 401)
          \/ o = Said(Err(reject(d, "openid-connect", 401)), "error")
          \/ \E t, u : o = Ok(WithUser(attach(cfg, d, t), u))
        BY <2>1 DEF openid_connect_interactive, LoggedOut, BeginLogin
    <2>3. \A t, u : Shaped(WithUser(attach(cfg, d, t), u))
        BY <1>1, KeepsResponse
    <2> QED BY <1>r, <1>1, <2>2, <2>3, FineOk, FineRedirect, FineReturned, FineReject
<1>3. CASE bearer_only(cfg)
    <2>1. \/ o = Err(reject(d, "openid-connect", 401))
          \/ \E a \in Verdicts : o = Said(Err(reject(d, "openid-connect", 401)), a)
          \/ \E t : \E e \in Named(attach(cfg, d, t)) : o = Said(Ok(e), "allow")
        BY <1>1, <1>3 DEF openid_connect_execute, validate_via_jwks, validate_via_introspection
    <2>2. \A t : Shaped(attach(cfg, d, t))
        BY <1>1, KeepsResponse
    <2> QED BY <1>r, <1>1, <2>1, <2>2, FineReject, FineNamed
<1> QED BY <1>2, <1>3

LEMMA FineCasdoor ==
    ASSUME NEW c, Shaped(c), NEW cfg, NEW o \in authz_casdoor_execute(cfg, c)
    PROVE  Fine(o)
<1>r. 403 \in Refusals /\ Verdicts \subseteq Sayings
    BY Codes DEF Sayings, Verdicts
<1>1. \/ o = Err(Redirect(c, "home", "deleted")) \/ o = Err(Redirect(c, "provider", "flow"))
      \/ o \in Returned(cfg, c, "authz-casdoor", 403)
      \/ \E u : o = Ok(attach_session(c, u))
      \/ o = Err(reject(c, "authz-casdoor", 403)) \/ o = Said(Ok(c), "allow")
      \/ \E a \in Verdicts : o = Said(Err(reject(c, "authz-casdoor", 403)), a)
    BY DEF authz_casdoor_execute, casdoor_interactive, casdoor_stateless, LoggedOut, BeginLogin
<1>2. \A u : Shaped(attach_session(c, u))
    BY KeepsResponse
<1> QED BY <1>r, <1>1, <1>2, FineOk, FineRedirect, FineReturned, FineReject

LEMMA FineCas ==
    ASSUME NEW c, Shaped(c), NEW cfg, NEW o \in cas_auth_execute(cfg, c)
    PROVE  Fine(o)
<1>r. 401 \in Refusals /\ Verdicts \subseteq Sayings
    BY Codes DEF Sayings, Verdicts
<1>1. \/ o = Err(Redirect(c, "home", "deleted")) \/ o = Err(Redirect(c, "provider", Absent))
      \/ o \in Returned(cfg, c, "cas-auth", 401)
      \/ \E u : o = Ok(attach_user(c, u)) \/ o = Said(Ok(attach_user(c, u)), "allow")
      \/ o = Err(reject(c, "cas-auth", 401))
      \/ \E a \in Verdicts : o = Said(Err(reject(c, "cas-auth", 401)), a)
    BY DEF cas_auth_execute, cas_interactive, cas_stateless, LoggedOut, cas_validate
<1>2. \A u : Shaped(attach_user(c, u))
    BY KeepsResponse
<1> QED BY <1>r, <1>1, <1>2, FineOk, FineRedirect, FineReturned, FineReject

LEMMA FineCodeLogin ==
    ASSUME NEW c, Shaped(c), NEW cfg, NEW by, NEW token, token \subseteq {"token", "deny", "error"},
           NEW o \in CodeLogin(cfg, c, by, token)
    PROVE  Fine(o)
<1>r. 401 \in Refusals /\ {"deny", "error"} \subseteq Sayings
    BY Codes DEF Sayings
<1>1. PICK d : d = Unclaimed(c) /\ Shaped(d)
    BY KeepsResponse
<1>2. \/ o = Err(reject(d, by, 401))
      \/ \E e \in Named(UserInfo(cfg, d)) : o = Said(Ok(e), "allow")
      \/ \E a \in {"deny", "error"} : o = Said(Err(reject(d, by, 401)), a)
    BY <1>1 DEF CodeLogin, fetch_userinfo, Verdicts
<1>3. Shaped(UserInfo(cfg, d))
    BY <1>1, KeepsResponse
<1> QED BY <1>r, <1>1, <1>2, <1>3, FineReject, FineNamed

LEMMA FineProvider ==
    ASSUME NEW c, Shaped(c), NEW node, node.type \in ProviderTypes,
           NEW o \in provider_execute(node, c)
    PROVE  Fine(o)
<1>1. /\ access_token \subseteq {"token", "deny", "error"}
      /\ fetch_access_token \subseteq {"token", "deny", "error"}
    BY DEF access_token, fetch_access_token
<1>2. \/ o \in openid_connect_execute(node.cfg, c) \/ o \in authz_casdoor_execute(node.cfg, c)
      \/ o \in cas_auth_execute(node.cfg, c)
      \/ o \in CodeLogin(node.cfg, c, "dingtalk-auth", access_token)
      \/ o \in CodeLogin(node.cfg, c, "feishu-auth", fetch_access_token)
    BY DEF provider_execute, ProviderTypes, dingtalk_auth_execute, feishu_auth_execute
<1> QED BY <1>1, <1>2, FineOpenidConnect, FineCasdoor, FineCas, FineCodeLogin

-----------------------------------------------------------------------------
(* Transformations. *)

LEMMA ShapedResponse ==
    ASSUME NEW c, Shaped(c), NEW b
    PROVE  Shaped(Rewritten(c, b)) /\ \A h : Shaped(WithResponse(c, b, h))
<1>1. \A h : Shaped(WithResponse(c, b, h))
    BY DEF Shaped, WithResponse
<1> QED BY <1>1 DEF Rewritten

Passes(o) == \E d : Shaped(d) /\ o = Ok(d)

LEMMA PassesRewrite ==
    ASSUME NEW c, Shaped(c), NEW cfg, NEW o \in response_rewrite_execute(cfg, c)
    PROVE  Passes(o)
<1> DEFINE coded == IF Given(cfg, "status_code") THEN StatusOnly(c, cfg.status_code) ELSE c
           body  == IF Given(cfg, "body") THEN Rewritten(coded, Body("response-rewrite", "text"))
                    ELSE IF Given(cfg, "filters") THEN apply_filters(coded) ELSE coded
<1>1. Shaped(coded)
    BY FineStatus
<1> HIDE DEF coded
<1>2. Shaped(apply_filters(coded))
    BY <1>1, ShapedResponse DEF apply_filters
<1>3. Shaped(body)
    BY <1>1, <1>2, ShapedResponse
<1>4. o = Ok(c) \/ \E h : o = Ok(PutHeaders(body, h))
    BY DEF response_rewrite_execute, coded
<1> HIDE DEF body
<1> QED BY <1>3, <1>4, ShapedHeaders DEF Passes

LEMMA FineTransform ==
    ASSUME NEW c, Shaped(c), NEW node, node.type \in TransformTypes,
           NEW o \in transform_execute(node, c)
    PROVE  Fine(o)
<1> DEFINE cfg == node.cfg
<1>p. Passes(o) => Fine(o)
    BY FineOk DEF Passes
<1>r. 400 \in Refusals /\ 405 \in Refusals /\ 502 \in Refusals
    BY Codes
<1>1. CASE node.type = "response-rewrite"
    BY <1>1, <1>p, PassesRewrite DEF transform_execute
<1>2. CASE node.type \in {"gzip", "brotli"}
    <2>1. o = Ok(c) \/ \E e : o = Ok(Compress(c, e))
        BY <1>2 DEF transform_execute, gzip_execute, brotli_execute
    <2>2. \A e : Shaped(Compress(c, e))
        BY ShapedResponse DEF Compress
    <2> QED BY <1>p, <2>1, <2>2 DEF Passes
<1>3. CASE node.type = "body-transformer"
    <2>1. Shaped(TransformRequest(c))
        BY DEF Shaped, TransformRequest
    <2>2. \E d \in {c, TransformRequest(c)} :
             \/ o = Ok(d) \/ \E b : o = Ok(Rewritten(d, b))
             \/ o = Err(reject(d, "body-transformer", 400))
             \/ o = Err(reject(d, "body-transformer", 502))
        BY <1>3 DEF transform_execute, body_transformer_execute
    <2>3. PICK d : /\ Shaped(d)
                   /\ \/ o = Ok(d) \/ \E b : o = Ok(Rewritten(d, b))
                      \/ o = Err(reject(d, "body-transformer", 400))
                      \/ o = Err(reject(d, "body-transformer", 502))
        BY <2>1, <2>2
    <2>4. \A b : Shaped(Rewritten(d, b))
        BY <2>3, ShapedResponse
    <2> QED BY <1>r, <2>3, <2>4, FineOk, FineReject
<1>4. CASE node.type = "cors"
    <2>1. o = Ok(c) \/ o = Ok(Answered(c, 204, NoBody))
        BY <1>4 DEF transform_execute, cors_execute
    <2> QED BY <2>1, FineOk, FineAnswer
<1>5. CASE node.type = "echo"
    <2>1. \E b, h : o = Ok(WithResponse(c, b, h))
        BY <1>5 DEF transform_execute, echo_execute
    <2> QED BY <1>p, <2>1, ShapedResponse DEF Passes
<1>6. CASE node.type = "data-mask"
    <2>1. PICK d : Shaped(d) /\ (o = Ok(d) \/ o = Ok(apply_to_json(d)))
        <3> DEFINE of(t) == {r \in Names(cfg, "request") : r.type = t}
                   d == [c EXCEPT !.req.query = apply_to_multimap(@, of("query")),
                                  !.req.headers = apply_to_multimap(@, of("header"))]
        <3>1. o = Ok(d) \/ o = Ok(apply_to_json(d))
            BY <1>6 DEF transform_execute, data_mask_execute
        <3>2. Shaped(d)
            BY DEF Shaped
        <3> QED BY <3>1, <3>2
    <2>2. Shaped(apply_to_json(d))
        BY <2>1 DEF Shaped, apply_to_json
    <2> QED BY <1>p, <2>1, <2>2 DEF Passes
<1>7. CASE node.type = "error-page"
    <2>1. \/ o = Ok(c)
          \/ \E b : o = Ok([Rewritten(c, b) EXCEPT !.res.headers["content-type"] = "text"])
        BY <1>7 DEF transform_execute, error_page_execute
    <2>2. \A b : Shaped([Rewritten(c, b) EXCEPT !.res.headers["content-type"] = "text"])
        <3> TAKE b
        <3>1. Shaped(Rewritten(c, b))
            BY ShapedResponse
        <3> QED BY <3>1 DEF Shaped
    <2> QED BY <1>p, <2>1, <2>2 DEF Passes
<1>8. CASE node.type = "exit-transformer"
    <2>1. o = Ok(c) \/ \E s : \/ o = Ok(StatusOnly(c, s))
                              \/ \E b : o = Ok(Rewritten(StatusOnly(c, s), b))
        BY <1>8 DEF transform_execute, exit_transformer_execute
    <2>2. \A s : Shaped(StatusOnly(c, s)) /\ \A b : Shaped(Rewritten(StatusOnly(c, s), b))
        BY FineStatus, ShapedResponse
    <2> QED BY <1>p, <2>1, <2>2 DEF Passes
<1>9. CASE node.type = "error-handler"
    <2>1. \E s : o = Ok(reject(c, "error-handler", s))
        BY <1>9 DEF transform_execute, error_handler_execute
    <2> QED BY <2>1, FineOk, FineReject
<1>10. CASE node.type = "mocking"
    <2>1. \E s, h : o = Ok(PutHeaders(reject(c, "mocking", s), h))
        BY <1>10 DEF transform_execute, mocking_execute
    <2>2. \A s : Shaped(reject(c, "mocking", s))
        BY FineReject
    <2> QED BY <1>p, <2>1, <2>2, ShapedHeaders DEF Passes
<1>11. CASE node.type = "redirect"
    <2> DEFINE out(s, to) == [Rewritten(c, NoBody) EXCEPT !.res.status = s,
                                                          !.res.headers["location"] = to]
    <2>1. \A s, to : Shaped(out(s, to))
        <3>1. Shaped(Rewritten(c, NoBody))
            BY ShapedResponse
        <3> QED BY <3>1 DEF Shaped
    <2>2. o \in redirect_execute(cfg, c)
        BY <1>11 DEF transform_execute
    <2>3. o = Ok(c) \/ \E s, to : o = Ok(out(s, to))
        BY <2>2 DEF redirect_execute
    <2> HIDE DEF out
    <2> QED BY <1>p, <2>1, <2>3 DEF Passes
<1>12. CASE node.type = "degraphql"
    <2> DEFINE d == [c EXCEPT !.req.method = "POST",
                              !.req.body = Body("degraphql", "json"),
                              !.req.headers = insert(remove_ci(@, Framing), "content-type", "json")]
    <2>1. \/ o = Err(reject(c, "degraphql", 405)) \/ o = Err(reject(c, "degraphql", 400))
          \/ o = Ok(d)
        BY <1>12 DEF transform_execute, degraphql_execute
    <2>2. Shaped(d)
        BY DEF Shaped
    <2> HIDE DEF d
    <2> QED BY <1>r, <2>1, <2>2, FineOk, FineReject
<1>13. CASE node.type = "proxy-rewrite"
    <2>1. \/ \E h : o = Ok([c EXCEPT !.res.headers = h])
          \/ \E p, h : o = Ok([c EXCEPT !.req.path = p, !.req.headers = h])
        BY <1>13 DEF transform_execute, proxy_rewrite_execute
    <2>2. \A p, h : Shaped([c EXCEPT !.req.path = p, !.req.headers = h])
        BY DEF Shaped
    <2>3. \A h : Shaped([c EXCEPT !.res.headers = h])
        BY DEF Shaped
    <2> QED BY <1>p, <2>1, <2>2, <2>3 DEF Passes
<1> QED BY <1>1, <1>2, <1>3, <1>4, <1>5, <1>6, <1>7, <1>8, <1>9, <1>10, <1>11, <1>12, <1>13
        DEF TransformTypes

-----------------------------------------------------------------------------
(* Checks. *)

LEMMA FineCheck ==
    ASSUME NEW c, Shaped(c), NEW node, node.type \in CheckTypes, check_created(node),
           NEW o \in check_execute(node, c)
    PROVE  /\ Fair(o)
           /\ /\ Refuses(node.cfg, "rejected_code")
              /\ node.type = "fault-injection" => AbortRefuses(node.cfg)
              => Fine(o)
<1> DEFINE cfg == node.cfg
           code == Opt(cfg, "rejected_code", 400)
<1>p. Passes(o) => Fine(o)
    BY FineOk DEF Passes
<1>f. Fine(o) => Fair(o)
    BY DEF Fine
<1>r. 413 \in Refusals /\ (Refuses(cfg, "rejected_code") => code \in Refusals)
    BY Codes, RefusalCode
<1>1. CASE node.type = "request-id"
    <2>1. PICK d, i : Shaped(d) /\ (o = Ok(d) \/ o = Ok([d EXCEPT !.res.headers["x-request-id"] = i]))
        <3> DEFINE sent == first_non_empty(c.req.headers)
                   i == IF sent = Absent THEN "a new id" ELSE sent
                   d == [c EXCEPT !.req.headers["x-request-id"] = i]
        <3>1. o = Ok(d) \/ o = Ok([d EXCEPT !.res.headers["x-request-id"] = i])
            BY <1>1 DEF check_execute, request_id_execute
        <3>2. Shaped(d)
            BY DEF Shaped
        <3> QED BY <3>1, <3>2
    <2>2. Shaped([d EXCEPT !.res.headers["x-request-id"] = i])
        BY <2>1 DEF Shaped
    <2> QED BY <1>p, <1>f, <2>1, <2>2 DEF Passes
<1>2. CASE node.type = "request-size-limit"
    <2>1. o = Ok(c) \/ o = Err(reject(c, "request-size-limit", 413))
        BY <1>2 DEF check_execute, request_size_limit_execute, Guard
    <2> QED BY <1>r, <1>f, <2>1, FineOk, FineReject
<1>3. CASE node.type = "real-ip"
    <2>1. o = Ok(c) \/ \E a : o = Ok([c EXCEPT !.req.addr = a])
        BY <1>3 DEF check_execute, real_ip_execute
    <2>2. \A a : Shaped([c EXCEPT !.req.addr = a])
        BY DEF Shaped
    <2> QED BY <1>p, <1>f, <2>1, <2>2 DEF Passes
<1>4. CASE node.type = "request-validation"
    <2> DEFINE d == [c EXCEPT !.req.body = Body("request-validation", "json"),
                              !.req.headers = remove_ci(@, {"content-length"})]
    <2>1. o = Ok(c) \/ o = Ok(d) \/ o = Err(reject(c, "request-validation", code))
        BY <1>4 DEF check_execute, request_validation_execute
    <2>2. Shaped(d)
        BY DEF Shaped
    <2> HIDE DEF d
    <2> QED BY <1>r, <1>f, <2>1, <2>2, FineOk, FineReject
<1>5. CASE node.type = "oas-validator"
    <2>1. o = Ok(c) \/ o = Err(reject(c, "oas-validator", code))
        BY <1>5 DEF check_execute, oas_validator_execute, Guard
    <2> QED BY <1>r, <1>f, <2>1, FineOk, FineReject
<1>6. CASE node.type = "traffic-label"
    <2>1. o = Ok(c) \/ \E h, m : o = Ok([c EXCEPT !.req.headers = h, !.msg = m])
        BY <1>6 DEF check_execute, traffic_label_execute
    <2>2. \A h, m : Shaped([c EXCEPT !.req.headers = h, !.msg = m])
        BY DEF Shaped
    <2> QED BY <1>p, <1>f, <2>1, <2>2 DEF Passes
<1>7. CASE node.type = "fault-injection"
    <2> DEFINE out(b, h) == PutHeaders(Answered(c, cfg.abort.http_status, b), h)
    <2>1. o = Ok(c) \/ \E b, h : o = Err(out(b, h))
        BY <1>7 DEF check_execute, fault_injection_execute
    <2>a. Given(cfg, "abort") => Has(cfg, "abort")
        BY <1>7 DEF check_created, fault_injection_from_config, Has
    <2>b. o = Ok(c) \/ Given(cfg, "abort")
        BY <1>7 DEF check_execute, fault_injection_execute
    <2>2. \A b, h : Shaped(out(b, h)) /\ out(b, h).res.status = cfg.abort.http_status
        BY FineAnswer, ShapedHeaders
    <2> HIDE DEF out
    <2>3. \A d : Shaped(d) => Fair(Err(d))
        BY DEF Fair, IsEnd, Heeds, Err, Sayings
    <2> QED BY <1>7, <1>f, <2>1, <2>a, <2>b, <2>2, <2>3, FineOk, FineErr DEF AbortRefuses
<1> QED BY <1>1, <1>2, <1>3, <1>4, <1>5, <1>6, <1>7 DEF CheckTypes

-----------------------------------------------------------------------------
(* Backends. *)

LEMMA ReplyShape ==
    ASSUME NEW req, NEW a \in request(req) \cup {Reply(200, "json", NoBody)}
    PROVE  IF Failed(a) THEN a.failure \in Failures
           ELSE "status" \in DOMAIN a /\ \A h : "status" \in DOMAIN [a EXCEPT !.headers = h]
<1>1. \A s, t, b : ~Failed(Reply(s, t, b)) /\ "status" \in DOMAIN Reply(s, t, b)
    BY DEF Reply, Failed
<1>2. (\E s, t, b : a = Reply(s, t, b)) \/ (\E f \in Failures : a = [failure |-> f])
    BY DEF request, Replies
<1>3. \A f \in Failures : Failed([failure |-> f]) /\ [failure |-> f].failure \in Failures
    BY DEF Failed
<1> QED BY <1>1, <1>2, <1>3

LEMMA ShapedReply ==
    ASSUME NEW c, Shaped(c), NEW r, "status" \in DOMAIN r
    PROVE  Shaped([c EXCEPT !.res = r]) /\ Shaped(WithReply(c, r))
BY DEF Shaped, WithReply

\* A function that fails is seen to have failed.
LEMMA FineApply ==
    ASSUME NEW c, Shaped(c), NEW req, NEW a \in request(req) \cup {Reply(200, "json", NoBody)}
    PROVE  Fine(apply_response(c, a))
<1>1. CASE Failed(a)
    <2>1. classify_error(a.failure) \in Refusals
        BY <1>1, ReplyShape, Codes DEF classify_error, Failures
    <2> QED BY <1>1, <2>1, FineStatus DEF apply_response
<1>2. CASE ~Failed(a)
    <2>1. "status" \in DOMAIN a
        BY <1>2, ReplyShape
    <2> QED BY <1>2, <2>1, ShapedReply, FineOk DEF apply_response
<1> QED BY <1>1, <1>2

LEMMA FineFunction ==
    ASSUME NEW c, Shaped(c), NEW node,
           node.type \in Forwarders \ {"upstream"},
           NEW o \in backend_execute(node, c)
    PROVE  Fine(o)
<1> DEFINE cfg == node.cfg
<1>1. CASE node.type # "openwhisk"
    <2>1. \E req : o \in Invoke(c, req)
        BY <1>1 DEF backend_execute, Forwarders, Serverless, aws_lambda_execute,
                    azure_functions_execute, openfunction_execute
    <2>2. \E req : \E a \in request(req) : o = apply_response(Send(c, "function", req), a)
        BY <2>1 DEF Invoke
    <2>3. \A req : Shaped(Send(c, "function", req))
        BY KeepsResponse
    <2> QED BY <2>2, <2>3, FineApply
<1>2. CASE node.type = "openwhisk"
    <2>1. o \in openwhisk_execute(cfg, c)
        BY <1>2 DEF backend_execute, Serverless
    <2>2. PICK req : \E a \in request(req) \cup {Reply(200, "json", NoBody)} :
              o = IF Failed(a) THEN apply_response(Send(c, "function", req), a)
                  ELSE map_response(Send(c, "function", req), a)
        BY <2>1 DEF openwhisk_execute
    <2>3. PICK a \in request(req) \cup {Reply(200, "json", NoBody)} :
              o = IF Failed(a) THEN apply_response(Send(c, "function", req), a)
                  ELSE map_response(Send(c, "function", req), a)
        BY <2>2
    <2>4. PICK d : d = Send(c, "function", req) /\ Shaped(d)
        BY KeepsResponse
    <2>5. CASE Failed(a)
        BY <2>3, <2>4, <2>5, FineApply
    <2>6. CASE ~Failed(a)
        <3>1. o = map_response(d, a)
            BY <2>3, <2>4, <2>6
        <3> DEFINE bare == [a EXCEPT !.headers = NoHeaders]
                   mapped == [status |-> a.status, body |-> Body("function", "text"),
                              headers |-> [NoHeaders EXCEPT !["content-type"] = "text"]]
        <3>2. o = Err(StatusOnly(d, 503)) \/ \E r \in {bare, mapped} : o = Ok([d EXCEPT !.res = r])
            BY <3>1 DEF map_response
        <3>3. \A r \in {bare, mapped} : "status" \in DOMAIN r
            BY <2>6, ReplyShape
        <3> HIDE DEF bare, mapped
        <3>4. 503 \in Refusals
            BY Codes
        <3>5. \A r \in {bare, mapped} : Shaped([d EXCEPT !.res = r])
            BY <2>4, <3>3, ShapedReply
        <3> QED BY <2>4, <3>2, <3>4, <3>5, FineOk, FineStatus
    <2> QED BY <2>5, <2>6
<1> QED BY <1>1, <1>2

LEMMA FineWorkflow ==
    ASSUME NEW c, Shaped(c), NEW cfg, workflow_from_config(cfg), IsList(cfg.rules),
           NEW o \in workflow_execute(cfg, c)
    PROVE  Fair(o) /\ (RulesRefuse(cfg) => Fine(o))
<1> DEFINE hits == {i \in DOMAIN cfg.rules : eval(cfg.rules[i].case, c)}
           k == CHOOSE i \in hits : \A j \in hits : i <= j
           a == cfg.rules[k].action
<1>1. \A s, b : Shaped(workflow_reject(c, s, b)) /\ workflow_reject(c, s, b).res.status = s
    <2>1. \A s : Shaped(reject(c, "workflow", s)) /\ reject(c, "workflow", s).res.status = s
        BY DEF Shaped, reject
    <2> QED BY <2>1 DEF workflow_reject, Shaped
<1>2. \A s, b : Fair(Err(workflow_reject(c, s, b)))
    BY <1>1 DEF Fair, IsEnd, Heeds, Err, Sayings
<1>3. \A s \in Refusals : \A b : Fine(Err(workflow_reject(c, s, b)))
    BY <1>1, FineErr
<1>4. CASE hits = {}
    BY <1>4, FineOk DEF workflow_execute, Fine
<1>5. CASE hits # {}
    <2>1. k \in hits
        <3>1. hits \in SUBSET Nat
            BY DEF IsList
        <3> QED BY <1>5, <3>1, LeastNatural
    <2>2. Has(cfg, "rules")
        BY DEF workflow_from_config, Required
    <2>3. a.type = "return" => Has(a, "code")
        BY <2>1 DEF workflow_from_config, Required
    <2>4. RulesRefuse(cfg) => Refuses(a, "code") /\ Refuses(a, "rejected_code")
        BY <2>1, <2>2 DEF RulesRefuse
    <2>5. 500 \in Refusals /\ 503 \in Refusals
        BY Codes
    <2>6. CASE a.type = "return"
        <3>1. \E b : o = Err(workflow_reject(c, a.code, b))
            BY <1>5, <2>6 DEF workflow_execute
        <3>2. RulesRefuse(cfg) => a.code \in Refusals
            BY <2>3, <2>4, <2>6 DEF Refuses
        <3> QED BY <3>1, <3>2, <1>2, <1>3
    <2>7. CASE a.type # "return"
        <3>1. \/ o = Ok(c) \/ o = Err(workflow_reject(c, 500, Body("workflow", "json")))
              \/ o = Err(workflow_reject(c, Opt(a, "rejected_code", 503), NoBody))
            BY <1>5, <2>7, SMTT(30) DEF workflow_execute
        <3>2. RulesRefuse(cfg) => Opt(a, "rejected_code", 503) \in Refusals
            BY <2>4, <2>5, RefusalCode
        <3>3. Fine(Ok(c)) /\ Fair(Ok(c))
            BY FineOk DEF Fine
        <3> QED BY <3>1, <3>2, <3>3, <2>5, <1>2, <1>3
    <2> QED BY <2>6, <2>7
<1> QED BY <1>4, <1>5

\* What a script may do is not seen by any of the services.
LEMMA FairLua ==
    ASSUME NEW c, Shaped(c), NEW script, LuaRuntime_new(script), NEW o \in lua_execute(script, c)
    PROVE  Fair(o)
<1> DEFINE out == [Rewritten(c, Body("script", "text")) EXCEPT !.res.status = 403]
           added == [c EXCEPT !.req.headers["x-added"] = "script"]
<1>1. o = Ok(c) \/ o = Err(c) \/ o = Ok(added) \/ o = Ok(out)
    BY DEF lua_execute, LuaRuntime_new
<1>2. Shaped(added)
    BY DEF Shaped
<1>3. Shaped(out)
    <2>1. Shaped(Rewritten(c, Body("script", "text")))
        BY ShapedResponse
    <2> QED BY <2>1 DEF Shaped
<1> HIDE DEF out, added
<1>4. \A d : Shaped(d) => Fair(Ok(d)) /\ Fair(Err(d))
    BY DEF Fair, IsEnd, Heeds, Ok, Err, Sayings
<1> QED BY <1>1, <1>2, <1>3, <1>4

\* The outcomes of the scripts of one node, from those after the one before.
Continued(scripts, i, S) ==
    UNION {IF o.ok THEN lua_execute(scripts[i], o.ctx) ELSE {o} : o \in S}

IsRun(f, n, scripts, c) ==
    f = [i \in 0 .. n |-> IF i = 0 THEN {Ok(c)} ELSE Continued(scripts, i, f[i - 1])]

LEMMA RunExists ==
    ASSUME NEW scripts, NEW c, NEW n \in Nat
    PROVE  \E f : IsRun(f, n, scripts, c)
<1> DEFINE D == {k \in Nat : ~\E f : IsRun(f, k, scripts, c)}
<1> SUFFICES ASSUME D # {} PROVE FALSE
    OBVIOUS
<1>1. PICK k \in D : \A j \in D : k <= j
    BY LeastNatural
<1>2. CASE k = 0
    <2>1. IsRun([i \in 0 .. 0 |-> {Ok(c)}], 0, scripts, c)
        BY DEF IsRun
    <2> QED BY <1>2, <2>1
<1>3. CASE k # 0
    <2>1. k - 1 \in Nat /\ k - 1 \notin D
        BY <1>1, <1>3
    <2>2. PICK f : IsRun(f, k - 1, scripts, c)
        BY <2>1
    <2> DEFINE g == [i \in 0 .. k |-> IF i < k THEN f[i] ELSE Continued(scripts, k, f[k - 1])]
    <2>3. \A i \in 0 .. k : i # 0 => i - 1 \in 0 .. k /\ g[i - 1] = f[i - 1]
        OBVIOUS
    <2>4. \A i \in 0 .. k - 1 :
              f[i] = IF i = 0 THEN {Ok(c)} ELSE Continued(scripts, i, f[i - 1])
        BY <2>2 DEF IsRun
    <2>5. \A i \in 0 .. k :
              g[i] = IF i = 0 THEN {Ok(c)} ELSE Continued(scripts, i, g[i - 1])
        <3> TAKE i \in 0 .. k
        <3>1. CASE i < k
            <4>1. i \in 0 .. k - 1
                BY <3>1
            <4> QED BY <4>1, <3>1, <2>3, <2>4
        <3>2. CASE i = k
            BY <3>2, <2>3, <1>3
        <3> QED BY <3>1, <3>2
    <2>6. IsRun(g, k, scripts, c)
        BY <2>5 DEF IsRun
    <2> QED BY <2>6
<1> QED BY <1>2, <1>3

LEMMA FairServerless ==
    ASSUME NEW c, Shaped(c), NEW cfg, IsList(cfg.functions), serverless_from_config(cfg),
           NEW o \in serverless_run(cfg, c)
    PROVE  Fair(o)
<1> DEFINE scripts == cfg.functions
           n == Len(scripts)
           upto == CHOOSE f : IsRun(f, n, scripts, c)
<1>1. n \in Nat /\ IsRun(upto, n, scripts, c)
    BY RunExists DEF IsList
<1>2. \A i \in 1 .. n : LuaRuntime_new(scripts[i])
    BY DEF serverless_from_config, IsList
<1> DEFINE D == {k \in 0 .. n : \E p \in upto[k] : ~Fair(p)}
<1>3. D = {}
    <2> SUFFICES ASSUME D # {} PROVE FALSE
        OBVIOUS
    <2>1. PICK k \in D : \A j \in D : k <= j
        <3>1. D \in SUBSET Nat
            BY <1>1
        <3> QED BY <3>1, LeastNatural
    <2>2. PICK p \in upto[k] : ~Fair(p)
        BY <2>1
    <2>3. CASE k = 0
        <3>1. p = Ok(c)
            BY <1>1, <2>2, <2>3 DEF IsRun
        <3> QED BY <3>1, <2>2, FineOk DEF Fine
    <2>4. CASE k # 0
        <3>0. n \in Nat /\ k \in 0 .. n
            BY <1>1, <2>1
        <3>a. k - 1 \in 0 .. n /\ k \in 1 .. n /\ ~(k <= k - 1)
            BY <2>4, <3>0
        <3>1. k - 1 \in 0 .. n /\ k - 1 \notin D /\ k \in 1 .. n
            <4> HIDE DEF D, n
            <4> QED BY <2>1, <3>a
        <3>2. p \in Continued(scripts, k, upto[k - 1])
            BY <1>1, <2>2, <2>4, <3>1 DEF IsRun
        <3>3. PICK q \in upto[k - 1] :
                  p \in IF q.ok THEN lua_execute(scripts[k], q.ctx) ELSE {q}
            BY <3>2 DEF Continued
        <3>4. Fair(q)
            BY <3>1
        <3>5. Shaped(q.ctx)
            BY <3>4 DEF Fair, IsEnd
        <3>6. q.ok => Fair(p)
            BY <3>1, <3>3, <3>5, <1>2, FairLua
        <3> QED BY <2>2, <3>3, <3>4, <3>6
    <2> QED BY <2>3, <2>4
<1>4. serverless_run(cfg, c) = upto[n]
    BY DEF serverless_run, IsRun, Continued
<1>5. n \in 0 .. n /\ n \notin D
    BY <1>1, <1>3
<1> QED BY <1>4, <1>5

\* The ones that may fail without a word are the upstream, a split and a script.
Mute == {"upstream", "script", "traffic-split"} \cup Serverless

LEMMA FineBackend ==
    ASSUME NEW c, Shaped(c), NEW node, node.type \in BackendTypes, backend_created(node),
           node.type \in Serverless => IsList(node.cfg.functions),
           node.type = "workflow" => IsList(node.cfg.rules),
           NEW o \in backend_execute(node, c)
    PROVE  /\ Fair(o)
           /\ node.type \notin Mute /\ (node.type = "workflow" => RulesRefuse(node.cfg)) => Fine(o)
<1> DEFINE cfg == node.cfg
<1>f. Fine(o) => Fair(o)
    BY DEF Fine
<1>a. \A d : Shaped(d) => Fair(Ok(d)) /\ Fair(Err(d))
    BY DEF Fair, IsEnd, Heeds, Ok, Err, Sayings
<1>s. \A p, v : Shaped(Send(c, p, v))
    BY KeepsResponse
<1>1. CASE node.type \in Forwarders \ {"upstream"}
    BY <1>1, <1>f, FineFunction
<1>2. CASE node.type = "upstream"
    <2> DEFINE ws == [c EXCEPT !.res.status = 101, !.msg["__ws_upstream"] = c.req.path]
    <2>1. Shaped(ws)
        BY DEF Shaped
    <2>2. o \in upstream_execute(c)
        BY <1>2 DEF backend_execute, Serverless
    <2>3. \/ o = Ok(ws)
          \/ \E q, r : \E a \in request(r) :
                o = IF Failed(a) THEN Err(Send(c, "upstream", q)) ELSE Ok(WithReply(Send(c, "upstream", q), a))
        BY <2>2 DEF upstream_execute
    <2> HIDE DEF ws
    <2>4. \A q, r : \A a \in request(r) : ~Failed(a) => Shaped(WithReply(Send(c, "upstream", q), a))
        BY <1>s, ReplyShape, ShapedReply
    <2> QED BY <1>2, <1>a, <1>s, <2>1, <2>3, <2>4 DEF Mute
<1>3. CASE node.type = "proxy-mirror"
    <2>1. o = Ok(c) \/ \E q : o = Ok(Send(c, "mirror", q))
        BY <1>3 DEF backend_execute, proxy_mirror_execute, Serverless
    <2> QED BY <1>f, <1>s, <2>1, FineOk
<1>4. CASE node.type = "traffic-split"
    <2>1. o \in traffic_split_execute(cfg, c)
        BY <1>4 DEF backend_execute, Serverless
    <2>2. o = Ok(c) \/ o \in proxy_to_target(c)
        BY <2>1 DEF traffic_split_execute
    <2>3. o \in proxy_to_target(c) =>
             \E q, r : \E a \in request(r) :
                o = IF Failed(a) THEN Err(reject(Send(c, "upstream", q), "traffic-split", 502))
                    ELSE Err(WithReply(Send(c, "upstream", q), a))
        BY DEF proxy_to_target
    <2>4. \A q, r : \A a \in request(r) : ~Failed(a) => Shaped(WithReply(Send(c, "upstream", q), a))
        BY <1>s, ReplyShape, ShapedReply
    <2>5. \A q : Shaped(reject(Send(c, "upstream", q), "traffic-split", 502))
        BY <1>s, FineReject
    <2> QED BY <1>4, <1>a, <2>2, <2>3, <2>4, <2>5 DEF Mute
<1>5. CASE node.type = "workflow"
    <2>1. workflow_from_config(cfg) /\ o \in workflow_execute(cfg, c)
        BY <1>5 DEF backend_created, backend_execute, Serverless
    <2> QED BY <1>5, <2>1, FineWorkflow
<1>6. CASE node.type = "script"
    <2>1. script_from_config(cfg) /\ o \in script_execute(cfg, c)
        BY <1>6 DEF backend_created, backend_execute, Serverless
    <2>2. Fair(o)
        BY <2>1, FairLua DEF script_from_config, script_execute
    <2> QED BY <1>6, <2>2 DEF Mute
<1>7. CASE node.type \in Serverless
    <2>1. serverless_from_config(cfg) /\ o \in serverless_run(cfg, c)
        BY <1>7 DEF backend_created, backend_execute, Serverless
    <2>2. Fair(o)
        BY <1>7, <2>1, FairServerless
    <2> QED BY <1>7, <2>2 DEF Mute
<1> QED BY <1>1, <1>2, <1>3, <1>4, <1>5, <1>6, <1>7 DEF BackendTypes

-----------------------------------------------------------------------------
(* A node of any type, on any context. *)

\* What lists a node's configuration may hold, once it is accepted.
Lists(cfg) == \A o \in {"auth_plugins", "functions", "rules"} : Has(cfg, o) => IsList(cfg[o])

\* What was said to a node that let the request pass.
Allowed(node, ok, said) ==
    ok => said \in {"nothing", "allow", "plain"} \/ (said = "error" /\ MayDegrade(node))

\* Each type of node is of one group.
LEMMA OneGroup ==
    \A t :
        /\ t \in CredentialTypes =>
              t \notin AuthorizationTypes \cup ProviderTypes \cup TransformTypes \cup CheckTypes
                        \cup BackendTypes \cup {"listener", "client"}
        /\ t \in AuthorizationTypes =>
              t \notin CredentialTypes \cup ProviderTypes \cup TransformTypes \cup CheckTypes
                        \cup BackendTypes \cup {"listener", "client"}
        /\ t \in ProviderTypes =>
              t \notin CredentialTypes \cup AuthorizationTypes \cup TransformTypes \cup CheckTypes
                        \cup BackendTypes \cup {"listener", "client"}
        /\ t \in TransformTypes =>
              t \notin CredentialTypes \cup AuthorizationTypes \cup ProviderTypes \cup CheckTypes
                        \cup BackendTypes \cup {"listener", "client"}
        /\ t \in CheckTypes =>
              t \notin CredentialTypes \cup AuthorizationTypes \cup ProviderTypes \cup TransformTypes
                        \cup BackendTypes \cup {"listener", "client"}
        /\ t \in BackendTypes =>
              t \notin CredentialTypes \cup AuthorizationTypes \cup ProviderTypes \cup TransformTypes
                        \cup CheckTypes \cup {"listener", "client"}
BY DEF CredentialTypes, SubTypes, AuthorizationTypes, ProviderTypes, TransformTypes, CheckTypes,
       BackendTypes, Forwarders, Serverless

LEMMA NodeEnds ==
    ASSUME NEW c, Shaped(c), NEW node, Lists(node.cfg), create_plugin(node),
           NEW o \in execute(node, c)
    PROVE  /\ IsEnd(o) /\ Allowed(node, o.ok, o.said)
           /\ CodesRefuse(node) /\ node.type \notin Mute => Visible(o)
<1> DEFINE cfg == node.cfg
<1>1. CASE node.type \in CredentialTypes
    <2>1. credential_created(node) /\ o \in credential_execute(node, c, Stores[store])
        BY <1>1, OneGroup DEF create_plugin, execute
    <2>2. node.type = "multi-auth" => IsList(cfg.auth_plugins)
        BY <2>1 DEF Lists, credential_created, multi_auth_from_config, Required, SubTypes
    <2>3. Fine(o)
        BY <1>1, <2>1, <2>2, FineCredential
    <2> QED BY <2>3 DEF Fine, Fair, Heeds, Allowed
<1>2. CASE node.type \in AuthorizationTypes
    <2>1. o \in authorization_execute(node, c)
        BY <1>2, OneGroup DEF execute
    <2>2. CASE node.type \notin ByService
        BY <1>2, <2>1, <2>2, FineRestriction DEF Fine, Fair, Heeds, Allowed, CodesRefuse
    <2>3. CASE node.type \in ByService \ {"forward-auth"}
        BY <2>1, <2>3, FineService DEF Fine, Fair, Heeds, Allowed
    <2>4. CASE node.type = "forward-auth"
        BY <2>1, <2>4, FineForwardAuth DEF Heeds, Allowed, CodesRefuse
    <2> QED BY <2>2, <2>3, <2>4
<1>3. CASE node.type \in ProviderTypes
    <2>1. o \in provider_execute(node, c)
        BY <1>3, OneGroup DEF execute
    <2> QED BY <1>3, <2>1, FineProvider DEF Fine, Fair, Heeds, Allowed
<1>4. CASE node.type \in TransformTypes
    <2>1. o \in transform_execute(node, c)
        BY <1>4, OneGroup DEF execute
    <2> QED BY <1>4, <2>1, FineTransform DEF Fine, Fair, Heeds, Allowed
<1>5. CASE node.type \in CheckTypes
    <2>1. check_created(node) /\ o \in check_execute(node, c)
        BY <1>5, OneGroup DEF create_plugin, execute
    <2>2. Fair(o) /\ (Refuses(cfg, "rejected_code")
                      /\ (node.type = "fault-injection" => AbortRefuses(cfg)) => Fine(o))
        BY <1>5, <2>1, FineCheck
    <2> QED BY <2>2 DEF Fine, Fair, Heeds, Allowed, CodesRefuse
<1>6. CASE node.type \in BackendTypes
    <2>1. backend_created(node) /\ o \in backend_execute(node, c)
        BY <1>6, OneGroup DEF create_plugin, execute
    <2>2. node.type \in Serverless => IsList(cfg.functions)
        BY <2>1 DEF Lists, backend_created, serverless_from_config, Required, Serverless
    <2>3. node.type = "workflow" => IsList(cfg.rules)
        BY <2>1 DEF Lists, backend_created, workflow_from_config, Required, Serverless
    <2>4. Fair(o) /\ (node.type \notin Mute /\ (node.type = "workflow" => RulesRefuse(cfg)) => Fine(o))
        BY <1>6, <2>1, <2>2, <2>3, FineBackend
    <2> QED BY <2>4 DEF Fine, Fair, Heeds, Allowed, CodesRefuse
<1>7. CASE node.type \notin CredentialTypes \cup AuthorizationTypes \cup ProviderTypes
                             \cup TransformTypes \cup CheckTypes \cup BackendTypes
    <2>1. o = Ok(c)
        BY <1>7 DEF execute
    <2> QED BY <2>1, FineOk DEF Fine, Fair, Heeds, Allowed
<1> QED BY <1>1, <1>2, <1>3, <1>4, <1>5, <1>6, <1>7

-----------------------------------------------------------------------------
(* The nodes of the policy, one option of which may be wrong or missing. *)

LEMMA SpoiltNode ==
    ASSUME NEW node, NEW n, IsNode(node, n), NEW o, NEW how
    PROVE  LET bad == Spoilt(node, o, how)
           IN  /\ Lists(bad.cfg) /\ bad.err = node.err
               /\ CodesRefuse(node) => CodesRefuse(bad)
<1> DEFINE cfg == [p \in DOMAIN node.cfg \ (IF how = "missing" THEN {o} ELSE {}) |->
                      IF p = o THEN Bad ELSE node.cfg[p]]
           bad == Spoilt(node, o, how)
<1>1. bad.cfg = cfg /\ bad.err = node.err /\ bad.type = node.type
    BY DEF Spoilt, IsNode
<1>2. \A p : Has(cfg, p) => Has(node.cfg, p) /\ Given(node.cfg, p) /\ cfg[p] = node.cfg[p]
    BY DEF Has, Given
<1> HIDE DEF cfg, bad
<1>3. Lists(cfg)
    BY <1>2 DEF Lists, IsNode
<1>4. CodesRefuse(node) => CodesRefuse(bad)
    <2>1. ASSUME NEW p, Refuses(node.cfg, p) PROVE Refuses(cfg, p)
        BY <1>2, <2>1 DEF Refuses
    <2>2. AbortRefuses(node.cfg) => AbortRefuses(cfg)
        BY <1>2 DEF AbortRefuses
    <2>3. RulesRefuse(node.cfg) => RulesRefuse(cfg)
        BY <1>2 DEF RulesRefuse
    <2> QED BY <1>1, <2>1, <2>2, <2>3 DEF CodesRefuse
<1> QED BY <1>1, <1>3, <1>4 DEF bad

LEMMA PolicyNodes ==
    ASSUME idx \in DOMAIN Chains, fault \in Faults(Chains[idx])
    PROVE  /\ IsList(Nodes)
           /\ \A n \in 1 .. Len(Nodes) : Lists(Nodes[n].cfg) /\ Nodes[n].err \in 0 .. End
           /\ RefusalCodes => \A n \in 1 .. Len(Nodes) : CodesRefuse(Nodes[n])
<1> DEFINE nodes == Chains[idx].nodes
<1>1. IsList(nodes) /\ \A n \in 1 .. Len(nodes) : IsNode(nodes[n], Len(nodes))
    BY ChainAssumption DEF IsList
<1>2. RefusalCodes => \A n \in 1 .. Len(nodes) : CodesRefuse(nodes[n])
    BY <1>1 DEF RefusalCodes, IsList
<1>3. CASE fault = << >>
    <2>1. Nodes = nodes
        BY <1>3 DEF Nodes
    <2>2. \A n \in 1 .. Len(nodes) : Lists(nodes[n].cfg)
        BY <1>1 DEF Lists, IsNode, Has
    <2>3. \A n \in 1 .. Len(nodes) : nodes[n].err \in 0 .. Len(nodes) + 1
        BY <1>1 DEF IsNode
    <2> QED BY <1>1, <1>2, <2>1, <2>2, <2>3 DEF End
<1>4. CASE fault # << >>
    <2>1. fault[1] \in 1 .. Len(nodes)
        BY <1>1, <1>4 DEF Faults, IsList
    <2> DEFINE k == fault[1]
               bad == Spoilt(nodes[k], fault[2], fault[3])
               S == {nodes[n] : n \in 1 .. Len(nodes)} \cup {bad}
    <2>2. nodes \in [1 .. Len(nodes) -> S]
        BY <1>1 DEF IsList
    <2>3. nodes \in Seq(S)
        BY <1>1, <2>2, SeqDef DEF IsList
    <2>4. Nodes = [nodes EXCEPT ![k] = bad]
        BY <1>4 DEF Nodes
    <2>5. /\ Nodes \in Seq(S) /\ Len(Nodes) = Len(nodes)
          /\ \A n \in 1 .. Len(nodes) : Nodes[n] = IF n = k THEN bad ELSE nodes[n]
        <3> HIDE DEF bad
        <3> QED BY <2>1, <2>3, <2>4, ExceptSeq
    <2>6. IsList(Nodes)
        BY <2>5, LenProperties DEF IsList
    <2>7. /\ Lists(bad.cfg) /\ bad.err = nodes[k].err
          /\ CodesRefuse(nodes[k]) => CodesRefuse(bad)
        BY <1>1, <2>1, SpoiltNode
    <2> HIDE DEF bad
    <2>8. \A n \in 1 .. Len(nodes) : Lists(nodes[n].cfg)
        BY <1>1 DEF Lists, IsNode, Has
    <2>9. \A n \in 1 .. Len(nodes) : nodes[n].err \in 0 .. Len(nodes) + 1
        BY <1>1 DEF IsNode
    <2>10. \A n \in 1 .. Len(Nodes) : Lists(Nodes[n].cfg)
        BY <2>1, <2>5, <2>7, <2>8
    <2>11. \A n \in 1 .. Len(Nodes) : Nodes[n].err \in 0 .. End
        BY <2>1, <2>5, <2>7, <2>9 DEF End
    <2>12. RefusalCodes => \A n \in 1 .. Len(Nodes) : CodesRefuse(Nodes[n])
        BY <1>2, <2>1, <2>5, <2>7
    <2> QED BY <2>6, <2>10, <2>11, <2>12
<1> QED BY <1>3, <1>4

-----------------------------------------------------------------------------
(* The request on its way. *)

Built == \A n \in 1 .. Len(Nodes) : create_plugin(Nodes[n])

\* The node that ran last has refused, in a way the client is to see.
Refused ==
    LET last == Len(trail)
    IN  /\ trail # << >> /\ ~trail[last].ok
        /\ \/ Ran(last).err = 0
           \/ Ran(last).type \notin Mute /\ trail[last].said \notin AsSuccess

Entries == [pos : Nat, ok : BOOLEAN, said : Sayings]

\* The verdicts on the trail are heeded one by one, not only in front of a
\* backend; a refusal stays visible until another node has run.
ExchangeInv ==
    /\ idx \in DOMAIN Chains /\ fault \in Faults(Chains[idx])
    /\ phase \in {"new", "up", "run", "done", "refused", "lost"}
    /\ pos \in 1 .. End /\ Shaped(ctx)
    /\ trail \in Seq(Entries)
    /\ \A k \in 1 .. Len(trail) : trail[k].pos \in 1 .. Len(Nodes)
    /\ phase \in {"new", "up", "refused"} => trail = << >>
    /\ phase \in {"up", "run"} => Built
    /\ \A k \in 1 .. Len(trail) : Allowed(Ran(k), trail[k].ok, trail[k].said)
    /\ RefusalCodes /\ Refused => ctx.res.status \in Refusals

LEMMA InvInit == Init => ExchangeInv
<1> SUFFICES ASSUME Init PROVE ExchangeInv
    OBVIOUS
<1>1. idx \in DOMAIN Chains /\ fault \in Faults(Chains[idx]) /\ trail = << >> /\ phase = "new"
    BY DEF Init
<1>2. Shaped(ctx)
    BY DEF Init, NewContext, Shaped
<1>3. pos \in 1 .. End
    BY <1>1, PolicyNodes DEF Init, End, IsList
<1>4. trail \in Seq(Entries) /\ Len(trail) = 0
    BY <1>1
<1> QED BY <1>1, <1>2, <1>3, <1>4 DEF ExchangeInv, Refused

LEMMA RunNodeKeepsInv ==
    ASSUME ExchangeInv, RunNode
    PROVE  ExchangeInv'
<1>1. /\ idx' = idx /\ fault' = fault /\ phase' = phase /\ phase = "run" /\ pos # End
      /\ Nodes' = Nodes /\ End' = End
    BY DEF RunNode, Nodes, End
<1>2. IsList(Nodes) /\ \A n \in 1 .. Len(Nodes) : Lists(Nodes[n].cfg) /\ Nodes[n].err \in 0 .. End
    BY PolicyNodes DEF ExchangeInv
<1>3. pos \in 1 .. Len(Nodes) /\ End \in 1 .. End
    BY <1>1, <1>2 DEF ExchangeInv, End, IsList
<1> DEFINE node == Nodes[pos]
<1>4. PICK o \in execute(node, ctx) :
          /\ trail' = Append(trail, [pos |-> pos, ok |-> o.ok, said |-> o.said])
          /\ pos' = IF o.ok THEN pos + 1 ELSE IF node.err = 0 THEN End ELSE node.err
          /\ ctx' = IF o.ok THEN o.ctx
                    ELSE IF node.err = 0 THEN Unhandled(Recorded(o.ctx, pos))
                    ELSE Recorded(o.ctx, pos)
    BY DEF RunNode
<1> DEFINE e == [pos |-> pos, ok |-> o.ok, said |-> o.said]
<1>5. create_plugin(node) /\ Lists(node.cfg)
    BY <1>1, <1>2, <1>3 DEF ExchangeInv, Built
<1>6. /\ IsEnd(o) /\ Allowed(node, o.ok, o.said)
      /\ CodesRefuse(node) /\ node.type \notin Mute => Visible(o)
    <2>1. Shaped(ctx)
        BY DEF ExchangeInv
    <2> QED BY <1>4, <1>5, <2>1, NodeEnds
<1>7. \A c, n : Shaped(c) => Shaped(Recorded(c, n)) /\ Recorded(c, n).res = c.res
    BY DEF Shaped, Recorded
<1>8. \A c : Shaped(c) => Shaped(Unhandled(c)) /\ Unhandled(c).res.status = 500
    BY FineReject DEF Unhandled
<1>9. Shaped(ctx')
    BY <1>4, <1>6, <1>7, <1>8 DEF IsEnd
<1>10. pos' \in 1 .. End
    BY <1>2, <1>3, <1>4, <1>6 DEF End, IsList, IsEnd
<1>11. e \in Entries /\ trail \in Seq(Entries)
    BY <1>3, <1>6 DEF Entries, IsEnd, ExchangeInv
<1>12. /\ trail' \in Seq(Entries) /\ trail' # << >> /\ Len(trail') = Len(trail) + 1
       /\ \A k \in 1 .. Len(trail) : trail'[k] = trail[k]
       /\ trail'[Len(trail')] = e /\ Len(trail) \in Nat
    <2> HIDE DEF e
    <2> QED BY <1>4, <1>11, AppendProperties, LenProperties DEF e
<1>13. \A k \in 1 .. Len(trail') : trail'[k].pos \in 1 .. Len(Nodes')
    BY <1>1, <1>3, <1>12, SMTT(30) DEF ExchangeInv
<1>14. \A k \in 1 .. Len(trail') : Allowed(Nodes[trail'[k].pos], trail'[k].ok, trail'[k].said)
    <2>1. \A k \in 1 .. Len(trail) : Allowed(Nodes[trail[k].pos], trail[k].ok, trail[k].said)
        BY DEF ExchangeInv, Ran
    <2>2. e.pos = pos /\ e.ok = o.ok /\ e.said = o.said
        OBVIOUS
    <2> HIDE DEF e
    <2> QED BY <1>6, <1>12, <2>1, <2>2
<1>15. ASSUME RefusalCodes, Refused' PROVE ctx'.res.status \in Refusals
    <2>1. ~o.ok /\ (node.err = 0 \/ (node.type \notin Mute /\ o.said \notin AsSuccess))
        <3>1. e.pos = pos /\ e.ok = o.ok /\ e.said = o.said
            OBVIOUS
        <3>2. PICK n : n = Len(trail')
            OBVIOUS
        <3> HIDE DEF e
        <3> QED BY <1>1, <1>12, <1>15, <3>1, <3>2 DEF Refused, Ran
    <2>2. CASE node.err = 0
        <3>1. ctx'.res.status = 500
            BY <1>4, <1>6, <1>7, <1>8, <2>1, <2>2 DEF IsEnd
        <3> QED BY <3>1, Codes
    <2>3. CASE node.err # 0
        <3>1. CodesRefuse(node)
            BY <1>3, <1>15, PolicyNodes DEF ExchangeInv
        <3>2. ctx'.res = o.ctx.res
            BY <1>4, <1>6, <1>7, <2>1, <2>3 DEF IsEnd
        <3> QED BY <1>6, <2>1, <2>3, <3>1, <3>2 DEF Visible
    <2> QED BY <2>2, <2>3
<1>16. Built'
    BY <1>1 DEF ExchangeInv, Built, create_plugin
<1> QED BY <1>1, <1>9, <1>10, <1>12, <1>13, <1>14, <1>15, <1>16 DEF ExchangeInv, Ran

\* What leaves the policy, the trail and the node to run next alone, and does not
\* hide a refusal.
LEMMA OthersKeepInv ==
    ASSUME ExchangeInv, UNCHANGED << idx, fault, pos, trail >>, Shaped(ctx'),
           phase' \in {"new", "up", "run", "done", "refused", "lost"},
           phase' \in {"new", "up", "refused"} => phase \in {"new", "up", "refused"},
           phase' \in {"up", "run"} => Built,
           ctx.res.status \in Refusals => ctx'.res.status \in Refusals
    PROVE  ExchangeInv'
<1>1. Nodes' = Nodes /\ End' = End
    BY DEF Nodes, End
<1>2. Built' <=> Built
    BY <1>1 DEF Built, create_plugin
<1>3. Refused' <=> Refused
    BY <1>1 DEF Refused, Ran
<1> QED BY <1>1, <1>2, <1>3 DEF ExchangeInv, Ran

LEMMA InvNext == ExchangeInv /\ [Next]_vars => ExchangeInv'
<1> SUFFICES ASSUME ExchangeInv, [Next]_vars PROVE ExchangeInv'
    OBVIOUS
<1>1. Shaped(ctx) /\ phase \in {"new", "up", "run", "done", "refused", "lost"}
    BY DEF ExchangeInv
<1>2. CASE Compile
    <2>1. phase' \in {"up", "run"} => Built
        BY <1>2, PolicyNodes DEF Compile, Built, ExchangeInv, IsList
    <2>2. /\ UNCHANGED << idx, fault, pos, trail, ctx >> /\ phase' \in {"up", "refused"}
          /\ phase = "new"
        BY <1>2 DEF Compile
    <2> QED BY <1>1, <2>1, <2>2, OthersKeepInv
<1>3. CASE Route
    <2>1. /\ UNCHANGED << idx, fault, pos, trail >> /\ phase' \in {"run", "done"} /\ phase = "up"
          /\ ctx' = ctx \/ ctx' = reject(ctx, "listener", 404)
        BY <1>3 DEF Route
    <2>2. Shaped(ctx') /\ (ctx.res.status \in Refusals => ctx'.res.status \in Refusals)
        BY <1>1, <2>1, FineReject, Codes
    <2>3. Built
        BY <2>1 DEF ExchangeInv
    <2> QED BY <2>1, <2>2, <2>3, OthersKeepInv
<1>4. CASE RunNode
    BY <1>4, RunNodeKeepsInv
<1>5. CASE Deliver
    <2>1. UNCHANGED << idx, fault, pos, trail >> /\ phase' \in {"done", "lost"}
        BY <1>5 DEF Deliver
    <2>2. CASE ctx.res.status = 101
        <3>1. \E s, q : ctx' = StatusOnly(ctx, s) \/ ctx' = Send(StatusOnly(ctx, s), "upstream", q)
            BY <1>5 DEF Deliver
        <3>2. \A s : Shaped(StatusOnly(ctx, s))
            BY <1>1, FineStatus
        <3>3. \A s, q : Shaped(Send(StatusOnly(ctx, s), "upstream", q))
            BY <3>2, KeepsResponse
        <3>4. ctx.res.status \notin Refusals
            BY <2>2 DEF Refusals
        <3> QED BY <2>1, <3>1, <3>2, <3>3, <3>4, OthersKeepInv
    <2>3. CASE ctx.res.status # 101
        <3>1. ctx' = StatusOnly(ctx, IF ctx.res.status = 0 THEN 200 ELSE ctx.res.status)
            BY <1>5, <2>3 DEF Deliver
        <3>2. \A s : Shaped(StatusOnly(ctx, s)) /\ StatusOnly(ctx, s).res.status = s
            BY <1>1, FineStatus
        <3>3. ctx.res.status \in Refusals => ctx.res.status # 0
            BY DEF Refusals
        <3> QED BY <2>1, <3>1, <3>2, <3>3, OthersKeepInv
    <2> QED BY <2>2, <2>3
<1>6. CASE SwapStore \/ Rest \/ UNCHANGED vars
    <2>1. UNCHANGED << idx, fault, pos, trail, ctx, phase >>
        BY <1>6 DEF SwapStore, Rest, vars
    <2>2. phase \in {"up", "run"} => Built
        BY DEF ExchangeInv
    <2> QED BY <1>1, <2>1, <2>2, OthersKeepInv
<1> QED BY <1>2, <1>3, <1>4, <1>5, <1>6 DEF Next

LEMMA Always == Spec => []ExchangeInv
BY InvInit, InvNext, PTL DEF Spec

\* For chains of any nodes with any configuration, any client, any answers of the
\* services and any reload of the consumers: a request that has got to a backend
\* past nodes that all passed it was allowed by every service that was asked,
\* except where allow_degradation is configured (opa.rs, forward_auth.rs,
\* authz_keycloak.rs, wolf_rbac.rs, ldap_auth.rs and the login nodes).
THEOREM VerdictsAreHeeded == Spec => []VerdictsHeeded
<1>1. ExchangeInv => VerdictsHeeded
    <2> SUFFICES ASSUME ExchangeInv, NEW k \in DOMAIN trail,
                        \A i \in 1 .. k - 1 : trail[i].ok, NEW i \in 1 .. k - 1
                 PROVE  \/ trail[i].said \in {"nothing", "allow", "plain"}
                        \/ trail[i].said = "error" /\ MayDegrade(Ran(i))
        BY DEF VerdictsHeeded
    <2>1. trail \in Seq(Entries)
        BY DEF ExchangeInv
    <2>2. k \in 1 .. Len(trail) /\ Len(trail) \in Nat
        BY <2>1, LenProperties
    <2>3. i \in 1 .. Len(trail) /\ trail[i].ok
        BY <2>2
    <2> QED BY <2>3 DEF ExchangeInv, Allowed
<1> QED BY <1>1, Always, PTL

\* For all policies in which no code that is configured for a refusal is that of a
\* success: a client never takes a refusal for a success, whichever node refused,
\* wherever its error edge leads to and whatever ran before (plugins/native/*.rs,
\* engine.rs); a denial whose reply from OPA names a status below 300 goes out with
\* that status, unless the engine's own 500 replaces it (opa.rs, build_deny).
THEOREM FailuresAreVisible ==
    ASSUME RefusalCodes PROVE Spec => []FailureIsVisible
<1>1. ExchangeInv => FailureIsVisible
    <2> SUFFICES ASSUME ExchangeInv, Refused PROVE ctx.res.status >= 300
        BY DEF FailureIsVisible, Refused, Delivered, Mute
    <2>1. ctx.res.status \in Refusals
        BY DEF ExchangeInv
    <2> QED BY <2>1 DEF Refusals
<1> QED BY <1>1, Always, PTL

-----------------------------------------------------------------------------
(* Bodies and the headers that describe them.  Of a context it matters now  *)
(* what the request and the response say of their bodies, and what left.    *)

Whole(c) ==
    /\ {"req", "res", "sent"} \subseteq DOMAIN c
    /\ {"headers", "body"} \subseteq DOMAIN c.req /\ Marks \subseteq DOMAIN c.req.headers
    /\ {"status", "headers", "body"} \subseteq DOMAIN c.res
    /\ Framing \subseteq DOMAIN c.res.headers /\ "enc" \in DOMAIN c.res.body

\* The request is as before, as far as it matters; the response is; it has a
\* body that is not coded under the framing headers of the one before.
SameReq(c, d) ==
    /\ d.req.body = c.req.body /\ d.sent = c.sent
    /\ \A n \in Marks : d.req.headers[n] = c.req.headers[n]
SameRes(c, d) ==
    d.res.body = c.res.body /\ \A n \in Framing : d.res.headers[n] = c.res.headers[n]
OverRes(c, d) ==
    /\ d.res.body = c.res.body \/ d.res.body.enc = << >>
    /\ \A n \in Framing : d.res.headers[n] = c.res.headers[n]

Keeps(c, d)  == Whole(d) /\ SameReq(c, d) /\ SameRes(c, d)
Covers(c, d) == Whole(d) /\ SameReq(c, d) /\ OverRes(c, d)

\* How most nodes end: they pass and change nothing of this, or refuse.
Gentle(c, o) == IF o.ok THEN Keeps(c, o.ctx) ELSE Covers(c, o.ctx)

LEMMA KeepsAll ==
    ASSUME NEW c, Whole(c)
    PROVE  Keeps(c, c) /\ Covers(c, c)
BY DEF Keeps, Covers, SameReq, SameRes, OverRes

LEMMA KeepsTwice ==
    ASSUME NEW c, NEW d, NEW e, Keeps(c, d)
    PROVE  /\ Keeps(d, e) => Keeps(c, e)
           /\ Covers(d, e) => Covers(c, e)
BY DEF Keeps, Covers, SameReq, SameRes, OverRes

\* All that a node changes is somewhere else.
LEMMA KeepsElsewhere ==
    ASSUME NEW c, Whole(c), NEW d, DOMAIN d = DOMAIN c,
           d.res = c.res, d.sent = c.sent, d.req = c.req
    PROVE  Keeps(c, d)
BY DEF Keeps, Whole, SameReq, SameRes

LEMMA KeepsHeaders ==
    ASSUME NEW c, Whole(c), NEW d, DOMAIN d = DOMAIN c, d.res = c.res, d.sent = c.sent,
           NEW h, d.req = [c.req EXCEPT !.headers = h], DOMAIN h = DOMAIN c.req.headers,
           \A n \in Marks : h[n] = c.req.headers[n]
    PROVE  Keeps(c, d)
BY DEF Keeps, Whole, SameReq, SameRes

LEMMA KeepsMark ==
    ASSUME NEW c, Whole(c), NEW n, n \notin Marks, NEW v
    PROVE  Keeps(c, [c EXCEPT !.req.headers[n] = v])
BY DEF Keeps, Whole, SameReq, SameRes

LEMMA KeepsRemoved ==
    ASSUME NEW c, Whole(c), NEW gone, Spares(gone)
    PROVE  Keeps(c, [c EXCEPT !.req.headers = remove_ci(@, gone)])
BY DEF Keeps, Whole, SameReq, SameRes, remove_ci, Spares

LEMMA KeepsRequest ==
    ASSUME NEW c, Whole(c)
    PROVE  /\ \A u : Keeps(c, attach_consumer(c, u)) /\ Keeps(c, WithUser(c, u))
           /\ \A p, v : Keeps(c, Hide(c, p, v))
           /\ \A n, g : Spares(n) => Keeps(c, apply_allow(c, n, g))
           /\ Keeps(c, Unclaimed(c)) /\ Keeps(c, strip_basic(c))
           /\ \A cfg, v : Keeps(c, strip_headers(cfg, c, v))
           /\ \A cfg, v : KeyHeader(cfg) \notin Marks => Keeps(c, strip_credential(cfg, c, v))
           /\ \A cfg : Keeps(c, UserInfo(cfg, c)) /\ \A t : Keeps(c, attach(cfg, c, t))
           /\ \A u : Keeps(c, attach_session(c, u)) /\ Keeps(c, attach_user(c, u))
<1>1. \A u : Keeps(c, attach_consumer(c, u))
    <2> TAKE u
    <2> DEFINE h == [c.req.headers EXCEPT
               !["x-consumer-username"] = u.name,
               !["x-consumer-custom-id"] = IF u.labels["custom_id"] = Absent
                      THEN c.req.headers["x-consumer-custom-id"] ELSE u.labels["custom_id"]]
               d == attach_consumer(c, u)
    <2>1. DOMAIN d = DOMAIN c /\ d.res = c.res /\ d.sent = c.sent
        BY DEF attach_consumer, Whole
    <2>2. d.req = [c.req EXCEPT !.headers = h]
        BY DEF attach_consumer, Whole
    <2>3. DOMAIN h = DOMAIN c.req.headers /\ \A n \in Marks : h[n] = c.req.headers[n]
        BY DEF Whole, Marks, Framing
    <2> HIDE DEF h, d
    <2>4. Keeps(c, d)
        BY <2>1, <2>2, <2>3, KeepsHeaders
    <2> QED BY <2>4 DEF d
<1>2. ASSUME NEW d, Whole(d) PROVE \A u : Keeps(d, WithUser(d, u))
    BY <1>2 DEF WithUser, Keeps, Whole, SameReq, SameRes
<1>3. ASSUME NEW d, Whole(d) PROVE \A p, v : Keeps(d, Hide(d, p, v))
    BY <1>3 DEF Hide, Keeps, Whole, SameReq, SameRes
<1>4. ASSUME NEW n, NEW g, Spares(n) PROVE Keeps(c, apply_allow(c, n, g))
    BY <1>4 DEF apply_allow, Keeps, Whole, SameReq, SameRes, Spares
<1>5. ASSUME NEW n, NEW v, NEW d, Spares(n), Whole(d)
      PROVE  \A p : Keeps(d, Hide([d EXCEPT !.req.headers = remove_ci(@, n)], p, v))
    <2> DEFINE e == [d EXCEPT !.req.headers = remove_ci(@, n)]
    <2>1. Keeps(d, e)
        BY <1>5, KeepsRemoved
    <2> HIDE DEF e
    <2>2. \A p : Keeps(e, Hide(e, p, v))
        BY <2>1, <1>3 DEF Keeps
    <2> QED BY <2>1, <2>2, KeepsTwice DEF e
<1>6. Keeps(c, Unclaimed(c))
    <2>1. Spares({"x-userinfo"})
        BY DEF Spares, Marks, Framing
    <2> QED BY <2>1, <1>5, KeepsRemoved DEF Unclaimed
<1>7. Keeps(c, strip_basic(c))
    <2>1. Spares({"authorization"})
        BY DEF Spares, Marks, Framing
    <2> QED BY <2>1, <1>5 DEF strip_basic
<1>8. \A cfg, v : Keeps(c, strip_headers(cfg, c, v))
    <2> TAKE cfg, v
    <2> DEFINE gone == (IF Opt(cfg, "keep_headers", FALSE) THEN {} ELSE {"x-hmac-signature"}) \cup
                       (IF Hides(cfg) THEN {"authorization"} ELSE {})
    <2>1. Spares(gone)
        BY DEF Spares, Marks, Framing
    <2>2. strip_headers(cfg, c, v) = Hide([c EXCEPT !.req.headers = remove_ci(@, gone)], gone, v)
        BY DEF strip_headers
    <2> HIDE DEF gone
    <2> QED BY <2>1, <2>2, <1>5
<1>9. ASSUME NEW cfg, NEW v, KeyHeader(cfg) \notin Marks PROVE Keeps(c, strip_credential(cfg, c, v))
    <2> DEFINE d == [c EXCEPT !.req.headers = remove_ci(@, {KeyHeader(cfg)}),
                              !.req.query = remove_ci(@, {Opt(cfg, "query_param", Absent)})]
    <2>1. Keeps(c, d)
        BY <1>9 DEF Keeps, Whole, SameReq, SameRes, remove_ci
    <2>2. \E p : strip_credential(cfg, c, v) = Hide(d, p, v)
        BY DEF strip_credential
    <2> HIDE DEF d
    <2> QED BY <2>1, <2>2, <1>3, KeepsTwice DEF Keeps
<1>10. ASSUME NEW cfg PROVE Keeps(c, UserInfo(cfg, c)) /\ \A t : Keeps(c, attach(cfg, c, t))
    <2>1. "x-userinfo" \notin Marks /\ "authorization" \notin Marks /\ "x-access-token" \notin Marks
        BY DEF Marks, Framing
    <2>2. Keeps(c, UserInfo(cfg, c))
        <3>1. Keeps(c, [c EXCEPT !.req.headers["x-userinfo"] = "provider's"])
            BY <2>1, KeepsMark
        <3> QED BY <3>1, KeepsAll DEF UserInfo
    <2>3. PICK d : d = UserInfo(cfg, c) /\ Keeps(c, d)
        BY <2>2
    <2> DEFINE by(n, t) == [d EXCEPT !.req.headers[n] = t]
    <2>4. \A t : attach(cfg, c, t) \in {d, by("authorization", t), by("x-access-token", t)}
        BY <2>3 DEF attach
    <2>5. \A t : Keeps(d, by("authorization", t)) /\ Keeps(d, by("x-access-token", t))
        BY <2>1, <2>3, KeepsMark DEF Keeps
    <2> HIDE DEF by
    <2> QED BY <2>2, <2>3, <2>4, <2>5, KeepsTwice
<1>11. \A u : Keeps(c, attach_session(c, u)) /\ Keeps(c, attach_user(c, u))
    <2>1. "x-cas-user" \notin Marks /\ "authorization" \notin Marks
        BY DEF Marks, Framing
    <2>2. \A v : Keeps(c, [c EXCEPT !.req.headers["authorization"] = v])
                 /\ Keeps(c, [c EXCEPT !.req.headers["x-cas-user"] = v])
        BY <2>1, KeepsMark
    <2>3. \A d, u : Keeps(c, d) => Keeps(c, WithUser(d, u))
        BY <1>2, KeepsTwice DEF Keeps
    <2> QED BY <2>2, <2>3 DEF attach_session, attach_user
<1> QED BY <1>1, <1>2, <1>3, <1>4, <1>6, <1>7, <1>8, <1>9, <1>10, <1>11

\* Refusals, and the few changes to a response that leave its framing alone.
LEMMA CoversReject ==
    ASSUME NEW c, NEW d, Keeps(c, d), NEW s
    PROVE  /\ \A by : Covers(c, reject(d, by, s))
           /\ \A b : b.enc = << >> /\ "enc" \in DOMAIN b => Covers(c, Answered(d, s, b))
           /\ Keeps(c, StatusOnly(d, s)) /\ Covers(c, StatusOnly(d, s))
<1>0. Whole(d)
    BY DEF Keeps
<1>1. ASSUME NEW by PROVE Covers(d, reject(d, by, s))
    <2> DEFINE e == reject(d, by, s)
    <2>1. /\ DOMAIN e = DOMAIN d /\ e.req = d.req /\ e.sent = d.sent
          /\ DOMAIN e.res = DOMAIN d.res /\ e.res.body = Body(by, "json")
          /\ e.res.headers = [d.res.headers EXCEPT !["content-type"] = "json"]
        BY <1>0 DEF reject, Whole
    <2>2. Body(by, "json").enc = << >> /\ "enc" \in DOMAIN Body(by, "json")
        BY DEF Body, SizedBody
    <2> HIDE DEF e
    <2>3. Whole(e) /\ SameReq(d, e)
        BY <1>0, <2>1, <2>2 DEF Whole, SameReq
    <2>4. OverRes(d, e)
        BY <1>0, <2>1, <2>2 DEF Whole, OverRes, Framing
    <2> QED BY <2>3, <2>4 DEF Covers, e
<1>2. \A b : b.enc = << >> /\ "enc" \in DOMAIN b => Covers(d, Answered(d, s, b))
    BY <1>0 DEF Answered, Covers, Whole, SameReq, OverRes
<1>3. Keeps(d, StatusOnly(d, s)) /\ Covers(d, StatusOnly(d, s))
    BY <1>0 DEF StatusOnly, Keeps, Covers, Whole, SameReq, SameRes, OverRes
<1> QED BY <1>1, <1>2, <1>3, KeepsTwice

LEMMA PlainBodies ==
    /\ \A by, fmt : Body(by, fmt).enc = << >> /\ "enc" \in DOMAIN Body(by, fmt)
    /\ NoBody.enc = << >> /\ "enc" \in DOMAIN NoBody
BY DEF Body, NoBody, SizedBody

LEMMA CoversPut ==
    ASSUME NEW c, NEW d, Covers(c, d), NEW these, Framing \cap DOMAIN these = {}
    PROVE  Covers(c, PutHeaders(d, these))
<1>1. Whole(d)
    BY DEF Covers
<1> QED BY <1>1 DEF PutHeaders, Put, Covers, Whole, SameReq, OverRes

\* The ways in which gentle nodes end.
LEMMA GentleOk ==
    ASSUME NEW c, NEW d, Keeps(c, d)
    PROVE  Gentle(c, Ok(d)) /\ \A a : Gentle(c, Said(Ok(d), a))
BY DEF Gentle, Ok, Said

LEMMA GentleErr ==
    ASSUME NEW c, NEW d, Covers(c, d)
    PROVE  Gentle(c, Err(d)) /\ \A a : Gentle(c, Said(Err(d), a))
BY DEF Gentle, Err, Said

LEMMA GentleReject ==
    ASSUME NEW c, NEW d, Keeps(c, d), NEW by, NEW s
    PROVE  /\ Gentle(c, Err(reject(d, by, s))) /\ \A a : Gentle(c, Said(Err(reject(d, by, s)), a))
           /\ Gentle(c, Err(StatusOnly(d, s))) /\ \A a : Gentle(c, Said(Err(StatusOnly(d, s)), a))
BY CoversReject, GentleErr

LEMMA GentleAnswer ==
    ASSUME NEW c, NEW d, Keeps(c, d), NEW s, NEW b, b.enc = << >>, "enc" \in DOMAIN b
    PROVE  Gentle(c, Err(Answered(d, s, b))) /\ \A a : Gentle(c, Said(Err(Answered(d, s, b)), a))
BY CoversReject, GentleErr

-----------------------------------------------------------------------------
(* Credentials. *)

LEMMA GentleAnonymous ==
    ASSUME NEW c, Whole(c), NEW cfg, NEW users, NEW by, NEW s,
           NEW o \in Anonymous(cfg, c, users, reject(c, by, s))
    PROVE  Gentle(c, o)
<1>1. o = Err(reject(c, by, s)) \/ \E u : o = Ok(attach_consumer(c, u))
    BY DEF Anonymous
<1>2. \A u : Keeps(c, attach_consumer(c, u))
    BY KeepsRequest
<1> QED BY <1>1, <1>2, KeepsAll, GentleOk, GentleReject

LEMMA GentleKeyAuth ==
    ASSUME NEW c, Whole(c), NEW cfg, NEW users, KeyHeader(cfg) \notin Marks,
           NEW o \in key_auth_execute(cfg, c, users)
    PROVE  Gentle(c, o)
<1> DEFINE clean(k) == IF Hides(cfg) THEN strip_credential(cfg, c, k) ELSE c
<1>1. \A k : Keeps(c, clean(k))
    BY KeepsRequest, KeepsAll
<1>2. \/ \E k : o = Ok(clean(k))
      \/ \E k, u : o = Ok(attach_consumer(clean(k), u))
      \/ o \in Anonymous(cfg, c, users, reject(c, "key-auth", 401))
    BY DEF key_auth_execute
<1> HIDE DEF clean
<1>3. \A k, u : Keeps(c, attach_consumer(clean(k), u))
    <2> TAKE k, u
    <2>1. Keeps(clean(k), attach_consumer(clean(k), u))
        BY <1>1, KeepsRequest DEF Keeps
    <2> QED BY <2>1, <1>1, KeepsTwice
<1> QED BY <1>1, <1>2, <1>3, GentleOk, GentleAnonymous

LEMMA GentleBasicAuth ==
    ASSUME NEW c, Whole(c), NEW cfg, NEW users, NEW o \in basic_auth_execute(cfg, c, users)
    PROVE  Gentle(c, o)
<1> DEFINE clean == IF Hides(cfg) THEN strip_basic(c) ELSE c
<1>1. Keeps(c, clean)
    BY KeepsRequest, KeepsAll
<1>2. \/ \E n : o = Ok(WithUser(clean, n))
      \/ \E u, n : o = Ok(WithUser(attach_consumer(clean, u), n))
      \/ \E p \in Anonymous(cfg, c, users, reject(c, "basic-auth", 401)) :
            o = IF p.ok THEN [p EXCEPT !.ctx = WithUser(@, @.msg["consumer.name"])] ELSE p
    BY DEF basic_auth_execute
<1> HIDE DEF clean
<1>3. ASSUME NEW d, Keeps(c, d)
      PROVE  \A u : Keeps(c, WithUser(d, u)) /\ Keeps(c, attach_consumer(d, u))
    <2>1. \A u : Keeps(d, WithUser(d, u)) /\ Keeps(d, attach_consumer(d, u))
        BY <1>3, KeepsRequest DEF Keeps
    <2> QED BY <1>3, <2>1, KeepsTwice
<1>4. ASSUME NEW p \in Anonymous(cfg, c, users, reject(c, "basic-auth", 401)), p.ok, NEW n
      PROVE  Gentle(c, [p EXCEPT !.ctx = WithUser(@, n)])
    <2>1. PICK u : p = Ok(attach_consumer(c, u))
        BY <1>4 DEF Anonymous, Err
    <2> DEFINE q == [p EXCEPT !.ctx = WithUser(@, n)]
    <2>2. q.ok = TRUE /\ q.ctx = WithUser(attach_consumer(c, u), n)
        BY <2>1 DEF Ok
    <2>3. Keeps(c, WithUser(attach_consumer(c, u), n))
        BY <1>3, KeepsAll
    <2> QED BY <2>2, <2>3 DEF Gentle
<1>5. \A n : Keeps(c, WithUser(clean, n)) /\ \A u : Keeps(c, WithUser(attach_consumer(clean, u), n))
    BY <1>1, <1>3
<1> QED BY <1>2, <1>4, <1>5, GentleOk, GentleAnonymous

LEMMA GentleJwtAuth ==
    ASSUME NEW c, Whole(c), NEW cfg, NEW users, NEW o \in jwt_auth_execute(cfg, c, users)
    PROVE  Gentle(c, o)
<1>1. \/ o = Err(reject(c, "jwt-auth", 401))
      \/ \E n : o = Ok(WithUser(c, n)) \/ \E u : o = Ok(attach_consumer(WithUser(c, n), u))
    BY DEF jwt_auth_execute
<1>2. \A n : Keeps(c, WithUser(c, n))
    BY KeepsRequest
<1>3. \A n, u : Keeps(c, attach_consumer(WithUser(c, n), u))
    <2> TAKE n, u
    <2>1. Keeps(WithUser(c, n), attach_consumer(WithUser(c, n), u))
        BY <1>2, KeepsRequest DEF Keeps
    <2> QED BY <2>1, <1>2, KeepsTwice
<1> QED BY <1>1, <1>2, <1>3, KeepsAll, GentleOk, GentleReject

LEMMA GentleHmacAuth ==
    ASSUME NEW c, Whole(c), NEW cfg, NEW users, NEW o \in hmac_auth_execute(cfg, c, users)
    PROVE  Gentle(c, o)
<1> DEFINE clean == strip_headers(cfg, c, retrieve_params(c))
<1>1. Keeps(c, clean)
    BY KeepsRequest
<1>2. \/ o = Ok(clean) \/ \E u : o = Ok(attach_consumer(clean, u))
      \/ o = Err(reject(c, "hmac-auth", 401))
      \/ o \in Anonymous(cfg, c, users, reject(c, "hmac-auth", 401))
    BY DEF hmac_auth_execute
<1> HIDE DEF clean
<1>3. \A u : Keeps(c, attach_consumer(clean, u))
    <2> TAKE u
    <2>1. Keeps(clean, attach_consumer(clean, u))
        BY <1>1, KeepsRequest DEF Keeps
    <2> QED BY <2>1, <1>1, KeepsTwice
<1> QED BY <1>1, <1>2, <1>3, KeepsAll, GentleOk, GentleReject, GentleAnonymous

LEMMA GentleSub ==
    ASSUME NEW c, Whole(c), NEW users, NEW sub, sub.type \in SubTypes,
           KeyHeader(sub.cfg) \notin Marks, NEW o \in sub_execute(sub, c, users)
    PROVE  Gentle(c, o)
BY GentleKeyAuth, GentleBasicAuth, GentleJwtAuth, GentleHmacAuth DEF sub_execute, SubTypes

\* Nothing gets among the outcomes of the attempts that no attempt brings there.
LEMMA AttemptsInduct ==
    ASSUME NEW f, NEW n \in Nat, NEW subs, NEW c, NEW users, IsAttempts(f, n, subs, c, users),
           NEW B, Err(c) \notin B,
           \A k \in 1 .. n : \A q \in f[k - 1] \ B : \A p \in f[k] :
               ~q.ok /\ p \in sub_execute(subs[k], NextAttempt(q, c), users) => p \notin B
    PROVE  f[n] \cap B = {}
<1> DEFINE D == {k \in 0 .. n : f[k] \cap B # {}}
<1> SUFFICES ASSUME D # {} PROVE FALSE
    <2>1. n \in 0 .. n
        OBVIOUS
    <2> QED BY <2>1
<1>1. PICK k \in D : \A j \in D : k <= j
    <2>1. D \in SUBSET Nat
        OBVIOUS
    <2> QED BY <2>1, LeastNatural
<1>2. PICK p \in f[k] : p \in B
    BY <1>1
<1>3. CASE k = 0
    <2>1. p = Err(c)
        BY <1>2, <1>3 DEF IsAttempts
    <2> QED BY <2>1, <1>2
<1>4. CASE k # 0
    <2>1. k - 1 \in 0 .. n /\ k - 1 \notin D /\ k \in 1 .. n
        BY <1>1, <1>4
    <2>2. p \in Retried(subs, c, users, k, f[k - 1])
        BY <1>2, <1>4, <2>1 DEF IsAttempts
    <2>3. PICK q \in f[k - 1] :
              p \in IF q.ok THEN {q} ELSE sub_execute(subs[k], NextAttempt(q, c), users)
        BY <2>2 DEF Retried
    <2>4. q \notin B
        BY <2>1
    <2> QED BY <1>2, <2>1, <2>3, <2>4
<1> QED BY <1>3, <1>4

\* A failed attempt covers the response, and the next one starts from the old one.
LEMMA GentleMultiAuth ==
    ASSUME NEW c, Whole(c), NEW cfg, NEW users, IsList(cfg.auth_plugins),
           multi_auth_from_config(cfg),
           \A i \in DOMAIN cfg.auth_plugins : KeyHeader(cfg.auth_plugins[i].cfg) \notin Marks,
           NEW o \in multi_auth_execute(cfg, c, users)
    PROVE  Gentle(c, o)
<1> DEFINE subs == cfg.auth_plugins
           n == Len(subs)
           attempt == CHOOSE f : IsAttempts(f, n, subs, c, users)
<1>1. n \in Nat /\ IsAttempts(attempt, n, subs, c, users)
    BY AttemptsExist DEF IsList
<1>2. \A i \in 1 .. n : subs[i].type \in SubTypes /\ KeyHeader(subs[i].cfg) \notin Marks
    BY DEF multi_auth_from_config, sub_created, SubTypes, IsList
<1>3. ASSUME NEW p, Gentle(c, p), ~p.ok PROVE Keeps(c, NextAttempt(p, c))
    BY <1>3 DEF Gentle, NextAttempt, Keeps, Covers, Whole, SameReq, SameRes
<1> DEFINE B == {p \in UNION {attempt[k] : k \in 0 .. n} : ~Gentle(c, p)}
<1>4. Err(c) \notin B
    BY KeepsAll, GentleErr
<1>5. ASSUME NEW k \in 1 .. n, NEW q \in attempt[k - 1] \ B, NEW p \in attempt[k],
             ~q.ok, p \in sub_execute(subs[k], NextAttempt(q, c), users)
      PROVE  p \notin B
    <2>1. Gentle(c, q)
        <3>1. k - 1 \in 0 .. n
            BY <1>1
        <3> QED BY <1>5, <3>1
    <2>2. PICK d : d = NextAttempt(q, c) /\ Keeps(c, d)
        BY <1>3, <1>5, <2>1
    <2>3. Gentle(d, p)
        BY <1>2, <1>5, <2>2, GentleSub DEF Keeps
    <2>4. Gentle(c, p)
        BY <2>2, <2>3, KeepsTwice DEF Gentle
    <2> QED BY <2>4
<1>6. \A p \in attempt[n] : Gentle(c, p)
    <2>1. n \in 0 .. n
        BY <1>1
    <2> HIDE DEF attempt, n, subs
    <2>2. attempt[n] \cap B = {}
        <3> HIDE DEF B
        <3> QED BY <1>1, <1>4, <1>5, AttemptsInduct
    <2> QED BY <2>1, <2>2
<1>7. multi_auth_execute(cfg, c, users) =
          {IF p.ok THEN p ELSE Err(reject(NextAttempt(p, c), "multi-auth", 401)) : p \in attempt[n]}
    BY DEF multi_auth_execute, IsAttempts, Retried
<1>8. PICK p \in attempt[n] :
          o = IF p.ok THEN p ELSE Err(reject(NextAttempt(p, c), "multi-auth", 401))
    BY <1>7
<1>9. Gentle(c, p)
    BY <1>6
<1>10. ~p.ok => Gentle(c, Err(reject(NextAttempt(p, c), "multi-auth", 401)))
    BY <1>3, <1>9, GentleReject
<1> QED BY <1>8, <1>9, <1>10

LEMMA GentleCredential ==
    ASSUME NEW c, Whole(c), NEW users, NEW node, node.type \in CredentialTypes,
           credential_created(node), KeysSpared(node.cfg),
           node.type = "multi-auth" => IsList(node.cfg.auth_plugins),
           NEW o \in credential_execute(node, c, users)
    PROVE  Gentle(c, o)
<1>0. Keeps(c, c)
    BY KeepsAll
<1> DEFINE put(n, t) == [c EXCEPT !.req.headers[n] = t]
<1>1. \A t : Keeps(c, put("authorization", t)) /\ Keeps(c, put("x-consumer-tier", t))
    <2>1. "authorization" \notin Marks /\ "x-consumer-tier" \notin Marks
        BY DEF Marks, Framing
    <2> QED BY <2>1, KeepsMark
<1>2. CASE node.type \in SubTypes
    <2>1. o \in sub_execute(node, c, users)
        BY <1>2 DEF credential_execute, SubTypes
    <2> QED BY <1>2, <2>1, GentleSub DEF KeysSpared
<1>3. CASE node.type = "multi-auth"
    <2>1. multi_auth_from_config(node.cfg) /\ o \in multi_auth_execute(node.cfg, c, users)
        BY <1>3 DEF credential_execute, credential_created, SubTypes
    <2>2. Has(node.cfg, "auth_plugins")
        BY <2>1 DEF multi_auth_from_config, Required
    <2> QED BY <1>3, <2>1, <2>2, GentleMultiAuth DEF KeysSpared
<1>4. CASE node.type = "jwe-decrypt"
    <2>1. o \in jwe_decrypt_execute(node.cfg, c, users)
        BY <1>4 DEF credential_execute, SubTypes
    <2>2. \/ o = Err(reject(c, "jwe-decrypt", 401)) \/ o = Ok(c)
          \/ \E t : o = Ok(put("authorization", t))
        BY <2>1 DEF jwe_decrypt_execute
    <2> HIDE DEF put
    <2> QED BY <1>0, <1>1, <2>2, GentleOk, GentleReject
<1>5. CASE node.type = "ldap-auth"
    <2>1. o \in ldap_auth_execute(c)
        BY <1>5 DEF credential_execute, SubTypes
    <2>2. \/ o = Err(reject(c, "ldap-auth", 401))
          \/ \E n : o = Said(Ok(WithUser(c, n)), "allow")
          \/ \E a : o = Said(Err(StatusOnly(c, 401)), a)
                    \/ o = Said(Err(reject(c, "ldap-auth", 401)), a)
        BY <2>1 DEF ldap_auth_execute, bind
    <2>3. \A n : Keeps(c, WithUser(c, n))
        BY KeepsRequest
    <2> QED BY <1>0, <2>2, <2>3, GentleOk, GentleReject
<1>6. CASE node.type = "attach-consumer-label"
    <2>1. o \in attach_consumer_label_execute(c)
        BY <1>6 DEF credential_execute, SubTypes
    <2>2. o = Ok(c) \/ \E t : o = Ok(put("x-consumer-tier", t))
        BY <2>1 DEF attach_consumer_label_execute
    <2> HIDE DEF put
    <2> QED BY <1>0, <1>1, <2>2, GentleOk
<1> QED BY <1>2, <1>3, <1>4, <1>5, <1>6 DEF CredentialTypes

-----------------------------------------------------------------------------
(* Authorization and identity providers. *)

LEMMA GentleRestriction ==
    ASSUME NEW c, Whole(c), NEW node, node.type \in AuthorizationTypes \ {"opa", "forward-auth"},
           NEW o \in authorization_execute(node, c)
    PROVE  Gentle(c, o)
<1> DEFINE cfg == node.cfg
<1>0. Keeps(c, c)
    BY KeepsAll
<1>g. ASSUME o = Ok(c) \/ \E by, s : o = Err(reject(c, by, s))
      PROVE  Gentle(c, o)
    BY <1>0, <1>g, GentleOk, GentleReject
<1>1. CASE node.type = "acl"
    BY <1>1, <1>g DEF authorization_execute, acl_execute, Guard
<1>2. CASE node.type = "consumer-restriction"
    BY <1>2, <1>g DEF authorization_execute, consumer_restriction_execute, Guard
<1>3. CASE node.type = "authz-casbin"
    BY <1>3, <1>g DEF authorization_execute, authz_casbin_execute, Guard
<1>4. CASE node.type = "ip-restriction"
    BY <1>4, <1>g DEF authorization_execute, ip_restriction_execute, Guard
<1>5. CASE node.type = "ua-restriction"
    <2>1. o \in ua_restriction_execute(cfg, c)
        BY <1>5 DEF authorization_execute
    <2>2. o = Ok(c) \/ o = Err(reject(c, "ua-restriction", Code(cfg)))
        BY <2>1 DEF ua_restriction_execute, Guard
    <2> QED BY <2>2, <1>g
<1>6. CASE node.type = "referer-restriction"
    <2>1. o \in referer_restriction_execute(cfg, c)
        BY <1>6 DEF authorization_execute
    <2>2. o = Ok(c) \/ o = Err(reject(c, "referer-restriction", 403))
        BY <2>1 DEF referer_restriction_execute, Guard
    <2> QED BY <2>2, <1>g
<1>7. CASE node.type = "uri-blocker"
    <2>1. o = Ok(c) \/ o = Err(reject(c, "uri-blocker", Code(cfg)))
          \/ o = Err(Answered(c, Code(cfg), NoBody))
        BY <1>7 DEF authorization_execute, uri_blocker_execute
    <2> QED BY <1>0, <1>g, <2>1, PlainBodies, GentleAnswer
<1>8. CASE node.type = "csrf"
    <2>1. o = Ok(set_cookie(cfg, c)) \/ o = Err(reject(c, "csrf", 401))
        BY <1>8 DEF authorization_execute, csrf_execute
    <2>2. Keeps(c, set_cookie(cfg, c))
        BY DEF set_cookie, Keeps, Whole, SameReq, SameRes, Framing
    <2> QED BY <1>g, <2>1, <2>2, GentleOk
<1>9. CASE node.type = "authz-keycloak"
    <2>1. \/ o = Ok(c) \/ o = Err(reject(c, "authz-keycloak", 403)) \/ o = Said(Ok(c), "allow")
          \/ \E a : o = Said(Err(reject(c, "authz-keycloak", 403)), a)
        BY <1>9 DEF authorization_execute, authz_keycloak_execute, Guard
    <2> QED BY <1>0, <2>1, GentleOk, GentleReject
<1>10. CASE node.type = "wolf-rbac"
    <2> DEFINE by == [c EXCEPT !.req.headers["x-userid"] = "wolf"]
               named == WithUser(by, "wolf")
    <2>1. Keeps(c, by)
        <3>1. "x-userid" \notin Marks
            BY DEF Marks, Framing
        <3> QED BY <3>1, KeepsMark
    <2>2. Keeps(c, named)
        <3> HIDE DEF by
        <3> QED BY <2>1, KeepsRequest, KeepsTwice DEF Keeps
    <2>3. \/ o = Err(reject(c, "wolf-rbac", 401)) \/ o = Said(Err(StatusOnly(c, 500)), "error")
          \/ \E d \in {c, named} : \/ o = Said(Ok(d), "allow")
                                   \/ o = Said(Err(reject(d, "wolf-rbac", 401)), "deny")
        BY <1>10 DEF authorization_execute, wolf_rbac_execute
    <2> HIDE DEF named
    <2> QED BY <1>0, <2>2, <2>3, GentleOk, GentleReject
<1> QED BY <1>1, <1>2, <1>3, <1>4, <1>5, <1>6, <1>7, <1>8, <1>9, <1>10 DEF AuthorizationTypes

-----------------------------------------------------------------------------
(* What a node must see to. *)

\* The request as it is and as it was sent says truly what its body is, except
\* where a function may be sent anything.
Honest(c, any) ==
    /\ Framed(c.req.headers, c.req.body)
    /\ \A s \in c.sent : Framed(s.req.headers, s.req.body) \/ (any /\ s.to = "function")

Accepted(c) == c.req.headers["accept-encoding"]
Sane(c)     == Accepted(c) # Absent => {Absent, "identity"} \cap Accepted(c) = {}
Ready(c, any) == Whole(c) /\ Honest(c, any) /\ Sane(c)

\* The response says nothing of its body, which is plain; what it says is true and
\* can be read.
Fresh(c)   == c.res.body.enc = << >> /\ \A n \in Framing : c.res.headers[n] = Absent
Legible(c) ==
    /\ Framed(c.res.headers, c.res.body)
    /\ c.res.headers["content-encoding"] \notin {Absent, "identity"} =>
          Accepted(c) # Absent /\ c.res.headers["content-encoding"] \in Accepted(c)

Onward(c, d, any) == Whole(d) /\ Honest(d, any) /\ Accepted(d) = Accepted(c)

Mild(c, o, any) ==
    /\ Onward(c, o.ctx, any)
    /\ Fresh(c) => Fresh(o.ctx)
    /\ o.ok /\ Legible(c) => Legible(o.ctx)

LEMMA FreshLegible == \A c : Fresh(c) => Legible(c)
BY DEF Fresh, Legible, Framed, Framing

LEMMA OnwardSame ==
    ASSUME NEW c, NEW any, Ready(c, any), NEW d, Whole(d), SameReq(c, d)
    PROVE  Onward(c, d, any)
<1>1. /\ d.req.body = c.req.body /\ d.sent = c.sent
      /\ d.req.headers["content-length"] = c.req.headers["content-length"]
      /\ d.req.headers["content-encoding"] = c.req.headers["content-encoding"]
      /\ d.req.headers["accept-encoding"] = c.req.headers["accept-encoding"]
    BY DEF SameReq, Marks, Framing
<1> QED BY <1>1 DEF Onward, Ready, Honest, Framed, Accepted

LEMMA LegibleSame ==
    ASSUME NEW c, NEW d, SameRes(c, d), Accepted(d) = Accepted(c)
    PROVE  (Fresh(c) => Fresh(d)) /\ (Legible(c) => Legible(d))
<1>1. /\ d.res.body = c.res.body
      /\ d.res.headers["content-length"] = c.res.headers["content-length"]
      /\ d.res.headers["content-encoding"] = c.res.headers["content-encoding"]
    BY DEF SameRes, Framing
<1> QED BY <1>1 DEF Fresh, Legible, Framed, Framing

LEMMA FreshCovered ==
    ASSUME NEW c, NEW d, OverRes(c, d), Fresh(c)
    PROVE  Fresh(d)
BY DEF OverRes, Fresh

LEMMA GentleIsMild ==
    ASSUME NEW c, NEW any, Ready(c, any), NEW o, Gentle(c, o)
    PROVE  Mild(c, o, any)
<1>1. Whole(o.ctx) /\ SameReq(c, o.ctx)
    BY DEF Gentle, Keeps, Covers
<1>2. Onward(c, o.ctx, any)
    BY <1>1, OnwardSame
<1>3. CASE o.ok
    <2>1. SameRes(c, o.ctx)
        BY <1>3 DEF Gentle, Keeps
    <2> QED BY <1>2, <2>1, LegibleSame DEF Mild, Onward
<1>4. CASE ~o.ok
    <2>1. OverRes(c, o.ctx)
        BY <1>4 DEF Gentle, Covers
    <2> QED BY <1>2, <1>4, <2>1, FreshCovered DEF Mild
<1> QED BY <1>3, <1>4

LEMMA SendKeeps ==
    ASSUME NEW c, NEW any, Ready(c, any), NEW to, NEW q,
           Framed(q.headers, q.body) \/ (any /\ to = "function")
    PROVE  /\ Ready(Send(c, to, q), any) /\ Onward(c, Send(c, to, q), any)
           /\ Send(c, to, q).res = c.res /\ Send(c, to, q).req = c.req
<1> DEFINE d == Send(c, to, q)
<1>1. /\ d.res = c.res /\ d.req = c.req /\ DOMAIN d = DOMAIN c
      /\ d.sent = c.sent \cup {[to |-> to, req |-> q, hidden |-> c.hidden]}
    BY DEF Send, Ready, Whole
<1> HIDE DEF d
<1>2. Whole(d) /\ Sane(d) /\ Accepted(d) = Accepted(c)
    BY <1>1 DEF Ready, Whole, Sane, Accepted
<1>3. Honest(d, any)
    BY <1>1 DEF Ready, Honest
<1> QED BY <1>1, <1>2, <1>3 DEF Ready, Onward, d

\* A node that sends something first is as mild as it is after that.
LEMMA MildAfter ==
    ASSUME NEW c, NEW d, NEW any, Onward(c, d, any), d.res = c.res, NEW o, Mild(d, o, any)
    PROVE  Mild(c, o, any)
<1>1. (Fresh(c) => Fresh(d)) /\ (Legible(c) => Legible(d))
    BY DEF Fresh, Legible, Onward
<1> QED BY <1>1 DEF Mild, Onward

\* Opa leaves the bodies alone, but for the headers a denial is given.
LEMMA OpaMild ==
    ASSUME NEW c, NEW any, Ready(c, any), NEW node, node.type = "opa", HeadersSpared(node.cfg),
           NEW o \in authorization_execute(node, c)
    PROVE  /\ Onward(c, o.ctx, any)
           /\ o.said \notin InFraming => Mild(c, o, any)
<1> DEFINE cfg == node.cfg
           names == Names(cfg, "send_headers_upstream")
           q == [c.req EXCEPT !.headers = remove_ci(@, Framing), !.body = NoBody]
<1>1. Framed(q.headers, q.body)
    BY PlainBodies DEF Ready, Whole, Framed, remove_ci, Framing, Marks
<1>2. PICK d : d = build_opa_input(c) /\ Ready(d, any) /\ Onward(c, d, any) /\ d.res = c.res
    <2> HIDE DEF q
    <2>1. build_opa_input(c) = Send(c, "opa", q)
        BY DEF build_opa_input, q
    <2> QED BY <1>1, <2>1, SendKeeps
<1>3. Spares(names)
    BY DEF HeadersSpared, Names, Opt, Spares
<1>4. \/ \E a \in {"allow", "plain", "error", "garbled"} : o = opa_outcome(cfg, d, a)
      \/ \E r \in OpaDenials : o = build_deny(d, r)
    BY <1>2 DEF authorization_execute, opa_execute
<1>5. Keeps(d, d) /\ Keeps(d, apply_allow(d, names, TRUE)) /\ Keeps(d, apply_allow(d, names, FALSE))
    BY <1>2, <1>3, KeepsAll, KeepsRequest DEF Ready
<1>g. Gentle(d, o) => Mild(c, o, any)
    BY <1>2, GentleIsMild, MildAfter
<1>6. ASSUME NEW a \in {"allow", "plain", "error", "garbled"}, o = opa_outcome(cfg, d, a)
      PROVE  Gentle(d, o)
    <2>1. CASE a = "allow"
        <3>1. o = Said(Ok(apply_allow(d, names, TRUE)), a)
            BY <1>6, <2>1 DEF opa_outcome
        <3> QED BY <3>1, <1>5, GentleOk
    <2>2. CASE a = "plain"
        <3>1. o = Said(Ok(apply_allow(d, names, FALSE)), a)
            BY <1>6, <2>2 DEF opa_outcome
        <3> QED BY <3>1, <1>5, GentleOk
    <2>3. CASE a = "error"
        <3>1. o = Said(Err(StatusOnly(d, 403)), a)
            BY <1>6, <2>3 DEF opa_outcome
        <3> QED BY <3>1, <1>5, GentleReject
    <2>4. CASE a = "garbled"
        <3>1. o = Said(Err(StatusOnly(d, 503)), a)
            BY <1>6, <2>4 DEF opa_outcome
        <3> QED BY <3>1, <1>5, GentleReject
    <2> QED BY <2>1, <2>2, <2>3, <2>4
<1>7. ASSUME NEW r \in OpaDenials, o = build_deny(d, r)
      PROVE  Onward(c, o.ctx, any) /\ (o.said \notin InFraming => Gentle(d, o))
    <2> DEFINE body == IF r.reason THEN Body("opa", "text") ELSE d.res.body
               s == parse_opa_response(r)
               e == Answered(d, s, body)
               h == Put(e.res.headers, r.headers)
               f == PutHeaders(e, r.headers)
    <2>1. o = Said(Err(f), Tone(r)) /\ o.ok = FALSE /\ o.said = Tone(r) /\ o.ctx = f
        BY <1>7 DEF build_deny, Said, Err
    <2>2. "enc" \in DOMAIN body /\ (body = d.res.body \/ body.enc = << >>)
        BY <1>2, PlainBodies DEF Ready, Whole
    <2> HIDE DEF body, s
    <2>3. /\ DOMAIN e = DOMAIN d /\ e.req = d.req /\ e.sent = d.sent /\ DOMAIN e.res = DOMAIN d.res
          /\ e.res.headers = d.res.headers /\ e.res.body = body
        BY <1>2 DEF Answered, Ready, Whole
    <2> HIDE DEF e
    <2>4. Covers(d, e)
        BY <1>2, <2>2, <2>3 DEF Covers, Ready, Whole, SameReq, OverRes
    <2>5. f = [e EXCEPT !.res.headers = h] /\ DOMAIN h = DOMAIN e.res.headers
        BY DEF PutHeaders, Put
    <2> HIDE DEF h
    <2>6. /\ DOMAIN f = DOMAIN e /\ f.req = e.req /\ f.sent = e.sent /\ DOMAIN f.res = DOMAIN e.res
          /\ f.res.body = e.res.body /\ f.res.headers = h
        BY <1>2, <2>3, <2>5 DEF Ready, Whole
    <2> HIDE DEF f
    <2>7. Whole(f) /\ SameReq(d, f)
        BY <2>4, <2>5, <2>6 DEF Covers, Whole, SameReq
    <2>8. Onward(c, f, any)
        BY <1>2, <2>7, OnwardSame DEF Onward
    <2>9. ASSUME Tone(r) \notin InFraming PROVE Gentle(d, o)
        <3>1. Framing \cap DOMAIN r.headers = {}
            BY <2>9 DEF Tone, InFraming
        <3>2. Covers(d, f)
            BY <2>4, <3>1, CoversPut DEF f
        <3> QED BY <2>1, <3>2, GentleErr
    <2> QED BY <2>1, <2>8, <2>9
<1> QED BY <1>4, <1>6, <1>7, <1>g DEF Mild

\* With POST the callout carries the body and its coding, without the length.
LEMMA MildForwardAuth ==
    ASSUME NEW c, NEW any, Ready(c, any), NEW node, node.type = "forward-auth",
           HeadersSpared(node.cfg), NEW o \in authorization_execute(node, c)
    PROVE  Mild(c, o, any)
<1> DEFINE cfg == node.cfg
           names == Names(cfg, "upstream_headers")
           posts == Opt(cfg, "request_method", "GET") = "POST"
           q == [c.req EXCEPT !.headers = build_callout_headers(cfg, c),
                              !.body = IF posts THEN @ ELSE NoBody]
           text == Body("service", "text")
<1>1. Framed(q.headers, q.body)
    <2> DEFINE h == build_callout_headers(cfg, c)
    <2>1. q.headers = h /\ q.body = IF posts THEN c.req.body ELSE NoBody
        BY DEF Ready, Whole
    <2>2. Spares(Names(cfg, "request_headers"))
        BY DEF HeadersSpared, Names, Opt, Spares
    <2>3. /\ h["content-length"] = Absent
          /\ h["content-encoding"] = IF posts THEN c.req.headers["content-encoding"] ELSE Absent
        BY <2>2 DEF build_callout_headers, HeaderNames, Framing, Spares, Marks
    <2>4. Framed(c.req.headers, c.req.body)
        BY DEF Ready, Honest
    <2> HIDE DEF h, q, posts
    <2> QED BY <2>1, <2>3, <2>4, PlainBodies DEF Framed
<1>2. PICK d : d = ForwardCallout(cfg, c) /\ Ready(d, any) /\ Onward(c, d, any) /\ d.res = c.res
    <2>1. ForwardCallout(cfg, c) = Send(c, "forward-auth", q)
        BY DEF ForwardCallout
    <2> HIDE DEF q
    <2> QED BY <1>1, <2>1, SendKeeps
<1>3. Spares(names)
    BY DEF HeadersSpared, Names, Opt, Spares
<1>4. \/ o = Said(Ok(apply_allow(d, names, TRUE)), "allow")
      \/ o = Said(Ok(apply_allow(d, names, FALSE)), "plain")
      \/ o = Said(Err(Answered(d, 302, text)), "deny") \/ o = Said(Err(Answered(d, 403, text)), "deny")
      \/ o = Said(IF Opt(cfg, "allow_degradation", FALSE) THEN Ok(d)
                  ELSE Err(StatusOnly(d, Opt(cfg, "status_on_error", 403))), "error")
    <2>1. o \in forward_auth_execute(cfg, c)
        BY DEF authorization_execute
    <2> QED BY <1>2, <2>1, Zenon DEF forward_auth_execute
<1>5. text.enc = << >> /\ "enc" \in DOMAIN text
    BY PlainBodies
<1> HIDE DEF names, text
<1>6. Keeps(d, d) /\ Keeps(d, apply_allow(d, names, TRUE)) /\ Keeps(d, apply_allow(d, names, FALSE))
    BY <1>2, <1>3, KeepsAll, KeepsRequest DEF Ready
<1>7. Gentle(d, o)
    <2>1. /\ Gentle(d, Said(Ok(apply_allow(d, names, TRUE)), "allow"))
          /\ Gentle(d, Said(Ok(apply_allow(d, names, FALSE)), "plain"))
          /\ Gentle(d, Said(Ok(d), "error"))
        BY <1>6, GentleOk
    <2>2. \A s : Gentle(d, Said(Err(Answered(d, s, text)), "deny"))
        BY <1>5, <1>6, GentleAnswer
    <2>3. \A s : Gentle(d, Said(Err(StatusOnly(d, s)), "error"))
        BY <1>6, GentleReject
    <2>4. PICK moved, denied, code :
              moved = 302 /\ denied = 403 /\ code = Opt(cfg, "status_on_error", 403)
        OBVIOUS
    <2>5. \/ o = Said(Ok(apply_allow(d, names, TRUE)), "allow")
          \/ o = Said(Ok(apply_allow(d, names, FALSE)), "plain")
          \/ o = Said(Err(Answered(d, moved, text)), "deny")
          \/ o = Said(Err(Answered(d, denied, text)), "deny")
          \/ o = Said(Ok(d), "error") \/ o = Said(Err(StatusOnly(d, code)), "error")
        BY <1>4, <2>4
    <2> QED BY <2>1, <2>2, <2>3, <2>5
<1> QED BY <1>2, <1>7, GentleIsMild, MildAfter

LEMMA GentleRedirect ==
    ASSUME NEW c, NEW d, Keeps(c, d), NEW to, NEW k
    PROVE  Gentle(c, Err(Redirect(d, to, k))) /\ \A a : Gentle(c, Said(Err(Redirect(d, to, k)), a))
<1> DEFINE put == [n \in {"location"} \cup (IF k = Absent THEN {} ELSE {"cookie"}) |->
                      IF n = "location" THEN to ELSE k]
<1>1. Covers(c, Answered(d, 302, NoBody))
    <2>1. NoBody.enc = << >> /\ "enc" \in DOMAIN NoBody
        BY PlainBodies
    <2>2. PICK s : s = 302
        OBVIOUS
    <2>3. Covers(c, Answered(d, s, NoBody))
        BY <2>1, CoversReject
    <2> QED BY <2>2, <2>3
<1>2. Framing \cap DOMAIN put = {}
    BY DEF Framing
<1>3. Redirect(d, to, k) = PutHeaders(Answered(d, 302, NoBody), put)
    BY DEF Redirect
<1> HIDE DEF put
<1> QED BY <1>1, <1>2, <1>3, CoversPut, GentleErr

LEMMA GentleReturned ==
    ASSUME NEW c, NEW d, Keeps(c, d), NEW cfg, NEW by, NEW s, NEW o \in Returned(cfg, d, by, s)
    PROVE  Gentle(c, o)
<1>1. \E k, a : o = Said(Err(Redirect(d, "page", k)), a) \/ o = Said(Err(reject(d, by, s)), a)
    BY DEF Returned
<1> QED BY <1>1, GentleRedirect, GentleReject

LEMMA GentleProvider ==
    ASSUME NEW c, Whole(c), NEW node, node.type \in ProviderTypes,
           NEW o \in provider_execute(node, c)
    PROVE  Gentle(c, o)
<1> DEFINE cfg == node.cfg
<1>0. Keeps(c, c)
    BY KeepsAll
<1>1. PICK d : d = Unclaimed(c) /\ Keeps(c, d)
    BY KeepsRequest
<1>2. ASSUME NEW e, Keeps(c, e)
      PROVE  /\ \A u : Keeps(c, WithUser(e, u))
             /\ \A t : Keeps(c, attach(cfg, e, t))
             /\ Keeps(c, UserInfo(cfg, e))
    <2>1. /\ \A u : Keeps(e, WithUser(e, u))
          /\ \A t : Keeps(e, attach(cfg, e, t))
          /\ Keeps(e, UserInfo(cfg, e))
        BY <1>2, KeepsRequest DEF Keeps
    <2> QED BY <1>2, <2>1, KeepsTwice
<1>3. \A e : Keeps(c, e) => \A f \in Named(e) : Keeps(c, f)
    BY <1>2 DEF Named
<1>4. CASE node.type = "openid-connect"
    <2>1. o \in openid_connect_execute(cfg, c)
        BY <1>4 DEF provider_execute
    <2>2. CASE ~bearer_only(cfg)
        <3>1. o \in openid_connect_interactive(cfg, d)
            BY <1>1, <2>1, <2>2 DEF openid_connect_execute
        <3>2. \/ o = Err(Redirect(d, "home", "deleted")) \/ o = Err(Redirect(d, "provider", "flow"))
              \/ o \in Returned(cfg, d, "openid-connect", 401)
              \/ o = Said(Err(reject(d, "openid-connect", 401)), "error")
              \/ \E t, u : o = Ok(WithUser(attach(cfg, d, t), u))
            BY <3>1 DEF openid_connect_interactive, LoggedOut, BeginLogin
        <3>3. \A t, u : Keeps(c, WithUser(attach(cfg, d, t), u))
            BY <1>1, <1>2
        <3> QED BY <1>1, <3>2, <3>3, GentleOk, GentleRedirect, GentleReturned, GentleReject
    <2>3. CASE bearer_only(cfg)
        <3>1. \/ o = Err(reject(d, "openid-connect", 401))
              \/ \E a : o = Said(Err(reject(d, "openid-connect", 401)), a)
              \/ \E t : \E e \in Named(attach(cfg, d, t)) : o = Said(Ok(e), "allow")
            BY <1>1, <2>1, <2>3 DEF openid_connect_execute
        <3>2. \A t : \A e \in Named(attach(cfg, d, t)) : Keeps(c, e)
            BY <1>1, <1>2, <1>3
        <3> QED BY <1>1, <3>1, <3>2, GentleOk, GentleReject
    <2> QED BY <2>2, <2>3
<1>5. CASE node.type = "authz-casdoor"
    <2>1. o \in authz_casdoor_execute(cfg, c)
        BY <1>5 DEF provider_execute
    <2>2. \/ o = Err(Redirect(c, "home", "deleted")) \/ o = Err(Redirect(c, "provider", "flow"))
          \/ o \in Returned(cfg, c, "authz-casdoor", 403)
          \/ \E u : o = Ok(attach_session(c, u))
          \/ o = Err(reject(c, "authz-casdoor", 403)) \/ o = Said(Ok(c), "allow")
          \/ \E a : o = Said(Err(reject(c, "authz-casdoor", 403)), a)
        BY <2>1 DEF authz_casdoor_execute, casdoor_interactive, casdoor_stateless, LoggedOut, BeginLogin
    <2>3. \A u : Keeps(c, attach_session(c, u))
        BY KeepsRequest
    <2> QED BY <1>0, <2>2, <2>3, GentleOk, GentleRedirect, GentleReturned, GentleReject
<1>6. CASE node.type = "cas-auth"
    <2>1. o \in cas_auth_execute(cfg, c)
        BY <1>6 DEF provider_execute
    <2>2. \/ o = Err(Redirect(c, "home", "deleted")) \/ o = Err(Redirect(c, "provider", Absent))
          \/ o \in Returned(cfg, c, "cas-auth", 401)
          \/ \E u : o = Ok(attach_user(c, u)) \/ o = Said(Ok(attach_user(c, u)), "allow")
          \/ o = Err(reject(c, "cas-auth", 401))
          \/ \E a : o = Said(Err(reject(c, "cas-auth", 401)), a)
        BY <2>1 DEF cas_auth_execute, cas_interactive, cas_stateless, LoggedOut
    <2>3. \A u : Keeps(c, attach_user(c, u))
        BY KeepsRequest
    <2> QED BY <1>0, <2>2, <2>3, GentleOk, GentleRedirect, GentleReturned, GentleReject
<1>7. CASE node.type \in {"dingtalk-auth", "feishu-auth"}
    <2>1. \E by, token : o \in CodeLogin(cfg, c, by, token)
        BY <1>7 DEF provider_execute, dingtalk_auth_execute, feishu_auth_execute
    <2>2. \E by : \/ o = Err(reject(d, by, 401))
                  \/ \E e \in Named(UserInfo(cfg, d)) : o = Said(Ok(e), "allow")
                  \/ \E a : o = Said(Err(reject(d, by, 401)), a)
        BY <1>1, <2>1 DEF CodeLogin
    <2>3. \A e \in Named(UserInfo(cfg, d)) : Keeps(c, e)
        BY <1>1, <1>2, <1>3
    <2> QED BY <1>1, <2>2, <2>3, GentleOk, GentleReject
<1> QED BY <1>4, <1>5, <1>6, <1>7 DEF ProviderTypes

-----------------------------------------------------------------------------
(* Transformations and checks. *)

Keepers == {"error-handler", "mocking", "cors", "echo"}

\* What every node does for the bodies, by its type.
Works(node, c, o, any) ==
    /\ Onward(c, o.ctx, any)
    /\ o.said \notin InFraming =>
          /\ ~Frames(node) \/ (~o.ok /\ node.type # "traffic-split") => (Fresh(c) => Fresh(o.ctx))
          /\ o.ok /\ node.type \notin Keepers /\ Legible(c) => Legible(o.ctx)
          /\ Fresh(c) => Legible(o.ctx)

LEMMA MildWorks ==
    ASSUME NEW node, NEW c, NEW o, NEW any, Mild(c, o, any)
    PROVE  Works(node, c, o, any)
BY FreshLegible DEF Mild, Works

LEMMA CoverWorks ==
    ASSUME NEW node, NEW c, NEW any, Ready(c, any), NEW d, Covers(c, d), NEW o, o.ctx = d,
           ~o.ok \/ node.type \in Keepers
    PROVE  Works(node, c, o, any)
<1>1. Onward(c, d, any) /\ (Fresh(c) => Fresh(d))
    BY OnwardSame, FreshCovered DEF Covers
<1> QED BY <1>1, FreshLegible DEF Works

LEMMA KeepMild ==
    ASSUME NEW c, NEW any, Ready(c, any), NEW d, Keeps(c, d)
    PROVE  Mild(c, Ok(d), any)
BY GentleOk, GentleIsMild

\* A response that is new, or a request that is.
LEMMA FreshMild ==
    ASSUME NEW c, NEW any, Ready(c, any), NEW d, Whole(d), SameReq(c, d), Fresh(d)
    PROVE  Mild(c, Ok(d), any)
<1>1. Ok(d).ctx = d
    BY DEF Ok
<1> QED BY <1>1, OnwardSame, FreshLegible DEF Mild

LEMMA RequestMild ==
    ASSUME NEW c, NEW any, Ready(c, any), NEW d, Whole(d), d.res = c.res, d.sent = c.sent,
           Framed(d.req.headers, d.req.body), Accepted(d) = Accepted(c)
    PROVE  Ready(d, any) /\ Onward(c, d, any) /\ Mild(c, Ok(d), any)
<1>1. Ok(d).ctx = d
    BY DEF Ok
<1>2. Ready(d, any) /\ Onward(c, d, any)
    BY DEF Ready, Honest, Onward, Sane
<1> QED BY <1>1, <1>2 DEF Mild, Fresh, Legible

LEMMA RewrittenFresh ==
    ASSUME NEW c, Whole(c), NEW b, b.enc = << >>, "enc" \in DOMAIN b
    PROVE  Whole(Rewritten(c, b)) /\ SameReq(c, Rewritten(c, b)) /\ Fresh(Rewritten(c, b))
BY DEF Rewritten, WithResponse, clear_body_derived_headers, remove_ci, Whole, SameReq, Fresh, Framing

LEMMA KeepsPut ==
    ASSUME NEW c, Whole(c), NEW these, Framing \cap DOMAIN these = {}
    PROVE  Keeps(c, PutHeaders(c, these))
BY DEF PutHeaders, Put, Keeps, Whole, SameReq, SameRes

\* A filter leaves a body it can read without its coding, and any other as it is.
LEMMA MildFilters ==
    ASSUME NEW c, NEW any, Ready(c, any)
    PROVE  Mild(c, Ok(apply_filters(c)), any)
<1> DEFINE h == c.res.headers
           b == c.res.body
           plain == [Decoded(h, b) EXCEPT !.by = "response-rewrite"]
<1>w. Whole(c)
    BY DEF Ready
<1>1. CASE ~Readable(h, b)
    BY <1>1, <1>w, KeepsAll, KeepMild DEF apply_filters
<1>2. CASE Readable(h, b)
    <2>1. apply_filters(c) = Rewritten(c, plain)
        BY <1>2 DEF apply_filters
    <2>2. "enc" \in DOMAIN plain
        BY <1>w DEF Decoded, decode, Whole
    <2>3. plain.enc = Decoded(h, b).enc
        BY <1>w DEF Decoded, decode, Whole
    <2>4. Legible(c) => plain.enc = << >>
        <3> SUFFICES ASSUME Legible(c) PROVE Decoded(h, b).enc = << >>
            BY <2>3
        <3>1. b.enc = IF h["content-encoding"] \in {Absent, "identity"} THEN << >>
                      ELSE << h["content-encoding"] >>
            BY DEF Legible, Framed
        <3>2. CASE h["content-encoding"] \in {Absent, "identity"}
            BY <3>1, <3>2 DEF Decoded, coding
        <3>3. CASE h["content-encoding"] \notin {Absent, "identity"}
            <4>1. b.enc = << h["content-encoding"] >> /\ coding(h) # "none"
                BY <3>1, <3>3 DEF coding, Supported
            <4>2. SubSeq(b.enc, 1, Len(b.enc) - 1) = << >>
                BY <4>1
            <4>3. decode(b).enc = << >>
                BY <1>w, <4>2 DEF decode, Whole
            <4> QED BY <4>1, <4>3 DEF Decoded
        <3> QED BY <3>2, <3>3
    <2> HIDE DEF plain, h, b
    <2> DEFINE d == Rewritten(c, plain)
    <2>5. Whole(d) /\ SameReq(c, d)
        BY <1>w, <2>2 DEF Rewritten, WithResponse, clear_body_derived_headers, remove_ci, Whole, SameReq
    <2>6. Legible(c) => Fresh(d)
        BY <1>w, <2>2, <2>4, RewrittenFresh
    <2> HIDE DEF d
    <2>7. Onward(c, d, any)
        BY <2>5, OnwardSame
    <2>8. Mild(c, Ok(d), any)
        <3>1. Ok(d).ctx = d
            BY DEF Ok
        <3> QED BY <2>6, <2>7, <3>1, FreshLegible DEF Mild
    <2> QED BY <2>1, <2>8 DEF d
<1> QED BY <1>1, <1>2

\* One mild change after another.
LEMMA MildTwice ==
    ASSUME NEW c, NEW any, Ready(c, any), NEW d, Mild(c, Ok(d), any), NEW e, Mild(d, Ok(e), any)
    PROVE  Ready(d, any) /\ Mild(c, Ok(e), any)
<1>1. \A f : Ok(f).ctx = f /\ Ok(f).ok = TRUE
    BY DEF Ok
<1> QED BY <1>1 DEF Mild, Onward, Ready, Sane

LEMMA MildReady ==
    ASSUME NEW c, NEW any, Ready(c, any), NEW d, Mild(c, Ok(d), any)
    PROVE  Ready(d, any)
<1>1. Ok(d).ctx = d
    BY DEF Ok
<1> QED BY <1>1 DEF Mild, Onward, Ready, Sane

LEMMA MildRewrite ==
    ASSUME NEW c, NEW any, Ready(c, any), NEW cfg, response_rewrite_from_config(cfg),
           HeadersSpared(cfg), NEW o \in response_rewrite_execute(cfg, c)
    PROVE  Mild(c, o, any)
<1> DEFINE text  == Body("response-rewrite", "text")
           coded == IF Given(cfg, "status_code") THEN StatusOnly(c, cfg.status_code) ELSE c
           body  == IF Given(cfg, "body") THEN Rewritten(coded, text)
                    ELSE IF Given(cfg, "filters") THEN apply_filters(coded) ELSE coded
           put   == IF Given(cfg, "headers")
                    THEN [n \in DOMAIN cfg.headers |-> interpolate(body, cfg.headers[n])] ELSE << >>
<1>0. Keeps(c, c) /\ Whole(c)
    BY KeepsAll DEF Ready
<1>1. Keeps(c, coded)
    BY <1>0, CoversReject
<1>2. o = Ok(c) \/ o = Ok(PutHeaders(body, put))
    BY DEF response_rewrite_execute
<1>3. Framing \cap DOMAIN put = {}
    <2>1. Given(cfg, "headers") => Has(cfg, "headers")
        BY DEF response_rewrite_from_config, parse_headers, Usable, Has
    <2>2. Given(cfg, "headers") => Framing \cap DOMAIN cfg.headers = {}
        BY <2>1 DEF HeadersSpared, Spares, Marks
    <2> QED BY <2>2
<1> HIDE DEF coded, put
<1>4. Mild(c, Ok(coded), any) /\ Ready(coded, any)
    BY <1>1, KeepMild, MildReady
<1>5. Mild(coded, Ok(body), any)
    <2>1. Mild(coded, Ok(coded), any)
        BY <1>4, KeepsAll, KeepMild DEF Ready
    <2>2. Mild(coded, Ok(apply_filters(coded)), any)
        BY <1>4, MildFilters
    <2>3. Mild(coded, Ok(Rewritten(coded, text)), any)
        BY <1>4, PlainBodies, RewrittenFresh, FreshMild DEF Ready
    <2> QED BY <2>1, <2>2, <2>3
<1> HIDE DEF body
<1>6. Mild(c, Ok(body), any) /\ Ready(body, any)
    BY <1>4, <1>5, MildTwice, MildReady
<1>7. Mild(body, Ok(PutHeaders(body, put)), any)
    BY <1>3, <1>6, KeepsPut, KeepMild DEF Ready
<1>8. Mild(c, Ok(c), any)
    BY <1>0, KeepMild
<1> QED BY <1>2, <1>6, <1>7, <1>8, MildTwice

\* What is compressed was not coded, says so afterwards, and the client accepts it.
LEMMA CompressWorks ==
    ASSUME NEW c, NEW any, Ready(c, any), NEW e, accepts_encoding(c, e), ~response_already_encoded(c)
    PROVE  /\ Onward(c, Compress(c, e), any)
           /\ Legible(c) => Legible(Compress(c, e))
<1> DEFINE h == insert(remove_ci(c.res.headers, {"content-length"}), "content-encoding", e)
           b == encode(c.res.body, e)
           d == Compress(c, e)
<1>w. Whole(c)
    BY DEF Ready
<1>1. d = WithResponse(c, b, h)
    BY DEF Compress
<1>2. /\ DOMAIN h = DOMAIN c.res.headers /\ h["content-length"] = Absent
      /\ h["content-encoding"] = e
    BY <1>w DEF insert, remove_ci, Whole, Framing
<1>3. DOMAIN b = DOMAIN c.res.body /\ b.enc = Append(c.res.body.enc, e)
    BY <1>w DEF encode, Whole
<1> HIDE DEF h, b, d
<1>4. /\ d.req = c.req /\ d.sent = c.sent /\ Whole(d)
      /\ d.res.body = b /\ d.res.headers = h
    BY <1>w, <1>1, <1>2, <1>3 DEF WithResponse, Whole
<1>5. Onward(c, d, any)
    BY <1>4, OnwardSame DEF SameReq
<1>6. e \notin {Absent, "identity"} /\ Accepted(c) # Absent /\ e \in Accepted(c)
    BY DEF accepts_encoding, Ready, Sane, Accepted
<1>7. ASSUME Legible(c) PROVE Legible(d)
    <2>1. c.res.body.enc = << >>
        BY <1>7 DEF Legible, Framed, response_already_encoded
    <2>2. b.enc = << e >>
        BY <1>3, <2>1
    <2>3. Accepted(d) = Accepted(c)
        BY <1>4 DEF Accepted
    <2> QED BY <1>2, <1>4, <1>6, <2>2, <2>3 DEF Legible, Framed
<1> QED BY <1>5, <1>7 DEF d

\* A node that ends well and may frame the answer anew, or leaves it framed.
LEMMA FramerWorks ==
    ASSUME NEW node, Frames(node), NEW c, NEW any, NEW d, Onward(c, d, any),
           Legible(c) => Legible(d)
    PROVE  Works(node, c, Ok(d), any)
<1>1. Ok(d).ctx = d /\ Ok(d).ok = TRUE
    BY DEF Ok
<1> QED BY <1>1, FreshLegible DEF Works

LEMMA TransformedRequest ==
    ASSUME NEW c, NEW any, Ready(c, any), NEW b, b.enc = << >>, NEW gone, NEW d,
           Whole(d), d.res = c.res, d.sent = c.sent, d.req.body = b,
           Framing \subseteq gone \/ (gone = {"content-length"} /\ c.req.body.enc = << >>),
           "accept-encoding" \notin gone,
           \A n \in Marks : d.req.headers[n] = IF n \in gone THEN Absent ELSE c.req.headers[n]
    PROVE  Ready(d, any) /\ Onward(c, d, any) /\ Mild(c, Ok(d), any)
<1>1. Accepted(d) = Accepted(c) /\ d.req.headers["content-length"] = Absent
    BY DEF Accepted, Marks, Framing
<1>2. d.req.headers["content-encoding"] \in {Absent, "identity"}
    <2>1. CASE Framing \subseteq gone
        BY <2>1 DEF Marks, Framing
    <2>2. CASE gone = {"content-length"} /\ c.req.body.enc = << >>
        <3>1. d.req.headers["content-encoding"] = c.req.headers["content-encoding"]
            BY <2>2 DEF Marks, Framing
        <3>2. Framed(c.req.headers, c.req.body)
            BY DEF Ready, Honest
        <3>3. \A x : << x >> # << >>
            OBVIOUS
        <3> QED BY <2>2, <3>1, <3>2, <3>3 DEF Framed
    <2> QED BY <2>1, <2>2
<1>3. Framed(d.req.headers, d.req.body)
    BY <1>1, <1>2 DEF Framed
<1> QED BY <1>1, <1>3, RequestMild

LEMMA BodyTransformerWorks ==
    ASSUME NEW c, NEW any, Ready(c, any), NEW node, NEW o \in body_transformer_execute(node.cfg, c)
    PROVE  Works(node, c, o, any)
<1> DEFINE text == render("body-transformer")
           by == "body-transformer"
<1>w. Whole(c)
    BY DEF Ready
<1>b. text.enc = << >> /\ "enc" \in DOMAIN text
    BY PlainBodies DEF render
<1>1. PICK d : /\ d \in {c, TransformRequest(c)}
               /\ \/ o = Err(reject(d, by, 400)) \/ o = Err(reject(d, by, 502))
                  \/ o = Ok(d) \/ o = Ok(Rewritten(d, text))
    BY DEF body_transformer_execute
<1>2. Ready(d, any) /\ Onward(c, d, any) /\ Mild(c, Ok(d), any) /\ d.res = c.res
    <2>1. CASE d = c
        BY <2>1, <1>w, KeepsAll, KeepMild DEF Ready, Onward
    <2>2. CASE d = TransformRequest(c)
        <3>1. /\ Whole(d) /\ d.res = c.res /\ d.sent = c.sent /\ d.req.body = text
              /\ \A n \in Marks : d.req.headers[n] = IF n \in Framing THEN Absent ELSE c.req.headers[n]
            BY <1>w, <2>2 DEF TransformRequest, remove_ci, Whole
        <3>2. "accept-encoding" \notin Framing
            BY DEF Framing
        <3> HIDE DEF text
        <3> QED BY <1>b, <3>1, <3>2, TransformedRequest
    <2> QED BY <1>1, <2>1, <2>2
<1> HIDE DEF text
<1>3. Whole(d)
    BY <1>2 DEF Ready
<1>4. Mild(d, Ok(Rewritten(d, text)), any)
    BY <1>2, <1>3, <1>b, RewrittenFresh, FreshMild
<1>5. \A s : Mild(d, Err(reject(d, by, s)), any)
    BY <1>2, <1>3, KeepsAll, GentleReject, GentleIsMild
<1>6. Mild(c, o, any)
    BY <1>1, <1>2, <1>4, <1>5, MildTwice, MildAfter
<1> QED BY <1>6, MildWorks

\* What is wrapped says nothing any more of a coding or a length.
LEMMA EchoWorks ==
    ASSUME NEW c, NEW any, Ready(c, any), NEW node, node.type = "echo", HeadersSpared(node.cfg),
           NEW o \in echo_execute(node.cfg, c)
    PROVE  Works(node, c, o, any)
<1> DEFINE cfg == node.cfg
           h == c.res.headers
           put == Opt(cfg, "headers", << >>)
           current == IF Given(cfg, "body") THEN Body("echo", "text")
                      ELSE IF coding(h) # "none" /\ Readable(h, c.res.body)
                      THEN decode(c.res.body) ELSE c.res.body
           b == [current EXCEPT !.by = "echo", !.fmt = "text"]
           g == Put(clear_body_derived_headers(h), put)
           d == WithResponse(c, b, g)
<1>w. Whole(c)
    BY DEF Ready
<1>1. o = Ok(d)
    BY DEF echo_execute
<1>2. Framing \cap DOMAIN put = {}
    BY DEF HeadersSpared, Opt, Spares, Marks
<1>3. DOMAIN g = DOMAIN h /\ \A n \in Framing : g[n] = Absent
    <2> HIDE DEF put
    <2> QED BY <1>w, <1>2 DEF Put, clear_body_derived_headers, remove_ci, Whole
<1>4. "enc" \in DOMAIN current /\ (Fresh(c) => current.enc = << >>)
    <2>1. Fresh(c) => coding(h) = "none" /\ c.res.body.enc = << >>
        BY DEF Fresh, coding, Framing
    <2>2. DOMAIN decode(c.res.body) = DOMAIN c.res.body
        BY DEF decode
    <2> QED BY <1>w, <2>1, <2>2, PlainBodies DEF Whole
<1>5. "enc" \in DOMAIN b /\ b.enc = current.enc
    <2> HIDE DEF current
    <2> QED BY <1>4
<1> HIDE DEF put, current, b, g, h, d
<1>6. /\ d.req = c.req /\ d.sent = c.sent /\ Whole(d) /\ d.res.body = b /\ d.res.headers = g
    BY <1>w, <1>3, <1>5 DEF WithResponse, Whole, d, h
<1>7. Onward(c, d, any)
    BY <1>6, OnwardSame DEF SameReq
<1>8. Fresh(c) => Fresh(d)
    BY <1>3, <1>4, <1>5, <1>6 DEF Fresh
<1>9. o.ctx = d /\ node.type \in Keepers
    BY <1>1 DEF Ok, Keepers
<1> QED BY <1>7, <1>8, <1>9, FreshLegible DEF Works

LEMMA DataMaskWorks ==
    ASSUME NEW c, NEW any, Ready(c, any), NEW node, node.type = "data-mask", RulesSpare(node),
           NEW o \in data_mask_execute(node.cfg, c)
    PROVE  Mild(c, o, any)
<1> DEFINE cfg == node.cfg
           of(t) == {r \in Names(cfg, "request") : r.type = t}
           h == apply_to_multimap(c.req.headers, of("header"))
           d == [c EXCEPT !.req.query = apply_to_multimap(@, of("query")),
                          !.req.headers = apply_to_multimap(@, of("header"))]
           text == Body("data-mask", "json")
<1>w. Whole(c)
    BY DEF Ready
<1>1. o = Ok(d) \/ (IsJson(c.req.body) /\ o = Ok(apply_to_json(d)))
    BY DEF data_mask_execute
<1>2. DOMAIN h = DOMAIN c.req.headers /\ \A n \in Marks : h[n] = c.req.headers[n]
    <2>1. \A r \in of("header") : r.name \notin Marks
        BY DEF RulesSpare
    <2> HIDE DEF of
    <2> QED BY <1>w, <2>1 DEF apply_to_multimap, Whole
<1>3. /\ DOMAIN d = DOMAIN c /\ d.res = c.res /\ d.sent = c.sent
      /\ DOMAIN d.req = DOMAIN c.req /\ d.req.headers = h /\ d.req.body = c.req.body
    BY <1>w DEF Whole
<1> HIDE DEF of, h, d
<1>4. Keeps(c, d)
    BY <1>w, <1>2, <1>3 DEF Keeps, Whole, SameReq, SameRes
<1>5. Mild(c, Ok(d), any) /\ Ready(d, any) /\ Whole(d)
    BY <1>4, KeepMild, MildReady DEF Ready
<1>6. IsJson(c.req.body) => Mild(d, Ok(apply_to_json(d)), any)
    <2> SUFFICES ASSUME IsJson(c.req.body) PROVE Mild(d, Ok(apply_to_json(d)), any)
        OBVIOUS
    <2> DEFINE e == apply_to_json(d)
               gone == {"content-length"}
    <2>1. /\ Whole(e) /\ e.res = d.res /\ e.sent = d.sent /\ e.req.body = text
          /\ \A n \in Marks : e.req.headers[n] = IF n \in gone THEN Absent ELSE d.req.headers[n]
        BY <1>5 DEF apply_to_json, remove_ci, Whole
    <2>2. text.enc = << >> /\ d.req.body.enc = << >> /\ "accept-encoding" \notin gone
        BY <1>3, PlainBodies DEF IsJson
    <2>3. gone = {"content-length"}
        OBVIOUS
    <2> HIDE DEF e, gone, text
    <2>4. Mild(d, Ok(e), any)
        BY <1>5, <2>1, <2>2, <2>3, TransformedRequest
    <2> QED BY <2>4 DEF e
<1> QED BY <1>1, <1>5, <1>6, MildTwice

LEMMA DegraphqlWorks ==
    ASSUME NEW c, NEW any, Ready(c, any), NEW cfg, NEW o \in degraphql_execute(cfg, c)
    PROVE  Mild(c, o, any)
<1> DEFINE text == Body("degraphql", "json")
           d == [c EXCEPT !.req.method = "POST", !.req.body = text,
                          !.req.headers = insert(remove_ci(@, Framing), "content-type", "json")]
<1>w. Whole(c)
    BY DEF Ready
<1>1. \/ o = Err(reject(c, "degraphql", 405)) \/ o = Err(reject(c, "degraphql", 400))
      \/ o = Ok(d)
    BY DEF degraphql_execute
<1>2. Mild(c, Ok(d), any)
    <2>1. "content-type" \notin Marks /\ "accept-encoding" \notin Framing
        BY DEF Marks, Framing
    <2>2. /\ DOMAIN d = DOMAIN c /\ d.res = c.res /\ d.sent = c.sent
          /\ DOMAIN d.req = DOMAIN c.req /\ d.req.body = text
          /\ d.req.headers = insert(remove_ci(c.req.headers, Framing), "content-type", "json")
        BY <1>w DEF Whole
    <2> DEFINE g == insert(remove_ci(c.req.headers, Framing), "content-type", "json")
    <2>3. /\ DOMAIN g = DOMAIN c.req.headers
          /\ \A n \in Marks : g[n] = IF n \in Framing THEN Absent ELSE c.req.headers[n]
        BY <1>w, <2>1 DEF insert, remove_ci, Whole
    <2>4. text.enc = << >>
        BY PlainBodies
    <2> HIDE DEF text, d, g
    <2>5. Whole(d)
        BY <1>w, <2>2, <2>3 DEF Whole, g
    <2>6. \A n \in Marks : d.req.headers[n] = IF n \in Framing THEN Absent ELSE c.req.headers[n]
        BY <2>2, <2>3 DEF g
    <2> QED BY <2>1, <2>2, <2>4, <2>5, <2>6, TransformedRequest
<1>3. \A s : Mild(c, Err(reject(c, "degraphql", s)), any)
    BY <1>w, KeepsAll, GentleReject, GentleIsMild
<1> QED BY <1>1, <1>2, <1>3

LEMMA ProxyRewriteWorks ==
    ASSUME NEW c, NEW any, Ready(c, any), NEW cfg, HeadersSpared(cfg),
           NEW o \in proxy_rewrite_execute(cfg, c)
    PROVE  Mild(c, o, any)
<1> DEFINE add == Opt(cfg, "add_headers", << >>)
           gone == Names(cfg, "remove_headers")
           headers(h) == remove_ci([k \in DOMAIN h |-> IF k \in DOMAIN add /\ h[k] = Absent
                                                       THEN add[k] ELSE h[k]], gone)
           answers(h) == [c EXCEPT !.res.headers = h]
           asks(p, h) == [c EXCEPT !.req.path = p, !.req.headers = h]
<1>w. Whole(c)
    BY DEF Ready
<1>1. Spares(DOMAIN add) /\ Spares(gone)
    BY DEF HeadersSpared, Opt, Names, Spares
<1>2. \E p : o = Ok(answers(headers(c.res.headers))) \/ o = Ok(asks(p, headers(c.req.headers)))
    BY DEF proxy_rewrite_execute
<1> HIDE DEF add, gone
<1>3. \A h : DOMAIN headers(h) = DOMAIN h /\ \A n \in Marks \cap DOMAIN h : headers(h)[n] = h[n]
    BY <1>1 DEF remove_ci, Spares
<1> HIDE DEF headers
<1>4. Framing \subseteq Marks
    BY DEF Marks
<1>5. Keeps(c, answers(headers(c.res.headers)))
    BY <1>w, <1>3, <1>4 DEF Keeps, Whole, SameReq, SameRes
<1>6. \A p : Keeps(c, asks(p, headers(c.req.headers)))
    BY <1>w, <1>3 DEF Keeps, Whole, SameReq, SameRes
<1> HIDE DEF answers, asks
<1> QED BY <1>2, <1>5, <1>6, KeepMild

LEMMA TransformWorks ==
    ASSUME NEW c, NEW any, Ready(c, any), NEW node, node.type \in TransformTypes,
           transform_created(node), MarksSpared(node), NEW o \in transform_execute(node, c)
    PROVE  Works(node, c, o, any)
<1> DEFINE cfg == node.cfg
<1>w. Whole(c) /\ HeadersSpared(cfg) /\ RulesSpare(node)
    BY DEF Ready, MarksSpared
<1>k. Keeps(c, c) /\ Covers(c, c) /\ Mild(c, Ok(c), any)
    BY <1>w, KeepsAll, KeepMild
<1>n. \A d, b : Keeps(c, d) /\ b.enc = << >> /\ "enc" \in DOMAIN b =>
          LET e == Rewritten(d, b) IN Whole(e) /\ SameReq(c, e) /\ Fresh(e)
    <2> TAKE d, b
    <2> SUFFICES ASSUME Keeps(c, d), b.enc = << >>, "enc" \in DOMAIN b
                 PROVE  LET e == Rewritten(d, b) IN Whole(e) /\ SameReq(c, e) /\ Fresh(e)
        OBVIOUS
    <2>1. Whole(d) /\ SameReq(c, d)
        BY DEF Keeps
    <2>2. PICK e : e = Rewritten(d, b) /\ Whole(e) /\ SameReq(d, e) /\ Fresh(e)
        BY <2>1, RewrittenFresh
    <2>3. SameReq(c, e)
        BY <2>1, <2>2 DEF SameReq
    <2> QED BY <2>2, <2>3
<1>1. CASE node.type = "response-rewrite"
    <2>1. response_rewrite_from_config(cfg) /\ o \in response_rewrite_execute(cfg, c)
        BY <1>1 DEF transform_created, transform_execute
    <2> QED BY <1>w, <2>1, MildRewrite, MildWorks
<1>2. CASE node.type \in {"gzip", "brotli"}
    <2>1. o = Ok(c) \/ \E e : /\ accepts_encoding(c, e) /\ ~response_already_encoded(c)
                              /\ o = Ok(Compress(c, e))
        BY <1>2 DEF transform_execute, gzip_execute, brotli_execute, Compresses
    <2>2. Frames(node)
        BY <1>2 DEF Frames
    <2> QED BY <1>k, <2>1, <2>2, CompressWorks, FramerWorks, MildWorks
<1>3. CASE node.type = "body-transformer"
    <2>1. o \in body_transformer_execute(cfg, c)
        BY <1>3 DEF transform_execute
    <2> QED BY <2>1, BodyTransformerWorks
<1>4. CASE node.type = "cors"
    <2>1. o = Ok(c) \/ o = Ok(Answered(c, 204, NoBody))
        BY <1>4 DEF transform_execute, cors_execute
    <2>2. Covers(c, Answered(c, 204, NoBody))
        BY <1>k, CoversReject, PlainBodies
    <2>3. \A d : Ok(d).ctx = d
        BY DEF Ok
    <2> QED BY <1>4, <1>k, <2>1, <2>2, <2>3, CoverWorks DEF Keepers
<1>5. CASE node.type = "echo"
    <2>1. o \in echo_execute(cfg, c)
        BY <1>5 DEF transform_execute
    <2> QED BY <1>5, <1>w, <2>1, EchoWorks
<1>6. CASE node.type = "data-mask"
    <2>1. o \in data_mask_execute(cfg, c)
        BY <1>6 DEF transform_execute
    <2> QED BY <1>6, <1>w, <2>1, DataMaskWorks, MildWorks
<1>7. CASE node.type = "error-page"
    <2> DEFINE text == Body("error-page", "text")
               d == Rewritten(c, text)
               e == [d EXCEPT !.res.headers["content-type"] = "text"]
    <2>1. o = Ok(c) \/ o = Ok(e)
        BY <1>7 DEF transform_execute, error_page_execute
    <2>2. Whole(d) /\ SameReq(c, d) /\ Fresh(d)
        BY <1>k, <1>n, PlainBodies
    <2> HIDE DEF d
    <2>3. Whole(e) /\ SameReq(c, e) /\ Fresh(e)
        BY <2>2 DEF Whole, SameReq, Fresh, Framing
    <2> HIDE DEF e
    <2> QED BY <1>k, <2>1, <2>3, FreshMild, MildWorks
<1>8. CASE node.type = "exit-transformer"
    <2> DEFINE text == Body("exit-transformer", "text")
    <2>1. o = Ok(c) \/ \E s : o = Ok(StatusOnly(c, s)) \/ o = Ok(Rewritten(StatusOnly(c, s), text))
        BY <1>8 DEF transform_execute, exit_transformer_execute
    <2>2. \A s : Keeps(c, StatusOnly(c, s))
        BY <1>k, CoversReject
    <2>3. text.enc = << >> /\ "enc" \in DOMAIN text
        BY PlainBodies
    <2> HIDE DEF text
    <2>4. \A s : Mild(c, Ok(Rewritten(StatusOnly(c, s), text)), any)
        BY <1>n, <2>2, <2>3, FreshMild
    <2> QED BY <1>k, <2>1, <2>2, <2>4, KeepMild, MildWorks
<1>9. CASE node.type = "error-handler"
    <2>1. PICK d : o = Ok(d) /\ Covers(c, d)
        <3>1. \E s : o = Ok(reject(c, "error-handler", s))
            BY <1>9 DEF transform_execute, error_handler_execute
        <3> QED BY <3>1, <1>k, CoversReject
    <2>2. o.ctx = d
        BY <2>1 DEF Ok
    <2> QED BY <1>9, <2>1, <2>2, CoverWorks DEF Keepers
<1>10. CASE node.type = "mocking"
    <2> DEFINE put == Opt(cfg, "response_headers", << >>)
    <2>1. \E s : o = Ok(PutHeaders(reject(c, "mocking", s), put))
        BY <1>10 DEF transform_execute, mocking_execute
    <2>2. Framing \cap DOMAIN put = {}
        BY <1>w DEF HeadersSpared, Opt, Spares, Marks
    <2> HIDE DEF put
    <2>3. PICK d : o = Ok(d) /\ Covers(c, d)
        BY <1>k, <2>1, <2>2, CoversReject, CoversPut
    <2>4. o.ctx = d
        BY <2>3 DEF Ok
    <2> QED BY <1>10, <2>3, <2>4, CoverWorks DEF Keepers
<1>11. CASE node.type = "redirect"
    <2> DEFINE d == Rewritten(c, NoBody)
               out(s, to) == [d EXCEPT !.res.status = s, !.res.headers["location"] = to]
    <2>1. o \in redirect_execute(cfg, c)
        BY <1>11 DEF transform_execute
    <2>2. o = Ok(c) \/ \E s, to : o = Ok(out(s, to))
        BY <2>1 DEF redirect_execute
    <2>3. Whole(d) /\ SameReq(c, d) /\ Fresh(d)
        BY <1>k, <1>n, PlainBodies
    <2> HIDE DEF d
    <2>4. ASSUME NEW s, NEW to PROVE Whole(out(s, to)) /\ SameReq(c, out(s, to)) /\ Fresh(out(s, to))
        <3> DEFINE e == out(s, to)
        <3>1. /\ DOMAIN e = DOMAIN d /\ e.req = d.req /\ e.sent = d.sent
              /\ DOMAIN e.res = DOMAIN d.res /\ e.res.body = d.res.body
              /\ e.res.headers = [d.res.headers EXCEPT !["location"] = to]
            BY <2>3 DEF Whole
        <3> HIDE DEF out, e
        <3>2. Whole(e) /\ SameReq(c, e) /\ Fresh(e)
            BY <2>3, <3>1 DEF Whole, SameReq, Fresh, Framing
        <3> QED BY <3>2 DEF e
    <2> HIDE DEF out
    <2> QED BY <1>k, <2>2, <2>4, FreshMild, MildWorks
<1>12. CASE node.type = "degraphql"
    <2>1. o \in degraphql_execute(cfg, c)
        BY <1>12 DEF transform_execute
    <2> QED BY <2>1, DegraphqlWorks, MildWorks
<1>13. CASE node.type = "proxy-rewrite"
    <2>1. o \in proxy_rewrite_execute(cfg, c)
        BY <1>13 DEF transform_execute
    <2> QED BY <1>w, <2>1, ProxyRewriteWorks, MildWorks
<1> QED BY <1>1, <1>2, <1>3, <1>4, <1>5, <1>6, <1>7, <1>8, <1>9, <1>10, <1>11, <1>12, <1>13
        DEF TransformTypes

LEMMA CheckWorks ==
    ASSUME NEW c, NEW any, Ready(c, any), NEW node, node.type \in CheckTypes,
           check_created(node), MarksSpared(node), Lists(node.cfg), NEW o \in check_execute(node, c)
    PROVE  Mild(c, o, any)
<1> DEFINE cfg == node.cfg
<1>w. Whole(c) /\ RulesSpare(node)
    BY DEF Ready, MarksSpared
<1>k. Keeps(c, c) /\ Mild(c, Ok(c), any)
    BY <1>w, KeepsAll, KeepMild
<1>r. \A by, s : Mild(c, Err(reject(c, by, s)), any)
    BY <1>k, GentleReject, GentleIsMild
<1>1. CASE node.type = "request-id"
    <2> DEFINE sent == first_non_empty(c.req.headers)
               i == IF sent = Absent THEN "a new id" ELSE sent
               d == [c EXCEPT !.req.headers["x-request-id"] = i]
               e == [d EXCEPT !.res.headers["x-request-id"] = i]
    <2>1. o = Ok(d) \/ o = Ok(e)
        BY <1>1 DEF check_execute, request_id_execute
    <2>2. "x-request-id" \notin Marks /\ "x-request-id" \notin Framing
        BY DEF Marks, Framing
    <2> HIDE DEF i
    <2>3. Keeps(c, d)
        BY <1>w, <2>2, KeepsMark
    <2> HIDE DEF d
    <2>4. Keeps(d, e)
        BY <2>2, <2>3 DEF Keeps, Whole, SameReq, SameRes
    <2> HIDE DEF e
    <2> QED BY <2>1, <2>3, <2>4, KeepsTwice, KeepMild
<1>2. CASE node.type = "request-size-limit"
    <2>1. o = Ok(c) \/ o = Err(reject(c, "request-size-limit", 413))
        BY <1>2 DEF check_execute, request_size_limit_execute, Guard
    <2> QED BY <1>k, <1>r, <2>1
<1>3. CASE node.type = "real-ip"
    <2> DEFINE at(a) == [c EXCEPT !.req.addr = a]
    <2>1. o = Ok(c) \/ \E a : o = Ok(at(a))
        BY <1>3 DEF check_execute, real_ip_execute
    <2>2. \A a : Keeps(c, at(a))
        BY <1>w DEF Keeps, Whole, SameReq, SameRes
    <2> HIDE DEF at
    <2> QED BY <1>k, <2>1, <2>2, KeepMild
<1>4. CASE node.type = "request-validation"
    <2> DEFINE text == Body("request-validation", "json")
               gone == {"content-length"}
               d == [c EXCEPT !.req.body = text, !.req.headers = remove_ci(@, gone)]
    <2>1. \/ o = Ok(c) \/ \E s : o = Err(reject(c, "request-validation", s))
          \/ IsJson(c.req.body) /\ o = Ok(d)
        BY <1>4 DEF check_execute, request_validation_execute
    <2>2. /\ Whole(d) /\ d.res = c.res /\ d.sent = c.sent /\ d.req.body = text
          /\ \A n \in Marks : d.req.headers[n] = IF n \in gone THEN Absent ELSE c.req.headers[n]
        BY <1>w DEF remove_ci, Whole
    <2>3. text.enc = << >> /\ gone = {"content-length"} /\ "accept-encoding" \notin gone
        BY PlainBodies
    <2> HIDE DEF text, gone, d
    <2>4. IsJson(c.req.body) => Mild(c, Ok(d), any)
        BY <2>2, <2>3, TransformedRequest DEF IsJson
    <2> QED BY <1>k, <1>r, <2>1, <2>4
<1>5. CASE node.type = "oas-validator"
    <2>1. o = Ok(c) \/ \E s : o = Err(reject(c, "oas-validator", s))
        BY <1>5 DEF check_execute, oas_validator_execute, Guard
    <2> QED BY <1>k, <1>r, <2>1
<1>6. CASE node.type = "traffic-label"
    <2> DEFINE put(a) == [k \in DOMAIN a.set_headers |-> interpolate(c, a.set_headers[k])]
               out(a, m) == [c EXCEPT !.req.headers = Put(@, put(a)), !.msg = m]
    <2>1. \/ o = Ok(c)
          \/ \E i \in DOMAIN cfg.rules : \E a \in cfg.rules[i].actions : \E m : o = Ok(out(a, m))
        <3> DEFINE msg(a) == Put(c.msg, [k \in DOMAIN a.set_labels |->
                                            interpolate(c, a.set_labels[k])])
                   set(a) == [c EXCEPT !.req.headers = Put(@, put(a)),
                                       !.msg = Put(@, [k \in DOMAIN a.set_labels |->
                                                          interpolate(c, a.set_labels[k])])]
        <3>1. o \in traffic_label_execute(cfg, c)
            BY <1>6 DEF check_execute
        <3>2. \/ o = Ok(c)
              \/ \E i \in DOMAIN cfg.rules : \E a \in cfg.rules[i].actions : o = Ok(set(a))
            BY <3>1 DEF traffic_label_execute, pick_action
        <3>3. \A a : set(a) = out(a, msg(a))
            OBVIOUS
        <3> HIDE DEF set, out
        <3> QED BY <3>2, <3>3
    <2>2. Has(cfg, "rules")
        BY <1>6 DEF check_created, traffic_label_from_config, Required
    <2>3. \A i \in DOMAIN cfg.rules : \A a \in cfg.rules[i].actions : Spares(DOMAIN a.set_headers)
        BY <1>6, <1>w, <2>2 DEF RulesSpare
    <2>4. ASSUME NEW a, Spares(DOMAIN a.set_headers), NEW m PROVE Keeps(c, out(a, m))
        <3>1. DOMAIN put(a) = DOMAIN a.set_headers
            OBVIOUS
        <3> HIDE DEF put
        <3> QED BY <1>w, <2>4, <3>1 DEF Put, Keeps, Whole, SameReq, SameRes, Spares
    <2> HIDE DEF out
    <2> QED BY <1>k, <2>1, <2>3, <2>4, KeepMild
<1>7. CASE node.type = "fault-injection"
    <2> DEFINE put == Opt(cfg.abort, "headers", << >>)
               out(b) == PutHeaders(Answered(c, cfg.abort.http_status, b), put)
    <2>1. \/ o = Ok(c)
          \/ Given(cfg, "abort") /\ (o = Err(out(NoBody)) \/ o = Err(out(Body("fault", "text"))))
        BY <1>7 DEF check_execute, fault_injection_execute
    <2>2. Given(cfg, "abort") => Has(cfg, "abort")
        BY <1>7 DEF check_created, fault_injection_from_config, Has
    <2>3. Has(cfg, "abort") => Framing \cap DOMAIN put = {}
        BY <1>7, <1>w DEF RulesSpare, Opt, Spares, Marks
    <2> HIDE DEF put
    <2>4. Has(cfg, "abort") => Covers(c, out(NoBody)) /\ Covers(c, out(Body("fault", "text")))
        BY <1>k, <2>3, PlainBodies, CoversReject, CoversPut
    <2> HIDE DEF out
    <2> QED BY <1>k, <2>1, <2>2, <2>4, GentleErr, GentleIsMild
<1> QED BY <1>1, <1>2, <1>3, <1>4, <1>5, <1>6, <1>7 DEF CheckTypes

-----------------------------------------------------------------------------
(* Backends.  What a server answers is framed, in a coding it was told of. *)

LegibleReply(r, accepted) ==
    /\ {"status", "headers", "body"} \subseteq DOMAIN r
    /\ Framing \subseteq DOMAIN r.headers /\ "enc" \in DOMAIN r.body
    /\ Framed(r.headers, r.body)
    /\ r.headers["content-encoding"] \notin {Absent, "identity"} =>
          accepted # Absent /\ r.headers["content-encoding"] \in accepted

LEMMA RepliesLegible ==
    ASSUME NEW req, LET a == req.headers["accept-encoding"]
                    IN  a # Absent => {Absent, "identity"} \cap a = {},
           NEW r \in request(req), ~Failed(r)
    PROVE  LegibleReply(r, req.headers["accept-encoding"])
<1> DEFINE accepted == req.headers["accept-encoding"]
<1>h. Framing \subseteq DOMAIN NoHeaders /\ "content-type" \in DOMAIN NoHeaders
    BY DEF NoHeaders, HeaderNames
<1>1. ASSUME NEW s, NEW t, NEW b, "enc" \in DOMAIN b
      PROVE  LET q == Reply(s, t, b)
             IN  /\ {"status", "headers", "body"} \subseteq DOMAIN q
                 /\ Framing \subseteq DOMAIN q.headers /\ q.body = b
                 /\ q.headers["content-length"] = b
                 /\ q.headers["content-encoding"] = IF b.enc = << >> THEN Absent ELSE b.enc[1]
    BY <1>h DEF Reply, Framing
<1>2. \A s, t, b : "enc" \in DOMAIN b /\ b.enc = << >> => LegibleReply(Reply(s, t, b), accepted)
    BY <1>1 DEF LegibleReply, Framed
<1>3. ASSUME NEW s, NEW t, NEW b, NEW e \in accepted, accepted # Absent,
             "enc" \in DOMAIN b, b.enc = << e >>
      PROVE  LegibleReply(Reply(s, t, b), accepted)
    <2>1. e \notin {Absent, "identity"}
        BY <1>3
    <2>2. b.enc # << >> /\ b.enc[1] = e
        BY <1>3
    <2>3. PICK q : q = Reply(s, t, b) /\ {"status", "headers", "body"} \subseteq DOMAIN q
                   /\ Framing \subseteq DOMAIN q.headers /\ q.body = b
                   /\ q.headers["content-length"] = b /\ q.headers["content-encoding"] = e
        BY <1>1, <1>3, <2>2
    <2> QED BY <1>3, <2>1, <2>3 DEF LegibleReply, Framed
<1>4. \/ \E s, t, f : r = Reply(s, t, Body("server", f))
      \/ accepted # Absent /\ \E s, t, f : \E e \in accepted : r = Reply(s, t, encode(Body("server", f), e))
    <2>1. \A f : Failed([failure |-> f])
        BY DEF Failed
    <2>2. r \in Replies(req)
        BY <2>1 DEF request
    <2> QED BY <2>2 DEF Replies
<1>5. \A f, e : "enc" \in DOMAIN encode(Body("server", f), e) /\ encode(Body("server", f), e).enc = << e >>
    BY DEF encode, Body, SizedBody
<1> HIDE DEF accepted
<1>6. CASE \E s, t, f : r = Reply(s, t, Body("server", f))
    BY <1>2, <1>6, PlainBodies DEF accepted
<1>7. CASE /\ accepted # Absent
           /\ \E s, t, f : \E e \in accepted : r = Reply(s, t, encode(Body("server", f), e))
    <2>1. PICK s, t, f : \E e \in accepted : r = Reply(s, t, encode(Body("server", f), e))
        BY <1>7
    <2>2. PICK e \in accepted : r = Reply(s, t, encode(Body("server", f), e))
        BY <2>1
    <2> QED BY <1>3, <1>5, <1>7, <2>2 DEF accepted
<1> QED BY <1>4, <1>6, <1>7

\* The context with an answer in the place of the response.
LEMMA ReplyWorks ==
    ASSUME NEW c, NEW any, Ready(c, any), NEW r, LegibleReply(r, Accepted(c))
    PROVE  /\ Onward(c, WithReply(c, r), any) /\ Legible(WithReply(c, r))
           /\ WithReply(c, r) = [c EXCEPT !.res = r]
<1> DEFINE d == [c EXCEPT !.res = r]
<1>w. Whole(c)
    BY DEF Ready
<1>1. DOMAIN d = DOMAIN c /\ d.req = c.req /\ d.sent = c.sent /\ d.res = r
    BY <1>w DEF Whole
<1> HIDE DEF d
<1>2. Whole(d) /\ SameReq(c, d)
    BY <1>w, <1>1 DEF Whole, SameReq, LegibleReply
<1>3. Onward(c, d, any)
    BY <1>2, OnwardSame
<1>4. Legible(d)
    BY <1>1 DEF Legible, LegibleReply, Accepted
<1> QED BY <1>3, <1>4 DEF WithReply, d

\* The nodes that send a request and end with what comes back.
LEMMA SentWorks ==
    ASSUME NEW c, NEW any, Ready(c, any), NEW node, Frames(node), NEW to, NEW q,
           Framed(q.headers, q.body) \/ (any /\ to = "function")
    PROVE  LET d == Send(c, to, q)
           IN  /\ Works(node, c, Ok(d), any) /\ Works(node, c, Err(d), any)
               /\ \A s : Works(node, c, Err(StatusOnly(d, s)), any)
               /\ \A by, s : Works(node, c, Err(reject(d, by, s)), any)
               /\ \A r : LegibleReply(r, Accepted(c)) =>
                     /\ Works(node, c, Ok(WithReply(d, r)), any)
                     /\ node.type = "traffic-split" => Works(node, c, Err(WithReply(d, r)), any)
<1>1. PICK d : /\ d = Send(c, to, q) /\ Ready(d, any) /\ Onward(c, d, any)
               /\ d.res = c.res /\ d.req = c.req
    BY SendKeeps
<1>2. Keeps(d, d) /\ Covers(d, d)
    BY <1>1, KeepsAll DEF Ready
<1>3. ASSUME NEW o, Gentle(d, o) PROVE Works(node, c, o, any)
    BY <1>1, <1>3, GentleIsMild, MildAfter, MildWorks
<1>4. /\ Works(node, c, Ok(d), any) /\ Works(node, c, Err(d), any)
      /\ \A s : Works(node, c, Err(StatusOnly(d, s)), any)
      /\ \A by, s : Works(node, c, Err(reject(d, by, s)), any)
    BY <1>2, <1>3, GentleOk, GentleErr, GentleReject
<1>5. ASSUME NEW r, LegibleReply(r, Accepted(c))
      PROVE  /\ Works(node, c, Ok(WithReply(d, r)), any)
             /\ node.type = "traffic-split" => Works(node, c, Err(WithReply(d, r)), any)
    <2>1. Accepted(d) = Accepted(c)
        BY <1>1 DEF Onward
    <2>2. PICK e : e = WithReply(d, r) /\ Onward(d, e, any) /\ Legible(e)
        BY <1>1, <1>5, <2>1, ReplyWorks
    <2>3. Onward(c, e, any)
        BY <2>1, <2>2 DEF Onward
    <2>4. Ok(e).ctx = e /\ Ok(e).ok = TRUE /\ Err(e).ctx = e
        BY DEF Ok, Err
    <2> QED BY <2>2, <2>3, <2>4 DEF Works
<1> QED BY <1>1, <1>4, <1>5

\* A function gets the body with its coding, without the length.
LEMMA FunctionRequests ==
    ASSUME NEW c, NEW any, Ready(c, any), NEW cfg,
           NEW q \in {aws_lambda_build_request(cfg, c), azure_functions_build_request(cfg, c),
                      openfunction_build_request(cfg, c)}
    PROVE  Framed(q.headers, q.body) /\ q.headers["accept-encoding"] = Accepted(c)
<1> DEFINE p == forward_parts(c)
<1>w. Whole(c) /\ Framed(c.req.headers, c.req.body)
    BY DEF Ready, Honest
<1>1. /\ DOMAIN p = DOMAIN c.req /\ p.body = c.req.body
      /\ p.headers = remove_ci(c.req.headers, {"content-length"})
    BY <1>w DEF forward_parts, Whole
<1>2. /\ Marks \subseteq DOMAIN p.headers /\ p.headers["content-length"] = Absent
      /\ p.headers["content-encoding"] = c.req.headers["content-encoding"]
      /\ p.headers["accept-encoding"] = c.req.headers["accept-encoding"]
    BY <1>w, <1>1 DEF remove_ci, Whole, Marks, Framing
<1>3. {"headers", "body"} \subseteq DOMAIN p
    BY <1>w, <1>1 DEF Whole
<1> HIDE DEF p
<1>4. ASSUME q.body = p.body, \A n \in Marks : q.headers[n] = p.headers[n]
      PROVE  Framed(q.headers, q.body) /\ q.headers["accept-encoding"] = Accepted(c)
    BY <1>w, <1>1, <1>2, <1>4 DEF Framed, Accepted, Marks, Framing
<1>5. "authorization" \notin Marks /\ "x-api-key" \notin Marks /\ "x-functions-key" \notin Marks
    BY DEF Marks, Framing
<1>6. CASE q = aws_lambda_build_request(cfg, c)
    <2> DEFINE put(x, y) == [p EXCEPT !.headers = [@ EXCEPT !["authorization"] = x, !["x-api-key"] = y]]
    <2>1. \E x, y : q = put(x, y)
        BY <1>6 DEF aws_lambda_build_request, p
    <2>2. \A x, y : put(x, y).body = p.body /\ \A n \in Marks : put(x, y).headers[n] = p.headers[n]
        BY <1>2, <1>3, <1>5
    <2> HIDE DEF put
    <2> QED BY <1>4, <2>1, <2>2
<1>7. ASSUME NEW n, n \notin Marks, NEW v, q = [p EXCEPT !.headers[n] = v]
      PROVE  Framed(q.headers, q.body) /\ q.headers["accept-encoding"] = Accepted(c)
    <2>1. q.body = p.body /\ \A m \in Marks : q.headers[m] = p.headers[m]
        BY <1>2, <1>3, <1>7
    <2> QED BY <1>4, <2>1
<1>8. CASE q = azure_functions_build_request(cfg, c)
    <2>1. \E v : q = [p EXCEPT !.headers["x-functions-key"] = v]
        BY <1>8 DEF azure_functions_build_request, p
    <2> QED BY <1>5, <1>7, <2>1
<1>9. CASE q = openfunction_build_request(cfg, c)
    <2>1. q = p \/ \E v : q = [p EXCEPT !.headers["authorization"] = v]
        BY <1>9 DEF openfunction_build_request, p
    <2> QED BY <1>4, <1>5, <1>7, <2>1
<1> QED BY <1>6, <1>8, <1>9

\* OpenWhisk is asked without a word about codings, and its answer is rewritten.
LEMMA OpenwhiskWorks ==
    ASSUME NEW c, Ready(c, TRUE), NEW node, node.type = "openwhisk",
           NEW o \in openwhisk_execute(node.cfg, c)
    PROVE  Works(node, c, o, TRUE)
<1> DEFINE q == openwhisk_build_request(node.cfg, c)
<1>f. Frames(node)
    BY DEF Frames, Backend, Forwarders
<1>1. q.headers["accept-encoding"] = Absent
    BY DEF openwhisk_build_request, NoHeaders, HeaderNames, Framing, Ready, Whole
<1> HIDE DEF q
<1>2. PICK a \in request(q) \cup {Reply(200, "json", NoBody)} :
          o = IF Failed(a) THEN apply_response(Send(c, "function", q), a)
              ELSE map_response(Send(c, "function", q), a)
    BY DEF openwhisk_execute, q
<1> DEFINE d == Send(c, "function", q)
<1>3. /\ \A s : Works(node, c, Err(StatusOnly(d, s)), TRUE)
      /\ \A r : LegibleReply(r, Accepted(c)) => Works(node, c, Ok(WithReply(d, r)), TRUE)
    BY <1>f, SentWorks
<1> HIDE DEF d
<1>4. CASE Failed(a)
    BY <1>2, <1>3, <1>4 DEF apply_response, d
<1>5. CASE ~Failed(a)
    <2> DEFINE bare == [a EXCEPT !.headers = NoHeaders]
               mapped == [status |-> a.status, body |-> Body("function", "text"),
                          headers |-> [NoHeaders EXCEPT !["content-type"] = "text"]]
    <2>1. {"status", "headers", "body"} \subseteq DOMAIN a /\ a.body.enc = << >> /\ "enc" \in DOMAIN a.body
        <3>1. CASE a \in request(q)
            <4>1. LegibleReply(a, Absent)
                BY <1>1, <1>5, <3>1, RepliesLegible
            <4> QED BY <4>1 DEF LegibleReply, Framed
        <3>2. CASE a = Reply(200, "json", NoBody)
            BY <3>2, PlainBodies DEF Reply
        <3> QED BY <3>1, <3>2
    <2>2. o = Err(StatusOnly(d, 503)) \/ o = Ok(WithReply(d, bare)) \/ o = Ok(WithReply(d, mapped))
        BY <1>2, <1>5 DEF map_response, WithReply, d
    <2>3. Framing \subseteq DOMAIN NoHeaders /\ \A n \in Framing : NoHeaders[n] = Absent
        BY DEF NoHeaders, HeaderNames
    <2>4. LegibleReply(bare, Accepted(c))
        BY <2>1, <2>3 DEF LegibleReply, Framed, Framing
    <2>5. LegibleReply(mapped, Accepted(c))
        <3> DEFINE g == [NoHeaders EXCEPT !["content-type"] = "text"]
        <3>1. Framing \subseteq DOMAIN g /\ \A n \in Framing : g[n] = Absent
            BY <2>3 DEF Framing
        <3>2. mapped.headers = g /\ mapped.body = Body("function", "text")
            OBVIOUS
        <3>3. {"status", "headers", "body"} \subseteq DOMAIN mapped
            OBVIOUS
        <3> HIDE DEF g, mapped
        <3> QED BY <3>1, <3>2, <3>3, PlainBodies DEF LegibleReply, Framed, Framing
    <2> HIDE DEF bare, mapped
    <2>6. Works(node, c, Ok(WithReply(d, bare)), TRUE) /\ Works(node, c, Ok(WithReply(d, mapped)), TRUE)
        BY <1>3, <2>4, <2>5
    <2>7. Works(node, c, Err(StatusOnly(d, 503)), TRUE)
        <3>1. PICK s : s = 503
            OBVIOUS
        <3>2. Works(node, c, Err(StatusOnly(d, s)), TRUE)
            BY <1>3
        <3> QED BY <3>1, <3>2
    <2> QED BY <2>2, <2>6, <2>7
<1> QED BY <1>4, <1>5

\* What ran after a node that ended well.
LEMMA MildThen ==
    ASSUME NEW c, NEW any, Ready(c, any), NEW p, p.ok, Mild(c, p, any)
    PROVE  Ready(p.ctx, any) /\ \A o : Mild(p.ctx, o, any) => Mild(c, o, any)
BY DEF Mild, Onward, Ready, Sane

LEMMA MildLua ==
    ASSUME NEW c, NEW any, Ready(c, any), NEW script, LuaRuntime_new(script),
           NEW o \in lua_execute(script, c)
    PROVE  Mild(c, o, any)
<1> DEFINE text == Body("script", "text")
           d == Rewritten(c, text)
           out == [d EXCEPT !.res.status = 403]
           added == [c EXCEPT !.req.headers["x-added"] = "script"]
<1>w. Whole(c)
    BY DEF Ready
<1>1. o = Ok(c) \/ o = Err(c) \/ o = Ok(added) \/ o = Ok(out)
    BY DEF lua_execute, LuaRuntime_new
<1>2. Keeps(c, added)
    <2>1. "x-added" \notin Marks
        BY DEF Marks, Framing
    <2> QED BY <1>w, <2>1, KeepsMark
<1>3. Whole(d) /\ SameReq(c, d) /\ Fresh(d)
    BY <1>w, PlainBodies, RewrittenFresh
<1> HIDE DEF d, added
<1>4. Whole(out) /\ SameReq(c, out) /\ Fresh(out)
    BY <1>3 DEF Whole, SameReq, Fresh
<1> HIDE DEF out
<1>5. Keeps(c, c) /\ Covers(c, c)
    BY <1>w, KeepsAll
<1> QED BY <1>1, <1>2, <1>4, <1>5, KeepMild, FreshMild, GentleErr, GentleIsMild

LEMMA MildServerless ==
    ASSUME NEW c, NEW any, Ready(c, any), NEW cfg, IsList(cfg.functions),
           serverless_from_config(cfg), NEW o \in serverless_run(cfg, c)
    PROVE  Mild(c, o, any)
<1> DEFINE scripts == cfg.functions
           n == Len(scripts)
           upto == CHOOSE f : IsRun(f, n, scripts, c)
<1>1. n \in Nat /\ IsRun(upto, n, scripts, c)
    BY RunExists DEF IsList
<1>2. \A i \in 1 .. n : LuaRuntime_new(scripts[i])
    BY DEF serverless_from_config, IsList
<1> DEFINE D == {k \in 0 .. n : \E p \in upto[k] : ~Mild(c, p, any)}
<1>3. D = {}
    <2> SUFFICES ASSUME D # {} PROVE FALSE
        OBVIOUS
    <2>1. PICK k \in D : \A j \in D : k <= j
        <3>1. D \in SUBSET Nat
            BY <1>1
        <3> QED BY <3>1, LeastNatural
    <2>2. PICK p \in upto[k] : ~Mild(c, p, any)
        BY <2>1
    <2>3. CASE k = 0
        <3>1. p = Ok(c)
            BY <1>1, <2>2, <2>3 DEF IsRun
        <3> QED BY <3>1, <2>2, KeepsAll, KeepMild DEF Ready
    <2>4. CASE k # 0
        <3>0. n \in Nat /\ k \in 0 .. n
            BY <1>1, <2>1
        <3>a. k - 1 \in 0 .. n /\ k \in 1 .. n /\ ~(k <= k - 1)
            BY <2>4, <3>0
        <3>1. k - 1 \in 0 .. n /\ k - 1 \notin D /\ k \in 1 .. n
            <4> HIDE DEF D, n
            <4> QED BY <2>1, <3>a
        <3>2. p \in Continued(scripts, k, upto[k - 1])
            BY <1>1, <2>2, <2>4, <3>1 DEF IsRun
        <3>3. PICK q \in upto[k - 1] :
                  p \in IF q.ok THEN lua_execute(scripts[k], q.ctx) ELSE {q}
            BY <3>2 DEF Continued
        <3>4. Mild(c, q, any)
            BY <3>1
        <3>5. ASSUME q.ok PROVE Mild(c, p, any)
            <4>1. Ready(q.ctx, any)
                BY <3>4, <3>5, MildThen
            <4>2. Mild(q.ctx, p, any)
                BY <3>1, <3>3, <3>5, <4>1, <1>2, MildLua
            <4> QED BY <3>4, <3>5, <4>2, MildThen
        <3> QED BY <2>2, <3>3, <3>4, <3>5
    <2> QED BY <2>3, <2>4
<1>4. serverless_run(cfg, c) = upto[n]
    BY DEF serverless_run, IsRun, Continued
<1>5. n \in 0 .. n /\ n \notin D
    BY <1>1, <1>3
<1> QED BY <1>4, <1>5

LEMMA BackendWorks ==
    ASSUME NEW c, NEW any \in BOOLEAN, Ready(c, any), NEW node, node.type \in BackendTypes,
           backend_created(node), node.type \in Serverless => IsList(node.cfg.functions),
           node.type = "openwhisk" => any,
           NEW o \in backend_execute(node, c)
    PROVE  Works(node, c, o, any)
<1> DEFINE cfg == node.cfg
           target == ToTarget(c)
<1>w. Whole(c) /\ Framed(c.req.headers, c.req.body) /\ Sane(c)
    BY DEF Ready, Honest
<1>k. Keeps(c, c) /\ Mild(c, Ok(c), any)
    BY <1>w, KeepsAll, KeepMild
<1>b. node.type \in Forwarders \cup {"traffic-split", "proxy-mirror"} => Frames(node)
    BY DEF Frames, Backend
<1>t. target.headers = c.req.headers /\ target.body = c.req.body
    BY <1>w DEF ToTarget, Whole
<1>r. \A r \in request(target) : ~Failed(r) => LegibleReply(r, Accepted(c))
    <2> HIDE DEF target
    <2> QED BY <1>w, <1>t, RepliesLegible DEF Sane, Accepted
<1> HIDE DEF target
<1>1. CASE node.type \in {"aws-lambda", "azure-functions", "openfunction"}
    <2>1. \E q \in {aws_lambda_build_request(cfg, c), azure_functions_build_request(cfg, c),
                    openfunction_build_request(cfg, c)} : o \in Invoke(c, q)
        BY <1>1 DEF backend_execute, Serverless, aws_lambda_execute, azure_functions_execute,
                    openfunction_execute
    <2>2. PICK q : /\ o \in Invoke(c, q) /\ Framed(q.headers, q.body)
                   /\ q.headers["accept-encoding"] = Accepted(c)
        BY <2>1, FunctionRequests
    <2>3. PICK a \in request(q) : o = apply_response(Send(c, "function", q), a)
        BY <2>2 DEF Invoke
    <2>4. ~Failed(a) => LegibleReply(a, Accepted(c))
        BY <1>w, <2>2, <2>3, RepliesLegible DEF Sane
    <2>5. Frames(node)
        BY <1>1, <1>b DEF Forwarders
    <2> QED BY <2>2, <2>3, <2>4, <2>5, SentWorks DEF apply_response
<1>2. CASE node.type = "openwhisk"
    <2>1. o \in openwhisk_execute(cfg, c)
        BY <1>2 DEF backend_execute, Serverless
    <2> QED BY <1>2, <2>1, OpenwhiskWorks
<1>3. CASE node.type = "upstream"
    <2> DEFINE ws == [c EXCEPT !.res.status = 101, !.msg["__ws_upstream"] = c.req.path]
    <2>1. o \in upstream_execute(c) /\ Frames(node)
        BY <1>3, <1>b DEF backend_execute, Serverless, Forwarders
    <2>2. \/ o = Ok(ws)
          \/ \E a \in request(target) :
                o = IF Failed(a) THEN Err(Send(c, "upstream", target))
                    ELSE Ok(WithReply(Send(c, "upstream", target), a))
        BY <2>1 DEF upstream_execute, target
    <2>3. Keeps(c, ws)
        BY <1>w DEF Keeps, Whole, SameReq, SameRes
    <2> HIDE DEF ws
    <2> QED BY <1>w, <1>t, <1>r, <2>1, <2>2, <2>3, KeepMild, MildWorks, SentWorks
<1>4. CASE node.type = "proxy-mirror"
    <2> DEFINE q(p) == [c.req EXCEPT !.path = p]
    <2>1. o = Ok(c) \/ \E p : o = Ok(Send(c, "mirror", q(p)))
        BY <1>4 DEF backend_execute, proxy_mirror_execute, Serverless
    <2>2. \A p : q(p).headers = c.req.headers /\ q(p).body = c.req.body
        BY <1>w DEF Whole
    <2>3. Frames(node)
        BY <1>4, <1>b
    <2> HIDE DEF q
    <2> QED BY <1>w, <1>k, <2>1, <2>2, <2>3, MildWorks, SentWorks
<1>5. CASE node.type = "traffic-split"
    <2>1. o \in traffic_split_execute(cfg, c) /\ Frames(node)
        BY <1>5, <1>b DEF backend_execute, Serverless
    <2>2. o = Ok(c) \/ o \in proxy_to_target(c)
        BY <2>1 DEF traffic_split_execute
    <2>3. o \in proxy_to_target(c) =>
             \E a \in request(target) :
                o = IF Failed(a) THEN Err(reject(Send(c, "upstream", target), "traffic-split", 502))
                    ELSE Err(WithReply(Send(c, "upstream", target), a))
        BY DEF proxy_to_target, target
    <2> QED BY <1>5, <1>w, <1>k, <1>t, <1>r, <2>1, <2>2, <2>3, MildWorks, SentWorks
<1>6. CASE node.type = "workflow"
    <2>1. o \in workflow_execute(cfg, c)
        BY <1>6 DEF backend_execute, Serverless
    <2>2. \/ o = Ok(c)
          \/ \E s : \E b \in {NoBody, Body("workflow", "json")} : o = Err(workflow_reject(c, s, b))
        <3> DEFINE hits == {i \in DOMAIN cfg.rules : eval(cfg.rules[i].case, c)}
                   a == cfg.rules[CHOOSE i \in hits : \A j \in hits : i <= j].action
                   text == Body("workflow", "json")
        <3>1. o \in IF hits = {} THEN {Ok(c)}
                    ELSE IF a.type = "return" THEN {Err(workflow_reject(c, a.code, text))}
                    ELSE {Ok(c), Err(workflow_reject(c, 500, text)),
                          Err(workflow_reject(c, Opt(a, "rejected_code", 503), NoBody))}
            BY <2>1, Zenon DEF workflow_execute
        <3> HIDE DEF hits, a, text
        <3>2. \/ o = Ok(c) \/ o = Err(workflow_reject(c, a.code, text))
              \/ o = Err(workflow_reject(c, 500, text))
              \/ o = Err(workflow_reject(c, Opt(a, "rejected_code", 503), NoBody))
            BY <3>1
        <3> QED BY <3>2 DEF text
    <2>3. ASSUME NEW s, NEW b, b.enc = << >>, "enc" \in DOMAIN b
          PROVE  Covers(c, workflow_reject(c, s, b))
        <3>1. PICK d : d = reject(c, "workflow", s) /\ Covers(c, d)
            BY <1>k, CoversReject
        <3> DEFINE e == [d EXCEPT !.res.body = b]
        <3>2. Covers(c, e)
            BY <2>3, <3>1 DEF Covers, Whole, SameReq, OverRes
        <3> QED BY <3>1, <3>2 DEF workflow_reject
    <2>4. \A s : \A b \in {NoBody, Body("workflow", "json")} : Covers(c, workflow_reject(c, s, b))
        BY <2>3, PlainBodies
    <2> QED BY <1>k, <2>2, <2>4, GentleErr, GentleIsMild, MildWorks
<1>7. CASE node.type = "script"
    <2>1. script_from_config(cfg) /\ o \in script_execute(cfg, c)
        BY <1>7 DEF backend_created, backend_execute, Serverless
    <2> QED BY <2>1, MildLua, MildWorks DEF script_from_config, script_execute
<1>8. CASE node.type \in Serverless
    <2>1. serverless_from_config(cfg) /\ o \in serverless_run(cfg, c)
        BY <1>8 DEF backend_created, backend_execute, Serverless
    <2> QED BY <1>8, <2>1, MildServerless, MildWorks
<1> QED BY <1>1, <1>2, <1>3, <1>4, <1>5, <1>6, <1>7, <1>8 DEF BackendTypes, Forwarders

-----------------------------------------------------------------------------
(* A node of any type, and the nodes of the policy. *)

LEMMA NodeWorks ==
    ASSUME NEW c, NEW any \in BOOLEAN, Ready(c, any), NEW node, Lists(node.cfg),
           create_plugin(node), MarksSpared(node), node.type = "openwhisk" => any,
           NEW o \in execute(node, c)
    PROVE  Works(node, c, o, any)
<1> DEFINE cfg == node.cfg
<1>w. Whole(c) /\ HeadersSpared(cfg) /\ KeysSpared(cfg)
    BY DEF Ready, MarksSpared
<1>g. Gentle(c, o) => Works(node, c, o, any)
    BY GentleIsMild, MildWorks
<1>1. CASE node.type \in CredentialTypes
    <2>1. credential_created(node) /\ o \in credential_execute(node, c, Stores[store])
        BY <1>1, OneGroup DEF create_plugin, execute
    <2>2. node.type = "multi-auth" => IsList(cfg.auth_plugins)
        BY <2>1 DEF Lists, credential_created, multi_auth_from_config, Required, SubTypes
    <2> QED BY <1>1, <1>g, <1>w, <2>1, <2>2, GentleCredential
<1>2. CASE node.type \in AuthorizationTypes
    <2>1. o \in authorization_execute(node, c)
        BY <1>2, OneGroup DEF execute
    <2>2. CASE node.type = "opa"
        <3>1. Onward(c, o.ctx, any) /\ (o.said \notin InFraming => Mild(c, o, any))
            BY <1>w, <2>1, <2>2, OpaMild
        <3> QED BY <3>1, MildWorks DEF Works
    <2>3. CASE node.type # "opa"
        BY <1>2, <1>g, <1>w, <2>1, <2>3, GentleRestriction, MildForwardAuth, MildWorks
    <2> QED BY <2>2, <2>3
<1>3. CASE node.type \in ProviderTypes
    <2>1. o \in provider_execute(node, c)
        BY <1>3, OneGroup DEF execute
    <2> QED BY <1>3, <1>g, <1>w, <2>1, GentleProvider
<1>4. CASE node.type \in TransformTypes
    <2>1. transform_created(node) /\ o \in transform_execute(node, c)
        BY <1>4, OneGroup DEF create_plugin, execute
    <2> QED BY <1>4, <2>1, TransformWorks
<1>5. CASE node.type \in CheckTypes
    <2>1. check_created(node) /\ o \in check_execute(node, c)
        BY <1>5, OneGroup DEF create_plugin, execute
    <2> QED BY <1>5, <2>1, CheckWorks, MildWorks
<1>6. CASE node.type \in BackendTypes
    <2>1. backend_created(node) /\ o \in backend_execute(node, c)
        BY <1>6, OneGroup DEF create_plugin, execute
    <2>2. node.type \in Serverless => IsList(cfg.functions)
        BY <2>1 DEF Lists, backend_created, serverless_from_config, Required, Serverless
    <2> QED BY <1>6, <2>1, <2>2, BackendWorks
<1>7. CASE node.type \notin CredentialTypes \cup AuthorizationTypes \cup ProviderTypes
                             \cup TransformTypes \cup CheckTypes \cup BackendTypes
    <2>1. o = Ok(c)
        BY <1>7 DEF execute
    <2> QED BY <1>w, <1>g, <2>1, KeepsAll, GentleOk
<1> QED BY <1>1, <1>2, <1>3, <1>4, <1>5, <1>6, <1>7

\* An option that is wrong or missing spares what the right one spared.
LEMMA SpoiltSpares ==
    ASSUME NEW node, NEW n, IsNode(node, n), NEW o, NEW how, MarksSpared(node)
    PROVE  MarksSpared(Spoilt(node, o, how)) /\ Spoilt(node, o, how).type = node.type
<1> DEFINE cfg == [p \in DOMAIN node.cfg \ (IF how = "missing" THEN {o} ELSE {}) |->
                      IF p = o THEN Bad ELSE node.cfg[p]]
           bad == Spoilt(node, o, how)
<1>1. bad.cfg = cfg /\ bad.type = node.type
    BY DEF Spoilt, IsNode
<1>2. \A p : Has(cfg, p) => Has(node.cfg, p) /\ cfg[p] = node.cfg[p]
    BY DEF Has, Given
<1> HIDE DEF cfg, bad
<1>3. HeadersSpared(cfg)
    BY <1>2 DEF HeadersSpared, MarksSpared
<1>4. KeysSpared(cfg)
    <2>1. "x-api-key" \notin Marks
        BY DEF Marks, Framing
    <2>2. KeyHeader(cfg) \notin Marks
        BY <1>2, <2>1 DEF MarksSpared, KeysSpared, KeyHeader, Opt
    <2> QED BY <1>2, <2>2 DEF MarksSpared, KeysSpared
<1>5. RulesSpare(bad)
    <2>1. Names(cfg, "request") = {} \/ Names(cfg, "request") = Names(node.cfg, "request")
        BY <1>2 DEF Names, Opt
    <2>2. node.type = "data-mask" => \A r \in Names(cfg, "request") : r.type = "header" => r.name \notin Marks
        BY <2>1 DEF MarksSpared, RulesSpare
    <2>3. node.type = "traffic-label" /\ Has(cfg, "rules") =>
              \A i \in DOMAIN cfg.rules : \A a \in cfg.rules[i].actions : Spares(DOMAIN a.set_headers)
        BY <1>2 DEF MarksSpared, RulesSpare
    <2>4. node.type = "fault-injection" /\ Has(cfg, "abort") =>
              (Has(cfg.abort, "headers") => Spares(DOMAIN cfg.abort.headers))
        BY <1>2 DEF MarksSpared, RulesSpare
    <2> QED BY <1>1, <2>2, <2>3, <2>4 DEF RulesSpare
<1> QED BY <1>1, <1>3, <1>4, <1>5 DEF MarksSpared, bad

LEMMA PolicySpares ==
    ASSUME idx \in DOMAIN Chains, fault \in Faults(Chains[idx])
    PROVE  /\ MarksHonoured => \A n \in 1 .. Len(Nodes) : MarksSpared(Nodes[n])
           /\ SplitsWired => \A n \in 1 .. Len(Nodes) :
                                Nodes[n].type = "traffic-split" => Nodes[n].err # 0
<1> DEFINE nodes == Chains[idx].nodes
<1>1. /\ IsList(nodes) /\ \A n \in 1 .. Len(nodes) : IsNode(nodes[n], Len(nodes))
      /\ DOMAIN nodes = 1 .. Len(nodes)
    BY ChainAssumption DEF IsList
<1>2. MarksHonoured => \A n \in 1 .. Len(nodes) : MarksSpared(nodes[n])
    BY <1>1 DEF MarksHonoured
<1>w. SplitsWired => \A n \in 1 .. Len(nodes) : nodes[n].type = "traffic-split" => nodes[n].err # 0
    BY <1>1 DEF SplitsWired
<1>3. CASE fault = << >>
    BY <1>2, <1>3, <1>w DEF Nodes
<1>4. CASE fault # << >>
    <2> DEFINE k == fault[1]
               bad == Spoilt(nodes[k], fault[2], fault[3])
    <2>1. k \in 1 .. Len(nodes)
        BY <1>1, <1>4 DEF Faults
    <2>2. Nodes = [nodes EXCEPT ![k] = bad]
        BY <1>4 DEF Nodes
    <2>3. /\ MarksSpared(nodes[k]) => MarksSpared(bad)
          /\ bad.type = nodes[k].type /\ bad.err = nodes[k].err
        <3>1. PICK node : node = nodes[k] /\ IsNode(node, Len(nodes))
            BY <1>1, <2>1
        <3>2. \A o, how : Spoilt(node, o, how).type = node.type /\ Spoilt(node, o, how).err = node.err
            BY <3>1 DEF Spoilt, IsNode
        <3> QED BY <3>1, <3>2, SpoiltSpares
    <2> HIDE DEF bad
    <2>4. DOMAIN Nodes = 1 .. Len(nodes) /\ IsList(Nodes)
        BY <1>1, <2>2, PolicyNodes
    <2>5. 1 .. Len(Nodes) = 1 .. Len(nodes)
        BY <2>4 DEF IsList
    <2>6. \A n \in 1 .. Len(nodes) : Nodes[n] = IF n = k THEN bad ELSE nodes[n]
        BY <1>1, <2>1, <2>2
    <2> QED BY <1>2, <1>w, <2>1, <2>3, <2>5, <2>6
<1> QED BY <1>3, <1>4

-----------------------------------------------------------------------------
(* The request on its way. *)

Asked  == \E k \in 1 .. Len(trail) : Ran(k).type = "openwhisk"
Answer == \E k \in 1 .. Len(trail) : Frames(Ran(k))
Over   == \E i, j \in 1 .. Len(trail) : i < j /\ Frames(Ran(i)) /\ KeepsFraming(j)
Told   == \E k \in 1 .. Len(trail) : trail[k].said \in InFraming

\* Until a node has framed an answer there is nothing a refusal could be written
\* over; from there on what stands is legible until one is, or OPA has framed a denial.
BodiesInv ==
    /\ client \in Requests
    /\ Ready(ctx, Asked) /\ Accepted(ctx) = client.headers["accept-encoding"]
    /\ ~Answer /\ ~Told => Fresh(ctx)
    /\ SplitsWired /\ ~Over /\ ~Told => Legible(ctx)

LEMMA ReadyMore ==
    ASSUME NEW c, NEW any \in BOOLEAN, NEW more \in BOOLEAN, any => more, Ready(c, any)
    PROVE  Ready(c, more)
BY DEF Ready, Honest

LEMMA BodiesInit ==
    ASSUME MarksHonoured, Init
    PROVE  BodiesInv
<1>1. client \in Requests /\ ctx = NewContext(client) /\ trail = << >>
    BY DEF Init
<1>2. FramedClient(client)
    BY <1>1 DEF MarksHonoured
<1>3. /\ ctx.req = client /\ ctx.sent = {} /\ {"req", "res", "sent"} \subseteq DOMAIN ctx
      /\ {"status", "headers", "body"} \subseteq DOMAIN ctx.res
      /\ ctx.res.headers = NoHeaders /\ ctx.res.body = NoBody
    BY <1>1 DEF NewContext
<1>4. Framing \subseteq DOMAIN NoHeaders /\ \A n \in Framing : NoHeaders[n] = Absent
    BY DEF NoHeaders, HeaderNames
<1>5. Whole(ctx) /\ Fresh(ctx)
    BY <1>2, <1>3, <1>4, PlainBodies DEF Whole, Fresh, FramedClient
<1>6. \A any \in BOOLEAN : Ready(ctx, any)
    BY <1>2, <1>3, <1>5 DEF Ready, Honest, Sane, Accepted, FramedClient
<1>7. Accepted(ctx) = client.headers["accept-encoding"]
    BY <1>3 DEF Accepted
<1>8. Asked \in BOOLEAN
    BY DEF Asked
<1> QED BY <1>1, <1>5, <1>6, <1>7, <1>8, FreshLegible DEF BodiesInv

LEMMA RunNodeKeepsBodies ==
    ASSUME MarksHonoured, ExchangeInv, BodiesInv, RunNode
    PROVE  BodiesInv'
<1>1. /\ idx' = idx /\ fault' = fault /\ client' = client /\ phase = "run" /\ pos # End
      /\ Nodes' = Nodes
    BY DEF RunNode, Nodes
<1>2. /\ IsList(Nodes) /\ \A n \in 1 .. Len(Nodes) : Lists(Nodes[n].cfg)
      /\ \A n \in 1 .. Len(Nodes) : MarksSpared(Nodes[n])
    BY PolicyNodes, PolicySpares DEF ExchangeInv
<1>3. pos \in 1 .. Len(Nodes)
    BY <1>1, <1>2 DEF ExchangeInv, End, IsList
<1> DEFINE node == Nodes[pos]
<1>4. PICK o \in execute(node, ctx) :
          /\ trail' = Append(trail, [pos |-> pos, ok |-> o.ok, said |-> o.said])
          /\ ctx' = IF o.ok THEN o.ctx
                    ELSE IF node.err = 0 THEN Unhandled(Recorded(o.ctx, pos))
                    ELSE Recorded(o.ctx, pos)
    BY DEF RunNode
<1> DEFINE e == [pos |-> pos, ok |-> o.ok, said |-> o.said]
<1>5. create_plugin(node) /\ Lists(node.cfg) /\ MarksSpared(node)
    BY <1>1, <1>2, <1>3 DEF ExchangeInv, Built
<1>6. IsEnd(o)
    BY <1>4, <1>5, NodeEnds DEF ExchangeInv
<1>7. /\ Len(trail) \in Nat /\ Len(trail') = Len(trail) + 1
      /\ \A k \in 1 .. Len(trail) : trail'[k] = trail[k]
      /\ trail'[Len(trail')].pos = pos /\ trail'[Len(trail')].ok = o.ok
      /\ trail'[Len(trail')].said = o.said
    <2>1. e \in Entries /\ trail \in Seq(Entries) /\ e.pos = pos /\ e.ok = o.ok /\ e.said = o.said
        BY <1>3, <1>6 DEF Entries, IsEnd, ExchangeInv
    <2> HIDE DEF e
    <2> QED BY <1>4, <2>1, AppendProperties, LenProperties DEF e
<1>8. /\ \A k \in 1 .. Len(trail) : k \in 1 .. Len(trail') /\ Ran(k)' = Ran(k)
      /\ Len(trail') \in 1 .. Len(trail') /\ Nodes[trail'[Len(trail')].pos] = node
      /\ \A k \in 1 .. Len(trail) : k < Len(trail')
    BY <1>1, <1>7 DEF Ran
<1>9. /\ Asked \in BOOLEAN /\ Asked' \in BOOLEAN /\ (Asked => Asked')
      /\ node.type = "openwhisk" => Asked'
      /\ (Answer => Answer') /\ (Frames(node) => Answer')
      /\ (Over => Over')
      /\ Answer /\ (~o.ok \/ node.type \in Keepers) => Over'
      /\ (Told => Told') /\ (o.said \in InFraming => Told')
    <2> HIDE DEF node
    <2>1. (Asked => Asked') /\ (node.type = "openwhisk" => Asked')
        BY <1>1, <1>8 DEF Asked, Ran
    <2>2. (Answer => Answer') /\ (Frames(node) => Answer')
        BY <1>1, <1>8 DEF Answer, Ran
    <2>3. Over => Over'
        BY <1>1, <1>7, <1>8 DEF Over, KeepsFraming, Ran
    <2>4. Answer /\ (~o.ok \/ node.type \in Keepers) => Over'
        BY <1>1, <1>7, <1>8 DEF Answer, Over, KeepsFraming, Ran, Keepers
    <2>5. (Told => Told') /\ (o.said \in InFraming => Told')
        BY <1>7, <1>8 DEF Told
    <2> QED BY <2>1, <2>2, <2>3, <2>4, <2>5 DEF Asked
<1>10. Ready(ctx, Asked')
    BY <1>9, ReadyMore DEF BodiesInv
<1>11. Works(node, ctx, o, Asked')
    BY <1>4, <1>5, <1>9, <1>10, NodeWorks
<1>12. Ready(o.ctx, Asked') /\ Accepted(o.ctx) = Accepted(ctx)
    BY <1>10, <1>11 DEF Works, Onward, Ready, Sane
<1>13. /\ Ready(ctx', Asked') /\ Accepted(ctx') = Accepted(ctx)
       /\ Fresh(o.ctx) => Fresh(ctx')
       /\ o.ok \/ node.err # 0 => (Legible(o.ctx) => Legible(ctx'))
    <2>1. ASSUME NEW d, Ready(d, Asked'), Covers(o.ctx, d)
          PROVE  Accepted(d) = Accepted(ctx) /\ (Fresh(o.ctx) => Fresh(d))
        <3>1. Onward(o.ctx, d, Asked')
            BY <1>12, <2>1, OnwardSame DEF Covers
        <3> QED BY <1>12, <2>1, <3>1, FreshCovered DEF Onward, Covers
    <2>r. ASSUME NEW d, Covers(o.ctx, d) PROVE Ready(d, Asked')
        <3>1. Onward(o.ctx, d, Asked')
            BY <1>12, <2>r, OnwardSame DEF Covers
        <3> QED BY <1>12, <3>1 DEF Onward, Ready, Sane
    <2>2. PICK d : d = Recorded(o.ctx, pos) /\ Keeps(o.ctx, d) /\ Covers(o.ctx, d)
        <3> DEFINE d == Recorded(o.ctx, pos)
        <3>1. /\ DOMAIN d = DOMAIN o.ctx /\ d.res = o.ctx.res /\ d.sent = o.ctx.sent
              /\ d.req = o.ctx.req
            BY <1>12 DEF Recorded, Ready, Whole
        <3> HIDE DEF d
        <3>2. Keeps(o.ctx, d) /\ Covers(d, d)
            BY <1>12, <3>1, KeepsElsewhere, KeepsAll DEF Ready, Keeps
        <3> QED BY <3>2, KeepsTwice DEF d
    <2>3. Covers(o.ctx, Unhandled(d))
        BY <2>2, CoversReject DEF Unhandled
    <2>4. Legible(o.ctx) => Legible(d)
        BY <1>12, <2>1, <2>2, <2>r, LegibleSame DEF Keeps
    <2>5. CASE o.ok
        BY <1>4, <1>12, <2>5
    <2>6. CASE ~o.ok /\ node.err = 0
        <3>1. ctx' = Unhandled(d)
            BY <1>4, <2>2, <2>6
        <3> QED BY <2>1, <2>3, <2>6, <2>r, <3>1
    <2>7. CASE ~o.ok /\ node.err # 0
        <3>1. ctx' = d
            BY <1>4, <2>2, <2>7
        <3> QED BY <2>1, <2>2, <2>4, <2>r, <3>1
    <2> QED BY <2>5, <2>6, <2>7
<1> HIDE DEF node
<1>14. ~Answer' /\ ~Told' => Fresh(ctx')
    BY <1>9, <1>11, <1>13 DEF BodiesInv, Works
<1>15. ASSUME SplitsWired, ~Over', ~Told' PROVE Legible(ctx')
    <2>1. Legible(ctx) /\ ~Told /\ o.said \notin InFraming
        BY <1>9, <1>15 DEF BodiesInv
    <2>2. CASE o.ok /\ node.type \notin Keepers
        BY <1>11, <1>13, <2>1, <2>2 DEF Works
    <2>3. CASE ~o.ok \/ node.type \in Keepers
        <3>1. Fresh(ctx)
            BY <1>9, <1>15, <2>1, <2>3 DEF BodiesInv
        <3>2. Legible(o.ctx)
            BY <1>11, <2>1, <3>1 DEF Works
        <3>3. CASE o.ok \/ node.err # 0
            BY <1>13, <3>2, <3>3
        <3>4. CASE ~o.ok /\ node.err = 0
            <4>1. node.type # "traffic-split"
                BY <1>3, <1>15, <3>4, PolicySpares DEF ExchangeInv, node
            <4>2. Fresh(o.ctx)
                BY <1>11, <2>1, <3>1, <3>4, <4>1 DEF Works
            <4> QED BY <1>13, <4>2, FreshLegible
        <3> QED BY <3>3, <3>4
    <2> QED BY <2>2, <2>3
<1> QED BY <1>1, <1>13, <1>14, <1>15 DEF BodiesInv

\* What leaves the policy and the trail alone, and the bodies as they are.
LEMMA OthersKeepBodies ==
    ASSUME BodiesInv, UNCHANGED << idx, fault, trail, client >>,
           Onward(ctx, ctx', Asked),
           Fresh(ctx) => Fresh(ctx'), Legible(ctx) => Legible(ctx')
    PROVE  BodiesInv'
<1>1. Nodes' = Nodes
    BY DEF Nodes
<1>2. (Asked' <=> Asked) /\ (Answer' <=> Answer) /\ (Over' <=> Over) /\ (Told' <=> Told)
    BY <1>1 DEF Asked, Answer, Over, Told, KeepsFraming, Ran
<1>3. Asked \in BOOLEAN /\ Asked' \in BOOLEAN
    BY DEF Asked
<1>4. Ready(ctx', Asked)
    BY DEF BodiesInv, Ready, Onward, Sane
<1>5. Ready(ctx', Asked')
    BY <1>2, <1>3, <1>4, ReadyMore
<1> QED BY <1>2, <1>5 DEF BodiesInv, Onward

LEMMA BodiesNext ==
    ASSUME MarksHonoured, ExchangeInv, BodiesInv, [Next]_vars
    PROVE  BodiesInv'
<1>r. Ready(ctx, Asked) /\ Whole(ctx)
    BY DEF BodiesInv, Ready
<1>k. Keeps(ctx, ctx)
    BY <1>r, KeepsAll
<1>m. ASSUME NEW d, Keeps(ctx, d)
      PROVE  Onward(ctx, d, Asked) /\ (Fresh(ctx) => Fresh(d)) /\ (Legible(ctx) => Legible(d))
    <2>1. Onward(ctx, d, Asked)
        BY <1>r, <1>m, OnwardSame DEF Keeps
    <2> QED BY <1>m, <2>1, LegibleSame DEF Keeps, Onward
<1>1. CASE Compile \/ SwapStore \/ Rest \/ UNCHANGED vars
    <2>1. UNCHANGED << idx, fault, trail, client, ctx >>
        BY <1>1 DEF Compile, SwapStore, Rest, vars
    <2> QED BY <1>k, <1>m, <2>1, OthersKeepBodies
<1>2. CASE Route
    <2>1. UNCHANGED << idx, fault, trail, client >> /\ phase = "up"
        BY <1>2 DEF Route
    <2>2. CASE ctx' = ctx
        BY <1>k, <1>m, <2>1, <2>2, OthersKeepBodies
    <2>3. CASE ctx' = reject(ctx, "listener", 404)
        <3>1. Covers(ctx, ctx')
            <4>1. PICK s : s = 404
                OBVIOUS
            <4>2. Covers(ctx, reject(ctx, "listener", s))
                BY <1>k, CoversReject
            <4> QED BY <2>3, <4>1, <4>2
        <3>2. Onward(ctx, ctx', Asked)
            BY <1>r, <3>1, OnwardSame DEF Covers
        <3>3. trail = << >>
            BY <2>1 DEF ExchangeInv
        <3>4. Fresh(ctx)
            BY <3>3 DEF BodiesInv, Answer, Told
        <3>5. Fresh(ctx')
            BY <3>1, <3>4, FreshCovered DEF Covers
        <3> QED BY <2>1, <3>2, <3>5, FreshLegible, OthersKeepBodies
    <2> QED BY <1>2, <2>2, <2>3 DEF Route
<1>3. CASE RunNode
    BY <1>3, RunNodeKeepsBodies
<1>4. CASE Deliver
    <2>1. UNCHANGED << idx, fault, trail, client >>
        BY <1>4 DEF Deliver
    <2> DEFINE q == [ToTarget(ctx) EXCEPT !.path = ctx.msg["__ws_upstream"], !.body = NoBody,
                                          !.headers = remove_ci(@, Framing)]
    <2>2. Framed(q.headers, q.body)
        <3>1. {"headers", "body"} \subseteq DOMAIN ToTarget(ctx) /\ ToTarget(ctx).headers = ctx.req.headers
            BY <1>r DEF ToTarget, Whole
        <3>2. q.body = NoBody /\ q.headers = remove_ci(ctx.req.headers, Framing)
            BY <3>1
        <3>3. \A n \in Framing : remove_ci(ctx.req.headers, Framing)[n] = Absent
            BY <1>r DEF remove_ci, Whole, Marks
        <3> HIDE DEF q
        <3> QED BY <3>2, <3>3, PlainBodies DEF Framed, Framing
    <2>3. PICK s : ctx' = StatusOnly(ctx, s) \/ ctx' = Send(StatusOnly(ctx, s), "upstream", q)
        BY <1>4 DEF Deliver
    <2> HIDE DEF q
    <2>4. PICK d : d = StatusOnly(ctx, s) /\ Keeps(ctx, d)
        BY <1>k, CoversReject
    <2>5. /\ Onward(ctx, d, Asked)
          /\ (Fresh(ctx) => Fresh(d)) /\ (Legible(ctx) => Legible(d))
        BY <1>m, <2>4
    <2>6. Ready(d, Asked)
        BY <1>r, <2>5 DEF Ready, Onward, Sane
    <2>7. CASE ctx' = d
        BY <2>1, <2>5, <2>7, OthersKeepBodies
    <2>8. CASE ctx' = Send(d, "upstream", q)
        <3>1. Onward(d, ctx', Asked) /\ ctx'.res = d.res
            BY <2>2, <2>6, <2>8, SendKeeps
        <3>2. Onward(ctx, ctx', Asked)
            BY <2>5, <3>1 DEF Onward
        <3>3. (Fresh(d) => Fresh(ctx')) /\ (Legible(d) => Legible(ctx'))
            BY <3>1 DEF Fresh, Legible, Onward
        <3> QED BY <2>1, <2>5, <3>2, <3>3, OthersKeepBodies
    <2> QED BY <2>3, <2>4, <2>7, <2>8
<1> QED BY <1>1, <1>2, <1>3, <1>4 DEF Next

LEMMA BodiesAlways ==
    ASSUME MarksHonoured
    PROVE  Spec => []BodiesInv
<1>1. Init => BodiesInv
    BY BodiesInit
<1>2. ExchangeInv /\ BodiesInv /\ [Next]_vars => BodiesInv'
    BY BodiesNext
<1> QED BY <1>1, <1>2, Always, PTL DEF Spec

\* For all policies no option of which has a node write or remove a header bodies are
\* read by, and clients whose own requests are framed: whatever the nodes have made
\* of a request, and whomever it goes to (the upstream, a mirror, a function, an
\* authorization service, a WebSocket), it says truly how its body is coded and how
\* long it is; only OpenWhisk is sent a coded body without a word (openwhisk.rs,
\* data_mask.rs, body_transformer.rs, degraphql.rs, request_validation.rs).
THEOREM RequestsAreFramed ==
    ASSUME MarksHonoured PROVE Spec => []RequestFramed
<1>1. ExchangeInv /\ BodiesInv => RequestFramed
    <2> SUFFICES ASSUME ExchangeInv, BodiesInv, NEW s \in ctx.sent
                 PROVE  Framed(s.req.headers, s.req.body)
                        \/ (\E k \in DOMAIN trail : Ran(k).type = "openwhisk" /\ s.to = "function")
        BY DEF RequestFramed
    <2>1. Framed(s.req.headers, s.req.body) \/ (Asked /\ s.to = "function")
        BY DEF BodiesInv, Ready, Honest
    <2>2. DOMAIN trail = 1 .. Len(trail)
        BY LenProperties DEF ExchangeInv
    <2> QED BY <2>1, <2>2 DEF Asked
<1> QED BY <1>1, Always, BodiesAlways, PTL

\* For the same policies and clients, if every split's error edge leads somewhere:
\* what the client gets says truly how it is coded and how long it is, in a coding
\* the client accepts, whatever has rewritten, filtered, compressed and decoded it,
\* unless a node has answered over an answer and left its framing headers, or OPA has
\* given framing headers to a denial (response_rewrite.rs, gzip.rs, brotli.rs, echo.rs, faas.rs, upstream.rs and the
\* others that answer).
THEOREM ClientsCanRead ==
    ASSUME MarksHonoured, SplitsWired PROVE Spec => []ClientCanRead
<1>1. ExchangeInv /\ BodiesInv => ClientCanRead
    <2> SUFFICES ASSUME ExchangeInv, BodiesInv, \A i \in DOMAIN trail : trail[i].said \notin InFraming,
                        ~\E i, j \in DOMAIN trail : i < j /\ Frames(Ran(i)) /\ KeepsFraming(j)
                 PROVE  /\ Framed(ctx.res.headers, ctx.res.body)
                        /\ LET e == ctx.res.headers["content-encoding"]
                           IN  e \notin {Absent, "identity"} => accepts_encoding([req |-> client], e)
        BY DEF ClientCanRead
    <2>1. DOMAIN trail = 1 .. Len(trail)
        BY LenProperties DEF ExchangeInv
    <2>2. Legible(ctx) /\ Accepted(ctx) = client.headers["accept-encoding"]
        BY <2>1 DEF BodiesInv, Over, Told
    <2> QED BY <2>2 DEF Legible, accepts_encoding
<1> QED BY <1>1, Always, BodiesAlways, PTL

-----------------------------------------------------------------------------
(* Who asks, and with what.  Of a context it matters now what it says of the *)
(* client's credentials and of the consumer, and what has left with it.      *)

Carried(c) ==
    /\ {"req", "res", "msg", "who", "hidden", "sent"} \subseteq DOMAIN c
    /\ {"headers", "query"} \subseteq DOMAIN c.req /\ Vouching \subseteq DOMAIN c.req.headers
    /\ "apikey" \in DOMAIN c.req.query /\ ConsumerKeys \subseteq DOMAIN c.msg

\* What left shows nothing that was to be taken out.
Discreet(s) ==
    \A e \in s.hidden : /\ e[1] \in HeaderNames => s.req.headers[e[1]] # e[2]
                        /\ e[1] \in QueryNames  => s.req.query[e[1]] # e[2]

\* Nothing of this is changed, and nothing left that shows more than it should.
Quiet(c, d) ==
    /\ Carried(d) /\ d.who = c.who /\ d.hidden = c.hidden
    /\ \A n \in Vouching : d.req.headers[n] = c.req.headers[n]
    /\ d.req.query["apikey"] = c.req.query["apikey"]
    /\ \A k \in ConsumerKeys : d.msg[k] = c.msg[k]
    /\ \A s \in d.sent : s \in c.sent \/ Discreet(s)

LEMMA QuietSelf ==
    ASSUME NEW c, Carried(c)
    PROVE  Quiet(c, c)
BY DEF Quiet

LEMMA QuietTwice ==
    ASSUME NEW c, NEW d, Quiet(c, d), NEW e, Quiet(d, e)
    PROVE  Quiet(c, e)
BY DEF Quiet

LEMMA QuietElsewhere ==
    ASSUME NEW c, Carried(c), NEW d, DOMAIN d = DOMAIN c, d.who = c.who, d.hidden = c.hidden,
           d.req = c.req, d.msg = c.msg, d.sent = c.sent
    PROVE  Quiet(c, d)
BY DEF Quiet, Carried

LEMMA QuietRequest ==
    ASSUME NEW c, Carried(c), NEW d, DOMAIN d = DOMAIN c, d.who = c.who, d.hidden = c.hidden,
           d.msg = c.msg, d.sent = c.sent, DOMAIN d.req = DOMAIN c.req,
           DOMAIN d.req.headers = DOMAIN c.req.headers, DOMAIN d.req.query = DOMAIN c.req.query,
           \A n \in Vouching : d.req.headers[n] = c.req.headers[n],
           d.req.query["apikey"] = c.req.query["apikey"]
    PROVE  Quiet(c, d)
BY DEF Quiet, Carried

LEMMA QuietHeader ==
    ASSUME NEW c, Carried(c), NEW n, n \notin Vouching, NEW v
    PROVE  Quiet(c, [c EXCEPT !.req.headers[n] = v])
<1> DEFINE d == [c EXCEPT !.req.headers[n] = v]
<1>1. /\ DOMAIN d = DOMAIN c /\ d.who = c.who /\ d.hidden = c.hidden /\ d.msg = c.msg /\ d.sent = c.sent
      /\ DOMAIN d.req = DOMAIN c.req /\ DOMAIN d.req.headers = DOMAIN c.req.headers
      /\ d.req.query = c.req.query /\ \A m \in Vouching : d.req.headers[m] = c.req.headers[m]
    BY DEF Carried
<1> HIDE DEF d
<1> QED BY <1>1, QuietRequest DEF d

LEMMA QuietMsg ==
    ASSUME NEW c, Carried(c), NEW k, k \notin ConsumerKeys, NEW v
    PROVE  Quiet(c, [c EXCEPT !.msg[k] = v])
BY DEF Quiet, Carried

\* Refusals and answers say nothing of who asks.
LEMMA QuietResponse ==
    ASSUME NEW c, NEW d, Quiet(c, d)
    PROVE  /\ \A by, s : Quiet(c, reject(d, by, s))
           /\ \A s : Quiet(c, StatusOnly(d, s))
           /\ \A s, b : Quiet(c, Answered(d, s, b))
           /\ \A these : Quiet(c, PutHeaders(d, these))
           /\ \A b, h : Quiet(c, WithResponse(d, b, h)) /\ Quiet(c, Rewritten(d, b))
           /\ \A r : Quiet(c, [d EXCEPT !.res = r])
           /\ \A n : Quiet(c, Recorded(d, n)) /\ Quiet(c, Unhandled(d))
<1>1. Carried(d)
    BY DEF Quiet
<1>2. ASSUME NEW e, Quiet(d, e) PROVE Quiet(c, e)
    BY <1>2, QuietTwice
<1>3. ASSUME NEW by, NEW s PROVE Quiet(d, reject(d, by, s))
    <2>1. PICK e : e = reject(d, by, s)
        OBVIOUS
    <2>2. /\ DOMAIN e = DOMAIN d /\ e.who = d.who /\ e.hidden = d.hidden
          /\ e.req = d.req /\ e.msg = d.msg /\ e.sent = d.sent
        BY <1>1, <2>1 DEF reject, Carried
    <2> QED BY <1>1, <2>1, <2>2, QuietElsewhere
<1>4. \A s : Quiet(d, StatusOnly(d, s))
    BY <1>1, QuietElsewhere DEF StatusOnly, Carried
<1>5. \A s, b : Quiet(d, Answered(d, s, b))
    BY <1>1, QuietElsewhere DEF Answered, Carried
<1>6. \A these : Quiet(d, PutHeaders(d, these))
    BY <1>1, QuietElsewhere DEF PutHeaders, Carried
<1>7. \A b, h : Quiet(d, WithResponse(d, b, h))
    BY <1>1, QuietElsewhere DEF WithResponse, Carried
<1>8. \A r : Quiet(d, [d EXCEPT !.res = r])
    BY <1>1, QuietElsewhere DEF Carried
<1>9. \A n : Quiet(d, Recorded(d, n))
    BY <1>1, QuietElsewhere DEF Recorded, Carried
<1> QED BY <1>2, <1>3, <1>4, <1>5, <1>6, <1>7, <1>8, <1>9 DEF Rewritten, Unhandled

LEMMA QuietUser ==
    ASSUME NEW c, NEW d, Quiet(c, d)
    PROVE  \A u : Quiet(c, WithUser(d, u))
<1>1. Carried(d) /\ "user" \notin ConsumerKeys
    BY DEF Quiet, ConsumerKeys
<1>2. \A u : Quiet(d, WithUser(d, u))
    BY <1>1, QuietMsg DEF WithUser
<1> QED BY <1>2, QuietTwice

\* The context a node ends with, however it ends.
LEMMA EndContext ==
    /\ \A d : Ok(d).ctx = d /\ Err(d).ctx = d
    /\ \A d, a : Said(Ok(d), a).ctx = d /\ Said(Err(d), a).ctx = d
BY DEF Ok, Err, Said

LEMMA QuietEnds ==
    ASSUME NEW c, NEW d, Quiet(c, d), NEW o, NEW s,
           \/ o \in {Ok(d), Err(d), Ok(StatusOnly(d, s)), Err(StatusOnly(d, s))}
           \/ \E by : o \in {Ok(reject(d, by, s)), Err(reject(d, by, s))}
           \/ \E b : o \in {Ok(Answered(d, s, b)), Err(Answered(d, s, b))}
           \/ \E a : \/ o \in {Said(Ok(d), a), Said(Err(d), a), Said(Err(StatusOnly(d, s)), a)}
                     \/ \E by : o = Said(Err(reject(d, by, s)), a)
                     \/ \E b : o = Said(Err(Answered(d, s, b)), a)
    PROVE  Quiet(c, o.ctx)
<1>1. o.ctx \in {d, StatusOnly(d, s)} \/ (\E by : o.ctx = reject(d, by, s))
      \/ (\E b : o.ctx = Answered(d, s, b))
    BY EndContext
<1> QED BY <1>1, QuietResponse

-----------------------------------------------------------------------------
(* Credentials on their way.  w is the request as the client sent it.        *)

\* The credential a is v, or was made of it.
Claimed(v, a) ==
    /\ v # Absent /\ IsClaim(v) /\ IsClaim(a) /\ a.id = v.id /\ a.secret = v.secret
    /\ a = v \/ a.scheme = "bearer"

\* What says who asks is the client's or the provider's, if it is there.
Kept(w, c) ==
    /\ c.req.query["apikey"] \in {Absent, w.query["apikey"]}
    /\ c.req.headers["x-api-key"] \in {Absent, w.headers["x-api-key"]}
    /\ c.req.headers["x-hmac-signature"] \in {Absent, w.headers["x-hmac-signature"]}
    /\ c.req.headers["x-userinfo"] \in {Absent, w.headers["x-userinfo"], "provider's"}
    /\ \/ c.req.headers["authorization"] \in {Absent, SessionToken}
       \/ Claimed(w.headers["authorization"], c.req.headers["authorization"])

\* What was hidden is out of its place, and nothing that may come there is it.
Out(w, c, e) ==
    \/ e[1] = "apikey" /\ c.req.query["apikey"] = Absent /\ e[2] # Absent
    \/ e[1] = "x-api-key" /\ c.req.headers["x-api-key"] = Absent /\ e[2] \in Keys(w)
    \/ e[1] = "x-hmac-signature" /\ c.req.headers["x-hmac-signature"] = Absent /\ e[2] # Absent
    \/ /\ e[1] = "authorization" /\ c.req.headers["authorization"] \in {Absent, SessionToken}
       /\ e[2] \in Claims(w) /\ e[2] # SessionToken
    \/ /\ e[1] = "x-userinfo" /\ c.req.headers["x-userinfo"] \in {Absent, "provider's"}
       /\ e[2] \notin {Absent, "provider's"}

Guarded(w, c) ==
    /\ Carried(c) /\ Kept(w, c)
    /\ \A e \in c.hidden : Out(w, c, e)
    /\ \A s \in c.sent : Discreet(s)

\* The identity is as it was.
SameWho(c, d) ==
    /\ d.who = c.who /\ \A k \in ConsumerKeys : d.msg[k] = c.msg[k]
    /\ \A n \in {"x-consumer-username", "x-consumer-custom-id"} :
          d.req.headers[n] = c.req.headers[n]

LEMMA SameWhoTwice ==
    ASSUME NEW c, NEW d, SameWho(c, d), NEW e, SameWho(d, e)
    PROVE  SameWho(c, e)
BY DEF SameWho

LEMMA QuietGuarded ==
    ASSUME NEW w, NEW c, Guarded(w, c), NEW d, Quiet(c, d)
    PROVE  Guarded(w, d) /\ SameWho(c, d)
<1>1. /\ d.req.headers["x-api-key"] = c.req.headers["x-api-key"]
      /\ d.req.headers["x-hmac-signature"] = c.req.headers["x-hmac-signature"]
      /\ d.req.headers["x-userinfo"] = c.req.headers["x-userinfo"]
      /\ d.req.headers["authorization"] = c.req.headers["authorization"]
      /\ d.req.query["apikey"] = c.req.query["apikey"] /\ d.hidden = c.hidden /\ Carried(d)
    BY DEF Quiet, Vouching
<1>2. Kept(w, d)
    BY <1>1 DEF Guarded, Kept
<1>3. \A e \in d.hidden : Out(w, d, e)
    BY <1>1 DEF Guarded, Out
<1>4. \A s \in d.sent : Discreet(s)
    BY DEF Guarded, Quiet
<1>5. SameWho(c, d)
    BY DEF SameWho, Quiet, Vouching
<1> QED BY <1>1, <1>2, <1>3, <1>4, <1>5 DEF Guarded

\* The names of the places are not those of others.
LEMMA Places ==
    /\ "apikey" \notin HeaderNames
    /\ {"x-api-key", "x-hmac-signature", "authorization", "x-userinfo"} \cap QueryNames = {}
BY DEF HeaderNames, QueryNames, Framing

\* A request may leave that carries no more than the one it was made of, or the
\* gateway's own credentials.
LEMMA SendGuarded ==
    ASSUME NEW w, NEW c, Guarded(w, c), NEW to, NEW q,
           q.query["apikey"] \in {Absent, c.req.query["apikey"]},
           q.headers["x-api-key"] \in {Absent, c.req.headers["x-api-key"]}
              \/ q.headers["x-api-key"] \notin Keys(w),
           q.headers["x-hmac-signature"] \in {Absent, c.req.headers["x-hmac-signature"]},
           q.headers["x-userinfo"] \in {Absent, c.req.headers["x-userinfo"]},
           q.headers["authorization"] \in {Absent, c.req.headers["authorization"]}
              \/ q.headers["authorization"] \notin Claims(w)
    PROVE  Quiet(c, Send(c, to, q)) /\ Send(c, to, q).req = c.req
<1> DEFINE s == [to |-> to, req |-> q, hidden |-> c.hidden]
           d == Send(c, to, q)
<1>1. s.req = q /\ s.hidden = c.hidden
    OBVIOUS
<1>2. /\ DOMAIN d = DOMAIN c /\ d.who = c.who /\ d.hidden = c.hidden /\ d.req = c.req /\ d.msg = c.msg
      /\ d.sent = c.sent \cup {s}
    BY DEF Send, Guarded, Carried
<1> HIDE DEF s, d
<1>3. Discreet(s)
    <2> SUFFICES ASSUME NEW e \in c.hidden
                 PROVE  /\ e[1] \in HeaderNames => q.headers[e[1]] # e[2]
                        /\ e[1] \in QueryNames  => q.query[e[1]] # e[2]
        BY <1>1 DEF Discreet
    <2>1. Out(w, c, e)
        BY DEF Guarded
    <2>2. CASE e[1] = "apikey" /\ c.req.query["apikey"] = Absent /\ e[2] # Absent
        BY <2>2, Places
    <2>3. CASE e[1] = "x-api-key" /\ c.req.headers["x-api-key"] = Absent /\ e[2] \in Keys(w)
        BY <2>3, Places DEF Keys
    <2>4. CASE e[1] = "x-hmac-signature" /\ c.req.headers["x-hmac-signature"] = Absent /\ e[2] # Absent
        BY <2>4, Places
    <2>5. CASE /\ e[1] = "authorization" /\ c.req.headers["authorization"] \in {Absent, SessionToken}
               /\ e[2] \in Claims(w) /\ e[2] # SessionToken
        BY <2>5, Places DEF Claims
    <2>6. CASE /\ e[1] = "x-userinfo" /\ c.req.headers["x-userinfo"] \in {Absent, "provider's"}
               /\ e[2] \notin {Absent, "provider's"}
        BY <2>6, Places
    <2> QED BY <2>1, <2>2, <2>3, <2>4, <2>5, <2>6 DEF Out
<1>4. Quiet(c, d)
    BY <1>2, <1>3 DEF Guarded, Quiet, Carried
<1> QED BY <1>2, <1>4 DEF d

-----------------------------------------------------------------------------
(* Authorization. *)

LEMMA QuietRestriction ==
    ASSUME NEW c, Carried(c), NEW node, node.type \in AuthorizationTypes \ {"opa", "forward-auth"},
           NEW o \in authorization_execute(node, c)
    PROVE  Quiet(c, o.ctx)
<1> DEFINE cfg == node.cfg
<1>0. Quiet(c, c)
    BY QuietSelf
<1>g. ASSUME o = Ok(c) \/ \E by, s : o = Err(reject(c, by, s))
      PROVE  Quiet(c, o.ctx)
    BY <1>0, <1>g, QuietEnds
<1>1. CASE node.type = "acl"
    BY <1>1, <1>g DEF authorization_execute, acl_execute, Guard
<1>2. CASE node.type = "consumer-restriction"
    BY <1>2, <1>g DEF authorization_execute, consumer_restriction_execute, Guard
<1>3. CASE node.type = "authz-casbin"
    BY <1>3, <1>g DEF authorization_execute, authz_casbin_execute, Guard
<1>4. CASE node.type = "ip-restriction"
    BY <1>4, <1>g DEF authorization_execute, ip_restriction_execute, Guard
<1>5. CASE node.type = "ua-restriction"
    <2>1. o \in ua_restriction_execute(cfg, c)
        BY <1>5 DEF authorization_execute
    <2>2. o = Ok(c) \/ o = Err(reject(c, "ua-restriction", Code(cfg)))
        BY <2>1 DEF ua_restriction_execute, Guard
    <2> QED BY <2>2, <1>g
<1>6. CASE node.type = "referer-restriction"
    <2>1. o \in referer_restriction_execute(cfg, c)
        BY <1>6 DEF authorization_execute
    <2>2. o = Ok(c) \/ o = Err(reject(c, "referer-restriction", 403))
        BY <2>1 DEF referer_restriction_execute, Guard
    <2> QED BY <2>2, <1>g
<1>7. CASE node.type = "uri-blocker"
    <2>1. o = Ok(c) \/ o = Err(reject(c, "uri-blocker", Code(cfg)))
          \/ o = Err(Answered(c, Code(cfg), NoBody))
        BY <1>7 DEF authorization_execute, uri_blocker_execute
    <2> QED BY <1>0, <1>g, <2>1, QuietEnds
<1>8. CASE node.type = "csrf"
    <2>1. o = Ok(set_cookie(cfg, c)) \/ o = Err(reject(c, "csrf", 401))
        BY <1>8 DEF authorization_execute, csrf_execute
    <2>2. Quiet(c, set_cookie(cfg, c))
        BY QuietElsewhere DEF set_cookie, Carried
    <2> QED BY <1>g, <2>1, <2>2, QuietEnds
<1>9. CASE node.type = "authz-keycloak"
    <2>1. \/ o = Ok(c) \/ o = Err(reject(c, "authz-keycloak", 403)) \/ o = Said(Ok(c), "allow")
          \/ \E a : o = Said(Err(reject(c, "authz-keycloak", 403)), a)
        BY <1>9 DEF authorization_execute, authz_keycloak_execute, Guard
    <2>2. o.ctx = c \/ \E s : o.ctx = reject(c, "authz-keycloak", s)
        BY <2>1, EndContext
    <2> QED BY <1>0, <2>2, QuietResponse
<1>10. CASE node.type = "wolf-rbac"
    <2> DEFINE by == [c EXCEPT !.req.headers["x-userid"] = "wolf"]
               named == WithUser(by, "wolf")
    <2>1. Quiet(c, by)
        <3>1. "x-userid" \notin Vouching
            BY DEF Vouching
        <3> QED BY <3>1, QuietHeader
    <2>2. Quiet(c, named)
        <3> HIDE DEF by
        <3> QED BY <2>1, QuietUser
    <2>3. \/ o = Err(reject(c, "wolf-rbac", 401)) \/ o = Said(Err(StatusOnly(c, 500)), "error")
          \/ \E d \in {c, named} : \/ o = Said(Ok(d), "allow")
                                   \/ o = Said(Err(reject(d, "wolf-rbac", 401)), "deny")
        BY <1>10 DEF authorization_execute, wolf_rbac_execute
    <2> HIDE DEF named
    <2>4. \E d \in {c, named} : \E s : o.ctx = d \/ o.ctx = StatusOnly(d, s)
                                     \/ o.ctx = reject(d, "wolf-rbac", s)
        BY <2>3, EndContext
    <2> QED BY <1>0, <2>2, <2>4, QuietResponse
<1> QED BY <1>1, <1>2, <1>3, <1>4, <1>5, <1>6, <1>7, <1>8, <1>9, <1>10 DEF AuthorizationTypes

LEMMA QuietAllow ==
    ASSUME NEW c, NEW d, Quiet(c, d), NEW names, Vouching \cap names = {}, NEW given
    PROVE  Quiet(c, apply_allow(d, names, given))
<1>1. Carried(d)
    BY DEF Quiet
<1>2. Quiet(d, apply_allow(d, names, given))
    <2> DEFINE e == apply_allow(d, names, given)
    <2>1. /\ DOMAIN e = DOMAIN d /\ e.who = d.who /\ e.hidden = d.hidden /\ e.msg = d.msg
          /\ e.sent = d.sent /\ DOMAIN e.req = DOMAIN d.req /\ e.req.query = d.req.query
          /\ DOMAIN e.req.headers = DOMAIN d.req.headers
          /\ \A n \in Vouching : e.req.headers[n] = d.req.headers[n]
        BY <1>1 DEF apply_allow, Carried
    <2> HIDE DEF e
    <2> QED BY <1>1, <2>1, QuietRequest DEF e
<1> QED BY <1>2, QuietTwice

\* The question to opa is the request as it is.
LEMMA QuietOpa ==
    ASSUME NEW w, NEW c, Guarded(w, c), NEW node, node.type = "opa", OptionsSpare(node.cfg),
           NEW o \in authorization_execute(node, c)
    PROVE  Quiet(c, o.ctx)
<1> DEFINE cfg == node.cfg
           names == Names(cfg, "send_headers_upstream")
           q == [c.req EXCEPT !.headers = remove_ci(@, Framing), !.body = NoBody]
<1>1. /\ q.query = c.req.query
      /\ \A n \in Vouching : q.headers[n] = c.req.headers[n]
    <2>1. Vouching \cap Framing = {}
        BY DEF Vouching, Framing
    <2> QED BY <2>1 DEF Guarded, Carried, remove_ci
<1>2. PICK d : d = build_opa_input(c) /\ Quiet(c, d)
    <2> HIDE DEF q
    <2>1. build_opa_input(c) = Send(c, "opa", q)
        BY DEF build_opa_input, q
    <2> QED BY <1>1, <2>1, SendGuarded DEF Vouching
<1>3. Vouching \cap names = {}
    BY DEF OptionsSpare, Names, Opt
<1>4. \/ \E a \in {"allow", "plain", "error", "garbled"} : o = opa_outcome(cfg, d, a)
      \/ \E r \in OpaDenials : o = build_deny(d, r)
    BY <1>2 DEF authorization_execute, opa_execute
<1>5. \E s, b, h : o.ctx \in {apply_allow(d, names, TRUE), apply_allow(d, names, FALSE),
                               StatusOnly(d, s), PutHeaders(Answered(d, s, b), h)}
    <2>1. ASSUME o = opa_outcome(cfg, d, "allow") PROVE o.ctx = apply_allow(d, names, TRUE)
        BY <2>1, EndContext DEF opa_outcome
    <2>2. ASSUME o = opa_outcome(cfg, d, "plain") PROVE o.ctx = apply_allow(d, names, FALSE)
        BY <2>2, EndContext DEF opa_outcome
    <2>3. ASSUME o = opa_outcome(cfg, d, "error") PROVE \E s : o.ctx = StatusOnly(d, s)
        <3>1. o = Said(Err(StatusOnly(d, 403)), "error")
            BY <2>3 DEF opa_outcome
        <3>2. o.ctx = StatusOnly(d, 403)
            BY <3>1, EndContext
        <3> QED BY <3>2
    <2>4. ASSUME o = opa_outcome(cfg, d, "garbled") PROVE \E s : o.ctx = StatusOnly(d, s)
        <3>1. o = Said(Err(StatusOnly(d, 503)), "garbled")
            BY <2>4 DEF opa_outcome
        <3>2. o.ctx = StatusOnly(d, 503)
            BY <3>1, EndContext
        <3> QED BY <3>2
    <2>5. ASSUME NEW r \in OpaDenials, o = build_deny(d, r)
          PROVE  \E s, b, h : o.ctx = PutHeaders(Answered(d, s, b), h)
        BY <2>5, EndContext DEF build_deny
    <2> QED BY <1>4, <2>1, <2>2, <2>3, <2>4, <2>5
<1> HIDE DEF names
<1>6. Quiet(c, apply_allow(d, names, TRUE)) /\ Quiet(c, apply_allow(d, names, FALSE))
    BY <1>2, <1>3, QuietAllow
<1>7. \A s, b : Quiet(c, StatusOnly(d, s)) /\ Quiet(c, Answered(d, s, b))
    BY <1>2, QuietResponse
<1>8. \A s, b, h : Quiet(c, PutHeaders(Answered(d, s, b), h))
    BY <1>7, QuietResponse
<1> QED BY <1>5, <1>6, <1>7, <1>8

\* The callout of forward-auth carries headers of the request as it is.
LEMMA QuietForwardAuth ==
    ASSUME NEW w, NEW c, Guarded(w, c), NEW node, node.type = "forward-auth",
           OptionsSpare(node.cfg), NEW o \in authorization_execute(node, c)
    PROVE  Quiet(c, o.ctx)
<1> DEFINE cfg == node.cfg
           names == Names(cfg, "upstream_headers")
           posts == Opt(cfg, "request_method", "GET") = "POST"
           q == [c.req EXCEPT !.headers = build_callout_headers(cfg, c),
                              !.body = IF posts THEN @ ELSE NoBody]
           text == Body("service", "text")
<1>1. /\ q.query = c.req.query
      /\ \A n \in Vouching : q.headers[n] \in {Absent, c.req.headers[n]}
    <2> DEFINE h == build_callout_headers(cfg, c)
    <2>1. \A n \in Vouching : h[n] \in {Absent, c.req.headers[n]}
        BY DEF build_callout_headers, HeaderNames, Vouching
    <2> HIDE DEF h
    <2>2. q.headers = h /\ q.query = c.req.query
        BY DEF Guarded, Carried, h
    <2> QED BY <2>1, <2>2
<1>2. PICK d : d = ForwardCallout(cfg, c) /\ Quiet(c, d)
    <2>1. ForwardCallout(cfg, c) = Send(c, "forward-auth", q)
        BY DEF ForwardCallout
    <2> HIDE DEF q
    <2> QED BY <1>1, <2>1, SendGuarded DEF Vouching
<1>3. Vouching \cap names = {}
    BY DEF OptionsSpare, Names, Opt
<1>4. \/ o = Said(Ok(apply_allow(d, names, TRUE)), "allow")
      \/ o = Said(Ok(apply_allow(d, names, FALSE)), "plain")
      \/ o = Said(Err(Answered(d, 302, text)), "deny") \/ o = Said(Err(Answered(d, 403, text)), "deny")
      \/ o = Said(IF Opt(cfg, "allow_degradation", FALSE) THEN Ok(d)
                  ELSE Err(StatusOnly(d, Opt(cfg, "status_on_error", 403))), "error")
    <2>1. o \in forward_auth_execute(cfg, c)
        BY DEF authorization_execute
    <2> QED BY <1>2, <2>1, Zenon DEF forward_auth_execute
<1> HIDE DEF names, text
<1>5. Quiet(c, apply_allow(d, names, TRUE)) /\ Quiet(c, apply_allow(d, names, FALSE))
    BY <1>2, <1>3, QuietAllow
<1>6. \E s : \/ o = Said(Ok(apply_allow(d, names, TRUE)), "allow")
             \/ o = Said(Ok(apply_allow(d, names, FALSE)), "plain")
             \/ o = Said(Err(Answered(d, s, text)), "deny")
             \/ o = Said(Ok(d), "error") \/ o = Said(Err(StatusOnly(d, s)), "error")
    BY <1>4
<1> QED BY <1>2, <1>5, <1>6, QuietEnds

LEMMA QuietAuthorization ==
    ASSUME NEW w, NEW c, Guarded(w, c), NEW node, node.type \in AuthorizationTypes,
           OptionsSpare(node.cfg), NEW o \in authorization_execute(node, c)
    PROVE  Quiet(c, o.ctx)
BY QuietRestriction, QuietOpa, QuietForwardAuth DEF Guarded

-----------------------------------------------------------------------------
(* Transformations and checks. *)

LEMMA QuietBody ==
    ASSUME NEW c, Carried(c), NEW b, NEW gone, Vouching \cap gone = {}
    PROVE  Quiet(c, [c EXCEPT !.req.body = b, !.req.headers = remove_ci(@, gone)])
<1> DEFINE d == [c EXCEPT !.req.body = b, !.req.headers = remove_ci(@, gone)]
<1>1. /\ DOMAIN d = DOMAIN c /\ d.who = c.who /\ d.hidden = c.hidden /\ d.msg = c.msg /\ d.sent = c.sent
      /\ DOMAIN d.req = DOMAIN c.req /\ d.req.query = c.req.query
      /\ d.req.headers = remove_ci(c.req.headers, gone)
    BY DEF Carried
<1>2. /\ DOMAIN remove_ci(c.req.headers, gone) = DOMAIN c.req.headers
      /\ \A n \in Vouching : remove_ci(c.req.headers, gone)[n] = c.req.headers[n]
    BY DEF remove_ci, Carried
<1> HIDE DEF d
<1>3. Quiet(c, d)
    BY <1>1, <1>2, QuietRequest
<1> QED BY <1>3 DEF d

LEMMA QuietDataMask ==
    ASSUME NEW c, Carried(c), NEW node, node.type = "data-mask", VouchingSpared(node),
           NEW o \in data_mask_execute(node.cfg, c)
    PROVE  Quiet(c, o.ctx)
<1> DEFINE cfg == node.cfg
           of(t) == {r \in Names(cfg, "request") : r.type = t}
           h == apply_to_multimap(c.req.headers, of("header"))
           p == apply_to_multimap(c.req.query, of("query"))
           d == [c EXCEPT !.req.query = apply_to_multimap(@, of("query")),
                          !.req.headers = apply_to_multimap(@, of("header"))]
<1>1. o = Ok(d) \/ o = Ok(apply_to_json(d))
    BY DEF data_mask_execute
<1>s. \A r \in of("header") \cup of("query") : r.name \notin Vouching \cup {"apikey"}
    BY DEF VouchingSpared
<1>2. /\ DOMAIN h = DOMAIN c.req.headers /\ \A n \in Vouching : h[n] = c.req.headers[n]
      /\ DOMAIN p = DOMAIN c.req.query /\ p["apikey"] = c.req.query["apikey"]
    <2> HIDE DEF of
    <2> QED BY <1>s DEF apply_to_multimap, Carried
<1>3. /\ DOMAIN d = DOMAIN c /\ d.who = c.who /\ d.hidden = c.hidden /\ d.msg = c.msg /\ d.sent = c.sent
      /\ DOMAIN d.req = DOMAIN c.req /\ d.req.headers = h /\ d.req.query = p
    BY DEF Carried
<1> HIDE DEF of, h, p, d
<1>4. Quiet(c, d)
    BY <1>2, <1>3, QuietRequest
<1>5. Quiet(d, apply_to_json(d))
    <2>1. Vouching \cap {"content-length"} = {}
        BY DEF Vouching
    <2> QED BY <1>4, <2>1, QuietBody DEF Quiet, apply_to_json
<1> QED BY <1>1, <1>4, <1>5, QuietTwice, EndContext

LEMMA QuietDegraphql ==
    ASSUME NEW c, Carried(c), NEW cfg, NEW o \in degraphql_execute(cfg, c)
    PROVE  Quiet(c, o.ctx)
<1> DEFINE g == insert(remove_ci(c.req.headers, Framing), "content-type", "json")
           d == [c EXCEPT !.req.method = "POST", !.req.body = Body("degraphql", "json"),
                          !.req.headers = insert(remove_ci(@, Framing), "content-type", "json")]
<1>1. (\E s : o = Err(reject(c, "degraphql", s))) \/ o = Ok(d)
    BY DEF degraphql_execute
<1>2. Vouching \cap Framing = {} /\ "content-type" \notin Vouching
    BY DEF Vouching, Framing
<1>3. /\ DOMAIN d = DOMAIN c /\ d.who = c.who /\ d.hidden = c.hidden /\ d.msg = c.msg /\ d.sent = c.sent
      /\ DOMAIN d.req = DOMAIN c.req /\ d.req.headers = g /\ d.req.query = c.req.query
    BY DEF Carried
<1>4. DOMAIN g = DOMAIN c.req.headers /\ \A n \in Vouching : g[n] = c.req.headers[n]
    BY <1>2 DEF insert, remove_ci, Carried
<1> HIDE DEF g, d
<1>5. Quiet(c, d) /\ Quiet(c, c)
    BY <1>3, <1>4, QuietRequest, QuietSelf
<1> QED BY <1>1, <1>5, QuietResponse, EndContext

LEMMA QuietProxyRewrite ==
    ASSUME NEW c, Carried(c), NEW cfg, OptionsSpare(cfg), NEW o \in proxy_rewrite_execute(cfg, c)
    PROVE  Quiet(c, o.ctx)
<1> DEFINE add == Opt(cfg, "add_headers", << >>)
           gone == Names(cfg, "remove_headers")
           headers(h) == remove_ci([k \in DOMAIN h |-> IF k \in DOMAIN add /\ h[k] = Absent
                                                       THEN add[k] ELSE h[k]], gone)
           answers(h) == [c EXCEPT !.res.headers = h]
           asks(p, h) == [c EXCEPT !.req.path = p, !.req.headers = h]
<1>1. Vouching \cap DOMAIN add = {} /\ Vouching \cap gone = {}
    BY DEF OptionsSpare, Opt, Names
<1>2. \E p : o = Ok(answers(headers(c.res.headers))) \/ o = Ok(asks(p, headers(c.req.headers)))
    BY DEF proxy_rewrite_execute
<1> HIDE DEF add, gone
<1>3. \A h : DOMAIN headers(h) = DOMAIN h /\ \A n \in Vouching \cap DOMAIN h : headers(h)[n] = h[n]
    BY <1>1 DEF remove_ci
<1> HIDE DEF headers
<1>4. Quiet(c, answers(headers(c.res.headers)))
    BY QuietElsewhere DEF Carried
<1>5. \A p : Quiet(c, asks(p, headers(c.req.headers)))
    <2> TAKE p
    <2> DEFINE g == headers(c.req.headers)
               d == asks(p, g)
    <2>1. DOMAIN g = DOMAIN c.req.headers /\ \A n \in Vouching : g[n] = c.req.headers[n]
        BY <1>3 DEF Carried
    <2> HIDE DEF g
    <2>2. /\ DOMAIN d = DOMAIN c /\ d.who = c.who /\ d.hidden = c.hidden /\ d.msg = c.msg
          /\ d.sent = c.sent /\ DOMAIN d.req = DOMAIN c.req /\ d.req.headers = g
          /\ d.req.query = c.req.query
        BY DEF Carried
    <2> HIDE DEF d
    <2>3. Quiet(c, d)
        BY <2>1, <2>2, QuietRequest
    <2> QED BY <2>3 DEF d, g
<1> HIDE DEF answers, asks
<1> QED BY <1>2, <1>4, <1>5, EndContext

LEMMA QuietTransform ==
    ASSUME NEW c, Carried(c), NEW node, node.type \in TransformTypes, VouchingSpared(node),
           NEW o \in transform_execute(node, c)
    PROVE  Quiet(c, o.ctx)
<1> DEFINE cfg == node.cfg
<1>0. Quiet(c, c)
    BY QuietSelf
<1>1. CASE node.type = "response-rewrite"
    <2> DEFINE coded == IF Given(cfg, "status_code") THEN StatusOnly(c, cfg.status_code) ELSE c
               body  == IF Given(cfg, "body") THEN Rewritten(coded, Body("response-rewrite", "text"))
                        ELSE IF Given(cfg, "filters") THEN apply_filters(coded) ELSE coded
    <2>1. o = Ok(c) \/ \E put : o = Ok(PutHeaders(body, put))
        BY <1>1 DEF transform_execute, response_rewrite_execute
    <2>2. Quiet(c, coded)
        BY <1>0, QuietResponse
    <2> HIDE DEF coded
    <2>3. Quiet(c, body)
        BY <2>2, QuietResponse DEF apply_filters
    <2> HIDE DEF body
    <2> QED BY <1>0, <2>1, <2>3, QuietResponse, EndContext
<1>2. CASE node.type \in {"gzip", "brotli"}
    <2>1. o = Ok(c) \/ \E e : o = Ok(Compress(c, e))
        BY <1>2 DEF transform_execute, gzip_execute, brotli_execute
    <2> QED BY <1>0, <2>1, QuietResponse, EndContext DEF Compress
<1>3. CASE node.type = "body-transformer"
    <2>1. \E d \in {c, TransformRequest(c)} : \E s, b : o.ctx \in {reject(d, "body-transformer", s), d, Rewritten(d, b)}
        <3>1. \E d \in {c, TransformRequest(c)} :
                  \/ \E s : o = Err(reject(d, "body-transformer", s))
                  \/ o = Ok(d) \/ \E b : o = Ok(Rewritten(d, b))
            BY <1>3 DEF transform_execute, body_transformer_execute
        <3> QED BY <3>1, EndContext
    <2>2. Quiet(c, TransformRequest(c))
        <3>1. Vouching \cap Framing = {}
            BY DEF Vouching, Framing
        <3> QED BY <3>1, QuietBody DEF TransformRequest
    <2> QED BY <1>0, <2>1, <2>2, QuietResponse
<1>4. CASE node.type = "cors"
    <2>1. o = Ok(c) \/ \E s : o = Ok(Answered(c, s, NoBody))
        BY <1>4 DEF transform_execute, cors_execute
    <2> QED BY <1>0, <2>1, QuietResponse, EndContext
<1>5. CASE node.type = "echo"
    <2>1. \E b, h : o = Ok(WithResponse(c, b, h))
        BY <1>5 DEF transform_execute, echo_execute
    <2>2. \A b, h : Quiet(c, WithResponse(c, b, h))
        BY <1>0, QuietResponse
    <2> QED BY <2>1, <2>2, EndContext
<1>6. CASE node.type = "data-mask"
    BY <1>6, QuietDataMask DEF transform_execute
<1>7. CASE node.type = "error-page"
    <2> DEFINE d == Rewritten(c, Body("error-page", "text"))
               e == [d EXCEPT !.res.headers["content-type"] = "text"]
    <2>1. o = Ok(c) \/ o = Ok(e)
        BY <1>7 DEF transform_execute, error_page_execute
    <2>2. Quiet(c, d)
        BY <1>0, QuietResponse
    <2> HIDE DEF d
    <2>3. Quiet(d, e)
        BY <2>2, QuietElsewhere DEF Quiet, Carried
    <2> HIDE DEF e
    <2> QED BY <1>0, <2>1, <2>2, <2>3, QuietTwice, EndContext
<1>8. CASE node.type = "exit-transformer"
    <2> DEFINE text == Body("exit-transformer", "text")
    <2>1. o = Ok(c) \/ \E s : o = Ok(StatusOnly(c, s)) \/ o = Ok(Rewritten(StatusOnly(c, s), text))
        BY <1>8 DEF transform_execute, exit_transformer_execute
    <2>2. \A s : Quiet(c, StatusOnly(c, s))
        BY <1>0, QuietResponse
    <2> HIDE DEF text
    <2>3. \A s : Quiet(c, Rewritten(StatusOnly(c, s), text))
        BY <2>2, QuietResponse
    <2> QED BY <1>0, <2>1, <2>2, <2>3, EndContext
<1>9. CASE node.type = "error-handler"
    <2>1. \E s : o = Ok(reject(c, "error-handler", s))
        BY <1>9 DEF transform_execute, error_handler_execute
    <2> QED BY <1>0, <2>1, QuietResponse, EndContext
<1>10. CASE node.type = "mocking"
    <2>1. \E s, put : o = Ok(PutHeaders(reject(c, "mocking", s), put))
        BY <1>10 DEF transform_execute, mocking_execute
    <2>2. \A s : Quiet(c, reject(c, "mocking", s))
        BY <1>0, QuietResponse
    <2>3. \A s, put : Quiet(c, PutHeaders(reject(c, "mocking", s), put))
        BY <2>2, QuietResponse
    <2> QED BY <2>1, <2>3, EndContext
<1>11. CASE node.type = "redirect"
    <2> DEFINE d == Rewritten(c, NoBody)
               out(s, to) == [d EXCEPT !.res.status = s, !.res.headers["location"] = to]
    <2>1. o \in redirect_execute(cfg, c)
        BY <1>11 DEF transform_execute
    <2>2. o = Ok(c) \/ \E s, to : o = Ok(out(s, to))
        BY <2>1 DEF redirect_execute
    <2>3. Quiet(c, d)
        BY <1>0, QuietResponse
    <2> HIDE DEF d
    <2>4. ASSUME NEW s, NEW to PROVE Quiet(d, out(s, to))
        <3>1. PICK e : e = out(s, to)
            OBVIOUS
        <3>2. /\ DOMAIN e = DOMAIN d /\ e.who = d.who /\ e.hidden = d.hidden
              /\ e.req = d.req /\ e.msg = d.msg /\ e.sent = d.sent
            BY <2>3, <3>1 DEF Quiet, Carried
        <3> QED BY <2>3, <3>1, <3>2, QuietElsewhere DEF Quiet
    <2> HIDE DEF out
    <2> QED BY <1>0, <2>2, <2>3, <2>4, QuietTwice, EndContext
<1>12. CASE node.type = "degraphql"
    BY <1>12, QuietDegraphql DEF transform_execute
<1>13. CASE node.type = "proxy-rewrite"
    BY <1>13, QuietProxyRewrite DEF transform_execute, VouchingSpared
<1> QED BY <1>1, <1>2, <1>3, <1>4, <1>5, <1>6, <1>7, <1>8, <1>9, <1>10, <1>11, <1>12, <1>13
        DEF TransformTypes

LEMMA QuietCheck ==
    ASSUME NEW c, Carried(c), NEW node, node.type \in CheckTypes, check_created(node),
           VouchingSpared(node), NEW o \in check_execute(node, c)
    PROVE  Quiet(c, o.ctx)
<1> DEFINE cfg == node.cfg
<1>0. Quiet(c, c)
    BY QuietSelf
<1>r. ASSUME o = Ok(c) \/ \E by, s : o = Err(reject(c, by, s))
      PROVE  Quiet(c, o.ctx)
    BY <1>0, <1>r, QuietResponse, EndContext
<1>1. CASE node.type = "request-id"
    <2> DEFINE sent == first_non_empty(c.req.headers)
               i == IF sent = Absent THEN "a new id" ELSE sent
               d == [c EXCEPT !.req.headers["x-request-id"] = i]
               e == [d EXCEPT !.res.headers["x-request-id"] = i]
    <2>1. o = Ok(d) \/ o = Ok(e)
        BY <1>1 DEF check_execute, request_id_execute
    <2>2. "x-request-id" \notin Vouching
        BY DEF Vouching
    <2> HIDE DEF i
    <2>3. Quiet(c, d)
        BY <2>2, QuietHeader
    <2> HIDE DEF d
    <2>4. Quiet(d, e)
        BY <2>3, QuietElsewhere DEF Quiet, Carried
    <2> HIDE DEF e
    <2> QED BY <2>1, <2>3, <2>4, QuietTwice, EndContext
<1>2. CASE node.type = "request-size-limit"
    <2>1. o = Ok(c) \/ o = Err(reject(c, "request-size-limit", 413))
        BY <1>2 DEF check_execute, request_size_limit_execute, Guard
    <2> QED BY <1>r, <2>1
<1>3. CASE node.type = "real-ip"
    <2> DEFINE at(a) == [c EXCEPT !.req.addr = a]
    <2>1. o = Ok(c) \/ \E a : o = Ok(at(a))
        BY <1>3 DEF check_execute, real_ip_execute
    <2>2. \A a : Quiet(c, at(a))
        BY QuietRequest DEF Carried
    <2> HIDE DEF at
    <2> QED BY <1>0, <2>1, <2>2, EndContext
<1>4. CASE node.type = "request-validation"
    <2> DEFINE d == [c EXCEPT !.req.body = Body("request-validation", "json"),
                              !.req.headers = remove_ci(@, {"content-length"})]
    <2>1. o = Ok(c) \/ o = Ok(d) \/ \E s : o = Err(reject(c, "request-validation", s))
        BY <1>4 DEF check_execute, request_validation_execute
    <2>2. Vouching \cap {"content-length"} = {}
        BY DEF Vouching
    <2>3. Quiet(c, d)
        BY <2>2, QuietBody
    <2> HIDE DEF d
    <2> QED BY <1>r, <2>1, <2>3, EndContext
<1>5. CASE node.type = "oas-validator"
    <2>1. o = Ok(c) \/ \E s : o = Err(reject(c, "oas-validator", s))
        BY <1>5 DEF check_execute, oas_validator_execute, Guard
    <2> QED BY <1>r, <2>1
<1>6. CASE node.type = "traffic-label"
    <2> DEFINE put(a) == [k \in DOMAIN a.set_headers |-> interpolate(c, a.set_headers[k])]
               say(a) == [k \in DOMAIN a.set_labels |-> interpolate(c, a.set_labels[k])]
               out(a) == [c EXCEPT !.req.headers = Put(@, put(a)), !.msg = Put(@, say(a))]
    <2>1. \/ o = Ok(c)
          \/ \E i \in DOMAIN cfg.rules : \E a \in cfg.rules[i].actions : o = Ok(out(a))
        <3>1. o \in traffic_label_execute(cfg, c)
            BY <1>6 DEF check_execute
        <3> QED BY <3>1 DEF traffic_label_execute, pick_action
    <2>2. Has(cfg, "rules")
        BY <1>6 DEF check_created, traffic_label_from_config, Required
    <2>3. \A i \in DOMAIN cfg.rules : \A a \in cfg.rules[i].actions :
              Vouching \cap DOMAIN a.set_headers = {} /\ ConsumerKeys \cap DOMAIN a.set_labels = {}
        BY <1>6, <2>2 DEF VouchingSpared
    <2>4. ASSUME NEW a, Vouching \cap DOMAIN a.set_headers = {},
                 ConsumerKeys \cap DOMAIN a.set_labels = {}
          PROVE  Quiet(c, out(a))
        <3> DEFINE d == out(a)
                   g == Put(c.req.headers, put(a))
                   m == Put(c.msg, say(a))
        <3>1. DOMAIN put(a) = DOMAIN a.set_headers /\ DOMAIN say(a) = DOMAIN a.set_labels
            OBVIOUS
        <3>2. /\ DOMAIN d = DOMAIN c /\ d.who = c.who /\ d.hidden = c.hidden /\ d.msg = m
              /\ d.sent = c.sent /\ DOMAIN d.req = DOMAIN c.req /\ d.req.query = c.req.query
              /\ d.req.headers = g
            <4> HIDE DEF put, say
            <4> QED BY DEF Carried
        <3>3. /\ DOMAIN g = DOMAIN c.req.headers /\ DOMAIN m = DOMAIN c.msg
              /\ \A n \in Vouching : g[n] = c.req.headers[n]
              /\ \A k \in ConsumerKeys : m[k] = c.msg[k]
            <4> HIDE DEF put, say
            <4> QED BY <2>4, <3>1 DEF Put, Carried
        <3> HIDE DEF d, g, m
        <3>4. Quiet(c, d)
            BY <3>2, <3>3 DEF Quiet, Carried
        <3> QED BY <3>4 DEF d
    <2> HIDE DEF out
    <2> QED BY <1>0, <2>1, <2>3, <2>4, EndContext
<1>7. CASE node.type = "fault-injection"
    <2>1. o = Ok(c) \/ \E s, b, put : o = Err(PutHeaders(Answered(c, s, b), put))
        BY <1>7 DEF check_execute, fault_injection_execute
    <2>2. \A s, b : Quiet(c, Answered(c, s, b))
        BY <1>0, QuietResponse
    <2>3. \A s, b, put : Quiet(c, PutHeaders(Answered(c, s, b), put))
        BY <2>2, QuietResponse
    <2> QED BY <1>0, <2>1, <2>3, EndContext
<1> QED BY <1>1, <1>2, <1>3, <1>4, <1>5, <1>6, <1>7 DEF CheckTypes

-----------------------------------------------------------------------------
(* Backends. *)

LEMMA QuietReply ==
    ASSUME NEW c, NEW d, Quiet(c, d)
    PROVE  \A r : Quiet(c, WithReply(d, r))
BY QuietResponse DEF WithReply

\* What is asked of a function carries the gateway's own credentials or those left.
LEMMA FunctionAsked ==
    ASSUME NEW w, NEW c, Guarded(w, c), NEW cfg, Strangers(w, cfg),
           NEW q \in {aws_lambda_build_request(cfg, c), azure_functions_build_request(cfg, c),
                      openfunction_build_request(cfg, c)}
    PROVE  Quiet(c, Send(c, "function", q))
<1> DEFINE p == forward_parts(c)
<1>w. Carried(c)
    BY DEF Guarded
<1>1. /\ DOMAIN p = DOMAIN c.req /\ p.query = c.req.query
      /\ p.headers = remove_ci(c.req.headers, {"content-length"})
    BY <1>w DEF forward_parts, Carried
<1>2. /\ Vouching \subseteq DOMAIN p.headers /\ \A n \in Vouching : p.headers[n] = c.req.headers[n]
      /\ {"headers", "query"} \subseteq DOMAIN p
    BY <1>w, <1>1 DEF remove_ci, Carried, Vouching
<1> HIDE DEF p
<1>3. "authorization" \in Vouching /\ "x-api-key" \in Vouching /\ "x-functions-key" \notin Vouching
    BY DEF Vouching
<1>4. ASSUME q.query = p.query,
             \A n \in Vouching \ {"authorization", "x-api-key"} : q.headers[n] = p.headers[n],
             q.headers["x-api-key"] = p.headers["x-api-key"] \/ q.headers["x-api-key"] \notin Keys(w),
             \/ q.headers["authorization"] \in {Absent, p.headers["authorization"]}
             \/ q.headers["authorization"] \notin Claims(w)
      PROVE  Quiet(c, Send(c, "function", q))
    <2>1. /\ q.query["apikey"] = c.req.query["apikey"]
          /\ q.headers["x-hmac-signature"] = c.req.headers["x-hmac-signature"]
          /\ q.headers["x-userinfo"] = c.req.headers["x-userinfo"]
        BY <1>1, <1>2, <1>4 DEF Vouching
    <2>2. /\ q.headers["x-api-key"] = c.req.headers["x-api-key"] \/ q.headers["x-api-key"] \notin Keys(w)
          /\ \/ q.headers["authorization"] \in {Absent, c.req.headers["authorization"]}
             \/ q.headers["authorization"] \notin Claims(w)
        BY <1>2, <1>3, <1>4
    <2> QED BY <2>1, <2>2, SendGuarded
<1>5. CASE q = aws_lambda_build_request(cfg, c)
    <2> DEFINE put(x, y) == [p EXCEPT !.headers = [@ EXCEPT !["authorization"] = x, !["x-api-key"] = y]]
               own == IF Has(cfg, "iam") THEN sign_v4(cfg) ELSE Absent
               key == Opt(cfg, "apikey", Absent)
    <2> DEFINE was == c.req.headers["x-api-key"]
               sent == IF was = Absent /\ ~Has(cfg, "iam") THEN key ELSE was
    <2>1. q = put(own, sent) /\ sent \in {key, p.headers["x-api-key"]}
        <3>1. q = put(own, sent)
            BY <1>5 DEF aws_lambda_build_request, p
        <3>2. was = p.headers["x-api-key"]
            BY <1>2, <1>3
        <3> HIDE DEF put, own, key, was
        <3> QED BY <3>1, <3>2
    <2>2. own = Absent \/ own \notin Claims(w)
        BY DEF Strangers, OwnClaims
    <2>3. key \notin Keys(w)
        BY DEF Strangers
    <2> HIDE DEF own, key, was, sent
    <2>4. \A x, y : LET r == put(x, y)
                    IN  /\ r.query = p.query /\ r.headers["authorization"] = x /\ r.headers["x-api-key"] = y
                        /\ \A n \in Vouching \ {"authorization", "x-api-key"} : r.headers[n] = p.headers[n]
        BY <1>2, <1>3
    <2> HIDE DEF put
    <2> QED BY <1>4, <2>1, <2>2, <2>3, <2>4
<1>6. CASE q = azure_functions_build_request(cfg, c)
    <2>1. \E v : q = [p EXCEPT !.headers["x-functions-key"] = v]
        BY <1>6 DEF azure_functions_build_request, p
    <2>2. q.query = p.query /\ \A n \in Vouching : q.headers[n] = p.headers[n]
        BY <1>2, <1>3, <2>1
    <2> QED BY <1>3, <1>4, <2>2
<1>7. CASE q = openfunction_build_request(cfg, c)
    <2> DEFINE own == cfg.service_token
    <2>1. q = p \/ (Has(cfg, "service_token") /\ q = [p EXCEPT !.headers["authorization"] = own])
        BY <1>7 DEF openfunction_build_request, p
    <2>2. Has(cfg, "service_token") => own \notin Claims(w)
        BY DEF Strangers, OwnClaims
    <2> HIDE DEF own
    <2>3. CASE q = p
        BY <1>4, <2>3
    <2>4. CASE Has(cfg, "service_token") /\ q = [p EXCEPT !.headers["authorization"] = own]
        <3>1. /\ q.query = p.query /\ q.headers["authorization"] = own
              /\ \A n \in Vouching \ {"authorization"} : q.headers[n] = p.headers[n]
            BY <1>2, <1>3, <2>4
        <3> QED BY <1>3, <1>4, <2>2, <2>4, <3>1
    <2> QED BY <2>1, <2>3, <2>4
<1> QED BY <1>5, <1>6, <1>7

LEMMA QuietOpenwhisk ==
    ASSUME NEW w, NEW c, Guarded(w, c), NEW cfg, Strangers(w, cfg), openwhisk_from_config(cfg),
           NEW o \in openwhisk_execute(cfg, c)
    PROVE  Quiet(c, o.ctx)
<1> DEFINE q == openwhisk_build_request(cfg, c)
           own == cfg.service_token
           d == Send(c, "function", q)
<1>1. own \notin Claims(w)
    BY DEF openwhisk_from_config, Required, Strangers, OwnClaims
<1>2. /\ q.query = remove_ci(c.req.query, QueryNames)
      /\ q.headers = [NoHeaders EXCEPT !["authorization"] = own, !["content-type"] = "json"]
    BY DEF openwhisk_build_request, Guarded, Carried
<1>3. remove_ci(c.req.query, QueryNames)["apikey"] = Absent
    BY DEF remove_ci, QueryNames, Guarded, Carried
<1>4. DOMAIN NoHeaders = HeaderNames /\ \A n \in HeaderNames : NoHeaders[n] = Absent
    BY DEF NoHeaders
<1>5. {"x-api-key", "x-hmac-signature", "x-userinfo", "authorization", "content-type"} \subseteq HeaderNames
    BY DEF HeaderNames
<1> HIDE DEF q, own
<1>6. /\ q.query["apikey"] = Absent /\ q.headers["x-api-key"] = Absent /\ q.headers["x-userinfo"] = Absent
      /\ q.headers["x-hmac-signature"] = Absent /\ q.headers["authorization"] = own
    BY <1>2, <1>3, <1>4, <1>5
<1>7. Quiet(c, d)
    BY <1>1, <1>6, SendGuarded
<1>8. PICK a : o = IF Failed(a) THEN apply_response(Send(c, "function", q), a)
                   ELSE map_response(Send(c, "function", q), a)
    BY DEF openwhisk_execute, q
<1> HIDE DEF d
<1>9. \/ \E s : o = Err(StatusOnly(d, s))
      \/ \E r : o = Ok(WithReply(d, r))
    <2>1. CASE Failed(a)
        BY <1>8, <2>1 DEF apply_response, d
    <2>2. CASE ~Failed(a)
        BY <1>8, <2>2 DEF map_response, WithReply, d
    <2> QED BY <2>1, <2>2
<1>10. (\E s : o.ctx = StatusOnly(d, s)) \/ \E r : o.ctx = WithReply(d, r)
    BY <1>9, EndContext
<1>11. \A s, r : Quiet(c, StatusOnly(d, s)) /\ Quiet(c, WithReply(d, r))
    BY <1>7, QuietResponse, QuietReply
<1> QED BY <1>10, <1>11

LEMMA QuietLua ==
    ASSUME NEW c, Carried(c), NEW script, LuaRuntime_new(script), NEW o \in lua_execute(script, c)
    PROVE  Quiet(c, o.ctx)
<1> DEFINE d == Rewritten(c, Body("script", "text"))
           out == [d EXCEPT !.res.status = 403]
           added == [c EXCEPT !.req.headers["x-added"] = "script"]
<1>1. o = Ok(c) \/ o = Err(c) \/ o = Ok(added) \/ o = Ok(out)
    BY DEF lua_execute, LuaRuntime_new
<1>2. Quiet(c, c) /\ Quiet(c, added)
    <2>1. "x-added" \notin Vouching
        BY DEF Vouching
    <2> QED BY <2>1, QuietSelf, QuietHeader
<1>3. Quiet(c, d)
    BY <1>2, QuietResponse
<1> HIDE DEF d, added
<1>4. Quiet(d, out)
    BY <1>3, QuietElsewhere DEF Quiet, Carried
<1> HIDE DEF out
<1> QED BY <1>1, <1>2, <1>3, <1>4, QuietTwice, EndContext

LEMMA QuietServerless ==
    ASSUME NEW c, Carried(c), NEW cfg, IsList(cfg.functions), serverless_from_config(cfg),
           NEW o \in serverless_run(cfg, c)
    PROVE  Quiet(c, o.ctx)
<1> DEFINE scripts == cfg.functions
           n == Len(scripts)
           upto == CHOOSE f : IsRun(f, n, scripts, c)
<1>1. n \in Nat /\ IsRun(upto, n, scripts, c)
    BY RunExists DEF IsList
<1>2. \A i \in 1 .. n : LuaRuntime_new(scripts[i])
    BY DEF serverless_from_config, IsList
<1> DEFINE D == {k \in 0 .. n : \E p \in upto[k] : ~Quiet(c, p.ctx)}
<1>3. D = {}
    <2> SUFFICES ASSUME D # {} PROVE FALSE
        OBVIOUS
    <2>1. PICK k \in D : \A j \in D : k <= j
        <3>1. D \in SUBSET Nat
            BY <1>1
        <3> QED BY <3>1, LeastNatural
    <2>2. PICK p \in upto[k] : ~Quiet(c, p.ctx)
        BY <2>1
    <2>3. CASE k = 0
        <3>1. p = Ok(c)
            BY <1>1, <2>2, <2>3 DEF IsRun
        <3> QED BY <3>1, <2>2, QuietSelf, EndContext
    <2>4. CASE k # 0
        <3>0. n \in Nat /\ k \in 0 .. n
            BY <1>1, <2>1
        <3>a. k - 1 \in 0 .. n /\ k \in 1 .. n /\ ~(k <= k - 1)
            BY <2>4, <3>0
        <3>1. k - 1 \in 0 .. n /\ k - 1 \notin D /\ k \in 1 .. n
            <4> HIDE DEF D, n
            <4> QED BY <2>1, <3>a
        <3>2. p \in Continued(scripts, k, upto[k - 1])
            BY <1>1, <2>2, <2>4, <3>1 DEF IsRun
        <3>3. PICK q \in upto[k - 1] :
                  p \in IF q.ok THEN lua_execute(scripts[k], q.ctx) ELSE {q}
            BY <3>2 DEF Continued
        <3>4. Quiet(c, q.ctx)
            BY <3>1
        <3>5. ASSUME q.ok PROVE Quiet(c, p.ctx)
            <4>1. Carried(q.ctx)
                BY <3>4 DEF Quiet
            <4>2. Quiet(q.ctx, p.ctx)
                BY <3>1, <3>3, <3>5, <4>1, <1>2, QuietLua
            <4> QED BY <3>4, <4>2, QuietTwice
        <3> QED BY <2>2, <3>3, <3>4, <3>5
    <2> QED BY <2>3, <2>4
<1>4. serverless_run(cfg, c) = upto[n]
    BY DEF serverless_run, IsRun, Continued
<1>5. n \in 0 .. n
    BY <1>1
<1> QED BY <1>3, <1>4, <1>5

LEMMA QuietBackend ==
    ASSUME NEW w, NEW c, Guarded(w, c), NEW node, node.type \in BackendTypes,
           backend_created(node), node.type \in Serverless => IsList(node.cfg.functions),
           Strangers(w, node.cfg), NEW o \in backend_execute(node, c)
    PROVE  Quiet(c, o.ctx)
<1> DEFINE cfg == node.cfg
           target == ToTarget(c)
           sent == Send(c, "upstream", target)
<1>w. Carried(c)
    BY DEF Guarded
<1>0. Quiet(c, c)
    BY <1>w, QuietSelf
<1>t. target.headers = c.req.headers /\ target.query = remove_ci(c.req.query, QueryNames)
    BY <1>w DEF ToTarget, Carried
<1>q. remove_ci(c.req.query, QueryNames)["apikey"] = Absent
    BY <1>w DEF remove_ci, QueryNames, Carried
<1> HIDE DEF target
<1>s. Quiet(c, sent)
    BY <1>t, <1>q, SendGuarded
<1> HIDE DEF sent
<1>1. CASE node.type \in {"aws-lambda", "azure-functions", "openfunction"}
    <2>1. \E q \in {aws_lambda_build_request(cfg, c), azure_functions_build_request(cfg, c),
                    openfunction_build_request(cfg, c)} : o \in Invoke(c, q)
        BY <1>1 DEF backend_execute, Serverless, aws_lambda_execute, azure_functions_execute,
                    openfunction_execute
    <2>2. PICK q : o \in Invoke(c, q) /\ Quiet(c, Send(c, "function", q))
        BY <2>1, FunctionAsked
    <2>3. PICK a, d : d = Send(c, "function", q) /\ o = apply_response(d, a)
        BY <2>2 DEF Invoke
    <2>4. (\E s : o = Err(StatusOnly(d, s))) \/ o = Ok(WithReply(d, a))
        BY <2>3 DEF apply_response
    <2>5. (\E s : o.ctx = StatusOnly(d, s)) \/ o.ctx = WithReply(d, a)
        BY <2>4, EndContext
    <2>6. \A s, r : Quiet(c, StatusOnly(d, s)) /\ Quiet(c, WithReply(d, r))
        BY <2>2, <2>3, QuietResponse, QuietReply
    <2> QED BY <2>5, <2>6
<1>2. CASE node.type = "openwhisk"
    <2>1. o \in openwhisk_execute(cfg, c) /\ openwhisk_from_config(cfg)
        BY <1>2 DEF backend_execute, backend_created, Serverless
    <2> QED BY <2>1, QuietOpenwhisk
<1>3. CASE node.type = "upstream"
    <2> DEFINE up == [c EXCEPT !.res.status = 101]
               ws == [c EXCEPT !.res.status = 101, !.msg["__ws_upstream"] = c.req.path]
    <2>1. o \in upstream_execute(c)
        BY <1>3 DEF backend_execute, Serverless
    <2>2. o = Ok(ws) \/ o = Err(sent) \/ \E a : o = Ok(WithReply(sent, a))
        BY <2>1 DEF upstream_execute, target, sent
    <2>3. Quiet(c, ws)
        <3>1. "__ws_upstream" \notin ConsumerKeys
            BY DEF ConsumerKeys
        <3> QED BY <1>w, <3>1 DEF Quiet, Carried
    <2> HIDE DEF ws
    <2>4. o.ctx \in {ws, sent} \/ \E a : o.ctx = WithReply(sent, a)
        BY <2>2, EndContext
    <2>5. \A a : Quiet(c, WithReply(sent, a))
        BY <1>s, QuietResponse, QuietReply
    <2> QED BY <1>s, <2>3, <2>4, <2>5
<1>4. CASE node.type = "proxy-mirror"
    <2> DEFINE q(p) == [c.req EXCEPT !.path = p]
    <2>1. o = Ok(c) \/ \E p : o = Ok(Send(c, "mirror", q(p)))
        BY <1>4 DEF backend_execute, proxy_mirror_execute, Serverless
    <2>2. \A p : q(p).headers = c.req.headers /\ q(p).query = c.req.query
        BY <1>w DEF Carried
    <2> HIDE DEF q
    <2>3. \A p : Quiet(c, Send(c, "mirror", q(p)))
        BY <2>2, SendGuarded
    <2> QED BY <1>0, <2>1, <2>3, EndContext
<1>5. CASE node.type = "traffic-split"
    <2>1. o \in traffic_split_execute(cfg, c)
        BY <1>5 DEF backend_execute, Serverless
    <2>2. o = Ok(c) \/ o \in proxy_to_target(c)
        BY <2>1 DEF traffic_split_execute
    <2>3. o \in proxy_to_target(c) => (\E s : o = Err(reject(sent, "traffic-split", s)))
                                      \/ \E a : o = Err(WithReply(sent, a))
        BY DEF proxy_to_target, target, sent
    <2>4. o.ctx = c \/ (\E s : o.ctx = reject(sent, "traffic-split", s))
          \/ \E a : o.ctx = WithReply(sent, a)
        BY <2>2, <2>3, EndContext
    <2>5. \A s, a : Quiet(c, reject(sent, "traffic-split", s)) /\ Quiet(c, WithReply(sent, a))
        BY <1>s, QuietResponse, QuietReply
    <2> QED BY <1>0, <2>4, <2>5
<1>6. CASE node.type = "workflow"
    <2>1. o \in workflow_execute(cfg, c)
        BY <1>6 DEF backend_execute, Serverless
    <2>2. o = Ok(c) \/ \E s, b : o = Err(workflow_reject(c, s, b))
        <3> DEFINE hits == {i \in DOMAIN cfg.rules : eval(cfg.rules[i].case, c)}
                   a == cfg.rules[CHOOSE i \in hits : \A j \in hits : i <= j].action
                   text == Body("workflow", "json")
        <3>1. o \in IF hits = {} THEN {Ok(c)}
                    ELSE IF a.type = "return" THEN {Err(workflow_reject(c, a.code, text))}
                    ELSE {Ok(c), Err(workflow_reject(c, 500, text)),
                          Err(workflow_reject(c, Opt(a, "rejected_code", 503), NoBody))}
            BY <2>1, Zenon DEF workflow_execute
        <3> HIDE DEF hits, a, text
        <3> QED BY <3>1
    <2>3. ASSUME NEW s, NEW b PROVE Quiet(c, workflow_reject(c, s, b))
        <3>1. PICK d : d = reject(c, "workflow", s) /\ Quiet(c, d)
            BY <1>0, QuietResponse
        <3> DEFINE e == [d EXCEPT !.res.body = b]
        <3>2. Quiet(d, e)
            BY <3>1, QuietElsewhere DEF Quiet, Carried
        <3> HIDE DEF e
        <3>3. Quiet(c, e)
            BY <3>1, <3>2, QuietTwice
        <3> QED BY <3>1, <3>3 DEF workflow_reject, e
    <2> QED BY <1>0, <2>2, <2>3, EndContext
<1>7. CASE node.type = "script"
    <2>1. script_from_config(cfg) /\ o \in script_execute(cfg, c)
        BY <1>7 DEF backend_created, backend_execute, Serverless
    <2> QED BY <1>w, <2>1, QuietLua DEF script_from_config, script_execute
<1>8. CASE node.type \in Serverless
    <2>1. serverless_from_config(cfg) /\ o \in serverless_run(cfg, c)
        BY <1>8 DEF backend_created, backend_execute, Serverless
    <2> QED BY <1>8, <1>w, <2>1, QuietServerless
<1> QED BY <1>1, <1>2, <1>3, <1>4, <1>5, <1>6, <1>7, <1>8 DEF BackendTypes, Forwarders

-----------------------------------------------------------------------------
(* Identity providers. *)

\* The credentials are still kept, and the identity is as it was.
Safe(w, c, d) == Guarded(w, d) /\ SameWho(c, d)

LEMMA SafeSelf ==
    ASSUME NEW w, NEW c, Guarded(w, c)
    PROVE  Safe(w, c, c)
BY DEF Safe, SameWho

LEMMA SafeTwice ==
    ASSUME NEW w, NEW c, NEW d, Safe(w, c, d), NEW e, Safe(w, d, e)
    PROVE  Safe(w, c, e)
BY SameWhoTwice DEF Safe

LEMMA SafeQuiet ==
    ASSUME NEW w, NEW c, NEW d, Safe(w, c, d), NEW e, Quiet(d, e)
    PROVE  Safe(w, c, e)
BY QuietGuarded, SameWhoTwice DEF Safe

LEMMA SafeResponse ==
    ASSUME NEW w, NEW c, NEW d, Safe(w, c, d)
    PROVE  /\ \A by, s : Safe(w, c, reject(d, by, s))
           /\ \A s : Safe(w, c, StatusOnly(d, s))
           /\ \A to, k : Safe(w, c, Redirect(d, to, k))
           /\ \A u : Safe(w, c, WithUser(d, u))
<1>1. Quiet(d, d)
    BY QuietSelf DEF Safe, Guarded
<1>2. \A e : Quiet(d, e) => Safe(w, c, e)
    BY SafeQuiet
<1>3. (\A by, s : Quiet(d, reject(d, by, s))) /\ \A s : Quiet(d, StatusOnly(d, s))
    BY <1>1, QuietResponse
<1>4. \A u : Quiet(d, WithUser(d, u))
    BY <1>1, QuietUser
<1>5. ASSUME NEW to, NEW k PROVE Quiet(d, Redirect(d, to, k))
    <2>1. PICK e : e = Answered(d, 302, NoBody) /\ Quiet(d, e)
        <3>1. PICK s : s = 302
            OBVIOUS
        <3>2. Quiet(d, Answered(d, s, NoBody))
            BY <1>1, QuietResponse
        <3> QED BY <3>1, <3>2
    <2>2. \E put : Redirect(d, to, k) = PutHeaders(e, put)
        BY <2>1 DEF Redirect
    <2> QED BY <2>1, <2>2, QuietResponse
<1> QED BY <1>2, <1>3, <1>4, <1>5

\* What says who asks may be taken out.
LEMMA SafeLess ==
    ASSUME NEW w, NEW c, Guarded(w, c), NEW d, DOMAIN d = DOMAIN c, DOMAIN d.req = DOMAIN c.req,
           DOMAIN d.req.headers = DOMAIN c.req.headers, DOMAIN d.req.query = DOMAIN c.req.query,
           d.who = c.who, d.msg = c.msg, d.sent = c.sent,
           d.req.query["apikey"] \in {Absent, c.req.query["apikey"]},
           \A n \in {"x-api-key", "x-hmac-signature", "x-userinfo", "authorization"} :
              d.req.headers[n] \in {Absent, c.req.headers[n]},
           \A n \in {"x-consumer-username", "x-consumer-custom-id"} :
              d.req.headers[n] = c.req.headers[n],
           \A e \in d.hidden : e \in c.hidden \/ Out(w, d, e)
    PROVE  Safe(w, c, d)
<1>1. Carried(d) /\ SameWho(c, d)
    BY DEF Guarded, Carried, SameWho
<1>2. /\ d.req.headers["x-api-key"] \in {Absent, c.req.headers["x-api-key"]}
      /\ d.req.headers["x-hmac-signature"] \in {Absent, c.req.headers["x-hmac-signature"]}
      /\ d.req.headers["x-userinfo"] \in {Absent, c.req.headers["x-userinfo"]}
      /\ d.req.headers["authorization"] \in {Absent, c.req.headers["authorization"]}
    OBVIOUS
<1>3. Kept(w, c)
    BY DEF Guarded
<1>4. Kept(w, d)
    BY <1>2, <1>3 DEF Kept
<1>5. \A e \in c.hidden : Out(w, c, e)
    BY DEF Guarded
<1>6. \A e : Out(w, c, e) => Out(w, d, e)
    BY <1>2 DEF Out
<1> QED BY <1>1, <1>4, <1>5, <1>6 DEF Guarded, Safe

\* The provider's word takes the place of the client's.
LEMMA SafePut ==
    ASSUME NEW w, NEW c, Guarded(w, c), NEW n, NEW v,
           \/ n = "authorization" /\ v \in {SessionToken, c.req.headers["authorization"]}
           \/ n = "x-userinfo" /\ v = "provider's"
    PROVE  Safe(w, c, [c EXCEPT !.req.headers[n] = v])
<1> DEFINE d == [c EXCEPT !.req.headers[n] = v]
<1>1. /\ DOMAIN d = DOMAIN c /\ d.who = c.who /\ d.hidden = c.hidden /\ d.msg = c.msg /\ d.sent = c.sent
      /\ DOMAIN d.req = DOMAIN c.req /\ DOMAIN d.req.headers = DOMAIN c.req.headers
      /\ d.req.query = c.req.query
      /\ \A m \in Vouching : d.req.headers[m] = IF m = n THEN v ELSE c.req.headers[m]
    BY DEF Guarded, Carried
<1> HIDE DEF d
<1>2. Carried(d) /\ SameWho(c, d)
    BY <1>1 DEF Guarded, Carried, SameWho, Vouching
<1>3. /\ d.req.headers["x-api-key"] = c.req.headers["x-api-key"]
      /\ d.req.headers["x-hmac-signature"] = c.req.headers["x-hmac-signature"]
      /\ d.req.headers["x-userinfo"] \in {"provider's", c.req.headers["x-userinfo"]}
      /\ d.req.headers["authorization"] \in {SessionToken, c.req.headers["authorization"]}
    BY <1>1 DEF Vouching
<1>4. Kept(w, c) /\ \A e \in c.hidden : Out(w, c, e)
    BY DEF Guarded
<1>5. Kept(w, d)
    BY <1>1, <1>3, <1>4 DEF Kept
<1>6. \A e : Out(w, c, e) => Out(w, d, e)
    BY <1>1, <1>3 DEF Out
<1>7. Safe(w, c, d)
    BY <1>1, <1>2, <1>4, <1>5, <1>6 DEF Guarded, Safe
<1> QED BY <1>7 DEF d

LEMMA SafeUnclaimed ==
    ASSUME NEW w, NEW c, Guarded(w, c)
    PROVE  Safe(w, c, Unclaimed(c))
<1> DEFINE said == c.req.headers["x-userinfo"]
           g == remove_ci(c.req.headers, {"x-userinfo"})
           d == [c EXCEPT !.req.headers = remove_ci(@, {"x-userinfo"})]
           e == Hide(d, {"x-userinfo"}, said)
<1>1. /\ DOMAIN g = DOMAIN c.req.headers /\ g["x-userinfo"] = Absent
      /\ \A n \in Vouching \ {"x-userinfo"} : g[n] = c.req.headers[n]
    BY DEF remove_ci, Guarded, Carried, Vouching
<1>2. /\ DOMAIN d = DOMAIN c /\ DOMAIN d.req = DOMAIN c.req /\ d.req.headers = g
      /\ d.req.query = c.req.query /\ d.who = c.who /\ d.msg = c.msg /\ d.sent = c.sent
      /\ d.hidden = c.hidden
    BY DEF Guarded, Carried
<1> HIDE DEF g, d
<1>3. /\ DOMAIN e = DOMAIN c /\ e.req = d.req /\ e.who = c.who /\ e.msg = c.msg /\ e.sent = c.sent
      /\ e.hidden = c.hidden \cup {<< "x-userinfo", said >>}
    BY <1>2 DEF Hide, Guarded, Carried
<1> HIDE DEF e
<1>4. Safe(w, c, d)
    BY <1>1, <1>2, SafeLess DEF Vouching
<1>5. said \notin {Absent, "provider's"} => Safe(w, c, e)
    <2> SUFFICES ASSUME said \notin {Absent, "provider's"} PROVE Safe(w, c, e)
        OBVIOUS
    <2>1. Out(w, e, << "x-userinfo", said >>)
        BY <1>1, <1>2, <1>3 DEF Out
    <2> HIDE DEF said
    <2> QED BY <1>1, <1>2, <1>3, <2>1, SafeLess DEF Vouching
<1>6. Unclaimed(c) = IF said \in {Absent, "provider's"} THEN d ELSE e
    BY DEF Unclaimed, d, e
<1> QED BY <1>4, <1>5, <1>6

LEMMA SafeAttach ==
    ASSUME NEW w, NEW c, Guarded(w, c), NEW cfg
    PROVE  /\ Safe(w, c, UserInfo(cfg, c))
           /\ \A t \in {Absent, SessionToken, c.req.headers["authorization"]} :
                 Safe(w, c, attach(cfg, c, t))
<1> DEFINE told == [c EXCEPT !.req.headers["x-userinfo"] = "provider's"]
<1>1. PICK d : d = UserInfo(cfg, c) /\ Safe(w, c, d)
               /\ d.req.headers["authorization"] = c.req.headers["authorization"]
    <2>1. Safe(w, c, c) /\ Safe(w, c, told)
        BY SafeSelf, SafePut
    <2>2. told.req.headers["authorization"] = c.req.headers["authorization"]
        BY DEF Guarded, Carried, Vouching
    <2> HIDE DEF told
    <2>3. UserInfo(cfg, c) \in {c, told}
        BY DEF UserInfo, told
    <2> QED BY <2>1, <2>2, <2>3
<1>2. Guarded(w, d)
    BY <1>1 DEF Safe
<1>3. ASSUME NEW t \in {Absent, SessionToken, c.req.headers["authorization"]}
      PROVE  Safe(w, c, attach(cfg, c, t))
    <2> DEFINE at(n) == [d EXCEPT !.req.headers[n] = t]
    <2>1. \/ attach(cfg, c, t) = d
          \/ t # Absent /\ attach(cfg, c, t) \in {at("authorization"), at("x-access-token")}
        BY <1>1 DEF attach
    <2>2. t # Absent => Safe(w, d, at("authorization"))
        BY <1>1, <1>2, SafePut
    <2>3. Quiet(d, at("x-access-token"))
        <3>1. "x-access-token" \notin Vouching
            BY DEF Vouching
        <3> QED BY <1>2, <3>1, QuietHeader DEF Guarded
    <2> HIDE DEF at
    <2> QED BY <1>1, <2>1, <2>2, <2>3, SafeTwice, SafeQuiet
<1> QED BY <1>1, <1>3

LEMMA SafeReturned ==
    ASSUME NEW w, NEW c, NEW d, Safe(w, c, d), NEW cfg, NEW by, NEW s, NEW o \in Returned(cfg, d, by, s)
    PROVE  Safe(w, c, o.ctx)
<1>1. \E k, a : o = Said(Err(Redirect(d, "page", k)), a) \/ o = Said(Err(reject(d, by, s)), a)
    BY DEF Returned
<1>2. \E k : o.ctx = Redirect(d, "page", k) \/ o.ctx = reject(d, by, s)
    BY <1>1, EndContext
<1> QED BY <1>2, SafeResponse

LEMMA SafeProvider ==
    ASSUME NEW w, NEW c, Guarded(w, c), NEW node, node.type \in ProviderTypes,
           NEW o \in provider_execute(node, c)
    PROVE  Safe(w, c, o.ctx)
<1> DEFINE cfg == node.cfg
<1>0. Safe(w, c, c)
    BY SafeSelf
<1>1. PICK d : d = Unclaimed(c) /\ Safe(w, c, d) /\ Guarded(w, d)
    BY SafeUnclaimed DEF Safe
<1>2. \A t \in {Absent, SessionToken, d.req.headers["authorization"]} : Safe(w, c, attach(cfg, d, t))
    BY <1>1, SafeAttach, SafeTwice
<1>3. \A e : Safe(w, c, e) => \A f \in Named(e) : Safe(w, c, f)
    BY SafeResponse DEF Named
<1>4. CASE node.type = "openid-connect"
    <2>1. o \in openid_connect_execute(cfg, c)
        BY <1>4 DEF provider_execute
    <2>2. CASE ~bearer_only(cfg)
        <3>1. o \in openid_connect_interactive(cfg, d)
            BY <1>1, <2>1, <2>2 DEF openid_connect_execute
        <3>2. \/ o = Err(Redirect(d, "home", "deleted")) \/ o = Err(Redirect(d, "provider", "flow"))
              \/ o \in Returned(cfg, d, "openid-connect", 401)
              \/ o = Said(Err(reject(d, "openid-connect", 401)), "error")
              \/ \E t \in {SessionToken, Absent} : \E u : o = Ok(WithUser(attach(cfg, d, t), u))
            BY <3>1 DEF openid_connect_interactive, LoggedOut, BeginLogin
        <3>3. \A t \in {SessionToken, Absent} : \A u : Safe(w, c, WithUser(attach(cfg, d, t), u))
            BY <1>2, SafeResponse
        <3>4. \/ o \in Returned(cfg, d, "openid-connect", 401)
              \/ \E to, k, s : o.ctx = Redirect(d, to, k) \/ o.ctx = reject(d, "openid-connect", s)
              \/ \E t \in {SessionToken, Absent} : \E u : o.ctx = WithUser(attach(cfg, d, t), u)
            BY <3>2, EndContext
        <3> QED BY <1>1, <3>3, <3>4, SafeResponse, SafeReturned
    <2>3. CASE bearer_only(cfg)
        <3>1. \/ o = Err(reject(d, "openid-connect", 401))
              \/ \E a : o = Said(Err(reject(d, "openid-connect", 401)), a)
              \/ /\ parse_bearer(d) # Absent
                 /\ \E e \in Named(attach(cfg, d, parse_bearer(d))) : o = Said(Ok(e), "allow")
            BY <1>1, <2>1, <2>3 DEF openid_connect_execute
        <3>2. parse_bearer(d) # Absent => parse_bearer(d) = d.req.headers["authorization"]
            BY DEF parse_bearer, Auth
        <3>3. parse_bearer(d) # Absent => \A e \in Named(attach(cfg, d, parse_bearer(d))) : Safe(w, c, e)
            BY <1>2, <1>3, <3>2
        <3>4. \/ \E s : o.ctx = reject(d, "openid-connect", s)
              \/ parse_bearer(d) # Absent /\ o.ctx \in Named(attach(cfg, d, parse_bearer(d)))
            BY <3>1, EndContext
        <3> QED BY <1>1, <3>3, <3>4, SafeResponse
    <2> QED BY <2>2, <2>3
<1>5. CASE node.type = "authz-casdoor"
    <2>1. o \in authz_casdoor_execute(cfg, c)
        BY <1>5 DEF provider_execute
    <2>2. \/ o = Err(Redirect(c, "home", "deleted")) \/ o = Err(Redirect(c, "provider", "flow"))
          \/ o \in Returned(cfg, c, "authz-casdoor", 403)
          \/ \E u : o = Ok(attach_session(c, u))
          \/ o = Err(reject(c, "authz-casdoor", 403)) \/ o = Said(Ok(c), "allow")
          \/ \E a : o = Said(Err(reject(c, "authz-casdoor", 403)), a)
        BY <2>1 DEF authz_casdoor_execute, casdoor_interactive, casdoor_stateless, LoggedOut, BeginLogin
    <2>3. \A u : Safe(w, c, attach_session(c, u))
        <3> DEFINE e == [c EXCEPT !.req.headers["authorization"] = SessionToken]
        <3>1. Safe(w, c, e)
            BY SafePut
        <3> HIDE DEF e
        <3> QED BY <3>1, SafeResponse DEF attach_session, e
    <2>4. \/ o \in Returned(cfg, c, "authz-casdoor", 403) \/ o.ctx = c
          \/ \E to, k, s : o.ctx = Redirect(c, to, k) \/ o.ctx = reject(c, "authz-casdoor", s)
          \/ \E u : o.ctx = attach_session(c, u)
        BY <2>2, EndContext
    <2> QED BY <1>0, <2>3, <2>4, SafeResponse, SafeReturned
<1>6. CASE node.type = "cas-auth"
    <2>1. o \in cas_auth_execute(cfg, c)
        BY <1>6 DEF provider_execute
    <2>2. \/ o = Err(Redirect(c, "home", "deleted")) \/ o = Err(Redirect(c, "provider", Absent))
          \/ o \in Returned(cfg, c, "cas-auth", 401)
          \/ \E u : o = Ok(attach_user(c, u)) \/ o = Said(Ok(attach_user(c, u)), "allow")
          \/ o = Err(reject(c, "cas-auth", 401))
          \/ \E a : o = Said(Err(reject(c, "cas-auth", 401)), a)
        BY <2>1 DEF cas_auth_execute, cas_interactive, cas_stateless, LoggedOut
    <2>3. \A u : Safe(w, c, attach_user(c, u))
        <3> TAKE u
        <3> DEFINE e == [c EXCEPT !.req.headers["x-cas-user"] = u]
        <3>1. "x-cas-user" \notin Vouching
            BY DEF Vouching
        <3>2. Safe(w, c, e)
            BY <1>0, <3>1, QuietHeader, SafeQuiet DEF Guarded
        <3> HIDE DEF e
        <3>3. Safe(w, c, WithUser(e, u))
            BY <3>2, SafeResponse
        <3> QED BY <3>3 DEF attach_user, e
    <2>4. \/ o \in Returned(cfg, c, "cas-auth", 401)
          \/ \E to, k, s : o.ctx = Redirect(c, to, k) \/ o.ctx = reject(c, "cas-auth", s)
          \/ \E u : o.ctx = attach_user(c, u)
        BY <2>2, EndContext
    <2> QED BY <1>0, <2>3, <2>4, SafeResponse, SafeReturned
<1>7. CASE node.type \in {"dingtalk-auth", "feishu-auth"}
    <2>1. \E by, token : o \in CodeLogin(cfg, c, by, token)
        BY <1>7 DEF provider_execute, dingtalk_auth_execute, feishu_auth_execute
    <2>2. \E by : \/ o = Err(reject(d, by, 401))
                  \/ \E e \in Named(UserInfo(cfg, d)) : o = Said(Ok(e), "allow")
                  \/ \E a : o = Said(Err(reject(d, by, 401)), a)
        BY <1>1, <2>1 DEF CodeLogin
    <2>3. \A e \in Named(UserInfo(cfg, d)) : Safe(w, c, e)
        <3>1. Safe(w, c, UserInfo(cfg, d))
            BY <1>1, SafeAttach, SafeTwice
        <3> QED BY <1>3, <3>1
    <2>4. o.ctx \in Named(UserInfo(cfg, d)) \/ \E by, s : o.ctx = reject(d, by, s)
        BY <2>2, EndContext
    <2> QED BY <1>1, <2>3, <2>4, SafeResponse
<1> QED BY <1>4, <1>5, <1>6, <1>7 DEF ProviderTypes

-----------------------------------------------------------------------------
(* Credentials. *)

Admits(cfg, u) == Given(cfg, "anonymous_consumer") /\ cfg.anonymous_consumer = u.name

\* What a consumer has, else what was there.
Else(v, old) == IF v = Absent THEN old ELSE v

\* After c the context d says of u what attach_consumer writes.
Joins(c, d, u) ==
    LET cid == u.labels["custom_id"]
    IN  /\ d.who = Append(c.who, u)
        /\ d.msg["consumer.name"] = u.name /\ d.req.headers["x-consumer-username"] = u.name
        /\ d.msg["consumer.group"] = Else(u.group, c.msg["consumer.group"])
        /\ d.msg["consumer.labels"] = Else(Labels(u), c.msg["consumer.labels"])
        /\ d.msg["consumer.custom_id"] = Else(cid, c.msg["consumer.custom_id"])
        /\ d.req.headers["x-consumer-custom-id"] = Else(cid, c.req.headers["x-consumer-custom-id"])

\* One of the users has been attached, for what the client showed or by one of the
\* configurations cs.
Becomes(w, users, cs, c, d) ==
    \E u \in users :
        /\ Joins(c, d, u)
        /\ u.secret # "provider's" => Proves(w, u) \/ \E cfg \in cs : Admits(cfg, u)

Vouched(w, users, cs, c, o) ==
    /\ Guarded(w, o.ctx)
    /\ SameWho(c, o.ctx) \/ (o.ok /\ Becomes(w, users, cs, c, o.ctx))

LEMMA SafeVouched ==
    ASSUME NEW w, NEW users, NEW cs, NEW c, NEW o, Safe(w, c, o.ctx)
    PROVE  Vouched(w, users, cs, c, o)
BY DEF Safe, Vouched

LEMMA SameFields ==
    ASSUME NEW c, NEW d, SameWho(c, d)
    PROVE  /\ d.who = c.who
           /\ d.msg["consumer.name"] = c.msg["consumer.name"]
           /\ d.msg["consumer.group"] = c.msg["consumer.group"]
           /\ d.msg["consumer.labels"] = c.msg["consumer.labels"]
           /\ d.msg["consumer.custom_id"] = c.msg["consumer.custom_id"]
           /\ d.req.headers["x-consumer-username"] = c.req.headers["x-consumer-username"]
           /\ d.req.headers["x-consumer-custom-id"] = c.req.headers["x-consumer-custom-id"]
BY DEF SameWho, ConsumerKeys

LEMMA SameJoins ==
    ASSUME NEW b, NEW c, SameWho(b, c), NEW d, NEW u, Joins(c, d, u), NEW e, SameWho(d, e)
    PROVE  Joins(b, e, u)
<1>1. /\ c.who = b.who
      /\ c.msg["consumer.group"] = b.msg["consumer.group"]
      /\ c.msg["consumer.labels"] = b.msg["consumer.labels"]
      /\ c.msg["consumer.custom_id"] = b.msg["consumer.custom_id"]
      /\ c.req.headers["x-consumer-custom-id"] = b.req.headers["x-consumer-custom-id"]
    BY SameFields
<1>2. /\ e.who = d.who
      /\ e.msg["consumer.name"] = d.msg["consumer.name"]
      /\ e.msg["consumer.group"] = d.msg["consumer.group"]
      /\ e.msg["consumer.labels"] = d.msg["consumer.labels"]
      /\ e.msg["consumer.custom_id"] = d.msg["consumer.custom_id"]
      /\ e.req.headers["x-consumer-username"] = d.req.headers["x-consumer-username"]
      /\ e.req.headers["x-consumer-custom-id"] = d.req.headers["x-consumer-custom-id"]
    BY SameFields
<1> QED BY <1>1, <1>2 DEF Joins

LEMMA SameSelf ==
    ASSUME NEW c
    PROVE  SameWho(c, c)
BY DEF SameWho

\* The identity of the consumers attached so far, if the context says no more.
LEMMA IdentifiedSame ==
    ASSUME NEW w, NEW c, NEW d, SameWho(c, d), Identified(w, c)
    PROVE  Identified(w, d)
<1>1. /\ d.who = c.who
      /\ d.msg["consumer.name"] = c.msg["consumer.name"]
      /\ d.msg["consumer.group"] = c.msg["consumer.group"]
      /\ d.msg["consumer.labels"] = c.msg["consumer.labels"]
      /\ d.msg["consumer.custom_id"] = c.msg["consumer.custom_id"]
      /\ d.req.headers["x-consumer-username"] = c.req.headers["x-consumer-username"]
      /\ d.req.headers["x-consumer-custom-id"] = c.req.headers["x-consumer-custom-id"]
    BY SameFields
<1> QED BY <1>1 DEF Identified

\* One more value is the latest, if it is there.
LEMMA LatestAppend ==
    ASSUME NEW n \in Nat, NEW vs, DOMAIN vs = 1 .. n, NEW ws, DOMAIN ws = 1 .. n + 1,
           \A k \in 1 .. n : ws[k] = vs[k], NEW v, NEW old, IsLatest(v, vs, old)
    PROVE  IsLatest(Else(ws[n + 1], v), ws, old)
<1>1. \A k \in 1 .. n + 1 : k \in 1 .. n \/ k = n + 1
    OBVIOUS
<1>2. n + 1 \in 1 .. n + 1 /\ \A k \in 1 .. n + 1 : ~(k > n + 1)
    OBVIOUS
<1>3. CASE ws[n + 1] # Absent
    <2>1. Else(ws[n + 1], v) = ws[n + 1]
        BY <1>3 DEF Else
    <2> QED BY <1>2, <1>3, <2>1 DEF IsLatest
<1>4. CASE ws[n + 1] = Absent
    <2>1. Else(ws[n + 1], v) = v
        BY <1>4 DEF Else
    <2>2. CASE v = old /\ \A k \in DOMAIN vs : vs[k] = Absent
        <3>1. \A k \in DOMAIN ws : ws[k] = Absent
            BY <1>1, <1>4, <2>2
        <3> QED BY <2>1, <2>2, <3>1 DEF IsLatest
    <2>3. CASE \E k \in DOMAIN vs : /\ vs[k] # Absent /\ v = vs[k]
                                    /\ \A j \in DOMAIN vs : j > k => vs[j] = Absent
        <3>1. PICK k \in 1 .. n : /\ vs[k] # Absent /\ v = vs[k]
                                  /\ \A j \in 1 .. n : j > k => vs[j] = Absent
            BY <2>3
        <3>2. k \in DOMAIN ws /\ ws[k] # Absent /\ v = ws[k]
            BY <3>1
        <3>3. \A j \in DOMAIN ws : j > k => ws[j] = Absent
            BY <1>1, <1>4, <3>1
        <3> QED BY <2>1, <3>2, <3>3 DEF IsLatest
    <2> QED BY <2>2, <2>3 DEF IsLatest
<1> QED BY <1>3, <1>4

\* Whoever is attached next is the one named, and brings what he has.
LEMMA IdentifiedJoins ==
    ASSUME NEW w, NEW users, NEW c, c.who \in Seq(users), Identified(w, c),
           NEW u \in users, NEW d, Joins(c, d, u)
    PROVE  Identified(w, d)
<1> DEFINE n == Len(c.who)
           groups(x) == [k \in DOMAIN x.who |-> x.who[k].group]
           labels(x) == [k \in DOMAIN x.who |-> Labels(x.who[k])]
           ids(x)    == [k \in DOMAIN x.who |-> x.who[k].labels["custom_id"]]
<1>1. /\ n \in Nat /\ DOMAIN c.who = 1 .. n /\ DOMAIN d.who = 1 .. n + 1 /\ Len(d.who) = n + 1
      /\ d.who[n + 1] = u /\ \A k \in 1 .. n : d.who[k] = c.who[k]
    <2>1. d.who = Append(c.who, u)
        BY DEF Joins
    <2> QED BY <2>1, AppendProperties, LenProperties
<1>2. d.who # << >> /\ n + 1 \in 1 .. n + 1 /\ \A k \in 1 .. n : k \in 1 .. n + 1
    BY <1>1
<1> HIDE DEF n
<1>3. IsLatest(d.msg["consumer.group"], groups(d), Absent)
    <2>1. IsLatest(c.msg["consumer.group"], groups(c), Absent)
        BY DEF Identified
    <2>2. PICK vs : vs = groups(c)
        OBVIOUS
    <2>3. PICK ws : ws = groups(d)
        OBVIOUS
    <2>4. DOMAIN vs = 1 .. n /\ DOMAIN ws = 1 .. n + 1 /\ \A k \in 1 .. n : ws[k] = vs[k]
        BY <1>1, <1>2, <2>2, <2>3
    <2>5. ws[n + 1] = u.group
        BY <1>1, <1>2, <2>3
    <2>6. d.msg["consumer.group"] = Else(ws[n + 1], c.msg["consumer.group"])
        BY <2>5 DEF Joins
    <2> HIDE DEF groups
    <2>7. IsLatest(c.msg["consumer.group"], vs, Absent)
        BY <2>1, <2>2
    <2>8. IsLatest(Else(ws[n + 1], c.msg["consumer.group"]), ws, Absent)
        BY <1>1, <2>4, <2>7, LatestAppend
    <2> QED BY <2>3, <2>6, <2>8
<1>4. IsLatest(d.msg["consumer.labels"], labels(d), Absent)
    <2>1. IsLatest(c.msg["consumer.labels"], labels(c), Absent)
        BY DEF Identified
    <2>2. PICK vs : vs = labels(c)
        OBVIOUS
    <2>3. PICK ws : ws = labels(d)
        OBVIOUS
    <2>4. DOMAIN vs = 1 .. n /\ DOMAIN ws = 1 .. n + 1 /\ \A k \in 1 .. n : ws[k] = vs[k]
        BY <1>1, <1>2, <2>2, <2>3
    <2>5. ws[n + 1] = Labels(u)
        <3>1. ws[n + 1] = Labels(d.who[n + 1])
            BY <1>1, <1>2, <2>3
        <3> QED BY <1>1, <3>1
    <2>6. d.msg["consumer.labels"] = Else(ws[n + 1], c.msg["consumer.labels"])
        BY <2>5 DEF Joins
    <2> HIDE DEF labels
    <2>7. IsLatest(c.msg["consumer.labels"], vs, Absent)
        BY <2>1, <2>2
    <2>8. IsLatest(Else(ws[n + 1], c.msg["consumer.labels"]), ws, Absent)
        BY <1>1, <2>4, <2>7, LatestAppend
    <2> QED BY <2>3, <2>6, <2>8
<1>5. /\ IsLatest(d.msg["consumer.custom_id"], ids(d), Absent)
      /\ IsLatest(d.req.headers["x-consumer-custom-id"], ids(d), w.headers["x-consumer-custom-id"])
    <2>1. /\ IsLatest(c.msg["consumer.custom_id"], ids(c), Absent)
          /\ IsLatest(c.req.headers["x-consumer-custom-id"], ids(c), w.headers["x-consumer-custom-id"])
        BY DEF Identified
    <2>2. PICK vs : vs = ids(c)
        OBVIOUS
    <2>3. PICK ws : ws = ids(d)
        OBVIOUS
    <2>4. DOMAIN vs = 1 .. n /\ DOMAIN ws = 1 .. n + 1 /\ \A k \in 1 .. n : ws[k] = vs[k]
        BY <1>1, <1>2, <2>2, <2>3
    <2>5. ws[n + 1] = u.labels["custom_id"]
        BY <1>1, <1>2, <2>3
    <2>6. /\ d.msg["consumer.custom_id"] = Else(ws[n + 1], c.msg["consumer.custom_id"])
          /\ d.req.headers["x-consumer-custom-id"] =
                Else(ws[n + 1], c.req.headers["x-consumer-custom-id"])
        BY <2>5 DEF Joins
    <2> HIDE DEF ids
    <2>7. /\ IsLatest(c.msg["consumer.custom_id"], vs, Absent)
          /\ IsLatest(c.req.headers["x-consumer-custom-id"], vs, w.headers["x-consumer-custom-id"])
        BY <2>1, <2>2
    <2>8. /\ IsLatest(Else(ws[n + 1], c.msg["consumer.custom_id"]), ws, Absent)
          /\ IsLatest(Else(ws[n + 1], c.req.headers["x-consumer-custom-id"]), ws,
                      w.headers["x-consumer-custom-id"])
        BY <1>1, <2>4, <2>7, LatestAppend
    <2> QED BY <2>3, <2>6, <2>8
<1>6. d.msg["consumer.name"] = d.who[Len(d.who)].name
      /\ d.req.headers["x-consumer-username"] = d.who[Len(d.who)].name
    BY <1>1 DEF Joins
<1> QED BY <1>2, <1>3, <1>4, <1>5, <1>6 DEF Identified

LEMMA AttachJoins ==
    ASSUME NEW w, NEW c, Guarded(w, c), NEW u
    PROVE  LET d == attach_consumer(c, u) IN Guarded(w, d) /\ Joins(c, d, u)
<1> DEFINE cid == u.labels["custom_id"]
           m == [c.msg EXCEPT
                   !["consumer.name"] = u.name,
                   !["consumer.group"] = Else(u.group, c.msg["consumer.group"]),
                   !["consumer.labels"] = Else(Labels(u), c.msg["consumer.labels"]),
                   !["consumer.custom_id"] = Else(cid, c.msg["consumer.custom_id"])]
           h == [c.req.headers EXCEPT
                   !["x-consumer-username"] = u.name,
                   !["x-consumer-custom-id"] = Else(cid, c.req.headers["x-consumer-custom-id"])]
           d == attach_consumer(c, u)
<1>c. Carried(c)
    BY DEF Guarded
<1>1. d = [c EXCEPT !.who = Append(c.who, u), !.msg = m, !.req.headers = h]
    BY DEF attach_consumer, Else
<1>2. /\ DOMAIN m = DOMAIN c.msg /\ m["consumer.name"] = u.name
      /\ m["consumer.group"] = Else(u.group, c.msg["consumer.group"])
      /\ m["consumer.labels"] = Else(Labels(u), c.msg["consumer.labels"])
      /\ m["consumer.custom_id"] = Else(cid, c.msg["consumer.custom_id"])
    <2> HIDE DEF cid
    <2> QED BY <1>c DEF Carried, ConsumerKeys
<1>3. /\ DOMAIN h = DOMAIN c.req.headers /\ h["x-consumer-username"] = u.name
      /\ h["x-consumer-custom-id"] = Else(cid, c.req.headers["x-consumer-custom-id"])
      /\ \A n \in {"x-api-key", "x-hmac-signature", "x-userinfo", "authorization"} :
            h[n] = c.req.headers[n]
    <2> HIDE DEF cid
    <2> QED BY <1>c DEF Carried, Vouching
<1> HIDE DEF m, h, d
<1>4. /\ DOMAIN d = DOMAIN c /\ d.who = Append(c.who, u) /\ d.msg = m /\ DOMAIN d.req = DOMAIN c.req
      /\ d.req.headers = h /\ d.req.query = c.req.query /\ d.hidden = c.hidden /\ d.sent = c.sent
    BY <1>1, <1>c DEF Carried
<1>5. Guarded(w, d)
    <2>1. Carried(d)
        BY <1>c, <1>2, <1>3, <1>4 DEF Carried
    <2>2. /\ d.req.headers["x-api-key"] = c.req.headers["x-api-key"]
          /\ d.req.headers["x-hmac-signature"] = c.req.headers["x-hmac-signature"]
          /\ d.req.headers["x-userinfo"] = c.req.headers["x-userinfo"]
          /\ d.req.headers["authorization"] = c.req.headers["authorization"]
        BY <1>3, <1>4
    <2>3. Kept(w, d)
        BY <1>4, <2>2 DEF Guarded, Kept
    <2>4. \A e \in d.hidden : Out(w, d, e)
        BY <1>4, <2>2 DEF Guarded, Out
    <2> QED BY <1>4, <2>1, <2>3, <2>4 DEF Guarded
<1>6. Joins(c, d, u)
    BY <1>2, <1>3, <1>4 DEF Joins
<1> QED BY <1>5, <1>6 DEF d

LEMMA AttachVouched ==
    ASSUME NEW w, NEW users, NEW cs, NEW c, NEW d, Safe(w, c, d), NEW u \in users,
           u.secret # "provider's" => Proves(w, u) \/ \E cfg \in cs : Admits(cfg, u)
    PROVE  /\ Vouched(w, users, cs, c, Ok(attach_consumer(d, u)))
           /\ \A n : Vouched(w, users, cs, c, Ok(WithUser(attach_consumer(d, u), n)))
<1>1. PICK e : e = attach_consumer(d, u) /\ Guarded(w, e) /\ Joins(d, e, u)
    BY AttachJoins DEF Safe
<1>2. SameWho(c, d)
    BY DEF Safe
<1>3. \A f : Safe(w, e, f) => Guarded(w, f) /\ Joins(c, f, u)
    BY <1>1, <1>2, SameJoins DEF Safe
<1>4. \A f : Safe(w, e, f) => Becomes(w, users, cs, c, f)
    BY <1>3 DEF Becomes
<1>5. \A f : Ok(f).ok /\ Ok(f).ctx = f
    BY DEF Ok
<1>6. \A f : Safe(w, e, f) => Vouched(w, users, cs, c, Ok(f))
    BY <1>3, <1>4, <1>5 DEF Vouched
<1>7. Safe(w, e, e) /\ \A n : Safe(w, e, WithUser(e, n))
    BY <1>1, SafeSelf, SafeResponse
<1> QED BY <1>1, <1>6, <1>7

LEMMA AnonymousVouched ==
    ASSUME NEW w, NEW users, NEW cfg, NEW c, Guarded(w, c), NEW by, NEW s,
           NEW o \in Anonymous(cfg, c, users, reject(c, by, s))
    PROVE  /\ Vouched(w, users, {cfg}, c, o)
           /\ o.ok => \A n : Vouched(w, users, {cfg}, c, [o EXCEPT !.ctx = WithUser(@, n)])
<1>0. Safe(w, c, c)
    BY SafeSelf
<1>1. \/ o = Err(reject(c, by, s))
      \/ \E u \in users : Admits(cfg, u) /\ o = Ok(attach_consumer(c, u))
    BY DEF Anonymous, get, Admits, Has
<1>2. CASE o = Err(reject(c, by, s))
    <2>1. o.ctx = reject(c, by, s) /\ ~o.ok
        BY <1>2 DEF Err
    <2> QED BY <1>0, <2>1, SafeResponse, SafeVouched
<1>3. CASE \E u \in users : Admits(cfg, u) /\ o = Ok(attach_consumer(c, u))
    <2>1. PICK u \in users : Admits(cfg, u) /\ o = Ok(attach_consumer(c, u))
        BY <1>3
    <2>2. Vouched(w, users, {cfg}, c, o)
        BY <1>0, <2>1, AttachVouched
    <2>3. ASSUME NEW n PROVE Vouched(w, users, {cfg}, c, [o EXCEPT !.ctx = WithUser(@, n)])
        <3> DEFINE q == [o EXCEPT !.ctx = WithUser(@, n)]
                   p == Ok(WithUser(attach_consumer(c, u), n))
        <3>1. q.ok = p.ok /\ q.ctx = p.ctx
            BY <2>1 DEF Ok
        <3>2. Vouched(w, users, {cfg}, c, p)
            BY <1>0, <2>1, AttachVouched
        <3> HIDE DEF p, q
        <3>3. Vouched(w, users, {cfg}, c, q)
            BY <3>1, <3>2 DEF Vouched
        <3> QED BY <3>3 DEF q
    <2> QED BY <2>2, <2>3
<1> QED BY <1>1, <1>2, <1>3

\* What is made of the client's authorization proves what that proves.
LEMMA ProvenClaim ==
    ASSUME NEW w, NEW c, Guarded(w, c), Auth(c) # Absent, NEW u, u.secret # "provider's",
           u.secret = Auth(c).secret, NEW t \in {"basic-auth", "jwt-auth", "hmac-auth"},
           u.creds[t] = Auth(c).id
    PROVE  Proves(w, u)
<1>1. SessionToken.secret = "provider's"
    BY DEF SessionToken
<1>2. Claimed(w.headers["authorization"], Auth(c))
    BY <1>1 DEF Guarded, Kept, Auth
<1> QED BY <1>2 DEF Claimed, Proves

\* A scheme the provider does not use is the client's own.
LEMMA OwnScheme ==
    ASSUME NEW w, NEW c, Guarded(w, c), NEW s, Scheme(c, s), s # "bearer"
    PROVE  /\ Auth(c) = w.headers["authorization"] /\ Auth(c) \in Claims(w) /\ Auth(c) # SessionToken
           /\ Claimed(w.headers["authorization"], Auth(c))
<1>1. SessionToken.scheme = "bearer"
    BY DEF SessionToken
<1>2. Auth(c) # Absent /\ Auth(c).scheme = s
    BY DEF Scheme
<1>3. Claimed(w.headers["authorization"], Auth(c))
    BY <1>1, <1>2 DEF Guarded, Kept, Auth
<1> QED BY <1>1, <1>2, <1>3 DEF Claimed, Claims

LEMMA SafeStrip ==
    ASSUME NEW w, NEW c, Guarded(w, c), NEW gone, NEW from, NEW places, NEW v,
           gone \subseteq {"x-api-key", "x-hmac-signature", "authorization"},
           \A n \in places : \/ n = "apikey" /\ "apikey" \in from /\ v # Absent
                             \/ n = "x-api-key" /\ n \in gone /\ v \in Keys(w)
                             \/ n = "x-hmac-signature" /\ n \in gone /\ v # Absent
                             \/ n = "authorization" /\ n \in gone /\ v \in Claims(w) /\ v # SessionToken
    PROVE  Safe(w, c, Hide([c EXCEPT !.req.headers = remove_ci(@, gone),
                                     !.req.query = remove_ci(@, from)], places, v))
<1> DEFINE g == remove_ci(c.req.headers, gone)
           q == remove_ci(c.req.query, from)
           d == [c EXCEPT !.req.headers = remove_ci(@, gone), !.req.query = remove_ci(@, from)]
           e == Hide(d, places, v)
<1>c. Carried(c)
    BY DEF Guarded
<1>1. /\ DOMAIN g = DOMAIN c.req.headers
      /\ \A n \in Vouching : g[n] = IF n \in gone THEN Absent ELSE c.req.headers[n]
    BY <1>c DEF remove_ci, Carried
<1>2. /\ DOMAIN q = DOMAIN c.req.query
      /\ q["apikey"] = IF "apikey" \in from THEN Absent ELSE c.req.query["apikey"]
    BY <1>c DEF remove_ci, Carried
<1>3. /\ DOMAIN d = DOMAIN c /\ DOMAIN d.req = DOMAIN c.req /\ d.req.headers = g /\ d.req.query = q
      /\ d.who = c.who /\ d.msg = c.msg /\ d.sent = c.sent /\ d.hidden = c.hidden
    BY <1>c DEF Carried
<1> HIDE DEF g, q, d
<1>4. /\ DOMAIN e = DOMAIN c /\ e.req = d.req /\ e.who = c.who /\ e.msg = c.msg /\ e.sent = c.sent
      /\ e.hidden = c.hidden \cup {<< n, v >> : n \in places}
    BY <1>c, <1>3 DEF Hide, Carried
<1> HIDE DEF e
<1>5. \A n \in places : Out(w, e, << n, v >>)
    <2> TAKE n \in places
    <2>1. CASE n = "apikey" /\ "apikey" \in from /\ v # Absent
        BY <2>1, <1>2, <1>3, <1>4 DEF Out
    <2>2. CASE n = "x-api-key" /\ n \in gone /\ v \in Keys(w)
        BY <2>2, <1>1, <1>3, <1>4 DEF Out, Vouching
    <2>3. CASE n = "x-hmac-signature" /\ n \in gone /\ v # Absent
        BY <2>3, <1>1, <1>3, <1>4 DEF Out, Vouching
    <2>4. CASE n = "authorization" /\ n \in gone /\ v \in Claims(w) /\ v # SessionToken
        BY <2>4, <1>1, <1>3, <1>4 DEF Out, Vouching
    <2> QED BY <2>1, <2>2, <2>3, <2>4
<1>6. \A x \in e.hidden : x \in c.hidden \/ Out(w, e, x)
    BY <1>4, <1>5
<1>7. /\ \A n \in {"x-api-key", "x-hmac-signature", "x-userinfo", "authorization"} :
            e.req.headers[n] \in {Absent, c.req.headers[n]}
      /\ \A n \in {"x-consumer-username", "x-consumer-custom-id"} :
            e.req.headers[n] = c.req.headers[n]
    BY <1>1, <1>3, <1>4 DEF Vouching
<1>8. Safe(w, c, e)
    BY <1>1, <1>2, <1>3, <1>4, <1>6, <1>7, SafeLess
<1> QED BY <1>8 DEF e, d

LEMMA KeyAuthVouched ==
    ASSUME NEW w, NEW users, NEW cfg, KeysPlaced(cfg), NEW c, Guarded(w, c),
           NEW o \in key_auth_execute(cfg, c, users)
    PROVE  Vouched(w, users, {cfg}, c, o)
<1> DEFINE sent == c.req.headers[KeyHeader(cfg)]
           key == IF sent # Absent \/ ~Has(cfg, "query_param") THEN sent
                  ELSE c.req.query[cfg.query_param]
           known == IF UsesConsumers(cfg) THEN find_by_credential(users, "key-auth", key) ELSE {}
           clean == IF Hides(cfg) THEN strip_credential(cfg, c, key) ELSE c
<1>0. Safe(w, c, c)
    BY SafeSelf
<1>1. key \in {c.req.headers["x-api-key"], c.req.query["apikey"]}
    BY DEF KeysPlaced
<1>2. key # Absent => key \in Keys(w)
    BY <1>1 DEF Guarded, Kept, Keys
<1>3. \/ key \in Inline(cfg, "keys") /\ o = Ok(clean)
      \/ \E u \in known : o = Ok(attach_consumer(clean, u))
      \/ o \in Anonymous(cfg, c, users, reject(c, "key-auth", 401))
    BY Zenon DEF key_auth_execute
<1> HIDE DEF key
<1>4. key # Absent => Safe(w, c, clean)
    <2> SUFFICES ASSUME key # Absent PROVE Safe(w, c, strip_credential(cfg, c, key))
        BY <1>0
    <2> DEFINE gone == {KeyHeader(cfg)}
               from == {Opt(cfg, "query_param", Absent)}
               places == gone \cup (IF Has(cfg, "query_param") THEN {cfg.query_param} ELSE {})
    <2>1. gone = {"x-api-key"}
        BY DEF KeysPlaced
    <2>2. \A n \in places : \/ n = "apikey" /\ "apikey" \in from
                            \/ n = "x-api-key" /\ n \in gone
        BY DEF KeysPlaced, Opt
    <2> DEFINE d == Hide([c EXCEPT !.req.headers = remove_ci(@, gone),
                                   !.req.query = remove_ci(@, from)], places, key)
    <2>3. strip_credential(cfg, c, key) = d
        BY DEF strip_credential
    <2> HIDE DEF gone, from, places
    <2>4. Safe(w, c, d)
        BY <1>2, <2>1, <2>2, SafeStrip
    <2> QED BY <2>3, <2>4
<1> HIDE DEF clean
<1>5. CASE key \in Inline(cfg, "keys") /\ o = Ok(clean)
    <2>1. key # Absent
        BY <1>5 DEF Inline, KeysPlaced
    <2> QED BY <1>4, <1>5, <2>1, SafeVouched, EndContext
<1>6. CASE \E u \in known : o = Ok(attach_consumer(clean, u))
    <2>1. PICK u \in known : o = Ok(attach_consumer(clean, u))
        BY <1>6
    <2>2. u \in users /\ key # Absent /\ u.creds["key-auth"] = key
        BY <2>1 DEF find_by_credential
    <2>3. Proves(w, u)
        BY <1>2, <2>2 DEF Proves, Keys
    <2> QED BY <1>4, <2>1, <2>2, <2>3, AttachVouched
<1>7. CASE o \in Anonymous(cfg, c, users, reject(c, "key-auth", 401))
    BY <1>7, AnonymousVouched
<1> QED BY <1>3, <1>5, <1>6, <1>7

LEMMA BasicAuthVouched ==
    ASSUME NEW w, NEW users, NEW cfg, NEW c, Guarded(w, c),
           NEW o \in basic_auth_execute(cfg, c, users)
    PROVE  Vouched(w, users, {cfg}, c, o)
<1> DEFINE known == IF UsesConsumers(cfg) /\ Scheme(c, "basic")
                    THEN {u \in find_by_credential(users, "basic-auth", Auth(c).id) :
                             u.secret = Auth(c).secret}
                    ELSE {}
           clean == IF Hides(cfg) THEN strip_basic(c) ELSE c
<1>0. Safe(w, c, c)
    BY SafeSelf
<1>1. \/ Scheme(c, "basic") /\ \E n : o = Ok(WithUser(clean, n))
      \/ \E u \in known : \E n : o = Ok(WithUser(attach_consumer(clean, u), n))
      \/ \E p \in Anonymous(cfg, c, users, reject(c, "basic-auth", 401)) :
            o = IF p.ok THEN [p EXCEPT !.ctx = WithUser(@, @.msg["consumer.name"])] ELSE p
    BY DEF basic_auth_execute
<1>2. Scheme(c, "basic") => Safe(w, c, clean)
    <2> SUFFICES ASSUME Scheme(c, "basic") PROVE Safe(w, c, strip_basic(c))
        BY <1>0
    <2>1. Auth(c) \in Claims(w) /\ Auth(c) # SessionToken
        BY OwnScheme
    <2> DEFINE gone == {"authorization"}
               g == remove_ci(c.req.headers, gone)
               d == [c EXCEPT !.req.headers = remove_ci(@, gone)]
               e == Hide(d, gone, Auth(c))
    <2>2. /\ DOMAIN g = DOMAIN c.req.headers /\ g["authorization"] = Absent
          /\ \A n \in Vouching \ {"authorization"} : g[n] = c.req.headers[n]
        BY DEF remove_ci, Guarded, Carried, Vouching
    <2>3. /\ DOMAIN d = DOMAIN c /\ DOMAIN d.req = DOMAIN c.req /\ d.req.headers = g
          /\ d.req.query = c.req.query /\ d.who = c.who /\ d.msg = c.msg /\ d.sent = c.sent
          /\ d.hidden = c.hidden
        BY DEF Guarded, Carried
    <2> HIDE DEF g, d
    <2>4. /\ DOMAIN e = DOMAIN c /\ e.req = d.req /\ e.who = c.who /\ e.msg = c.msg /\ e.sent = c.sent
          /\ e.hidden = c.hidden \cup {<< "authorization", Auth(c) >>}
        BY <2>3 DEF Hide, Guarded, Carried
    <2>5. strip_basic(c) = e
        BY DEF strip_basic, d
    <2> HIDE DEF e
    <2>6. Out(w, e, << "authorization", Auth(c) >>)
        BY <2>1, <2>2, <2>3, <2>4 DEF Out
    <2>7. Safe(w, c, e)
        BY <2>2, <2>3, <2>4, <2>6, SafeLess DEF Vouching
    <2> QED BY <2>5, <2>7
<1> HIDE DEF clean
<1>3. CASE Scheme(c, "basic") /\ \E n : o = Ok(WithUser(clean, n))
    <2>1. Safe(w, c, o.ctx)
        BY <1>2, <1>3, SafeResponse, EndContext
    <2> QED BY <2>1, SafeVouched
<1>4. CASE \E u \in known : \E n : o = Ok(WithUser(attach_consumer(clean, u), n))
    <2>1. PICK u \in known : \E n : o = Ok(WithUser(attach_consumer(clean, u), n))
        BY <1>4
    <2>2. /\ u \in users /\ Scheme(c, "basic") /\ u.creds["basic-auth"] = Auth(c).id
          /\ u.secret = Auth(c).secret
        BY <2>1 DEF find_by_credential
    <2>3. u.secret # "provider's" => Proves(w, u)
        BY <2>2, ProvenClaim DEF Scheme
    <2> QED BY <1>2, <2>1, <2>2, <2>3, AttachVouched
<1>5. CASE \E p \in Anonymous(cfg, c, users, reject(c, "basic-auth", 401)) :
              o = IF p.ok THEN [p EXCEPT !.ctx = WithUser(@, @.msg["consumer.name"])] ELSE p
    <2>1. PICK p \in Anonymous(cfg, c, users, reject(c, "basic-auth", 401)) :
              o = IF p.ok THEN [p EXCEPT !.ctx = WithUser(@, @.msg["consumer.name"])] ELSE p
        BY <1>5
    <2>2. PICK n : n = p.ctx.msg["consumer.name"]
        OBVIOUS
    <2>3. p.ok => o = [p EXCEPT !.ctx = WithUser(@, n)]
        BY <2>1, <2>2
    <2>4. PICK s : s = 401
        OBVIOUS
    <2>5. /\ Vouched(w, users, {cfg}, c, p)
          /\ p.ok => \A m : Vouched(w, users, {cfg}, c, [p EXCEPT !.ctx = WithUser(@, m)])
        <3>1. p \in Anonymous(cfg, c, users, reject(c, "basic-auth", s))
            BY <2>4
        <3> QED BY <3>1, AnonymousVouched
    <2>6. p.ok => Vouched(w, users, {cfg}, c, [p EXCEPT !.ctx = WithUser(@, n)])
        BY <2>5, Zenon
    <2> QED BY <2>1, <2>3, <2>5, <2>6
<1> QED BY <1>1, <1>3, <1>4, <1>5

LEMMA JwtAuthVouched ==
    ASSUME NEW w, NEW users, NEW cfg, NEW c, Guarded(w, c),
           NEW o \in jwt_auth_execute(cfg, c, users)
    PROVE  Vouched(w, users, {cfg}, c, o)
<1> DEFINE known == IF UsesConsumers(cfg)
                    THEN {u \in find_by_credential(users, "jwt-auth", Auth(c).id) : verify(u.secret, c)}
                    ELSE {}
           user == WithUser(c, Auth(c).id)
<1>0. Safe(w, c, c)
    BY SafeSelf
<1>1. \/ o = Err(reject(c, "jwt-auth", 401)) \/ o = Ok(user)
      \/ Scheme(c, "bearer") /\ \E u \in known : o = Ok(attach_consumer(user, u))
    BY DEF jwt_auth_execute
<1>2. Safe(w, c, user)
    BY <1>0, SafeResponse
<1> HIDE DEF user
<1>3. CASE o = Err(reject(c, "jwt-auth", 401)) \/ o = Ok(user)
    <2>1. o.ctx = user \/ \E s : o.ctx = reject(c, "jwt-auth", s)
        BY <1>3, EndContext
    <2> QED BY <1>0, <1>2, <2>1, SafeResponse, SafeVouched
<1>4. CASE Scheme(c, "bearer") /\ \E u \in known : o = Ok(attach_consumer(user, u))
    <2>1. PICK u \in known : o = Ok(attach_consumer(user, u))
        BY <1>4
    <2>2. u \in users /\ u.creds["jwt-auth"] = Auth(c).id /\ u.secret = Auth(c).secret
        BY <2>1 DEF find_by_credential, verify
    <2>3. u.secret # "provider's" => Proves(w, u)
        BY <1>4, <2>2, ProvenClaim DEF Scheme
    <2> QED BY <1>2, <2>1, <2>2, <2>3, AttachVouched
<1> QED BY <1>1, <1>3, <1>4

LEMMA HmacAuthVouched ==
    ASSUME NEW w, SessionToken \notin Claims(w), NEW users, NEW cfg, NEW c, Guarded(w, c),
           NEW o \in hmac_auth_execute(cfg, c, users)
    PROVE  Vouched(w, users, {cfg}, c, o)
<1> DEFINE params == retrieve_params(c)
           known == IF UsesConsumers(cfg) /\ params # Absent
                    THEN find_by_credential(users, "hmac-auth", params.id) ELSE {}
           no == reject(c, "hmac-auth", 401)
           clean == strip_headers(cfg, c, params)
<1>0. Safe(w, c, c)
    BY SafeSelf
<1>1. \/ o \in Anonymous(cfg, c, users, no) \/ o = Err(no) \/ (params # Absent /\ o = Ok(clean))
      \/ \E u \in known : verify_signature(params, u.secret) /\ o = Ok(attach_consumer(clean, u))
    BY DEF hmac_auth_execute
<1>2. /\ params # Absent => params \in Claims(w) /\ params # SessionToken
      /\ \/ params = w.headers["authorization"] /\ Scheme(c, "signature")
         \/ params \in {Absent, w.headers["x-hmac-signature"]}
    <2>1. CASE Scheme(c, "signature")
        BY <2>1, OwnScheme DEF retrieve_params
    <2>2. CASE ~Scheme(c, "signature")
        BY <2>2 DEF retrieve_params, Guarded, Kept, Claims
    <2> QED BY <2>1, <2>2
<1> HIDE DEF params
<1>3. params # Absent => Safe(w, c, clean)
    <2> SUFFICES ASSUME params # Absent PROVE Safe(w, c, clean)
        OBVIOUS
    <2> DEFINE gone == (IF Opt(cfg, "keep_headers", FALSE) THEN {} ELSE {"x-hmac-signature"}) \cup
                       (IF Hides(cfg) THEN {"authorization"} ELSE {})
               g == remove_ci(c.req.headers, gone)
               d == [c EXCEPT !.req.headers = remove_ci(@, gone)]
               e == Hide(d, gone, params)
    <2>1. gone \subseteq {"x-hmac-signature", "authorization"}
        OBVIOUS
    <2>2. clean = e
        BY DEF strip_headers
    <2> HIDE DEF gone
    <2>3. /\ DOMAIN g = DOMAIN c.req.headers
          /\ \A n \in Vouching : g[n] = IF n \in gone THEN Absent ELSE c.req.headers[n]
        BY DEF remove_ci, Guarded, Carried
    <2>4. /\ DOMAIN d = DOMAIN c /\ DOMAIN d.req = DOMAIN c.req /\ d.req.headers = g
          /\ d.req.query = c.req.query /\ d.who = c.who /\ d.msg = c.msg /\ d.sent = c.sent
          /\ d.hidden = c.hidden
        BY DEF Guarded, Carried
    <2> HIDE DEF g, d
    <2>5. /\ DOMAIN e = DOMAIN c /\ e.req = d.req /\ e.who = c.who /\ e.msg = c.msg /\ e.sent = c.sent
          /\ e.hidden = c.hidden \cup {<< n, params >> : n \in gone}
        BY <2>4 DEF Hide, Guarded, Carried
    <2> HIDE DEF e
    <2>6. \A n \in gone : Out(w, e, << n, params >>)
        <3> TAKE n \in gone
        <3>1. e.req.headers[n] = Absent
            BY <2>1, <2>3, <2>4, <2>5 DEF Vouching
        <3>2. CASE n = "x-hmac-signature"
            BY <3>1, <3>2 DEF Out
        <3>3. CASE n = "authorization"
            BY <1>2, <3>1, <3>3 DEF Out
        <3> QED BY <2>1, <3>2, <3>3
    <2>7. \A x \in e.hidden : x \in c.hidden \/ Out(w, e, x)
        BY <2>5, <2>6
    <2>8. /\ \A n \in {"x-api-key", "x-hmac-signature", "x-userinfo", "authorization"} :
                e.req.headers[n] \in {Absent, c.req.headers[n]}
          /\ \A n \in {"x-consumer-username", "x-consumer-custom-id"} :
                e.req.headers[n] = c.req.headers[n]
        BY <2>1, <2>3, <2>4, <2>5 DEF Vouching
    <2>9. Safe(w, c, e)
        BY <2>3, <2>4, <2>5, <2>7, <2>8, SafeLess
    <2> QED BY <2>2, <2>9
<1> HIDE DEF clean
<1>4. CASE o \in Anonymous(cfg, c, users, no)
    BY <1>4, AnonymousVouched
<1>5. CASE o = Err(no) \/ (params # Absent /\ o = Ok(clean))
    <2>1. (\E s : o.ctx = reject(c, "hmac-auth", s)) \/ (params # Absent /\ o.ctx = clean)
        BY <1>5, EndContext
    <2> QED BY <1>0, <1>3, <2>1, SafeResponse, SafeVouched
<1>6. CASE \E u \in known : verify_signature(params, u.secret) /\ o = Ok(attach_consumer(clean, u))
    <2>1. PICK u \in known : verify_signature(params, u.secret) /\ o = Ok(attach_consumer(clean, u))
        BY <1>6
    <2>2. /\ u \in users /\ params # Absent /\ u.creds["hmac-auth"] = params.id
          /\ u.secret = params.secret
        BY <2>1 DEF find_by_credential, verify_signature
    <2>3. Proves(w, u)
        BY <1>2, <2>2 DEF Proves
    <2> QED BY <1>3, <2>1, <2>2, <2>3, AttachVouched
<1> QED BY <1>1, <1>4, <1>5, <1>6

LEMMA SubVouched ==
    ASSUME NEW w, SessionToken \notin Claims(w), NEW users, NEW sub, sub.type \in SubTypes,
           KeysPlaced(sub.cfg), NEW c, Guarded(w, c), NEW o \in sub_execute(sub, c, users)
    PROVE  Vouched(w, users, {sub.cfg}, c, o)
BY KeyAuthVouched, BasicAuthVouched, JwtAuthVouched, HmacAuthVouched DEF sub_execute, SubTypes

LEMMA VouchedAfter ==
    ASSUME NEW w, NEW users, NEW cs, NEW c, NEW d, Safe(w, c, d), NEW these \in SUBSET cs,
           NEW o, Vouched(w, users, these, d, o)
    PROVE  Vouched(w, users, cs, c, o)
<1>1. SameWho(d, o.ctx) => SameWho(c, o.ctx)
    BY SameWhoTwice DEF Safe
<1>2. \A u : Joins(d, o.ctx, u) => Joins(c, o.ctx, u)
    BY SameJoins, SameSelf DEF Safe
<1>3. Becomes(w, users, these, d, o.ctx) => Becomes(w, users, cs, c, o.ctx)
    BY <1>2 DEF Becomes
<1> QED BY <1>1, <1>3 DEF Vouched

\* An attempt that fails leaves nobody behind for the next one.
LEMMA MultiAuthVouched ==
    ASSUME NEW w, SessionToken \notin Claims(w), NEW users, NEW c, Guarded(w, c),
           NEW cfg, IsList(cfg.auth_plugins), multi_auth_from_config(cfg),
           \A i \in DOMAIN cfg.auth_plugins : KeysPlaced(cfg.auth_plugins[i].cfg),
           NEW cs, \A i \in DOMAIN cfg.auth_plugins : cfg.auth_plugins[i].cfg \in cs,
           NEW o \in multi_auth_execute(cfg, c, users)
    PROVE  Vouched(w, users, cs, c, o)
<1> DEFINE subs == cfg.auth_plugins
           n == Len(subs)
           attempt == CHOOSE f : IsAttempts(f, n, subs, c, users)
<1>0. Safe(w, c, c)
    BY SafeSelf
<1>1. n \in Nat /\ IsAttempts(attempt, n, subs, c, users)
    BY AttemptsExist DEF IsList
<1>2. \A i \in 1 .. n : subs[i].type \in SubTypes /\ KeysPlaced(subs[i].cfg) /\ subs[i].cfg \in cs
    BY DEF multi_auth_from_config, sub_created, SubTypes, IsList
<1>3. ASSUME NEW p, Vouched(w, users, cs, c, p), ~p.ok PROVE Safe(w, c, NextAttempt(p, c))
    <2>1. Safe(w, c, p.ctx)
        BY <1>3 DEF Vouched, Safe
    <2>2. Quiet(p.ctx, NextAttempt(p, c))
        <3>1. Quiet(p.ctx, p.ctx)
            BY <2>1, QuietSelf DEF Safe, Guarded
        <3> QED BY <3>1, QuietResponse DEF NextAttempt
    <2> QED BY <2>1, <2>2, SafeQuiet
<1> DEFINE B == {p \in UNION {attempt[k] : k \in 0 .. n} : ~Vouched(w, users, cs, c, p)}
<1>4. Err(c) \notin B
    BY <1>0, SafeVouched, EndContext
<1>5. ASSUME NEW k \in 1 .. n, NEW q \in attempt[k - 1] \ B, NEW p \in attempt[k],
             ~q.ok, p \in sub_execute(subs[k], NextAttempt(q, c), users)
      PROVE  p \notin B
    <2>1. Vouched(w, users, cs, c, q)
        <3>1. k - 1 \in 0 .. n
            BY <1>1
        <3> QED BY <1>5, <3>1
    <2>2. PICK d : d = NextAttempt(q, c) /\ Safe(w, c, d) /\ Guarded(w, d)
        BY <1>3, <1>5, <2>1 DEF Safe
    <2>3. Vouched(w, users, {subs[k].cfg}, d, p)
        BY <1>2, <1>5, <2>2, SubVouched
    <2>4. Vouched(w, users, cs, c, p)
        BY <1>2, <2>2, <2>3, VouchedAfter
    <2> QED BY <2>4
<1>6. \A p \in attempt[n] : Vouched(w, users, cs, c, p)
    <2>1. n \in 0 .. n
        BY <1>1
    <2> HIDE DEF attempt, n, subs
    <2>2. attempt[n] \cap B = {}
        <3> HIDE DEF B
        <3> QED BY <1>1, <1>4, <1>5, AttemptsInduct
    <2> QED BY <2>1, <2>2
<1>7. multi_auth_execute(cfg, c, users) =
          {IF p.ok THEN p ELSE Err(reject(NextAttempt(p, c), "multi-auth", 401)) : p \in attempt[n]}
    BY DEF multi_auth_execute, IsAttempts, Retried
<1>8. PICK p \in attempt[n] :
          o = IF p.ok THEN p ELSE Err(reject(NextAttempt(p, c), "multi-auth", 401))
    BY <1>7
<1>9. Vouched(w, users, cs, c, p)
    BY <1>6
<1>10. ~p.ok => Vouched(w, users, cs, c, o)
    <2> SUFFICES ASSUME ~p.ok PROVE Vouched(w, users, cs, c, o)
        OBVIOUS
    <2>1. PICK d : d = NextAttempt(p, c) /\ Safe(w, c, d)
        BY <1>3, <1>9
    <2>2. \E s : o.ctx = reject(d, "multi-auth", s)
        BY <1>8, <2>1, EndContext
    <2> QED BY <2>1, <2>2, SafeResponse, SafeVouched
<1> QED BY <1>8, <1>9, <1>10

\* The nodes that attach consumers, and the configurations by which one may admit the
\* anonymous consumer.
Attaching == SubTypes \cup {"multi-auth"}

Configs(cfg) ==
    {cfg} \cup (IF Given(cfg, "auth_plugins")
                THEN {cfg.auth_plugins[i].cfg : i \in DOMAIN cfg.auth_plugins} ELSE {})

\* The plaintext of a token is the token's claim.
LEMMA SafeDecrypt ==
    ASSUME NEW w, NEW c, Guarded(w, c), Scheme(c, "jwe")
    PROVE  Safe(w, c, [c EXCEPT !.req.headers["authorization"] = [@ EXCEPT !.scheme = "bearer"]])
<1> DEFINE auth == w.headers["authorization"]
           t == [auth EXCEPT !.scheme = "bearer"]
           d == [c EXCEPT !.req.headers["authorization"] = t]
<1>1. Auth(c) = auth /\ Claimed(auth, auth) /\ auth # SessionToken /\ auth # Absent
    BY OwnScheme DEF Scheme
<1>2. Claimed(auth, t)
    <2>1. PICK b : b = auth /\ b = [scheme |-> b.scheme, id |-> b.id, secret |-> b.secret, dated |-> b.dated]
        BY <1>1 DEF Claimed, IsClaim
    <2>2. PICK x : x = [b EXCEPT !.scheme = "bearer"]
        OBVIOUS
    <2>3. /\ x.scheme = "bearer" /\ x.id = b.id /\ x.secret = b.secret
          /\ x = [scheme |-> "bearer", id |-> b.id, secret |-> b.secret, dated |-> b.dated]
        BY <2>1, <2>2
    <2>4. IsClaim(x)
        BY <2>3 DEF IsClaim
    <2> QED BY <1>1, <2>1, <2>2, <2>3, <2>4 DEF Claimed
<1> HIDE DEF t
<1>3. /\ DOMAIN d = DOMAIN c /\ d.who = c.who /\ d.hidden = c.hidden /\ d.msg = c.msg /\ d.sent = c.sent
      /\ DOMAIN d.req = DOMAIN c.req /\ DOMAIN d.req.headers = DOMAIN c.req.headers
      /\ d.req.query = c.req.query /\ d.req.headers["authorization"] = t
      /\ \A m \in Vouching \ {"authorization"} : d.req.headers[m] = c.req.headers[m]
    BY DEF Guarded, Carried, Vouching
<1>4. d = [c EXCEPT !.req.headers["authorization"] = [@ EXCEPT !.scheme = "bearer"]]
    BY <1>1 DEF Auth, t
<1> HIDE DEF d
<1>5. Carried(d) /\ SameWho(c, d)
    BY <1>3 DEF Guarded, Carried, SameWho, Vouching
<1>6. /\ d.req.headers["x-api-key"] = c.req.headers["x-api-key"]
      /\ d.req.headers["x-hmac-signature"] = c.req.headers["x-hmac-signature"]
      /\ d.req.headers["x-userinfo"] = c.req.headers["x-userinfo"]
    BY <1>3 DEF Vouching
<1>7. Kept(w, d)
    BY <1>2, <1>3, <1>6 DEF Guarded, Kept
<1>8. \A e \in c.hidden : Out(w, d, e)
    BY <1>1, <1>3, <1>6 DEF Guarded, Out, Auth
<1>9. Safe(w, c, d)
    BY <1>3, <1>5, <1>7, <1>8 DEF Guarded, Safe
<1> QED BY <1>4, <1>9

LEMMA CredentialVouched ==
    ASSUME NEW w, SessionToken \notin Claims(w), NEW users, NEW c, Guarded(w, c),
           NEW node, node.type \in CredentialTypes, credential_created(node), VouchingSpared(node),
           node.type = "multi-auth" => IsList(node.cfg.auth_plugins),
           NEW o \in credential_execute(node, c, users)
    PROVE  /\ node.type \in Attaching => Vouched(w, users, Configs(node.cfg), c, o)
           /\ node.type \notin Attaching => Safe(w, c, o.ctx)
<1> DEFINE cfg == node.cfg
<1>0. Safe(w, c, c) /\ KeysPlaced(cfg)
    BY SafeSelf DEF VouchingSpared
<1>1. CASE node.type \in SubTypes
    <2>1. o \in sub_execute(node, c, users)
        BY <1>1 DEF credential_execute, SubTypes
    <2>2. Vouched(w, users, {cfg}, c, o)
        BY <1>0, <1>1, <2>1, SubVouched
    <2>3. Vouched(w, users, Configs(cfg), c, o)
        BY <1>0, <2>2, VouchedAfter DEF Configs
    <2> QED BY <1>1, <2>3 DEF Attaching
<1>2. CASE node.type = "multi-auth"
    <2>1. multi_auth_from_config(cfg) /\ o \in multi_auth_execute(cfg, c, users)
        BY <1>2 DEF credential_execute, credential_created, SubTypes
    <2>2. Has(cfg, "auth_plugins")
        BY <2>1 DEF multi_auth_from_config, Required
    <2>3. /\ \A i \in DOMAIN cfg.auth_plugins : KeysPlaced(cfg.auth_plugins[i].cfg)
          /\ \A i \in DOMAIN cfg.auth_plugins : cfg.auth_plugins[i].cfg \in Configs(cfg)
        BY <2>2 DEF VouchingSpared, Configs, Has
    <2>4. IsList(cfg.auth_plugins)
        BY <1>2
    <2>5. Vouched(w, users, Configs(cfg), c, o)
        BY <2>1, <2>3, <2>4, MultiAuthVouched
    <2> QED BY <1>2, <2>5 DEF Attaching
<1>3. CASE node.type = "jwe-decrypt"
    <2> DEFINE d == [c EXCEPT !.req.headers["authorization"] = [@ EXCEPT !.scheme = "bearer"]]
    <2>1. o \in jwe_decrypt_execute(cfg, c, users)
        BY <1>3 DEF credential_execute, SubTypes
    <2>2. \/ o = Err(reject(c, "jwe-decrypt", 401)) \/ o = Ok(c)
          \/ (Scheme(c, "jwe") /\ o = Ok(d))
        BY <2>1 DEF jwe_decrypt_execute
    <2>3. Scheme(c, "jwe") => Safe(w, c, d)
        BY SafeDecrypt
    <2> HIDE DEF d
    <2>4. \/ o.ctx = c \/ (\E s : o.ctx = reject(c, "jwe-decrypt", s))
          \/ (Scheme(c, "jwe") /\ o.ctx = d)
        BY <2>2, EndContext
    <2>5. Safe(w, c, o.ctx)
        BY <1>0, <2>3, <2>4, SafeResponse
    <2> QED BY <1>3, <2>5 DEF Attaching, SubTypes
<1>4. CASE node.type = "ldap-auth"
    <2>1. o \in ldap_auth_execute(c)
        BY <1>4 DEF credential_execute, SubTypes
    <2>2. \/ o = Err(reject(c, "ldap-auth", 401))
          \/ \E n : o = Said(Ok(WithUser(c, n)), "allow")
          \/ \E a : o = Said(Err(StatusOnly(c, 401)), a)
                    \/ o = Said(Err(reject(c, "ldap-auth", 401)), a)
        BY <2>1 DEF ldap_auth_execute, bind
    <2>3. \E s, n : o.ctx \in {reject(c, "ldap-auth", s), StatusOnly(c, s), WithUser(c, n)}
        BY <2>2, EndContext
    <2>4. Safe(w, c, o.ctx)
        BY <1>0, <2>3, SafeResponse
    <2> QED BY <1>4, <2>4 DEF Attaching, SubTypes
<1>5. CASE node.type = "attach-consumer-label"
    <2> DEFINE put(t) == [c EXCEPT !.req.headers["x-consumer-tier"] = t]
    <2>1. o \in attach_consumer_label_execute(c)
        BY <1>5 DEF credential_execute, SubTypes
    <2>2. o = Ok(c) \/ \E t : o = Ok(put(t))
        BY <2>1 DEF attach_consumer_label_execute
    <2>3. \A t : Quiet(c, put(t))
        <3>1. "x-consumer-tier" \notin Vouching
            BY DEF Vouching
        <3> QED BY <3>1, QuietHeader DEF Guarded
    <2> HIDE DEF put
    <2>4. Safe(w, c, o.ctx)
        BY <1>0, <2>2, <2>3, SafeQuiet, EndContext
    <2> QED BY <1>5, <2>4 DEF Attaching, SubTypes
<1> QED BY <1>1, <1>2, <1>3, <1>4, <1>5 DEF CredentialTypes

-----------------------------------------------------------------------------
(* A node of any type, and the nodes of the policy. *)

LEMMA NodeVouched ==
    ASSUME NEW w, NEW c, Guarded(w, c), NEW node, Lists(node.cfg), create_plugin(node),
           VouchingSpared(node), Strangers(w, node.cfg), NEW o \in execute(node, c)
    PROVE  /\ node.type \in Attaching => Vouched(w, Stores[store], Configs(node.cfg), c, o)
           /\ node.type \notin Attaching => Safe(w, c, o.ctx)
<1> DEFINE cfg == node.cfg
<1>w. Carried(c) /\ OptionsSpare(cfg) /\ SessionToken \notin Claims(w)
    BY DEF Guarded, VouchingSpared, Strangers, OwnClaims
<1>a. node.type \in Attaching => node.type \in CredentialTypes
    BY DEF Attaching, CredentialTypes
<1>q. ASSUME Quiet(c, o.ctx), node.type \notin CredentialTypes
      PROVE  node.type \notin Attaching /\ Safe(w, c, o.ctx)
    BY <1>a, <1>q, QuietGuarded DEF Safe
<1>1. CASE node.type \in CredentialTypes
    <2>1. credential_created(node) /\ o \in credential_execute(node, c, Stores[store])
        BY <1>1, OneGroup DEF create_plugin, execute
    <2>2. node.type = "multi-auth" => IsList(cfg.auth_plugins)
        BY <2>1 DEF Lists, credential_created, multi_auth_from_config, Required, SubTypes
    <2> QED BY <1>1, <1>w, <2>1, <2>2, CredentialVouched
<1>2. CASE node.type \in AuthorizationTypes
    <2>1. o \in authorization_execute(node, c) /\ node.type \notin CredentialTypes
        BY <1>2, OneGroup DEF execute
    <2> QED BY <1>2, <1>q, <1>w, <2>1, QuietAuthorization
<1>3. CASE node.type \in ProviderTypes
    <2>1. o \in provider_execute(node, c) /\ node.type \notin CredentialTypes
        BY <1>3, OneGroup DEF execute
    <2> QED BY <1>3, <1>a, <2>1, SafeProvider
<1>4. CASE node.type \in TransformTypes
    <2>1. o \in transform_execute(node, c) /\ node.type \notin CredentialTypes
        BY <1>4, OneGroup DEF execute
    <2> QED BY <1>4, <1>q, <1>w, <2>1, QuietTransform
<1>5. CASE node.type \in CheckTypes
    <2>1. check_created(node) /\ o \in check_execute(node, c) /\ node.type \notin CredentialTypes
        BY <1>5, OneGroup DEF create_plugin, execute
    <2> QED BY <1>5, <1>q, <1>w, <2>1, QuietCheck
<1>6. CASE node.type \in BackendTypes
    <2>1. backend_created(node) /\ o \in backend_execute(node, c) /\ node.type \notin CredentialTypes
        BY <1>6, OneGroup DEF create_plugin, execute
    <2>2. node.type \in Serverless => IsList(cfg.functions)
        BY <2>1 DEF Lists, backend_created, serverless_from_config, Required, Serverless
    <2> QED BY <1>6, <1>q, <2>1, <2>2, QuietBackend
<1>7. CASE node.type \notin CredentialTypes \cup AuthorizationTypes \cup ProviderTypes
                             \cup TransformTypes \cup CheckTypes \cup BackendTypes
    <2>1. o = Ok(c)
        BY <1>7 DEF execute
    <2> QED BY <1>7, <1>q, <1>w, <2>1, QuietSelf, EndContext
<1> QED BY <1>1, <1>2, <1>3, <1>4, <1>5, <1>6, <1>7

\* An option that is wrong or missing gives away no more than the right one.
LEMMA SpoiltVouching ==
    ASSUME NEW node, NEW n, IsNode(node, n), NEW o, NEW how
    PROVE  LET bad == Spoilt(node, o, how)
           IN  /\ bad.type = node.type /\ bad.err = node.err
               /\ VouchingSpared(node) => VouchingSpared(bad)
               /\ \A w : Strangers(w, node.cfg) => Strangers(w, bad.cfg)
<1> DEFINE cfg == [p \in DOMAIN node.cfg \ (IF how = "missing" THEN {o} ELSE {}) |->
                      IF p = o THEN Bad ELSE node.cfg[p]]
           bad == Spoilt(node, o, how)
<1>1. bad.cfg = cfg /\ bad.type = node.type /\ bad.err = node.err
    BY DEF Spoilt, IsNode
<1>2. \A p : Has(cfg, p) => Has(node.cfg, p) /\ cfg[p] = node.cfg[p]
    BY DEF Has, Given
<1> HIDE DEF cfg, bad
<1>3. ASSUME VouchingSpared(node) PROVE VouchingSpared(bad)
    <2>1. OptionsSpare(cfg)
        BY <1>2, <1>3 DEF VouchingSpared, OptionsSpare
    <2>2. KeysPlaced(cfg)
        BY <1>2, <1>3 DEF VouchingSpared, KeysPlaced, KeyHeader, Names, Opt
    <2>3. Has(cfg, "auth_plugins") =>
              \A i \in DOMAIN cfg.auth_plugins : KeysPlaced(cfg.auth_plugins[i].cfg)
        BY <1>2, <1>3 DEF VouchingSpared
    <2>4. Names(cfg, "request") = {} \/ Names(cfg, "request") = Names(node.cfg, "request")
        BY <1>2 DEF Names, Opt
    <2>5. node.type = "data-mask" =>
              \A r \in Names(cfg, "request") :
                 r.type \in {"header", "query"} => r.name \notin Vouching \cup {"apikey"}
        BY <1>3, <2>4 DEF VouchingSpared
    <2>6. node.type = "traffic-label" /\ Has(cfg, "rules") =>
              \A i \in DOMAIN cfg.rules : \A a \in cfg.rules[i].actions :
                 /\ Vouching \cap DOMAIN a.set_headers = {}
                 /\ ConsumerKeys \cap DOMAIN a.set_labels = {}
        BY <1>2, <1>3 DEF VouchingSpared
    <2> QED BY <1>1, <2>1, <2>2, <2>3, <2>5, <2>6 DEF VouchingSpared
<1>4. ASSUME NEW w, Strangers(w, node.cfg) PROVE Strangers(w, cfg)
    <2>1. Has(cfg, "service_token") => cfg.service_token \in OwnClaims(node.cfg)
        BY <1>2 DEF OwnClaims
    <2>2. Has(cfg, "iam") => sign_v4(cfg) \in OwnClaims(node.cfg)
        <3> SUFFICES ASSUME Has(cfg, "iam") PROVE sign_v4(cfg) \in OwnClaims(node.cfg)
            OBVIOUS
        <3>1. Has(node.cfg, "iam") /\ cfg.iam = node.cfg.iam
            BY <1>2
        <3>2. sign_v4(cfg) = sign_v4(node.cfg)
            BY <3>1 DEF sign_v4
        <3> QED BY <3>1, <3>2 DEF OwnClaims
    <2>3. SessionToken \in OwnClaims(node.cfg)
        BY DEF OwnClaims
    <2>4. OwnClaims(cfg) \subseteq OwnClaims(node.cfg)
        <3>1. ASSUME NEW x \in OwnClaims(cfg)
              PROVE  \/ x = SessionToken
                     \/ Has(cfg, "service_token") /\ x = cfg.service_token
                     \/ Has(cfg, "iam") /\ x = sign_v4(cfg)
            BY <3>1 DEF OwnClaims
        <3> QED BY <2>1, <2>2, <2>3, <3>1
    <2>5. Opt(cfg, "apikey", Absent) \in {Absent, Opt(node.cfg, "apikey", Absent)}
        BY <1>2 DEF Opt
    <2>6. Absent \notin Keys(w)
        BY DEF Keys
    <2> QED BY <1>4, <2>4, <2>5, <2>6 DEF Strangers
<1> QED BY <1>1, <1>3, <1>4 DEF bad

LEMMA PolicyVouching ==
    ASSUME idx \in DOMAIN Chains, fault \in Faults(Chains[idx])
    PROVE  CredentialsApart => \A n \in 1 .. Len(Nodes) :
                 VouchingSpared(Nodes[n]) /\ \A req \in Requests : Strangers(req, Nodes[n].cfg)
<1> DEFINE nodes == Chains[idx].nodes
           L == Len(nodes)
<1>1. /\ IsList(nodes) /\ \A n \in 1 .. L : IsNode(nodes[n], L)
      /\ DOMAIN nodes = 1 .. L
    BY ChainAssumption DEF IsList
<1>2. CredentialsApart => \A n \in 1 .. L :
          VouchingSpared(nodes[n]) /\ \A req \in Requests : Strangers(req, nodes[n].cfg)
    BY <1>1 DEF CredentialsApart
<1>3. CASE fault = << >>
    BY <1>2, <1>3 DEF Nodes
<1>4. CASE fault # << >>
    <2> DEFINE k == fault[1]
               bad == Spoilt(nodes[k], fault[2], fault[3])
    <2>1. k \in 1 .. L
        BY <1>1, <1>4 DEF Faults
    <2>2. Nodes = [nodes EXCEPT ![k] = bad]
        BY <1>4 DEF Nodes
    <2>3. /\ VouchingSpared(nodes[k]) => VouchingSpared(bad)
          /\ \A w : Strangers(w, nodes[k].cfg) => Strangers(w, bad.cfg)
        <3>1. PICK node : node = nodes[k] /\ IsNode(node, L)
            BY <1>1, <2>1
        <3> QED BY <3>1, SpoiltVouching
    <2> HIDE DEF bad
    <2>4. DOMAIN Nodes = 1 .. L /\ IsList(Nodes)
        BY <1>1, <2>2, PolicyNodes
    <2>5. 1 .. Len(Nodes) = 1 .. L
        BY <2>4 DEF IsList
    <2>6. \A n \in 1 .. L : Nodes[n] = IF n = k THEN bad ELSE nodes[n]
        BY <1>1, <2>1, <2>2
    <2> HIDE DEF nodes, L, k
    <2>7. CredentialsApart => \A n \in 1 .. L :
              VouchingSpared(Nodes[n]) /\ \A req \in Requests : Strangers(req, Nodes[n].cfg)
        BY <1>2, <2>1, <2>3, <2>6
    <2> QED BY <2>5, <2>7
<1> QED BY <1>3, <1>4

-----------------------------------------------------------------------------
(* What a request shows on its way. *)

SecretsInv == client \in Requests /\ Guarded(client, ctx)

LEMMA SecretsInit ==
    ASSUME CredentialsApart, Init
    PROVE  SecretsInv
<1>1. client \in Requests /\ ctx = NewContext(client)
    BY DEF Init
<1>2. IsCaller(client)
    BY <1>1 DEF CredentialsApart
<1>3. /\ {"req", "res", "msg", "who", "hidden", "sent"} \subseteq DOMAIN ctx
      /\ ctx.req = client /\ DOMAIN ctx.msg = MessageKeys /\ ctx.hidden = {} /\ ctx.sent = {}
    BY <1>1 DEF NewContext
<1>4. Carried(ctx)
    BY <1>2, <1>3 DEF Carried, IsCaller, ConsumerKeys, MessageKeys
<1>5. Kept(client, ctx)
    BY <1>2, <1>3 DEF Kept, Claimed, IsCaller
<1> QED BY <1>1, <1>3, <1>4, <1>5 DEF SecretsInv, Guarded

\* What a node ends with is recorded, and nothing of it is given away.
LEMMA EndSafe ==
    ASSUME NEW w, NEW c, Guarded(w, c), NEW n, NEW d, d \in {c, Recorded(c, n), Unhandled(Recorded(c, n))}
    PROVE  Safe(w, c, d)
<1>1. Quiet(c, c)
    BY QuietSelf DEF Guarded
<1>2. Quiet(c, Recorded(c, n))
    BY <1>1, QuietResponse
<1>3. Quiet(c, Unhandled(Recorded(c, n)))
    BY <1>2, QuietResponse
<1> QED BY <1>1, <1>2, <1>3, QuietGuarded DEF Safe

\* The node that runs, how it ends, and what comes of it.
LEMMA RunVouched ==
    ASSUME CredentialsApart, ExchangeInv, SecretsInv, RunNode
    PROVE  /\ pos \in 1 .. Len(Nodes) /\ IsList(Nodes)
           /\ \E o : /\ o.ok \in BOOLEAN
                     /\ trail' = Append(trail, [pos |-> pos, ok |-> o.ok, said |-> o.said])
                     /\ [pos |-> pos, ok |-> o.ok, said |-> o.said] \in Entries
                     /\ pos' = IF o.ok THEN pos + 1
                               ELSE IF Nodes[pos].err = 0 THEN End ELSE Nodes[pos].err
                     /\ Safe(client, o.ctx, ctx')
                     /\ Nodes[pos].type \in Attaching =>
                           Vouched(client, Stores[store], Configs(Nodes[pos].cfg), ctx, o)
                     /\ Nodes[pos].type \notin Attaching => Safe(client, ctx, o.ctx)
<1>1. phase = "run" /\ pos # End
    BY DEF RunNode
<1>2. /\ IsList(Nodes) /\ \A n \in 1 .. Len(Nodes) : Lists(Nodes[n].cfg)
      /\ \A n \in 1 .. Len(Nodes) :
            VouchingSpared(Nodes[n]) /\ \A req \in Requests : Strangers(req, Nodes[n].cfg)
    BY PolicyNodes, PolicyVouching DEF ExchangeInv
<1>3. pos \in 1 .. Len(Nodes)
    BY <1>1, <1>2 DEF ExchangeInv, End, IsList
<1> DEFINE node == Nodes[pos]
<1>4. PICK o \in execute(node, ctx) :
          /\ trail' = Append(trail, [pos |-> pos, ok |-> o.ok, said |-> o.said])
          /\ pos' = IF o.ok THEN pos + 1 ELSE IF node.err = 0 THEN End ELSE node.err
          /\ ctx' = IF o.ok THEN o.ctx
                    ELSE IF node.err = 0 THEN Unhandled(Recorded(o.ctx, pos))
                    ELSE Recorded(o.ctx, pos)
    BY DEF RunNode
<1>5. /\ create_plugin(node) /\ Lists(node.cfg) /\ VouchingSpared(node)
      /\ Strangers(client, node.cfg) /\ Guarded(client, ctx)
    BY <1>1, <1>2, <1>3 DEF ExchangeInv, Built, SecretsInv
<1>6. IsEnd(o)
    BY <1>4, <1>5, NodeEnds DEF ExchangeInv
<1>7. [pos |-> pos, ok |-> o.ok, said |-> o.said] \in Entries /\ o.ok \in BOOLEAN
    BY <1>3, <1>6 DEF Entries, IsEnd
<1> HIDE DEF node
<1>8. /\ node.type \in Attaching => Vouched(client, Stores[store], Configs(node.cfg), ctx, o)
      /\ node.type \notin Attaching => Safe(client, ctx, o.ctx)
    BY <1>4, <1>5, NodeVouched
<1>9. Guarded(client, o.ctx)
    BY <1>8 DEF Vouched, Safe
<1>10. ctx' \in {o.ctx, Recorded(o.ctx, pos), Unhandled(Recorded(o.ctx, pos))}
    BY <1>4
<1>11. Safe(client, o.ctx, ctx')
    BY <1>9, <1>10, EndSafe
<1> QED BY <1>2, <1>3, <1>4, <1>7, <1>8, <1>11 DEF node

\* All other steps leave who asks as it is.
LEMMA OthersSafe ==
    ASSUME SecretsInv, Compile \/ Route \/ Deliver \/ SwapStore \/ Rest \/ UNCHANGED vars
    PROVE  /\ Safe(client, ctx, ctx')
           /\ UNCHANGED << idx, fault, pos, trail, client >>
<1>g. Guarded(client, ctx) /\ Carried(ctx)
    BY DEF SecretsInv, Guarded
<1>k. Quiet(ctx, ctx)
    BY <1>g, QuietSelf
<1>1. UNCHANGED << idx, fault, pos, trail, client >>
    BY DEF Compile, Route, Deliver, SwapStore, Rest, vars
<1>2. CASE Compile \/ SwapStore \/ Rest \/ UNCHANGED vars
    <2>1. ctx' = ctx
        BY <1>2 DEF Compile, SwapStore, Rest, vars
    <2> QED BY <1>1, <1>g, <2>1, SafeSelf
<1>3. CASE Route
    <2>1. \E s : ctx' \in {ctx, reject(ctx, "listener", s)}
        BY <1>3 DEF Route
    <2>2. Quiet(ctx, ctx')
        BY <1>k, <2>1, QuietResponse
    <2> QED BY <1>1, <1>g, <2>2, QuietGuarded DEF Safe
<1>4. CASE Deliver
    <2> DEFINE q == [ToTarget(ctx) EXCEPT !.path = ctx.msg["__ws_upstream"], !.body = NoBody,
                                          !.headers = remove_ci(@, Framing)]
    <2>1. PICK s : ctx' = StatusOnly(ctx, s) \/ ctx' = Send(StatusOnly(ctx, s), "upstream", q)
        BY <1>4 DEF Deliver
    <2>2. PICK d : d = StatusOnly(ctx, s) /\ Quiet(ctx, d)
        BY <1>k, QuietResponse
    <2>3. Guarded(client, d) /\ SameWho(ctx, d)
        BY <1>g, <2>2, QuietGuarded
    <2>4. /\ q.query["apikey"] = Absent
          /\ \A n \in Vouching : q.headers[n] = d.req.headers[n]
        <3>1. /\ DOMAIN ToTarget(ctx) = DOMAIN ctx.req /\ ToTarget(ctx).headers = ctx.req.headers
              /\ ToTarget(ctx).query = remove_ci(ctx.req.query, QueryNames)
            BY <1>g DEF ToTarget, Carried
        <3>2. /\ q.headers = remove_ci(ctx.req.headers, Framing)
              /\ q.query = remove_ci(ctx.req.query, QueryNames)
            BY <1>g, <3>1 DEF Carried
        <3>3. Vouching \cap Framing = {} /\ "apikey" \in QueryNames
            BY DEF Vouching, Framing, QueryNames
        <3>4. remove_ci(ctx.req.query, QueryNames)["apikey"] = Absent
            BY <1>g, <3>3 DEF remove_ci, Carried
        <3>5. \A n \in Vouching : remove_ci(ctx.req.headers, Framing)[n] = ctx.req.headers[n]
            BY <1>g, <3>3 DEF remove_ci, Carried
        <3> HIDE DEF q
        <3> QED BY <2>2, <3>2, <3>4, <3>5 DEF Quiet
    <2> HIDE DEF q
    <2>5. /\ q.headers["x-api-key"] = d.req.headers["x-api-key"]
          /\ q.headers["x-hmac-signature"] = d.req.headers["x-hmac-signature"]
          /\ q.headers["x-userinfo"] = d.req.headers["x-userinfo"]
          /\ q.headers["authorization"] = d.req.headers["authorization"]
        BY <2>4 DEF Vouching
    <2>6. Quiet(d, Send(d, "upstream", q))
        BY <2>3, <2>4, <2>5, SendGuarded
    <2>7. Quiet(ctx, ctx')
        BY <2>1, <2>2, <2>6, QuietTwice
    <2> QED BY <1>1, <1>g, <2>7, QuietGuarded DEF Safe
<1> QED BY <1>1, <1>2, <1>3, <1>4

LEMMA SecretsNext ==
    ASSUME CredentialsApart, ExchangeInv, SecretsInv, [Next]_vars
    PROVE  SecretsInv'
<1>1. CASE RunNode
    <2>1. Guarded(client, ctx')
        BY <1>1, RunVouched DEF Safe
    <2>2. client' = client
        BY <1>1 DEF RunNode
    <2> QED BY <2>1, <2>2 DEF SecretsInv
<1>2. CASE Compile \/ Route \/ Deliver \/ SwapStore \/ Rest \/ UNCHANGED vars
    <2>1. Guarded(client, ctx') /\ client' = client
        BY <1>2, OthersSafe DEF Safe
    <2> QED BY <2>1 DEF SecretsInv
<1> QED BY <1>1, <1>2 DEF Next

LEMMA SecretsAlways ==
    ASSUME CredentialsApart
    PROVE  Spec => []SecretsInv
<1>1. Init => SecretsInv
    BY SecretsInit
<1>2. ExchangeInv /\ SecretsInv /\ [Next]_vars => SecretsInv'
    BY SecretsNext
<1> QED BY <1>1, <1>2, Always, PTL DEF Spec

\* For all policies that look for keys in one place, no option of which has a node
\* write or remove what says who asks, and clients that do not bring the gateway's
\* own credentials: what key_auth.rs, basic_auth.rs, jwt_auth.rs and hmac_auth.rs
\* take out when hide_credentials is set, and the X-Userinfo openid_connect.rs
\* takes out, is in no request that leaves afterwards, to whomever it goes: the
\* upstream, a mirror, a function, an authorization service, a WebSocket.
THEOREM HiddenAlways ==
    ASSUME CredentialsApart PROVE Spec => []HiddenStaysHidden
<1>1. SecretsInv => HiddenStaysHidden
    BY DEF SecretsInv, Guarded, Discreet, HiddenStaysHidden
<1> QED BY <1>1, SecretsAlways, PTL

-----------------------------------------------------------------------------
(* Who a request is taken to be. *)

\* A consumer that was attached is one the request may speak for.
SpeaksFor(u) ==
    /\ \E s \in 1 .. store : u \in Stores[s]
    /\ Proves(client, u) \/ Anonymously(u)

IdentityInv ==
    /\ store \in 1 .. 2 /\ ctx.who \in Seq(Stores[1] \cup Stores[2])
    /\ \A k \in DOMAIN ctx.who : SpeaksFor(ctx.who[k])
    /\ Identified(client, ctx)

LEMMA IdentityInit ==
    ASSUME Init
    PROVE  IdentityInv
<1>1. client \in Requests /\ ctx = NewContext(client) /\ trail = << >> /\ store = 1
    BY DEF Init
<1>2. ctx.req = client /\ ctx.who = << >> /\ ctx.msg = [k \in MessageKeys |-> Absent]
    BY <1>1 DEF NewContext
<1>3. \A k \in {"consumer.name", "consumer.group", "consumer.labels", "consumer.custom_id"} :
         ctx.msg[k] = Absent
    BY <1>2 DEF MessageKeys
<1>4. Identified(client, ctx)
    <2>1. DOMAIN ctx.who = {}
        BY <1>2
    <2>2. \A vs, old : DOMAIN vs = {} => IsLatest(old, vs, old)
        BY DEF IsLatest
    <2>3. /\ DOMAIN [k \in DOMAIN ctx.who |-> ctx.who[k].group] = {}
          /\ DOMAIN [k \in DOMAIN ctx.who |-> Labels(ctx.who[k])] = {}
          /\ DOMAIN [k \in DOMAIN ctx.who |-> ctx.who[k].labels["custom_id"]] = {}
        BY <2>1
    <2> QED BY <1>2, <1>3, <2>2, <2>3 DEF Identified
<1> QED BY <1>1, <1>2, <1>4 DEF IdentityInv

\* What is added to the trail takes away nobody's admission.
LEMMA TrailGrows ==
    ASSUME ExchangeInv, Nodes' = Nodes, NEW e \in Entries, trail' = Append(trail, e)
    PROVE  /\ \E n \in DOMAIN trail' : trail'[n] = e
           /\ \A u : Anonymously(u) => Anonymously(u)'
<1>1. /\ Len(trail) \in Nat /\ Len(trail') = Len(trail) + 1
      /\ DOMAIN trail = 1 .. Len(trail) /\ DOMAIN trail' = 1 .. Len(trail')
      /\ \A k \in 1 .. Len(trail) : trail'[k] = trail[k]
      /\ trail'[Len(trail')] = e
    BY AppendProperties, LenProperties DEF ExchangeInv
<1>2. \A k \in 1 .. Len(trail) : Ran(k)' = Ran(k) /\ k \in 1 .. Len(trail')
    BY <1>1 DEF Ran
<1>3. ASSUME NEW u, Anonymously(u) PROVE Anonymously(u)'
    <2>1. PICK k \in DOMAIN trail :
              LET cfg == Ran(k).cfg
                  of(d) == Given(d, "anonymous_consumer") /\ d.anonymous_consumer = u.name
              IN  \/ of(cfg)
                  \/ Given(cfg, "auth_plugins") /\ \E j \in DOMAIN cfg.auth_plugins :
                                                      of(cfg.auth_plugins[j].cfg)
        BY <1>3 DEF Anonymously
    <2>2. k \in DOMAIN trail' /\ Ran(k)' = Ran(k)
        BY <1>1, <1>2
    <2> QED BY <2>1, <2>2 DEF Anonymously
<1>4. Len(trail') \in DOMAIN trail'
    BY <1>1
<1> QED BY <1>1, <1>3, <1>4

LEMMA RunNodeKeepsIdentity ==
    ASSUME CredentialsApart, ConsumersApart, ExchangeInv, SecretsInv, IdentityInv, RunNode
    PROVE  IdentityInv'
<1>1. /\ idx' = idx /\ fault' = fault /\ client' = client /\ store' = store /\ Nodes' = Nodes
    BY DEF RunNode, Nodes
<1>2. pos \in 1 .. Len(Nodes) /\ IsList(Nodes)
    BY RunVouched
<1> DEFINE node == Nodes[pos]
           users == Stores[1] \cup Stores[2]
<1>3. PICK o : /\ trail' = Append(trail, [pos |-> pos, ok |-> o.ok, said |-> o.said])
               /\ [pos |-> pos, ok |-> o.ok, said |-> o.said] \in Entries
               /\ Safe(client, o.ctx, ctx')
               /\ node.type \in Attaching =>
                     Vouched(client, Stores[store], Configs(node.cfg), ctx, o)
               /\ node.type \notin Attaching => Safe(client, ctx, o.ctx)
    BY RunVouched
<1>4. PICK e : e = [pos |-> pos, ok |-> o.ok, said |-> o.said] /\ e \in Entries /\ e.pos = pos
    BY <1>3
<1>5. /\ \E n \in DOMAIN trail' : trail'[n] = e
      /\ \A u : Anonymously(u) => Anonymously(u)'
    BY <1>1, <1>3, <1>4, TrailGrows
<1>6. PICK n : n \in DOMAIN trail' /\ Ran(n)' = node
    <2>1. PICK n : n \in DOMAIN trail' /\ trail'[n] = e
        BY <1>5
    <2> QED BY <1>1, <1>4, <2>1 DEF Ran
<1>7. /\ store \in 1 .. 2 /\ store \in 1 .. store' /\ ctx.who \in Seq(users)
      /\ Identified(client, ctx)
    BY <1>1 DEF IdentityInv
<1> HIDE DEF node
<1>8. \A u : SpeaksFor(u) => SpeaksFor(u)'
    <2> SUFFICES ASSUME NEW u, SpeaksFor(u) PROVE SpeaksFor(u)'
        OBVIOUS
    <2>1. Proves(client', u) \/ Anonymously(u)'
        BY <1>1, <1>5 DEF SpeaksFor
    <2> QED BY <1>1, <2>1 DEF SpeaksFor
<1>9. SameWho(o.ctx, ctx')
    BY <1>3 DEF Safe
<1>10. CASE SameWho(ctx, o.ctx)
    <2>1. SameWho(ctx, ctx')
        BY <1>9, <1>10, SameWhoTwice
    <2>2. ctx'.who = ctx.who
        BY <2>1, SameFields
    <2>3. Identified(client', ctx')
        BY <1>1, <1>7, <2>1, IdentifiedSame
    <2>4. ASSUME NEW k \in DOMAIN ctx'.who PROVE SpeaksFor(ctx.who[k])'
        <3>1. PICK u : u = ctx.who[k] /\ u = ctx'.who[k] /\ SpeaksFor(u)
            BY <2>2, <2>4 DEF IdentityInv
        <3>2. SpeaksFor(u)'
            BY <1>8, <3>1
        <3> QED BY <3>1, <3>2 DEF SpeaksFor
    <2> QED BY <1>1, <1>7, <2>2, <2>3, <2>4 DEF IdentityInv
<1>11. CASE ~SameWho(ctx, o.ctx)
    <2>1. node.type \in Attaching /\ Becomes(client, Stores[store], Configs(node.cfg), ctx, o.ctx)
        BY <1>3, <1>11 DEF Vouched, Safe
    <2>2. PICK u \in Stores[store] :
              /\ Joins(ctx, o.ctx, u)
              /\ u.secret # "provider's" => Proves(client, u) \/ \E cfg \in Configs(node.cfg) : Admits(cfg, u)
        BY <2>1 DEF Becomes
    <2>3. u.secret # "provider's" /\ u \in users
        BY <1>7, <2>2 DEF ConsumersApart
    <2>4. Joins(ctx, ctx', u)
        BY <1>9, <2>2, SameSelf, SameJoins
    <2>5. Identified(client', ctx')
        <3> HIDE DEF users
        <3> QED BY <1>1, <1>7, <2>3, <2>4, IdentifiedJoins
    <2>6. ASSUME NEW cfg \in Configs(node.cfg), Admits(cfg, u) PROVE Anonymously(u)'
        <3>1. Given(cfg, "anonymous_consumer") /\ cfg.anonymous_consumer = u.name
            BY <2>6 DEF Admits
        <3>3. CASE cfg = node.cfg
            BY <1>6, <3>1, <3>3 DEF Anonymously
        <3>4. CASE cfg # node.cfg
            <4>1. /\ Given(node.cfg, "auth_plugins")
                  /\ \E j \in DOMAIN node.cfg.auth_plugins : cfg = node.cfg.auth_plugins[j].cfg
                BY <2>6, <3>4 DEF Configs
            <4> QED BY <1>6, <3>1, <4>1 DEF Anonymously
        <3> QED BY <3>3, <3>4
    <2>7. Proves(client', u) \/ Anonymously(u)'
        BY <1>1, <2>2, <2>3, <2>6
    <2>8. SpeaksFor(u)'
        BY <1>1, <1>7, <2>2, <2>7 DEF SpeaksFor
    <2>9. ctx'.who = Append(ctx.who, u)
        BY <2>4 DEF Joins
    <2>10. /\ ctx'.who \in Seq(users) /\ DOMAIN ctx.who = 1 .. Len(ctx.who)
           /\ DOMAIN ctx'.who = 1 .. Len(ctx.who) + 1 /\ Len(ctx.who) \in Nat
           /\ ctx'.who[Len(ctx.who) + 1] = u
           /\ \A k \in 1 .. Len(ctx.who) : ctx'.who[k] = ctx.who[k]
        <3> HIDE DEF users
        <3> QED BY <1>7, <2>3, <2>9, AppendProperties, LenProperties
    <2>11. ASSUME NEW k \in DOMAIN ctx'.who PROVE SpeaksFor(ctx.who[k])'
        <3>1. \/ k \in DOMAIN ctx.who /\ ctx'.who[k] = ctx.who[k]
              \/ ctx'.who[k] = u
            BY <2>10, <2>11
        <3>2. PICK v : v = ctx'.who[k] /\ SpeaksFor(v)'
            BY <1>8, <2>8, <3>1 DEF IdentityInv
        <3> QED BY <3>2 DEF SpeaksFor
    <2> QED BY <1>1, <1>7, <2>5, <2>10, <2>11 DEF IdentityInv
<1> QED BY <1>10, <1>11

LEMMA IdentityNext ==
    ASSUME CredentialsApart, ConsumersApart, ExchangeInv, SecretsInv, IdentityInv, [Next]_vars
    PROVE  IdentityInv'
<1>1. CASE RunNode
    BY <1>1, RunNodeKeepsIdentity
<1>2. CASE Compile \/ Route \/ Deliver \/ SwapStore \/ Rest \/ UNCHANGED vars
    <2>1. SameWho(ctx, ctx') /\ UNCHANGED << idx, fault, pos, trail, client >>
        BY <1>2, OthersSafe DEF Safe
    <2>2. store' \in 1 .. 2 /\ \A s \in 1 .. store : s \in 1 .. store'
        <3>1. store' = store \/ (store = 1 /\ store' = 2)
            BY <1>2 DEF Compile, Route, Deliver, SwapStore, Rest, vars
        <3> QED BY <3>1 DEF IdentityInv
    <2>3. Nodes' = Nodes
        BY <2>1 DEF Nodes
    <2>4. ctx'.who = ctx.who
        BY <2>1, SameFields
    <2>5. Identified(client', ctx')
        BY <2>1, IdentifiedSame DEF IdentityInv
    <2>6. ASSUME NEW k \in DOMAIN ctx'.who PROVE SpeaksFor(ctx.who[k])'
        <3>1. PICK u : u = ctx.who[k] /\ u = ctx'.who[k] /\ SpeaksFor(u)
            BY <2>4, <2>6 DEF IdentityInv
        <3>2. Anonymously(u) => Anonymously(u)'
            BY <2>1, <2>3 DEF Anonymously, Ran
        <3>3. \E s \in 1 .. store' : u \in Stores[s]
            BY <2>2, <3>1 DEF SpeaksFor
        <3>4. Proves(client', u) \/ Anonymously(u)'
            BY <2>1, <3>1, <3>2 DEF SpeaksFor
        <3> QED BY <3>1, <3>3, <3>4 DEF SpeaksFor
    <2> QED BY <2>2, <2>4, <2>5, <2>6 DEF IdentityInv
<1> QED BY <1>1, <1>2 DEF Next

\* For all policies, with any number of nodes that attach consumers, that look for keys
\* in one place and have no option by which a node writes or removes what says who asks,
\* clients that do not bring the gateway's own credentials and consumers that do not
\* have the provider's: whoever was attached, also by one of several attempts and
\* across a reload, the client's own request proved it or the configuration admits it;
\* the consumer attached last is the one named, and group, labels and custom id are
\* those of the last one that had any, a custom id the client sent remaining where none
\* had (consumers/mod.rs, multi_auth.rs, key_auth.rs, basic_auth.rs, jwt_auth.rs,
\* hmac_auth.rs).
THEOREM IdentityAlways ==
    ASSUME CredentialsApart, ConsumersApart PROVE Spec => []IdentityIsProven
<1>1. Init => IdentityInv
    BY IdentityInit
<1>2. ExchangeInv /\ SecretsInv /\ IdentityInv /\ [Next]_vars => IdentityInv'
    BY IdentityNext
<1>3. IdentityInv => IdentityIsProven
    BY DEF IdentityInv, IdentityIsProven, SpeaksFor
<1> QED BY <1>1, <1>2, <1>3, Always, SecretsAlways, PTL DEF Spec
=============================================================================
