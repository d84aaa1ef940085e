------------------------------ MODULE Context ------------------------------
(***************************************************************************)
(* The context a request carries from node to node: the request as it will *)
(* be forwarded, the response as it stands, the message the nodes share,   *)
(* and the errors met so far; and what every node is built from: its       *)
(* configuration, a map of options.                                        *)
(*                                                                         *)
(* Texts are abstracted to who wrote them and what they parse as; a        *)
(* content-length is the body it was computed for, so that a stale one     *)
(* differs from the body it travels with.  A header has one value here,    *)
(* and headers and message keys no property tells apart are left out (vary, *)
(* etag, www-authenticate, the CORS details, the kind of a credential, when *)
(* the request arrived and the client's certificate).                      *)
(***************************************************************************)
EXTENDS Naturals, Sequences, FiniteSets

CONSTANTS
    Absent,     \* no such header, message key, parameter, option
    Bad         \* an option of the wrong type, range or form

-----------------------------------------------------------------------------
(* Configurations: functions from the option names of the source. *)

Given(cfg, o) == o \in DOMAIN cfg

\* A lenient option: absent or of the wrong type, it takes its default.
Has(cfg, o)          == Given(cfg, o) /\ cfg[o] # Bad
Opt(cfg, o, default) == IF Has(cfg, o) THEN cfg[o] ELSE default

\* Strict options, where a wrong one refuses the node, and required ones.
Usable(cfg, opts)   == \A o \in opts : Given(cfg, o) => cfg[o] # Bad
Required(cfg, opts) == \A o \in opts : Has(cfg, o)
Names(cfg, o)       == Opt(cfg, o, {})
InRange(cfg, o, lo, hi) == Usable(cfg, {o}) /\ (Given(cfg, o) => cfg[o] \in lo .. hi)

-----------------------------------------------------------------------------
(* Requests and responses. *)

\* A body: who wrote it, what it parses as, how long it is (in some unit) and
\* the codings applied to it.
SizedBody(by, fmt, len) == [by |-> by, fmt |-> fmt, len |-> len, enc |-> << >>]
Body(by, fmt)     == SizedBody(by, fmt, 1)
NoBody            == SizedBody("nobody", "empty", 0)
is_empty(body)    == body.len = 0
IsJson(body)      == body.fmt = "json" /\ body.enc = << >>
Framing           == {"content-length", "content-encoding"}

HeaderNames ==
    Framing \cup
    {"content-type", "authorization", "x-api-key", "x-hmac-signature", "accept-encoding",
     "x-consumer-username", "x-consumer-custom-id", "x-consumer-tier", "x-userid",
     "user-agent", "referer", "cookie", "x-csrf", "x-request-id", "x-forwarded-for",
     "x-forwarded-proto", "origin", "location", "x-added", "x-functions-key",
     "x-userinfo", "x-access-token", "x-cas-user", "x-code"}

\* "x-code" is the header a code is sent in, "code" the parameter of a code or a
\* ticket, whatever they are configured to be.
QueryNames == {"apikey", "q", "code"}

\* "user" stands for the user a node names: user, user_id and the claims;
\* "__ws_upstream" for where a WebSocket is to go: host, port, path and TLS.
MessageKeys ==
    {"consumer.name", "consumer.group", "consumer.labels", "consumer.custom_id",
     "user", "label.tier", "__ws_upstream"}

NoHeaders == [n \in HeaderNames |-> Absent]

insert(h, n, v)     == [h EXCEPT ![n] = v]
remove_ci(h, names) == [n \in DOMAIN h |-> IF n \in names THEN Absent ELSE h[n]]
Put(h, these)       == [n \in DOMAIN h |-> IF n \in DOMAIN these THEN these[n] ELSE h[n]]

\* Context::new.  The last fields are history for the properties: whom
\* attach_consumer was called with, in order, the credentials hidden so far, and
\* the requests that have left the gateway.
NewContext(request) ==
    [req    |-> request,
     res    |-> [status |-> 0, headers |-> NoHeaders, body |-> NoBody],
     msg    |-> [k \in MessageKeys |-> Absent],
     errors |-> << >>,
     who    |-> << >>,
     hidden |-> {},
     sent   |-> {}]

Send(c, to, req) == [c EXCEPT !.sent = @ \cup {[to |-> to, req |-> req, hidden |-> c.hidden]}]

-----------------------------------------------------------------------------
(* How a node ends.  "said" is history: what an outside service answered.  *)

Ok(c)          == [ok |-> TRUE, ctx |-> c, said |-> "nothing"]
Err(c)         == [ok |-> FALSE, ctx |-> c, said |-> "nothing"]
Said(o, what)  == [o EXCEPT !.said = what]

\* What most refusals write: a status, a JSON body and its type; and what the
\* others write, the status alone.  Neither touches the framing headers of
\* whatever response was there before.
reject(c, by, status) ==
    [c EXCEPT !.res.status = status,
              !.res.body = Body(by, "json"),
              !.res.headers["content-type"] = "json"]

StatusOnly(c, status) == [c EXCEPT !.res.status = status]

\* A status and a body, of whatever type the headers say.
Answered(c, status, body) == [c EXCEPT !.res.status = status, !.res.body = body]

PutHeaders(c, these) == [c EXCEPT !.res.headers = Put(@, these)]

Guard(c, by, status, passes) ==
    {IF passes THEN Ok(c) ELSE Err(reject(c, by, status))}

\* A failed node's error is recorded; with no error edge and no catch-all the
\* response becomes a 500.
Recorded(c, node) == [c EXCEPT !.errors = Append(@, node)]

\* Mutant: an error nobody handles leaves the response as it is.
LeftAlone(c) == c

Unhandled(c) == reject(c, "engine", 500)

-----------------------------------------------------------------------------
(* Consumers: [name, group, labels, creds, secret], labels and creds as     *)
(* functions that give Absent for what is missing.                          *)

find_by_credential(store, type, cred) ==
    {u \in store : cred # Absent /\ u.creds[type] = cred}

get(store, name) == {u \in store : u.name = name}

HasLabels(u) == \E l \in DOMAIN u.labels : u.labels[l] # Absent
Labels(u)    == IF HasLabels(u) THEN u.labels ELSE Absent

\* Only what the consumer has is written; nothing is taken away, be it of a consumer
\* attached before or of what the client sent.
attach_consumer(c, u) ==
    LET keep(k, v, old) == IF v = Absent THEN old[k] ELSE v
        cid == u.labels["custom_id"]
    IN  [c EXCEPT
           !.who = Append(@, u),
           !.msg = [@ EXCEPT
               !["consumer.name"] = u.name,
               !["consumer.group"] = keep("consumer.group", u.group, c.msg),
               !["consumer.labels"] = keep("consumer.labels", Labels(u), c.msg),
               !["consumer.custom_id"] = keep("consumer.custom_id", cid, c.msg)],
           !.req.headers = [@ EXCEPT
               !["x-consumer-username"] = u.name,
               !["x-consumer-custom-id"] = keep("x-consumer-custom-id", cid, c.req.headers)]]

\* The last of a sequence of values that is there; if none is, the other one.
IsLatest(v, vs, otherwise) ==
    \/ v = otherwise /\ \A k \in DOMAIN vs : vs[k] = Absent
    \/ \E k \in DOMAIN vs : /\ vs[k] # Absent /\ v = vs[k]
                           /\ \A j \in DOMAIN vs : j > k => vs[j] = Absent

\* The identity in the context of client w: the name of the consumer attached last,
\* and of everything else what the last consumer that had it left.
Identified(w, c) ==
    LET u   == c.who[Len(c.who)]
        ids == [k \in DOMAIN c.who |-> c.who[k].labels["custom_id"]]
    IN  /\ c.who = << >> => c.msg["consumer.name"] = Absent
        /\ c.who # << >> => /\ c.msg["consumer.name"] = u.name
                           /\ c.req.headers["x-consumer-username"] = u.name
        /\ IsLatest(c.msg["consumer.group"], [k \in DOMAIN c.who |-> c.who[k].group], Absent)
        /\ IsLatest(c.msg["consumer.labels"], [k \in DOMAIN c.who |-> Labels(c.who[k])], Absent)
        /\ IsLatest(c.msg["consumer.custom_id"], ids, Absent)
        /\ IsLatest(c.req.headers["x-consumer-custom-id"], ids, w.headers["x-consumer-custom-id"])

-----------------------------------------------------------------------------
(* content_codec *)

Supported == {"gzip", "deflate", "br"}

\* ContentEncoding::parse of the header: none, a supported coding, or "unknown".
coding(h) ==
    LET e == h["content-encoding"]
    IN  IF e \in {Absent, "identity"} THEN "none"
        ELSE IF e \in Supported THEN e ELSE "unknown"

\* decode fails on a body that does not carry the coding.
decodes(body, e) == body.enc # << >> /\ body.enc[Len(body.enc)] = e
decode(body)     == [body EXCEPT !.enc = SubSeq(@, 1, Len(@) - 1)]
encode(body, e)  == [body EXCEPT !.enc = Append(@, e)]

\* The body as the header lets a node read it.
Readable(h, body)  == coding(h) = "none" \/ (coding(h) # "unknown" /\ decodes(body, coding(h)))
Decoded(h, body)   == IF coding(h) = "none" THEN body ELSE decode(body)

\* The headers say how the body is coded and, if they say so, how long it is.
Framed(h, body) ==
    /\ h["content-length"] \in {Absent, body}
    /\ body.enc = IF h["content-encoding"] \in {Absent, "identity"} THEN << >>
                  ELSE << h["content-encoding"] >>
=============================================================================
