----------------------------- MODULE Transform -----------------------------
(***************************************************************************)
(* The nodes that rewrite a request or a response, answer in place of the  *)
(* upstream, or check and limit what is sent.                              *)
(***************************************************************************)
EXTENDS Providers

\* A rewritten response body: its length and its coding are no longer known.
clear_body_derived_headers(h) == remove_ci(h, Framing)

WithResponse(c, body, h) == [c EXCEPT !.res.body = body, !.res.headers = h]
Rewritten(c, body) == WithResponse(c, body, clear_body_derived_headers(c.res.headers))

\* A map, or a list of names and values; entries that are not scalars are wrong.
parse_headers(cfg, o) == Usable(cfg, {o})

-----------------------------------------------------------------------------
(* response-rewrite *)

\* A filter replaces text by a pattern.
parse_filter(cfg) == Usable(cfg, {"filters"}) /\ (Given(cfg, "filters") => cfg.filters # {})

response_rewrite_from_config(cfg) ==
    /\ DOMAIN cfg \cap {"add_headers", "set_headers", "remove_headers"} = {}
    /\ InRange(cfg, "status_code", 200, 598)
    /\ Opt(cfg, "body_base64", FALSE) => Given(cfg, "body")
    /\ Usable(cfg, {"body"}) /\ parse_filter(cfg)
    /\ ~(Given(cfg, "body") /\ Given(cfg, "filters"))
    /\ parse_headers(cfg, "headers") /\ Parses(cfg, "vars")

\* Mutant: the filters run on the body as it was sent.
FilterUndecoded(c) == Rewritten(c, [c.res.body EXCEPT !.by = "response-rewrite"])

\* A body that cannot be decoded is left alone.
apply_filters(c) ==
    IF Readable(c.res.headers, c.res.body)
    THEN Rewritten(c, [Decoded(c.res.headers, c.res.body) EXCEPT !.by = "response-rewrite"])
    ELSE c

response_rewrite_execute(cfg, c) ==
    LET coded == IF Given(cfg, "status_code") THEN StatusOnly(c, cfg.status_code) ELSE c
        body  == IF Given(cfg, "body") THEN Rewritten(coded, Body("response-rewrite", "text"))
                 ELSE IF Given(cfg, "filters") THEN apply_filters(coded) ELSE coded
        put   == IF Given(cfg, "headers")
                 THEN [n \in DOMAIN cfg.headers |-> interpolate(body, cfg.headers[n])] ELSE << >>
    IN  {Ok(IF Holds(cfg, "vars", c)
            THEN PutHeaders(body, put) ELSE c)}

-----------------------------------------------------------------------------
(* gzip and brotli: e is the coding, the highest level differs *)

ContentTypes(cfg) == Opt(cfg, "types", {"text"})

compress_from_config(cfg, lo, hi) ==
    /\ Usable(cfg, {"types", "min_length"})
    /\ Given(cfg, "types") => cfg.types # {}
    /\ Given(cfg, "min_length") => cfg.min_length >= 1
    /\ InRange(cfg, "comp_level", lo, hi)

gzip_from_config(cfg)   == compress_from_config(cfg, 1, 9)
brotli_from_config(cfg) == compress_from_config(cfg, 0, 11)

\* The header is the set of codings it accepts (q=0 refuses one).
accepts_encoding(c, e) ==
    c.req.headers["accept-encoding"] # Absent /\ e \in c.req.headers["accept-encoding"]

response_already_encoded(c) == c.res.headers["content-encoding"] \notin {Absent, "identity"}

\* Mutant: a response the upstream has compressed is compressed again.
CompressAgain(cfg, c, e) ==
    /\ accepts_encoding(c, e)
    /\ c.res.headers["content-type"] \in ContentTypes(cfg)
    /\ c.res.body.len >= Opt(cfg, "min_length", 1)

Compresses(cfg, c, e) ==
    /\ accepts_encoding(c, e)
    /\ ~response_already_encoded(c)
    /\ c.res.headers["content-type"] \in ContentTypes(cfg)
    /\ c.res.body.len >= Opt(cfg, "min_length", 1)

Compress(c, e) ==
    WithResponse(c, encode(c.res.body, e),
                 insert(remove_ci(c.res.headers, {"content-length"}), "content-encoding", e))

gzip_execute(cfg, c)   == {Ok(IF Compresses(cfg, c, "gzip") THEN Compress(c, "gzip") ELSE c)}
brotli_execute(cfg, c) == {Ok(IF Compresses(cfg, c, "br") THEN Compress(c, "br") ELSE c)}

-----------------------------------------------------------------------------
(* body-transformer *)

\* A template that is not empty and closes its placeholders; only JSON input.
parse_transform(cfg, o) == Usable(cfg, {o})

body_transformer_from_config(cfg) ==
    /\ parse_transform(cfg, "request") /\ parse_transform(cfg, "response")
    /\ Given(cfg, "request") \/ Given(cfg, "response")

parse_body(body) == is_empty(body) \/ IsJson(body)

render(by) == Body(by, "text")

TransformRequest(c) ==
    [c EXCEPT !.req.body = render("body-transformer"), !.req.headers = remove_ci(@, Framing)]

\* The request body is parsed as it was sent, the response body once decoded.
body_transformer_execute(cfg, c) ==
    LET asks  == Given(cfg, "request")
        d     == IF asks THEN TransformRequest(c) ELSE c
        reads == /\ Readable(c.res.headers, c.res.body)
                 /\ parse_body(Decoded(c.res.headers, c.res.body))
    IN  IF asks /\ ~parse_body(c.req.body)
        THEN {Err(reject(c, "body-transformer", 400))}
        ELSE IF ~Given(cfg, "response") THEN {Ok(d)}
        ELSE IF reads THEN {Ok(Rewritten(d, render("body-transformer")))}
        ELSE {Err(reject(d, "body-transformer", 502))}

-----------------------------------------------------------------------------
(* cors, echo *)

origin_allowed(cfg, c) ==
    LET origins == Opt(cfg, "allowed_origins", {"*"})
    IN  "*" \in origins \/ c.req.headers["origin"] \in origins

\* A preflight is answered in place; its CORS headers are left out here.
cors_execute(cfg, c) ==
    {Ok(IF origin_allowed(cfg, c) /\ c.req.method = "OPTIONS"
        THEN Answered(c, 204, NoBody) ELSE c)}

echo_from_config(cfg) ==
    /\ Usable(cfg, {"body", "before_body", "after_body", "headers"})
    /\ DOMAIN cfg \cap {"body", "before_body", "after_body"} # {}

\* What cannot be decoded is wrapped as it is, and no longer says how it is coded.
echo_execute(cfg, c) ==
    LET h       == c.res.headers
        decoded == coding(h) # "none" /\ Readable(h, c.res.body)
        current == IF Given(cfg, "body") THEN Body("echo", "text")
                   ELSE IF decoded THEN decode(c.res.body) ELSE c.res.body
        put     == Opt(cfg, "headers", << >>)
    IN  {Ok(WithResponse(c, [current EXCEPT !.by = "echo", !.fmt = "text"],
                         Put(clear_body_derived_headers(h), put)))}

-----------------------------------------------------------------------------
(* data-mask: a rule is [type, name, action, value] *)

\* A value a rule masks, if it is there: gone, or replaced.
Masked(r, v) ==
    IF v = Absent THEN v ELSE IF r.action = "remove" THEN Absent ELSE r.value

parse_rule(r) ==
    /\ r.type \in {"query", "header", "body"}
    /\ r.action \in {"remove", "replace", "regex"}
    /\ r.value # Bad /\ r.name # Bad

data_mask_from_config(cfg) ==
    /\ Usable(cfg, {"request", "max_body_size"})
    /\ \A r \in Names(cfg, "request") : parse_rule(r)

apply_to_multimap(m, rules) ==
    [n \in DOMAIN m |->
        IF \E r \in rules : r.name = n
        THEN Masked(CHOOSE r \in rules : r.name = n, m[n]) ELSE m[n]]

\* Mutant: a masked body travels with the length of the body it replaces.
MaskKeepLength(c) == [c EXCEPT !.req.body = Body("data-mask", "json")]

apply_to_json(c) ==
    [c EXCEPT !.req.body = Body("data-mask", "json"),
              !.req.headers = remove_ci(@, {"content-length"})]

\* A body that is absent, too long or not JSON is skipped, never refused; one
\* that has none of the fields is left as it is.
data_mask_execute(cfg, c) ==
    LET of(t) == {r \in Names(cfg, "request") : r.type = t}
        d == [c EXCEPT !.req.query = apply_to_multimap(@, of("query")),
                       !.req.headers = apply_to_multimap(@, of("header"))]
    IN  IF of("body") # {} /\ IsJson(c.req.body) /\ c.req.body.len <= Opt(cfg, "max_body_size", 9)
        THEN {Ok(d), Ok(apply_to_json(d))} ELSE {Ok(d)}

-----------------------------------------------------------------------------
(* error-page, exit-transformer, error-handler, mocking, redirect *)

error_page_from_config(cfg) == Usable(cfg, {"error_404", "error_500", "error_502", "error_503"})

PageFor(s) == CASE s = 404 -> "error_404" [] s = 500 -> "error_500" [] s = 502 -> "error_502"
                [] s = 503 -> "error_503" [] OTHER -> "none"

\* Only once some node has failed.
error_page_execute(cfg, c) ==
    {Ok(IF c.errors # << >> /\ Given(cfg, PageFor(c.res.status))
        THEN [Rewritten(c, Body("error-page", "text")) EXCEPT !.res.headers["content-type"] = "text"]
        ELSE c)}

exit_transformer_from_config(cfg) ==
    /\ Usable(cfg, {"status_map", "body"})
    /\ Given(cfg, "status_map") =>
          \A s \in DOMAIN cfg.status_map : {s, cfg.status_map[s]} \subseteq 100 .. 599

exit_transformer_execute(cfg, c) ==
    LET map  == Opt(cfg, "status_map", << >>)
        s    == c.res.status
        d    == StatusOnly(c, IF s \in DOMAIN map THEN map[s] ELSE s)
    IN  {Ok(IF ~(Opt(cfg, "always", FALSE) \/ c.errors # << >>) THEN c
            ELSE IF Given(cfg, "body") THEN Rewritten(d, Body("exit-transformer", "text")) ELSE d)}

\* Writes over whatever response is there, its framing headers excepted.
error_handler_execute(cfg, c) ==
    {Ok(reject(c, "error-handler", Opt(cfg, "status_code", 500)))}

mocking_from_config(cfg) ==
    /\ ~Given(cfg, "response_schema") /\ Required(cfg, {"response_example"})
    /\ InRange(cfg, "response_status", 100, 599)
    /\ Usable(cfg, {"content_type", "with_mock_header", "delay"})
    /\ parse_headers(cfg, "response_headers")

\* Writes over whatever response is there, its framing headers excepted.
mocking_execute(cfg, c) ==
    {Ok(PutHeaders(reject(c, "mocking", Opt(cfg, "response_status", 200)),
                   Opt(cfg, "response_headers", << >>)))}

redirect_from_config(cfg) ==
    /\ Opt(cfg, "http_to_https", FALSE) # (Opt(cfg, "uri", Absent) # Absent)
    /\ InRange(cfg, "ret_code", 200, 599)
    /\ ~(Opt(cfg, "http_to_https", FALSE) /\ Opt(cfg, "append_query_string", FALSE))

ToTls(cfg)   == Opt(cfg, "http_to_https", FALSE)
FromTls(c)   == LET proto == c.req.headers["x-forwarded-proto"]
                IN  (IF proto # Absent THEN proto ELSE c.req.scheme) = "https"

RedirectCode(cfg, c) ==
    IF ~ToTls(cfg) THEN Opt(cfg, "ret_code", 302)
    ELSE IF c.req.method \in {"GET", "HEAD"} THEN 301 ELSE 308

Location(cfg, c) ==
    IF ToTls(cfg) THEN << "https", c.req.host, resolve(c, << "request_uri" >>) >>
    ELSE << "uri", interpolate(c, cfg.uri),
            IF Opt(cfg, "append_query_string", FALSE)
            THEN resolve(c, << "query_string" >>) ELSE Absent >>

\* To the same place over TLS unless it came over TLS, or to the template.
redirect_execute(cfg, c) ==
    {Ok(IF ToTls(cfg) /\ FromTls(c) THEN c
        ELSE [Rewritten(c, NoBody) EXCEPT !.res.status = RedirectCode(cfg, c),
                                          !.res.headers["location"] = Location(cfg, c)])}

-----------------------------------------------------------------------------
(* degraphql, proxy-rewrite *)

\* Not blank, at most 1024 characters, balanced, with a selection set.
check_query(cfg) == Required(cfg, {"query"})

degraphql_from_config(cfg) ==
    /\ check_query(cfg) /\ Usable(cfg, {"variables", "operation_name"})
    /\ Given(cfg, "variables") => cfg.variables # {}

\* A body is looked at only for a variable that is not among the parameters.
degraphql_execute(cfg, c) ==
    LET asked == {v \in Names(cfg, "variables") : c.req.query[v] = Absent}
    IN  IF c.req.method \notin {"GET", "POST"} THEN {Err(reject(c, "degraphql", 405))}
        ELSE IF asked # {} /\ ~parse_body(c.req.body) THEN {Err(reject(c, "degraphql", 400))}
        ELSE {Ok([c EXCEPT !.req.method = "POST",
                           !.req.body = Body("degraphql", "json"),
                           !.req.headers = insert(remove_ci(@, Framing), "content-type", "json")])}

proxy_rewrite_from_config(cfg) == ~Given(cfg, "headers") /\ parse_headers(cfg, "add_headers")

\* Prefixes are whole segments here.  A header added where there is one becomes
\* a second value of it, which is not seen.
proxy_rewrite_execute(cfg, c) ==
    LET strip == Opt(cfg, "strip_path_prefix", << >>)
        n     == Len(strip)
        path  == IF Len(c.req.path) >= n /\ SubSeq(c.req.path, 1, n) = strip
                 THEN SubSeq(c.req.path, n + 1, Len(c.req.path)) ELSE c.req.path
        add   == Opt(cfg, "add_headers", << >>)
        headers(h) == remove_ci([k \in DOMAIN h |-> IF k \in DOMAIN add /\ h[k] = Absent
                                                    THEN add[k] ELSE h[k]],
                                Names(cfg, "remove_headers"))
    IN  {Ok(IF Opt(cfg, "phase", "request") = "response"
            THEN [c EXCEPT !.res.headers = headers(@)]
            ELSE [c EXCEPT !.req.path = Opt(cfg, "add_path_prefix", << >>) \o path,
                           !.req.headers = headers(@)])}
-----------------------------------------------------------------------------
TransformTypes ==
    {"response-rewrite", "gzip", "brotli", "body-transformer", "cors", "echo", "data-mask",
     "error-page", "exit-transformer", "error-handler", "mocking", "redirect", "degraphql",
     "proxy-rewrite"}

transform_created(node) ==
    CASE node.type = "response-rewrite" -> response_rewrite_from_config(node.cfg)
      [] node.type = "gzip"             -> gzip_from_config(node.cfg)
      [] node.type = "brotli"           -> brotli_from_config(node.cfg)
      [] node.type = "body-transformer" -> body_transformer_from_config(node.cfg)
      [] node.type = "echo"             -> echo_from_config(node.cfg)
      [] node.type = "data-mask"        -> data_mask_from_config(node.cfg)
      [] node.type = "error-page"       -> error_page_from_config(node.cfg)
      [] node.type = "exit-transformer" -> exit_transformer_from_config(node.cfg)
      [] node.type = "mocking"          -> mocking_from_config(node.cfg)
      [] node.type = "redirect"         -> redirect_from_config(node.cfg)
      [] node.type = "degraphql"        -> degraphql_from_config(node.cfg)
      [] node.type = "proxy-rewrite"    -> proxy_rewrite_from_config(node.cfg)
      [] node.type \in {"cors", "error-handler"} -> TRUE

transform_execute(node, c) ==
    CASE node.type = "response-rewrite" -> response_rewrite_execute(node.cfg, c)
      [] node.type = "gzip"             -> gzip_execute(node.cfg, c)
      [] node.type = "brotli"           -> brotli_execute(node.cfg, c)
      [] node.type = "body-transformer" -> body_transformer_execute(node.cfg, c)
      [] node.type = "cors"             -> cors_execute(node.cfg, c)
      [] node.type = "echo"             -> echo_execute(node.cfg, c)
      [] node.type = "data-mask"        -> data_mask_execute(node.cfg, c)
      [] node.type = "error-page"       -> error_page_execute(node.cfg, c)
      [] node.type = "exit-transformer" -> exit_transformer_execute(node.cfg, c)
      [] node.type = "error-handler"    -> error_handler_execute(node.cfg, c)
      [] node.type = "mocking"          -> mocking_execute(node.cfg, c)
      [] node.type = "redirect"         -> redirect_execute(node.cfg, c)
      [] node.type = "degraphql"        -> degraphql_execute(node.cfg, c)
      [] node.type = "proxy-rewrite"    -> proxy_rewrite_execute(node.cfg, c)
=============================================================================
