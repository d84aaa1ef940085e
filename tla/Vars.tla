------------------------------- MODULE Vars -------------------------------
(***************************************************************************)
(* The variables of a request that conditions and templates refer to, the  *)
(* expressions over them, and the matching of routes.                      *)
(*                                                                         *)
(* A variable is a tuple, << "uri" >> or << "http", "user-agent" >>.  A    *)
(* rule is [var, negate, op, arg]; for the operators that take a pattern,  *)
(* a list or networks, arg is the set of texts it matches.  An expression  *)
(* is a set of nodes, all of which must hold; a node joins rules with      *)
(* "and" or "or" (deeper nesting adds nothing a property tells apart).  A  *)
(* path is its sequence of segments.                                       *)
(***************************************************************************)
EXTENDS Context

\* "user" stands for msg_<key>: the message as text.
message_str(c, key) == c.msg[key]

cookie_value(c) == c.req.headers["cookie"]

\* A field of an urlencoded form, when the type says it is one.
post_arg(c) ==
    IF c.req.headers["content-type"] = "form" /\ c.req.body.fmt = "form"
    THEN c.req.body.by ELSE Absent

\* All parameters, sorted: what they hold decides.
query_string(c) ==
    IF \A n \in QueryNames : c.req.query[n] = Absent THEN Absent ELSE c.req.query

\* A peer address is [ip, port]; real-ip may leave an address without a port.
split_remote_addr(c) == c.req.addr

resolve(c, v) ==
    CASE v[1] = "uri"          -> c.req.path
      [] v[1] = "request_uri"  -> << c.req.path, query_string(c) >>
      [] v[1] = "method"       -> c.req.method
      [] v[1] = "host"         -> c.req.host
      [] v[1] = "scheme"       -> c.req.scheme
      [] v[1] = "remote_addr"  -> split_remote_addr(c).ip
      [] v[1] = "remote_port"  -> split_remote_addr(c).port
      [] v[1] = "query_string" -> query_string(c)
      [] v[1] = "status"       -> c.res.status
      [] v[1] = "consumer_name"     -> message_str(c, "consumer.name")
      [] v[1] = "consumer_group_id" -> message_str(c, "consumer.group")
      [] v[1] = "arg"      -> c.req.query[v[2]]
      [] v[1] = "http"     -> c.req.headers[v[2]]
      [] v[1] = "cookie"   -> cookie_value(c)
      [] v[1] = "post_arg" -> post_arg(c)
      [] v[1] = "msg"      -> message_str(c, v[2])
      [] OTHER             -> Absent

\* A template is literal text, or one variable (nothing if it is missing).
Literal(text)     == [text |-> text, var |-> Absent]
Reference(v)      == [text |-> "", var |-> v]
interpolate(c, t) ==
    IF t.var = Absent THEN t.text
    ELSE IF resolve(c, t.var) = Absent THEN "" ELSE resolve(c, t.var)

-----------------------------------------------------------------------------
(* Expr *)

Operators == {"==", "~=", ">", ">=", "<", "<=", "~~", "~*", "in", "has", "ipmatch"}

\* One rule that does not parse refuses the expression.
parse_node(n) == \A r \in n.rules : r.op \in Operators /\ r.arg # Bad
parse(expr)   == expr # Bad /\ \A n \in expr : parse_node(n)

\* A missing variable reads as the empty text, except where an address is asked.
eval_op(r, v) ==
    LET text == IF v = Absent THEN "" ELSE v
    IN  CASE r.op = "=="      -> text = r.arg
          [] r.op = "~="      -> text # r.arg
          [] r.op = ">"       -> v # Absent /\ v > r.arg
          [] r.op = ">="      -> v # Absent /\ v >= r.arg
          [] r.op = "<"       -> v # Absent /\ v < r.arg
          [] r.op = "<="      -> v # Absent /\ v <= r.arg
          [] r.op \in {"~~", "~*", "in", "has"} -> text \in r.arg
          [] r.op = "ipmatch" -> v # Absent /\ v \in r.arg

eval_rule(r, c) == r.negate # eval_op(r, resolve(c, r.var))

eval_node(n, c) ==
    IF n.join = "and" THEN \A r \in n.rules : eval_rule(r, c)
    ELSE \E r \in n.rules : eval_rule(r, c)

eval(expr, c) == \A n \in expr : eval_node(n, c)

\* A condition that may be left out.
Holds(cfg, o, c) == ~Given(cfg, o) \/ eval(cfg[o], c)
Parses(cfg, o)   == Given(cfg, o) => parse(cfg[o])

-----------------------------------------------------------------------------
(* Routes: [path, methods, headers, host]; an empty field matches anything. *)

\* The same segments, with * for any one of them; a trailing * also for any
\* number of them, none included.
match_path(pattern, path) ==
    LET n == Len(pattern)
        each(len) == \A i \in 1 .. len : pattern[i] \in {"*", path[i]}
        tail == n > 0 /\ pattern[n] = "*"
    IN  IF tail THEN Len(path) >= n - 1 /\ SubSeq(path, 1, n - 1) = SubSeq(pattern, 1, n - 1)
        ELSE Len(path) = n /\ each(n)

matches_route(rule, req) ==
    /\ Given(rule, "path") => match_path(rule.path, req.path)
    /\ Names(rule, "methods") # {} => req.method \in rule.methods
    /\ Given(rule, "headers") => \A n \in DOMAIN rule.headers : req.headers[n] = rule.headers[n]
    /\ Given(rule, "host") => req.host = rule.host
=============================================================================
