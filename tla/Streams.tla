------------------------------ MODULE Streams ------------------------------
(***************************************************************************)
(* What holds a place in the load balancer: TCP relays with or without SNI *)
(* routes, the round trip of an upstream node, a WebSocket tunnel (which   *)
(* holds none), and the sessions of a UDP listener.  A relay is a task of  *)
(* its own; the UDP sessions belong to one receive loop and have a reader  *)
(* task each.  Bytes are counted, in units.                                *)
(***************************************************************************)
EXTENDS Balancer, FiniteSets

CONSTANTS
    Clients,
    Protocols,          \* what the listener may be: see AllProtocols
    MAX_CLIENT_HELLO,   \* units buffered at most while looking for the SNI
    MaxRead,            \* units one read may bring
    MaxSent,            \* bound on the units a client sends before an answer
    idle_timeout        \* ticks

AllProtocols == {"tcp", "sni", "upstream", "websocket", "udp"}

ASSUME StreamAssumption ==
    /\ Protocols \subseteq AllProtocols /\ "default" \in Pools
    /\ Strategies \subseteq {"round_robin", "least_connections", "ip_hash"}
    /\ IsFiniteSet(Clients) /\ IpHash \in [Clients -> Targets]
    /\ {MAX_CLIENT_HELLO, MaxRead, target_count, idle_timeout} \subseteq Nat \ {0}
    /\ MaxSent \in Nat

VARIABLES
    protocol,
    stopping,    \* the shutdown channel has flipped
    relay,       \* the task of each client's connection
    loop,        \* the UDP receive loop
    session,     \* the UDP session map
    reader,      \* the reader task of each client's session
    last_seen,   \* ticks since last_seen was stored (saturated at idle_timeout)
    waiting      \* ticks the reader has been in recv (saturated at idle_timeout)

udpVars    == <<loop, session, reader, last_seen, waiting>>
streamVars == <<balancerVars, protocol, stopping, relay, udpVars>>

\* A connection that is not there.
Away == [at |-> "away", pool |-> "default", loads |-> << >>, target |-> 0,
         hello |-> 0, name |-> "default", read |-> 0, buf |-> 0]

NoSession == [target |-> 0, alive |-> FALSE, open |-> FALSE]
Selecting == [at |-> "select", client |-> CHOOSE c \in Clients : TRUE, target |-> 0, age |-> 0]

StreamInit ==
    /\ BalancerInit
    /\ protocol \in Protocols
    /\ stopping = FALSE
    /\ relay = [c \in Clients |-> Away]
    /\ loop = Selecting
    /\ session = [c \in Clients |-> NoSession]
    /\ reader = [c \in Clients |-> "none"]
    /\ last_seen = [c \in Clients |-> 0]
    /\ waiting = [c \in Clients |-> 0]

-----------------------------------------------------------------------------
(* Relays. *)

\* The connection of c moves on.
Moves(c, at) == relay' = [relay EXCEPT ![c].at = at]

\* With SNI routes the start of the connection is read first: the ClientHello
\* is complete after `hello` units and names a host of the pool `name`.
Accept(c) ==
    /\ protocol # "udp" /\ ~stopping /\ relay[c].at = "away"
    /\ \/ /\ protocol = "sni"
          /\ \E h \in 1..MaxSent, p \in Pools :
                relay' = [relay EXCEPT ![c] = [Away EXCEPT !.at = "peeking", !.hello = h, !.name = p]]
       \/ protocol # "sni" /\ Moves(c, "selecting")
    /\ UNCHANGED <<balancerVars, protocol, stopping, udpVars>>

AtMostOf(n, limit) == IF n < limit THEN n ELSE limit

\* The pool the router finds once the buffer holds b units: of the name, of no
\* name, or not known yet.
SniPool(c, b) ==
    IF b >= relay[c].hello THEN relay[c].name
    ELSE IF b >= MAX_CLIENT_HELLO THEN "default" ELSE "incomplete"

\* The search is over: the pool is known, and the name is of no more use.
Route(c, p, r, b) ==
    relay' = [relay EXCEPT ![c] = [Away EXCEPT !.at = "selecting", !.pool = p, !.read = r, !.buf = b]]

\* One read of the loop.  What does not fit under the cap is not kept.
PeekRead(c) ==
    /\ relay[c].at = "peeking"
    /\ \E n \in 1..MaxRead :
          LET r == relay[c].read + n
              b == relay[c].buf + AtMostOf(n, MAX_CLIENT_HELLO - relay[c].buf)
          IN  /\ r <= MaxSent
              /\ IF SniPool(c, b) = "incomplete"
                 THEN relay' = [relay EXCEPT ![c].read = r, ![c].buf = b]
                 ELSE Route(c, SniPool(c, b), r, b)
    /\ UNCHANGED <<balancerVars, protocol, stopping, udpVars>>

\* Mutant: nothing is handed on when the hello does not come.
PeekEndsEmpty(c) ==
    /\ relay[c].at = "peeking"
    /\ Route(c, "default", relay[c].read, 0)
    /\ UNCHANGED <<balancerVars, protocol, stopping, udpVars>>

\* End of file, a failed read or the time-out: the default pool gets what came.
PeekEnds(c) ==
    /\ relay[c].at = "peeking"
    /\ Route(c, "default", relay[c].read, relay[c].buf)
    /\ UNCHANGED <<balancerVars, protocol, stopping, udpVars>>

\* One load of least_connections.
Scan(c) ==
    /\ relay[c].at = "selecting" /\ strategy = "least_connections"
    /\ Len(relay[c].loads) < target_count
    /\ relay' = [relay EXCEPT ![c].loads = Append(@, in_flight[relay[c].pool][Len(@)])]
    /\ UNCHANGED <<balancerVars, protocol, stopping, udpVars>>

Select(c) ==
    /\ relay[c].at = "selecting"
    /\ strategy = "least_connections" => Len(relay[c].loads) = target_count
    /\ relay' = [relay EXCEPT ![c].target = select(relay[c].pool, c, relay[c].loads),
                              ![c].loads = << >>, ![c].at = "selected"]
    /\ CountSelect(relay[c].pool)
    /\ UNCHANGED <<strategy, in_flight, protocol, stopping, udpVars>>

\* A tunnel outlives its upstream node and takes no guard.
TakePlace(c) ==
    /\ relay[c].at = "selected"
    /\ IF protocol = "websocket" THEN UNCHANGED in_flight
       ELSE owned_acquire(relay[c].pool, relay[c].target)
    /\ Moves(c, "connecting")
    /\ UNCHANGED <<strategy, rr_counter, protocol, stopping, udpVars>>

\* The task ends, or is dropped with its client, and its guard with it.
Ends(c) ==
    /\ relay' = [relay EXCEPT ![c] = Away]
    /\ IF protocol = "websocket" THEN UNCHANGED in_flight
       ELSE Drop(relay[c].pool, relay[c].target)
    /\ UNCHANGED <<strategy, rr_counter, protocol, stopping, udpVars>>

\* The connection stands and what was peeked is replayed, or one of the two
\* fails, or the time-out fires.
Connect(c) ==
    /\ relay[c].at = "connecting" /\ protocol \in {"tcp", "sni"}
    /\ \/ Ends(c)
       \/ Moves(c, "relaying") /\ UNCHANGED <<balancerVars, protocol, stopping, udpVars>>

\* The round trip of an upstream node is over, with or without an answer, or
\* its client is gone.
RoundTrip(c) == relay[c].at = "connecting" /\ protocol = "upstream" /\ Ends(c)

\* The upstream switches protocols, or the client gets a 502.
proxy_upgrade(c) ==
    /\ relay[c].at = "connecting" /\ protocol = "websocket"
    /\ \/ Ends(c)
       \/ Moves(c, "relaying") /\ UNCHANGED <<balancerVars, protocol, stopping, udpVars>>

\* copy_bidirectional returns.
Closes(c) == relay[c].at = "relaying" /\ Ends(c)

Relay(c) ==
    \/ Accept(c) \/ PeekRead(c) \/ PeekEnds(c)
    \/ Scan(c) \/ Select(c) \/ TakePlace(c)
    \/ Connect(c) \/ RoundTrip(c) \/ proxy_upgrade(c) \/ Closes(c)

-----------------------------------------------------------------------------
(* The UDP listener. *)

\* The datagram goes out on the session of c, and the activity is noted.
Touch(c, age) == last_seen' = [last_seen EXCEPT ![c] = age]

\* Sessions of which nothing is left are dropped, and their guards.
WithoutDead(sessions, dead) == [c \in Clients |-> IF c \in dead THEN NoSession ELSE sessions[c]]
Released(counts, dead) ==
    [counts EXCEPT !["default"] =
        [t \in Targets |-> @[t] - Cardinality({c \in dead : session[c].target = t})]]

Dead == {c \in Clients : session[c].open /\ ~session[c].alive}

\* A datagram of c for which there is a session.
Forward(c) ==
    /\ protocol = "udp" /\ loop.at = "select" /\ session[c].alive
    /\ Touch(c, 0)
    /\ UNCHANGED <<balancerVars, protocol, stopping, relay, loop, session, reader, waiting>>

\* A datagram of c for which there is none, or one that is dead: a target is
\* selected and counted, the socket is yet to be set up.  No one else changes
\* the counters, so the reads of least_connections are of one moment.
Open(c) ==
    /\ protocol = "udp" /\ loop.at = "select" /\ ~session[c].alive
    /\ LET counts == Released(in_flight, {c} \cap Dead)["default"]
           t      == select("default", c, [i \in 1..target_count |-> counts[i - 1]])
       IN  /\ in_flight' = [in_flight EXCEPT !["default"] = [counts EXCEPT ![t] = @ + 1]]
           /\ loop' = [at |-> "creating", client |-> c, target |-> t, age |-> 0]
    /\ CountSelect("default")
    /\ session' = WithoutDead(session, {c})
    /\ UNCHANGED <<strategy, protocol, stopping, relay, reader, last_seen, waiting>>

\* The socket is there: the reader starts and the datagram goes out.  The time
\* noted is that of its arrival.
create_session ==
    /\ loop.at = "creating"
    /\ LET c == loop.client
       IN  /\ session' = [session EXCEPT ![c] = [target |-> loop.target, alive |-> TRUE, open |-> TRUE]]
           /\ reader' = [reader EXCEPT ![c] = "receiving"]
           /\ waiting' = [waiting EXCEPT ![c] = 0]
           /\ Touch(c, loop.age)
    /\ loop' = Selecting
    /\ UNCHANGED <<balancerVars, protocol, stopping, relay>>

\* The bind or the lookup of the target's name fails; the datagram is lost.
CreateFails ==
    /\ loop.at = "creating"
    /\ Drop("default", loop.target)
    /\ loop' = Selecting
    /\ UNCHANGED <<strategy, rr_counter, protocol, stopping, relay, session, reader, last_seen, waiting>>

\* Mutant: the sessions go, their places stay.
PruneForgets ==
    /\ protocol = "udp" /\ loop.at = "select" /\ Dead # {}
    /\ session' = WithoutDead(session, Dead)
    /\ UNCHANGED <<balancerVars, protocol, stopping, relay, loop, reader, last_seen, waiting>>

Prune ==
    /\ protocol = "udp" /\ loop.at = "select" /\ Dead # {}
    /\ session' = WithoutDead(session, Dead)
    /\ in_flight' = Released(in_flight, Dead)
    /\ UNCHANGED <<strategy, rr_counter, protocol, stopping, relay, loop, reader, last_seen, waiting>>

\* A reply reaches the client.
Reply(c) ==
    /\ reader[c] = "receiving"
    /\ Touch(c, 0)
    /\ waiting' = [waiting EXCEPT ![c] = 0]
    /\ UNCHANGED <<balancerVars, protocol, stopping, relay, loop, session, reader>>

\* A reply cannot be read, or cannot be sent on.
ReaderFails(c) ==
    /\ reader[c] = "receiving"
    /\ reader' = [reader EXCEPT ![c] = "leaving"]
    /\ UNCHANGED <<balancerVars, protocol, stopping, relay, loop, session, last_seen, waiting>>

\* Nothing came for so long: over, unless the client was heard of meanwhile.
ReaderTimeout(c) ==
    /\ reader[c] = "receiving" /\ waiting[c] = idle_timeout
    /\ reader' = [reader EXCEPT ![c] = IF last_seen[c] >= idle_timeout THEN "leaving" ELSE @]
    /\ waiting' = [waiting EXCEPT ![c] = 0]
    /\ UNCHANGED <<balancerVars, protocol, stopping, relay, loop, session, last_seen>>

\* Mutant: a reader that ends does not say so.
LeaveSilently(c) ==
    /\ reader[c] = "leaving"
    /\ reader' = [reader EXCEPT ![c] = "none"]
    /\ UNCHANGED <<balancerVars, protocol, stopping, relay, loop, session, last_seen, waiting>>

\* The store to alive comes after the decision.
Leave(c) ==
    /\ reader[c] = "leaving"
    /\ reader' = [reader EXCEPT ![c] = "none"]
    /\ session' = [session EXCEPT ![c].alive = FALSE]
    /\ UNCHANGED <<balancerVars, protocol, stopping, relay, loop, last_seen, waiting>>

\* The receive loop ends with its map; the readers are left to themselves, and
\* relays run on.
Shutdown ==
    /\ ~stopping /\ loop.at = "select"
    /\ stopping' = TRUE
    /\ loop' = [loop EXCEPT !.at = "stopped"]
    /\ session' = [c \in Clients |-> NoSession]
    /\ in_flight' = Released(in_flight, {c \in Clients : session[c].open})
    /\ UNCHANGED <<strategy, rr_counter, protocol, relay, reader, last_seen, waiting>>

Sooner(n) == AtMostOf(n + 1, idle_timeout)

Passing(clock) == [c \in Clients |-> IF reader[c] = "receiving" THEN Sooner(clock[c]) ELSE clock[c]]

StreamTick ==
    /\ last_seen' = Passing(last_seen) /\ waiting' = Passing(waiting)
    /\ loop' = IF loop.at = "creating" THEN [loop EXCEPT !.age = Sooner(@)] ELSE loop
    /\ UNCHANGED <<balancerVars, protocol, stopping, relay, session, reader>>

Reader(c) == Reply(c) \/ ReaderFails(c) \/ ReaderTimeout(c) \/ Leave(c)

StreamNext ==
    \/ \E c \in Clients : Relay(c) \/ Forward(c) \/ Open(c) \/ Reader(c)
    \/ create_session \/ CreateFails \/ Prune \/ Shutdown \/ StreamTick

StreamSpec == StreamInit /\ [][StreamNext]_streamVars

-----------------------------------------------------------------------------
(* Properties. *)

\* Who holds a place at target t of pool p.
Relays(p, t) ==
    {c \in Clients : relay[c].at \in {"connecting", "relaying"} /\ relay[c].pool = p
                     /\ relay[c].target = t /\ protocol # "websocket"}
Sessions(p, t) == {c \in Clients : p = "default" /\ session[c].open /\ session[c].target = t}

\* The counters are exact: however connections fail, time out, are dropped by
\* their clients or by a shutdown, a target's counter is the number of relays,
\* round trips and sessions that are there, the one being set up included.
InFlightIsExact ==
    \A p \in Pools, t \in Targets :
        in_flight[p][t] = Cardinality(Relays(p, t)) + Cardinality(Sessions(p, t))
            + (IF p = "default" /\ loop.at = "creating" /\ loop.target = t THEN 1 ELSE 0)

\* What was read to find the SNI reaches the target: the relay starts with all
\* of it, on every way out of the search, unless a read went past the cap.
HelloIsReplayed ==
    \A c \in Clients :
        relay[c].at = "relaying" /\ relay[c].read <= MAX_CLIENT_HELLO
            => relay[c].buf = relay[c].read

\* A session both sides have fallen silent on is torn down for good, and one
\* that a client keeps using has a reader again and again: a reader that gives
\* up while a datagram is under way costs that datagram's answer, not more.
SessionsTurnOver ==
    \A c \in Clients :
        /\ <>[][~(Open(c) \/ Forward(c) \/ Reply(c))]_streamVars
              => <>[](session[c] = NoSession)
        /\ []<><<Forward(c)>>_streamVars => []<>(reader[c] = "receiving")
=============================================================================
