-------------------------- MODULE DataPlaneProofs --------------------------
(***************************************************************************)
(* The listeners of the data plane, for any number of clients, targets and *)
(* pools: whatever becomes of a connection or a session, its place in the  *)
(* load balancer is given back once, and what was read to find the SNI is  *)
(* handed on.  What is proved of policies and of pools holds of the whole. *)
(***************************************************************************)
EXTENDS DataPlane, TrafficPathProofs, WellFoundedInduction

-----------------------------------------------------------------------------
(* Selecting a target. *)

\* A non-empty set of natural numbers has a least element.
LEMMA LeastNatural ==
    ASSUME NEW S \in SUBSET Nat, S # {}
    PROVE  \E x \in S : \A y \in S : x <= y
<1>1. \E x \in S : \A y \in S : ~ (<<y, x>> \in OpToRel(<, Nat))
    BY NatLessThanWellFounded, WFMin
<1>2. PICK x \in S : \A y \in S : ~(y < x)
    <2>1. PICK x \in S : \A y \in S : ~ (<<y, x>> \in OpToRel(<, Nat))
        BY <1>1
    <2>2. ASSUME NEW y \in S, y < x PROVE <<y, x>> \in OpToRel(<, Nat)
        BY <2>2 DEF OpToRel
    <2> QED BY <2>1, <2>2
<1> QED BY <1>2

\* least_connections finds the first of the smallest loads.
LEMMA LeastOfIndex ==
    ASSUME NEW n \in Nat \ {0}, NEW loads \in [1..n -> Nat]
    PROVE  LeastOf(loads) \in 1..n
<1> DEFINE V == {loads[i] : i \in 1..n}
<1>1. V \in SUBSET Nat /\ V # {}
    <2>1. 1 \in 1..n
        OBVIOUS
    <2> QED BY <2>1
<1>2. PICK v \in V : \A w \in V : v <= w
    <2> HIDE DEF V
    <2> QED BY <1>1, LeastNatural
<1> DEFINE I == {i \in 1..n : loads[i] = v}
<1>3. I \in SUBSET Nat /\ I # {}
    OBVIOUS
<1>4. PICK k \in I : \A j \in I : k <= j
    <2> HIDE DEF I
    <2> QED BY <1>3, LeastNatural
<1>5. k \in DOMAIN loads /\ DOMAIN loads = 1..n
    OBVIOUS
<1>6. \A j \in DOMAIN loads : loads[k] < loads[j] \/ (loads[k] = loads[j] /\ k <= j)
    <2> TAKE j \in DOMAIN loads
    <2>1. loads[k] = v /\ loads[j] \in V /\ v <= loads[j] /\ loads[j] \in Nat /\ v \in Nat
        BY <1>1, <1>2
    <2>2. loads[j] = v => k <= j
        BY <1>4
    <2> QED BY <2>1, <2>2
<1> QED BY <1>5, <1>6 DEF LeastOf

-----------------------------------------------------------------------------
(* Relays and sessions. *)

RelayType ==
    [at : {"away", "peeking", "selecting", "selected", "connecting", "relaying"},
     pool : Pools, loads : Seq(Nat), target : Targets,
     hello : Nat, name : Pools, read : Nat, buf : Nat]

SessionType == [target : Targets, alive : BOOLEAN, open : BOOLEAN]

LoopType ==
    [at : {"select", "creating", "stopped"}, client : Clients \cup {Selecting.client},
     target : Targets, age : Nat]

\* Every target that is chosen is one of the pool's.
StreamTypeOK ==
    /\ strategy \in {"round_robin", "least_connections", "ip_hash"}
    /\ rr_counter \in [Pools -> Targets]
    /\ in_flight \in [Pools -> [Targets -> Int]]
    /\ protocol \in AllProtocols
    /\ relay \in [Clients -> RelayType]
    /\ session \in [Clients -> SessionType]
    /\ loop \in LoopType
    /\ DOMAIN reader = Clients

\* What makes HelloIsReplayed inductive: at every stage of a relay the buffer
\* holds what was read, as far as the cap allows.
HelloKept == \A c \in Clients : relay[c].buf = AtMostOf(relay[c].read, MAX_CLIENT_HELLO)

\* The counters are exact only because a session that is being set up replaces
\* none that still holds a place.
NewClient ==
    loop.at = "creating" => loop.client \in Clients /\ ~session[loop.client].open

StreamInv == StreamTypeOK /\ HelloKept /\ NewClient /\ InFlightIsExact

\* A relay holds a place of p and t.
Holds(r, p, t) ==
    r.at \in {"connecting", "relaying"} /\ r.pool = p /\ r.target = t /\ protocol # "websocket"

One(b) == IF b THEN 1 ELSE 0

\* The sets the invariant counts are finite.
LEMMA HoldersFinite ==
    ASSUME NEW p, NEW t
    PROVE  /\ IsFiniteSet(Relays(p, t)) /\ Cardinality(Relays(p, t)) \in Nat
           /\ IsFiniteSet(Sessions(p, t)) /\ Cardinality(Sessions(p, t)) \in Nat
<1>1. Relays(p, t) \subseteq Clients /\ Sessions(p, t) \subseteq Clients
    BY DEF Relays, Sessions
<1>2. IsFiniteSet(Clients)
    BY StreamAssumption
<1>3. IsFiniteSet(Relays(p, t)) /\ IsFiniteSet(Sessions(p, t))
    BY <1>1, <1>2, FS_Subset
<1> QED BY <1>3, FS_CardinalityType

\* One member of a finite set comes or goes, or none does.
LEMMA OneMoves ==
    ASSUME NEW S, IsFiniteSet(S), NEW T, NEW c,
           \A d : d # c => (d \in T <=> d \in S)
    PROVE  Cardinality(T) = Cardinality(S) + One(c \in T) - One(c \in S)
<1>1. Cardinality(S) \in Nat
    BY FS_CardinalityType
<1>2. CASE c \in S /\ c \notin T
    <2>1. T = S \ {c}
        BY <1>2
    <2>2. Cardinality(T) = Cardinality(S) - 1
        BY <1>2, <2>1, FS_RemoveElement
    <2> QED BY <1>1, <1>2, <2>2 DEF One
<1>3. CASE c \notin S /\ c \in T
    <2>1. T = S \cup {c}
        BY <1>3
    <2>2. Cardinality(T) = Cardinality(S) + 1
        BY <1>3, <2>1, FS_AddElement
    <2> QED BY <1>1, <1>3, <2>2 DEF One
<1>4. CASE (c \in S) <=> (c \in T)
    <2>1. T = S
        BY <1>4
    <2> QED BY <1>1, <1>4, <2>1 DEF One
<1> QED BY <1>2, <1>3, <1>4

\* One relay changes.
LEMMA RelayMoves ==
    ASSUME StreamTypeOK, NEW c \in Clients, NEW r \in RelayType,
           relay' = [relay EXCEPT ![c] = r], protocol' = protocol,
           NEW p \in Pools, NEW t \in Targets
    PROVE  Cardinality(Relays(p, t)') =
               Cardinality(Relays(p, t)) + One(Holds(r, p, t)) - One(Holds(relay[c], p, t))
<1> DEFINE S == Relays(p, t)
           T == Relays(p, t)'
<1>1. /\ c \in S <=> Holds(relay[c], p, t)
      /\ c \in T <=> Holds(r, p, t)
      /\ \A d : d # c => (d \in T <=> d \in S)
    BY DEF Relays, Holds, StreamTypeOK
<1>2. IsFiniteSet(S)
    BY HoldersFinite
<1> HIDE DEF S, T
<1>3. Cardinality(T) = Cardinality(S) + One(c \in T) - One(c \in S)
    BY <1>1, <1>2, OneMoves
<1>4. One(c \in T) = One(Holds(r, p, t)) /\ One(c \in S) = One(Holds(relay[c], p, t))
    BY <1>1 DEF One
<1> QED BY <1>3, <1>4 DEF S, T

\* One session changes.
LEMMA SessionMoves ==
    ASSUME StreamTypeOK, NEW c \in Clients, NEW s \in SessionType,
           session' = [session EXCEPT ![c] = s],
           NEW p \in Pools, NEW t \in Targets
    PROVE  Cardinality(Sessions(p, t)') =
               Cardinality(Sessions(p, t))
                 + One(p = "default" /\ s.open /\ s.target = t)
                 - One(p = "default" /\ session[c].open /\ session[c].target = t)
<1> DEFINE S == Sessions(p, t)
           T == Sessions(p, t)'
<1>1. /\ c \in S <=> p = "default" /\ session[c].open /\ session[c].target = t
      /\ c \in T <=> p = "default" /\ s.open /\ s.target = t
      /\ \A d : d # c => (d \in T <=> d \in S)
    BY DEF Sessions, StreamTypeOK
<1>2. IsFiniteSet(S)
    BY HoldersFinite
<1> HIDE DEF S, T
<1>3. Cardinality(T) = Cardinality(S) + One(c \in T) - One(c \in S)
    BY <1>1, <1>2, OneMoves
<1>4. /\ One(c \in T) = One(p = "default" /\ s.open /\ s.target = t)
      /\ One(c \in S) = One(p = "default" /\ session[c].open /\ session[c].target = t)
    BY <1>1 DEF One
<1> QED BY <1>3, <1>4 DEF S, T

\* Sessions that hold a place are dropped together.
LEMMA SessionsDropped ==
    ASSUME StreamTypeOK, NEW dead \in SUBSET Clients,
           \A c \in dead : session[c].open,
           \A c \in Clients : session'[c].open <=> c \notin dead /\ session[c].open,
           \A c \in Clients \ dead : session[c].open => session'[c].target = session[c].target,
           NEW p \in Pools, NEW t \in Targets
    PROVE  /\ Cardinality({c \in dead : session[c].target = t}) \in Nat
           /\ Cardinality(Sessions(p, t)') =
                 Cardinality(Sessions(p, t))
                   - (IF p = "default" THEN Cardinality({c \in dead : session[c].target = t}) ELSE 0)
<1> DEFINE S == Sessions(p, t)
           T == Sessions(p, t)'
           D == {c \in dead : session[c].target = t}
<1>1. IsFiniteSet(S) /\ Cardinality(S) \in Nat
    BY HoldersFinite
<1>2. IsFiniteSet(D) /\ Cardinality(D) \in Nat
    BY StreamAssumption, FS_Subset, FS_CardinalityType
<1>3. CASE p = "default"
    <2>1. D \subseteq S /\ T = S \ D
        BY <1>3 DEF Sessions
    <2>2. S \cap D = D
        BY <2>1
    <2> HIDE DEF S, T, D
    <2>3. Cardinality(S \ D) = Cardinality(S) - Cardinality(S \cap D)
        BY <1>1, <1>2, FS_Difference
    <2> QED BY <1>1, <1>2, <1>3, <2>1, <2>2, <2>3 DEF S, T, D
<1>4. CASE p # "default"
    <2>1. T = {} /\ S = {}
        BY <1>4 DEF Sessions
    <2> HIDE DEF S, T, D
    <2> QED BY <1>1, <1>2, <1>4, <2>1 DEF S, T, D
<1> QED BY <1>3, <1>4

\* One place more or less at a target.
LEMMA PlaceMoves ==
    ASSUME StreamTypeOK, NEW p \in Pools, NEW t \in Targets, NEW d \in Int,
           in_flight' = [in_flight EXCEPT ![p][t] = @ + d]
    PROVE  /\ in_flight' \in [Pools -> [Targets -> Int]]
           /\ \A q \in Pools, u \in Targets :
                 in_flight'[q][u] = in_flight[q][u] + (IF q = p /\ u = t THEN d ELSE 0)
BY DEF StreamTypeOK

\* The counters are never negative: they count what is there.
LEMMA LoadsNatural ==
    ASSUME StreamInv, NEW p \in Pools, NEW t \in Targets
    PROVE  in_flight[p][t] \in Nat
BY HoldersFinite DEF StreamInv, InFlightIsExact

\* A relay moves on, and the counters follow what it holds.
LEMMA RelayStep ==
    ASSUME StreamInv, NEW c \in Clients, NEW r \in RelayType,
           relay' = [relay EXCEPT ![c] = r],
           UNCHANGED <<strategy, protocol, udpVars>>,
           rr_counter' \in [Pools -> Targets],
           in_flight' \in [Pools -> [Targets -> Int]],
           \A p \in Pools, t \in Targets :
               in_flight'[p][t] = in_flight[p][t]
                   + One(Holds(r, p, t)) - One(Holds(relay[c], p, t)),
           r.buf = AtMostOf(r.read, MAX_CLIENT_HELLO)
    PROVE  StreamInv'
<1> USE DEF StreamInv, udpVars
<1>1. StreamTypeOK'
    BY DEF StreamTypeOK
<1>2. HelloKept'
    BY DEF HelloKept, StreamTypeOK, AtMostOf
<1>3. NewClient'
    BY DEF NewClient
<1>4. InFlightIsExact'
    <2> SUFFICES ASSUME NEW p \in Pools, NEW t \in Targets
                 PROVE  in_flight'[p][t] = Cardinality(Relays(p, t)') + Cardinality(Sessions(p, t)')
                          + (IF p = "default" /\ loop'.at = "creating" /\ loop'.target = t THEN 1 ELSE 0)
        BY DEF InFlightIsExact
    <2>1. Cardinality(Relays(p, t)') =
              Cardinality(Relays(p, t)) + One(Holds(r, p, t)) - One(Holds(relay[c], p, t))
        BY RelayMoves
    <2>2. Sessions(p, t)' = Sessions(p, t) /\ loop' = loop
        BY DEF Sessions
    <2>3. /\ Cardinality(Relays(p, t)) \in Nat /\ Cardinality(Sessions(p, t)) \in Nat
          /\ One(Holds(r, p, t)) \in Int /\ One(Holds(relay[c], p, t)) \in Int
        BY HoldersFinite DEF One
    <2>4. in_flight[p][t] = Cardinality(Relays(p, t)) + Cardinality(Sessions(p, t))
              + (IF p = "default" /\ loop.at = "creating" /\ loop.target = t THEN 1 ELSE 0)
        BY DEF InFlightIsExact
    <2>5. in_flight'[p][t] = in_flight[p][t] + One(Holds(r, p, t)) - One(Holds(relay[c], p, t))
        OBVIOUS
    <2> QED BY <2>1, <2>2, <2>3, <2>4, <2>5
<1> QED BY <1>1, <1>2, <1>3, <1>4

\* A relay that holds as much as before leaves the counters alone.
LEMMA RelayKeeps ==
    ASSUME StreamInv, NEW c \in Clients, NEW r \in RelayType,
           relay' = [relay EXCEPT ![c] = r],
           UNCHANGED <<strategy, in_flight, protocol, udpVars>>,
           rr_counter' \in [Pools -> Targets],
           \A p \in Pools, t \in Targets : Holds(r, p, t) <=> Holds(relay[c], p, t),
           r.buf = AtMostOf(r.read, MAX_CLIENT_HELLO)
    PROVE  StreamInv'
<1>1. \A p \in Pools, t \in Targets :
          in_flight'[p][t] = in_flight[p][t] + One(Holds(r, p, t)) - One(Holds(relay[c], p, t))
    <2> TAKE p \in Pools, t \in Targets
    <2>1. in_flight[p][t] \in Int /\ in_flight' = in_flight
        BY DEF StreamInv, StreamTypeOK
    <2>2. One(Holds(r, p, t)) = One(Holds(relay[c], p, t)) /\ One(Holds(r, p, t)) \in Int
        BY DEF One
    <2> QED BY <2>1, <2>2
<1>2. in_flight' \in [Pools -> [Targets -> Int]]
    BY DEF StreamInv, StreamTypeOK
<1> QED BY <1>1, <1>2, RelayStep

\* Whatever the strategy, the target selected is one of the pool's.
LEMMA SelectInPool ==
    ASSUME StreamInv, NEW p \in Pools, NEW c \in Clients, NEW loads,
           strategy = "least_connections" => loads \in [1..target_count -> Nat]
    PROVE  select(p, c, loads) \in Targets
<1>1. CASE strategy = "round_robin"
    BY <1>1 DEF select, StreamInv, StreamTypeOK
<1>2. CASE strategy = "least_connections"
    <2>1. LeastOf(loads) \in 1..target_count
        BY <1>2, LeastOfIndex, StreamAssumption
    <2>2. LeastOf(loads) - 1 \in Targets
        BY <2>1, StreamAssumption DEF Targets
    <2> QED BY <1>2, <2>2 DEF select
<1>3. CASE strategy = "ip_hash"
    BY <1>3, StreamAssumption DEF select
<1> QED BY <1>1, <1>2, <1>3 DEF StreamInv, StreamTypeOK

LEMMA CounterWraps ==
    ASSUME StreamInv, NEW p \in Pools, CountSelect(p)
    PROVE  rr_counter' \in [Pools -> Targets]
<1>1. \A n \in Targets : (n + 1) % target_count \in Targets
    BY StreamAssumption DEF Targets
<1> QED BY <1>1 DEF CountSelect, StreamInv, StreamTypeOK

\* A relay that looks for a name, or for a target, keeps the invariant.
LEMMA SearchStep ==
    ASSUME StreamInv, NEW c \in Clients,
           Accept(c) \/ PeekRead(c) \/ PeekEnds(c) \/ Scan(c) \/ Select(c)
    PROVE  StreamInv'
<1>r. relay[c] \in RelayType /\ relay \in [Clients -> RelayType]
    BY DEF StreamInv, StreamTypeOK
<1>k. relay[c].buf = AtMostOf(relay[c].read, MAX_CLIENT_HELLO)
    BY DEF StreamInv, HelloKept
<1>c. MAX_CLIENT_HELLO \in Nat \ {0} /\ target_count \in Nat \ {0} /\ "default" \in Pools
    BY StreamAssumption
<1>z. 0 \in Targets
    BY <1>c DEF Targets
<1>a. rr_counter \in [Pools -> Targets] /\ << >> \in Seq(Nat)
    BY DEF StreamInv, StreamTypeOK
<1>1. ASSUME NEW r \in RelayType, relay' = [relay EXCEPT ![c] = r],
             relay[c].at \notin {"connecting", "relaying"},
             r.at \notin {"connecting", "relaying"},
             r.buf = AtMostOf(r.read, MAX_CLIENT_HELLO),
             UNCHANGED <<strategy, in_flight, protocol, udpVars>>,
             rr_counter' \in [Pools -> Targets]
      PROVE  StreamInv'
    <2>1. \A p \in Pools, t \in Targets : Holds(r, p, t) <=> Holds(relay[c], p, t)
        BY <1>1 DEF Holds
    <2> QED BY <1>1, <2>1, RelayKeeps
<1>2. CASE Accept(c)
    <2>1. CASE protocol = "sni"
        <3>1. PICK h \in 1..MaxSent, p \in Pools :
                relay' = [relay EXCEPT ![c] = [Away EXCEPT !.at = "peeking", !.hello = h, !.name = p]]
            BY <1>2, <2>1 DEF Accept
        <3> DEFINE r == [Away EXCEPT !.at = "peeking", !.hello = h, !.name = p]
        <3>h. h \in Nat /\ 0 = AtMostOf(0, MAX_CLIENT_HELLO)
            BY <1>c DEF AtMostOf
        <3>2. r \in RelayType /\ r.at = "peeking" /\ r.buf = AtMostOf(r.read, MAX_CLIENT_HELLO)
            BY <1>a, <1>z, <1>c, <3>h DEF RelayType, Away
        <3> HIDE DEF r
        <3>3. /\ relay[c].at = "away" /\ rr_counter' \in [Pools -> Targets]
              /\ UNCHANGED <<strategy, in_flight, protocol, udpVars>>
            BY <1>2, <1>a DEF Accept, balancerVars
        <3>4. relay' = [relay EXCEPT ![c] = r]
            BY <3>1 DEF r
        <3> QED BY <1>1, <3>2, <3>3, <3>4
    <2>2. CASE protocol # "sni"
        <3> DEFINE r == [relay[c] EXCEPT !.at = "selecting"]
        <3>1. relay' = [relay EXCEPT ![c] = r]
            BY <1>2, <2>2, <1>r DEF Accept, Moves
        <3>2. r \in RelayType /\ r.at = "selecting" /\ r.buf = AtMostOf(r.read, MAX_CLIENT_HELLO)
            BY <1>r, <1>k DEF RelayType
        <3> HIDE DEF r
        <3>3. /\ relay[c].at = "away" /\ rr_counter' \in [Pools -> Targets]
              /\ UNCHANGED <<strategy, in_flight, protocol, udpVars>>
            BY <1>2, <1>a DEF Accept, balancerVars
        <3> QED BY <1>1, <3>1, <3>2, <3>3
    <2> QED BY <2>1, <2>2
<1>3. CASE PeekRead(c)
    <2>0. /\ relay[c].at = "peeking" /\ rr_counter' \in [Pools -> Targets]
          /\ UNCHANGED <<strategy, in_flight, protocol, udpVars>>
        BY <1>3, <1>a DEF PeekRead, balancerVars
    <2>1. PICK n \in 1..MaxRead :
            LET r == relay[c].read + n
                b == relay[c].buf + AtMostOf(n, MAX_CLIENT_HELLO - relay[c].buf)
            IN  IF SniPool(c, b) = "incomplete"
                THEN relay' = [relay EXCEPT ![c].read = r, ![c].buf = b]
                ELSE Route(c, SniPool(c, b), r, b)
        BY <1>3 DEF PeekRead
    <2> DEFINE read == relay[c].read + n
               buf  == relay[c].buf + AtMostOf(n, MAX_CLIENT_HELLO - relay[c].buf)
    <2>2. read \in Nat /\ buf \in Nat /\ buf = AtMostOf(read, MAX_CLIENT_HELLO)
        BY <1>r, <1>k, <1>c DEF RelayType, AtMostOf
    <2>3. SniPool(c, buf) = "incomplete" \/ SniPool(c, buf) \in Pools
        BY <1>r, <1>c DEF SniPool, RelayType
    <2>4. CASE SniPool(c, buf) = "incomplete"
        <3> DEFINE r == [relay[c] EXCEPT !.read = read, !.buf = buf]
        <3>1. relay' = [relay EXCEPT ![c] = r]
            BY <2>1, <2>4, <1>r
        <3> HIDE DEF read, buf
        <3>2. r \in RelayType /\ r.at = "peeking" /\ r.buf = AtMostOf(r.read, MAX_CLIENT_HELLO)
            BY <1>r, <2>0, <2>2 DEF RelayType
        <3> HIDE DEF r
        <3> QED BY <1>1, <2>0, <3>1, <3>2
    <2>5. CASE SniPool(c, buf) # "incomplete"
        <3> DEFINE q == SniPool(c, buf)
                   r == [Away EXCEPT !.at = "selecting", !.pool = q, !.read = read, !.buf = buf]
        <3>1. relay' = [relay EXCEPT ![c] = r] /\ q \in Pools
            BY <2>1, <2>3, <2>5 DEF Route
        <3> HIDE DEF read, buf, q
        <3>2. r \in RelayType /\ r.at = "selecting" /\ r.buf = AtMostOf(r.read, MAX_CLIENT_HELLO)
            BY <1>a, <1>z, <1>c, <2>2, <3>1 DEF RelayType, Away
        <3> HIDE DEF r
        <3> QED BY <1>1, <2>0, <3>1, <3>2
    <2> QED BY <2>4, <2>5
<1>4. CASE PeekEnds(c)
    <2> DEFINE r == [Away EXCEPT !.at = "selecting", !.pool = "default",
                                 !.read = relay[c].read, !.buf = relay[c].buf]
    <2>1. relay' = [relay EXCEPT ![c] = r]
        BY <1>4 DEF PeekEnds, Route
    <2>2. r \in RelayType /\ r.at = "selecting" /\ r.buf = AtMostOf(r.read, MAX_CLIENT_HELLO)
        BY <1>a, <1>z, <1>c, <1>r, <1>k DEF RelayType, Away
    <2> HIDE DEF r
    <2>3. /\ relay[c].at = "peeking" /\ rr_counter' \in [Pools -> Targets]
          /\ UNCHANGED <<strategy, in_flight, protocol, udpVars>>
        BY <1>4, <1>a DEF PeekEnds, balancerVars
    <2> QED BY <1>1, <2>1, <2>2, <2>3
<1>5. CASE Scan(c)
    <2> DEFINE n == in_flight[relay[c].pool][Len(relay[c].loads)]
               r == [relay[c] EXCEPT !.loads = Append(@, n)]
    <2>1. relay[c].pool \in Pools /\ relay[c].loads \in Seq(Nat) /\ Len(relay[c].loads) \in Targets
        BY <1>5, <1>r, <1>c DEF Scan, RelayType, Targets
    <2>2. n \in Nat
        BY <2>1, LoadsNatural
    <2>3. relay' = [relay EXCEPT ![c] = r]
        BY <1>5, <1>r DEF Scan
    <2> HIDE DEF n
    <2>4. Append(relay[c].loads, n) \in Seq(Nat)
        BY <2>1, <2>2
    <2>5. r \in RelayType /\ r.at = relay[c].at /\ r.buf = AtMostOf(r.read, MAX_CLIENT_HELLO)
        BY <1>r, <1>k, <2>4 DEF RelayType
    <2> HIDE DEF r
    <2>6. /\ relay[c].at = "selecting" /\ rr_counter' \in [Pools -> Targets]
          /\ UNCHANGED <<strategy, in_flight, protocol, udpVars>>
        BY <1>5, <1>a DEF Scan, balancerVars
    <2> QED BY <1>1, <2>3, <2>5, <2>6
<1>6. CASE Select(c)
    <2> DEFINE t == select(relay[c].pool, c, relay[c].loads)
               r == [relay[c] EXCEPT !.target = t, !.loads = << >>, !.at = "selected"]
    <2>1. relay[c].pool \in Pools /\ relay[c].loads \in Seq(Nat)
        BY <1>r DEF RelayType
    <2>2. strategy = "least_connections" => relay[c].loads \in [1..target_count -> Nat]
        BY <1>6, <2>1 DEF Select
    <2>3. t \in Targets
        BY <2>1, <2>2, SelectInPool
    <2>4. relay' = [relay EXCEPT ![c] = r]
        BY <1>6, <1>r DEF Select
    <2> HIDE DEF t
    <2>5. r \in RelayType /\ r.at = "selected" /\ r.buf = AtMostOf(r.read, MAX_CLIENT_HELLO)
        BY <1>a, <1>r, <1>k, <2>3 DEF RelayType
    <2> HIDE DEF r
    <2>6. /\ relay[c].at = "selecting" /\ CountSelect(relay[c].pool)
          /\ UNCHANGED <<strategy, in_flight, protocol, udpVars>>
        BY <1>6 DEF Select
    <2>7. rr_counter' \in [Pools -> Targets]
        BY <2>1, <2>6, CounterWraps
    <2> QED BY <1>1, <2>4, <2>5, <2>6, <2>7
<1> QED BY <1>2, <1>3, <1>4, <1>5, <1>6

\* A relay that takes its place, connects, or ends keeps the invariant.
LEMMA PlaceStep ==
    ASSUME StreamInv, NEW c \in Clients,
           TakePlace(c) \/ Connect(c) \/ RoundTrip(c) \/ proxy_upgrade(c) \/ Closes(c)
    PROVE  StreamInv'
<1>r. relay[c] \in RelayType /\ relay \in [Clients -> RelayType]
    BY DEF StreamInv, StreamTypeOK
<1>k. relay[c].buf = AtMostOf(relay[c].read, MAX_CLIENT_HELLO)
    BY DEF StreamInv, HelloKept
<1>c. MAX_CLIENT_HELLO \in Nat \ {0} /\ target_count \in Nat \ {0} /\ "default" \in Pools
    BY StreamAssumption
<1>p. relay[c].pool \in Pools /\ relay[c].target \in Targets
    BY <1>r DEF RelayType
<1>a. /\ rr_counter \in [Pools -> Targets] /\ << >> \in Seq(Nat)
      /\ in_flight \in [Pools -> [Targets -> Int]] /\ StreamTypeOK
    BY DEF StreamInv, StreamTypeOK
<1>1. CASE TakePlace(c)
    <2> DEFINE r == [relay[c] EXCEPT !.at = "connecting"]
    <2>1. relay' = [relay EXCEPT ![c] = r]
        BY <1>1, <1>r DEF TakePlace, Moves
    <2>2. /\ r \in RelayType /\ r.at = "connecting" /\ r.buf = AtMostOf(r.read, MAX_CLIENT_HELLO)
          /\ r.pool = relay[c].pool /\ r.target = relay[c].target
        BY <1>r, <1>k DEF RelayType
    <2> HIDE DEF r
    <2>3. /\ relay[c].at = "selected" /\ rr_counter' \in [Pools -> Targets]
          /\ UNCHANGED <<strategy, protocol, udpVars>>
        BY <1>1, <1>a DEF TakePlace
    <2>4. \A p \in Pools, t \in Targets : ~Holds(relay[c], p, t)
        BY <2>3 DEF Holds
    <2>5. CASE protocol = "websocket"
        <3>1. \A p \in Pools, t \in Targets : Holds(r, p, t) <=> Holds(relay[c], p, t)
            BY <2>4, <2>5 DEF Holds
        <3>2. in_flight' = in_flight
            BY <1>1, <2>5 DEF TakePlace
        <3> QED BY <2>1, <2>2, <2>3, <3>1, <3>2, RelayKeeps
    <2>6. CASE protocol # "websocket"
        <3>1. in_flight' = [in_flight EXCEPT ![relay[c].pool][relay[c].target] = @ + 1]
            BY <1>1, <2>6 DEF TakePlace, owned_acquire
        <3>2. /\ in_flight' \in [Pools -> [Targets -> Int]]
              /\ \A q \in Pools, u \in Targets :
                    in_flight'[q][u] = in_flight[q][u]
                        + (IF q = relay[c].pool /\ u = relay[c].target THEN 1 ELSE 0)
            BY <1>a, <1>p, <3>1, PlaceMoves
        <3>3. \A p \in Pools, t \in Targets :
                in_flight'[p][t] = in_flight[p][t]
                    + One(Holds(r, p, t)) - One(Holds(relay[c], p, t))
            <4> TAKE p \in Pools, t \in Targets
            <4>1. /\ in_flight[p][t] \in Int
                  /\ in_flight'[p][t] = in_flight[p][t]
                        + (IF p = relay[c].pool /\ t = relay[c].target THEN 1 ELSE 0)
                BY <1>a, <3>2
            <4>2. Holds(r, p, t) <=> p = relay[c].pool /\ t = relay[c].target
                BY <2>2, <2>6 DEF Holds
            <4>3. ~Holds(relay[c], p, t)
                BY <2>4
            <4> HIDE DEF Holds
            <4> QED BY <4>1, <4>2, <4>3 DEF One
        <3> QED BY <2>1, <2>2, <2>3, <3>2, <3>3, RelayStep
    <2> QED BY <2>5, <2>6
<1>2. ASSUME Ends(c), relay[c].at \in {"connecting", "relaying"}
      PROVE  StreamInv'
    <2> DEFINE r == Away
    <2>1. relay' = [relay EXCEPT ![c] = r]
        BY <1>2 DEF Ends
    <2>z. 0 \in Targets /\ 0 = AtMostOf(0, MAX_CLIENT_HELLO)
        BY <1>c DEF Targets, AtMostOf
    <2>2. r \in RelayType /\ r.at = "away" /\ r.buf = AtMostOf(r.read, MAX_CLIENT_HELLO)
        BY <1>a, <1>c, <2>z DEF RelayType, Away
    <2>3. /\ rr_counter' \in [Pools -> Targets] /\ UNCHANGED <<strategy, protocol, udpVars>>
        BY <1>2, <1>a DEF Ends
    <2> HIDE DEF r
    <2>4. \A p \in Pools, t \in Targets : ~Holds(r, p, t)
        BY <2>2 DEF Holds
    <2>5. CASE protocol = "websocket"
        <3>1. \A p \in Pools, t \in Targets : Holds(r, p, t) <=> Holds(relay[c], p, t)
            BY <2>4, <2>5 DEF Holds
        <3>2. in_flight' = in_flight
            BY <1>2, <2>5 DEF Ends
        <3> QED BY <2>1, <2>2, <2>3, <3>1, <3>2, RelayKeeps
    <2>6. CASE protocol # "websocket"
        <3>1. in_flight' = [in_flight EXCEPT ![relay[c].pool][relay[c].target] = @ + (-1)]
            BY <1>2, <1>a, <1>p, <2>6 DEF Ends, Drop
        <3>2. /\ in_flight' \in [Pools -> [Targets -> Int]]
              /\ \A q \in Pools, u \in Targets :
                    in_flight'[q][u] = in_flight[q][u]
                        + (IF q = relay[c].pool /\ u = relay[c].target THEN -1 ELSE 0)
            BY <1>a, <1>p, <3>1, PlaceMoves
        <3>3. \A p \in Pools, t \in Targets :
                in_flight'[p][t] = in_flight[p][t]
                    + One(Holds(r, p, t)) - One(Holds(relay[c], p, t))
            <4> TAKE p \in Pools, t \in Targets
            <4>1. /\ in_flight[p][t] \in Int
                  /\ in_flight'[p][t] = in_flight[p][t]
                        + (IF p = relay[c].pool /\ t = relay[c].target THEN -1 ELSE 0)
                BY <1>a, <3>2
            <4>2. Holds(relay[c], p, t) <=> p = relay[c].pool /\ t = relay[c].target
                BY <1>2, <2>6 DEF Holds
            <4>3. ~Holds(r, p, t)
                BY <2>4
            <4> QED BY <4>1, <4>2, <4>3 DEF One
        <3> QED BY <2>1, <2>2, <2>3, <3>2, <3>3, RelayStep
    <2> QED BY <2>5, <2>6
<1>3. ASSUME Moves(c, "relaying"), relay[c].at = "connecting",
             UNCHANGED <<balancerVars, protocol, stopping, udpVars>>
      PROVE  StreamInv'
    <2> DEFINE r == [relay[c] EXCEPT !.at = "relaying"]
    <2>1. relay' = [relay EXCEPT ![c] = r]
        BY <1>3, <1>r DEF Moves
    <2>2. /\ r \in RelayType /\ r.at = "relaying" /\ r.buf = AtMostOf(r.read, MAX_CLIENT_HELLO)
          /\ r.pool = relay[c].pool /\ r.target = relay[c].target
        BY <1>r, <1>k DEF RelayType
    <2> HIDE DEF r
    <2>3. \A p \in Pools, t \in Targets : Holds(r, p, t) <=> Holds(relay[c], p, t)
        BY <1>3, <2>2 DEF Holds
    <2>4. rr_counter' \in [Pools -> Targets] /\ UNCHANGED <<strategy, in_flight, protocol, udpVars>>
        BY <1>3, <1>a DEF balancerVars
    <2> QED BY <2>1, <2>2, <2>3, <2>4, RelayKeeps
<1> QED BY <1>1, <1>2, <1>3 DEF Connect, RoundTrip, proxy_upgrade, Closes

-----------------------------------------------------------------------------
(* The UDP listener. *)

\* A session of p and t is being set up.
Creating(p, t) == p = "default" /\ loop.at = "creating" /\ loop.target = t

\* The receive loop or a reader takes a step, and the counters follow the
\* sessions.
LEMMA UdpStep ==
    ASSUME StreamInv, UNCHANGED <<strategy, protocol, relay>>,
           rr_counter' \in [Pools -> Targets],
           in_flight' \in [Pools -> [Targets -> Int]],
           session' \in [Clients -> SessionType], loop' \in LoopType,
           DOMAIN reader' = Clients, NewClient',
           \A p \in Pools, t \in Targets :
               in_flight'[p][t] = in_flight[p][t]
                   + (Cardinality(Sessions(p, t)') - Cardinality(Sessions(p, t)))
                   + One(Creating(p, t)') - One(Creating(p, t))
    PROVE  StreamInv'
<1> USE DEF StreamInv
<1>1. StreamTypeOK'
    BY DEF StreamTypeOK
<1>2. HelloKept'
    BY DEF HelloKept, AtMostOf
<1>3. InFlightIsExact'
    <2> SUFFICES ASSUME NEW p \in Pools, NEW t \in Targets
                 PROVE  in_flight'[p][t] = Cardinality(Relays(p, t)') + Cardinality(Sessions(p, t)')
                          + (IF p = "default" /\ loop'.at = "creating" /\ loop'.target = t THEN 1 ELSE 0)
        BY DEF InFlightIsExact
    <2>1. Relays(p, t)' = Relays(p, t)
        BY DEF Relays
    <2>2. Sessions(p, t)' \subseteq Clients /\ IsFiniteSet(Clients)
        BY StreamAssumption DEF Sessions
    <2>3. /\ Cardinality(Relays(p, t)) \in Nat /\ Cardinality(Sessions(p, t)) \in Nat
          /\ Cardinality(Sessions(p, t)') \in Nat
        BY <2>2, HoldersFinite, FS_Subset, FS_CardinalityType
    <2>4. in_flight[p][t] = Cardinality(Relays(p, t)) + Cardinality(Sessions(p, t)) + One(Creating(p, t))
        BY DEF InFlightIsExact, One, Creating
    <2>5. in_flight'[p][t] = in_flight[p][t]
              + (Cardinality(Sessions(p, t)') - Cardinality(Sessions(p, t)))
              + One(Creating(p, t)') - One(Creating(p, t))
        OBVIOUS
    <2>6. One(Creating(p, t)') \in Int /\ One(Creating(p, t)) \in Int
        BY DEF One
    <2>7. in_flight'[p][t] = Cardinality(Relays(p, t)') + Cardinality(Sessions(p, t)') + One(Creating(p, t)')
        BY <2>1, <2>3, <2>4, <2>5, <2>6
    <2> QED BY <2>7 DEF One, Creating
<1> QED BY <1>1, <1>2, <1>3

\* A step that opens, closes and sets up no session.
LEMMA UdpKeeps ==
    ASSUME StreamInv, UNCHANGED <<balancerVars, protocol, relay>>,
           session' \in [Clients -> SessionType], loop' \in LoopType,
           \A c \in Clients : session'[c].open = session[c].open /\ session'[c].target = session[c].target,
           loop'.at = loop.at, loop'.target = loop.target, loop'.client = loop.client,
           DOMAIN reader' = Clients
    PROVE  StreamInv'
<1>1. NewClient'
    BY DEF StreamInv, NewClient
<1>2. UNCHANGED <<strategy, rr_counter, in_flight>>
    BY DEF balancerVars
<1>3. /\ rr_counter' \in [Pools -> Targets] /\ in_flight' \in [Pools -> [Targets -> Int]]
    BY <1>2 DEF StreamInv, StreamTypeOK
<1>4. \A p \in Pools, t \in Targets :
          in_flight'[p][t] = in_flight[p][t]
              + (Cardinality(Sessions(p, t)') - Cardinality(Sessions(p, t)))
              + One(Creating(p, t)') - One(Creating(p, t))
    <2> TAKE p \in Pools, t \in Targets
    <2>1. Sessions(p, t)' = Sessions(p, t)
        BY DEF Sessions
    <2>2. One(Creating(p, t)') = One(Creating(p, t)) /\ One(Creating(p, t)) \in Int
        BY DEF One, Creating
    <2>3. in_flight[p][t] \in Int /\ Cardinality(Sessions(p, t)) \in Nat
        BY <1>2, <1>3, HoldersFinite
    <2> QED BY <1>2, <2>1, <2>2, <2>3
<1> QED BY <1>1, <1>2, <1>3, <1>4, UdpStep

\* What is taken off the counters when sessions are dropped together.
LEMMA PlacesReleased ==
    ASSUME StreamTypeOK, NEW dead \in SUBSET Clients
    PROVE  /\ Released(in_flight, dead) \in [Pools -> [Targets -> Int]]
           /\ \A p \in Pools, t \in Targets :
                 Released(in_flight, dead)[p][t] = in_flight[p][t]
                    - (IF p = "default" THEN Cardinality({c \in dead : session[c].target = t}) ELSE 0)
<1>1. ASSUME NEW t \in Targets
      PROVE  Cardinality({c \in dead : session[c].target = t}) \in Nat
    BY StreamAssumption, FS_Subset, FS_CardinalityType
<1> DEFINE n(t) == Cardinality({c \in dead : session[c].target = t})
<1>2. Released(in_flight, dead) =
          [in_flight EXCEPT !["default"] = [t \in Targets |-> in_flight["default"][t] - n(t)]]
    BY StreamAssumption DEF Released, StreamTypeOK
<1>3. \A t \in Targets : n(t) \in Nat
    BY <1>1
<1> HIDE DEF n
<1>4. in_flight \in [Pools -> [Targets -> Int]] /\ "default" \in Pools
    BY StreamAssumption DEF StreamTypeOK
<1>5. Released(in_flight, dead) \in [Pools -> [Targets -> Int]]
    BY <1>2, <1>3, <1>4
<1>6. \A p \in Pools, t \in Targets :
          Released(in_flight, dead)[p][t] = in_flight[p][t] - (IF p = "default" THEN n(t) ELSE 0)
    BY <1>2, <1>3, <1>4
<1> QED BY <1>5, <1>6 DEF n

\* Sessions that hold a place are dropped while none is being set up.
LEMMA DropStep ==
    ASSUME StreamInv, UNCHANGED <<strategy, rr_counter, protocol, relay, reader>>,
           NEW dead \in SUBSET Clients, \A c \in dead : session[c].open,
           session' \in [Clients -> SessionType],
           \A c \in Clients : session'[c].open <=> c \notin dead /\ session[c].open,
           \A c \in Clients \ dead : session[c].open => session'[c].target = session[c].target,
           in_flight' = Released(in_flight, dead),
           loop' \in LoopType, loop.at # "creating", loop'.at # "creating"
    PROVE  StreamInv'
<1>1. NewClient' /\ StreamTypeOK
    BY DEF StreamInv, NewClient
<1>2. rr_counter' \in [Pools -> Targets] /\ DOMAIN reader' = Clients
    BY DEF StreamInv, StreamTypeOK
<1>3. in_flight' \in [Pools -> [Targets -> Int]]
    BY <1>1, PlacesReleased
<1>4. \A p \in Pools, t \in Targets :
          in_flight'[p][t] = in_flight[p][t]
              + (Cardinality(Sessions(p, t)') - Cardinality(Sessions(p, t)))
              + One(Creating(p, t)') - One(Creating(p, t))
    <2> TAKE p \in Pools, t \in Targets
    <2> DEFINE D == Cardinality({c \in dead : session[c].target = t})
    <2>1. /\ D \in Nat
          /\ Cardinality(Sessions(p, t)') = Cardinality(Sessions(p, t)) - (IF p = "default" THEN D ELSE 0)
        BY <1>1, SessionsDropped
    <2>2. in_flight'[p][t] = in_flight[p][t] - (IF p = "default" THEN D ELSE 0)
        BY <1>1, PlacesReleased
    <2> HIDE DEF D
    <2>3. One(Creating(p, t)') = 0 /\ One(Creating(p, t)) = 0
        BY DEF One, Creating
    <2>4. in_flight[p][t] \in Int /\ Cardinality(Sessions(p, t)) \in Nat
        BY <1>1, HoldersFinite DEF StreamTypeOK
    <2> QED BY <2>1, <2>2, <2>3, <2>4
<1> QED BY <1>1, <1>2, <1>3, <1>4, UdpStep

\* A datagram of a client without a session: the place of the dead one, if
\* any, is given back and a new one is taken.
LEMMA OpenStep ==
    ASSUME StreamInv, NEW c \in Clients, Open(c)
    PROVE  StreamInv'
<1> DEFINE dead   == {c} \cap Dead
           counts == Released(in_flight, dead)["default"]
           loads  == [i \in 1..target_count |-> counts[i - 1]]
           t      == select("default", c, loads)
           D(u)   == Cardinality({d \in dead : session[d].target = u})
<1>1. /\ StreamTypeOK /\ "default" \in Pools /\ target_count \in Nat \ {0}
      /\ in_flight \in [Pools -> [Targets -> Int]] /\ session \in [Clients -> SessionType]
    BY StreamAssumption DEF StreamInv, StreamTypeOK
<1>2. /\ loop.at = "select" /\ ~session[c].alive
      /\ in_flight' = [in_flight EXCEPT !["default"] = [counts EXCEPT ![t] = @ + 1]]
      /\ loop' = [at |-> "creating", client |-> c, target |-> t, age |-> 0]
      /\ session' = WithoutDead(session, {c}) /\ CountSelect("default")
      /\ UNCHANGED <<strategy, protocol, relay, reader>>
    BY DEF Open
<1>3. dead \in SUBSET Clients /\ \A d \in dead : session[d].open
    BY DEF Dead
<1>4. NoSession \in SessionType /\ ~NoSession.open
    BY <1>1 DEF NoSession, SessionType, Targets
<1>5. /\ session' \in [Clients -> SessionType] /\ ~session'[c].open
      /\ \A d \in Clients : session'[d].open <=> d \notin dead /\ session[d].open
      /\ \A d \in Clients \ dead : session[d].open => session'[d].target = session[d].target
    BY <1>1, <1>2, <1>4 DEF WithoutDead, Dead, SessionType
<1>6. counts \in [Targets -> Int] /\ \A u \in Targets : counts[u] = in_flight["default"][u] - D(u)
    BY <1>1, <1>3, PlacesReleased
<1>7. ASSUME NEW p \in Pools, NEW u \in Targets
      PROVE  /\ D(u) \in Nat
             /\ Cardinality(Sessions(p, u)') = Cardinality(Sessions(p, u)) - (IF p = "default" THEN D(u) ELSE 0)
             /\ Cardinality(Sessions(p, u)') \in Nat
    <2>1. Sessions(p, u)' \subseteq Clients /\ IsFiniteSet(Clients)
        BY StreamAssumption DEF Sessions
    <2>2. Cardinality(Sessions(p, u)') \in Nat
        BY <2>1, FS_Subset, FS_CardinalityType
    <2> QED BY <1>1, <1>3, <1>5, <2>2, SessionsDropped
<1>8. ASSUME NEW u \in Targets PROVE counts[u] \in Nat
    <2>1. in_flight["default"][u] = Cardinality(Relays("default", u)) + Cardinality(Sessions("default", u))
        BY <1>1, <1>2, HoldersFinite DEF StreamInv, InFlightIsExact
    <2>2. Cardinality(Relays("default", u)) \in Nat /\ Cardinality(Sessions("default", u)) \in Nat
        BY HoldersFinite
    <2>3. counts[u] = in_flight["default"][u] - D(u)
        BY <1>6
    <2>4. D(u) \in Nat /\ Cardinality(Sessions("default", u)) - D(u) \in Nat
        BY <1>1, <1>7
    <2> HIDE DEF D, counts
    <2> QED BY <2>1, <2>2, <2>3, <2>4
<1>9. loads \in [1..target_count -> Nat]
    <2>1. \A i \in 1..target_count : i - 1 \in Targets
        BY <1>1 DEF Targets
    <2> HIDE DEF counts
    <2> QED BY <1>8, <2>1
<1> HIDE DEF loads
<1>10. t \in Targets
    BY <1>1, <1>9, SelectInPool
<1> HIDE DEF t, counts
<1>11. rr_counter' \in [Pools -> Targets] /\ DOMAIN reader' = Clients
    BY <1>1, <1>2, CounterWraps DEF StreamTypeOK
<1>12. /\ loop' \in LoopType /\ loop'.at = "creating" /\ loop'.target = t /\ loop'.client = c
    BY <1>2, <1>10 DEF LoopType
<1>13. NewClient'
    BY <1>5, <1>12 DEF NewClient
<1>14. in_flight' \in [Pools -> [Targets -> Int]]
    BY <1>1, <1>2, <1>6, <1>10
<1>15. ASSUME NEW p \in Pools, NEW u \in Targets
       PROVE  in_flight'[p][u] = in_flight[p][u]
                  + (Cardinality(Sessions(p, u)') - Cardinality(Sessions(p, u)))
                  + One(Creating(p, u)') - One(Creating(p, u))
    <2>1. One(Creating(p, u)) = 0 /\ One(Creating(p, u)') = (IF p = "default" /\ u = t THEN 1 ELSE 0)
        BY <1>2, <1>12 DEF One, Creating
    <2>2. /\ D(u) \in Nat /\ in_flight[p][u] \in Int /\ Cardinality(Sessions(p, u)) \in Nat
          /\ Cardinality(Sessions(p, u)') = Cardinality(Sessions(p, u)) - (IF p = "default" THEN D(u) ELSE 0)
        BY <1>1, <1>7, HoldersFinite
    <2>3. in_flight'[p][u] =
              IF p = "default" THEN counts[u] + (IF u = t THEN 1 ELSE 0) ELSE in_flight[p][u]
        BY <1>1, <1>2, <1>6, <1>10
    <2>4. counts[u] = in_flight["default"][u] - D(u)
        BY <1>6
    <2> HIDE DEF D
    <2> QED BY <2>1, <2>2, <2>3, <2>4
<1> QED BY <1>2, <1>5, <1>11, <1>12, <1>13, <1>14, <1>15, UdpStep

\* The session is set up, or it fails and its place is given back.
LEMMA CreateStep ==
    ASSUME StreamInv, create_session \/ CreateFails
    PROVE  StreamInv'
<1>1. /\ StreamTypeOK /\ "default" \in Pools /\ 0 \in Targets
      /\ in_flight \in [Pools -> [Targets -> Int]] /\ session \in [Clients -> SessionType]
      /\ loop \in LoopType /\ loop.at = "creating" /\ rr_counter \in [Pools -> Targets]
      /\ DOMAIN reader = Clients
    BY StreamAssumption DEF StreamInv, StreamTypeOK, create_session, CreateFails, Targets
<1>2. loop.client \in Clients /\ ~session[loop.client].open /\ loop.target \in Targets
    BY <1>1 DEF StreamInv, NewClient, LoopType
<1>3. Selecting \in LoopType /\ Selecting.at = "select"
    BY <1>1 DEF Selecting, LoopType
<1>4. ASSUME NEW p \in Pools, NEW t \in Targets, loop' = Selecting
      PROVE  /\ One(Creating(p, t)') = 0
             /\ One(Creating(p, t)) = (IF p = "default" /\ loop.target = t THEN 1 ELSE 0)
             /\ in_flight[p][t] \in Int /\ Cardinality(Sessions(p, t)) \in Nat
    BY <1>1, <1>3, <1>4, HoldersFinite DEF One, Creating
<1>5. CASE create_session
    <2> DEFINE s == [target |-> loop.target, alive |-> TRUE, open |-> TRUE]
    <2>1. /\ session' = [session EXCEPT ![loop.client] = s] /\ loop' = Selecting
          /\ DOMAIN reader' = Clients
          /\ UNCHANGED <<strategy, rr_counter, in_flight, protocol, relay>>
        BY <1>1, <1>5 DEF create_session, balancerVars
    <2>2. s \in SessionType
        BY <1>2 DEF SessionType
    <2>3. session' \in [Clients -> SessionType] /\ loop' \in LoopType /\ NewClient'
        BY <1>1, <1>3, <2>1, <2>2 DEF NewClient
    <2>4. ASSUME NEW p \in Pools, NEW t \in Targets
          PROVE  in_flight'[p][t] = in_flight[p][t]
                     + (Cardinality(Sessions(p, t)') - Cardinality(Sessions(p, t)))
                     + One(Creating(p, t)') - One(Creating(p, t))
        <3>1. Cardinality(Sessions(p, t)') = Cardinality(Sessions(p, t))
                 + One(p = "default" /\ s.open /\ s.target = t)
                 - One(p = "default" /\ session[loop.client].open /\ session[loop.client].target = t)
            <4>1. StreamTypeOK /\ loop.client \in Clients /\ s \in SessionType
                  /\ session' = [session EXCEPT ![loop.client] = s]
                BY <1>1, <1>2, <2>1, <2>2
            <4> HIDE DEF s
            <4> QED BY <4>1, SessionMoves
        <3>2. /\ One(p = "default" /\ s.open /\ s.target = t) = (IF p = "default" /\ loop.target = t THEN 1 ELSE 0)
              /\ One(p = "default" /\ session[loop.client].open /\ session[loop.client].target = t) = 0
            BY <1>2 DEF One
        <3> HIDE DEF s
        <3> QED BY <1>4, <2>1, <3>1, <3>2
    <2> QED BY <1>1, <2>1, <2>3, <2>4, UdpStep
<1>6. CASE CreateFails
    <2>1. /\ in_flight' = [in_flight EXCEPT !["default"][loop.target] = @ + (-1)]
          /\ loop' = Selecting /\ UNCHANGED <<strategy, rr_counter, protocol, relay, session, reader>>
        BY <1>1, <1>2, <1>6 DEF CreateFails, Drop
    <2>2. /\ in_flight' \in [Pools -> [Targets -> Int]]
          /\ \A q \in Pools, u \in Targets :
                in_flight'[q][u] = in_flight[q][u]
                    + (IF q = "default" /\ u = loop.target THEN -1 ELSE 0)
        BY <1>1, <1>2, <2>1, PlaceMoves
    <2>3. loop' \in LoopType /\ NewClient' /\ session' \in [Clients -> SessionType]
        BY <1>1, <1>3, <2>1 DEF NewClient
    <2>4. ASSUME NEW p \in Pools, NEW t \in Targets
          PROVE  in_flight'[p][t] = in_flight[p][t]
                     + (Cardinality(Sessions(p, t)') - Cardinality(Sessions(p, t)))
                     + One(Creating(p, t)') - One(Creating(p, t))
        <3>1. Sessions(p, t)' = Sessions(p, t)
            BY <2>1 DEF Sessions
        <3> QED BY <1>4, <2>1, <2>2, <3>1
    <2> QED BY <1>1, <2>1, <2>2, <2>3, <2>4, UdpStep
<1> QED BY <1>5, <1>6

\* The prune tick and the shutdown give back the places of what they drop.
LEMMA CloseStep ==
    ASSUME StreamInv, Prune \/ Shutdown
    PROVE  StreamInv'
<1>1. session \in [Clients -> SessionType] /\ loop \in LoopType
    BY DEF StreamInv, StreamTypeOK
<1>2. NoSession \in SessionType /\ ~NoSession.open
    BY StreamAssumption DEF NoSession, SessionType, Targets
<1>3. CASE Prune
    <2>1. Dead \in SUBSET Clients /\ \A c \in Dead : session[c].open
        BY DEF Dead
    <2>2. /\ session' = WithoutDead(session, Dead) /\ in_flight' = Released(in_flight, Dead)
          /\ loop.at = "select" /\ loop' = loop
          /\ UNCHANGED <<strategy, rr_counter, protocol, relay, reader>>
        BY <1>3 DEF Prune
    <2> HIDE DEF Dead
    <2>3. /\ session' \in [Clients -> SessionType]
          /\ \A c \in Clients : session'[c].open <=> c \notin Dead /\ session[c].open
          /\ \A c \in Clients \ Dead : session'[c].target = session[c].target
        BY <1>1, <1>2, <2>1, <2>2 DEF WithoutDead, SessionType
    <2> QED BY <1>1, <2>1, <2>2, <2>3, DropStep
<1>4. CASE Shutdown
    <2> DEFINE all == {c \in Clients : session[c].open}
    <2>1. all \in SUBSET Clients /\ \A c \in all : session[c].open
        OBVIOUS
    <2>2. /\ session' = [c \in Clients |-> NoSession] /\ in_flight' = Released(in_flight, all)
          /\ loop.at = "select" /\ loop' = [loop EXCEPT !.at = "stopped"]
          /\ UNCHANGED <<strategy, rr_counter, protocol, relay, reader>>
        BY <1>4 DEF Shutdown
    <2>3. loop' \in LoopType /\ loop'.at = "stopped"
        BY <1>1, <2>2 DEF LoopType
    <2>4. /\ session' \in [Clients -> SessionType]
          /\ \A c \in Clients : session'[c].open <=> c \notin all /\ session[c].open
          /\ \A c \in Clients \ all : session[c].open => session'[c].target = session[c].target
        BY <1>1, <1>2, <2>1, <2>2 DEF SessionType
    <2> HIDE DEF all
    <2> QED BY <2>1, <2>2, <2>3, <2>4, DropStep
<1> QED BY <1>3, <1>4

\* A reader, a datagram on a session that is there and the clock open and
\* close nothing.
LEMMA ReaderStep ==
    ASSUME StreamInv,
           \/ \E c \in Clients : Forward(c) \/ Reader(c)
           \/ StreamTick
    PROVE  StreamInv'
<1>1. /\ session \in [Clients -> SessionType] /\ loop \in LoopType /\ DOMAIN reader = Clients
    BY DEF StreamInv, StreamTypeOK
<1>2. ASSUME NEW c \in Clients, Forward(c) \/ Reply(c) \/ ReaderFails(c) \/ ReaderTimeout(c)
      PROVE  StreamInv'
    <2>1. UNCHANGED <<balancerVars, protocol, relay, session, loop>> /\ DOMAIN reader' = Clients
        BY <1>1, <1>2 DEF Forward, Reply, ReaderFails, ReaderTimeout
    <2> QED BY <1>1, <2>1, UdpKeeps
<1>3. ASSUME NEW c \in Clients, Leave(c)
      PROVE  StreamInv'
    <2>1. /\ UNCHANGED <<balancerVars, protocol, relay, loop>> /\ DOMAIN reader' = Clients
          /\ session' = [session EXCEPT ![c].alive = FALSE]
        BY <1>1, <1>3 DEF Leave
    <2>2. /\ session' \in [Clients -> SessionType]
          /\ \A d \in Clients : session'[d].open = session[d].open /\ session'[d].target = session[d].target
        BY <1>1, <2>1 DEF SessionType
    <2> QED BY <1>1, <2>1, <2>2, UdpKeeps
<1>4. CASE StreamTick
    <2>1. /\ UNCHANGED <<balancerVars, protocol, relay, session, reader>>
          /\ loop' = IF loop.at = "creating" THEN [loop EXCEPT !.age = Sooner(@)] ELSE loop
        BY <1>4 DEF StreamTick
    <2>2. Sooner(loop.age) \in Nat
        BY <1>1, StreamAssumption DEF Sooner, AtMostOf, LoopType
    <2>3. /\ loop' \in LoopType
          /\ loop'.at = loop.at /\ loop'.target = loop.target /\ loop'.client = loop.client
        BY <1>1, <2>1, <2>2 DEF LoopType
    <2> QED BY <1>1, <2>1, <2>3, UdpKeeps
<1> QED BY <1>2, <1>3, <1>4 DEF Reader

\* The relays, the receive loop, the readers and the clock keep the invariant.
LEMMA StreamStep == StreamInv /\ [StreamNext]_streamVars => StreamInv'
<1> SUFFICES ASSUME StreamInv, [StreamNext]_streamVars PROVE StreamInv'
    OBVIOUS
<1>1. ASSUME NEW c \in Clients, Relay(c) PROVE StreamInv'
    BY <1>1, SearchStep, PlaceStep DEF Relay
<1>2. ASSUME NEW c \in Clients, Open(c) PROVE StreamInv'
    BY <1>2, OpenStep
<1>3. ASSUME NEW c \in Clients, Forward(c) \/ Reader(c) PROVE StreamInv'
    BY <1>3, ReaderStep
<1>4. CASE create_session \/ CreateFails \/ Prune \/ Shutdown \/ StreamTick
    BY <1>4, CreateStep, CloseStep, ReaderStep
<1>5. CASE UNCHANGED streamVars
    <2>1. /\ UNCHANGED <<balancerVars, protocol, relay, session, loop>> /\ reader' = reader
        BY <1>5 DEF streamVars, udpVars
    <2> QED BY <2>1, UdpKeeps DEF StreamInv, StreamTypeOK
<1> QED BY <1>1, <1>2, <1>3, <1>4, <1>5 DEF StreamNext

LEMMA StreamBegins == StreamInit => StreamInv
<1> SUFFICES ASSUME StreamInit PROVE StreamInv
    OBVIOUS
<1>1. 0 \in Targets /\ "default" \in Pools /\ << >> \in Seq(Nat)
    BY StreamAssumption DEF Targets
<1>2. /\ Away \in RelayType /\ Away.at = "away" /\ Away.buf = AtMostOf(Away.read, MAX_CLIENT_HELLO)
    <2>1. 0 = AtMostOf(0, MAX_CLIENT_HELLO)
        BY StreamAssumption DEF AtMostOf
    <2> QED BY <1>1, <2>1 DEF Away, RelayType
<1>3. NoSession \in SessionType /\ ~NoSession.open
    BY <1>1 DEF NoSession, SessionType
<1>4. Selecting \in LoopType /\ Selecting.at = "select"
    BY <1>1 DEF Selecting, LoopType
<1>5. StreamTypeOK
    BY <1>1, <1>2, <1>3, <1>4, StreamAssumption DEF StreamInit, BalancerInit, StreamTypeOK
<1>6. HelloKept /\ NewClient
    BY <1>2, <1>4 DEF StreamInit, HelloKept, NewClient
<1>7. InFlightIsExact
    <2> SUFFICES ASSUME NEW p \in Pools, NEW t \in Targets
                 PROVE  in_flight[p][t] = Cardinality(Relays(p, t)) + Cardinality(Sessions(p, t))
                          + (IF p = "default" /\ loop.at = "creating" /\ loop.target = t THEN 1 ELSE 0)
        BY DEF InFlightIsExact
    <2>1. Relays(p, t) = {} /\ Sessions(p, t) = {}
        BY <1>2, <1>3 DEF StreamInit, Relays, Sessions
    <2>2. in_flight[p][t] = 0 /\ loop.at = "select"
        BY <1>4 DEF StreamInit, BalancerInit
    <2> QED BY <2>1, <2>2, FS_EmptySet
<1> QED BY <1>5, <1>6, <1>7 DEF StreamInv

\* Every target that a relay or a session is given is one of its pool's,
\* whatever the strategy; its counter is that of the holders that are there;
\* and the buffer of every relay is what was read, up to the cap.
THEOREM StreamInvAlways == StreamSpec => []StreamInv
BY StreamBegins, StreamStep, PTL DEF StreamSpec

\* A relay starts with all that was read to find the SNI: what fits under the
\* cap is kept on every way out of the search, through selection and connect.
LEMMA KeptIsReplayed == StreamInv => HelloIsReplayed
BY DEF StreamInv, StreamTypeOK, RelayType, HelloKept, HelloIsReplayed, AtMostOf

-----------------------------------------------------------------------------
(* The whole. *)

\* The listener that is looked at runs as it does alone, the other stands
\* still.
THEOREM PlaneImplements == PlaneSpec => Spec /\ StreamSpec
<1>1. PlaneInit => Init /\ StreamInit
    BY DEF PlaneInit
<1>2. [PlaneNext]_planeVars => [Next]_vars /\ [StreamNext]_streamVars
    BY DEF PlaneNext, ByPolicy, ByPool, planeVars
<1> QED BY <1>1, <1>2, PTL DEF PlaneSpec, Spec, StreamSpec

\* In-flight counters are exact: a target's counter is the number of relays,
\* round trips and sessions that hold a place there.
THEOREM InFlightAlways == PlaneSpec => []InFlightIsExact
<1>1. StreamInv => InFlightIsExact
    BY DEF StreamInv
<1> QED BY <1>1, PlaneImplements, StreamInvAlways, PTL

\* What was read to find the SNI is replayed to the target.
THEOREM HelloAlways == PlaneSpec => []HelloIsReplayed
BY KeptIsReplayed, PlaneImplements, StreamInvAlways, PTL

\* The guards of a policy keep their promises beside the pools.
THEOREM GuardsAlways ==
    PlaneSpec => [](NeverOverCeiling /\ CounterIsExact /\ RestsAfterTrip
                    /\ FreshEntryKept /\ RatesBounded)
BY PlaneImplements, PathCeilingAlways, PathCounterAlways, RestAlways, FreshEntryAlways, RatesAlways, PTL
=============================================================================
