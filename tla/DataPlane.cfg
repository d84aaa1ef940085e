\* Three requests, room for two; every guard on its own, a breaker inside a
\* connection limit, a cache.  Or two clients and two targets.
CONSTANTS
    Requests = {"r1", "r2", "r3"}
    conn = 1
    burst = 1
    MaxLeaked = 1
    unhealthy_threshold = 2
    healthy_threshold = 2
    break_base_sec = 1
    max_breaker_sec = 3
    MaxRound = 2
    Closed = Closed
    count = 2
    time_window = 3
    cost = 2
    capacity = 3
    refill = 1
    Instances = {"b1", "b2"}
    FirstInstance = "b1"
    MaxRecompiles = 1
    cache_ttl = 2
    cache_methods = {"r1", "r2"}
    cache_statuses = {"healthy", "other"}
    NoEntry = NoEntry
    Chains <- MCChains
    Pools = {"default", "named"}
    target_count = 2
    Strategies = {"round_robin", "least_connections", "ip_hash"}
    IpHash <- MCIpHash
    Clients = {"c1", "c2"}
    Protocols = {"tcp", "sni", "upstream", "websocket", "udp"}
    MAX_CLIENT_HELLO = 2
    MaxRead = 2
    MaxSent = 3
    idle_timeout = 2
SPECIFICATION PlaneSpec
INVARIANTS NeverOverCeiling CounterIsExact RestsAfterTrip RatesBounded FreshEntryKept InFlightIsExact HelloIsReplayed
PROPERTIES BreakerRecovers SessionsTurnOver
