----------------------------- MODULE ProxyCache -----------------------------
(***************************************************************************)
(* proxy-cache: a lookup node before the upstream and a store node after   *)
(* it share one entry per key.  A lookup that finds the entry expired lets *)
(* go of it before it removes the key, so that the two are separate steps. *)
(***************************************************************************)
EXTENDS Integers

CONSTANTS
    cache_ttl,         \* in ticks
    cache_methods,     \* the requests whose method is cacheable
    cache_statuses,
    NoEntry            \* the key is not in the map

ASSUME CacheAssumption ==
    /\ cache_ttl \in Nat \ {0}
    /\ NoEntry \notin [status : cache_statuses, age : 0..cache_ttl]

VARIABLES
    entry,     \* the entry of the key, with its age in ticks (saturated)
    expired,   \* the lookups that have found it expired and not removed it yet
    newest,    \* history: the last entry stored
    rivals     \* history: the lookups that were in expired when it was stored

cacheVars == <<entry, expired, newest, rivals>>

CacheInit ==
    /\ entry = NoEntry /\ newest = NoEntry
    /\ expired = {} /\ rivals = {}

Fresh(e) == e # NoEntry /\ e.age < cache_ttl

\* Hit: the entry is cloned under its lock.
Hit(r) == r \notin expired /\ Fresh(entry) /\ UNCHANGED cacheVars

Miss(r) == r \notin expired /\ entry = NoEntry /\ UNCHANGED cacheVars

FindExpired(r) ==
    /\ r \notin expired /\ entry # NoEntry /\ ~Fresh(entry)
    /\ expired' = expired \cup {r}
    /\ UNCHANGED <<entry, newest, rivals>>

\* The key is removed, whatever it holds by now.
RemoveExpired(r) ==
    /\ r \in expired
    /\ expired' = expired \ {r}
    /\ entry' = NoEntry
    /\ UNCHANGED <<newest, rivals>>

\* Mutant: an entry that is there is kept.
PutIfAbsent(status) ==
    /\ newest' = [status |-> status, age |-> 0]
    /\ entry' = IF entry = NoEntry THEN newest' ELSE entry
    /\ rivals' = expired
    /\ UNCHANGED expired

put(status) ==
    /\ newest' = [status |-> status, age |-> 0]
    /\ entry' = newest'
    /\ rivals' = expired
    /\ UNCHANGED expired

Older(e) ==
    IF Fresh(e) THEN [e EXCEPT !.age = @ + 1] ELSE e

CacheTick ==
    /\ entry' = Older(entry) /\ newest' = Older(newest)
    /\ UNCHANGED <<expired, rivals>>

-----------------------------------------------------------------------------
\* What was stored last is there until its time is up.  The one way to lose it
\* sooner is a lookup that had found its predecessor expired before it was
\* stored, and removes the key after: it costs a miss, and only then.
FreshEntryKept ==
    Fresh(newest) /\ entry # newest => entry = NoEntry /\ rivals \ expired # {}
=============================================================================
