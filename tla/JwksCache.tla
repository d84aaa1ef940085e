----------------------------- MODULE JwksCache -----------------------------
(***************************************************************************)
(* openid-connect's check of a signed token: the key set is fetched from   *)
(* the provider, kept for jwk_ttl behind a mutex, and fetched once more    *)
(* when the token names a key it does not hold.  Meanwhile the provider    *)
(* publishes and withdraws keys.                                           *)
(*                                                                         *)
(* The provider and the clock are external; time is a tick.  What a        *)
(* signature is, and which claims are checked, is left out: a token is the *)
(* key that signed it, and its claims will do or will not.                 *)
(***************************************************************************)
EXTENDS Naturals, FiniteSets

CONSTANTS
    Reqs,       \* requests that carry a token
    Keys,       \* the provider's signing keys
    jwk_ttl,    \* in ticks
    timeout,    \* of the call to the provider, in ticks
    FirstKey,   \* the one it begins with
    None

ASSUME JwksAssumption ==
    /\ jwk_ttl \in Nat /\ timeout \in Nat
    /\ FirstKey \in Keys /\ None \notin Reqs /\ None \notin Keys

VARIABLES
    key,        \* external: each key is "new", "published" or "withdrawn"
    gone,       \* for how many ticks it has been withdrawn
    cache,      \* jwks_cache: a set of keys and its age, or None
    holder,     \* who has the cache's mutex
    waited,     \* for how many ticks the call in progress has lasted
    req         \* the requests in validate_via_jwks

jwksVars == <<key, gone, cache, holder, waited, req>>

published == {k \in Keys : key[k] = "published"}

\* A request: where it is, the key that signed its token, whether the token
\* names the key and has the claims asked for, whether the second fetch is under
\* way, what a call returned,
\* and (history) whether the key has been published all the time and for how long
\* it was withdrawn when the token was accepted.
Idle == [pc |-> "idle", signer |-> None, named |-> FALSE, claims |-> FALSE,
         forced |-> FALSE, keys |-> {}, held |-> FALSE, late |-> 0]

MaxGone == jwk_ttl + timeout + 1

JwksInit ==
    /\ key = [k \in Keys |-> IF k = FirstKey THEN "published" ELSE "new"]
    /\ gone = [k \in Keys |-> 0]
    /\ cache = None /\ holder = None /\ waited = 0
    /\ req = [q \in Reqs |-> Idle]

-----------------------------------------------------------------------------
(* The provider, and time. *)

Publish(k) ==
    /\ key[k] = "new"
    /\ key' = [key EXCEPT ![k] = "published"]
    /\ UNCHANGED <<gone, cache, holder, waited, req>>

Withdraw(k) ==
    /\ key[k] = "published" /\ published # {k}
    /\ key' = [key EXCEPT ![k] = "withdrawn"]
    /\ req' = [q \in Reqs |-> IF req[q].signer = k THEN [req[q] EXCEPT !.held = FALSE]
                              ELSE req[q]]
    /\ UNCHANGED <<gone, cache, holder, waited>>

Tick ==
    /\ holder # None => waited < timeout
    /\ gone' = [k \in Keys |-> IF key[k] = "withdrawn" /\ gone[k] < MaxGone
                               THEN gone[k] + 1 ELSE gone[k]]
    /\ cache' = IF cache = None \/ cache.age = jwk_ttl THEN cache
                ELSE [cache EXCEPT !.age = @ + 1]
    /\ waited' = IF holder = None THEN 0 ELSE waited + 1
    /\ UNCHANGED <<key, holder, req>>

-----------------------------------------------------------------------------
(* validate_via_jwks. *)

\* A token of a key that is, or was, in use.
BeginToken(q, k, named, claims) ==
    /\ req[q].pc = "idle" /\ key[k] # "new"
    /\ req' = [req EXCEPT ![q] = [Idle EXCEPT !.pc = "lock", !.signer = k, !.named = named,
                                              !.claims = claims, !.held = key[k] = "published"]]
    /\ UNCHANGED <<key, gone, cache, holder, waited>>

select_jwk(r, keys) ==
    IF r.named THEN keys \cap {r.signer}
    ELSE IF Cardinality(keys) = 1 THEN keys ELSE {}

decode_and_validate(r, jwk) == jwk = {r.signer}

validate_claims(r) == r.claims

\* Mutant: an unknown key is final.
WithKeysNoRefetch(r, keys) ==
    LET jwk == select_jwk(r, keys)
    IN  IF jwk = {} THEN [r EXCEPT !.pc = "unknown"]
        ELSE IF decode_and_validate(r, jwk) /\ validate_claims(r)
        THEN [r EXCEPT !.pc = "accepted", !.late = gone[r.signer]]
        ELSE [r EXCEPT !.pc = "refused"]

\* What follows once get_jwks has returned: the token is verified and its claims
\* are checked, or the keys are fetched again, once.
WithKeys(r, keys) ==
    LET jwk == select_jwk(r, keys)
    IN  IF jwk = {}
        THEN IF r.forced THEN [r EXCEPT !.pc = "unknown"]
             ELSE [r EXCEPT !.pc = "lock", !.forced = TRUE]
        ELSE IF decode_and_validate(r, jwk) /\ validate_claims(r)
        THEN [r EXCEPT !.pc = "accepted", !.late = gone[r.signer]]
        ELSE [r EXCEPT !.pc = "refused"]

\* Mutant: the age of the cache does not matter.
FreshForEver == cache # None

Fresh == cache # None /\ cache.age < jwk_ttl

\* get_jwks with the mutex free: from the cache, or the call begins.
Lock(q) ==
    /\ req[q].pc = "lock" /\ holder = None
    /\ \/ /\ ~req[q].forced /\ Fresh
          /\ req' = [req EXCEPT ![q] = WithKeys(req[q], cache.keys)]
          /\ UNCHANGED <<holder, waited>>
       \/ /\ req[q].forced \/ ~Fresh
          /\ holder' = q /\ waited' = 0
          /\ req' = [req EXCEPT ![q].pc = "fetch"]
    /\ UNCHANGED <<key, gone, cache>>

\* The provider answers with the keys of this moment.
Answered(q) ==
    /\ req[q].pc = "fetch"
    /\ req' = [req EXCEPT ![q].pc = "answered", ![q].keys = published]
    /\ UNCHANGED <<key, gone, cache, holder, waited>>

\* The answer is here: it is cached and the mutex released.
Store(q) ==
    /\ req[q].pc = "answered"
    /\ cache' = [keys |-> req[q].keys, age |-> 0]
    /\ holder' = None /\ waited' = 0
    /\ req' = [req EXCEPT ![q] = WithKeys([req[q] EXCEPT !.keys = {}], req[q].keys)]
    /\ UNCHANGED <<key, gone>>

\* A call (the discovery document's, or the keys') fails: 401, and the cache
\* stays as it is.
FetchFails(q) ==
    /\ req[q].pc \in {"fetch", "answered"}
    /\ req' = [req EXCEPT ![q].pc = "refused", ![q].keys = {}]
    /\ holder' = None /\ waited' = 0
    /\ UNCHANGED <<key, gone, cache>>

Settled == {"accepted", "refused", "unknown"}

\* The answer is sent.
EndToken(q) ==
    /\ req[q].pc \in Settled
    /\ req' = [req EXCEPT ![q] = Idle]
    /\ UNCHANGED <<key, gone, cache, holder, waited>>

Validating(q) == Lock(q) \/ Answered(q) \/ Store(q)

JwksNext ==
    \/ \E k \in Keys : Publish(k) \/ Withdraw(k)
    \/ Tick
    \/ \E q \in Reqs : \/ \E k \in Keys, named, claims \in BOOLEAN : BeginToken(q, k, named, claims)
                       \/ Validating(q) \/ FetchFails(q) \/ EndToken(q)

JwksSpec == JwksInit /\ [][JwksNext]_jwksVars

-----------------------------------------------------------------------------
(* Properties. *)

\* A token that names its key is not turned away for it while the provider
\* publishes that key, however stale the cache was and whoever else fetches.
KnownKeyAccepted ==
    \A q \in Reqs : req[q].pc = "unknown" /\ req[q].named => ~req[q].held

\* A withdrawn key is accepted no longer than the life of the cache and one call.
WithdrawnKeyBound == \A q \in Reqs : req[q].late <= jwk_ttl + timeout
=============================================================================
