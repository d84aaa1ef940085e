---------------------------- MODULE LoginsProofs ----------------------------
(***************************************************************************)
(* The key cache for any number of requests and keys, and the logins for   *)
(* any number of tabs.                                                     *)
(***************************************************************************)
EXTENDS Logins, FiniteSetTheorems, TLAPS

Requests == [pc : {"idle", "lock", "fetch", "answered"} \cup Settled,
             signer : Keys \cup {None}, named : BOOLEAN, claims : BOOLEAN,
             forced : BOOLEAN, keys : SUBSET Keys, held : BOOLEAN, late : Nat]

JwksTypeOK ==
    /\ key \in [Keys -> {"new", "published", "withdrawn"}]
    /\ gone \in [Keys -> Nat]
    /\ cache \in {None} \cup [keys : SUBSET Keys, age : Nat]
    /\ holder \in Reqs \cup {None}
    /\ waited \in 0..timeout
    /\ req \in [Reqs -> Requests]

\* A request with a call under way has the mutex, and one that looks for its key
\* has one.
CallersInv ==
    \A q \in Reqs : /\ req[q].pc \in {"fetch", "answered"} => holder = q
                    /\ req[q].pc \in {"lock", "fetch", "answered"} => req[q].signer \in Keys

\* A key that has been published all the time is in what the provider answered.
HeldInv ==
    \A q \in Reqs :
        /\ req[q].held => req[q].signer \in Keys /\ key[req[q].signer] = "published"
        /\ req[q].pc = "answered" /\ req[q].held => req[q].signer \in req[q].keys

\* How long the keys of an answer, and those of the cache, can have been withdrawn.
AgesInv ==
    /\ \A k \in Keys : key[k] # "withdrawn" => gone[k] = 0
    /\ \A q \in Reqs : req[q].pc = "answered" => \A k \in req[q].keys : gone[k] <= waited
    /\ Fresh => \A k \in cache.keys : gone[k] <= cache.age + timeout

JwksInv == JwksTypeOK /\ CallersInv /\ HeldInv /\ AgesInv /\ KnownKeyAccepted /\ WithdrawnKeyBound

\* Once get_jwks has returned the request is settled or goes back for the lock;
\* nothing else about it changes.
LEMMA WithKeysResult ==
    ASSUME NEW r \in Requests, NEW keys \in SUBSET Keys, r.signer \in Keys, JwksTypeOK
    PROVE  LET s == WithKeys(r, keys)
           IN  /\ s \in Requests
               /\ s.pc \in {"lock"} \cup Settled
               /\ s.signer = r.signer /\ s.held = r.held /\ s.keys = r.keys /\ s.named = r.named
               /\ s.pc = "unknown" => r.forced /\ (r.named => r.signer \notin keys)
               /\ s.late # r.late => r.signer \in keys /\ s.late = gone[r.signer]
<1> DEFINE jwk == select_jwk(r, keys)
<1>1. /\ r.named /\ r.signer \in keys => jwk # {}
      /\ jwk = {r.signer} => r.signer \in keys
    BY DEF select_jwk
<1>2. gone[r.signer] \in Nat
    BY DEF JwksTypeOK
<1>3. CASE jwk = {}
    BY <1>1, <1>3 DEF WithKeys, Requests, Settled
<1>4. CASE jwk # {}
    BY <1>1, <1>2, <1>4 DEF WithKeys, Requests, Settled, decode_and_validate, validate_claims
<1> QED BY <1>3, <1>4

\* What the invariant says of one request with entry r.
RequestOK(q, r) ==
    /\ r.pc \in {"fetch", "answered"} => holder' = q
    /\ r.pc \in {"lock", "fetch", "answered"} => r.signer \in Keys
    /\ r.held => r.signer \in Keys /\ key[r.signer] = "published"
    /\ r.pc = "answered" /\ r.held => r.signer \in r.keys
    /\ r.pc = "answered" => \A k \in r.keys : gone[k] <= waited'
    /\ r.pc = "unknown" /\ r.named => ~r.held
    /\ r.late <= jwk_ttl + timeout

\* A request that changes its own entry, and neither keys nor time, keeps the
\* invariant if its new entry, the mutex and the cache are in order.
LEMMA OneRequest ==
    ASSUME JwksInv, NEW q \in Reqs, NEW r \in Requests,
           req' = [req EXCEPT ![q] = r], UNCHANGED <<key, gone>>,
           cache' \in {None} \cup [keys : SUBSET Keys, age : Nat],
           Fresh' => \A k \in cache'.keys : gone[k] <= cache'.age + timeout,
           holder' \in Reqs \cup {None}, waited' \in 0..timeout,
           \A p \in Reqs : p # q /\ req[p].pc \in {"fetch", "answered"} =>
                             holder' = p /\ waited' = waited,
           RequestOK(q, r)
    PROVE  JwksInv'
<1>1. /\ req'[q] = r
      /\ \A p \in Reqs : p # q => req'[p] = req[p]
      /\ req' \in [Reqs -> Requests]
    BY DEF JwksInv, JwksTypeOK
<1>2. JwksTypeOK'
    BY <1>1 DEF JwksInv, JwksTypeOK
<1>3. CallersInv'
    BY <1>1 DEF JwksInv, CallersInv, RequestOK
<1>4. HeldInv'
    BY <1>1 DEF JwksInv, HeldInv, RequestOK
<1>5. AgesInv'
    BY <1>1 DEF JwksInv, AgesInv, RequestOK
<1>6. KnownKeyAccepted' /\ WithdrawnKeyBound'
    BY <1>1 DEF JwksInv, KnownKeyAccepted, WithdrawnKeyBound, RequestOK
<1> QED BY <1>2, <1>3, <1>4, <1>5, <1>6 DEF JwksInv

LEMMA JwksInitInv == JwksInit => JwksInv
BY JwksAssumption DEF JwksInit, JwksInv, JwksTypeOK, CallersInv, HeldInv, AgesInv, Requests,
    Idle, Settled, Fresh, KnownKeyAccepted, WithdrawnKeyBound

LEMMA JwksStepInv == JwksInv /\ [JwksNext]_jwksVars => JwksInv'
<1> SUFFICES ASSUME JwksInv, [JwksNext]_jwksVars PROVE JwksInv'
    OBVIOUS
<1> USE JwksAssumption
<1>1. ASSUME NEW k \in Keys, Publish(k) PROVE JwksInv'
    BY <1>1 DEF Publish, JwksInv, JwksTypeOK, CallersInv, HeldInv, AgesInv, Fresh,
        KnownKeyAccepted, WithdrawnKeyBound
<1>2. ASSUME NEW k \in Keys, Withdraw(k) PROVE JwksInv'
    <2>1. \A q \in Reqs :
            /\ req'[q] \in Requests
            /\ req'[q].pc = req[q].pc /\ req'[q].signer = req[q].signer
            /\ req'[q].keys = req[q].keys /\ req'[q].named = req[q].named
            /\ req'[q].late = req[q].late
            /\ req'[q].held => req[q].held /\ req[q].signer # k
        <3> SUFFICES ASSUME NEW q \in Reqs
                     PROVE  LET s == req'[q]
                            IN  /\ s \in Requests
                                /\ s.pc = req[q].pc /\ s.signer = req[q].signer
                                /\ s.keys = req[q].keys /\ s.named = req[q].named
                                /\ s.late = req[q].late
                                /\ s.held => req[q].held /\ req[q].signer # k
            OBVIOUS
        <3>1. req[q] \in Requests
            BY DEF JwksInv, JwksTypeOK
        <3>2. req'[q] = IF req[q].signer = k THEN [req[q] EXCEPT !.held = FALSE] ELSE req[q]
            BY <1>2 DEF Withdraw
        <3> QED BY <3>1, <3>2 DEF Requests
    <2>2. JwksTypeOK'
        <3>1. req' = [q \in Reqs |-> req'[q]]
            BY <1>2 DEF Withdraw
        <3>2. req' \in [Reqs -> Requests]
            BY <2>1, <3>1
        <3>3. key' \in [Keys -> {"new", "published", "withdrawn"}]
            BY <1>2 DEF Withdraw, JwksInv, JwksTypeOK
        <3> QED BY <1>2, <3>2, <3>3 DEF Withdraw, JwksInv, JwksTypeOK
    <2> QED BY <1>2, <2>1, <2>2 DEF Withdraw, JwksInv, JwksTypeOK, CallersInv, HeldInv, AgesInv,
        Fresh, KnownKeyAccepted, WithdrawnKeyBound
<1>3. ASSUME Tick PROVE JwksInv'
    <2>1. JwksTypeOK'
        BY <1>3 DEF Tick, JwksInv, JwksTypeOK
    <2>2. \A k \in Keys : gone'[k] \in Nat /\ gone[k] \in Nat /\ gone'[k] <= gone[k] + 1
                          /\ (key[k] # "withdrawn" => gone'[k] = gone[k])
        BY <1>3 DEF Tick, JwksInv, JwksTypeOK
    <2>3. \A q \in Reqs : req[q].pc = "answered" => \A k \in req[q].keys : gone'[k] <= waited'
        BY <1>3, <2>2 DEF Tick, JwksInv, JwksTypeOK, CallersInv, AgesInv, Requests
    <2>4. Fresh' => \A k \in cache'.keys : gone'[k] <= cache'.age + timeout
        BY <1>3, <2>2 DEF Tick, JwksInv, JwksTypeOK, AgesInv, Fresh
    <2> QED BY <1>3, <2>1, <2>2, <2>3, <2>4 DEF Tick, JwksInv, JwksTypeOK, CallersInv, HeldInv,
        AgesInv, KnownKeyAccepted, WithdrawnKeyBound
<1>4. ASSUME NEW q \in Reqs, NEW k \in Keys, NEW named \in BOOLEAN, NEW claims \in BOOLEAN,
             BeginToken(q, k, named, claims)
      PROVE  JwksInv'
    <2> DEFINE r == [Idle EXCEPT !.pc = "lock", !.signer = k, !.named = named,
                                 !.claims = claims, !.held = key[k] = "published"]
    <2>1. r \in Requests
        BY DEF Requests, Idle, Settled
    <2>2. /\ r.pc = "lock" /\ r.signer = k /\ r.late = 0
          /\ r.held => key[k] = "published"
        BY DEF Idle
    <2>3. req' = [req EXCEPT ![q] = r] /\ UNCHANGED <<key, gone, cache, holder, waited>>
        BY <1>4 DEF BeginToken
    <2>4. RequestOK(q, r)
        BY <2>2 DEF RequestOK
    <2> HIDE DEF r
    <2> QED BY <2>1, <2>3, <2>4, OneRequest DEF JwksInv, JwksTypeOK, CallersInv, AgesInv, Fresh
<1>5. ASSUME NEW q \in Reqs, Lock(q) PROVE JwksInv'
    <2>1. /\ req[q] \in Requests /\ req[q].pc = "lock" /\ holder = None
          /\ req[q].signer \in Keys
          /\ \A p \in Reqs : req[p].pc \notin {"fetch", "answered"}
        BY <1>5 DEF Lock, JwksInv, JwksTypeOK, CallersInv
    <2>2. CASE ~req[q].forced /\ Fresh
        <3> DEFINE r == WithKeys(req[q], cache.keys)
        <3>1. /\ r \in Requests /\ r.pc \in {"lock"} \cup Settled /\ r.pc # "unknown"
              /\ r.signer = req[q].signer /\ r.held = req[q].held
              /\ r.late # req[q].late => r.signer \in cache.keys /\ r.late = gone[r.signer]
            BY <2>1, <2>2, WithKeysResult DEF JwksInv, JwksTypeOK, Fresh
        <3>2. req' = [req EXCEPT ![q] = r] /\ UNCHANGED <<key, gone, cache, holder, waited>>
            BY <1>5, <2>2 DEF Lock
        <3> HIDE DEF r
        <3>3. r.late <= jwk_ttl + timeout
            BY <2>1, <2>2, <3>1 DEF JwksInv, JwksTypeOK, AgesInv, Fresh, WithdrawnKeyBound, Requests
        <3>4. RequestOK(q, r)
            BY <2>1, <3>1, <3>3 DEF RequestOK, JwksInv, HeldInv, Settled
        <3> QED BY <2>1, <3>1, <3>2, <3>4, OneRequest DEF JwksInv, JwksTypeOK, AgesInv, Fresh
    <2>3. CASE req[q].forced \/ ~Fresh
        <3> DEFINE r == [req[q] EXCEPT !.pc = "fetch"]
        <3>1. /\ r \in Requests /\ r.pc = "fetch" /\ r.signer = req[q].signer
              /\ r.held = req[q].held /\ r.late = req[q].late
            BY <2>1 DEF Requests
        <3>2. req' = [req EXCEPT ![q] = r] /\ UNCHANGED <<key, gone, cache>>
              /\ holder' = q /\ waited' = 0
            BY <1>5, <2>3 DEF Lock, JwksInv, JwksTypeOK
        <3> HIDE DEF r
        <3>3. RequestOK(q, r)
            BY <2>1, <3>1, <3>2 DEF RequestOK, JwksInv, HeldInv, WithdrawnKeyBound
        <3>4. /\ holder' \in Reqs \cup {None} /\ waited' \in 0..timeout
              /\ cache' \in {None} \cup [keys : SUBSET Keys, age : Nat]
              /\ Fresh' => \A k \in cache'.keys : gone[k] <= cache'.age + timeout
            BY <3>2 DEF JwksInv, JwksTypeOK, AgesInv, Fresh
        <3> QED BY <2>1, <3>1, <3>2, <3>3, <3>4, OneRequest
    <2> QED BY <2>2, <2>3
<1>6. ASSUME NEW q \in Reqs, Answered(q) PROVE JwksInv'
    <2> DEFINE r == [req[q] EXCEPT !.pc = "answered", !.keys = published]
    <2>1. /\ req[q] \in Requests /\ holder = q /\ req[q].signer \in Keys
        BY <1>6 DEF Answered, JwksInv, JwksTypeOK, CallersInv
    <2>2. /\ r \in Requests /\ r.pc = "answered" /\ r.signer = req[q].signer
          /\ r.held = req[q].held /\ r.late = req[q].late /\ r.keys = published
        BY <2>1 DEF Requests, published
    <2>3. req' = [req EXCEPT ![q] = r] /\ UNCHANGED <<key, gone, cache, holder, waited>>
        BY <1>6 DEF Answered, JwksInv, JwksTypeOK
    <2> HIDE DEF r
    <2>4. RequestOK(q, r)
        BY <2>1, <2>2, <2>3 DEF RequestOK, JwksInv, JwksTypeOK, HeldInv, AgesInv, WithdrawnKeyBound,
            published
    <2> QED BY <2>1, <2>2, <2>3, <2>4, OneRequest DEF JwksInv, JwksTypeOK, CallersInv, AgesInv, Fresh
<1>7. ASSUME NEW q \in Reqs, Store(q) PROVE JwksInv'
    <2> DEFINE got == [req[q] EXCEPT !.keys = {}]
               r   == WithKeys(got, req[q].keys)
    <2>1. /\ req[q] \in Requests /\ req[q].pc = "answered" /\ holder = q
          /\ req[q].signer \in Keys
          /\ \A k \in req[q].keys : gone[k] <= waited
          /\ req[q].held => req[q].signer \in req[q].keys
        BY <1>7 DEF Store, JwksInv, JwksTypeOK, CallersInv, HeldInv, AgesInv
    <2>2. /\ got \in Requests /\ got.signer = req[q].signer /\ got.held = req[q].held
          /\ got.named = req[q].named /\ got.late = req[q].late
        BY <2>1 DEF Requests
    <2>3. req[q].keys \in SUBSET Keys
        BY <2>1 DEF Requests
    <2>4. req' = [req EXCEPT ![q] = r] /\ UNCHANGED <<key, gone>> /\ holder' = None
          /\ waited' = 0 /\ cache' = [keys |-> req[q].keys, age |-> 0]
        BY <1>7 DEF Store
    <2> HIDE DEF got
    <2>5. /\ r \in Requests /\ r.pc \in {"lock"} \cup Settled
          /\ r.signer = req[q].signer /\ r.held = req[q].held /\ r.named = req[q].named
          /\ r.pc = "unknown" => (r.named => r.signer \notin req[q].keys)
          /\ r.late # req[q].late => r.signer \in req[q].keys /\ r.late = gone[r.signer]
        BY <2>2, <2>1, <2>3, WithKeysResult DEF JwksInv
    <2> HIDE DEF r
    <2>6. r.late <= jwk_ttl + timeout
        BY <2>1, <2>5 DEF JwksInv, JwksTypeOK, WithdrawnKeyBound, Requests
    <2>7. RequestOK(q, r)
        BY <2>1, <2>5, <2>6 DEF RequestOK, JwksInv, HeldInv, Settled
    <2>8. Fresh' => \A k \in cache'.keys : gone[k] <= cache'.age + timeout
        BY <2>1, <2>3, <2>4 DEF JwksInv, JwksTypeOK
    <2>9. cache' \in {None} \cup [keys : SUBSET Keys, age : Nat]
        BY <2>3, <2>4
    <2>10. /\ holder' \in Reqs \cup {None} /\ waited' \in 0..timeout
           /\ \A p \in Reqs : p # q => req[p].pc \notin {"fetch", "answered"}
        BY <2>1, <2>4 DEF JwksInv, CallersInv
    <2> QED BY <2>4, <2>5, <2>7, <2>8, <2>9, <2>10, OneRequest
<1>8. ASSUME NEW q \in Reqs, FetchFails(q) PROVE JwksInv'
    <2> DEFINE r == [req[q] EXCEPT !.pc = "refused", !.keys = {}]
    <2>1. /\ req[q] \in Requests /\ holder = q
        BY <1>8 DEF FetchFails, JwksInv, JwksTypeOK, CallersInv
    <2>2. /\ r \in Requests /\ r.pc = "refused" /\ r.signer = req[q].signer
          /\ r.held = req[q].held /\ r.late = req[q].late
        BY <2>1 DEF Requests, Settled
    <2>3. req' = [req EXCEPT ![q] = r] /\ UNCHANGED <<key, gone, cache>>
          /\ holder' = None /\ waited' = 0
        BY <1>8 DEF FetchFails, JwksInv, JwksTypeOK
    <2> HIDE DEF r
    <2>4. RequestOK(q, r)
        BY <2>2 DEF RequestOK, JwksInv, HeldInv, WithdrawnKeyBound
    <2>5. /\ holder' \in Reqs \cup {None} /\ waited' \in 0..timeout
          /\ cache' \in {None} \cup [keys : SUBSET Keys, age : Nat]
          /\ Fresh' => \A k \in cache'.keys : gone[k] <= cache'.age + timeout
        BY <2>3 DEF JwksInv, JwksTypeOK, AgesInv, Fresh
    <2>6. \A p \in Reqs : p # q => req[p].pc \notin {"fetch", "answered"}
        BY <2>1 DEF JwksInv, CallersInv
    <2> QED BY <2>2, <2>3, <2>4, <2>5, <2>6, OneRequest
<1>9. ASSUME NEW q \in Reqs, EndToken(q) PROVE JwksInv'
    <2>1. /\ Idle \in Requests /\ Idle.pc = "idle" /\ ~Idle.held /\ Idle.late = 0
        BY DEF Idle, Requests, Settled
    <2>2. RequestOK(q, Idle)
        BY <2>1 DEF RequestOK
    <2>3. req' = [req EXCEPT ![q] = Idle] /\ UNCHANGED <<key, gone, cache, holder, waited>>
        BY <1>9 DEF EndToken
    <2> QED BY <2>1, <2>2, <2>3, OneRequest DEF JwksInv, JwksTypeOK, CallersInv, AgesInv, Fresh
<1>10. CASE UNCHANGED jwksVars
    BY <1>10 DEF jwksVars, JwksInv, JwksTypeOK, CallersInv, HeldInv, AgesInv, Fresh,
        KnownKeyAccepted, WithdrawnKeyBound
<1> QED BY <1>1, <1>2, <1>3, <1>4, <1>5, <1>6, <1>7, <1>8, <1>9, <1>10 DEF JwksNext, Validating

THEOREM JwksAlways == JwksSpec => []JwksInv
BY JwksInitInv, JwksStepInv, PTL DEF JwksSpec

-----------------------------------------------------------------------------

\* The logins and bearer requests use the key cache as JwksCache allows: each of
\* their steps is a step of it or leaves it alone.
THEOREM LoginsImplementJwks == LoginSpec => JwksSpec
<1>1. LoginInit => JwksInit
    BY DEF LoginInit
<1>2. [LoginNext]_allVars => [JwksNext]_jwksVars
    <2> SUFFICES ASSUME [LoginNext]_allVars PROVE [JwksNext]_jwksVars
        OBVIOUS
    <2> USE TabsAssumption
    <2>1. ASSUME NEW t \in Tabs, Proceed(t) PROVE JwksNext \/ UNCHANGED jwksVars
        <3>1. ASSUME ValidateIdToken(t) PROVE JwksNext
            <4>1. PICK k \in published : BeginToken(t, k, TRUE, TRUE)
                BY <3>1 DEF ValidateIdToken
            <4> QED BY <4>1 DEF JwksNext, published
        <3>2. ASSUME Validating(t) \/ CheckNonce(t) PROVE JwksNext
            BY <3>2 DEF CheckNonce, JwksNext
        <3>3. ASSUME \/ Serve(t) \/ begin_auth(t) \/ ArriveAtProvider(t)
                     \/ (\E u \in Users : LogIn(t, u))
                     \/ handle_callback(t) \/ CasCallback(t) \/ Exchange(t)
                     \/ ArriveAtPage(t) \/ ArriveLoggedOut(t) \/ TryAgain(t)
              PROVE  UNCHANGED jwksVars
            BY <3>3 DEF Serve, begin_auth, ArriveAtProvider, LogIn, handle_callback, CasCallback,
                Exchange, ArriveAtPage, ArriveLoggedOut, TryAgain
        <3> QED BY <2>1, <3>1, <3>2, <3>3 DEF Proceed
    <2>2. ASSUME NEW t \in Tabs, OpenTab(t) \/ Reload(t) \/ Logout(t) PROVE UNCHANGED jwksVars
        BY <2>2 DEF OpenTab, Reload, Logout
    <2>3. ASSUME NEW t \in Tabs, CallFails(t) PROVE JwksNext \/ UNCHANGED jwksVars
        BY <2>3 DEF CallFails, JwksNext
    <2>4. ASSUME Bearer \/ Provider PROVE JwksNext
        BY <2>4 DEF Bearer, Provider, JwksNext
    <2>5. ASSUME Expire \/ UNCHANGED allVars PROVE UNCHANGED jwksVars
        BY <2>5 DEF Expire, allVars
    <2> QED BY <2>1, <2>2, <2>3, <2>4, <2>5 DEF LoginNext
<1> QED BY <1>1, <1>2, PTL DEF LoginSpec, JwksSpec

\* Whatever requests and logins share the cache, and however keys come and go, a
\* token that names a published key is not refused for it.
THEOREM KnownKeyAlways == LoginSpec => []KnownKeyAccepted
<1>1. JwksInv => KnownKeyAccepted
    BY DEF JwksInv
<1> QED BY <1>1, JwksAlways, LoginsImplementJwks, PTL

\* For any jwk_ttl and timeout, a withdrawn key is accepted no longer than both
\* together.
THEOREM WithdrawnKeyAlways == LoginSpec => []WithdrawnKeyBound
<1>1. JwksInv => WithdrawnKeyBound
    BY DEF JwksInv
<1> QED BY <1>1, JwksAlways, LoginsImplementJwks, PTL

-----------------------------------------------------------------------------

Places == {"closed", "open", "served", "begun", "provider", "back", "exchange", "token", "done",
           "stray", "rejected", "leaving"}

TabStates == [pc : Places, flow : Nat, user : Users \cup {None}, cookie : Nat, disturbed : BOOLEAN]

LoginTypeOK ==
    /\ jar \in [session : Users \cup {None}, flow : Nat]
    /\ tab \in [Tabs -> TabStates]

\* What holds of a tab with entry r when the browser's flow cookie is c.
TabOK(r, c) ==
    /\ UsesFlow /\ r.pc \in {"exchange", "token", "done"} => r.flow = r.cookie
    /\ r.pc = "begun" => r.flow # 0
    /\ UsesFlow /\ r.pc \in {"provider", "back"} /\ ~r.disturbed => r.flow # 0 /\ r.flow = c
    /\ r.pc = "stray" => r.disturbed

LoginInv == LoginTypeOK /\ \A t \in Tabs : TabOK(tab[t], jar.flow)

\* A flow is new: there are more numbers than cookies and other tabs.
LEMMA AFlowIsFree ==
    ASSUME LoginTypeOK, NEW t \in Tabs
    PROVE  (CHOOSE f \in NewFlows(t) : TRUE) \in Nat \ {0}
<1> USE TabsAssumption
<1> DEFINE others == Tabs \ {t}
           taken  == {tab[s].flow : s \in others}
           n      == Cardinality(Tabs)
<1>1. IsFiniteSet(others) /\ n \in Nat /\ Cardinality(others) = n - 1
    BY FS_RemoveElement, FS_CardinalityType
<1>2. IsFiniteSet(taken) /\ Cardinality(taken) <= n - 1
    <2> DEFINE f == [s \in others |-> tab[s].flow]
    <2>1. f \in Surjection(others, taken)
        BY DEF Surjection
    <2> HIDE DEF f, taken, others
    <2>2. IsFiniteSet(taken) /\ Cardinality(taken) <= Cardinality(others)
        BY <1>1, <2>1, FS_Surjection
    <2> QED BY <1>1, <2>2
<1>3. IsFiniteSet(taken \cup {jar.flow}) /\ Cardinality(taken \cup {jar.flow}) <= n
    <2> HIDE DEF taken
    <2>1. /\ IsFiniteSet(taken \cup {jar.flow})
          /\ Cardinality(taken \cup {jar.flow}) =
                IF jar.flow \in taken THEN Cardinality(taken) ELSE Cardinality(taken) + 1
        BY <1>2, FS_AddElement
    <2>2. Cardinality(taken) \in Nat
        BY <1>2, FS_CardinalityType
    <2> HIDE DEF n
    <2> QED BY <1>1, <1>2, <2>1, <2>2
<1>4. IsFiniteSet(Flows) /\ Cardinality(Flows) = n + 1
    BY <1>1, FS_Interval, SMTT(30) DEF Flows
<1>5. ~(Flows \subseteq taken \cup {jar.flow})
    <2> HIDE DEF taken
    <2>1. Cardinality(taken \cup {jar.flow}) \in Nat
        BY <1>3, FS_CardinalityType
    <2> QED BY <1>1, <1>3, <1>4, <2>1, FS_Subset
<1>6. \E f : f \in NewFlows(t)
    BY <1>5 DEF NewFlows
<1>7. NewFlows(t) \subseteq Nat \ {0}
    BY <1>1 DEF NewFlows, Flows
<1> QED BY <1>6, <1>7

\* A tab that changes its own entry, and no cookie of the flow, keeps the
\* invariant if its new entry is in order.
LEMMA OneTab ==
    ASSUME LoginInv, NEW t \in Tabs, NEW r \in TabStates, tab' = [tab EXCEPT ![t] = r],
           jar' \in [session : Users \cup {None}, flow : Nat], jar'.flow = jar.flow,
           UNCHANGED plugin, TabOK(r, jar.flow)
    PROVE  LoginInv'
BY DEF LoginInv, LoginTypeOK, TabOK, UsesFlow

\* A tab that goes on and changes the flow cookie keeps the invariant: the logins
\* that relied on it are marked.
LEMMA OneDisturbs ==
    ASSUME LoginInv, NEW t \in Tabs, NEW to \in Places, Disturb(t, to),
           jar' \in [session : Users \cup {None}, flow : Nat],
           UNCHANGED plugin, TabOK([tab[t] EXCEPT !.pc = to], jar'.flow)
    PROVE  LoginInv'
<1>1. \A s \in Tabs : tab[s] \in TabStates /\ TabOK(tab[s], jar.flow)
    BY DEF LoginInv, LoginTypeOK
<1>2. ASSUME NEW s \in Tabs PROVE tab'[s] \in TabStates /\ TabOK(tab'[s], jar'.flow)
    <2>1. CASE s = t
        BY <1>1, <2>1 DEF Disturb, TabStates, Places
    <2>2. CASE s # t
        <3> DEFINE r == [tab[s] EXCEPT !.disturbed = @ \/ AwaitsCookie(s)]
        <3>1. tab'[s] = r
            BY <2>2 DEF Disturb
        <3>2. AwaitsCookie(s) \in BOOLEAN
            BY DEF AwaitsCookie
        <3>3. /\ r \in TabStates /\ r.pc = tab[s].pc /\ r.flow = tab[s].flow
              /\ r.cookie = tab[s].cookie
              /\ tab[s].disturbed \/ AwaitsCookie(s) => r.disturbed
            BY <1>1, <3>2 DEF TabStates, Places
        <3> HIDE DEF r
        <3> QED BY <1>1, <3>1, <3>3 DEF TabOK, AwaitsCookie
    <2> QED BY <2>1, <2>2
<1>3. tab' \in [Tabs -> TabStates]
    BY <1>2 DEF Disturb
<1> QED BY <1>2, <1>3 DEF LoginInv, LoginTypeOK, TabOK, UsesFlow

LEMMA LoginInitInv == LoginInit => LoginInv
BY DEF LoginInit, LoginInv, LoginTypeOK, TabStates, Places, TabOK, Closed

\* A tab that only goes elsewhere.
LEMMA OneGoes ==
    ASSUME LoginInv, NEW t \in Tabs, NEW to \in Places, Goes(t, to),
           jar' \in [session : Users \cup {None}, flow : Nat], jar'.flow = jar.flow,
           UNCHANGED plugin, TabOK([tab[t] EXCEPT !.pc = to], jar.flow)
    PROVE  LoginInv'
<1> DEFINE r == [tab[t] EXCEPT !.pc = to]
<1>1. r \in TabStates
    BY DEF LoginInv, LoginTypeOK, TabStates, Places
<1>2. tab' = [tab EXCEPT ![t] = r]
    BY DEF Goes, LoginInv, LoginTypeOK
<1> HIDE DEF r
<1> QED BY <1>1, <1>2, OneTab DEF r

\* Places that ask nothing of a tab but its flow.
Quiet == {"open", "served", "rejected", "leaving"}

LEMMA GoesQuietly ==
    ASSUME LoginInv, NEW t \in Tabs, NEW to \in Quiet, Goes(t, to),
           jar' \in [session : Users \cup {None}, flow : Nat], jar'.flow = jar.flow,
           UNCHANGED plugin
    PROVE  LoginInv'
<1>1. [tab[t] EXCEPT !.pc = to].pc = to
    BY DEF LoginInv, LoginTypeOK, TabStates, Places
<1>2. TabOK([tab[t] EXCEPT !.pc = to], jar.flow)
    BY <1>1 DEF TabOK, Quiet
<1> QED BY <1>2, OneGoes DEF Quiet, Places

LEMMA LoginStepInv == LoginInv /\ [LoginNext]_allVars => LoginInv'
<1> SUFFICES ASSUME LoginInv, [LoginNext]_allVars PROVE LoginInv'
    OBVIOUS
<1>0. /\ jar \in [session : Users \cup {None}, flow : Nat]
      /\ \A t \in Tabs : tab[t] \in TabStates /\ TabOK(tab[t], jar.flow)
    BY DEF LoginInv, LoginTypeOK
<1>1. ASSUME NEW t \in Tabs, OpenTab(t) \/ Logout(t) \/ TryAgain(t) PROVE LoginInv'
    BY <1>0, <1>1, GoesQuietly DEF OpenTab, Logout, TryAgain, setup, Quiet
<1>2. ASSUME NEW t \in Tabs, Serve(t) PROVE LoginInv'
    <2> DEFINE r == [tab[t] EXCEPT !.pc = "served", !.user = jar.session]
    <2>1. r \in TabStates /\ r.pc = "served"
        BY <1>0 DEF TabStates, Places
    <2>2. tab' = [tab EXCEPT ![t] = r] /\ UNCHANGED <<jar, plugin>>
        BY <1>2 DEF Serve, setup, LoginInv, LoginTypeOK
    <2> HIDE DEF r
    <2>3. TabOK(r, jar.flow)
        BY <2>1 DEF TabOK
    <2> QED BY <1>0, <2>1, <2>2, <2>3, OneTab
<1>3. ASSUME NEW t \in Tabs, begin_auth(t) PROVE LoginInv'
    <2> DEFINE f == CHOOSE f \in NewFlows(t) : TRUE
               r == [Closed EXCEPT !.pc = "begun", !.flow = f]
    <2>1. f \in Nat \ {0}
        BY AFlowIsFree DEF LoginInv
    <2>2. tab' = [tab EXCEPT ![t] = r] /\ UNCHANGED <<jar, plugin>>
        BY <1>3 DEF begin_auth, setup
    <2> HIDE DEF f
    <2>3. r \in TabStates /\ r.pc = "begun" /\ r.flow # 0
        BY <2>1 DEF Closed, TabStates, Places
    <2> HIDE DEF r
    <2>4. TabOK(r, jar.flow)
        BY <2>3 DEF TabOK
    <2> QED BY <1>0, <2>2, <2>3, <2>4, OneTab
<1>4. ASSUME NEW t \in Tabs, ArriveAtProvider(t) PROVE LoginInv'
    <2> DEFINE r == [tab[t] EXCEPT !.pc = "provider"]
    <2>1. /\ r.pc = "provider" /\ r.flow = tab[t].flow /\ r.flow # 0 /\ tab[t].flow \in Nat
        BY <1>0, <1>4 DEF ArriveAtProvider, TabStates, Places, TabOK
    <2>2. CASE UsesFlow
        <3>1. /\ Disturb(t, "provider") /\ UNCHANGED plugin /\ jar' = [jar EXCEPT !.flow = tab[t].flow]
            BY <1>4, <2>2 DEF ArriveAtProvider, setup
        <3>2. jar' \in [session : Users \cup {None}, flow : Nat] /\ jar'.flow = tab[t].flow
            BY <1>0, <2>1, <3>1
        <3> HIDE DEF r
        <3>3. TabOK(r, jar'.flow)
            BY <2>1, <3>2 DEF TabOK
        <3> QED BY <3>1, <3>2, <3>3, OneDisturbs DEF r, Places
    <2>3. CASE ~UsesFlow
        <3>1. Goes(t, "provider") /\ UNCHANGED <<jar, plugin>>
            BY <1>4, <2>3 DEF ArriveAtProvider, setup
        <3> HIDE DEF r
        <3>2. TabOK(r, jar.flow)
            BY <2>1, <2>3 DEF TabOK
        <3> QED BY <1>0, <3>1, <3>2, OneGoes DEF r, Places
    <2> QED BY <2>2, <2>3
<1>5. ASSUME NEW t \in Tabs, NEW u \in Users, LogIn(t, u) PROVE LoginInv'
    <2> DEFINE r == [tab[t] EXCEPT !.pc = "back", !.user = u]
    <2>1. /\ r \in TabStates /\ r.pc = "back" /\ r.flow = tab[t].flow
          /\ r.disturbed = tab[t].disturbed
        BY <1>0 DEF TabStates, Places
    <2>2. tab' = [tab EXCEPT ![t] = r] /\ UNCHANGED <<jar, plugin>>
        BY <1>5 DEF LogIn, setup, LoginInv, LoginTypeOK
    <2> HIDE DEF r
    <2>3. TabOK(r, jar.flow)
        BY <1>0, <1>5, <2>1 DEF LogIn, TabOK
    <2> QED BY <1>0, <2>1, <2>2, <2>3, OneTab
<1>6. ASSUME NEW t \in Tabs, handle_callback(t) PROVE LoginInv'
    <2> DEFINE to(seen) == IF seen # 0 /\ seen = tab[t].flow THEN "exchange" ELSE "stray"
    <2>1. PICK seen \in {jar.flow, 0} :
              tab' = [tab EXCEPT ![t].cookie = seen, ![t].pc = to(seen),
                                 ![t].disturbed = @ \/ seen # jar.flow]
        BY <1>6 DEF handle_callback, FlowSeen
    <2> DEFINE d == tab[t].disturbed \/ seen # jar.flow
               r == [tab[t] EXCEPT !.cookie = seen, !.pc = to(seen), !.disturbed = d]
    <2>2. d \in BOOLEAN /\ (tab[t].disturbed => d) /\ (seen # jar.flow => d)
        OBVIOUS
    <2>3. tab' = [tab EXCEPT ![t] = r] /\ UNCHANGED <<jar, plugin>>
        BY <1>6, <2>1 DEF handle_callback, setup, LoginInv, LoginTypeOK
    <2> HIDE DEF d
    <2>4. seen \in Nat /\ to(seen) \in Places
        BY <1>0 DEF Places
    <2>5. /\ r \in TabStates /\ r.pc = to(seen) /\ r.flow = tab[t].flow /\ r.cookie = seen
          /\ r.disturbed = d
        <3> HIDE DEF to
        <3> QED BY <1>0, <2>2, <2>4 DEF TabStates
    <2> HIDE DEF r
    <2>6. TabOK(r, jar.flow)
        BY <1>0, <1>6, <2>2, <2>5 DEF handle_callback, TabOK
    <2> QED BY <1>0, <2>3, <2>5, <2>6, OneTab
<1>7. ASSUME NEW t \in Tabs, CasCallback(t) PROVE LoginInv'
    <2> DEFINE r == [tab[t] EXCEPT !.pc = "served", !.user = jar.session]
               s == [tab[t] EXCEPT !.pc = "exchange"]
    <2>1. /\ r \in TabStates /\ r.pc = "served" /\ s \in TabStates /\ s.pc = "exchange"
        BY <1>0 DEF TabStates, Places
    <2>2. /\ tab' = [tab EXCEPT ![t] = r] \/ tab' = [tab EXCEPT ![t] = s]
          /\ UNCHANGED <<jar, plugin>>
        BY <1>7 DEF CasCallback, setup, LoginInv, LoginTypeOK
    <2> HIDE DEF r, s
    <2>3. TabOK(r, jar.flow) /\ TabOK(s, jar.flow)
        BY <1>7, <2>1 DEF CasCallback, TabOK, UsesFlow
    <2> QED BY <1>0, <2>1, <2>2, <2>3, OneTab
<1>8. ASSUME NEW t \in Tabs, NEW to \in {"token", "done", "rejected"}, Goes(t, to),
             tab[t].pc \in {"exchange", "token"}, UNCHANGED <<jar, plugin>>
      PROVE  LoginInv'
    <2> DEFINE r == [tab[t] EXCEPT !.pc = to]
    <2>1. r.pc = to /\ r.flow = tab[t].flow /\ r.cookie = tab[t].cookie
        BY <1>0 DEF TabStates, Places
    <2> HIDE DEF r
    <2>2. TabOK(r, jar.flow)
        BY <1>0, <1>8, <2>1 DEF TabOK
    <2> QED BY <1>0, <1>8, <2>2, OneGoes DEF r, Places
<1>9. ASSUME NEW t \in Tabs, Exchange(t) \/ CheckNonce(t) PROVE LoginInv'
    BY <1>8, <1>9 DEF Exchange, CheckNonce, setup
<1>10. ASSUME NEW t \in Tabs, ArriveAtPage(t) PROVE LoginInv'
    <2>1. jar' \in [session : Users \cup {None}, flow : Nat]
        BY <1>0, <1>10 DEF ArriveAtPage, Deleted, TabStates, Places
    <2>2. TabOK([tab[t] EXCEPT !.pc = "open"], jar'.flow)
        <3>1. [tab[t] EXCEPT !.pc = "open"].pc = "open"
            BY <1>0 DEF TabStates, Places
        <3> QED BY <3>1 DEF TabOK
    <2>3. CASE jar'.flow # jar.flow
        BY <1>10, <2>1, <2>2, <2>3, OneDisturbs DEF ArriveAtPage, setup, Places
    <2>4. CASE jar'.flow = jar.flow
        BY <1>10, <2>1, <2>2, <2>4, OneGoes DEF ArriveAtPage, setup, Places
    <2> QED BY <2>3, <2>4
<1>11. ASSUME NEW t \in Tabs, ArriveLoggedOut(t) PROVE LoginInv'
    <2>1. jar' \in [session : Users \cup {None}, flow : Nat] /\ jar'.flow = jar.flow
        BY <1>0, <1>11 DEF ArriveLoggedOut, Deleted
    <2> QED BY <1>11, <2>1, GoesQuietly DEF ArriveLoggedOut, setup, Quiet
<1>12. ASSUME NEW t \in Tabs, CallFails(t) PROVE LoginInv'
    <2>1. UNCHANGED <<jar, plugin>> /\ (Goes(t, "rejected") \/ UNCHANGED tab)
        BY <1>12 DEF CallFails, setup
    <2>2. CASE Goes(t, "rejected")
        BY <1>0, <2>1, <2>2, GoesQuietly DEF Quiet
    <2>3. CASE UNCHANGED tab
        BY <2>1, <2>3 DEF LoginInv, LoginTypeOK, TabOK, UsesFlow
    <2> QED BY <2>1, <2>2, <2>3
<1>13. ASSUME NEW t \in Tabs, Reload(t) PROVE LoginInv'
    <2> DEFINE r == [tab[t] EXCEPT !.pc = "back", !.disturbed = TRUE]
    <2>1. r \in TabStates /\ r.pc = "back" /\ r.disturbed
        BY <1>0 DEF TabStates, Places
    <2>2. tab' = [tab EXCEPT ![t] = r] /\ UNCHANGED <<jar, plugin>>
        BY <1>13 DEF Reload, setup, LoginInv, LoginTypeOK
    <2> HIDE DEF r
    <2>3. TabOK(r, jar.flow)
        BY <2>1 DEF TabOK
    <2> QED BY <1>0, <2>1, <2>2, <2>3, OneTab
<1>14. ASSUME Expire PROVE LoginInv'
    <2>1. jar' \in [session : Users \cup {None}, flow : Nat] /\ UNCHANGED plugin
        BY <1>0, <1>14 DEF Expire, setup
    <2>2. CASE UNCHANGED tab /\ jar'.flow = jar.flow
        BY <2>1, <2>2 DEF LoginInv, LoginTypeOK, TabOK, UsesFlow
    <2>3. CASE tab' = [t \in Tabs |-> [tab[t] EXCEPT !.disturbed = @ \/ AwaitsCookie(t)]]
        <3>1. ASSUME NEW s \in Tabs PROVE tab'[s] \in TabStates /\ TabOK(tab'[s], jar'.flow)
            <4> DEFINE r == [tab[s] EXCEPT !.disturbed = @ \/ AwaitsCookie(s)]
            <4>1. tab'[s] = r
                BY <2>3
            <4>2. AwaitsCookie(s) \in BOOLEAN
                BY DEF AwaitsCookie
            <4>3. /\ r \in TabStates /\ r.pc = tab[s].pc /\ r.flow = tab[s].flow
                  /\ r.cookie = tab[s].cookie
                  /\ tab[s].disturbed \/ AwaitsCookie(s) => r.disturbed
                BY <1>0, <4>2 DEF TabStates, Places
            <4> HIDE DEF r
            <4> QED BY <1>0, <4>1, <4>3 DEF TabOK, AwaitsCookie
        <3>2. tab' \in [Tabs -> TabStates]
            BY <2>3, <3>1
        <3> QED BY <2>1, <3>1, <3>2 DEF LoginInv, LoginTypeOK, TabOK, UsesFlow
    <2>4. (UNCHANGED tab /\ jar'.flow = jar.flow)
          \/ tab' = [t \in Tabs |-> [tab[t] EXCEPT !.disturbed = @ \/ AwaitsCookie(t)]]
        BY <1>0, <1>14 DEF Expire
    <2> QED BY <2>2, <2>3, <2>4
<1>15. ASSUME UNCHANGED loginVars PROVE LoginInv'
    BY <1>15 DEF loginVars, LoginInv, LoginTypeOK, TabOK, UsesFlow
<1>16. ASSUME NEW t \in Tabs, Proceed(t) PROVE LoginInv'
    BY <1>16, <1>1, <1>2, <1>3, <1>4, <1>5, <1>6, <1>7, <1>9, <1>10, <1>11, <1>15
       DEF Proceed, ValidateIdToken
<1> QED BY <1>1, <1>12, <1>13, <1>14, <1>15, <1>16 DEF LoginNext, Bearer, Provider, allVars

\* With any number of tabs, users and mishaps, a login ends only with the code of
\* the flow whose cookie was presented.
THEOREM OwnLoginAlways == LoginSpec => []OwnLogin
<1>1. LoginInv => OwnLogin
    BY DEF LoginInv, TabOK, OwnLogin
<1> QED BY <1>1, LoginInitInv, LoginStepInv, PTL DEF LoginSpec

\* With any number of tabs, users and mishaps, a login that nothing disturbed
\* is never turned away for its flow cookie.
THEOREM StrayExplainedAlways == LoginSpec => []StrayExplained
<1>1. LoginInv => StrayExplained
    BY DEF LoginInv, TabOK, StrayExplained
<1> QED BY <1>1, LoginInitInv, LoginStepInv, PTL DEF LoginSpec
=============================================================================
