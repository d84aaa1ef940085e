------------------------------- MODULE Logins -------------------------------
(***************************************************************************)
(* Interactive logins: the tabs of a browser, which share its cookies, go  *)
(* through the redirects of openid-connect, authz-casdoor or cas-auth.     *)
(* All of the gateway's state is in the cookies it seals, but for          *)
(* openid-connect's key cache.                                             *)
(*                                                                         *)
(* The browser and the provider are external.  A flow is a number: its     *)
(* state, nonce and PKCE verifier are random and belong together.  A code  *)
(* (for cas-auth a ticket) is the flow it was issued for and the user.     *)
(* Sealing, signatures and URLs are left out.                              *)
(***************************************************************************)
EXTENDS JwksCache

CONSTANTS
    Tabs,           \* also the requests with a token
    Users,
    Plugins,        \* which of the plugins, or "bearer" for openid-connect without logins
    Schemes,        \* how the browser talks to the gateway
    MaxMishaps      \* bound on failing calls, expiries and logouts

ASSUME TabsAssumption == Tabs = Reqs /\ IsFiniteSet(Tabs) /\ MaxMishaps \in Nat

VARIABLES
    plugin, scheme,
    covered,        \* the page is under the cookies' path
    jar,            \* the browser's cookies: session (a user) and flow
    tab,            \* the tabs
    used,           \* external: the flows whose code the provider has redeemed
    mishaps,
    finished        \* history: a login has ended since the last logout

loginVars == <<plugin, scheme, covered, jar, tab, used, mishaps, finished>>
allVars   == <<jwksVars, loginVars>>
setup     == <<plugin, scheme, covered>>

\* A tab: where it is, the flow and the user of its code, the flow of the cookie
\* it came back with, and (history) whether its flow cookie was touched or not seen.
Closed == [pc |-> "closed", flow |-> 0, user |-> None, cookie |-> 0, disturbed |-> FALSE]

Interactive == {"openid-connect", "authz-casdoor", "cas-auth"}
UsesFlow    == plugin \in {"openid-connect", "authz-casdoor"}

LoginInit ==
    /\ JwksInit
    /\ plugin \in Plugins /\ scheme \in Schemes /\ covered \in BOOLEAN
    /\ plugin = "bearer" => scheme = "https" /\ covered    \* no cookies
    /\ jar = [session |-> None, flow |-> 0]
    /\ tab = [t \in Tabs |-> Closed]
    /\ used = {} /\ mishaps = 0 /\ finished = FALSE

-----------------------------------------------------------------------------
(* The browser applies an answer's cookies when it arrives. *)

Goes(t, to) == tab' = [tab EXCEPT ![t].pc = to]

\* The tab relies on its flow cookie being there when it comes back.
AwaitsCookie(t) == tab[t].pc \in {"provider", "back"}

\* t changes the flow cookie and goes on: the logins of the others are disturbed.
Disturb(t, to) ==
    tab' = [s \in Tabs |-> IF s = t THEN [tab[t] EXCEPT !.pc = to]
                           ELSE [tab[s] EXCEPT !.disturbed = @ \/ AwaitsCookie(s)]]

\* delete_cookie always sets Secure, and a browser takes no such cookie over
\* plain HTTP.
Deleted(old, none) == IF scheme = "https" THEN none ELSE old

-----------------------------------------------------------------------------
(* Requests for the page, and the provider. *)

OpenTab(t) ==
    /\ plugin \in Interactive /\ tab[t].pc \in {"closed", "served", "rejected"}
    /\ Goes(t, "open")
    /\ UNCHANGED <<jwksVars, setup, jar, used, mishaps, finished>>

\* The session cookie is sent if the page is under its path.
HasSession == covered /\ jar.session # None

\* A session: the node passes the request on.
Serve(t) ==
    /\ tab[t].pc = "open" /\ HasSession
    /\ tab' = [tab EXCEPT ![t].pc = "served", ![t].user = jar.session]
    /\ UNCHANGED <<jwksVars, setup, jar, used, mishaps, finished>>

\* A flow is random; its number is free again when no cookie and no tab has it.
Flows       == 1..(Cardinality(Tabs) + 1)
NewFlows(t) == Flows \ ({jar.flow} \cup {tab[s].flow : s \in Tabs \ {t}})

\* None: the redirect to the provider, with a new flow cookie.
begin_auth(t) ==
    /\ tab[t].pc = "open" /\ ~HasSession
    /\ LET f == CHOOSE f \in NewFlows(t) : TRUE
       IN  /\ tab' = [tab EXCEPT ![t] = [Closed EXCEPT !.pc = "begun", !.flow = f]]
           /\ used' = used \ {f}
    /\ UNCHANGED <<jwksVars, setup, jar, mishaps, finished>>

ArriveAtProvider(t) ==
    /\ tab[t].pc = "begun"
    /\ IF UsesFlow THEN jar' = [jar EXCEPT !.flow = tab[t].flow] /\ Disturb(t, "provider")
       ELSE Goes(t, "provider") /\ UNCHANGED jar
    /\ UNCHANGED <<jwksVars, setup, used, mishaps, finished>>

\* Someone logs in there, and the provider redirects back with a code.
LogIn(t, u) ==
    /\ tab[t].pc = "provider"
    /\ tab' = [tab EXCEPT ![t].pc = "back", ![t].user = u]
    /\ UNCHANGED <<jwksVars, setup, jar, used, mishaps, finished>>

-----------------------------------------------------------------------------
(* The callback. *)

\* The flow read_flow sees.  A browser that speaks HTTP/2 may send each cookie in a header
\* of its own, and only the first is looked at.  Both cookies have one path and the end
\* of a login deletes the flow's, so where there is a session too, its cookie is the
\* older one and comes first.  (Cookies that are not the plugin's are left out.)
FlowSeen == {jar.flow} \cup IF scheme = "https" /\ jar.session # None THEN {0} ELSE {}

\* Mutant: the state is not compared.
HandleCallbackAnyState(t) ==
    /\ UsesFlow /\ tab[t].pc = "back"
    /\ tab' = [tab EXCEPT ![t].cookie = jar.flow,
                          ![t].pc = IF jar.flow # 0 THEN "exchange" ELSE "stray"]
    /\ UNCHANGED <<jwksVars, setup, jar, used, mishaps, finished>>

\* Mutant: the flow cookie's path is never checked against the callback's.
HandleCallbackUncovered(t) ==
    /\ UsesFlow /\ tab[t].pc = "back"
    /\ LET sent == IF covered THEN jar.flow ELSE 0
       IN  tab' = [tab EXCEPT ![t].cookie = sent,
                              ![t].pc = IF sent # 0 /\ sent = tab[t].flow THEN "exchange" ELSE "stray"]
    /\ UNCHANGED <<jwksVars, setup, jar, used, mishaps, finished>>

\* The callback is under the cookies' path: from_config refuses a node where it
\* is not.  No flow cookie, or that of another flow, is a 401.
handle_callback(t) ==
    /\ UsesFlow /\ tab[t].pc = "back"
    /\ \E seen \in FlowSeen :
          tab' = [tab EXCEPT ![t].cookie = seen,
                             ![t].pc = IF seen # 0 /\ seen = tab[t].flow THEN "exchange" ELSE "stray",
                             ![t].disturbed = @ \/ seen # jar.flow]
    /\ UNCHANGED <<jwksVars, setup, jar, used, mishaps, finished>>

\* cas-auth looks for a session first: the ticket is then left alone.
CasCallback(t) ==
    /\ plugin = "cas-auth" /\ tab[t].pc = "back"
    /\ tab' = IF HasSession THEN [tab EXCEPT ![t].pc = "served", ![t].user = jar.session]
              ELSE [tab EXCEPT ![t].pc = "exchange"]
    /\ UNCHANGED <<jwksVars, setup, jar, used, mishaps, finished>>

\* The provider redeems a code once, and for openid-connect only with the
\* verifier it was requested with.
Redeems(t) ==
    /\ tab[t].flow \notin used
    /\ plugin = "openid-connect" => tab[t].cookie = tab[t].flow

\* exchange_code, fetch_access_token or cas_validate.
Exchange(t) ==
    /\ tab[t].pc = "exchange"
    /\ Goes(t, IF ~Redeems(t) THEN "rejected"
               ELSE IF plugin = "openid-connect" THEN "token" ELSE "done")
    /\ used' = used \cup {tab[t].flow}
    /\ UNCHANGED <<jwksVars, setup, jar, mishaps, finished>>

\* The id_token is checked against the provider's keys...
ValidateIdToken(t) ==
    /\ tab[t].pc = "token" /\ req[t].pc = "idle"
    /\ \E k \in published : BeginToken(t, k, TRUE, TRUE)
    /\ UNCHANGED loginVars

\* ... and its nonce with the flow's.
CheckNonce(t) ==
    /\ tab[t].pc = "token" /\ req[t].pc \in Settled
    /\ Goes(t, IF req[t].pc = "accepted" /\ tab[t].cookie = tab[t].flow THEN "done" ELSE "rejected")
    /\ EndToken(t)
    /\ UNCHANGED <<setup, jar, used, mishaps, finished>>

\* Mutant: the cookie that is deleted is the session's.
ArriveAtPageDropsSession(t) ==
    /\ tab[t].pc = "done"
    /\ jar' = [jar EXCEPT !.session = Deleted(tab[t].user, None)]
    /\ Goes(t, "open")
    /\ finished' = TRUE
    /\ UNCHANGED <<jwksVars, setup, used, mishaps>>

\* The answer with the session cookie arrives; the flow cookie is deleted.
ArriveAtPage(t) ==
    /\ tab[t].pc = "done"
    /\ jar' = [session |-> tab[t].user, flow |-> Deleted(jar.flow, 0)]
    /\ IF jar'.flow # jar.flow THEN Disturb(t, "open") ELSE Goes(t, "open")
    /\ finished' = TRUE
    /\ UNCHANGED <<jwksVars, setup, used, mishaps>>

-----------------------------------------------------------------------------
(* Mishaps. *)

Mishap == mishaps < MaxMishaps /\ mishaps' = mishaps + 1

\* A call of the callback fails, before or after the code is redeemed; or, before
\* the login, that for the provider's endpoint.
CallFails(t) ==
    /\ Mishap
    /\ \/ /\ tab[t].pc = "exchange" /\ used' \in {used, used \cup {tab[t].flow}}
          /\ Goes(t, "rejected") /\ UNCHANGED jwksVars
       \/ /\ tab[t].pc = "open" /\ plugin = "openid-connect" /\ ~HasSession
          /\ Goes(t, "rejected") /\ UNCHANGED <<used, jwksVars>>
       \/ /\ tab[t].pc = "token" /\ FetchFails(t) /\ UNCHANGED <<tab, used>>
    /\ UNCHANGED <<setup, jar, finished>>

\* The user reloads the callback's address.
Reload(t) ==
    /\ Mishap
    /\ tab[t].pc \in {"served", "rejected", "stray"} /\ tab[t].flow # 0
    /\ tab' = [tab EXCEPT ![t].pc = "back", ![t].disturbed = TRUE]
    /\ UNCHANGED <<jwksVars, setup, jar, used, finished>>

\* A cookie reaches its age.
Expire ==
    /\ Mishap
    /\ \/ jar.session # None /\ jar' = [jar EXCEPT !.session = None] /\ UNCHANGED tab
       \/ /\ jar.flow # 0 /\ jar' = [jar EXCEPT !.flow = 0]
          /\ tab' = [t \in Tabs |-> [tab[t] EXCEPT !.disturbed = @ \/ AwaitsCookie(t)]]
    /\ UNCHANGED <<jwksVars, setup, used, finished>>

\* The logout path is requested from a page, and its answer arrives.
Logout(t) ==
    /\ Mishap
    /\ tab[t].pc = "served"
    /\ Goes(t, "leaving")
    /\ UNCHANGED <<jwksVars, setup, jar, used, finished>>

ArriveLoggedOut(t) ==
    /\ tab[t].pc = "leaving"
    /\ jar' = [jar EXCEPT !.session = Deleted(jar.session, None)]
    /\ Goes(t, "open")
    /\ finished' = FALSE
    /\ UNCHANGED <<jwksVars, setup, used, mishaps>>

\* After a 401 the user tries again.
TryAgain(t) ==
    /\ tab[t].pc \in {"rejected", "stray"}
    /\ Goes(t, "open")
    /\ UNCHANGED <<jwksVars, setup, jar, used, mishaps, finished>>

-----------------------------------------------------------------------------
\* openid-connect without logins: any request may carry any token.
Bearer ==
    /\ plugin = "bearer"
    /\ \E q \in Reqs : \/ \E k \in Keys, named, claims \in BOOLEAN : BeginToken(q, k, named, claims)
                       \/ FetchFails(q) \/ EndToken(q)
    /\ UNCHANGED loginVars

\* The provider rotates its keys.  Time matters to tokens that are older than a
\* login, not to an id_token that is checked as soon as it is signed.
Provider ==
    /\ \/ plugin \in {"openid-connect", "bearer"} /\ \E k \in Keys : Publish(k) \/ Withdraw(k)
       \/ plugin = "bearer" /\ Tick
    /\ UNCHANGED loginVars

\* What goes on by itself once a tab is open.
Proceed(t) ==
    \/ Serve(t) \/ begin_auth(t) \/ ArriveAtProvider(t) \/ (\E u \in Users : LogIn(t, u))
    \/ handle_callback(t) \/ CasCallback(t) \/ Exchange(t) \/ ValidateIdToken(t)
    \/ (Validating(t) /\ UNCHANGED loginVars) \/ CheckNonce(t)
    \/ ArriveAtPage(t) \/ ArriveLoggedOut(t) \/ TryAgain(t)

LoginNext ==
    \/ \E t \in Tabs : Proceed(t) \/ OpenTab(t) \/ CallFails(t) \/ Reload(t) \/ Logout(t)
    \/ Expire \/ Bearer \/ Provider

\* Browser, gateway and provider act, and the user of an open tab goes on.
LoginSpec ==
    /\ LoginInit /\ [][LoginNext]_allVars
    /\ \A t \in Tabs : WF_allVars(Proceed(t))

-----------------------------------------------------------------------------
(* Properties. *)

\* A session is made of the code that belongs to the flow whose cookie the
\* browser presented: one tab's login never ends as another's.
OwnLogin == \A t \in Tabs : UsesFlow /\ tab[t].pc = "done" => tab[t].flow = tab[t].cookie

\* A login is turned away for its flow cookie only if the cookie expired, another
\* tab replaced or deleted it, the callback was requested twice, or the cookie came in
\* a header of its own behind that of a session (another tab's, or not sent to the page).
StrayExplained == \A t \in Tabs : tab[t].pc = "stray" => tab[t].disturbed

Lone(t) == \A s \in Tabs \ {t} : tab[s].pc = "closed"

\* A tab that is alone, of a page under the cookies' path, gets its page.
LoneTabServed ==
    \A t \in Tabs : []((tab[t].pc = "open" /\ covered /\ []Lone(t)) => <>(tab[t].pc = "served"))

\* Once the answer to the logout is here, there is a session only if a login has
\* ended since.
LogoutEndsSession == jar.session # None => finished
=============================================================================
