\* Two tabs, or two requests with tokens; two keys and a rotation; one mishap.
CONSTANTS
    Tabs = {t1, t2}
    Reqs = {t1, t2}
    Keys = {k1, k2}
    Users = {u1}
    FirstKey = k1
    None = None
    Plugins = {"openid-connect", "authz-casdoor", "cas-auth", "bearer"}
    Schemes = {"https"}
    jwk_ttl = 2
    timeout = 1
    MaxMishaps = 1
SPECIFICATION LoginSpec
INVARIANTS OwnLogin StrayExplained KnownKeyAccepted WithdrawnKeyBound
PROPERTY LoneTabServed
