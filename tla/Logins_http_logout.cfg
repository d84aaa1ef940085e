\* Logins and a logout over plain HTTP.
CONSTANTS
    Tabs = {t1, t2}
    Reqs = {t1, t2}
    Keys = {k1, k2}
    Users = {u1}
    FirstKey = k1
    None = None
    Plugins = {"openid-connect", "authz-casdoor", "cas-auth"}
    Schemes = {"http"}
    jwk_ttl = 2
    timeout = 1
    MaxMishaps = 1
SPECIFICATION LoginSpec
INVARIANT LogoutEndsSession
