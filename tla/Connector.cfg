\* Two goroutines of the server and one operator at a terminal; or two logins that
\* overlap, any flow each, at a provider that has them all.
SPECIFICATION ConnectionsSpec
CONSTANTS
    t1 = t1
    t2 = t2
    c1 = c1
    c2 = c2
    srv = srv
    none = none
    Callers = {t1, t2}
    Commands = {c1}
    Server = srv
    None = none
    MaxTokens = 2
    MaxTries = 2
    Principals = TRUE
    l1 = l1
    l2 = l2
    w1 = w1
    w2 = w2
    Logins = {l1, l2}
    Workspaces = {w1, w2}
    NoLogin = none
    ProviderFlows = {"browser", "device", "client"}
    LoginTimeout = 2
    PollInterval = 1
    SlowDown = 1
INVARIANTS
    OneRefreshPerManager
    RevokedTokensStayGone
    TokenIsOwn
PROPERTIES
    RefreshReplacesItsOwn
    WaitersReturn
