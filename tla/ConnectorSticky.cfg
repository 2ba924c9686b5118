\* A goroutine of the server and one operator.
SPECIFICATION Spec
CONSTANTS
    t1 = t1
    t2 = t2
    c1 = c1
    c2 = c2
    srv = srv
    none = none
    Callers = {t1}
    Commands = {c1}
    Server = srv
    None = none
    MaxTokens = 3
    MaxTries = 2
    Principals = TRUE
PROPERTY ReconnectHeals
