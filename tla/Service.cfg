\* Two commands on one service, on an empty directory and on a signed one, and a
\* server that requires signatures and skips what is not signed.
SPECIFICATION Spec
CONSTANTS
    a = a
    b = b
    v1 = v1
    v2 = v2
    key1 = key1
    none = none
    nobody = nobody
    Services = {a}
    Versions = {v1, v2}
    Keys = {key1}
    None = none
    Cli = {1, 2}
    Start = {v1}
    MaxOps = 2
    Modes <- LenientRequired
    Nobody = nobody
INVARIANTS
    AnswersHold
    SignaturesMatchKey
    KeptCacheIsCurrent
PROPERTY
    CatalogConverges
\* The commands have run and nothing more is asked.
CHECK_DEADLOCK FALSE
