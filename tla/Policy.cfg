\* Two calls, an allowing and a gating document, one change of policy; or three calls
\* evaluated at the same time against one document of many.
SPECIFICATION PoliciesSpec
CONSTANTS
    k1 = k1
    k2 = k2
    k3 = k3
    open = open
    gated = gated
    absent = absent
    Calls = {k1, k2}
    Docs = {open, gated}
    Gated = {gated}
    Absent = absent
    Fallback = open
    Max = 1
    Window = 2
    Probe = 2
    MaxTime = 3
    MaxSets = 2
    Evaluations = {k1, k2, k3}
    Samples <- TheSamples
    Parts <- TheParts
    Missing = absent
    Days = 3
    DayLength = 4
    SweepInterval = 1
    MaxTicks = 2
INVARIANTS
    DecidedByRecentPolicy
    LimitHolds
    
\* Every call has been decided and the clock has stopped.
CHECK_DEADLOCK FALSE
