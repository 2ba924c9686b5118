\* A call that needs approval, under a document nobody changes.
SPECIFICATION Spec
CONSTANTS
    k1 = k1
    k2 = k2
    k3 = k3
    open = open
    gated = gated
    absent = absent
    Calls = {k1, k2}
    Docs = {open, gated}
    Gated = {gated}
    Absent = absent
    Fallback = open
    Max = 1
    Window = 2
    Probe = 2
    MaxTime = 3
    MaxSets = 0
INVARIANT ApprovedCallsResume
\* Every call has been decided and the clock has stopped.
CHECK_DEADLOCK FALSE
