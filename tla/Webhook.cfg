\* A handler, the sweeper and two clients, queues of one place, one subscription id.
SPECIFICATION FairSpec
CONSTANTS
    h1 = h1
    r1 = r1
    r2 = r2
    sweeper = sweeper
    s1 = s1
    u1 = u1
    u2 = u2
    none = none
    Handlers = {h1}
    Clients = {r1, r2}
    Sweeper = sweeper
    Ids = {s1}
    Urls = {u1, u2}
    None = none
    Subscribed <- AllSubscribed
    QueueSize = 1
    DeliveryQueueSize = 1
    MaxEvents = 1
    MaxWork = 2
    MaxRuns = 2
INVARIANTS
    AcceptedAreStored
    StoreClosedLast
PROPERTIES
    ShutdownCompletes
    EmitReturns
\* The last process has ended.
CHECK_DEADLOCK FALSE
