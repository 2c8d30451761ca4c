SPECIFICATION ServicesSpec
CONSTANTS
    Callers = {a, b, c, d}
    MaxActive = 2
    MaxWaiting = 2
    Threads = {t1, t2}
    Workers = {w1, w2}
    Txns = {txn1}
    Execs = {e1, e2}
    Descendants = {d1, d2}
    Addresses = {x1, x2}
    Connection = connection
    Query = query
    NoValue = NoValue
INVARIANTS
    NoUseAfterFree
    NothingLeaked
    ConnectionsLeased
    NoWaiterStranded
    PermitsExact
    SlotsAndPermitsAccounted
    ReferencesResolve
    OperationsComplete
\* A call, a command and a stopped gate end.
CHECK_DEADLOCK FALSE
