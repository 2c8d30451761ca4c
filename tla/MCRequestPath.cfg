SPECIFICATION PathSpec
CONSTANTS
    Stream = {s1, s2}
    Lanes = 2
    Worker = {w1, w2}
    MaxOps = 2
    MaxFrames = 2
    Requests = {r1, r2}
SYMMETRY Symmetry
INVARIANTS
    ConnectionsTimed
    StreamResourcesAccounted
    AckedOnlyWhenFramed
    RecordedOnce
    GuardsReturned
    RequestsRouted
    ResponsesFramed
\* A connection, a request and a body end.
CHECK_DEADLOCK FALSE
