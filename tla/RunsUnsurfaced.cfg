CONSTANTS
    r1 = r1
    r2 = r2
    q1 = q1
    q2 = q2
    i1 = i1
    i2 = i2
    n1 = n1
    Nil = Nil
    Runs = {r1}
    Requests = {q1, q2}
    Ids = {i1, i2}
    Key <- DistinctKeys
    Notes = {}
    Bufferable = {}
    MaxDeltas = 0
    Overlap = FALSE

SPECIFICATION Spec
INVARIANT ParkedIsSurfaced

\* A behaviour ends when the client has no run left to ask for.
CHECK_DEADLOCK FALSE
