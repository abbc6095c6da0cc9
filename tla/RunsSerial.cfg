CONSTANTS
    r1 = r1
    r2 = r2
    q1 = q1
    q2 = q2
    i1 = i1
    i2 = i2
    n1 = n1
    Nil = Nil
    Runs = {r1, r2}
    Requests = {q1, q2}
    Ids = {i1, i2}
    Key <- DistinctKeys
    Notes = {}
    Bufferable = {}
    MaxDeltas = 1
    Overlap = FALSE

SPECIFICATION FairSpec
INVARIANT WatchedIsSink
 
PROPERTY StreamEnds
PROPERTY ParkedAnswered

\* A behaviour ends when the client has no run left to ask for.
CHECK_DEADLOCK FALSE
