CONSTANTS
    r1 = r1
    r2 = r2
    q1 = q1
    q2 = q2
    i1 = i1
    i2 = i2
    n1 = n1
    Nil = Nil
    Runs = {r1, r2}
    Requests = {q1, q2}
    Ids = {i1, i2}
    Key <- DistinctKeys
    Notes = {n1}
    Bufferable = {n1}
    MaxDeltas = 0
    Overlap = TRUE

SPECIFICATION Spec
SYMMETRY RunSymmetry
INVARIANT TypeOK
INVARIANT OneTerminal
INVARIANT SinkIsLive
INVARIANT ParkedReleasable
INVARIANT NoteOnce
PROPERTY AnswerIsFinal
PROPERTY EndedByTurnUnderWay
PROPERTY ImplementsStreams

\* A behaviour ends when the client has no run left to ask for.
CHECK_DEADLOCK FALSE
