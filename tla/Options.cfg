CONSTANTS
    mode = mode
    opt = opt
    hidden = hidden
    plan = plan
    usage = usage
    v1 = v1
    v2 = v2
    Nil = Nil
    Mode = mode
    Options = {opt}
    Advertised = {opt}
    Plans = {plan}
    Scalars = {}
    Values = {v1, v2}
    MaxRuns = 2
    MaxNews = 1

SPECIFICATION MCSpec
INVARIANT TypeOK
INVARIANT RecordIsCurrent
INVARIANT ClientIsTold
PROPERTY CallsAreTheDifference
PROPERTY EachIsCalled
PROPERTY RequestAnswered

\* A behaviour ends when the client has nothing left to ask.
CHECK_DEADLOCK FALSE
