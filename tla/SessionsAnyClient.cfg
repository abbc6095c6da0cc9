CONSTANTS
    t1 = t1
    t2 = t2
    t3 = t3
    s1 = s1
    s2 = s2
    Nil = Nil
    Tasks = {t1, t2, t3}
    Sessions = {s1, s2}
    Overlap = TRUE
    MaxRestarts = 2

SPECIFICATION Spec
SYMMETRY ManagerSymmetry
INVARIANT TypeOK
INVARIANT TableIsLive
INVARIANT AckedIsRecorded
PROPERTY ProbesAreNeeded

\* A behaviour ends when the clients have nothing left to ask.
CHECK_DEADLOCK FALSE
