CONSTANTS
    t1 = t1
    t2 = t2
    t3 = t3
    s1 = s1
    s2 = s2
    Nil = Nil
    Tasks = {t1, t2, t3}
    Sessions = {s1}
    Overlap = FALSE
    MaxRestarts = 0

SPECIFICATION FairSpec
INVARIANT NoOrphan
INVARIANT DeletedIsGone
PROPERTY RequestsEnd
PROPERTY IdleReaped

\* A behaviour ends when the clients have nothing left to ask.
CHECK_DEADLOCK FALSE
