CONSTANTS
    c1 = c1
    c2 = c2
    Nil = Nil
    Calls = {c1, c2}
    MaxTurns = 2
    MaxUpdates = 3
    MaxLater = 1
    MaxAsks = 1

SPECIFICATION Spec
SYMMETRY CallSymmetry
INVARIANT SnapshotAlwaysInOrder

\* A behaviour ends when the user has nothing more to say.
CHECK_DEADLOCK FALSE
