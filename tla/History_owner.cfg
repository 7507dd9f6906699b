\* A selected-flow cell that may be timed again, the all-flow cell that reuses
\* its artifact, two workers and a kill.
CONSTANTS
    f = f  s = s  w1 = w1  w2 = w2
    Worker = {w1, w2}
    Cell = {f, s}
    Equivalent <- MCEquivalent
    Consumers <- MCConsumers
    Directional = {f}
    Retiming = {s}
    MaxAttempts = 4
    MaxDeaths = 1
    Nobody = Nobody
SPECIFICATION Safety
SYMMETRY MCSymmetry
INVARIANTS NeededStand OwnReuseUndisturbed HistoryIsLight
PROPERTIES OnlyObsoleteMove
\* A worker stops when the attempts are used up.
CHECK_DEADLOCK FALSE
