CONSTANTS
    Items = 4  Class <- MCClass  Malformed = {"v"}
    Phases = 3  Pooled = {1, 3}  Cached = {3}  MaxWorkers = 3
    Caller = {c1, c2}
    Slots = 1  Interruptible = {"polling", "waiting"}
    MaxInterrupts = 1  MaxDeaths = 1  Free = Free
    root = root  stranger = stranger  Init0 = Init0
    Descendant = {a}  ReuseKnown = FALSE
    Forked = {a, b}  Limit = 2
SPECIFICATION Spec
INVARIANTS TypeOK  SuccessIsReal OthersUnharmed
PROPERTIES EverythingEnds
\* A part that did its work stops.
CHECK_DEADLOCK FALSE
