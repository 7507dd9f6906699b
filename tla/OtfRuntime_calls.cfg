\* Leading colour, and contracted colour in tiles: calls of up to two tiles,
\* with capacities that grow.
CONSTANTS
    s1 = s1  s2 = s2  s3 = s3  s4 = s4  s5 = s5
    q1 = q1  q2 = q2  q3 = q3  q4 = q4
    f1 = f1  f2 = f2  p1 = p1  p2 = p2  p3 = p3  v1 = v1  v2 = v2
    None = None
    Selection = {s1, s2, s3, s4, s5}
    Query = {q1, q2, q3, q4}
    Family = {f1, f2}
    Parameter = {p1, p2, p3}
    Value = {v1, v2}
    Default = p1
    Requests <- MCRequests
    FamilyOf <- MCFamilyOf
    Projection <- MCProjection
    Modes = {TRUE, FALSE}
    Tile = 2
    MaxPoints = 3
    MaxCalls = 3
    MaxUpdates = 3
SPECIFICATION Spec
INVARIANTS Coherent NoDanglingRows ReadyToExecute SavedIsLoadable
PROPERTIES ImplementsPromise LeadingKeepsFamily
\* A runtime stops when its bounds are used up.
CHECK_DEADLOCK FALSE
