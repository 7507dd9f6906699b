\* The documented failure behaviour against a failing contracted call.
CONSTANTS
    s1 = s1  s2 = s2  s3 = s3  s4 = s4  s5 = s5
    q1 = q1  q2 = q2  q3 = q3  q4 = q4
    f1 = f1  f2 = f2  p1 = p1  p2 = p2  p3 = p3  v1 = v1  v2 = v2
    None = None
    Selection = {s1, s2, s3, s4, s5}
    Query = {q1, q2, q3, q4}
    Family = {f1, f2}
    Parameter = {p1, p2, p3}
    Value = {v1, v2}
    Default = p1
    Requests <- MCRequests
    FamilyOf <- MCFamilyOf
    Projection <- MCProjection
    Modes = {TRUE}
    Tile = 1
    MaxPoints = 1
    MaxCalls = 2
    MaxUpdates = 0
SPECIFICATION Spec
PROPERTIES FailureKeepsFamily
CHECK_DEADLOCK FALSE
