CONSTANTS
    None = None
    j1 = j1  j2 = j2  j3 = j3  a1 = a1  a2 = a2  v1 = v1
    Journals = {j1, j2, j3}  Archives = {a1, a2}
    ArchiveOf <- MCArchives  GuardOf <- MCArchives
    Committers = {q1, q2}  Verifiers = {v1}
    Files <- MCFiles  StrayRoots = {"artifacts", "coordination"}  PinMarker = TRUE
    MaxCrashes = 2  MaxGates = 2
    c1 = c1  c2 = c2  p1 = p1  p2 = p2  k1 = k1
    CellOrder <- MCCells  Publishers = {p1, p2}  Commands = {k1}
    MaxAttempts = 1  MaxCommands = 1  MaxFaults = 1  MaxDeaths = 1
    Casts <- MCCasts
SPECIFICATION Spec
INVARIANTS TypeOK FilesStayWhole
PROPERTIES NothingGoesBack EverythingSettles
\* Resets are finite.
CHECK_DEADLOCK FALSE
