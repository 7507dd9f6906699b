\* Two campaigns that keep results, without waves.
CONSTANTS
    a2 = a2  b2 = b2  c3 = c3  k1 = k1  k2 = k2
    Campaign = {k1, k2}
    Cell = {a2, b2, c3}
    Planned <- MCPlanned
    Prerequisite <- MCPeers
    Required <- MCPeersRequired
    Rank <- MCRank
    Multiplicity <- MCMultiplicity
    Priority <- MCPriority
    NeedsModel = {a2, b2}
    MissingOnly <- MCAllMissingOnly
    WaveBarrier = FALSE
    Workers = 2
    Nobody = Nobody
SPECIFICATION Safety
INVARIANTS NoCellLost PrerequisitesFirst WorksAlone BlockedByFailure ReturnsComplete
 
\* A campaign ends.
CHECK_DEADLOCK FALSE
