\* The wave barrier, and a peer that reruns the cell of the higher wave.
CONSTANTS
    a2 = a2  b2 = b2  c3 = c3  k1 = k1  k2 = k2
    Campaign = {k1, k2}
    Cell = {a2, b2, c3}
    Planned <- MCPlannedWaves
    Prerequisite <- MCWaves
    Required <- MCWavesRequired
    Rank <- MCRank
    Multiplicity <- MCMultiplicity
    Priority <- MCPriority
    NeedsModel = {b2, c3}
    MissingOnly <- MCOneMissingOnly
    WaveBarrier = TRUE
    Workers = 2
    Nobody = Nobody
SPECIFICATION Spec
INVARIANTS WavesInOrder
PROPERTIES EveryCampaignEnds
\* A campaign ends.
CHECK_DEADLOCK FALSE
