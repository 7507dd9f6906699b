\* Three generations, each started once, so that two appends race, and a
\* grouping run.
CONSTANTS
    Writer = {w1, w2, w3}
    Grouper = {g1}
    Absent = Absent
    NoManifest = NoManifest
    Nobody = Nobody
    MaxRuns = 1
SPECIFICATION Spec
INVARIANTS PublishedWhole DigestRepaired
PROPERTIES AppendLosesNothing ErrorModeNeverReplaces ImplementsCatalogue WaiterProceeds
\* Every actor stops when its runs are used up.
CHECK_DEADLOCK FALSE
