\* Two grouping runs on one artifact.
CONSTANTS
    Writer = {w1}
    Grouper = {g1, g2}
    Absent = Absent
    NoManifest = NoManifest
    Nobody = Nobody
    MaxRuns = 1
SPECIFICATION Safety
PROPERTIES UpdateMerges
CHECK_DEADLOCK FALSE
