SPECIFICATION MCSpec
CONSTANTS
    Values <- MCValues
    Stages <- MCStages
    Widths <- MCWidths
    Requests <- MCRequests
    MaxPlanes <- MCMaxPlanes
    Programs <- MCPrograms
    NoExecutor = 1000
INVARIANTS
    LiveNeverShare
    FreeListSound
    AmplitudesAreReference
    SelectionIsTheDependency
\* A layout that ended and a tile that has run have no next step.
CHECK_DEADLOCK FALSE
