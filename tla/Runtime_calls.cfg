CONSTANTS
    None = None  Unset = Unset  Invalid = Invalid
    heavy = heavy  light = light  coupling = coupling  width = width
    h1 = h1  h2 = h2  h3 = h3  d1 = d1  d2 = d2
    a1 = a1  a2 = a2  a3 = a3  a4 = a4  x = x  y = y
    Components <- MCCount  Ids <- MCIds  ByPoint <- MCByPoint
    MaxPoints = 5  CacheSize = 1  MaxCalls = 2
    Scenes <- MCScenes  LaneOf <- MCLaneOf  Requests <- MCRequests  CallsOf <- MCCallsOf
    Runtimes = 4  Names <- MCNames  Slots <- MCSlots  Fixed = {width}
    Masses = {heavy, light}  Coupling = coupling  ParameterValues = {0, 1, 2}
    DefaultValues <- MCValues  Declared = FALSE  Sectors = {1, 2}  Selecting = {1, 2}
    Helicity = {h1, h2, h3}  Destination = {d1, d2}  Live <- MCLive
    StructuralZero = {h3}  Value = {1, 2}  Default = 1  Point = {x, y}
    Address = {a1, a2, a3, a4}  TileSize = 2  Alignment = 2  MaxBatch = 3  MaxVersion = 2
SYMMETRY Symmetry
SPECIFICATION Spec
INVARIANTS TypeOK NothingStale
 
\* The bound MaxCalls ends a behaviour.
CHECK_DEADLOCK FALSE
