--------------------------- MODULE NativeRuntime ---------------------------
(***************************************************************************)
(* Three parts of a native runtime: the evaluation with one selector for   *)
(* each point (PointSelectors), the model parameters of a tree of runtimes *)
(* (ParameterTree) and the companion of the recurrence lane that answers   *)
(* selected helicities (HelicityCompanion).  A behaviour is one of one of  *)
(* them, chosen by part; the variables of the others keep their initial    *)
(* values.  A scene is a lane of the artifact with the requests that its   *)
(* caller makes of the first part and how many calls that are.             *)
(***************************************************************************)
EXTENDS Naturals

CONSTANTS
    None,
    Unset, Components, Ids, ByPoint, MaxPoints, CacheSize, MaxCalls,
    Runtimes, Names, Slots, Fixed, Masses, Coupling, ParameterValues, DefaultValues,
    Invalid,
    Declared, Sectors, Selecting,
    Helicity, Destination, Live, StructuralZero, Value, Default, Point, Address,
    TileSize, Alignment, MaxBatch, MaxVersion,
    Scenes,     \* the scenes
    LaneOf,     \* LaneOf[c]: the lane of the artifact
    Requests,   \* Requests[c]: the requests that are made
    CallsOf     \* CallsOf[c]: bound of the number of calls

VARIABLES part, scene,
    phase, calls, request, output, sets, chosen, crossing, lookup, plan,
    partitions, counts, cursors, gatheredRows, gatheredBatch, totals, index, from,
    base, derived, mass, factor, sector, walkPhase, overrides, snapshot, at,
    pending, previous, asked,
    packed, model, held, version, family, amplitude, active, tables, call, answer

Points == INSTANCE PointSelectors WITH lane <- LaneOf[scene], Count <- Components

Params == INSTANCE ParameterTree WITH
    Default <- DefaultValues, Values <- ParameterValues, phase <- walkPhase

Companion == INSTANCE HelicityCompanion WITH MaxPoints <- MaxBatch

PartsAssumption ==
    /\ Points!SizeAssumption /\ Points!ListAssumption
    /\ Params!TreeAssumption /\ Params!NameAssumption
    /\ Companion!CompanionAssumption
    /\ \A c \in Scenes : Requests[c] \subseteq Points!Request

Parts == {"points", "parameters", "companion"}
selectors == <<phase, calls, request, output, sets, chosen, crossing, lookup, plan,
    partitions, counts, cursors, gatheredRows, gatheredBatch, totals, index, from>>
parameters == <<base, derived, mass, factor, sector, walkPhase, overrides, snapshot,
    at, pending, previous, asked>>
companion == <<packed, model, held, version, family, amplitude, active, tables, call,
    answer>>
vars == <<part, scene, selectors, parameters, companion>>

Init ==
    /\ part \in Parts /\ scene \in Scenes
    /\ part # "points" => scene = CHOOSE c \in Scenes : TRUE
    /\ Points!Init /\ Params!Init /\ Companion!Init
    /\ part # "companion" => packed

PointsNext ==
    \/ \E r \in Requests[scene] : calls < CallsOf[scene] /\ Points!Call(r)
    \/ Points!Clear \/ Points!Step

Next ==
    /\ UNCHANGED <<part, scene>>
    /\ \/ part = "points" /\ PointsNext /\ UNCHANGED <<parameters, companion>>
       \/ part = "parameters" /\ Params!Next /\ UNCHANGED <<selectors, companion>>
       \/ part = "companion" /\ Companion!Next /\ UNCHANGED <<selectors, parameters>>

Spec == Init /\ [][Next]_vars

----------------------------------------------------------------------------
TypeOK == Points!TypeOK /\ Params!TypeOK /\ Companion!TypeOK

\* What a runtime keeps between calls or computes ahead of a call is never of
\* another state: its parameters, what is derived from them and the mass class
\* of each particle are those of the accepted updates; no sector selector
\* outlives its evaluation; the tables of the kernels are of the retained
\* family; a plan groups the rows of its own call.
NothingStale ==
    /\ Params!AllOrNothing /\ Params!ComputedFromHeld /\ Params!MassClassKept
    /\ Params!SelectorRestored
    /\ Companion!TablesAreOfRetained
    /\ Points!StablePartitions

\* Every call answers its own request, row by row, whatever was selected,
\* grouped, retained or failed before it on the same runtime (PointPromise for
\* the per-point selectors).
EveryCallAnswers ==
    /\ Points!AnswersItsRequest
    /\ [][Companion!AnswersItsRequest']_companion
=============================================================================
