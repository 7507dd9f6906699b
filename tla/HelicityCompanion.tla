-------------------------- MODULE HelicityCompanion --------------------------
(***************************************************************************)
(* The helicity-selector companion of the recurrence lane                  *)
(* (engine/recurrence_lane.rs): a call that selects one helicity runs in   *)
(* tiles on the one family that the persisted executor keeps               *)
(* (recurrence/on_the_fly/persisted.rs), and the kernels keep tables of    *)
(* pointers that they look up by the addresses of the rows and of the      *)
(* workspace (evaluator/symjit_direct.rs).                                 *)
(*                                                                         *)
(* Rows and workspaces are allocated and dropped, and an address may be    *)
(* allocated again: a table made for dropped rows is then found for the    *)
(* new ones.                                                               *)
(*                                                                         *)
(* Abstraction: the rows of a family are at one address and say which      *)
(* helicity they are of.  An amplitude is the sequence of what was added   *)
(* to it: the helicity of the rows, the parameters and the point.  What    *)
(* the color contraction makes of the amplitudes of a point is the         *)
(* function of its amplitudes.  Invalidation, which fails only during a    *)
(* kernel call, succeeds: a call has exclusive access to the runtime.      *)
(***************************************************************************)
EXTENDS Naturals, Sequences

CONSTANTS
    None,
    Helicity,      \* the public helicities
    Destination,   \* the amplitude destinations
    Live,          \* Live[h]: destinations that a closure of h adds to
    StructuralZero,\* helicities that are zero for every point
    Value,         \* model-parameter values
    Default,       \* the values of the artifact
    Point,         \* external momenta of a point
    Address,       \* addresses of allocations
    TileSize,      \* effective_point_tile_size
    Alignment,     \* a larger stride is a multiple of this
    MaxPoints,     \* bound: points of a batch
    MaxVersion     \* bound: parameter versions

\* A retained family: where its rows and its workspace are, and what that holds.
Family ==
    [helicity : Helicity, rows : Address, work : Address, capacity : 1..TileSize,
     values : Value \cup {None}, applied : (0..MaxVersion) \cup {None}, exposed : BOOLEAN]

CompanionAssumption ==
    /\ Live \in [Helicity -> SUBSET Destination]
    /\ StructuralZero \subseteq Helicity
    /\ Default \in Value
    /\ {TileSize, Alignment, MaxPoints} \subseteq Nat \ {0}
    /\ MaxVersion \in Nat
    /\ None \notin Value \cup (0..MaxVersion) \cup Family

VARIABLES
    packed,      \* the executors of the artifact take a point stride of one
    model,       \* the parameter values of the runtime
    held,        \* parameter_state
    version,     \* parameter_version
    family,      \* the retained family, or None
    amplitude,   \* amplitude arena of its workspace
    active,      \* active_point_count
    tables,      \* what the kernels cached, for each of their workspaces
    call,        \* the call in progress, or None
    answer       \* what the last call that succeeded returned (history)

executor == <<held, version, family, amplitude, active, tables>>
vars == <<packed, executor, model, call, answer>>

NoTables == [storage |-> None, groups |-> {}]
Lane == {"scalar", "tiled"}

\* checked_aligned_point_stride, and the packed singleton
Stride(capacity) ==
    IF capacity = 1 /\ packed THEN 1
    ELSE ((capacity + Alignment - 1) \div Alignment) * Alignment

Empty == [d \in Destination |-> [p \in 1..TileSize |-> << >>]]

Init ==
    /\ packed \in BOOLEAN
    /\ model = Default
    /\ held = None /\ version = 0
    /\ family = None /\ amplitude = Empty /\ active = 0
    /\ tables = [lane \in Lane |-> NoTables]
    /\ call = None /\ answer = None

----------------------------------------------------------------------------
(* The caches.                                                             *)

\* Mutant: only the tables of the tiled workspace are dropped.
InvalidatedTiled ==
    IF family # None /\ family.exposed THEN [tables EXCEPT !["tiled"] = NoTables] ELSE tables

\* Mutant: the kernels are thought to notice that rows were dropped.
InvalidatedNever == tables

\* invalidate_exposed_row_tables, over all executors of the pool.
Invalidated ==
    IF family # None /\ family.exposed THEN [lane \in Lane |-> NoTables] ELSE tables

Used == IF family = None THEN {} ELSE {family.rows, family.work}

\* clear_families
Clear ==
    /\ call = None
    /\ tables' = Invalidated
    /\ family' = None /\ amplitude' = Empty /\ active' = 0
    /\ UNCHANGED <<held, version, model, call, answer>>

----------------------------------------------------------------------------
(* A call.                                                                 *)

SetModelParameters(v) ==
    /\ call = None /\ v # model
    /\ model' = v
    /\ UNCHANGED <<executor, call, answer>>

Batch == UNION {[1..n -> Point] : n \in 1..MaxPoints}

\* set_parameter_planes
SetParameterPlanes ==
    /\ held' = model
    /\ version' = IF held = model THEN version ELSE version + 1

\* run_f64_view_into_unprofiled with one helicity: the output is filled with
\* zeros, and the parameters are handed to the companion.
Start(h, batch) ==
    /\ call = None /\ h \notin StructuralZero
    /\ version < MaxVersion \/ held = model
    /\ SetParameterPlanes
    /\ call' = [helicity |-> h, batch |-> batch, from |-> 0, phase |-> "prepare",
                output |-> [p \in DOMAIN batch |-> << >>]]
    /\ answer' = None
    /\ UNCHANGED <<model, family, amplitude, active, tables>>

\* A structural zero is answered without preparing anything.
StartZero(h, batch) ==
    /\ call = None /\ h \in StructuralZero
    /\ answer' = [helicity |-> h, batch |-> batch, values |-> model,
                  output |-> [p \in DOMAIN batch |-> << >>]]
    /\ UNCHANGED <<executor, model, call>>

\* Points of the tile.
Count ==
    LET left == Len(call.batch) - call.from IN IF left < TileSize THEN left ELSE TileSize

At(phase) == call # None /\ call.phase = phase

Fail ==
    /\ call # None
    /\ call' = None
    /\ UNCHANGED <<executor, model, answer>>

Go(phase) == call' = [call EXCEPT !.phase = phase] /\ UNCHANGED <<model, answer>>

\* Mutant: a family is taken for that of every helicity.
RetainedAny == family # None

Retained == family # None /\ family.helicity = call.helicity

\* prepare: the family is bound to the helicity of the call already.
PrepareRetained ==
    /\ At("prepare")
    /\ Retained /\ Count <= family.capacity
    /\ Go("execute")
    /\ UNCHANGED executor

\* The bound family with a larger workspace.
Grown(w) == [family EXCEPT !.work = w, !.capacity = Count, !.values = None,
                           !.applied = None, !.exposed = FALSE]

\* prepare: the tile does not fit into its workspace.
PrepareLarger ==
    /\ At("prepare")
    /\ Retained /\ Count > family.capacity
    /\ \E w \in Address \ Used : family' = Grown(w)
    /\ tables' = Invalidated
    /\ amplitude' = Empty /\ active' = 0
    /\ Go("execute")
    /\ UNCHANGED <<held, version>>

\* prepare: a new family is bound while the old one is alive, and replaces it.
PrepareNew ==
    /\ At("prepare") /\ ~ Retained
    /\ \E r, w \in Address \ Used :
          /\ r # w
          /\ family' = [helicity |-> call.helicity, rows |-> r, work |-> w, capacity |-> Count,
                        values |-> None, applied |-> None, exposed |-> FALSE]
    /\ tables' = Invalidated
    /\ amplitude' = Empty /\ active' = 0
    /\ Go("execute")
    /\ UNCHANGED <<held, version>>

\* The tile is refused, or what it needs cannot be bound or allocated; the
\* retained family stays.
PrepareFails == At("prepare") /\ Fail

----------------------------------------------------------------------------
(* The tile.                                                               *)

\* refresh_parameters, when the version of the workspace is not the current.
Refreshed ==
    IF family.applied = version THEN [family EXCEPT !.exposed = TRUE]
    ELSE [family EXCEPT !.values = held, !.applied = version, !.exposed = TRUE]

\* refresh_inputs clears the points of the tile in every destination.
Cleared ==
    [d \in Destination |-> [p \in 1..TileSize |->
        IF p <= Count THEN << >> ELSE amplitude[d][p]]]

Storage == <<family.work, Stride(family.capacity)>>
KernelLane == IF Stride(family.capacity) = 1 THEN "scalar" ELSE "tiled"

\* The tables a kernel keeps for the storage it is called with.
Known(t) == IF t.storage = Storage THEN t.groups ELSE {}

\* execute_rows: the table for the address of the rows, made if there is none.
Group ==
    LET known == {g \in Known(tables[KernelLane]) : g.rows = family.rows}
    IN  IF known # {} THEN CHOOSE g \in known : TRUE
        ELSE [rows |-> family.rows, helicity |-> family.helicity]

Cached ==
    [tables EXCEPT ![KernelLane] =
        [storage |-> Storage, groups |-> Known(tables[KernelLane]) \cup {Group}]]

\* What the closures of destinations D add to the cleared arena.
Written(D) ==
    [d \in Destination |-> [p \in 1..TileSize |->
        IF d \in D /\ p <= Count
        THEN Append(Cleared[d][p], [helicity |-> Group.helicity, values |-> Refreshed.values,
                                    point |-> call.batch[call.from + p]])
        ELSE Cleared[d][p]]]

\* execute_active up to a kernel that fails.
ExecuteFails ==
    /\ At("execute")
    /\ family' = Refreshed
    /\ \E D \in SUBSET Live[Group.helicity] :
          /\ D # Live[Group.helicity]
          /\ amplitude' = Written(D)
          /\ tables' = IF D = {} THEN tables ELSE Cached
    /\ active' = 0 /\ call' = None
    /\ UNCHANGED <<held, version, model, answer>>

\* execute_active
Execute ==
    /\ At("execute")
    /\ family' = Refreshed
    /\ amplitude' = Written(Live[Group.helicity])
    /\ tables' = Cached
    /\ active' = Count
    /\ Go("contract")
    /\ UNCHANGED <<held, version>>

\* active_tile and contract_primary_local_color_tile
Accumulated ==
    [p \in DOMAIN call.batch |->
        IF p \in (call.from + 1)..(call.from + Count)
        THEN Append(call.output[p], [d \in Destination |-> amplitude[d][p - call.from]])
        ELSE call.output[p]]

Advance == call.from + Count

\* The tile is added to the output; the loop goes on or the call returns.
Contract ==
    /\ At("contract") /\ active = Count
    /\ IF Advance < Len(call.batch)
       THEN /\ call' = [call EXCEPT !.output = Accumulated, !.from = Advance,
                                    !.phase = "prepare"]
            /\ UNCHANGED answer
       ELSE /\ answer' = [helicity |-> call.helicity, batch |-> call.batch,
                          values |-> model, output |-> Accumulated]
            /\ call' = None
    /\ UNCHANGED <<executor, model>>

----------------------------------------------------------------------------
Step == \/ PrepareRetained \/ PrepareLarger \/ PrepareNew \/ PrepareFails
        \/ Execute \/ ExecuteFails \/ Contract

Next ==
    /\ \/ Step \/ Clear
       \/ \E v \in Value : SetModelParameters(v)
       \/ \E h \in Helicity, b \in Batch : Start(h, b) \/ StartZero(h, b)
    /\ UNCHANGED packed

Spec == Init /\ [][Next]_vars

----------------------------------------------------------------------------
(* Properties.                                                             *)

\* The workspace fits the tile it has executed, and its parameters are those
\* of the version it is marked with (persisted.rs:449-480 and 1657-1664).
TypeOK ==
    /\ model \in Value /\ held \in Value \cup {None} /\ version \in 0..MaxVersion
    /\ family # None =>
          /\ family \in Family /\ family.rows # family.work
          /\ family.applied = version => family.values = held
    /\ active \in 0..(IF family = None THEN 0 ELSE family.capacity)
    /\ DOMAIN tables = Lane
    /\ call # None => call.from < Len(call.batch)

\* A call answers each of its points with the amplitudes of its helicity at
\* the parameters of the runtime, in every destination once, whatever was
\* retained or failed before it (persisted.rs:518-530 "H=A -> H=B -> H=A cannot
\* expose a stale amplitude"; recurrence_lane.rs:1095-1153).
AnswersItsRequest ==
    answer # None =>
        \A p \in DOMAIN answer.batch :
            answer.output[p] =
                IF answer.helicity \in StructuralZero THEN << >>
                ELSE <<[d \in Destination |->
                          IF d \in Live[answer.helicity]
                          THEN <<[helicity |-> answer.helicity, values |-> answer.values,
                                  point |-> answer.batch[p]]>>
                          ELSE << >>]>>

\* The tables of the kernels point into rows and a workspace that are alive:
\* they are of the retained family, which is marked exposed
\* (persisted.rs:1312-1325, 1582-1598 and 1640-1642).
TablesAreOfRetained ==
    \A lane \in Lane : tables[lane].groups # {} =>
        /\ family # None /\ family.exposed
        /\ tables[lane].storage = Storage
        /\ tables[lane].groups = {[rows |-> family.rows, helicity |-> family.helicity]}
=============================================================================
