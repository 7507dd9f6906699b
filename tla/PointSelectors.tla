--------------------------- MODULE PointSelectors ---------------------------
(***************************************************************************)
(* Evaluation with one selector for each point                             *)
(* (engine/point_selectors.rs and its two callers in                       *)
(* engine/native_runtime.rs).                                              *)
(*                                                                         *)
(* A call resolves its global selections through a small cache, groups its *)
(* rows by selector, evaluates one group after another into a buffer of    *)
(* the runtime, and copies the buffer to the caller's output at the end.   *)
(* The planner, the gathered batch and the buffer are kept between calls;  *)
(* the crossing map is taken out of the runtime for the time of a call.    *)
(*                                                                         *)
(* Abstraction: the value of a row is the record of what was computed: its *)
(* point, the components summed on either axis, whether the crossing map   *)
(* was applied and whether the group factor was.  A kernel that fails has  *)
(* written the first rows of its destination, any number of them.          *)
(* partition_totals is resized and filled before each use and so is no     *)
(* state; partition_index_by_key is always the inverse of the keys of      *)
(* partitions.  Rows are numbered from 1; start and end are the code's.    *)
(***************************************************************************)
EXTENDS Naturals, Sequences, SequencesExt

CONSTANTS
    None, Unset,
    Count,      \* Count[a]: components of the artifact on axis a
    Ids,        \* Ids[a]: the global selections a caller passes
    ByPoint,    \* ByPoint[a]: the per-point selectors a caller passes
    MaxPoints,  \* bound of the points of a batch
    CacheSize,  \* SelectorSetCache::MAX_ENTRIES
    MaxCalls    \* bound of the number of calls

Axis == {"helicity", "color"}

SizeAssumption ==
    /\ CacheSize \in Nat \ {0} /\ MaxPoints \in Nat /\ MaxCalls \in Nat
    /\ Count \in [Axis -> Nat \ {0}]
\* A caller passes lists of unsigned numbers.
ListAssumption ==
    /\ Ids \in [Axis -> SUBSET (Seq(Nat) \cup {None})]
    /\ ByPoint \in [Axis -> SUBSET (Seq(Nat) \cup {None})]
    /\ None \notin Nat
    /\ \A a \in Axis : \A ids \in Ids[a] \ {None} : Range(ids) # None

VARIABLES
    lane,        \* of the artifact: "generic" or "on-the-fly"
    phase,       \* where the call is, "idle" between calls
    calls,       \* calls so far
    request,     \* arguments of the call, None between calls
    output,      \* the caller's output slice
    sets,        \* sets[a]: the entries of the SelectorSetCache of a
    chosen,      \* chosen[a]: the global selection, None if there is none
    crossing,    \* the runtime holds its input_crossing_map
    lookup,      \* crossing_lookup: the map is with the call
    plan,        \* PointSelectorPlan
    partitions,  \* partitions of the planner
    counts,      \* partition_counts
    cursors,     \* partition_cursors
    gatheredRows,   \* gathered_rows of the planner
    gatheredBatch,  \* gathered_batch of the scratch
    totals,      \* output_totals of the scratch
    index,       \* loop variable: a row or a partition
    from         \* run_start, or the offset of the layout

planner == <<partitions, counts, cursors, gatheredRows>>
local == <<index, from>>
arguments == <<calls, request>>
selection == <<sets, chosen>>
vars == <<lane, phase, arguments, output, selection, crossing, lookup, plan, planner,
          gatheredBatch, totals, local>>

Init ==
    /\ lane \in {"generic", "on-the-fly"}
    /\ phase = "idle" /\ calls = 0 /\ request = None /\ output = <<>>
    /\ sets = [a \in Axis |-> <<>>] /\ chosen = [a \in Axis |-> None]
    /\ crossing = TRUE /\ lookup = FALSE
    /\ plan = "none" /\ partitions = <<>> /\ counts = <<>> /\ cursors = <<>>
    /\ gatheredRows = <<>> /\ gatheredBatch = <<>> /\ totals = <<>>
    /\ index = 0 /\ from = 0

OnAxes(choices) == [helicity : choices["helicity"], color : choices["color"]]
Request == [points : 0..MaxPoints, ids : OnAxes(Ids), by : OnAxes(ByPoint)]

Row(i) == <<calls, i>>
Batch == [i \in 1..request.points |-> Row(i)]
PerPoint == \E a \in Axis : request.by[a] # None

\* selector_key
Key(i) == [a \in Axis |-> IF request.by[a] = None THEN None ELSE request.by[a][i]]
NoKey == [a \in Axis |-> None]

----------------------------------------------------------------------------
(* Kernels.                                                                *)

\* The selector of the key, or the global selection, or the whole axis.
Effective(a, key) ==
    IF key[a] # None THEN {key[a]}
    ELSE IF chosen[a] # None THEN chosen[a] ELSE 0..(Count[a] - 1)

\* The values of the points with the selection of a key.
Values(points, key) ==
    [i \in DOMAIN points |->
        [point |-> points[i], helicities |-> Effective("helicity", key),
         colors |-> Effective("color", key), crossed |-> lookup, scaled |-> FALSE]]

\* dest with its rows start+1 .. start+k overwritten.
Written(dest, start, values, k) ==
    [i \in DOMAIN dest |-> IF i \in (start + 1)..(start + k) THEN values[i - start] ELSE dest[i]]

\* apply_process_group_factor
Scaled(values) == [i \in DOMAIN values |-> [values[i] EXCEPT !.scaled = TRUE]]

----------------------------------------------------------------------------
(* The start and the end of a call.                                        *)

Call(r) ==
    /\ phase = "idle" /\ calls < MaxCalls
    /\ phase' = "admit" /\ calls' = calls + 1 /\ request' = r
    /\ output' = [i \in 1..r.points |-> Unset]
    /\ UNCHANGED <<selection, crossing, lookup, plan, planner, gatheredBatch, totals, local>>

\* Mutant: an early return that keeps the crossing map.
GiveBackNothing ==
    /\ phase' = "idle" /\ request' = None
    /\ chosen' = NoKey
    /\ UNCHANGED <<crossing, lookup, calls>>

\* The scratch and the crossing map go back to the runtime, whatever happened.
GiveBack ==
    /\ phase' = "idle" /\ request' = None
    /\ crossing' = (crossing \/ lookup) /\ lookup' = FALSE
    /\ chosen' = NoKey
    /\ UNCHANGED calls

Fail == GiveBack /\ UNCHANGED output

\* An empty batch, or both forms of selection on one axis.
Excluded == \/ request.points = 0
            \/ \E a \in Axis : request.ids[a] # None /\ request.by[a] # None

Refuse ==
    /\ phase = "admit" /\ Excluded
    /\ Fail
    /\ UNCHANGED <<sets, plan, planner, gatheredBatch, totals, local>>

\* SelectorSetCache::resolve: the entries it leaves and the set it returns.
Refused(ids) == ids = <<>> \/ ~ IsInjective(ids)

\* Mutant: a full cache recycles the set of its oldest entry.
ResolveRecycled(entries, ids) ==
    IF \E e \in Range(entries) : e.ids = ids THEN entries
    ELSE Append(IF Len(entries) = CacheSize THEN Tail(entries) ELSE entries,
                [ids |-> ids, selected |-> IF Len(entries) = CacheSize
                                           THEN entries[1].selected ELSE Range(ids)])

\* Mutant: nothing leaves a full cache.
ResolveUnbounded(entries, ids) ==
    IF \E e \in Range(entries) : e.ids = ids THEN entries
    ELSE Append(entries, [ids |-> ids, selected |-> Range(ids)])

Resolve(entries, ids) ==
    IF \E e \in Range(entries) : e.ids = ids THEN entries
    ELSE Append(IF Len(entries) = CacheSize THEN Tail(entries) ELSE entries,
                [ids |-> ids, selected |-> Range(ids)])

Resolved(entries, ids) == (CHOOSE e \in Range(entries) : e.ids = ids).selected

\* Both selections are resolved, the helicities first; nothing is taken back
\* from the cache when the colors are refused.
Admit ==
    LET bad(a) == request.ids[a] # None /\ Refused(request.ids[a])
        kept == {a \in Axis : request.ids[a] # None /\ ~ bad(a)
                              /\ (a = "color" => ~ bad("helicity"))}
        after == [a \in Axis |->
                    IF a \in kept THEN Resolve(sets[a], request.ids[a]) ELSE sets[a]]
    IN
    /\ phase = "admit" /\ ~ Excluded
    /\ sets' = after
    /\ IF \E a \in Axis : bad(a)
       THEN Fail /\ UNCHANGED <<plan, planner, gatheredBatch, totals, local>>
       ELSE /\ chosen' = [a \in Axis |-> IF a \in kept
                                         THEN Resolved(after[a], request.ids[a]) ELSE None]
            /\ phase' = "build"
            /\ crossing' = FALSE /\ lookup' = crossing
            /\ UNCHANGED <<arguments, output, plan, planner, gatheredBatch, totals, local>>

----------------------------------------------------------------------------
(* The planner.                                                            *)

\* validate_selector_axis
InvalidAxis(a) ==
    /\ request.by[a] # None
    /\ \/ Len(request.by[a]) # request.points
       \/ \E i \in DOMAIN request.by[a] : request.by[a][i] >= Count[a]

Homogeneous == \A i \in 2..request.points : Key(i) = Key(1)

\* Mutant: clear_plan is missing.
ClearedKept == UNCHANGED planner

\* The on-the-fly lane does not touch the planner without per-point selectors.
Cleared == IF lane = "on-the-fly" /\ ~ PerPoint THEN UNCHANGED planner
           ELSE /\ partitions' = <<>> /\ counts' = <<>> /\ cursors' = <<>>
                /\ gatheredRows' = <<>>

Build ==
    /\ phase = "build"
    /\ Cleared
    /\ UNCHANGED <<sets, gatheredBatch>>
    /\ IF \E a \in Axis : InvalidAxis(a)
       THEN Fail /\ UNCHANGED <<plan, totals, local>>
       ELSE /\ plan' = (IF ~ PerPoint THEN "none"
                        ELSE IF Homogeneous THEN "homogeneous"
                        ELSE "partitioned")
            /\ phase' = (IF plan' = "partitioned" THEN "runs" ELSE "execute")
            /\ index' = 1 /\ from' = 0
            /\ totals' = (IF plan' = "none" \/ (plan' = "homogeneous" /\ lane = "generic")
                          THEN totals ELSE [i \in 1..request.points |-> Unset])
            /\ UNCHANGED <<arguments, output, chosen, crossing, lookup>>

Known(key) == \E j \in DOMAIN partitions : partitions[j].key = key
PartitionOf(key) == CHOOSE j \in DOMAIN partitions : partitions[j].key = key

Partition(key, gathered, start, end) ==
    [key |-> key, gathered |-> gathered, start |-> start, end |-> end]

\* The row continues the run, whose key is that of its first row.
Continues == index < request.points /\ Key(index + 1) = Key(from + 1)

\* Mutant: a key that comes back opens another run.
GivesUpNever == FALSE

GivesUp == Known(Key(from + 1))

\* One turn of build_contiguous_runs: it extends the run, closes it, or gives
\* up because the key of the run had one before.
RunStep ==
    /\ phase = "runs"
    /\ UNCHANGED <<arguments, output, selection, crossing, lookup, plan, gatheredBatch,
                   totals, cursors, gatheredRows>>
    /\ \/ /\ Continues
          /\ index' = index + 1
          /\ UNCHANGED <<phase, partitions, counts, from>>
       \/ /\ ~ Continues /\ ~ GivesUp
          /\ partitions' = Append(partitions, Partition(Key(from + 1), FALSE, from, index))
          /\ from' = index
          /\ IF index = request.points THEN index' = 1 /\ phase' = "execute"
                                       ELSE index' = index + 1 /\ UNCHANGED phase
          /\ UNCHANGED counts
       \/ /\ ~ Continues /\ GivesUp
          /\ partitions' = <<>> /\ counts' = <<>>
          /\ index' = 1 /\ from' = 0 /\ phase' = "count"

\* One turn of the first loop of build_stable_gathered_partitions.
CountStep ==
    LET key == Key(index) IN
    /\ phase = "count" /\ index <= request.points
    /\ IF Known(key)
       THEN /\ counts' = [counts EXCEPT ![PartitionOf(key)] = @ + 1]
            /\ UNCHANGED partitions
       ELSE /\ counts' = Append(counts, 1)
            /\ partitions' = Append(partitions, Partition(key, TRUE, 0, 0))
    /\ index' = (IF index = request.points THEN 1 ELSE index + 1)
    /\ phase' = (IF index = request.points THEN "layout" ELSE phase)
    /\ cursors' = (IF index = request.points
                   THEN [j \in DOMAIN partitions' |-> 0] ELSE cursors)
    /\ UNCHANGED <<arguments, output, selection, crossing, lookup, plan, gatheredRows,
                   gatheredBatch, totals, from>>

End(j) == from + counts[j]

\* One turn of the loop that lays the partitions out.
LayoutStep ==
    /\ phase = "layout" /\ index <= Len(partitions)
    /\ partitions' = [partitions EXCEPT ![index] =
                         Partition(@.key, @.gathered, from, End(index))]
    /\ cursors' = [cursors EXCEPT ![index] = from]
    /\ from' = End(index)
    /\ index' = (IF index = Len(partitions) THEN 1 ELSE index + 1)
    /\ phase' = (IF index = Len(partitions) THEN "place" ELSE phase)
    /\ gatheredRows' = (IF index = Len(partitions)
                        THEN [i \in 1..request.points |-> 0] ELSE gatheredRows)
    /\ UNCHANGED <<arguments, output, selection, crossing, lookup, plan, counts,
                   gatheredBatch, totals>>

\* One turn of the loop that places the rows.
PlaceStep ==
    LET j == PartitionOf(Key(index)) IN
    /\ phase = "place" /\ index <= request.points
    /\ gatheredRows' = [gatheredRows EXCEPT ![cursors[j] + 1] = index]
    /\ cursors' = [cursors EXCEPT ![j] = @ + 1]
    /\ index' = (IF index = request.points THEN 1 ELSE index + 1)
    /\ phase' = (IF index = request.points THEN "execute" ELSE phase)
    /\ UNCHANGED <<arguments, output, selection, crossing, lookup, plan, partitions, counts,
                   gatheredBatch, totals, from>>

----------------------------------------------------------------------------
(* Execution.                                                              *)

\* A batch of one selection, on the borrowed output or through the buffer.
ExecuteWhole ==
    LET direct == plan = "none" \/ lane = "generic"
        values == Values(Batch, IF plan = "none" THEN NoKey ELSE Key(1))
    IN
    /\ phase = "execute" /\ plan # "partitioned"
    /\ GiveBack
    /\ \/ /\ output' = Scaled(values)
          /\ totals' = IF direct THEN totals ELSE values
       \/ \E k \in 0..request.points :
             /\ output' = IF direct THEN Written(output, 0, values, k) ELSE output
             /\ totals' = IF direct THEN totals ELSE Written(totals, 0, values, k)
    /\ UNCHANGED <<sets, plan, planner, gatheredBatch, local>>

Current == partitions[index]

Executing == phase = "execute" /\ plan = "partitioned" /\ index <= Len(partitions)

ExecuteContiguous ==
    LET points == SubSeq(Batch, Current.start + 1, Current.end)
        values == Values(points, Current.key)
    IN
    /\ Executing /\ ~ Current.gathered
    /\ \/ /\ totals' = Written(totals, Current.start, values, Len(points))
          /\ index' = index + 1
          /\ UNCHANGED <<phase, arguments, output, chosen, crossing, lookup>>
       \/ /\ \E k \in 0..Len(points) : totals' = Written(totals, Current.start, values, k)
          /\ Fail
          /\ UNCHANGED index
    /\ UNCHANGED <<sets, plan, planner, gatheredBatch, from>>

\* fill_gathered_batch_from_view: the batch grows and never shrinks.
\* Mutant: the rows are taken in the order of the caller.
FilledInOrder(batch, rows) ==
    [i \in 1..(IF Len(batch) < Len(rows) THEN Len(rows) ELSE Len(batch)) |->
        IF i <= Len(rows) THEN Row(i) ELSE batch[i]]

Filled(batch, rows) ==
    [i \in 1..(IF Len(batch) < Len(rows) THEN Len(rows) ELSE Len(batch)) |->
        IF i <= Len(rows) THEN Row(rows[i]) ELSE batch[i]]

\* scatter_partition_totals
Scattered(dest, rows, values) ==
    [i \in DOMAIN dest |-> IF i \in Range(rows)
                           THEN values[CHOOSE j \in DOMAIN rows : rows[j] = i] ELSE dest[i]]

ExecuteGathered ==
    LET rows == SubSeq(gatheredRows, Current.start + 1, Current.end)
        batch == Filled(gatheredBatch, rows)
        values == Values(SubSeq(batch, 1, Len(rows)), Current.key)
    IN
    /\ Executing /\ Current.gathered
    /\ gatheredBatch' = batch
    /\ \/ /\ totals' = Scattered(totals, rows, values)
          /\ index' = index + 1
          /\ UNCHANGED <<phase, arguments, output, chosen, crossing, lookup>>
       \/ /\ Fail
          /\ UNCHANGED <<totals, index>>
    /\ UNCHANGED <<sets, plan, planner, from>>

Finish ==
    /\ phase = "execute" /\ plan = "partitioned" /\ index > Len(partitions)
    /\ output' = Scaled(totals)
    /\ GiveBack
    /\ UNCHANGED <<sets, plan, planner, gatheredBatch, totals, local>>

\* NativeRuntime::clear drops the scratch of an on-the-fly or a recurrence
\* artifact, with all it had grown to.
Clear ==
    /\ phase = "idle"
    /\ sets' = [a \in Axis |-> <<>>]
    /\ partitions' = <<>> /\ counts' = <<>> /\ cursors' = <<>>
    /\ gatheredRows' = <<>> /\ gatheredBatch' = <<>> /\ totals' = <<>>
    /\ UNCHANGED <<phase, arguments, output, chosen, crossing, lookup, plan, local>>

----------------------------------------------------------------------------
Step == \/ Refuse \/ Admit \/ Build \/ RunStep \/ CountStep \/ LayoutStep \/ PlaceStep
        \/ ExecuteWhole \/ ExecuteContiguous \/ ExecuteGathered \/ Finish

Next == ((\E r \in Request : Call(r)) \/ Clear \/ Step) /\ UNCHANGED lane

Spec == Init /\ [][Next]_vars

----------------------------------------------------------------------------
(* Properties.                                                             *)

\* The planner and the scratch never exceed the largest batch, the cache its
\* bound, and the crossing map is in exactly one place
\* (point_selectors.rs:57-64 and 289-319, native_runtime.rs:3018-3142).
TypeOK ==
    /\ phase \in {"idle", "admit", "build", "runs", "count", "layout", "place", "execute"}
    /\ calls \in 0..MaxCalls
    /\ \A a \in Axis : Len(sets[a]) <= CacheSize
    /\ crossing # lookup
    /\ \A j \in DOMAIN partitions : /\ partitions[j].start \in 0..MaxPoints
                                    /\ partitions[j].end \in 0..MaxPoints
    /\ Len(gatheredRows) <= MaxPoints
    /\ Len(gatheredBatch) <= MaxPoints /\ Len(totals) <= MaxPoints

\* The rows of a partition, in the order in which they are evaluated.
RowsOf(p) == IF p.gathered THEN SubSeq(gatheredRows, p.start + 1, p.end)
             ELSE [i \in 1..(p.end - p.start) |-> p.start + i]

\* A finished plan groups the rows as documented: there is one partition for
\* each key that occurs, in the order of first occurrence, and it holds all
\* the rows of its key, in the order of the caller (point_selectors.rs:52-56).
StablePartitions ==
    phase = "execute" /\ plan = "partitioned" =>
        /\ \A j \in DOMAIN partitions :
              LET rows == RowsOf(partitions[j]) IN
              /\ rows # <<>>
              /\ Range(rows) = {i \in 1..request.points : Key(i) = partitions[j].key}
              /\ \A m, n \in DOMAIN rows : m < n => rows[m] < rows[n]
        /\ \A i \in 1..request.points : Known(Key(i))
        /\ \A j, k \in DOMAIN partitions :
              j < k => RowsOf(partitions[j])[1] < RowsOf(partitions[k])[1]

\* What the request asks for, from its arguments alone.
Wanted(r, c, i) ==
    LET asked(a) == IF r.by[a] # None THEN {r.by[a][i]}
                    ELSE IF r.ids[a] # None THEN Range(r.ids[a]) ELSE 0..(Count[a] - 1)
    IN [point |-> <<c, i>>, helicities |-> asked("helicity"), colors |-> asked("color"),
        crossed |-> TRUE, scaled |-> FALSE]

IsConstant(list) == \A i, j \in DOMAIN list : list[i] = list[j]

\* The arguments of the promise: a request together with the number of its call.
Untouched(rc) == [i \in 1..rc[1].points |-> Unset]
Unfinished(rc) == [i \in 1..rc[1].points |-> Wanted(rc[1], rc[2], i)]
Answers(rc) == Scaled(Unfinished(rc))
Mixed(rc) == \E a \in Axis : rc[1].by[a] # None /\ ~ IsConstant(rc[1].by[a])

Acceptable(rc) ==
    /\ rc[1].points > 0
    /\ \A a \in Axis :
          /\ rc[1].ids[a] # None =>
                rc[1].ids[a] # <<>> /\ IsInjective(rc[1].ids[a]) /\ rc[1].by[a] = None
          /\ rc[1].by[a] # None => rc[1].by[a] \in [1..rc[1].points -> 0..(Count[a] - 1)]

Promised == INSTANCE PointPromise WITH
    None <- <<>>, Request <- Request \X Nat, Rows <- Unfinished,
    call <- IF phase = "idle" THEN <<>> ELSE <<request, calls>>,
    answer <- IF phase = "idle" THEN output ELSE <<>>

\* Every call answers its own request, row by row, whatever selections,
\* groupings and failures came before it on the same runtime; a failure in
\* one group of a mixed batch leaves the caller's output alone
\* (native_runtime.rs:3018-3145 and 3161-3285).
AnswersItsRequest == Promised!Spec
=============================================================================
