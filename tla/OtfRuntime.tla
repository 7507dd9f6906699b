----------------------------- MODULE OtfRuntime -----------------------------
(***************************************************************************)
(* One on-the-fly runtime: the selection cache of its wrapper              *)
(* (OnTheFlyExecutionRuntime, engine/native_runtime.rs), the family cache  *)
(* of its lane (OnTheFlyNativeRuntime, engine/on_the_fly_lane.rs) and the  *)
(* executor below (FamilyExecutor).  Each layer keeps the last successful  *)
(* family and at most one candidate; a call selects, executes and commits, *)
(* and any step of it may fail.                                            *)
(*                                                                         *)
(* A selection is a public identity of the wrapper.  Requests maps it to   *)
(* the query list of the lane and FamilyOf maps that to its executable     *)
(* family: two selections may ask for the same queries (an omitted axis    *)
(* and the complete one), and two query lists may have the same rows (one  *)
(* has more structural zeros).                                             *)
(*                                                                         *)
(* Every call ends with no candidate in any layer (Coherent below), so the *)
(* branches of the code that find a matching candidate at the start of a   *)
(* call are unreachable and left out.                                      *)
(***************************************************************************)
EXTENDS FamilyExecutor, FiniteSets

CONSTANTS
    Selection,   \* public selections
    Query,       \* query lists of the lane
    Requests,    \* [Selection -> Query]
    FamilyOf,    \* [Query -> Family \cup {None}], None: all structural zeros
    Parameter,   \* runtime parameter vectors
    Default,     \* the one the artifact was written with
    Projection,  \* [Parameter -> Value], the prepared slots
    Modes,       \* TRUE for artifacts of contracted colour, FALSE for leading colour
    Tile,        \* point_tile_size of a contracted plan
    MaxCalls,    \* bound: calls that evaluate
    MaxUpdates   \* bound: parameter updates, clears, saves and loads

ASSUME DataAssumption ==
    /\ Requests \in [Selection -> Query]
    /\ FamilyOf \in [Query -> Family \cup {None}]
    /\ Projection \in [Parameter -> Value]
    /\ Default \in Parameter
ASSUME SentinelAssumption ==
    /\ None \notin Family \cup Selection \cup Query \cup Value \cup Nat
    /\ None \notin Bound
ASSUME ModeAssumption == Modes \subseteq BOOLEAN
ASSUME BoundAssumption ==
    /\ MaxPoints \in Nat \ {0}
    /\ Tile \in Nat \ {0}
    /\ MaxCalls \in Nat
    /\ MaxUpdates \in Nat

VARIABLES
    contracted,  \* the artifact's mode, contracted or leading colour
    executor,    \* the executor and its bindings
    lane,        \* [last, pending: families; prepared: grammar and policy;
                 \*  runtimeValues: the parameters last projected]
    wrapper,     \* [last, pending: selections]
    parameters,  \* model_parameter_values_f64 of the process
    call,        \* the call in progress
    computed,    \* what the tiles of the call computed
    answer,      \* what the last finished call returned, {} for an error
    file,        \* the snapshot file
    calls, updates

cache == <<executor, lane, wrapper>>
vars == <<contracted, executor, lane, wrapper, parameters, call, computed, answer, file,
          calls, updates>>

\* A prepared family of the lane: its queries, whether it has executable rows
\* (`handle` is then a generation of the executor once it is promoted).
LaneFamily == [requests : Query, handle : Nat \cup {None},
               capacity : 1..MaxPoints]

Idle == [phase |-> "idle"]
Call == [phase : {"select", "execute", "commit"}, op : {"evaluate", "warm_up"},
         selection : Selection, left : 0..MaxPoints]

Snapshot == [selection : Selection \cup {None}, lane : LaneFamily \cup {None},
             policy : BOOLEAN, family : Family \cup {None}]

\* Nor is the sentinel a record.
ASSUME RecordAssumption == None \notin LaneFamily \cup Snapshot

Init ==
    /\ contracted \in Modes
    /\ executor = NewExecutor(Projection[Default])
    /\ lane = [last |-> None, pending |-> None, prepared |-> FALSE,
               runtimeValues |-> Default]
    /\ wrapper = [last |-> None, pending |-> None]
    /\ parameters = Default
    /\ call = Idle
    /\ computed = {}
    /\ answer = {}
    /\ file = None
    /\ calls = 0 /\ updates = 0

Smaller(m, n) == IF m < n THEN m ELSE n
Larger(m, n) == IF m < n THEN n ELSE m

\* family_point_capacity: a contracted call executes in tiles.
TileOf(points) == IF contracted THEN Smaller(points, Tile) ELSE points

\* The lane family a call evaluates: current_family.
Current == IF lane.pending # None THEN lane.pending ELSE lane.last

Executable(family) == FamilyOf[family.requests] # None

----------------------------------------------------------------------------
(* Failure: what each layer gives up                                       *)

\* discard_pending_lc_queries and discard_pending_contracted_queries
DiscardCandidate(x) == DiscardPendingBindings(DiscardPendingFamily(x))

\* Mutant: every failing call with a prepared selection clears the caches.
WrapperAlwaysAborts(x, l) ==
    IF wrapper.pending # None
    THEN /\ executor' = ClearBindings(ClearFamilies(x))
         /\ lane' = [l EXCEPT !.pending = None, !.last = None]
         /\ wrapper' = [last |-> None, pending |-> None]
    ELSE /\ executor' = DiscardCandidate(x)
         /\ lane' = [l EXCEPT !.pending = None]
         /\ wrapper' = [wrapper EXCEPT !.pending = None]

\* discard_pending_selection of the wrapper, after the lane was left with
\* executor x and state l.  A contracted call whose selection was prepared
\* may already have committed its family on an earlier tile: everything is
\* cleared (abort_contracted_selection).
WrapperDiscards(x, l) ==
    IF contracted /\ wrapper.pending # None
    THEN /\ executor' = ClearBindings(ClearFamilies(x))
         /\ lane' = [l EXCEPT !.pending = None, !.last = None]
         /\ wrapper' = [last |-> None, pending |-> None]
    ELSE /\ executor' = DiscardCandidate(x)
         /\ lane' = [l EXCEPT !.pending = None]
         /\ wrapper' = [wrapper EXCEPT !.pending = None]

EndWithError ==
    /\ call' = Idle
    /\ computed' = {}
    /\ answer' = {}
    /\ UNCHANGED <<parameters, file, calls, updates>>

----------------------------------------------------------------------------
(* A call: warm_up_f64, run_total_into and its siblings                    *)

Begin(op, s, points) ==
    /\ call = Idle /\ calls < MaxCalls
    /\ op = "warm_up" => points = 1
    /\ call' = [phase |-> "select", op |-> op, selection |-> s,
                left |-> points]
    /\ calls' = calls + 1
    /\ answer' = {}
    /\ UNCHANGED <<cache, parameters, computed, file, updates>>

Selected ==
    /\ call' = [call EXCEPT !.phase = "execute"]
    /\ UNCHANGED <<parameters, computed, answer, file, calls, updates>>

\* warm_up_f64 prepares the process before it selects.
ProcessPrepared == lane.prepared \/ call.op = "warm_up"

\* Mutant: the lane notes the capacity, the executor is not asked to grow.
ReusedLastUngrown(capacity) ==
    /\ lane.last # None
    /\ lane.last.handle \in {None, executor.generation}
    /\ executor' = executor
    /\ lane' = [lane EXCEPT
                  !.last.capacity = Larger(@, capacity),
                  !.prepared = ProcessPrepared]

\* reuse_current_lc_queries and reuse_current_contracted_queries with no
\* candidate; the activation of a retained lane family does the same.  A
\* stale handle is refused.
ReusedLast(capacity) ==
    /\ lane.last # None
    /\ lane.last.handle \in {None, executor.generation}
    /\ executor' = IF /\ capacity > lane.last.capacity
                      /\ lane.last.handle # None
                   THEN ActivateRetained(executor, capacity) ELSE executor
    /\ lane' = [lane EXCEPT
                  !.last.capacity = Larger(@, capacity),
                  !.prepared = ProcessPrepared]

\* The wrapper's last selection is asked for again.
ReuseSelection ==
    /\ call.phase = "select" /\ wrapper.last = call.selection
    /\ ReusedLast(TileOf(call.left))
    /\ UNCHANGED wrapper
    /\ Selected

\* Another selection with the queries of the lane's last family.
ReuseQueries ==
    /\ call.phase = "select" /\ wrapper.last # call.selection
    /\ lane.last # None /\ lane.last.requests = Requests[call.selection]
    /\ ReusedLast(TileOf(call.left))
    /\ wrapper' = [wrapper EXCEPT !.pending = call.selection]
    /\ Selected

NeedsCandidate ==
    /\ call.phase = "select" /\ wrapper.last # call.selection
    /\ lane.last # None => lane.last.requests # Requests[call.selection]

\* The executor after a candidate for queries r was bound and prepared.
CandidateExecutor(r) ==
    IF FamilyOf[r] = None THEN executor
    ELSE Prepare(BindPending(executor, FamilyOf[r]),
                 [kind |-> IF contracted \/ call.op = "warm_up"
                           THEN "streamed" ELSE "exact",
                  family |-> FamilyOf[r]],
                 TileOf(call.left))

\* prepare_lc_queries_impl and prepare_contracted_queries_impl for queries the
\* lane does not retain.
PrepareCandidate ==
    /\ NeedsCandidate
    /\ LET r == Requests[call.selection]
       IN  /\ executor' = CandidateExecutor(r)
           /\ lane' = [lane EXCEPT
                         !.pending = [requests |-> r, handle |-> None,
                                      capacity |-> TileOf(call.left)],
                         !.prepared = TRUE]
    /\ wrapper' = [wrapper EXCEPT !.pending = call.selection]
    /\ Selected

\* Selection fails before the candidate reached the executor: an unknown
\* selector, a failed allocation or binding, a cancelled warm-up.  The
\* process may have been prepared.
SelectFails ==
    /\ call.phase = "select"
    /\ \E prepared \in {lane.prepared, TRUE} :
         WrapperDiscards(executor, [lane EXCEPT !.prepared = prepared])
    /\ EndWithError

\* A warm-up is cancelled at the end of the family's finalization, when the
\* executor already holds the candidate.
WarmUpCancelled ==
    /\ NeedsCandidate /\ call.op = "warm_up"
    /\ WrapperDiscards(CandidateExecutor(Requests[call.selection]),
                       [lane EXCEPT !.prepared = TRUE])
    /\ EndWithError

\* prepare_runtime_parameters
ParametersSet(x, l) ==
    IF l.runtimeValues = parameters THEN x
    ELSE SetParameters(x, Projection[parameters])

LaneParametersSet(l) == [l EXCEPT !.runtimeValues = parameters]

\* Mutant: the handle of the family that was replaced.
PromoteWithOldHandle(x, l) ==
    IF l.pending = None THEN [executor |-> x, lane |-> l]
    ELSE IF Executable(l.pending)
    THEN [executor |-> CommitPendingBindings(x),
          lane |-> [l EXCEPT !.pending = None,
                             !.last = [l.pending EXCEPT
                                         !.handle = executor.generation]]]
    ELSE [executor |-> ClearBindings(ClearFamilies(x)),
          lane |-> [l EXCEPT !.pending = None, !.last = l.pending]]

\* Mutant: an all-zero family leaves the rows of the previous one.
PromoteZeroKeepingRows(x, l) ==
    IF l.pending = None THEN [executor |-> x, lane |-> l]
    ELSE IF Executable(l.pending)
    THEN [executor |-> CommitPendingBindings(x),
          lane |-> [l EXCEPT !.pending = None,
                             !.last = [l.pending EXCEPT
                                         !.handle = x.generation]]]
    ELSE [executor |-> x,
          lane |-> [l EXCEPT !.pending = None, !.last = l.pending]]

\* promote_pending_family: the bindings are committed with the handle of the
\* executed family; an all-zero family clears the executor.
Promote(x, l) ==
    IF l.pending = None THEN [executor |-> x, lane |-> l]
    ELSE IF Executable(l.pending)
    THEN [executor |-> CommitPendingBindings(x),
          lane |-> [l EXCEPT !.pending = None,
                             !.last = [l.pending EXCEPT
                                         !.handle = x.generation]]]
    ELSE [executor |-> ClearBindings(ClearFamilies(x)),
          lane |-> [l EXCEPT !.pending = None, !.last = l.pending]]

\* The execution of one tile finds the family its capacity was prepared for.
Ready(x, points) ==
    /\ Active(x) # None
    /\ points <= Active(x).capacity

\* execute_amplitudes (one tile of execute_contracted_amplitudes) and its
\* reduction with the destinations of the lane's current family.
ExecuteTile ==
    /\ call.phase = "execute"
    /\ LET points == TileOf(call.left)
           x == ParametersSet(executor, lane)
           l == LaneParametersSet(lane)
           ran == Executable(Current)
           promoted == Promote(IF ran THEN ExecuteSucceeds(x) ELSE x, l)
       IN  /\ ran => Ready(x, points)
           /\ executor' = promoted.executor
           /\ lane' = promoted.lane
           /\ computed' = computed \cup
                {[requests |-> Current.requests,
                  family |-> IF ran THEN Active(x).identity.family ELSE None,
                  values |-> IF ran THEN ExecutedValues(x) ELSE None]}
           /\ call' = [call EXCEPT
                         !.left = @ - points,
                         !.phase = IF call.left = points THEN "commit" ELSE @]
    /\ UNCHANGED <<wrapper, parameters, answer, file, calls, updates>>

\* The call fails between selection and execution: the momenta, a scratch
\* allocation, a cancelled warm-up, the parameter projection.
InputFails ==
    /\ call.phase = "execute"
    /\ \/ WrapperDiscards(executor, lane)
       \/ WrapperDiscards(ParametersSet(executor, lane),
                          LaneParametersSet(lane))
    /\ EndWithError

\* A kernel fails: the executor drops its candidate, then the lane, then the
\* wrapper.
KernelFails ==
    /\ call.phase = "execute" /\ Executable(Current)
    /\ LET x == ParametersSet(executor, lane)
       IN  /\ Active(x) # None
           /\ WrapperDiscards(DiscardCandidate(ExecuteFails(x)),
                              [LaneParametersSet(lane) EXCEPT !.pending = None])
    /\ EndWithError

\* commit_pending_selection, and the call returns its values.
Commit ==
    /\ call.phase = "commit"
    /\ wrapper' = [last |-> IF wrapper.pending = None THEN wrapper.last
                            ELSE wrapper.pending,
                   pending |-> None]
    /\ answer' = computed
    /\ computed' = {}
    /\ call' = Idle
    /\ UNCHANGED <<executor, lane, parameters, file, calls, updates>>

----------------------------------------------------------------------------
(* The other operations of the runtime, between calls                      *)

Update ==
    /\ call = Idle /\ updates < MaxUpdates
    /\ updates' = updates + 1
    /\ UNCHANGED <<call, computed, answer, calls>>

\* set_model_parameter and its batch form
SetModelParameters(p) ==
    /\ Update
    /\ parameters' = p
    /\ UNCHANGED <<cache, file>>

\* Runtime.clear
Clear ==
    /\ Update
    /\ executor' = ClearBindings(ClearFamilies(executor))
    /\ lane' = [lane EXCEPT !.pending = None, !.last = None,
                            !.prepared = FALSE]
    /\ wrapper' = [last |-> None, pending |-> None]
    /\ UNCHANGED <<parameters, file>>

\* NativeRuntime::save
Save ==
    /\ Update
    /\ file' = [selection |-> wrapper.last, lane |-> lane.last,
                policy |-> lane.prepared,
                family |-> IF executor.retained = None THEN None
                           ELSE executor.retained.identity.family]
    /\ UNCHANGED <<cache, parameters>>

\* What load and restore_snapshot require of a file before they change
\* anything.
Loadable(f) ==
    /\ f.selection # None <=> f.lane # None
    /\ f.lane # None =>
         /\ f.policy
         /\ f.lane.requests = Requests[f.selection]
         /\ FamilyOf[f.lane.requests] = f.family
    /\ f.lane = None => f.family = None

\* NativeRuntime::load_cache
Load ==
    /\ Update
    /\ file # None /\ Loadable(file)
    /\ executor' = IF file.family = None
                   THEN ClearBindings(ClearFamilies(executor))
                   ELSE RestoreSnapshot(executor, file.family,
                                        file.lane.capacity)
    /\ lane' = [lane EXCEPT
                  !.pending = None,
                  !.last = IF file.lane = None THEN None
                           ELSE [file.lane EXCEPT
                                   !.handle = IF file.family = None THEN None
                                              ELSE executor'.generation],
                  !.prepared = file.policy]
    /\ wrapper' = [last |-> file.selection, pending |-> None]
    /\ UNCHANGED <<parameters, file>>

\* A file of another process, a damaged file, a failed allocation or binding:
\* only bindings that were begun are dropped.
LoadFails ==
    /\ Update
    /\ executor' = DiscardPendingBindings(executor)
    /\ UNCHANGED <<lane, wrapper, parameters, file>>

Operation ==
    \/ \E s \in Selection, n \in 1..MaxPoints, op \in {"evaluate", "warm_up"} :
         Begin(op, s, n)
    \/ ReuseSelection \/ ReuseQueries \/ PrepareCandidate
    \/ SelectFails \/ WarmUpCancelled
    \/ ExecuteTile \/ InputFails \/ KernelFails \/ Commit
    \/ \E p \in Parameter : SetModelParameters(p)
    \/ Clear \/ Save \/ Load \/ LoadFails

Next == Operation /\ UNCHANGED contracted

Spec == Init /\ [][Next]_vars

----------------------------------------------------------------------------
(* Properties                                                              *)

\* Every variable keeps its type.
TypeOK ==
    /\ contracted \in Modes
    /\ executor \in Executor
    /\ lane \in [last : LaneFamily \cup {None},
                 pending : LaneFamily \cup {None},
                 prepared : BOOLEAN, runtimeValues : Parameter]
    /\ wrapper \in [last : Selection \cup {None},
                    pending : Selection \cup {None}]
    /\ parameters \in Parameter
    /\ call \in Call \cup {Idle}
    /\ \A c \in computed \cup answer :
         c \in [requests : Query, family : Family \cup {None},
               values : Value \cup {None}]
    /\ file \in Snapshot \cup {None}
    /\ calls \in 0..MaxCalls /\ updates \in 0..MaxUpdates

\* Between calls the three layers and the bindings agree on one family, the
\* lane's handle is current, and no layer holds a candidate: whatever failed,
\* "both halves of the last-family-only identity remain coherent"
\* (abort_contracted_selection).
LayersAgree ==
    call = Idle =>
      /\ wrapper.pending = None /\ lane.pending = None
      /\ executor.pending = None /\ executor.pendingBindings = None
      /\ wrapper.last = None =>
           lane.last = None /\ executor.retained = None
      /\ wrapper.last # None =>
           /\ lane.last # None
           /\ lane.last.requests = Requests[wrapper.last]
           /\ executor.bindings = FamilyOf[lane.last.requests]
           /\ IF Executable(lane.last)
              THEN /\ executor.retained # None
                   /\ executor.retained.identity.family =
                        FamilyOf[lane.last.requests]
                   /\ lane.last.capacity <= executor.retained.capacity
                   /\ lane.last.handle = executor.generation
              ELSE executor.retained = None /\ lane.last.handle = None

\* The layers keep their types and agree.
Coherent == TypeOK /\ LayersAgree

\* No kernel keeps a row table into rows or a workspace that were dropped:
\* every drop is preceded by the invalidation of the tables that were exposed.
NoDanglingRows == ~executor.dangling

\* A selected call can execute: the family, the destinations and the capacity
\* are those of its selection, on the first tile and on every later one.
ReadyToExecute ==
    call.phase = "execute" =>
      /\ Current # None
      /\ Current.requests = Requests[call.selection]
      /\ TileOf(call.left) <= Current.capacity
      /\ Executable(Current) => Ready(executor, TileOf(call.left))

\* A file that save wrote is one that load accepts.
SavedIsLoadable == file # None => Loadable(file)

\* What a selection gives with parameters p.
Result(s, p) ==
    LET family == FamilyOf[Requests[s]]
    IN  [requests |-> Requests[s], family |-> family,
         values |-> IF family = None THEN None ELSE Projection[p]]

\* The caller sees OtfPromise: candidates, tiles, handles, capacities and
\* parameter versions are invisible, and no answer is stale.
Promise == INSTANCE OtfPromise WITH
    warm <- wrapper.last,
    saved <- IF file = None THEN {} ELSE {file.selection},
    evicting <- contracted

ImplementsPromise == Promise!Spec

\* A call that fails leaves the last selection, its lane family and its
\* executable family in place.
FailedCallKeeps ==
    call.phase \in {"select", "execute"} /\ call'.phase = "idle" =>
      /\ wrapper'.last = wrapper.last
      /\ lane'.last = lane.last
      /\ executor.retained # None =>
           /\ executor'.retained # None
           /\ executor'.retained.identity = executor.retained.identity

\* "a failed candidate is discarded without evicting the last successful
\* family" (ON_THE_FLY_MODE_ARCHITECTURE.md).
FailureKeepsFamily == [][FailedCallKeeps]_vars

\* It does with leading colour.
LeadingKeepsFamily == [][~contracted => FailedCallKeeps]_vars
=============================================================================
