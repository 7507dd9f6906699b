--------------------------- MODULE FamilyExecutor ---------------------------
(***************************************************************************)
(* The query-family executor of the on-the-fly lane                        *)
(* (recurrence/on_the_fly/family.rs) with the semantic bindings of its     *)
(* resolver (engine/recurrence_backend.rs), as operations on a record.     *)
(*                                                                         *)
(* The executor keeps the family of the last successful execution          *)
(* (`retained`) and at most one cold candidate (`pending`).  Kernels cache *)
(* row tables, pointers into the rows and workspace of a family that was   *)
(* executed; `rowTables` is the set of families they point into, and       *)
(* `dangling` records that such storage was dropped.                       *)
(*                                                                         *)
(* Abstraction: rows, momenta and amplitudes are left out; a family is the *)
(* name of its rows.  Parameter vectors are values.  Invalidation, which   *)
(* can only fail during a kernel call, succeeds: every operation here has  *)
(* exclusive access to the executor.                                       *)
(***************************************************************************)
EXTENDS Naturals

CONSTANTS
    Family,       \* the executable families
    Value,        \* prepared parameter vectors
    None,         \* no family, no binding, nothing applied
    MaxPoints     \* bound: points of one call

\* How a family was identified: the exact query list of an ordinary LC
\* prepare, the digest of a streamed one, or a restored snapshot.
Kind == {"exact", "streamed", "restored"}

Identity == [kind : Kind, family : Family]

Bound == [identity : Identity,
          capacity : 1..MaxPoints,
          values   : Value \cup {None},  \* parameters in the workspace
          applied  : Nat \cup {None},    \* the version they came from
          exposed  : BOOLEAN]            \* descriptor_exposed

Executor == [retained        : Bound \cup {None},
             pending         : Bound \cup {None},
             generation      : Nat,
             parameters      : Value,
             version         : Nat,
             bindings        : Family \cup {None},
             pendingBindings : Family \cup {None},
             rowTables       : SUBSET {"retained", "pending"},
             dangling        : BOOLEAN]

\* A lane starts with its default parameters set.
NewExecutor(default) ==
    [retained |-> None, pending |-> None, generation |-> 0,
     parameters |-> default, version |-> 1, bindings |-> None,
     pendingBindings |-> None, rowTables |-> {}, dangling |-> FALSE]

\* The rows or the workspace of one of the slots are dropped.
Drop(x, slots) ==
    [x EXCEPT !.dangling = @ \/ x.rowTables \cap slots # {},
              !.rowTables = @ \ slots]

Exposed(bound) == bound # None /\ bound.exposed

Hide(bound) == IF bound = None THEN None ELSE [bound EXCEPT !.exposed = FALSE]

\* Mutant: the row tables are thought to be cleared by the kernels.
InvalidateNothing(x) == x

\* invalidate_exposed_row_tables
Invalidate(x) ==
    IF Exposed(x.retained) \/ Exposed(x.pending)
    THEN [x EXCEPT !.rowTables = {}, !.retained = Hide(@), !.pending = Hide(@)]
    ELSE x

\* clear_families
ClearFamilies(x) ==
    [Drop(Invalidate(x), {"retained", "pending"})
       EXCEPT !.retained = None, !.pending = None, !.generation = @ + 1]

\* discard_pending_family
DiscardPendingFamily(x) ==
    IF x.pending = None THEN x
    ELSE [Drop(Invalidate(x), {"pending"}) EXCEPT !.pending = None]

\* commit_pending_family: the candidate replaces the retained family, and
\* handles of the replaced one become stale.
CommitPendingFamily(x) ==
    LET y == Drop(IF Exposed(x.retained) THEN Invalidate(x) ELSE x,
                  {"retained"})
    IN  [y EXCEPT !.retained = y.pending, !.pending = None,
                  !.generation = @ + 1,
                  !.rowTables = IF "pending" \in @ THEN {"retained"} ELSE {}]

\* A larger workspace: its parameters have not been applied.
Enlarge(bound, capacity) ==
    [bound EXCEPT !.capacity = capacity, !.values = None, !.applied = None]

\* activate_retained_index: a candidate is dropped, and the workspace of the
\* retained family is replaced when it is too small.
ActivateRetained(x, capacity) ==
    LET grow == x.retained.capacity < capacity
        y == IF \/ Exposed(x.pending)
                \/ grow /\ Exposed(x.retained)
             THEN Invalidate(x) ELSE x
        z == [Drop(y, {"pending"}) EXCEPT !.pending = None]
    IN  IF grow
        THEN [Drop(z, {"retained"})
                EXCEPT !.retained = Enlarge(z.retained, capacity)]
        ELSE z

\* prepare (kind "exact") and prepare_streamed_candidate (kind "streamed"):
\* the retained family is reused when it has the same identity; otherwise a
\* new candidate becomes pending next to it.
Prepare(x, identity, capacity) ==
    IF x.retained # None /\ x.retained.identity = identity
    THEN ActivateRetained(x, capacity)
    ELSE [Invalidate(DiscardPendingFamily(x))
            EXCEPT !.pending = [identity |-> identity, capacity |-> capacity,
                                values |-> None, applied |-> None,
                                exposed |-> FALSE]]

\* Mutant: the version is kept when the parameters change.
SetParametersKeepingVersion(x, values) == [x EXCEPT !.parameters = values]

\* set_parameters
SetParameters(x, values) ==
    IF x.parameters = values THEN x
    ELSE [x EXCEPT !.parameters = values, !.version = @ + 1]

\* The family execute_into would run.
Active(x) == IF x.pending # None THEN x.pending ELSE x.retained

Refresh(x, bound) ==
    IF bound.applied = x.version THEN bound
    ELSE [bound EXCEPT !.values = x.parameters, !.applied = x.version]

\* execute_into up to the kernels: parameters are refreshed and the rows are
\* exposed to the row tables.
Expose(x) ==
    IF x.pending # None
    THEN [x EXCEPT !.pending = [Refresh(x, @) EXCEPT !.exposed = TRUE],
                   !.rowTables = @ \cup {"pending"}]
    ELSE [x EXCEPT !.retained = [Refresh(x, @) EXCEPT !.exposed = TRUE],
                   !.rowTables = @ \cup {"retained"}]

\* execute_into after the kernels succeeded.
ExecuteSucceeds(x) ==
    IF x.pending # None THEN CommitPendingFamily(Expose(x)) ELSE Expose(x)

\* execute_into when a kernel or the output shape fails.
ExecuteFails(x) == DiscardPendingFamily(Expose(x))

\* The parameters an execution computes with.
ExecutedValues(x) == Refresh(x, Active(x)).values

----------------------------------------------------------------------------
(* Semantic bindings of the resolver                                       *)

\* begin and extend, or the binding of a saved family.
BindPending(x, family) == [x EXCEPT !.pendingBindings = family]

DiscardPendingBindings(x) == [x EXCEPT !.pendingBindings = None]

CommitPendingBindings(x) ==
    [x EXCEPT !.bindings = x.pendingBindings, !.pendingBindings = None]

ClearBindings(x) == [x EXCEPT !.bindings = None, !.pendingBindings = None]

\* bind_on_the_fly_saved_family, restore_snapshot and the binding commit.
RestoreSnapshot(x, family, capacity) ==
    LET candidate == [identity |-> [kind |-> "restored", family |-> family],
                      capacity |-> capacity, values |-> None,
                      applied |-> None, exposed |-> FALSE]
        y == [Invalidate(BindPending(x, family)) EXCEPT !.pending = candidate]
    IN  CommitPendingBindings(CommitPendingFamily(y))
=============================================================================
