------------------------- MODULE CampaignScheduler -------------------------
(***************************************************************************)
(* Campaigns of the performance report                                     *)
(* (tools/performance_report/scheduler.py) that run over one result store. *)
(*                                                                         *)
(* Each campaign is a process with a main loop, CampaignScheduler.run,     *)
(* which submits ready cells to a pool of workers and collects their       *)
(* futures, and one worker thread per submitted cell, _run_cell.  Workers  *)
(* of all campaigns exclude each other by named file locks that are tried  *)
(* without waiting: a worker that finds a lock taken gives the cell back   *)
(* to the loop, which retries it later.                                    *)
(*                                                                         *)
(* Abstraction: the measurement is a supervised process that ends with a   *)
(* success, a terminal result (a limit), an error or a cancellation; a     *)
(* current result is one of the first two.  One prepared model is shared   *)
(* by the cells that need it.  Campaigns follow the strict policy with     *)
(* manual terminal results, so there are no resource lanes; the reuse of   *)
(* another cell's artifact and the archive of old attempts are left out.   *)
(***************************************************************************)
EXTENDS Naturals, FiniteSets

CONSTANTS
    Campaign,
    Cell,
    Planned,       \* [Campaign -> SUBSET Cell]
    Prerequisite,  \* [Cell -> SUBSET Cell], edges of the plan
    Required,      \* [Cell -> SUBSET Cell], the edges that must succeed
    Rank,          \* [Cell -> Nat], planned_rank
    Multiplicity,  \* [Cell -> Nat], n_final
    Priority,      \* [Cell -> Nat], the order of the ready heap
    NeedsModel,    \* cells that need the prepared model
    MissingOnly,   \* [Campaign -> BOOLEAN], keep every current result
    WaveBarrier,   \* one multiplicity at a time
    Workers,       \* size of a campaign's pool
    Nobody         \* a free lock

\* plan_campaign adds a cell after its dependencies, one rank higher, and no
\* cell depends on one of a higher multiplicity.
ASSUME PlanAssumption ==
    /\ Planned \in [Campaign -> SUBSET Cell]
    /\ Prerequisite \in [Cell -> SUBSET Cell]
    /\ Rank \in [Cell -> Nat] /\ Multiplicity \in [Cell -> Nat]
    /\ \A x \in Cell : \A y \in Prerequisite[x] :
         Rank[y] < Rank[x] /\ Multiplicity[y] <= Multiplicity[x]
    /\ Required \in [Cell -> SUBSET Cell]
    /\ \A x \in Cell : Required[x] \subseteq Prerequisite[x]
    /\ Priority \in [Cell -> Nat]
    /\ \A x, y \in Cell : Priority[x] = Priority[y] => x = y
ASSUME SettingsAssumption ==
    /\ IsFiniteSet(Cell)
    /\ NeedsModel \subseteq Cell
    /\ MissingOnly \in [Campaign -> BOOLEAN]
    /\ WaveBarrier \in BOOLEAN
    /\ Workers \in Nat \ {0}
    /\ Nobody \notin Campaign /\ Nobody \notin Campaign \X Cell

VARIABLES
    main,           \* main[c]: where the loop of campaign c is
    cancelled,      \* cancelled[c]: the operator's latch
    queued,         \* queued[c]: the ready heap
    backoff,        \* backoff[c]: queued cells whose retry time has not come
    prerequisites,  \* prerequisites[c]: of every cell without an outcome
    outcomes,       \* outcomes[c]: of every cell that has one
    worker,         \* worker[c][x]: where the future of x is
    result,         \* result[c][x]: what the future resolves to
    reported,       \* reported[c][x]: how often "finished" was reported
    model,          \* model[c]: the memo of the prepared model
    cellLock,       \* cellLock[x]: the campaign that holds campaign-cell-x
    modelLock,      \* the worker that holds the prepared-model lock
    current         \* current[x]: the state of the stored current result

loop == <<main, queued, backoff, prerequisites, outcomes>>
locks == <<cellLock, modelLock>>
vars == <<loop, cancelled, worker, result, reported, model, locks, current>>

Edges(c, x) == Prerequisite[x] \cap Planned[c]

Init ==
    /\ main = [c \in Campaign |-> "running"]
    /\ cancelled = [c \in Campaign |-> FALSE]
    /\ queued = [c \in Campaign |-> {x \in Planned[c] : Edges(c, x) = {}}]
    /\ backoff = [c \in Campaign |-> {}]
    /\ prerequisites = [c \in Campaign |-> [x \in Planned[c] |-> Edges(c, x)]]
    /\ outcomes = [c \in Campaign |-> << >>]
    /\ worker = [c \in Campaign |-> [x \in Cell |-> "none"]]
    /\ result = [c \in Campaign |-> [x \in Cell |-> "none"]]
    /\ reported = [c \in Campaign |-> [x \in Cell |-> 0]]
    /\ model = [c \in Campaign |-> "unknown"]
    /\ cellLock = [x \in Cell |-> Nobody]
    /\ modelLock = Nobody
    /\ current = [x \in Cell |-> "missing"]

Unfinished(c) == DOMAIN prerequisites[c]
Futures(c) == {x \in Cell : worker[c][x] # "none"}

----------------------------------------------------------------------------
(* The main loop: CampaignScheduler.run                                    *)

\* Mutant: the active wave is taken from the ready heap.
InQueuedWave(c, x) ==
    WaveBarrier =>
      \A y \in queued[c] : Multiplicity[x] <= Multiplicity[y]

\* With the barrier only the least unfinished multiplicity is active.
InActiveWave(c, x) ==
    WaveBarrier =>
      \A y \in Unfinished(c) : Multiplicity[x] <= Multiplicity[y]

\* pop_lockable_candidate
Candidates(c) == {x \in queued[c] \ backoff[c] : InActiveWave(c, x)}

\* One pass of the submission loop, which reads the latch before each one.
Submit(c, x) ==
    /\ main[c] = "running" /\ ~cancelled[c]
    /\ Cardinality(Futures(c)) < Workers
    /\ x \in Candidates(c)
    /\ \A y \in Candidates(c) : Priority[x] <= Priority[y]
    /\ queued' = [queued EXCEPT ![c] = @ \ {x}]
    /\ worker' = [worker EXCEPT ![c][x] = "submitted"]
    /\ UNCHANGED <<main, backoff, prerequisites, outcomes, cancelled, result,
                   reported, model, locks, current>>

\* The retry time of a deferred cell comes.
RetryDue(c, x) ==
    /\ main[c] = "running" /\ x \in backoff[c]
    /\ backoff' = [backoff EXCEPT ![c] = @ \ {x}]
    /\ UNCHANGED <<main, queued, prerequisites, outcomes, cancelled, worker,
                   result, reported, model, locks, current>>

\* The future of x is taken out of the pool.
TakeFuture(c, x) ==
    /\ main[c] = "running" /\ worker[c][x] = "done"
    /\ worker' = [worker EXCEPT ![c][x] = "none"]
    /\ result' = [result EXCEPT ![c][x] = "none"]
    /\ UNCHANGED <<cancelled, reported, model, locks, current>>

\* Mutant: a deferred cell is only noted in waiting_locks.
CollectDeferredUnqueued(c, x) ==
    /\ result[c][x] = "deferred"
    /\ TakeFuture(c, x)
    /\ backoff' = [backoff EXCEPT ![c] = @ \cup {x}]
    /\ UNCHANGED <<main, queued, prerequisites, outcomes>>

\* A cell that lost a lock race goes back to the ready heap.
CollectDeferred(c, x) ==
    /\ result[c][x] = "deferred"
    /\ TakeFuture(c, x)
    /\ queued' = [queued EXCEPT ![c] = @ \cup {x}]
    /\ backoff' = [backoff EXCEPT ![c] = @ \cup {x}]
    /\ UNCHANGED <<main, prerequisites, outcomes>>

\* An exception of a worker leaves the loop.
CollectRaised(c, x) ==
    /\ result[c][x] = "raised"
    /\ TakeFuture(c, x)
    /\ main' = [main EXCEPT ![c] = "draining"]
    /\ UNCHANGED <<queued, backoff, prerequisites, outcomes>>

\* What is left to wait for once x has an outcome.
Discharged(c, x) ==
    [y \in Unfinished(c) \ {x} |-> prerequisites[c][y] \ {x}]

\* Mutant: a dependent is queued when one of its prerequisites has finished.
NewlyReadyAfterAny(c, x) ==
    {y \in Unfinished(c) \ {x} :
       x \in Edges(c, y) /\ y \notin queued[c] \cup Futures(c)}

\* Dependents of x that have become ready.
NewlyReady(c, x) ==
    {y \in Unfinished(c) \ {x} :
       x \in Edges(c, y) /\ Discharged(c, x)[y] = {}
         /\ y \notin queued[c] \cup Futures(c)}

\* An outcome is recorded, whatever it is, and ready dependents are queued;
\* a loop that can then never continue raises.
CollectOutcome(c, x) ==
    /\ result[c][x] \notin {"deferred", "raised"}
    /\ TakeFuture(c, x)
    /\ outcomes' = [outcomes EXCEPT ![c] =
                      [y \in DOMAIN @ \cup {x} |->
                         IF y = x THEN result[c][x] ELSE @[y]]]
    /\ prerequisites' = [prerequisites EXCEPT ![c] = Discharged(c, x)]
    /\ queued' = [queued EXCEPT ![c] = @ \cup NewlyReady(c, x)]
    /\ main' = [main EXCEPT ![c] =
                  IF Futures(c) = {x} /\ queued'[c] = {}
                       /\ Unfinished(c) # {x}
                  THEN "draining" ELSE @]
    /\ UNCHANGED backoff

\* Mutant: the loop ends as soon as nothing is ready.
ReturnEarly(c) ==
    /\ main[c] = "running"
    /\ queued[c] = {} \/ cancelled[c]
    /\ main' = [main EXCEPT ![c] = "returned"]
    /\ UNCHANGED <<queued, backoff, prerequisites, outcomes, cancelled, worker,
                   result, reported, model, locks, current>>

\* Nothing runs, and nothing is ready or the campaign is cancelled.
Return(c) ==
    /\ main[c] = "running" /\ Futures(c) = {}
    /\ queued[c] = {} \/ cancelled[c]
    /\ main' = [main EXCEPT ![c] = "returned"]
    /\ UNCHANGED <<queued, backoff, prerequisites, outcomes, cancelled, worker,
                   result, reported, model, locks, current>>

\* The exception leaves run() after the pool has waited for its workers.
Drained(c) ==
    /\ main[c] = "draining"
    /\ \A x \in Cell : worker[c][x] \in {"none", "done"}
    /\ main' = [main EXCEPT ![c] = "raised"]
    /\ worker' = [worker EXCEPT ![c] = [x \in Cell |-> "none"]]
    /\ UNCHANGED <<queued, backoff, prerequisites, outcomes, cancelled, result,
                   reported, model, locks, current>>

----------------------------------------------------------------------------
(* A worker: _run_cell and _run_cell_in_lane                               *)

At(c, x, phase) == worker[c][x] = phase

Goto(c, x, phase) == worker' = [worker EXCEPT ![c][x] = phase]

\* The worker ends with an outcome r, which it reports once.
Finish(c, x, r) ==
    /\ Goto(c, x, "leaving")
    /\ result' = [result EXCEPT ![c][x] = r]
    /\ reported' = [reported EXCEPT ![c][x] = @ + 1]

\* The worker gives its cell back: no completion is reported.
Defer(c, x, phase) ==
    /\ Goto(c, x, phase)
    /\ result' = [result EXCEPT ![c][x] = "deferred"]
    /\ UNCHANGED reported

\* Both the worker and the lock look at the latch first.
StartCancelled(c, x) ==
    /\ At(c, x, "submitted") /\ cancelled[c]
    /\ Finish(c, x, "cancelled")
    /\ UNCHANGED <<loop, cancelled, model, locks, current>>

\* Mutant: the lock is taken to be the worker's although it is not free.
LockCellAnyway(c, x) ==
    /\ At(c, x, "submitted") /\ ~cancelled[c]
    /\ cellLock' = [cellLock EXCEPT ![x] = c]
    /\ Goto(c, x, "locked")
    /\ UNCHANGED <<loop, cancelled, result, reported, model, modelLock,
                   current>>

LockCell(c, x) ==
    /\ At(c, x, "submitted") /\ ~cancelled[c]
    /\ cellLock[x] = Nobody
    /\ cellLock' = [cellLock EXCEPT ![x] = c]
    /\ Goto(c, x, "locked")
    /\ UNCHANGED <<loop, cancelled, result, reported, model, modelLock,
                   current>>

CellBusy(c, x) ==
    /\ At(c, x, "submitted") /\ ~cancelled[c]
    /\ cellLock[x] # Nobody
    /\ Defer(c, x, "leaving")
    /\ UNCHANGED <<loop, cancelled, model, locks, current>>

\* A current result is fresh, and the campaign keeps fresh results.
Kept(c, x) == MissingOnly[c] /\ current[x] # "missing"

Blocked(x) == \E y \in Required[x] : current[y] # "success"

\* Mutant: the check of the current result was made when the plan was.
InspectPlanned(c, x) ==
    /\ At(c, x, "locked")
    /\ IF Blocked(x) THEN Finish(c, x, "blocked")
       ELSE /\ Goto(c, x, IF x \in NeedsModel THEN "modelling"
                          ELSE "measuring")
            /\ UNCHANGED <<result, reported>>
    /\ UNCHANGED <<loop, cancelled, model, locks, current>>

\* Under the lock: a fresh result is kept, a required result that is missing
\* or terminal blocks the cell.
Inspect(c, x) ==
    /\ At(c, x, "locked")
    /\ IF Kept(c, x) THEN Finish(c, x, "skipped")
       ELSE IF Blocked(x) THEN Finish(c, x, "blocked")
       ELSE /\ Goto(c, x, IF x \in NeedsModel THEN "modelling"
                          ELSE "measuring")
            /\ UNCHANGED <<result, reported>>
    /\ UNCHANGED <<loop, cancelled, model, locks, current>>

\* _preparation_failure_outcome of a memoized failure: a limit becomes the
\* current result of the cell.
PreparationFailed(c, x, failure) ==
    /\ Finish(c, x, failure)
    /\ current' = IF failure = "terminal"
                  THEN [current EXCEPT ![x] = "terminal"] ELSE current

\* _prepare_model_for with a memo, read before the lock.
ModelKnown(c, x) ==
    /\ At(c, x, "modelling") /\ model[c] # "unknown"
    /\ IF model[c] = "ready"
       THEN Goto(c, x, "measuring") /\ UNCHANGED <<result, reported, current>>
       ELSE PreparationFailed(c, x, model[c])
    /\ UNCHANGED <<loop, cancelled, model, locks>>

\* No memo: the worker goes for the lock.
ModelUnknown(c, x) ==
    /\ At(c, x, "modelling") /\ model[c] = "unknown"
    /\ Goto(c, x, "asking")
    /\ UNCHANGED <<loop, cancelled, result, reported, model, locks, current>>

ModelCancelled(c, x) ==
    /\ At(c, x, "asking") /\ cancelled[c]
    /\ Finish(c, x, "cancelled")
    /\ UNCHANGED <<loop, cancelled, model, locks, current>>

ModelBusy(c, x) ==
    /\ At(c, x, "asking") /\ ~cancelled[c] /\ modelLock # Nobody
    /\ Defer(c, x, "leaving")
    /\ UNCHANGED <<loop, cancelled, model, locks, current>>

\* Under the lock the memo is read again: another worker of the campaign may
\* have prepared the model since.
LockModel(c, x) ==
    /\ At(c, x, "asking") /\ ~cancelled[c] /\ modelLock = Nobody
    /\ IF model[c] = "unknown"
       THEN modelLock' = <<c, x>> /\ Goto(c, x, "preparing")
       ELSE UNCHANGED modelLock /\ Goto(c, x, "modelling")
    /\ UNCHANGED <<loop, cancelled, result, reported, model, cellLock, current>>

\* The preparation ends; its result is memoized before the lock is released.
Prepared(c, x, memo) ==
    /\ At(c, x, "preparing")
    /\ memo = "cancelled" => cancelled[c]
    /\ model' = [model EXCEPT ![c] = memo]
    /\ modelLock' = Nobody
    /\ IF memo = "ready"
       THEN Goto(c, x, "measuring") /\ UNCHANGED <<result, reported, current>>
       ELSE PreparationFailed(c, x, memo)
    /\ UNCHANGED <<loop, cancelled, cellLock>>

\* Mutant: only a terminal result becomes the current one.
MeasuredUnpublished(c, x, r) ==
    /\ At(c, x, "measuring")
    /\ r = "cancelled" => cancelled[c]
    /\ Finish(c, x, r)
    /\ current' = IF r = "terminal"
                  THEN [current EXCEPT ![x] = r] ELSE current
    /\ UNCHANGED <<loop, cancelled, model, locks>>

\* The supervised worker process ends, and a success or a terminal result is
\* published; otherwise the previous current result stays.
Measured(c, x, r) ==
    /\ At(c, x, "measuring")
    /\ r = "cancelled" => cancelled[c]
    /\ Finish(c, x, r)
    /\ current' = IF r \in {"success", "terminal"}
                  THEN [current EXCEPT ![x] = r] ELSE current
    /\ UNCHANGED <<loop, cancelled, model, locks>>

\* Anything else raises: it is reported as an error, once, and resolves the
\* future with the exception.
Raises(c, x) ==
    /\ worker[c][x] \in {"locked", "measuring"}
    /\ Finish(c, x, "raised")
    /\ UNCHANGED <<loop, cancelled, model, locks, current>>

\* Mutant: the lock stays with a worker that raised.
LeaveLocked(c, x) ==
    /\ At(c, x, "leaving")
    /\ cellLock' = IF cellLock[x] = c /\ result[c][x] # "raised"
                   THEN [cellLock EXCEPT ![x] = Nobody] ELSE cellLock
    /\ Goto(c, x, "done")
    /\ UNCHANGED <<loop, cancelled, result, reported, model, modelLock,
                   current>>

\* The cell's lock is released and the future resolves.
Leave(c, x) ==
    /\ At(c, x, "leaving")
    /\ cellLock' = IF cellLock[x] = c
                   THEN [cellLock EXCEPT ![x] = Nobody] ELSE cellLock
    /\ Goto(c, x, "done")
    /\ UNCHANGED <<loop, cancelled, result, reported, model, modelLock,
                   current>>

WorkerStep(c, x) ==
    \/ StartCancelled(c, x) \/ LockCell(c, x) \/ CellBusy(c, x)
    \/ Inspect(c, x)
    \/ ModelKnown(c, x) \/ ModelUnknown(c, x) \/ ModelCancelled(c, x)
    \/ ModelBusy(c, x) \/ LockModel(c, x)
    \/ \E memo \in {"ready", "terminal", "error", "cancelled"} :
         Prepared(c, x, memo)
    \/ \E r \in {"success", "terminal", "error", "cancelled"} :
         Measured(c, x, r)
    \/ Raises(c, x)
    \/ Leave(c, x)

CollectStep(c, x) ==
    CollectDeferred(c, x) \/ CollectRaised(c, x) \/ CollectOutcome(c, x)

LoopStep(c) ==
    \/ \E x \in Cell : Submit(c, x) \/ CollectStep(c, x)
    \/ Return(c) \/ Drained(c)

----------------------------------------------------------------------------
(* The operator and the machine                                            *)

Cancel(c) ==
    /\ ~cancelled[c]
    /\ cancelled' = [cancelled EXCEPT ![c] = TRUE]
    /\ UNCHANGED <<loop, worker, result, reported, model, locks, current>>

\* The process dies: its locks are released, its results stay.
Kill(c) ==
    /\ main[c] \in {"running", "draining"}
    /\ main' = [main EXCEPT ![c] = "dead"]
    /\ worker' = [worker EXCEPT ![c] = [x \in Cell |-> "none"]]
    /\ cellLock' = [x \in Cell |->
                      IF cellLock[x] = c THEN Nobody ELSE cellLock[x]]
    /\ modelLock' = IF \E x \in Cell : modelLock = <<c, x>> THEN Nobody
                    ELSE modelLock
    /\ UNCHANGED <<queued, backoff, prerequisites, outcomes, cancelled, result,
                   reported, model, current>>

Next ==
    \E c \in Campaign :
      \/ LoopStep(c)
      \/ \E x \in Cell : RetryDue(c, x) \/ WorkerStep(c, x)
      \/ Cancel(c)
      \/ Kill(c)

\* Threads keep running, retry times come, and supervised processes end.
Fairness ==
    \A c \in Campaign :
      /\ WF_vars(LoopStep(c))
      /\ \A x \in Cell : WF_vars(RetryDue(c, x)) /\ WF_vars(WorkerStep(c, x))

Safety == Init /\ [][Next]_vars

Spec == Safety /\ Fairness

----------------------------------------------------------------------------
(* Properties                                                              *)

Phase == {"none", "submitted", "locked", "modelling", "asking", "preparing",
          "measuring", "leaving", "done"}
Outcome == {"success", "terminal", "error", "cancelled", "skipped", "blocked"}

\* Every variable keeps its type.
TypeOK ==
    /\ main \in [Campaign -> {"running", "draining", "returned", "raised",
                              "dead"}]
    /\ cancelled \in [Campaign -> BOOLEAN]
    /\ queued \in [Campaign -> SUBSET Cell]
    /\ backoff \in [Campaign -> SUBSET Cell]
    /\ prerequisites \in [Campaign -> UNION {[S -> SUBSET Cell] :
                                              S \in SUBSET Cell}]
    /\ outcomes \in [Campaign -> UNION {[S -> Outcome] : S \in SUBSET Cell}]
    /\ worker \in [Campaign -> [Cell -> Phase]]
    /\ result \in [Campaign ->
                     [Cell -> Outcome \cup {"none", "deferred", "raised"}]]
    /\ reported \in [Campaign -> [Cell -> 0..1]]
    /\ model \in [Campaign ->
                    {"unknown", "ready", "terminal", "error", "cancelled"}]
    /\ cellLock \in [Cell -> Campaign \cup {Nobody}]
    /\ modelLock \in (Campaign \X Cell) \cup {Nobody}
    /\ current \in [Cell -> {"missing", "success", "terminal"}]

\* No cell is lost or run twice by a campaign: while its loop runs, every
\* planned cell is in exactly one place, and a cell that is in none of the
\* active ones waits for a cell that has no outcome yet.
NoCellLost ==
    \A c \in Campaign : main[c] = "running" =>
      /\ backoff[c] \subseteq queued[c]
      /\ queued[c] \cap Futures(c) = {}
      /\ Unfinished(c) = Planned[c] \ DOMAIN outcomes[c]
      /\ queued[c] \cup Futures(c) \subseteq Unfinished(c)
      /\ \A x \in Unfinished(c) \ (queued[c] \cup Futures(c)) :
           \E y \in Edges(c, x) : y \in Unfinished(c)

\* A worker runs a cell only after every planned prerequisite has an outcome,
\* so the authorities it compares with have been tried.
PrerequisitesFirst ==
    \A c \in Campaign : \A x \in Futures(c) :
      Edges(c, x) \subseteq DOMAIN outcomes[c]

\* With the wave barrier no worker runs a cell while a planned cell of a
\* lower multiplicity has no outcome, however cells were deferred.
WavesInOrder ==
    WaveBarrier =>
      \A c \in Campaign : \A x \in Futures(c), y \in Unfinished(c) :
        Multiplicity[x] <= Multiplicity[y]

\* Two campaigns never work on one cell at the same time, and the prepared
\* model is written by one worker at a time, whoever fails or dies.
Working(c, x) ==
    worker[c][x] \in {"locked", "modelling", "asking", "preparing",
                      "measuring"}
WorksAlone ==
    /\ \A c, d \in Campaign : \A x \in Cell :
         Working(c, x) /\ Working(d, x) => c = d
    /\ \A c, d \in Campaign : \A x, y \in Cell :
         At(c, x, "preparing") /\ At(d, y, "preparing") => c = d /\ x = y

\* A current result is replaced only by a campaign that reruns what is there:
\* one that runs missing cells only keeps the result a peer published after
\* its plan was made.
ResultsAreKept ==
    [][\A x \in Cell :
         current[x] # "missing" /\ current'[x] # current[x] =>
           \E c \in Campaign : ~MissingOnly[c] /\ Working(c, x)]_vars

\* Of campaigns that all keep results: a cell is blocked only if one of its
\* required cells did not succeed in this campaign or was found to have a
\* terminal result, never because the result of one that did could not be seen.
Failed(c, y) ==
    outcomes[c][y] # "success"
      /\ (outcomes[c][y] = "skipped" => current[y] = "terminal")
BlockedByFailure ==
    \A c \in Campaign : \A x \in DOMAIN outcomes[c] :
      outcomes[c][x] = "blocked" /\ Required[x] \subseteq Planned[c] =>
        \E y \in Required[x] : Failed(c, y)

\* Dashboards see the completion of a cell exactly once: never for a cell
\* that was given back, and always for one whose worker has ended.
ReportedOnce ==
    \A c \in Campaign : main[c] \in {"running", "returned"} =>
      \A x \in Cell :
        reported[c][x] = IF x \in DOMAIN outcomes[c]
                           \/ result[c][x] \notin {"none", "deferred"}
                         THEN 1 ELSE 0

\* A campaign prepares its model at most once, whether that succeeds or not.
PreparedOnce ==
    [][\A c \in Campaign : \A x \in Cell :
         model[c] # "unknown" /\ ~At(c, x, "preparing") =>
           ~At(c, x, "preparing")']_vars

\* run() returns with an outcome for every planned cell unless the campaign
\* was cancelled.
ReturnsComplete ==
    \A c \in Campaign :
      main[c] = "returned" /\ ~cancelled[c] => DOMAIN outcomes[c] = Planned[c]

\* Every campaign ends: two campaigns that take each other's locks, waves,
\* failures and deaths never leave a loop asleep for ever.
EveryCampaignEnds ==
    \A c \in Campaign : <>(main[c] \in {"returned", "raised", "dead"})

\* The loop ends with an exception only for a worker that raised: it never
\* takes a plan, which is acyclic, for a cycle.
RaisesOnlyForWorkers ==
    \A c \in Campaign : main[c] \in {"draining", "raised"} =>
      \E x \in Cell : reported[c][x] = 1 /\ x \notin DOMAIN outcomes[c]
=============================================================================
