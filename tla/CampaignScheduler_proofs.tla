---------------------- MODULE CampaignScheduler_proofs ----------------------
(***************************************************************************)
(* Proofs about CampaignScheduler.  That no cell is lost is not inductive: *)
(* it rests on what the prerequisites of a cell are (Ledger), on every     *)
(* cell without any being queued or run (Startable), and, for the end of   *)
(* run(), on a least rank among the cells that wait.  That campaigns keep  *)
(* each other's results rests on who holds the locks (LocksHeld), and that *)
(* a blocked cell has a failure to show on the results that its campaign   *)
(* took for granted being there still (Visible, BlockedRightly).           *)
(***************************************************************************)
EXTENDS CampaignScheduler, WellFoundedInduction, TLAPS

\* What the loop of c waits for.
Ledger ==
    \A c \in Campaign :
      /\ DOMAIN outcomes[c] \subseteq Planned[c]
      /\ Unfinished(c) = Planned[c] \ DOMAIN outcomes[c]
      /\ \A x \in Unfinished(c) :
           prerequisites[c][x] = Edges(c, x) \ DOMAIN outcomes[c]

\* The cells that wait for nothing are queued or run, and no others are.
StartableIn(c) ==
    /\ backoff[c] \subseteq queued[c]
    /\ queued[c] \cap Futures(c) = {}
    /\ queued[c] \cup Futures(c) \subseteq Unfinished(c)
    /\ \A x \in queued[c] \cup Futures(c) : prerequisites[c][x] = {}
    /\ main[c] = "running" =>
         \A x \in Unfinished(c) \ (queued[c] \cup Futures(c)) :
           prerequisites[c][x] # {}

Startable == \A c \in Campaign : StartableIn(c)

\* What was reported of a cell while its worker is at each phase.
ReportsIn(c, x) ==
    /\ worker[c][x] \notin {"none", "leaving", "done"} =>
         result[c][x] = "none" /\ reported[c][x] = 0
    /\ worker[c][x] \in {"leaving", "done"} =>
         /\ result[c][x] # "none"
         /\ reported[c][x] = IF result[c][x] = "deferred" THEN 0 ELSE 1
    /\ worker[c][x] = "none" /\ main[c] \in {"running", "returned"} =>
         /\ result[c][x] = "none"
         /\ reported[c][x] = IF x \in DOMAIN outcomes[c] THEN 1 ELSE 0

Reports == \A c \in Campaign : \A x \in Cell : ReportsIn(c, x)

\* Who holds the locks.
LocksHeld ==
    \A c \in Campaign : \A x \in Cell :
      /\ Working(c, x) => cellLock[x] = c
      /\ At(c, x, "preparing") => modelLock = <<c, x>>

\* A worker past its check still finds no current result.
StillMissing ==
    \A c \in Campaign : \A x \in Cell :
      MissingOnly[c] /\ Working(c, x) /\ ~At(c, x, "locked") =>
        current[x] = "missing"

\* The inductive invariant.
IInv ==
    /\ TypeOK
    /\ Ledger /\ Startable /\ Reports
    /\ LocksHeld /\ StillMissing
    /\ WavesInOrder /\ ReturnsComplete /\ RaisesOnlyForWorkers

----------------------------------------------------------------------------
\* A nonempty set of ranked cells has one of least rank.
Before == {pair \in Nat \X Nat : pair[1] < pair[2]}

LEMMA BeforeWellFounded == IsWellFoundedOn(Before, Nat)
  BY NatLessThanWellFounded, Zenon DEF OpToRel, Before

LEMMA LeastRank ==
  ASSUME NEW S, NEW rank, \A x \in S : rank[x] \in Nat, S # {}
  PROVE  \E x \in S : \A y \in S : rank[x] <= rank[y]
  <1> DEFINE T == {rank[x] : x \in S}
  <1>1. T \subseteq Nat /\ T # {}
    OBVIOUS
  <1>2. PICK m \in T : \A n \in T : ~ (<<n, m>> \in Before)
    <2> HIDE DEF T
    <2> QED
      BY <1>1, BeforeWellFounded, WFMin
  <1>3. \A n \in T : ~ (n < m)
    BY <1>1, <1>2 DEF Before
  <1>4. PICK x \in S : m = rank[x]
    OBVIOUS
  <1>5. \A y \in S : rank[x] <= rank[y]
    BY <1>1, <1>3, <1>4
  <1> QED
    BY <1>5

\* While anything is unfinished, something is queued or run.
LEMMA NotStuck ==
  ASSUME Ledger, Startable, NEW c \in Campaign, main[c] = "running",
         Unfinished(c) # {}
  PROVE  queued[c] \cup Futures(c) # {}
  <1>1. Unfinished(c) \subseteq Cell
    BY PlanAssumption DEF Ledger
  <1>2. PICK x \in Unfinished(c) : \A y \in Unfinished(c) : Rank[x] <= Rank[y]
    <2>1. \A x \in Unfinished(c) : Rank[x] \in Nat
      BY <1>1, PlanAssumption
    <2> QED
      BY <2>1, LeastRank
  <1>3. ASSUME NEW y \in prerequisites[c][x] PROVE FALSE
    <2>1. y \in Edges(c, x) /\ y \in Unfinished(c)
      BY <1>3 DEF Ledger, Edges
    <2>2. Rank[y] < Rank[x] /\ Rank[x] \in Nat /\ Rank[y] \in Nat
      BY <1>1, <2>1, PlanAssumption DEF Edges
    <2> QED
      BY <1>2, <2>1, <2>2
  <1>4. prerequisites[c][x] = {}
    BY <1>3
  <1> QED
    BY <1>4 DEF Startable, StartableIn

----------------------------------------------------------------------------
\* The initial state satisfies the inductive invariant.
LEMMA InitIInv == Init => IInv
  <1> SUFFICES ASSUME Init PROVE IInv
    OBVIOUS
  <1> USE PlanAssumption, SettingsAssumption DEF Init
  <1>0. \A c \in Campaign : DOMAIN outcomes[c] = {}
    OBVIOUS
  <1>1. TypeOK
    <2>1. \A c \in Campaign :
            prerequisites[c] \in [Planned[c] -> SUBSET Cell]
      BY DEF Edges
    <2>2. \A c \in Campaign : outcomes[c] \in [{} -> Outcome]
      OBVIOUS
    <2>3. prerequisites \in [Campaign -> UNION {[S -> SUBSET Cell] :
                                                  S \in SUBSET Cell}]
      BY <2>1
    <2>4. outcomes \in [Campaign -> UNION {[S -> Outcome] : S \in SUBSET Cell}]
      <3>1. \A c \in Campaign :
              outcomes[c] \in UNION {[S -> Outcome] : S \in SUBSET Cell}
        <4>1. {} \in SUBSET Cell
          OBVIOUS
        <4> QED
          BY ONLY <2>2, <4>1
      <3>2. outcomes = [c \in Campaign |-> outcomes[c]]
        OBVIOUS
      <3> QED
        BY ONLY <3>1, <3>2
    <2>5. /\ queued \in [Campaign -> SUBSET Cell]
          /\ backoff \in [Campaign -> SUBSET Cell]
          /\ cellLock \in [Cell -> Campaign \cup {Nobody}]
          /\ modelLock \in (Campaign \X Cell) \cup {Nobody}
      OBVIOUS
    <2>6. worker \in [Campaign -> [Cell -> Phase]]
      BY DEF Phase
    <2>7. /\ result \in [Campaign ->
                           [Cell -> Outcome \cup {"none", "deferred", "raised"}]]
          /\ reported \in [Campaign -> [Cell -> 0..1]]
          /\ current \in [Cell -> {"missing", "success", "terminal"}]
      OBVIOUS
    <2>8. /\ main \in [Campaign -> {"running", "draining", "returned",
                                    "raised", "dead"}]
          /\ cancelled \in [Campaign -> BOOLEAN]
          /\ model \in [Campaign -> {"unknown", "ready", "terminal", "error",
                                     "cancelled"}]
      OBVIOUS
    <2> QED
      BY ONLY <2>3, <2>4, <2>5, <2>6, <2>7, <2>8 DEF TypeOK
  <1>2. Ledger
    BY <1>0 DEF Ledger, Unfinished
  <1>3. Startable
    BY DEF Startable, StartableIn, Unfinished, Futures, Edges
  <1>4. Reports
    BY <1>0 DEF Reports, ReportsIn
  <1>5. LocksHeld /\ StillMissing
    BY DEF LocksHeld, StillMissing, Working, At
  <1>6. WavesInOrder /\ ReturnsComplete /\ RaisesOnlyForWorkers
    BY DEF WavesInOrder, ReturnsComplete, RaisesOnlyForWorkers, Futures
  <1> QED
    BY <1>1, <1>2, <1>3, <1>4, <1>5, <1>6 DEF IInv

----------------------------------------------------------------------------
\* The phases of a worker that has not ended.
Busy(c, x) == worker[c][x] \notin {"none", "leaving", "done"}

\* A step of a worker ends it with an outcome, gives its cell back, takes it to
\* a further phase, or releases its lock; the loop does not change.
WorkerAdvances(c, x) ==
    /\ Busy(c, x)
    /\ \/ \E r \in Outcome \cup {"raised"} : Finish(c, x, r)
       \/ Defer(c, x, "leaving")
       \/ \E phase \in Phase \ {"none", "leaving", "done"} :
            Goto(c, x, phase) /\ UNCHANGED <<result, reported>>

LEMMA WorkerKinds ==
  ASSUME TypeOK, NEW c \in Campaign, NEW x \in Cell, WorkerStep(c, x)
  PROVE  /\ WorkerAdvances(c, x) \/ Leave(c, x)
         /\ UNCHANGED <<loop, cancelled>>
  <1> USE DEF At, WorkerAdvances, Busy, Phase, Outcome
  <1>1. CASE StartCancelled(c, x)
    BY <1>1 DEF StartCancelled
  <1>2. CASE LockCell(c, x)
    BY <1>2 DEF LockCell
  <1>3. CASE CellBusy(c, x)
    BY <1>3 DEF CellBusy
  <1>4. CASE Inspect(c, x)
    BY <1>4 DEF Inspect
  <1>5. CASE ModelKnown(c, x)
    <2>1. model[c] \in {"ready", "terminal", "error", "cancelled"}
      BY <1>5 DEF ModelKnown, TypeOK
    <2> QED
      BY <1>5, <2>1 DEF ModelKnown, PreparationFailed
  <1>6. CASE ModelUnknown(c, x)
    BY <1>6 DEF ModelUnknown
  <1>7. CASE ModelCancelled(c, x)
    BY <1>7 DEF ModelCancelled
  <1>8. CASE ModelBusy(c, x)
    BY <1>8 DEF ModelBusy
  <1>9. CASE LockModel(c, x)
    BY <1>9 DEF LockModel
  <1>10. CASE \E memo \in {"ready", "terminal", "error", "cancelled"} :
                Prepared(c, x, memo)
    BY <1>10 DEF Prepared, PreparationFailed
  <1>11. CASE \E r \in {"success", "terminal", "error", "cancelled"} :
                Measured(c, x, r)
    BY <1>11 DEF Measured
  <1>12. CASE Raises(c, x)
    BY <1>12 DEF Raises
  <1>13. CASE Leave(c, x)
    BY <1>13 DEF Leave
  <1> QED
    BY <1>1, <1>2, <1>3, <1>4, <1>5, <1>6, <1>7, <1>8, <1>9, <1>10, <1>11,
       <1>12, <1>13 DEF WorkerStep

\* In every case the phase changes, from one to one of a living worker.
LEMMA WorkerMoves ==
  ASSUME TypeOK, NEW c \in Campaign, NEW x \in Cell, WorkerStep(c, x)
  PROVE  /\ worker[c][x] # "none"
         /\ \E phase \in Phase \ {"none"} :
              worker' = [worker EXCEPT ![c][x] = phase]
  <1>1. CASE WorkerAdvances(c, x)
    BY <1>1 DEF WorkerAdvances, Busy, Finish, Defer, Goto, Phase
  <1>2. CASE Leave(c, x)
    BY <1>2 DEF Leave, At, Goto, Phase
  <1> QED
    BY <1>1, <1>2, WorkerKinds

\* So the cells that have a worker stay the same.
LEMMA WorkerKeepsFutures ==
  ASSUME TypeOK, NEW c \in Campaign, NEW x \in Cell, WorkerStep(c, x),
         NEW d \in Campaign
  PROVE  Futures(d)' = Futures(d)
  <1>1. PICK phase \in Phase \ {"none"} :
          worker' = [worker EXCEPT ![c][x] = phase]
    BY WorkerMoves
  <1>2. worker[c][x] # "none"
    BY WorkerMoves
  <1>3. worker \in [Campaign -> [Cell -> Phase]]
    BY DEF TypeOK
  <1>4. \A y \in Cell : worker'[d][y] = "none" <=> worker[d][y] = "none"
    BY <1>1, <1>2, <1>3
  <1> QED
    BY <1>4 DEF Futures

\* The type of what workers report.
ReportsTyped ==
    /\ result \in [Campaign ->
                     [Cell -> Outcome \cup {"none", "deferred", "raised"}]]
    /\ reported \in [Campaign -> [Cell -> 0..1]]

\* A worker that ends has reported nothing before, so it reports once.
LEMMA FinishTyped ==
  ASSUME ReportsTyped, Reports, NEW c \in Campaign, NEW x \in Cell,
         worker[c][x] \notin {"none", "leaving", "done"},
         NEW r \in Outcome \cup {"raised"}, Finish(c, x, r)
  PROVE  ReportsTyped'
  <1>1. reported[c][x] = 0
    BY DEF Reports, ReportsIn
  <1> QED
    BY <1>1 DEF ReportsTyped, Finish

\* A step of a worker keeps the type of what it changes.
LEMMA WorkerType ==
  ASSUME TypeOK, Reports, NEW c \in Campaign, NEW x \in Cell, WorkerStep(c, x)
  PROVE  TypeOK'
  <1> DEFINE
        Memo == {"unknown", "ready", "terminal", "error", "cancelled"}
        RestTyped ==
          /\ model \in [Campaign -> Memo]
          /\ cellLock \in [Cell -> Campaign \cup {Nobody}]
          /\ modelLock \in (Campaign \X Cell) \cup {Nobody}
          /\ current \in [Cell -> {"missing", "success", "terminal"}]
  <1>0. ReportsTyped /\ RestTyped
    BY DEF TypeOK, ReportsTyped
  <1>1. /\ worker' \in [Campaign -> [Cell -> Phase]]
        /\ UNCHANGED <<loop, cancelled>>
    <2>1. worker \in [Campaign -> [Cell -> Phase]]
      BY DEF TypeOK
    <2> QED
      BY <2>1, WorkerMoves, WorkerKinds
  <1>2. ReportsTyped'
    <2>1. CASE \E r \in Outcome \cup {"raised"} : Busy(c, x) /\ Finish(c, x, r)
      BY <1>0, <2>1, FinishTyped DEF Busy
    <2>2. CASE Defer(c, x, "leaving")
      BY <1>0, <2>2 DEF ReportsTyped, Defer
    <2>3. CASE UNCHANGED <<result, reported>>
      BY <1>0, <2>3 DEF ReportsTyped
    <2> QED
      BY <2>1, <2>2, <2>3, WorkerKinds DEF WorkerAdvances, Leave
  <1>3. RestTyped'
    <2> USE <1>0 DEF At, locks
    <2>1. CASE StartCancelled(c, x) \/ CellBusy(c, x) \/ Inspect(c, x)
      BY <2>1 DEF StartCancelled, CellBusy, Inspect
    <2>2. CASE LockCell(c, x)
      BY <2>2 DEF LockCell
    <2>3. CASE ModelUnknown(c, x) \/ ModelCancelled(c, x) \/ ModelBusy(c, x)
      BY <2>3 DEF ModelUnknown, ModelCancelled, ModelBusy
    <2>4. CASE ModelKnown(c, x)
      BY <2>4 DEF ModelKnown, PreparationFailed
    <2>5. CASE LockModel(c, x)
      BY <2>5 DEF LockModel
    <2>6. CASE \E memo \in {"ready", "terminal", "error", "cancelled"} :
                 Prepared(c, x, memo)
      BY <2>6 DEF Prepared, PreparationFailed
    <2>7. CASE \E r \in {"success", "terminal", "error", "cancelled"} :
                 Measured(c, x, r)
      BY <2>7 DEF Measured
    <2>8. CASE Raises(c, x) \/ Leave(c, x)
      BY <2>8 DEF Raises, Leave
    <2> QED
      BY <2>1, <2>2, <2>3, <2>4, <2>5, <2>6, <2>7, <2>8 DEF WorkerStep
  <1> QED
    BY <1>1, <1>2, <1>3 DEF TypeOK, ReportsTyped, loop

----------------------------------------------------------------------------
\* The two partial functions of the loop.
LEMMA LoopFunctions ==
  ASSUME TypeOK, NEW c \in Campaign
  PROVE  /\ prerequisites[c] \in [Unfinished(c) -> SUBSET Cell]
         /\ Unfinished(c) \subseteq Cell
         /\ outcomes[c] \in [DOMAIN outcomes[c] -> Outcome]
         /\ DOMAIN outcomes[c] \subseteq Cell
  <1>1. prerequisites[c] \in UNION {[S -> SUBSET Cell] : S \in SUBSET Cell}
    BY DEF TypeOK
  <1>2. PICK S \in SUBSET Cell : prerequisites[c] \in [S -> SUBSET Cell]
    BY <1>1
  <1>3. outcomes[c] \in UNION {[T -> Outcome] : T \in SUBSET Cell}
    BY DEF TypeOK
  <1>4. PICK T \in SUBSET Cell : outcomes[c] \in [T -> Outcome]
    BY <1>3
  <1> QED
    BY <1>2, <1>4 DEF Unfinished

\* The outcome that the loop collects for x.
Recorded(c, x) ==
    [y \in DOMAIN outcomes[c] \cup {x} |->
       IF y = x THEN result[c][x] ELSE outcomes[c][y]]

\* What collecting an outcome makes of the partial functions and the heap.
LEMMA Collected ==
  ASSUME TypeOK, Reports, NEW c \in Campaign, NEW x \in Cell,
         CollectOutcome(c, x)
  PROVE  /\ result[c][x] \in Outcome
         /\ outcomes' = [outcomes EXCEPT ![c] = Recorded(c, x)]
         /\ Recorded(c, x) \in [DOMAIN outcomes[c] \cup {x} -> Outcome]
         /\ Discharged(c, x) \in [Unfinished(c) \ {x} -> SUBSET Cell]
         /\ NewlyReady(c, x) \subseteq Cell
  <1>1. result[c][x] \in Outcome
    BY DEF CollectOutcome, TakeFuture, TypeOK, Reports, ReportsIn
  <1>2. outcomes' = [outcomes EXCEPT ![c] = Recorded(c, x)]
    BY DEF CollectOutcome, Recorded
  <1>3. Recorded(c, x) \in [DOMAIN outcomes[c] \cup {x} -> Outcome]
    BY <1>1, LoopFunctions DEF Recorded
  <1>4. Discharged(c, x) \in [Unfinished(c) \ {x} -> SUBSET Cell]
    BY LoopFunctions DEF Discharged
  <1>5. NewlyReady(c, x) \subseteq Cell
    BY LoopFunctions DEF NewlyReady
  <1> QED
    BY <1>1, <1>2, <1>3, <1>4, <1>5

\* Every step keeps the types.
LEMMA TypeStep ==
  ASSUME TypeOK, Reports, Next
  PROVE  TypeOK'
  <1> USE DEF Phase
  <1>1. ASSUME NEW c \in Campaign, NEW x \in Cell, Submit(c, x)
        PROVE  TypeOK'
    BY <1>1 DEF Submit, TypeOK, locks
  <1>2. ASSUME NEW c \in Campaign, NEW x \in Cell, RetryDue(c, x)
        PROVE  TypeOK'
    BY <1>2 DEF RetryDue, TypeOK, locks
  <1>3. ASSUME NEW c \in Campaign, NEW x \in Cell, CollectDeferred(c, x)
        PROVE  TypeOK'
    BY <1>3 DEF CollectDeferred, TakeFuture, TypeOK, locks
  <1>4. ASSUME NEW c \in Campaign, NEW x \in Cell, CollectRaised(c, x)
        PROVE  TypeOK'
    BY <1>4 DEF CollectRaised, TakeFuture, TypeOK, locks
  <1>5. ASSUME NEW c \in Campaign, NEW x \in Cell, CollectOutcome(c, x)
        PROVE  TypeOK'
    <2>1. outcomes' \in [Campaign -> UNION {[S -> Outcome] : S \in SUBSET Cell}]
      <3>1. Recorded(c, x) \in UNION {[S -> Outcome] : S \in SUBSET Cell}
        <4>1. DOMAIN outcomes[c] \cup {x} \in SUBSET Cell
          BY LoopFunctions
        <4>2. Recorded(c, x) \in [DOMAIN outcomes[c] \cup {x} -> Outcome]
          BY <1>5, Collected
        <4> QED
          BY ONLY <4>1, <4>2
      <3>2. outcomes \in [Campaign -> UNION {[S -> Outcome] : S \in SUBSET Cell}]
        BY DEF TypeOK
      <3>3. outcomes' = [outcomes EXCEPT ![c] = Recorded(c, x)]
        BY <1>5, Collected
      <3> QED
        BY <3>1, <3>2, <3>3
    <2>2. prerequisites' \in [Campaign -> UNION {[S -> SUBSET Cell] :
                                                   S \in SUBSET Cell}]
      <3>1. Discharged(c, x) \in UNION {[S -> SUBSET Cell] : S \in SUBSET Cell}
        <4>1. Unfinished(c) \ {x} \in SUBSET Cell
          BY LoopFunctions
        <4>2. Discharged(c, x) \in [Unfinished(c) \ {x} -> SUBSET Cell]
          BY <1>5, Collected
        <4> QED
          BY ONLY <4>1, <4>2
      <3>2. prerequisites' = [prerequisites EXCEPT ![c] = Discharged(c, x)]
        BY <1>5 DEF CollectOutcome
      <3> QED
        BY <3>1, <3>2 DEF TypeOK
    <2>3. /\ main' \in [Campaign -> {"running", "draining", "returned",
                                     "raised", "dead"}]
          /\ queued' \in [Campaign -> SUBSET Cell]
      <3>1. NewlyReady(c, x) \subseteq Cell
        BY <1>5, Collected
      <3> QED
        BY <1>5, <3>1 DEF CollectOutcome, TypeOK
    <2>4. /\ worker' \in [Campaign -> [Cell -> Phase]]
          /\ ReportsTyped'
      BY <1>5 DEF CollectOutcome, TakeFuture, TypeOK, ReportsTyped
    <2>5. UNCHANGED <<backoff, cancelled, model, cellLock, modelLock, current>>
      BY <1>5 DEF CollectOutcome, TakeFuture, locks
    <2> QED
      BY <2>1, <2>2, <2>3, <2>4, <2>5 DEF TypeOK, ReportsTyped
  <1>6. ASSUME NEW c \in Campaign, Return(c) PROVE TypeOK'
    BY <1>6 DEF Return, TypeOK, locks
  <1>7. ASSUME NEW c \in Campaign, Drained(c) PROVE TypeOK'
    BY <1>7 DEF Drained, TypeOK, locks
  <1>8. ASSUME NEW c \in Campaign, NEW x \in Cell, WorkerStep(c, x)
        PROVE  TypeOK'
    BY <1>8, WorkerType
  <1>9. ASSUME NEW c \in Campaign, Cancel(c) PROVE TypeOK'
    BY <1>9 DEF Cancel, TypeOK, loop, locks
  <1>10. ASSUME NEW c \in Campaign, Kill(c) PROVE TypeOK'
    BY <1>10 DEF Kill, TypeOK
  <1> QED
    BY <1>1, <1>2, <1>3, <1>4, <1>5, <1>6, <1>7, <1>8, <1>9, <1>10
       DEF Next, LoopStep, CollectStep

----------------------------------------------------------------------------
\* Only an outcome changes the prerequisites, and it changes both alike.
LEMMA OnlyOutcomes ==
  ASSUME TypeOK, Reports, Next,
         ~ \E c \in Campaign, x \in Cell : CollectOutcome(c, x)
  PROVE  UNCHANGED <<prerequisites, outcomes>>
  <1>1. ASSUME NEW c \in Campaign, NEW x \in Cell, WorkerStep(c, x)
        PROVE  UNCHANGED <<prerequisites, outcomes>>
    BY <1>1, WorkerKinds DEF loop
  <1> QED
    BY <1>1 DEF Next, LoopStep, CollectStep, Submit, RetryDue, CollectDeferred,
                CollectRaised, Return, Drained, Cancel, Kill, loop

\* The prerequisites and outcomes of a campaign that collects x.
LEMMA LedgerOfCollected ==
  ASSUME TypeOK, Reports, Startable, NEW c \in Campaign, NEW x \in Cell,
         CollectOutcome(c, x)
  PROVE  /\ x \in Unfinished(c)
         /\ DOMAIN outcomes'[c] = DOMAIN outcomes[c] \cup {x}
         /\ Unfinished(c)' = Unfinished(c) \ {x}
         /\ prerequisites'[c] = Discharged(c, x)
         /\ \A d \in Campaign \ {c} : /\ outcomes'[d] = outcomes[d]
                                     /\ prerequisites'[d] = prerequisites[d]
                                     /\ Unfinished(d)' = Unfinished(d)
  <1>1. x \in Unfinished(c)
    BY DEF CollectOutcome, TakeFuture, Startable, StartableIn, Futures
  <1>2. outcomes' = [outcomes EXCEPT ![c] = Recorded(c, x)]
    BY Collected
  <1>3. prerequisites' = [prerequisites EXCEPT ![c] = Discharged(c, x)]
    BY DEF CollectOutcome
  <1>4. DOMAIN outcomes = Campaign /\ DOMAIN prerequisites = Campaign
    BY DEF TypeOK
  <1>5. /\ DOMAIN Recorded(c, x) = DOMAIN outcomes[c] \cup {x}
        /\ DOMAIN Discharged(c, x) = Unfinished(c) \ {x}
    BY DEF Recorded, Discharged
  <1> QED
    BY <1>1, <1>2, <1>3, <1>4, <1>5 DEF Unfinished

\* Every step keeps the ledger.
LEMMA LedgerStep ==
  ASSUME TypeOK, Reports, Startable, Ledger, Next
  PROVE  Ledger'
  <1>1. ASSUME NEW c \in Campaign, NEW x \in Cell, CollectOutcome(c, x)
        PROVE  Ledger'
    <2> SUFFICES ASSUME NEW d \in Campaign
                 PROVE  /\ DOMAIN outcomes'[d] \subseteq Planned[d]
                        /\ Unfinished(d)' = Planned[d] \ DOMAIN outcomes'[d]
                        /\ \A y \in Unfinished(d)' :
                             prerequisites'[d][y] =
                               Edges(d, y) \ DOMAIN outcomes'[d]
      BY DEF Ledger, Edges
    <2>1. CASE d # c
      BY <1>1, <2>1, LedgerOfCollected DEF Ledger
    <2>2. CASE d = c
      <3>1. x \in Planned[c]
        BY <1>1, LedgerOfCollected DEF Ledger
      <3>2. \A y \in Unfinished(c) \ {x} :
              Discharged(c, x)[y] = prerequisites[c][y] \ {x}
        BY DEF Discharged
      <3> QED
        BY <1>1, <2>2, <3>1, <3>2, LedgerOfCollected DEF Ledger
    <2> QED
      BY <2>1, <2>2
  <1>2. CASE UNCHANGED <<prerequisites, outcomes>>
    BY <1>2 DEF Ledger, Unfinished, Edges
  <1> QED
    BY <1>1, <1>2, OnlyOutcomes

----------------------------------------------------------------------------
\* A campaign whose loop, prerequisites and workers stay is left startable.
LEMMA StartableStays ==
  ASSUME NEW c, StartableIn(c), Futures(c)' = Futures(c),
         queued'[c] = queued[c], backoff'[c] \subseteq backoff[c],
         prerequisites'[c] = prerequisites[c],
         main'[c] = "running" => main[c] = "running"
  PROVE  StartableIn(c)'
  BY DEF StartableIn, Unfinished

\* The workers of c after its loop took the future of x.
LEMMA FutureTaken ==
  ASSUME TypeOK, NEW c \in Campaign, NEW x \in Cell, TakeFuture(c, x)
  PROVE  /\ x \in Futures(c)
         /\ Futures(c)' = Futures(c) \ {x}
         /\ \A d \in Campaign \ {c} : Futures(d)' = Futures(d)
  <1>1. worker \in [Campaign -> [Cell -> Phase]]
    BY DEF TypeOK
  <1> QED
    BY <1>1 DEF TakeFuture, Futures

\* Every step leaves queued or running what can start, and nothing else.
LEMMA StartableStep ==
  ASSUME TypeOK, Reports, Ledger, Startable, Next
  PROVE  Startable'
  <1> SUFFICES ASSUME NEW d \in Campaign PROVE StartableIn(d)'
    BY DEF Startable
  <1>0. /\ StartableIn(d)
        /\ worker \in [Campaign -> [Cell -> Phase]]
        /\ DOMAIN queued = Campaign /\ DOMAIN backoff = Campaign
        /\ DOMAIN main = Campaign /\ DOMAIN prerequisites = Campaign
    BY DEF TypeOK, Startable
  <1>1. ASSUME NEW c \in Campaign, NEW x \in Cell, Submit(c, x)
        PROVE  StartableIn(d)'
    <2>1. Futures(d)' = IF d = c THEN Futures(c) \cup {x} ELSE Futures(d)
      BY <1>0, <1>1 DEF Submit, Futures
    <2>2. /\ x \in queued[c] \ backoff[c]
          /\ queued'[d] = IF d = c THEN queued[c] \ {x} ELSE queued[d]
          /\ UNCHANGED <<backoff, prerequisites, main>>
      BY <1>0, <1>1 DEF Submit, Candidates
    <2> QED
      BY <1>0, <2>1, <2>2 DEF StartableIn, Unfinished
  <1>2. ASSUME NEW c \in Campaign, NEW x \in Cell, RetryDue(c, x)
        PROVE  StartableIn(d)'
    BY <1>0, <1>2, StartableStays DEF RetryDue, Futures
  <1>3. ASSUME NEW c \in Campaign, NEW x \in Cell, CollectDeferred(c, x)
        PROVE  StartableIn(d)'
    <2>1. /\ x \in Futures(c)
          /\ Futures(d)' = IF d = c THEN Futures(c) \ {x} ELSE Futures(d)
      BY <1>3, FutureTaken DEF CollectDeferred
    <2>2. /\ queued'[d] = IF d = c THEN queued[c] \cup {x} ELSE queued[d]
          /\ backoff'[d] = IF d = c THEN backoff[c] \cup {x} ELSE backoff[d]
          /\ UNCHANGED <<prerequisites, main>>
      BY <1>0, <1>3 DEF CollectDeferred
    <2> QED
      BY <1>0, <2>1, <2>2 DEF StartableIn, Unfinished
  <1>4. ASSUME NEW c \in Campaign, NEW x \in Cell, CollectRaised(c, x)
        PROVE  StartableIn(d)'
    <2>1. Futures(d)' = IF d = c THEN Futures(c) \ {x} ELSE Futures(d)
      BY <1>4, FutureTaken DEF CollectRaised
    <2>2. /\ main'[d] = IF d = c THEN "draining" ELSE main[d]
          /\ UNCHANGED <<prerequisites, queued, backoff>>
      BY <1>0, <1>4 DEF CollectRaised
    <2> QED
      BY <1>0, <2>1, <2>2 DEF StartableIn, Unfinished
  <1>5. ASSUME NEW c \in Campaign, NEW x \in Cell, CollectOutcome(c, x)
        PROVE  StartableIn(d)'
    <2>1. /\ x \in Futures(c)
          /\ Futures(d)' = IF d = c THEN Futures(c) \ {x} ELSE Futures(d)
      BY <1>5, FutureTaken DEF CollectOutcome
    <2>2. /\ queued'[d] = IF d = c THEN queued[c] \cup NewlyReady(c, x)
                          ELSE queued[d]
          /\ backoff' = backoff
          /\ main[c] = "running"
          /\ d # c => main'[d] = main[d]
      BY <1>0, <1>5 DEF CollectOutcome, TakeFuture
    <2>3. CASE d # c
      BY <1>0, <1>5, <2>1, <2>2, <2>3, LedgerOfCollected, StartableStays
    <2>4. CASE d = c
      <3>1. /\ Unfinished(c)' = Unfinished(c) \ {x}
            /\ \A y \in Unfinished(c) \ {x} :
                 prerequisites'[c][y] = prerequisites[c][y] \ {x}
        <4>1. \A y \in Unfinished(c) \ {x} :
                Discharged(c, x)[y] = prerequisites[c][y] \ {x}
          BY DEF Discharged
        <4>2. /\ Unfinished(c)' = Unfinished(c) \ {x}
              /\ prerequisites'[c] = Discharged(c, x)
          BY <1>5, LedgerOfCollected
        <4> QED
          BY <4>1, <4>2
      <3>2. \A y \in Unfinished(c) \ {x} :
              x \in prerequisites[c][y] => x \in Edges(c, y)
        BY DEF Ledger
      <3>3. NewlyReady(c, x) =
              {y \in Unfinished(c) \ {x} :
                 x \in Edges(c, y) /\ prerequisites'[c][y] = {}
                   /\ y \notin queued[c] \cup Futures(c)}
        BY <3>1 DEF NewlyReady, Discharged
      <3> QED
        BY <1>0, <2>1, <2>2, <2>4, <3>1, <3>2, <3>3 DEF StartableIn
    <2> QED
      BY <2>3, <2>4
  <1>6. ASSUME NEW c \in Campaign, Return(c) PROVE StartableIn(d)'
    <2>1. main'[d] = "running" => main[d] = "running"
      BY <1>0, <1>6 DEF Return
    <2> QED
      BY <1>0, <1>6, <2>1, StartableStays DEF Return, Futures
  <1>7. ASSUME NEW c \in Campaign, Drained(c) PROVE StartableIn(d)'
    <2>1. Futures(d)' = IF d = c THEN {} ELSE Futures(d)
      BY <1>0, <1>7 DEF Drained, Futures
    <2>2. /\ main'[d] = IF d = c THEN "raised" ELSE main[d]
          /\ UNCHANGED <<prerequisites, queued, backoff>>
      BY <1>0, <1>7 DEF Drained
    <2> QED
      BY <1>0, <2>1, <2>2 DEF StartableIn, Unfinished
  <1>8. ASSUME NEW c \in Campaign, NEW x \in Cell, WorkerStep(c, x)
        PROVE  StartableIn(d)'
    <2>1. Futures(d)' = Futures(d)
      BY <1>8, WorkerKeepsFutures
    <2>2. UNCHANGED loop
      BY <1>8, WorkerKinds
    <2> QED
      BY <1>0, <2>1, <2>2, StartableStays DEF loop
  <1>9. ASSUME NEW c \in Campaign, Cancel(c) PROVE StartableIn(d)'
    BY <1>0, <1>9, StartableStays DEF Cancel, loop, Futures
  <1>10. ASSUME NEW c \in Campaign, Kill(c) PROVE StartableIn(d)'
    <2>1. Futures(d)' = IF d = c THEN {} ELSE Futures(d)
      BY <1>0, <1>10 DEF Kill, Futures
    <2>2. /\ main'[d] = IF d = c THEN "dead" ELSE main[d]
          /\ UNCHANGED <<prerequisites, queued, backoff>>
      BY <1>0, <1>10 DEF Kill
    <2> QED
      BY <1>0, <2>1, <2>2 DEF StartableIn, Unfinished
  <1> QED
    BY <1>1, <1>2, <1>3, <1>4, <1>5, <1>6, <1>7, <1>8, <1>9, <1>10
       DEF Next, LoopStep, CollectStep

----------------------------------------------------------------------------
\* The workers and reports that a step of the loop of c leaves alone.
LEMMA ReportsStay ==
  ASSUME NEW d, NEW y, ReportsIn(d, y),
         worker'[d][y] = worker[d][y], result'[d][y] = result[d][y],
         reported'[d][y] = reported[d][y],
         y \in DOMAIN outcomes'[d] <=> y \in DOMAIN outcomes[d],
         main'[d] \in {"running", "returned"} => main[d] \in {"running", "returned"}
  PROVE  ReportsIn(d, y)'
  BY DEF ReportsIn

\* Every step keeps what was reported in line with the workers.
LEMMA ReportsStep ==
  ASSUME TypeOK, Reports, Ledger, Startable, Next
  PROVE  Reports'
  <1> SUFFICES ASSUME NEW d \in Campaign, NEW y \in Cell PROVE ReportsIn(d, y)'
    BY DEF Reports
  <1>0. /\ ReportsIn(d, y)
        /\ worker \in [Campaign -> [Cell -> Phase]]
        /\ DOMAIN main = Campaign
        /\ DOMAIN result = Campaign /\ DOMAIN reported = Campaign
        /\ \A c \in Campaign : DOMAIN result[c] = Cell /\ DOMAIN reported[c] = Cell
    BY DEF TypeOK, Reports
  <1>a. ASSUME NEW c \in Campaign, NEW x \in Cell, TakeFuture(c, x)
        PROVE  /\ worker'[d][y] = IF <<d, y>> = <<c, x>> THEN "none" ELSE worker[d][y]
               /\ result'[d][y] = IF <<d, y>> = <<c, x>> THEN "none" ELSE result[d][y]
               /\ reported' = reported
               /\ main[c] = "running" /\ worker[c][x] = "done"
    BY <1>0, <1>a DEF TakeFuture
  <1>1. ASSUME NEW c \in Campaign, NEW x \in Cell, Submit(c, x)
        PROVE  ReportsIn(d, y)'
    <2>1. CASE d = c /\ y = x
      <3>1. x \notin DOMAIN outcomes[c] /\ x \notin Futures(c)
        BY <1>1 DEF Submit, Candidates, Startable, StartableIn, Ledger
      <3>2. worker[c][x] = "none"
        BY <3>1 DEF Futures
      <3>3. /\ main[c] = "running" /\ worker'[c][x] = "submitted"
            /\ UNCHANGED <<result, reported>>
        BY <1>0, <1>1 DEF Submit
      <3> QED
        BY <1>0, <2>1, <3>1, <3>2, <3>3 DEF ReportsIn
    <2>2. CASE ~ (d = c /\ y = x)
      BY <1>0, <1>1, <2>2, ReportsStay DEF Submit
    <2> QED
      BY <2>1, <2>2
  <1>2. ASSUME NEW c \in Campaign, NEW x \in Cell, RetryDue(c, x)
        PROVE  ReportsIn(d, y)'
    BY <1>0, <1>2, ReportsStay DEF RetryDue
  <1>3. ASSUME NEW c \in Campaign, NEW x \in Cell, CollectDeferred(c, x)
        PROVE  ReportsIn(d, y)'
    <2>1. CASE d = c /\ y = x
      <3>1. x \notin DOMAIN outcomes[c]
        <4>1. x \in Futures(c)
          BY <1>3, FutureTaken DEF CollectDeferred
        <4> QED
          BY <4>1 DEF Startable, StartableIn, Ledger
      <3>2. UNCHANGED <<main, outcomes>> /\ result[c][x] = "deferred"
        BY <1>3 DEF CollectDeferred
      <3> QED
        BY <1>0, <1>a, <1>3, <2>1, <3>1, <3>2 DEF ReportsIn, CollectDeferred
    <2>2. CASE ~ (d = c /\ y = x)
      BY <1>0, <1>a, <1>3, <2>2, ReportsStay DEF CollectDeferred
    <2> QED
      BY <2>1, <2>2
  <1>4. ASSUME NEW c \in Campaign, NEW x \in Cell, CollectRaised(c, x)
        PROVE  ReportsIn(d, y)'
    <2>1. /\ main'[d] = IF d = c THEN "draining" ELSE main[d]
          /\ outcomes' = outcomes
      BY <1>0, <1>4 DEF CollectRaised
    <2> QED
      BY <1>0, <1>a, <1>4, <2>1 DEF ReportsIn, CollectRaised
  <1>5. ASSUME NEW c \in Campaign, NEW x \in Cell, CollectOutcome(c, x)
        PROVE  ReportsIn(d, y)'
    <2>1. /\ d = c => DOMAIN outcomes'[d] = DOMAIN outcomes[d] \cup {x}
          /\ d # c => outcomes'[d] = outcomes[d]
      BY <1>5, LedgerOfCollected
    <2>2. /\ d # c => main'[d] = main[d]
          /\ TakeFuture(c, x) /\ result[c][x] # "deferred"
      BY <1>0, <1>5 DEF CollectOutcome
    <2>3. CASE d = c /\ y = x
      BY <1>0, <1>a, <2>1, <2>2, <2>3 DEF ReportsIn
    <2>4. CASE ~ (d = c /\ y = x)
      BY <1>0, <1>a, <2>1, <2>2, <2>4, ReportsStay
    <2> QED
      BY <2>3, <2>4
  <1>6. ASSUME NEW c \in Campaign, Return(c) PROVE ReportsIn(d, y)'
    BY <1>0, <1>6, ReportsStay DEF Return
  <1>7. ASSUME NEW c \in Campaign, Drained(c) PROVE ReportsIn(d, y)'
    <2>1. /\ main'[d] = IF d = c THEN "raised" ELSE main[d]
          /\ worker'[d][y] = IF d = c THEN "none" ELSE worker[d][y]
          /\ UNCHANGED <<outcomes, result, reported>>
      BY <1>0, <1>7 DEF Drained
    <2> QED
      BY <1>0, <2>1 DEF ReportsIn
  <1>8. ASSUME NEW c \in Campaign, NEW x \in Cell, WorkerStep(c, x)
        PROVE  ReportsIn(d, y)'
    <2>0. UNCHANGED <<main, outcomes>>
      BY <1>8, WorkerKinds DEF loop
    <2>1. ASSUME NEW r \in Outcome \cup {"raised"}, Busy(c, x), Finish(c, x, r)
          PROVE  ReportsIn(d, y)'
      <3>1. /\ worker'[d][y] = IF <<d, y>> = <<c, x>> THEN "leaving"
                               ELSE worker[d][y]
            /\ result'[d][y] = IF <<d, y>> = <<c, x>> THEN r ELSE result[d][y]
            /\ reported'[d][y] = IF <<d, y>> = <<c, x>> THEN reported[d][y] + 1
                                 ELSE reported[d][y]
        BY <1>0, <2>1 DEF Finish, Goto
      <3>2. r \notin {"none", "deferred"}
        BY DEF Outcome
      <3> QED
        BY <1>0, <2>0, <2>1, <3>1, <3>2 DEF ReportsIn, Busy
    <2>2. ASSUME Busy(c, x), Defer(c, x, "leaving") PROVE ReportsIn(d, y)'
      <3>1. /\ worker'[d][y] = IF <<d, y>> = <<c, x>> THEN "leaving"
                               ELSE worker[d][y]
            /\ result'[d][y] = IF <<d, y>> = <<c, x>> THEN "deferred"
                               ELSE result[d][y]
            /\ reported' = reported
        BY <1>0, <2>2 DEF Defer, Goto
      <3> QED
        BY <1>0, <2>0, <2>2, <3>1 DEF ReportsIn, Busy
    <2>3. ASSUME NEW phase \in Phase \ {"none", "leaving", "done"}, Busy(c, x),
                 Goto(c, x, phase), UNCHANGED <<result, reported>>
          PROVE  ReportsIn(d, y)'
      <3>1. worker'[d][y] = IF <<d, y>> = <<c, x>> THEN phase ELSE worker[d][y]
        BY <1>0, <2>3 DEF Goto
      <3> QED
        BY <1>0, <2>0, <2>3, <3>1 DEF ReportsIn, Busy
    <2>4. ASSUME Leave(c, x) PROVE ReportsIn(d, y)'
      <3>1. /\ worker'[d][y] = IF <<d, y>> = <<c, x>> THEN "done"
                               ELSE worker[d][y]
            /\ worker[c][x] = "leaving"
            /\ UNCHANGED <<result, reported>>
        BY <1>0, <2>4 DEF Leave, At, Goto
      <3> QED
        BY <1>0, <2>0, <3>1 DEF ReportsIn
    <2> QED
      BY <1>8, <2>1, <2>2, <2>3, <2>4, WorkerKinds DEF WorkerAdvances
  <1>9. ASSUME NEW c \in Campaign, Cancel(c) PROVE ReportsIn(d, y)'
    BY <1>0, <1>9, ReportsStay DEF Cancel, loop
  <1>10. ASSUME NEW c \in Campaign, Kill(c) PROVE ReportsIn(d, y)'
    <2>1. /\ main'[d] = IF d = c THEN "dead" ELSE main[d]
          /\ worker'[d][y] = IF d = c THEN "none" ELSE worker[d][y]
          /\ UNCHANGED <<outcomes, result, reported>>
      BY <1>0, <1>10 DEF Kill
    <2> QED
      BY <1>0, <2>1 DEF ReportsIn
  <1> QED
    BY <1>1, <1>2, <1>3, <1>4, <1>5, <1>6, <1>7, <1>8, <1>9, <1>10
       DEF Next, LoopStep, CollectStep

----------------------------------------------------------------------------
\* Steps that are not a worker's or a death leave locks and results alone and
\* take no worker to a phase in which it works.
LEMMA LoopLocks ==
  ASSUME TypeOK, Next, NEW d \in Campaign, NEW y \in Cell,
         ~ \E c \in Campaign : Kill(c) \/ \E x \in Cell : WorkerStep(c, x)
  PROVE  /\ UNCHANGED <<cellLock, modelLock, current>>
         /\ worker'[d][y] \in {worker[d][y], "none", "submitted"}
  <1>0. worker \in [Campaign -> [Cell -> Phase]]
    BY DEF TypeOK
  <1>1. ASSUME NEW c \in Campaign, NEW x \in Cell,
               \/ Submit(c, x) \/ RetryDue(c, x) \/ CollectDeferred(c, x)
               \/ CollectRaised(c, x) \/ CollectOutcome(c, x)
        PROVE  /\ UNCHANGED <<cellLock, modelLock, current>>
               /\ worker'[d][y] \in {worker[d][y], "none", "submitted"}
    <2>1. CASE Submit(c, x) \/ RetryDue(c, x)
      BY <1>0, <2>1 DEF Submit, RetryDue, locks
    <2>2. CASE TakeFuture(c, x)
      BY <1>0, <2>2 DEF TakeFuture, locks
    <2> QED
      BY <1>1, <2>1, <2>2 DEF CollectDeferred, CollectRaised, CollectOutcome
  <1>2. ASSUME NEW c \in Campaign, Return(c) \/ Drained(c) \/ Cancel(c)
        PROVE  /\ UNCHANGED <<cellLock, modelLock, current>>
               /\ worker'[d][y] \in {worker[d][y], "none", "submitted"}
    BY <1>0, <1>2 DEF Return, Drained, Cancel, locks
  <1> QED
    BY <1>1, <1>2 DEF Next, LoopStep, CollectStep

\* No two workers of different campaigns work on a cell.
LEMMA Exclusion ==
  ASSUME LocksHeld, NEW c \in Campaign, NEW d \in Campaign, NEW x \in Cell,
         Working(c, x), Working(d, x)
  PROVE  c = d
  BY DEF LocksHeld

\* What a step of the worker of x in c does to the locks.
LEMMA WorkerLocks ==
  ASSUME TypeOK, NEW c \in Campaign, NEW x \in Cell, WorkerStep(c, x)
  PROVE  /\ \A d \in Campaign, y \in Cell :
              <<d, y>> # <<c, x>> => worker'[d][y] = worker[d][y]
         /\ \/ /\ UNCHANGED <<cellLock, modelLock>>
               /\ Working(c, x)' => Working(c, x)
               /\ worker'[c][x] # "preparing"
            \/ LockCell(c, x) /\ worker'[c][x] = "locked"
            \/ /\ LockModel(c, x) /\ worker[c][x] = "asking"
               /\ cellLock' = cellLock
               /\ \/ worker'[c][x] = "preparing" /\ modelLock = Nobody
                    /\ modelLock' = <<c, x>>
                  \/ worker'[c][x] = "modelling" /\ modelLock' = modelLock
            \/ /\ worker[c][x] = "preparing" /\ worker'[c][x] # "preparing"
               /\ cellLock' = cellLock /\ modelLock' = Nobody
            \/ Leave(c, x) /\ worker'[c][x] = "done" /\ modelLock' = modelLock
  <1>0. worker \in [Campaign -> [Cell -> Phase]]
    BY DEF TypeOK
  <1>1. \A d \in Campaign, y \in Cell :
          <<d, y>> # <<c, x>> => worker'[d][y] = worker[d][y]
    BY <1>0, WorkerMoves
  <1> USE <1>0, <1>1 DEF At, Goto, Finish, Defer, Working, locks
  <1>2. CASE StartCancelled(c, x) \/ CellBusy(c, x) \/ Inspect(c, x)
    BY <1>2 DEF StartCancelled, CellBusy, Inspect
  <1>3. CASE LockCell(c, x)
    BY <1>3 DEF LockCell
  <1>4. CASE ModelUnknown(c, x) \/ ModelCancelled(c, x) \/ ModelBusy(c, x)
    BY <1>4 DEF ModelUnknown, ModelCancelled, ModelBusy
  <1>5. CASE ModelKnown(c, x)
    BY <1>5 DEF ModelKnown, PreparationFailed
  <1>6. CASE LockModel(c, x)
    BY <1>6 DEF LockModel
  <1>7. CASE \E memo \in {"ready", "terminal", "error", "cancelled"} :
               Prepared(c, x, memo)
    BY <1>7 DEF Prepared, PreparationFailed
  <1>8. CASE \E r \in {"success", "terminal", "error", "cancelled"} :
               Measured(c, x, r)
    BY <1>8 DEF Measured
  <1>9. CASE Raises(c, x)
    BY <1>9 DEF Raises
  <1>10. CASE Leave(c, x)
    BY <1>10 DEF Leave
  <1> QED
    BY <1>2, <1>3, <1>4, <1>5, <1>6, <1>7, <1>8, <1>9, <1>10 DEF WorkerStep

\* Every step keeps who holds the locks.
LEMMA LocksStep ==
  ASSUME TypeOK, LocksHeld, Next
  PROVE  LocksHeld'
  <1> SUFFICES ASSUME NEW d \in Campaign, NEW y \in Cell
               PROVE  /\ Working(d, y)' => cellLock'[y] = d
                      /\ worker'[d][y] = "preparing" => modelLock' = <<d, y>>
    BY DEF LocksHeld, At
  <1>0. /\ Working(d, y) => cellLock[y] = d
        /\ worker[d][y] = "preparing" => modelLock = <<d, y>>
        /\ worker \in [Campaign -> [Cell -> Phase]]
        /\ cellLock \in [Cell -> Campaign \cup {Nobody}]
        /\ Nobody \notin Campaign /\ Nobody \notin Campaign \X Cell
    BY SettingsAssumption DEF LocksHeld, At, TypeOK
  <1>1. CASE ~ \E c \in Campaign : Kill(c) \/ \E x \in Cell : WorkerStep(c, x)
    <2>1. /\ UNCHANGED <<cellLock, modelLock>>
          /\ worker'[d][y] \in {worker[d][y], "none", "submitted"}
      BY <1>1, LoopLocks
    <2> QED
      BY <1>0, <2>1 DEF Working
  <1>2. ASSUME NEW c \in Campaign, NEW x \in Cell, WorkerStep(c, x)
        PROVE  /\ Working(d, y)' => cellLock'[y] = d
               /\ worker'[d][y] = "preparing" => modelLock' = <<d, y>>
    <2>1. <<d, y>> # <<c, x>> => worker'[d][y] = worker[d][y]
      BY <1>2, WorkerLocks
    <2>2. CASE /\ UNCHANGED <<cellLock, modelLock>>
               /\ Working(c, x)' => Working(c, x)
               /\ worker'[c][x] # "preparing"
      BY <1>0, <2>1, <2>2 DEF Working
    <2>3. CASE LockCell(c, x) /\ worker'[c][x] = "locked"
      BY <1>0, <2>1, <2>3 DEF LockCell, Working
    <2>4. CASE /\ LockModel(c, x) /\ worker[c][x] = "asking"
               /\ cellLock' = cellLock
               /\ \/ worker'[c][x] = "preparing" /\ modelLock = Nobody
                    /\ modelLock' = <<c, x>>
                  \/ worker'[c][x] = "modelling" /\ modelLock' = modelLock
      BY <1>0, <2>1, <2>4 DEF Working
    <2>5. CASE /\ worker[c][x] = "preparing" /\ worker'[c][x] # "preparing"
               /\ cellLock' = cellLock /\ modelLock' = Nobody
      <3>1. modelLock = <<c, x>>
        BY <2>5 DEF LocksHeld, At
      <3>2. worker[d][y] = "preparing" => <<d, y>> = <<c, x>>
        BY <1>0, <3>1
      <3> QED
        BY <1>0, <2>1, <2>5, <3>2 DEF Working
    <2>6. CASE Leave(c, x) /\ worker'[c][x] = "done" /\ modelLock' = modelLock
      BY <1>0, <2>1, <2>6 DEF Leave, Working
    <2> QED
      BY <1>2, <2>2, <2>3, <2>4, <2>5, <2>6, WorkerLocks
  <1>3. ASSUME NEW c \in Campaign, Kill(c)
        PROVE  /\ Working(d, y)' => cellLock'[y] = d
               /\ worker'[d][y] = "preparing" => modelLock' = <<d, y>>
    <2>1. worker'[d][y] = IF d = c THEN "none" ELSE worker[d][y]
      BY <1>0, <1>3 DEF Kill
    <2>2. cellLock'[y] = IF cellLock[y] = c THEN Nobody ELSE cellLock[y]
      BY <1>3 DEF Kill
    <2>3. d # c /\ modelLock = <<d, y>> => modelLock' = modelLock
      BY <1>3 DEF Kill
    <2> QED
      BY <1>0, <2>1, <2>2, <2>3 DEF Working
  <1> QED
    BY <1>1, <1>2, <1>3

----------------------------------------------------------------------------
\* A worker replaces a result only as it ends, and it works until then.
LEMMA WorkerPublishes ==
  ASSUME TypeOK, NEW c \in Campaign, NEW x \in Cell, WorkerStep(c, x),
         NEW y \in Cell, current'[y] # current[y]
  PROVE  /\ y = x /\ Working(c, x) /\ ~At(c, x, "locked")
         /\ worker'[c][x] = "leaving"
  <1>0. /\ worker \in [Campaign -> [Cell -> Phase]]
        /\ current \in [Cell -> {"missing", "success", "terminal"}]
    BY DEF TypeOK
  <1> USE <1>0 DEF At, Goto, Finish, Working
  <1>1. ASSUME current' = current PROVE FALSE
    BY <1>1
  <1>2. CASE ModelKnown(c, x)
    BY <1>2 DEF ModelKnown, PreparationFailed
  <1>3. CASE \E memo \in {"ready", "terminal", "error", "cancelled"} :
               Prepared(c, x, memo)
    BY <1>3 DEF Prepared, PreparationFailed
  <1>4. CASE \E r \in {"success", "terminal", "error", "cancelled"} :
               Measured(c, x, r)
    BY <1>4 DEF Measured
  <1> QED
    BY <1>1, <1>2, <1>3, <1>4
       DEF WorkerStep, StartCancelled, LockCell, CellBusy, Inspect, ModelUnknown,
           ModelCancelled, ModelBusy, LockModel, Raises, Leave

\* A worker that goes past its check found nothing to keep.
LEMMA WorkerChecks ==
  ASSUME TypeOK, NEW c \in Campaign, NEW x \in Cell, WorkerStep(c, x),
         Working(c, x)', ~At(c, x, "locked")'
  PROVE  \/ Working(c, x) /\ ~At(c, x, "locked")
         \/ ~Kept(c, x) /\ current' = current
  <1>0. worker \in [Campaign -> [Cell -> Phase]]
    BY DEF TypeOK
  <1>1. CASE StartCancelled(c, x) \/ LockCell(c, x) \/ CellBusy(c, x)
             \/ Raises(c, x) \/ Leave(c, x)
    BY <1>0, <1>1 DEF StartCancelled, LockCell, CellBusy, Raises, Leave, At, Goto,
                      Finish, Defer, Working
  <1>2. CASE Inspect(c, x)
    BY <1>0, <1>2 DEF Inspect, At, Goto, Finish, Working
  <1>3. CASE ~ (StartCancelled(c, x) \/ LockCell(c, x) \/ CellBusy(c, x)
                \/ Raises(c, x) \/ Leave(c, x) \/ Inspect(c, x))
    <2>1. worker[c][x] \in {"modelling", "asking", "preparing", "measuring"}
      BY <1>3 DEF WorkerStep, ModelKnown, ModelUnknown, ModelCancelled,
                  ModelBusy, LockModel, Prepared, Measured, At
    <2> QED
      BY <2>1 DEF Working, At
  <1> QED
    BY <1>1, <1>2, <1>3

\* Every step keeps that workers past their check find no result.
LEMMA MissingStep ==
  ASSUME TypeOK, LocksHeld, StillMissing, Next
  PROVE  StillMissing'
  <1> SUFFICES ASSUME NEW d \in Campaign, NEW y \in Cell, MissingOnly[d],
                      Working(d, y)', ~At(d, y, "locked")'
               PROVE  current'[y] = "missing"
    BY DEF StillMissing
  <1>0. /\ worker \in [Campaign -> [Cell -> Phase]]
        /\ Working(d, y) /\ ~At(d, y, "locked") => current[y] = "missing"
    BY DEF TypeOK, StillMissing
  <1>1. CASE ~ \E c \in Campaign : Kill(c) \/ \E x \in Cell : WorkerStep(c, x)
    <2>1. /\ current' = current
          /\ worker'[d][y] \in {worker[d][y], "none", "submitted"}
      BY <1>1, LoopLocks
    <2> QED
      BY <1>0, <2>1 DEF Working, At
  <1>2. ASSUME NEW c \in Campaign, NEW x \in Cell, WorkerStep(c, x)
        PROVE  current'[y] = "missing"
    <2>1. <<d, y>> # <<c, x>> => worker'[d][y] = worker[d][y]
      BY <1>2, WorkerLocks
    <2>2. CASE current'[y] # current[y]
      <3>1. y = x /\ Working(c, x) /\ worker'[c][x] = "leaving"
        BY <1>2, <2>2, WorkerPublishes
      <3>2. d # c
        BY <3>1 DEF Working
      <3>3. Working(d, x)
        BY <2>1, <3>1, <3>2 DEF Working
      <3> QED
        BY <3>1, <3>2, <3>3, Exclusion
    <2>3. CASE current'[y] = current[y]
      <3>1. CASE <<d, y>> = <<c, x>>
        <4>1. d = c /\ y = x
          BY <3>1
        <4>2. Working(c, x)' /\ ~At(c, x, "locked")'
          BY <4>1
        <4>3. \/ Working(c, x) /\ ~At(c, x, "locked")
              \/ ~Kept(c, x) /\ current' = current
          BY <1>2, <4>2, WorkerChecks
        <4> QED
          BY <1>0, <2>3, <4>1, <4>3 DEF Kept
      <3>2. CASE <<d, y>> # <<c, x>>
        BY <1>0, <2>1, <2>3, <3>2 DEF Working, At
      <3> QED
        BY <3>1, <3>2
    <2> QED
      BY <2>2, <2>3
  <1>3. ASSUME NEW c \in Campaign, Kill(c) PROVE current'[y] = "missing"
    <2>1. /\ worker'[d][y] = IF d = c THEN "none" ELSE worker[d][y]
          /\ current' = current
      BY <1>0, <1>3 DEF Kill
    <2> QED
      BY <1>0, <2>1 DEF Working, At
  <1> QED
    BY <1>1, <1>2, <1>3

----------------------------------------------------------------------------
\* Nothing becomes unfinished, and only a submission adds a future.
LEMMA FewerUnfinished ==
  ASSUME TypeOK, Reports, Ledger, Startable, Next, NEW d \in Campaign
  PROVE  Unfinished(d)' \subseteq Unfinished(d)
  <1>1. ASSUME NEW c \in Campaign, NEW x \in Cell, CollectOutcome(c, x)
        PROVE  Unfinished(d)' \subseteq Unfinished(d)
    BY <1>1, LedgerOfCollected
  <1>2. CASE UNCHANGED <<prerequisites, outcomes>>
    BY <1>2 DEF Unfinished
  <1> QED
    BY <1>1, <1>2, OnlyOutcomes

LEMMA OnlySubmitAdds ==
  ASSUME TypeOK, Next, NEW d \in Campaign, ~ \E x \in Cell : Submit(d, x)
  PROVE  Futures(d)' \subseteq Futures(d)
  <1>0. worker \in [Campaign -> [Cell -> Phase]]
    BY DEF TypeOK
  <1>1. ASSUME NEW c \in Campaign, NEW x \in Cell, Submit(c, x)
        PROVE  Futures(d)' \subseteq Futures(d)
    BY <1>0, <1>1 DEF Submit, Futures
  <1>2. ASSUME NEW c \in Campaign, NEW x \in Cell, TakeFuture(c, x)
        PROVE  Futures(d)' \subseteq Futures(d)
    BY <1>2, FutureTaken
  <1>3. ASSUME NEW c \in Campaign, NEW x \in Cell, WorkerStep(c, x)
        PROVE  Futures(d)' \subseteq Futures(d)
    BY <1>3, WorkerKeepsFutures
  <1>4. ASSUME NEW c \in Campaign, Drained(c) \/ Kill(c)
        PROVE  Futures(d)' \subseteq Futures(d)
    BY <1>0, <1>4 DEF Drained, Kill, Futures
  <1>5. CASE UNCHANGED worker
    BY <1>5 DEF Futures
  <1> QED
    BY <1>1, <1>2, <1>3, <1>4, <1>5
       DEF Next, LoopStep, CollectStep, CollectDeferred, CollectRaised,
           CollectOutcome, RetryDue, Return, Cancel

\* Every step keeps the waves in order.
LEMMA WavesStep ==
  ASSUME TypeOK, Reports, Ledger, Startable, WavesInOrder, Next
  PROVE  WavesInOrder'
  <1> SUFFICES ASSUME WaveBarrier, NEW d \in Campaign, NEW x \in Futures(d)',
                      NEW y \in Unfinished(d)'
               PROVE  Multiplicity[x] <= Multiplicity[y]
    BY DEF WavesInOrder
  <1>1. y \in Unfinished(d)
    BY FewerUnfinished
  <1>2. CASE x \in Futures(d)
    BY <1>1, <1>2 DEF WavesInOrder
  <1>3. CASE x \notin Futures(d)
    <2>1. PICK z \in Cell : Submit(d, z)
      BY <1>3, OnlySubmitAdds
    <2>2. x = z
      <3>1. worker \in [Campaign -> [Cell -> Phase]]
        BY DEF TypeOK
      <3> QED
        BY <1>3, <2>1, <3>1 DEF Submit, Futures
    <2> QED
      BY <1>1, <2>1, <2>2 DEF Submit, Candidates, InActiveWave
  <1> QED
    BY <1>2, <1>3

\* A loop that collects an outcome is never stuck: of the cells left, one of
\* least rank waits for the collected cell at most.
LEMMA NeverStuck ==
  ASSUME TypeOK, Reports, Ledger, Startable, NEW c \in Campaign,
         NEW x \in Cell, CollectOutcome(c, x)
  PROVE  main'[c] = "running"
  <1>0. /\ DOMAIN main = Campaign /\ DOMAIN queued = Campaign
        /\ main[c] = "running"
    BY DEF TypeOK, CollectOutcome, TakeFuture
  <1> SUFFICES ASSUME Futures(c) = {x}, queued'[c] = {}, Unfinished(c) # {x}
               PROVE  FALSE
    BY <1>0 DEF CollectOutcome
  <1>1. queued[c] = {} /\ NewlyReady(c, x) = {}
    BY <1>0 DEF CollectOutcome
  <1>2. Unfinished(c) \ {x} # {}
    BY LedgerOfCollected
  <1>3. Unfinished(c) \subseteq Cell
    BY LoopFunctions
  <1>4. PICK y \in Unfinished(c) \ {x} :
          \A z \in Unfinished(c) \ {x} : Rank[y] <= Rank[z]
    <2>1. \A z \in Unfinished(c) \ {x} : Rank[z] \in Nat
      BY <1>3, PlanAssumption
    <2> QED
      BY <1>2, <2>1, LeastRank
  <1>5. prerequisites[c][y] \subseteq {x}
    <2> SUFFICES ASSUME NEW z \in prerequisites[c][y], z # x PROVE FALSE
      OBVIOUS
    <2>1. z \in Edges(c, y) /\ z \in Unfinished(c)
      BY DEF Ledger, Edges
    <2>2. Rank[z] < Rank[y] /\ Rank[y] \in Nat /\ Rank[z] \in Nat
      BY <1>3, <2>1, PlanAssumption DEF Edges
    <2> QED
      BY <1>4, <2>1, <2>2
  <1>6. prerequisites[c][y] # {}
    BY <1>0, <1>1 DEF Startable, StartableIn
  <1>7. x \in Edges(c, y)
    BY <1>5, <1>6 DEF Ledger
  <1>8. Discharged(c, x)[y] = {}
    BY <1>5 DEF Discharged
  <1> QED
    BY <1>1, <1>7, <1>8 DEF NewlyReady

----------------------------------------------------------------------------
\* A loop that is not running keeps its outcomes, and leaves its state only
\* when it is drained or dies.
LEMMA StoppedLoop ==
  ASSUME TypeOK, Reports, Startable, Next, NEW d \in Campaign
  PROVE  /\ main[d] # "running" => outcomes'[d] = outcomes[d]
         /\ \/ main'[d] = main[d]
            \/ Return(d) /\ main'[d] = "returned" /\ outcomes' = outcomes
            \/ Drained(d) /\ main[d] = "draining" /\ main'[d] = "raised"
            \/ \E x \in Cell : CollectRaised(d, x)
            \/ main'[d] = "dead"
            \/ \E x \in Cell : CollectOutcome(d, x)
         /\ ~cancelled'[d] => ~cancelled[d]
  <1>0. DOMAIN main = Campaign /\ DOMAIN cancelled = Campaign
    BY DEF TypeOK
  <1>1. ASSUME NEW c \in Campaign, NEW x \in Cell, CollectOutcome(c, x)
        PROVE  /\ main[c] = "running" /\ cancelled' = cancelled
               /\ d # c => outcomes'[d] = outcomes[d] /\ main'[d] = main[d]
    <2>1. d # c => outcomes'[d] = outcomes[d]
      BY <1>1, LedgerOfCollected
    <2> QED
      BY <1>0, <1>1, <2>1 DEF CollectOutcome, TakeFuture
  <1>2. ASSUME NEW c \in Campaign, NEW x \in Cell, CollectRaised(c, x)
        PROVE  UNCHANGED <<outcomes, cancelled>> /\ (d # c => main'[d] = main[d])
    BY <1>0, <1>2 DEF CollectRaised, TakeFuture
  <1>3. ASSUME NEW c \in Campaign, NEW x \in Cell,
               \/ Submit(c, x) \/ RetryDue(c, x) \/ CollectDeferred(c, x)
               \/ WorkerStep(c, x)
        PROVE  UNCHANGED <<outcomes, main, cancelled>>
    BY <1>3, WorkerKinds
       DEF Submit, RetryDue, CollectDeferred, TakeFuture, loop
  <1>4. ASSUME NEW c \in Campaign, Return(c)
        PROVE  /\ UNCHANGED <<outcomes, cancelled>>
               /\ main'[d] = IF d = c THEN "returned" ELSE main[d]
    BY <1>0, <1>4 DEF Return
  <1>5. ASSUME NEW c \in Campaign, Drained(c)
        PROVE  /\ UNCHANGED <<outcomes, cancelled>> /\ main[c] = "draining"
               /\ main'[d] = IF d = c THEN "raised" ELSE main[d]
    BY <1>0, <1>5 DEF Drained
  <1>6. ASSUME NEW c \in Campaign, Cancel(c)
        PROVE  UNCHANGED <<outcomes, main>> /\ (~cancelled'[d] => ~cancelled[d])
    BY <1>0, <1>6 DEF Cancel, loop
  <1>7. ASSUME NEW c \in Campaign, Kill(c)
        PROVE  /\ UNCHANGED <<outcomes, cancelled>>
               /\ main'[d] = IF d = c THEN "dead" ELSE main[d]
    BY <1>0, <1>7 DEF Kill
  <1> QED
    BY <1>1, <1>2, <1>3, <1>4, <1>5, <1>6, <1>7 DEF Next, LoopStep, CollectStep

\* Every step keeps that what returned is complete: a loop with nothing queued
\* and no worker has nothing unfinished.
LEMMA ReturnsStep ==
  ASSUME TypeOK, Reports, Ledger, Startable, ReturnsComplete, Next
  PROVE  ReturnsComplete'
  <1> SUFFICES ASSUME NEW d \in Campaign, main'[d] = "returned", ~cancelled'[d]
               PROVE  DOMAIN outcomes'[d] = Planned[d]
    BY DEF ReturnsComplete
  <1>1. ~cancelled[d]
    BY StoppedLoop
  <1>2. CASE main[d] = "returned"
    BY <1>1, <1>2, StoppedLoop DEF ReturnsComplete
  <1>3. CASE Return(d) /\ outcomes' = outcomes
    <2>1. main[d] = "running" /\ queued[d] = {} /\ Futures(d) = {}
      BY <1>1, <1>3 DEF Return
    <2>2. Unfinished(d) = {}
      BY <2>1, NotStuck
    <2> QED
      BY <1>3, <2>2 DEF Ledger
  <1>4. ~ \E x \in Cell : CollectRaised(d, x) \/ CollectOutcome(d, x)
    BY NeverStuck DEF CollectRaised, TypeOK
  <1> QED
    BY <1>2, <1>3, <1>4, StoppedLoop

\* Every step keeps that a loop ends with an exception for a worker only.
LEMMA RaisesStep ==
  ASSUME TypeOK, TypeOK', Reports, Ledger, Startable, RaisesOnlyForWorkers, Next
  PROVE  RaisesOnlyForWorkers'
  <1> SUFFICES ASSUME NEW d \in Campaign, main'[d] \in {"draining", "raised"}
               PROVE  \E x \in Cell : reported'[d][x] = 1 /\ x \notin DOMAIN outcomes'[d]
    BY DEF RaisesOnlyForWorkers
  <1>1. CASE main[d] \in {"draining", "raised"}
    <2>1. PICK x \in Cell : reported[d][x] = 1 /\ x \notin DOMAIN outcomes[d]
      BY <1>1 DEF RaisesOnlyForWorkers
    <2>2. outcomes'[d] = outcomes[d]
      BY <1>1, StoppedLoop
    <2>3. reported'[d][x] = 1
      <3>0. reported \in [Campaign -> [Cell -> 0..1]]
        BY DEF TypeOK
      <3>1. ASSUME NEW c \in Campaign, NEW y \in Cell, WorkerStep(c, y)
            PROVE  reported'[d][x] = 1
        <4>1. CASE reported' = reported
          BY <2>1, <4>1
        <4>2. ASSUME NEW r, Finish(c, y, r), Busy(c, y)
              PROVE  reported'[d][x] = 1
          <5>1. reported[c][y] = 0
            BY <4>2 DEF Busy, Reports, ReportsIn
          <5>2. <<c, y>> # <<d, x>>
            BY <2>1, <5>1
          <5> QED
            BY <2>1, <3>0, <4>2, <5>2 DEF Finish
        <4> QED
          BY <3>1, <4>1, <4>2, WorkerKinds DEF WorkerAdvances, Leave, Defer
      <3>2. CASE reported' = reported
        BY <2>1, <3>2
      <3> QED
        BY <3>1, <3>2
           DEF Next, LoopStep, CollectStep, Submit, CollectDeferred, TakeFuture,
               CollectRaised, CollectOutcome, Return, Drained, RetryDue, Cancel,
               Kill
    <2> QED
      BY <2>1, <2>2, <2>3
  <1>2. ASSUME NEW x \in Cell, CollectRaised(d, x)
        PROVE  \E y \in Cell : reported'[d][y] = 1 /\ y \notin DOMAIN outcomes'[d]
    <2>1. x \notin DOMAIN outcomes[d]
      BY <1>2 DEF CollectRaised, TakeFuture, Startable, StartableIn, Ledger,
                  Futures
    <2>2. reported[d][x] = 1
      BY <1>2 DEF CollectRaised, TakeFuture, Reports, ReportsIn
    <2> QED
      BY <1>2, <2>1, <2>2 DEF CollectRaised, TakeFuture
  <1>3. ~ \E x \in Cell : CollectOutcome(d, x)
    BY NeverStuck
  <1> QED
    BY <1>1, <1>2, <1>3, StoppedLoop

----------------------------------------------------------------------------
\* Every step keeps the inductive invariant.
LEMMA NextIInv == IInv /\ [Next]_vars => IInv'
  <1> SUFFICES ASSUME IInv, [Next]_vars PROVE IInv'
    OBVIOUS
  <1>1. CASE Next
    BY <1>1, TypeStep, LedgerStep, StartableStep, ReportsStep, LocksStep,
       MissingStep, WavesStep, ReturnsStep, RaisesStep DEF IInv
  <1>2. CASE UNCHANGED vars
    <2> USE <1>2 DEF vars, loop, locks
    <2>1. TypeOK'
      BY DEF IInv, TypeOK
    <2>2. Ledger' /\ Startable'
      BY DEF IInv, Ledger, Startable, StartableIn, Unfinished, Futures, Edges
    <2>3. Reports' /\ LocksHeld' /\ StillMissing'
      BY DEF IInv, Reports, ReportsIn, LocksHeld, StillMissing, Working, At
    <2>4. WavesInOrder' /\ ReturnsComplete' /\ RaisesOnlyForWorkers'
      BY DEF IInv, WavesInOrder, ReturnsComplete, RaisesOnlyForWorkers,
             Unfinished, Futures
    <2> QED
      BY <2>1, <2>2, <2>3, <2>4 DEF IInv
  <1> QED
    BY <1>1, <1>2

\* The inductive invariant holds throughout.
THEOREM Invariant == Safety => []IInv
  BY InitIInv, NextIInv, PTL DEF Safety

\* Every variable keeps its type.
THEOREM TypeCorrect == Safety => []TypeOK
  <1>1. IInv => TypeOK
    BY DEF IInv
  <1> QED
    BY <1>1, Invariant, PTL

\* While the loop runs, every planned cell has its outcome, is queued, is run,
\* or waits for an unfinished cell.
THEOREM NoCellIsLost == Safety => []NoCellLost
  <1>1. IInv => NoCellLost
    <2> SUFFICES ASSUME IInv, NEW c \in Campaign, main[c] = "running"
                 PROVE  /\ backoff[c] \subseteq queued[c]
                        /\ queued[c] \cap Futures(c) = {}
                        /\ Unfinished(c) = Planned[c] \ DOMAIN outcomes[c]
                        /\ queued[c] \cup Futures(c) \subseteq Unfinished(c)
                        /\ \A x \in Unfinished(c) \ (queued[c] \cup Futures(c)) :
                             \E y \in Edges(c, x) : y \in Unfinished(c)
      BY DEF NoCellLost
    <2>1. StartableIn(c) /\ Ledger
      BY DEF IInv, Startable
    <2>2. ASSUME NEW x \in Unfinished(c) \ (queued[c] \cup Futures(c))
          PROVE  \E y \in Edges(c, x) : y \in Unfinished(c)
      <3>1. PICK y : y \in prerequisites[c][x]
        BY <2>1, <2>2 DEF StartableIn
      <3> QED
        BY <2>1, <3>1 DEF Ledger, Edges
    <2> QED
      BY <2>1, <2>2 DEF StartableIn, Ledger
  <1> QED
    BY <1>1, Invariant, PTL

\* A worker runs a cell only after every planned prerequisite has an outcome.
THEOREM PrerequisitesComeFirst == Safety => []PrerequisitesFirst
  <1>1. IInv => PrerequisitesFirst
    <2> SUFFICES ASSUME IInv, NEW c \in Campaign, NEW x \in Futures(c)
                 PROVE  Edges(c, x) \subseteq DOMAIN outcomes[c]
      BY DEF PrerequisitesFirst
    <2>1. x \in Unfinished(c) /\ prerequisites[c][x] = {}
      BY DEF IInv, Startable, StartableIn
    <2>2. prerequisites[c][x] = Edges(c, x) \ DOMAIN outcomes[c]
      BY <2>1 DEF IInv, Ledger
    <2> QED
      BY <2>1, <2>2
  <1> QED
    BY <1>1, Invariant, PTL

\* With the wave barrier no cell overtakes one of a lower multiplicity.
THEOREM WavesAreInOrder == Safety => []WavesInOrder
  <1>1. IInv => WavesInOrder
    BY DEF IInv
  <1> QED
    BY <1>1, Invariant, PTL

\* No two campaigns work on one cell, and no two workers prepare the model.
THEOREM WorkersAreAlone == Safety => []WorksAlone
  <1>1. IInv => WorksAlone
    <2> SUFFICES ASSUME IInv PROVE WorksAlone
      OBVIOUS
    <2>1. ASSUME NEW c \in Campaign, NEW d \in Campaign, NEW x \in Cell,
                 Working(c, x), Working(d, x)
          PROVE  c = d
      BY <2>1, Exclusion DEF IInv
    <2>2. ASSUME NEW c \in Campaign, NEW d \in Campaign, NEW x \in Cell,
                 NEW y \in Cell, At(c, x, "preparing"), At(d, y, "preparing")
          PROVE  c = d /\ x = y
      <3>1. modelLock = <<c, x>> /\ modelLock = <<d, y>>
        BY <2>2 DEF IInv, LocksHeld
      <3> QED
        BY <3>1
    <2> QED
      BY <2>1, <2>2 DEF WorksAlone
  <1> QED
    BY <1>1, Invariant, PTL

\* The completion of a cell is reported exactly once.
THEOREM CompletionIsReportedOnce == Safety => []ReportedOnce
  <1>1. IInv => ReportedOnce
    <2> SUFFICES ASSUME IInv, NEW c \in Campaign,
                        main[c] \in {"running", "returned"}, NEW x \in Cell
                 PROVE  reported[c][x] =
                          IF x \in DOMAIN outcomes[c]
                               \/ result[c][x] \notin {"none", "deferred"}
                          THEN 1 ELSE 0
      BY DEF ReportedOnce
    <2>1. worker[c][x] # "none" => x \notin DOMAIN outcomes[c]
      BY DEF IInv, Startable, StartableIn, Ledger, Futures
    <2>2. ReportsIn(c, x)
      BY DEF IInv, Reports
    <2> QED
      BY <2>1, <2>2 DEF ReportsIn
  <1> QED
    BY <1>1, Invariant, PTL

\* A campaign that returns and was not cancelled has every outcome.
THEOREM ReturnIsComplete == Safety => []ReturnsComplete
  <1>1. IInv => ReturnsComplete
    BY DEF IInv
  <1> QED
    BY <1>1, Invariant, PTL

\* The loop never mistakes the plan for a cycle.
THEOREM NoFalseCycle == Safety => []RaisesOnlyForWorkers
  <1>1. IInv => RaisesOnlyForWorkers
    BY DEF IInv
  <1> QED
    BY <1>1, Invariant, PTL

\* A current result is replaced only by a campaign that reruns what is there:
\* the worker that publishes has found under the lock that there was none.
THEOREM PublishedResultsAreKept == Safety => ResultsAreKept
  <1> DEFINE Replaced(x) ==
        current[x] # "missing" /\ current'[x] # current[x] =>
          \E c \in Campaign : ~MissingOnly[c] /\ Working(c, x)
  <1>1. ASSUME IInv, Next PROVE \A x \in Cell : Replaced(x)
    <2> SUFFICES ASSUME NEW x \in Cell, current[x] # "missing",
                        current'[x] # current[x]
                 PROVE  \E c \in Campaign : ~MissingOnly[c] /\ Working(c, x)
      OBVIOUS
    <2>1. ASSUME NEW c \in Campaign, NEW y \in Cell, WorkerStep(c, y)
          PROVE  ~MissingOnly[c] /\ Working(c, x)
      <3>1. x = y /\ Working(c, y) /\ ~At(c, y, "locked")
        BY <1>1, <2>1, WorkerPublishes DEF IInv
      <3> QED
        BY <1>1, <3>1 DEF IInv, StillMissing
    <2>2. ASSUME NEW c \in Campaign, Kill(c) PROVE FALSE
      BY <2>2 DEF Kill
    <2>3. CASE ~ \E c \in Campaign : Kill(c) \/ \E y \in Cell : WorkerStep(c, y)
      <3>1. PICK d \in Campaign : TRUE
        BY <1>1 DEF Next
      <3> QED
        BY <1>1, <2>3, <3>1, LoopLocks DEF IInv
    <2> QED
      BY <2>1, <2>2, <2>3
  <1>2. ASSUME IInv, [Next]_vars PROVE [\A x \in Cell : Replaced(x)]_vars
    BY <1>1, <1>2
  <1> QED
    BY <1>2, Invariant, PTL DEF Safety, ResultsAreKept

\* A campaign prepares its model at most once.
THEOREM ModelIsPreparedOnce == Safety => PreparedOnce
  <1> DEFINE Again(c, x) ==
        model[c] # "unknown" /\ ~At(c, x, "preparing") => ~At(c, x, "preparing")'
  <1>1. ASSUME IInv, Next PROVE \A c \in Campaign : \A x \in Cell : Again(c, x)
    <2> SUFFICES ASSUME NEW c \in Campaign, NEW x \in Cell,
                        worker[c][x] # "preparing", worker'[c][x] = "preparing"
                 PROVE  model[c] = "unknown"
      BY DEF At
    <2>1. ASSUME NEW d \in Campaign, NEW y \in Cell, WorkerStep(d, y)
          PROVE  model[c] = "unknown"
      <3>1. d = c /\ y = x
        BY <1>1, <2>1, WorkerLocks DEF IInv
      <3>2. LockModel(c, x)
        BY <1>1, <2>1, <3>1, WorkerLocks DEF IInv
      <3>3. worker \in [Campaign -> [Cell -> Phase]]
        BY <1>1 DEF IInv, TypeOK
      <3> QED
        BY <3>2, <3>3 DEF LockModel, Goto
    <2>2. ASSUME NEW d \in Campaign, Kill(d) PROVE FALSE
      <3>1. worker \in [Campaign -> [Cell -> Phase]]
        BY <1>1 DEF IInv, TypeOK
      <3> QED
        BY <2>2, <3>1 DEF Kill
    <2>3. CASE ~ \E d \in Campaign : Kill(d) \/ \E y \in Cell : WorkerStep(d, y)
      BY <1>1, <2>3, LoopLocks DEF IInv
    <2> QED
      BY <2>1, <2>2, <2>3
  <1>2. ASSUME IInv, [Next]_vars
        PROVE  [\A c \in Campaign : \A x \in Cell : Again(c, x)]_vars
    BY <1>1, <1>2
  <1> QED
    BY <1>2, Invariant, PTL DEF Safety, PreparedOnce
----------------------------------------------------------------------------
(* Why a cell is blocked, in campaigns that all keep results               *)

AllKeep == \A c \in Campaign : MissingOnly[c]

\* The worker of x, or the loop after it, has the outcome r of the cell.
Ended(c, x, r) ==
    result[c][x] = r \/ (x \in DOMAIN outcomes[c] /\ outcomes[c][x] = r)

\* What a campaign took for a result is still there for all to see.
SeenBy(c, y) ==
    /\ Ended(c, y, "success") => current[y] = "success"
    /\ Ended(c, y, "skipped") => current[y] # "missing"

Visible == \A c \in Campaign : \A y \in Cell : SeenBy(c, y)

\* A blocked cell has the failure that blocks it among the outcomes.
BlockedIn(c, x) ==
    Ended(c, x, "blocked") /\ Required[x] \subseteq Planned[c] =>
      \E y \in Required[x] : y \in DOMAIN outcomes[c] /\ Failed(c, y)

BlockedRightly == \A c \in Campaign : \A x \in Cell : BlockedIn(c, x)

\* No step replaces a current result.
LEMMA ResultsStay ==
  ASSUME AllKeep, IInv, Next, NEW y \in Cell, current[y] # "missing"
  PROVE  current'[y] = current[y]
  <1>1. ASSUME NEW c \in Campaign, NEW x \in Cell, WorkerStep(c, x)
        PROVE  current'[y] = current[y]
    <2> SUFFICES ASSUME current'[y] # current[y] PROVE FALSE
      OBVIOUS
    <2>1. y = x /\ Working(c, x) /\ ~At(c, x, "locked")
      BY <1>1, WorkerPublishes DEF IInv
    <2> QED
      BY <2>1 DEF IInv, StillMissing, AllKeep
  <1>2. ASSUME NEW c \in Campaign, Kill(c) PROVE current' = current
    BY <1>2 DEF Kill
  <1>3. CASE ~ \E c \in Campaign : Kill(c) \/ \E x \in Cell : WorkerStep(c, x)
    <2>1. PICK c \in Campaign : TRUE
      BY DEF Next
    <2> QED
      BY <1>3, <2>1, LoopLocks DEF IInv
  <1> QED
    BY <1>1, <1>2, <1>3

\* A recorded outcome stays, and a new one was the result of the worker.
LEMMA OutcomesStay ==
  ASSUME IInv, Next, NEW d \in Campaign
  PROVE  /\ \A y \in DOMAIN outcomes[d] :
              y \in DOMAIN outcomes'[d] /\ outcomes'[d][y] = outcomes[d][y]
         /\ \A y \in DOMAIN outcomes'[d] \ DOMAIN outcomes[d] :
              y \in Cell /\ outcomes'[d][y] = result[d][y]
  <1>1. ASSUME NEW c \in Campaign, NEW x \in Cell, CollectOutcome(c, x)
        PROVE  /\ \A y \in DOMAIN outcomes[d] :
                    y \in DOMAIN outcomes'[d] /\ outcomes'[d][y] = outcomes[d][y]
               /\ \A y \in DOMAIN outcomes'[d] \ DOMAIN outcomes[d] :
                    y \in Cell /\ outcomes'[d][y] = result[d][y]
    <2>1. /\ x \in Unfinished(c)
          /\ \A e \in Campaign \ {c} : outcomes'[e] = outcomes[e]
      BY <1>1, LedgerOfCollected DEF IInv
    <2>2. x \notin DOMAIN outcomes[c]
      BY <2>1 DEF IInv, Ledger
    <2>3. outcomes' = [outcomes EXCEPT ![c] = Recorded(c, x)]
      BY <1>1, Collected DEF IInv
    <2>4. outcomes'[c] = Recorded(c, x)
      BY <2>3 DEF IInv, TypeOK
    <2> QED
      BY <2>1, <2>2, <2>4 DEF Recorded
  <1>2. CASE ~ \E c \in Campaign, x \in Cell : CollectOutcome(c, x)
    BY <1>2, OnlyOutcomes DEF IInv
  <1> QED
    BY <1>1, <1>2

\* A result appears only as its worker ends.
LEMMA OnlyFinishes ==
  ASSUME IInv, Next, NEW d \in Campaign, NEW y \in Cell,
         result'[d][y] \notin {result[d][y], "none", "deferred"}
  PROVE  WorkerStep(d, y) /\ Finish(d, y, result'[d][y])
  <1>0. result \in [Campaign ->
                      [Cell -> Outcome \cup {"none", "deferred", "raised"}]]
    BY DEF IInv, TypeOK
  <1>1. ASSUME NEW c \in Campaign, NEW x \in Cell, WorkerStep(c, x)
        PROVE  WorkerStep(d, y) /\ Finish(d, y, result'[d][y])
    <2>1. CASE \E r \in Outcome \cup {"raised"} : Finish(c, x, r)
      <3>1. PICK r : Finish(c, x, r)
        BY <2>1
      <3>2. c = d /\ x = y /\ result'[d][y] = r
        BY <1>0, <3>1 DEF Finish
      <3> QED
        BY <1>1, <3>1, <3>2
    <2>2. CASE Defer(c, x, "leaving") \/ result' = result
      BY <1>0, <2>2 DEF Defer
    <2> QED
      BY <1>1, <2>1, <2>2, WorkerKinds DEF IInv, WorkerAdvances, Leave
  <1>2. ASSUME NEW c \in Campaign, NEW x \in Cell, TakeFuture(c, x)
        PROVE  FALSE
    BY <1>0, <1>2 DEF TakeFuture
  <1>3. CASE result' = result
    BY <1>3
  <1> QED
    BY <1>1, <1>2, <1>3
       DEF Next, LoopStep, CollectStep, CollectDeferred, CollectRaised,
           CollectOutcome, Submit, RetryDue, Return, Drained, Cancel, Kill

\* So an outcome is new only in a step that ends the worker.
LEMMA EndsOnce ==
  ASSUME IInv, Next, NEW d \in Campaign, NEW y \in Cell,
         NEW r \in {"success", "skipped", "blocked"},
         Ended(d, y, r)', ~Ended(d, y, r)
  PROVE  WorkerStep(d, y) /\ Finish(d, y, r)
  <1>1. result'[d][y] = r /\ result[d][y] # r
    <2>1. y \in DOMAIN outcomes'[d] => outcomes'[d][y] # r
      BY OutcomesStay DEF Ended
    <2> QED
      BY <2>1 DEF Ended
  <1> QED
    BY <1>1, OnlyFinishes

\* What the worker saw that ends with such an outcome.
LEMMA WorkerSaw ==
  ASSUME IInv, NEW c \in Campaign, NEW x \in Cell, WorkerStep(c, x),
         NEW r \in {"success", "skipped", "blocked"}, Finish(c, x, r)
  PROVE  /\ r = "success" => current'[x] = "success"
         /\ r = "skipped" => current'[x] # "missing"
         /\ r = "blocked" => Blocked(x) /\ current' = current
  <1>0. /\ worker[c][x] \in Phase /\ worker'[c][x] = "leaving"
        /\ result'[c][x] = r
        /\ worker \in [Campaign -> [Cell -> Phase]]
        /\ result \in [Campaign ->
                         [Cell -> Outcome \cup {"none", "deferred", "raised"}]]
        /\ model[c] \in {"unknown", "ready", "terminal", "error", "cancelled"}
        /\ current \in [Cell -> {"missing", "success", "terminal"}]
    BY DEF IInv, TypeOK, Finish, Goto
  <1> USE <1>0 DEF At
  <1>1. CASE StartCancelled(c, x) \/ ModelCancelled(c, x) \/ Raises(c, x)
    BY <1>1 DEF StartCancelled, ModelCancelled, Raises, Finish
  <1>2. CASE CellBusy(c, x) \/ ModelBusy(c, x)
    BY <1>2 DEF CellBusy, ModelBusy, Defer
  <1>3. CASE LockCell(c, x) \/ ModelUnknown(c, x) \/ LockModel(c, x)
             \/ Leave(c, x)
    BY <1>3 DEF LockCell, ModelUnknown, LockModel, Leave, Goto
  <1>4. CASE Inspect(c, x)
    <2>1. current' = current
      BY <1>4 DEF Inspect
    <2>2. CASE Kept(c, x)
      BY <1>4, <2>1, <2>2 DEF Inspect, Kept, Finish
    <2>3. CASE ~Kept(c, x) /\ Blocked(x)
      BY <1>4, <2>1, <2>3 DEF Inspect, Finish
    <2>4. CASE ~Kept(c, x) /\ ~Blocked(x)
      BY <1>4, <2>4 DEF Inspect, Goto
    <2> QED
      BY <2>2, <2>3, <2>4
  <1>5. CASE ModelKnown(c, x)
    BY <1>5 DEF ModelKnown, PreparationFailed, Finish, Goto
  <1>6. CASE \E memo \in {"ready", "terminal", "error", "cancelled"} :
               Prepared(c, x, memo)
    BY <1>6 DEF Prepared, PreparationFailed, Finish, Goto
  <1>7. CASE \E q \in {"success", "terminal", "error", "cancelled"} :
               Measured(c, x, q)
    BY <1>7 DEF Measured, Finish
  <1> QED
    BY <1>1, <1>2, <1>3, <1>4, <1>5, <1>6, <1>7 DEF WorkerStep

\* Every step keeps the results that campaigns rely on.
LEMMA VisibleStep ==
  ASSUME AllKeep, IInv, Visible, Next
  PROVE  Visible'
  <1> SUFFICES ASSUME NEW d \in Campaign, NEW y \in Cell PROVE SeenBy(d, y)'
    BY DEF Visible
  <1>0. SeenBy(d, y)
    BY DEF Visible
  <1>1. Ended(d, y, "success")' => current'[y] = "success"
    BY <1>0, ResultsStay, EndsOnce, WorkerSaw DEF SeenBy
  <1>2. Ended(d, y, "skipped")' => current'[y] # "missing"
    BY <1>0, ResultsStay, EndsOnce, WorkerSaw DEF SeenBy
  <1> QED
    BY <1>1, <1>2 DEF SeenBy

\* A failure among the outcomes stays one.
LEMMA FailuresStay ==
  ASSUME AllKeep, IInv, Next, NEW d \in Campaign, NEW y \in DOMAIN outcomes[d],
         Failed(d, y)
  PROVE  y \in DOMAIN outcomes'[d] /\ Failed(d, y)'
  <1>1. y \in Cell
    BY LoopFunctions DEF IInv
  <1>2. y \in DOMAIN outcomes'[d] /\ outcomes'[d][y] = outcomes[d][y]
    BY OutcomesStay
  <1>3. current[y] = "terminal" => current'[y] = "terminal"
    BY <1>1, ResultsStay
  <1> QED
    BY <1>2, <1>3 DEF Failed

\* Every step keeps that blocked cells have a failure to show: a worker that
\* is blocked now has the outcomes of all that it requires.
LEMMA BlockedStep ==
  ASSUME AllKeep, IInv, Visible, BlockedRightly, Next
  PROVE  BlockedRightly'
  <1> SUFFICES ASSUME NEW d \in Campaign, NEW x \in Cell,
                      Ended(d, x, "blocked")', Required[x] \subseteq Planned[d]
               PROVE  \E y \in Required[x] :
                        y \in DOMAIN outcomes'[d] /\ Failed(d, y)'
    BY DEF BlockedRightly, BlockedIn
  <1>1. CASE Ended(d, x, "blocked")
    BY <1>1, FailuresStay DEF BlockedRightly, BlockedIn
  <1>2. CASE ~Ended(d, x, "blocked")
    <2>1. WorkerStep(d, x) /\ Finish(d, x, "blocked")
      BY <1>2, EndsOnce
    <2>2. PICK y \in Required[x] : current[y] # "success"
      BY <2>1, WorkerSaw DEF Blocked
    <2>3. y \in Cell /\ y \in Edges(d, x)
      BY <2>2, PlanAssumption DEF Edges
    <2>4. x \in Futures(d)
      BY <2>1, WorkerMoves DEF Futures, IInv
    <2>5. y \in DOMAIN outcomes[d]
      BY <2>3, <2>4 DEF IInv, Startable, StartableIn, Ledger
    <2>6. SeenBy(d, y)
      BY <2>3 DEF Visible
    <2>7. current[y] \in {"missing", "success", "terminal"}
      BY <2>3 DEF IInv, TypeOK
    <2>8. Failed(d, y)
      BY <2>2, <2>5, <2>6, <2>7 DEF Failed, SeenBy, Ended
    <2> QED
      BY <2>2, <2>5, <2>8, FailuresStay
  <1> QED
    BY <1>1, <1>2

\* In campaigns that all keep results a cell is blocked only by a required cell
\* that did not succeed in this campaign or has a terminal result.
THEOREM BlockedCellsHaveAFailure ==
  ASSUME AllKeep PROVE Safety => []BlockedByFailure
  <1> DEFINE Held == IInv /\ Visible /\ BlockedRightly
  <1>1. Init => Held
    <2> SUFFICES ASSUME Init PROVE Visible /\ BlockedRightly
      BY InitIInv
    <2>1. \A c \in Campaign, x \in Cell, r \in {"success", "skipped", "blocked"} :
            ~Ended(c, x, r)
      BY DEF Init, Ended
    <2> QED
      BY <2>1 DEF Visible, SeenBy, BlockedRightly, BlockedIn
  <1>2. Held /\ [Next]_vars => Held'
    <2> SUFFICES ASSUME Held, [Next]_vars PROVE Visible' /\ BlockedRightly'
      BY NextIInv
    <2>1. CASE Next
      BY <2>1, VisibleStep, BlockedStep
    <2>2. CASE UNCHANGED vars
      <3>1. UNCHANGED <<result, outcomes, current>>
        BY <2>2 DEF vars, loop
      <3> QED
        BY <3>1 DEF Visible, SeenBy, BlockedRightly, BlockedIn, Ended, Failed
    <2> QED
      BY <2>1, <2>2
  <1>3. Held => BlockedByFailure
    <2> SUFFICES ASSUME Held, NEW c \in Campaign, NEW x \in DOMAIN outcomes[c],
                        outcomes[c][x] = "blocked",
                        Required[x] \subseteq Planned[c]
                 PROVE  \E y \in Required[x] : Failed(c, y)
      BY DEF BlockedByFailure
    <2>1. x \in Cell
      BY LoopFunctions DEF IInv
    <2> QED
      BY <2>1 DEF BlockedRightly, BlockedIn, Ended
  <1> QED
    BY <1>1, <1>2, <1>3, PTL DEF Safety
=============================================================================
