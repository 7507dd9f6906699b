------------------------- MODULE GenerationPhases -------------------------
(***************************************************************************)
(* The process phases of a generation (generation/service.py) and the      *)
(* single-flight cache of recurrence schedules that their workers share    *)
(* (generation/recurrence_schedule_sharing.py).                            *)
(*                                                                         *)
(* The caller's thread maps one operation after another over the processes *)
(* with a bounded number of futures in flight; the pool's threads run the  *)
(* operations.  A recurrence operation looks its process up in the cache:  *)
(* the first of a class of isomorphic processes lowers its schedule, the   *)
(* others wait for the future of the first.  The operations write under a  *)
(* temporary directory that is removed when the generation ends.           *)
(*                                                                         *)
(* Abstraction: the result of an operation is the process whose schedule   *)
(* it holds.  Isomorphism is an equivalence, given by Class.  The caller   *)
(* is interrupted at most once, and not while it joins the pool.           *)
(***************************************************************************)
EXTENDS Naturals, FiniteSets

CONSTANTS
    Items,      \* number of processes
    Class,      \* [1..Items -> S], equal for processes that share a schedule
    Malformed,  \* classes whose template domain may be malformed
    Phases,     \* number of phases
    Pooled,     \* phases that are mapped by the pool
    Cached,     \* phases whose operation goes through the cache
    MaxWorkers  \* bound of the configured number of workers

Index == 1..Items

SizeAssumption ==
    /\ Items \in Nat \ {0} /\ Phases \in Nat \ {0}
    /\ MaxWorkers \in 1..Items
\* The recurrences are the last phase of their generation.
ShapeAssumption ==
    /\ Pooled \subseteq 1..Phases /\ Cached \subseteq {Phases}
    /\ Malformed \subseteq {Class[i] : i \in Index}

VARIABLES
    workers,    \* _process_worker_count, at most the number of processes
    main,       \* where the caller is
    phase,      \* the phase it maps
    next,       \* next_index
    inputs,     \* inputs[i]: the process whose result item i is
    active,     \* processes whose future it knows
    ordered,    \* ordered[i]: the result of i, 0 while missing
    error,      \* why it will raise
    blamed,     \* the process it will name, 0 if none
    temporary,  \* the temporary directory exists
    task,       \* task[i]: where the operation on i is
    threads,    \* threads the pool has started
    owner,      \* owner[i]: the process whose future i uses, 0 if none
    future,     \* future[i]: of the cache entry that i appended
    refused     \* classes whose domain RecurrenceProcessRemap refuses

caller == <<workers, main, phase, next, inputs, active, ordered, error, blamed,
            temporary>>
cache == <<owner, future, refused>>
vars == <<caller, task, threads, cache>>

Init ==
    /\ workers \in 1..MaxWorkers
    /\ main = "mapping" /\ phase = 1 /\ next = 1
    /\ inputs = [i \in Index |-> i]
    /\ active = {} /\ ordered = [i \in Index |-> 0]
    /\ error = "none" /\ blamed = 0 /\ temporary = TRUE
    /\ task = [i \in Index |-> "none"] /\ threads = 0
    /\ owner = [i \in Index |-> 0]
    /\ future = [i \in Index |-> "none"]
    /\ refused \in SUBSET Malformed

At(S) == {i \in Index : task[i] \in S}
Busy == At({"running", "lowering", "waiting", "binding"})
Waiting == At({"queued", "cancelled"})

\* Futures that concurrent.futures.wait counts as done: a cancelled one only
\* once a thread of the pool has taken it from the queue.
Ended == At({"done", "failed", "notified"})

Pool == phase \in Pooled /\ workers > 1
InFlight == IF Pool THEN workers ELSE 1

\* Mutant: the bound of the processes is missed by one.
CanSubmitOneMore == next <= Items + 1 /\ Cardinality(active) < InFlight

CanSubmit == next <= Items /\ Cardinality(active) < InFlight

----------------------------------------------------------------------------
(* The pool: ThreadPoolExecutor                                            *)

\* submit puts the task in the queue first; it starts a thread unless an idle
\* one is known or the pool is full.
Spare == threads > Cardinality(Busy \cup Waiting) \/ threads = workers

PickUp(i) ==
    /\ i \in Waiting /\ Pool /\ Cardinality(Busy) < threads
    /\ \A j \in Waiting : i <= j
    /\ task' = [task EXCEPT ![i] = IF @ = "queued" THEN "running" ELSE "notified"]
    /\ UNCHANGED <<caller, threads, cache>>

\* Future.cancel has an effect on tasks that no thread has taken.
Cancelled(S) == [i \in Index |->
    IF i \in S /\ task[i] = "queued" THEN "cancelled" ELSE task[i]]

----------------------------------------------------------------------------
(* The caller: _map_process_phase and the generation around it             *)

Submit ==
    /\ main = "mapping" /\ CanSubmit
    /\ next' = next + 1 /\ active' = active \cup {next}
    /\ \/ /\ Pool
          /\ task' = [task EXCEPT ![next] = "queued"]
          /\ \/ Spare /\ UNCHANGED threads
             \/ threads < workers /\ threads' = threads + 1
       \/ /\ ~Pool
          /\ task' = [task EXCEPT ![next] = "running"]
          /\ UNCHANGED threads
    /\ UNCHANGED <<workers, main, phase, inputs, ordered, error, blamed, temporary,
                   cache>>

\* The pool cannot start the thread it needs; the task stays in its queue.
SubmitFails ==
    /\ main = "mapping" /\ CanSubmit /\ Pool /\ threads < workers
    /\ task' = [Cancelled(active) EXCEPT ![next] = "queued"]
    /\ main' = "failing" /\ error' = "schedule"
    /\ UNCHANGED <<workers, phase, next, inputs, active, ordered, blamed, temporary,
                   threads, cache>>

Smallest(S) == CHOOSE i \in S : \A j \in S : i <= j

\* The operation on i returns a schedule of its own or a shared one.
Output(i) == IF phase \in Cached THEN owner[i] ELSE inputs[i]

\* Mutant: results are stored in the order in which they arrive.
CollectArrived(D) ==
    /\ \A i \in D : task[i] = "done"
    /\ ordered' = [i \in Index |->
         LET before == {k \in 1..(i - 1) : ordered[k] = 0}
             mine == {j \in D : Cardinality({k \in D : k < j}) = Cardinality(before)}
         IN IF ordered[i] = 0 /\ mine # {} THEN Output(Smallest(mine)) ELSE ordered[i]]
    /\ UNCHANGED <<main, error, blamed, task>>

\* Every future that is done holds a result.
CollectResults(D) ==
    /\ \A i \in D : task[i] = "done"
    /\ ordered' = [i \in Index |-> IF i \in D THEN Output(i) ELSE ordered[i]]
    /\ UNCHANGED <<main, error, blamed, task>>

\* Mutant: the first process in flight is blamed.
CollectFailuresBlamed(D) ==
    /\ \E i \in D : task[i] = "failed"
    /\ task' = Cancelled(active \ D)
    /\ main' = "failing" /\ error' = "process" /\ blamed' = Smallest(active)
    /\ UNCHANGED ordered

\* One of them holds an exception: the least one is raised, after the others
\* have been cancelled or have ended.
CollectFailures(D) ==
    /\ \E i \in D : task[i] = "failed"
    /\ task' = Cancelled(active \ D)
    /\ main' = "failing"
    /\ error' = "process"
    /\ blamed' = Smallest({i \in D : task[i] = "failed"})
    /\ UNCHANGED ordered

\* wait(..., FIRST_COMPLETED) after as much was submitted as may be in flight.
Collect ==
    /\ main = "mapping" /\ ~CanSubmit /\ active \cap Ended # {}
    /\ active' = active \ Ended
    /\ CollectResults(active \cap Ended) \/ CollectFailures(active \cap Ended)
    /\ UNCHANGED <<workers, phase, next, inputs, temporary, threads, cache>>

\* Mutant: the remaining futures must all have run.
FailedUncancelled ==
    /\ main = "failing" /\ active \subseteq At({"done", "failed"})
    /\ main' = "closing"
    /\ UNCHANGED <<workers, phase, next, inputs, active, ordered, error, blamed,
                   temporary, task, threads, cache>>

\* The remaining futures have ended.
Failed ==
    /\ main = "failing" /\ active \subseteq Ended
    /\ main' = "closing"
    /\ UNCHANGED <<workers, phase, next, inputs, active, ordered, error, blamed,
                   temporary, task, threads, cache>>

\* No future is left.  (A result that is still missing would be an error, but
\* the loop leaves none.)
NextPhase ==
    /\ main = "mapping" /\ ~CanSubmit /\ active = {}
    /\ \/ /\ phase < Phases
          /\ phase' = phase + 1 /\ next' = 1
          /\ task' = [i \in Index |-> "none"]
          /\ inputs' = ordered /\ ordered' = [i \in Index |-> 0]
          /\ UNCHANGED main
       \/ /\ phase = Phases
          /\ main' = "closing"
          /\ UNCHANGED <<phase, next, inputs, task, ordered>>
    /\ UNCHANGED <<workers, active, error, blamed, temporary, threads, cache>>

\* Without a pool the exception passes through the operation itself.
InterruptedFuture(S) ==
    [i \in Index |-> IF i \in S /\ future[i] = "pending" THEN "failed" ELSE future[i]]

\* KeyboardInterrupt is not an Exception: it leaves the phase at once.
Interrupt ==
    /\ main \in {"mapping", "failing"}
    /\ main' = "closing" /\ error' = "interrupt"
    /\ IF Pool THEN UNCHANGED <<task, future>>
       ELSE /\ task' = [i \in Index |-> IF i \in Busy THEN "failed" ELSE task[i]]
            /\ future' = InterruptedFuture(At({"lowering"}))
    /\ UNCHANGED <<workers, phase, next, inputs, active, ordered, blamed, temporary,
                   threads, owner, refused>>

\* executor.shutdown(wait=True, cancel_futures=True) empties the queue ...
Close ==
    /\ main = "closing" /\ main' = "joining"
    /\ task' = Cancelled(Index)
    /\ UNCHANGED <<workers, phase, next, inputs, active, ordered, error, blamed, temporary,
                   threads, cache>>

Leave ==
    IF error = "none" THEN main' = "writing" /\ UNCHANGED temporary
                      ELSE main' = "raised" /\ temporary' = FALSE

\* Mutant: shutdown does not wait.
JoinNothing ==
    /\ main = "joining"
    /\ Leave
    /\ UNCHANGED <<workers, phase, next, inputs, active, ordered, error, blamed, task,
                   threads, cache>>

\* ... and joins the threads; the directory goes after that.
Join ==
    /\ main = "joining" /\ Busy = {}
    /\ Leave
    /\ UNCHANGED <<workers, phase, next, inputs, active, ordered, error, blamed, task,
                   threads, cache>>

\* write_schema_v3_artifact (see ArtifactStore).
Write ==
    /\ main = "writing"
    /\ main' = "returned" /\ temporary' = FALSE
    /\ UNCHANGED <<workers, phase, next, inputs, active, ordered, error, blamed, task,
                   threads, cache>>

----------------------------------------------------------------------------
(* An operation                                                            *)

Goto(i, to) == task' = [task EXCEPT ![i] = to]

\* An operation raises, or succeeds without having used the cache.
Operate(i) ==
    /\ task[i] = "running"
    /\ \/ Goto(i, "failed")
       \/ phase \notin Cached /\ Goto(i, "done")
    /\ UNCHANGED <<caller, threads, cache>>

\* The entry whose process is isomorphic to i.
Entry(i) == {j \in Index : future[j] # "none" /\ Class[j] = Class[i]}

\* Mutant: a match with a malformed entry is found without counting its
\* templates.
JoinEntryUncounted(i) ==
    /\ owner' = [owner EXCEPT ![i] = CHOOSE j \in Entry(i) : TRUE]
    /\ Goto(i, "waiting")

\* The bijection counts the templates of the entry, as the identity did.
JoinEntry(i) ==
    /\ IF Class[i] \in refused THEN Goto(i, "failed") /\ UNCHANGED owner
       ELSE /\ owner' = [owner EXCEPT ![i] = CHOOSE j \in Entry(i) : TRUE]
            /\ Goto(i, "waiting")

\* The entry is appended before its identity remap is built, which may raise.
AppendEntry(i) ==
    /\ future' = [future EXCEPT ![i] = "pending"]
    /\ owner' = [owner EXCEPT ![i] = i]
    /\ Goto(i, IF Class[i] \in refused THEN "failed" ELSE "lowering")

\* Mutant: only finished lowerings are shared.
LookUpFinished(i) ==
    /\ task[i] = "running" /\ phase \in Cached
    /\ \/ /\ \E j \in Entry(i) : future[j] = "done"
          /\ JoinEntry(i) /\ UNCHANGED future
       \/ (\A j \in Entry(i) : future[j] # "done") /\ AppendEntry(i)
    /\ UNCHANGED <<caller, threads, refused>>

\* lower_process under the lock of the cache.
LookUp(i) ==
    /\ task[i] = "running" /\ phase \in Cached
    /\ \/ Entry(i) # {} /\ JoinEntry(i) /\ UNCHANGED future
       \/ Entry(i) = {} /\ AppendEntry(i)
    /\ UNCHANGED <<caller, threads, refused>>

\* Mutant: an owner whose lowering raises does not resolve its future.
LowerUnresolved(i) ==
    /\ task[i] = "lowering"
    /\ \/ Goto(i, "binding") /\ future' = [future EXCEPT ![i] = "done"]
       \/ Goto(i, "failed") /\ UNCHANGED future
    /\ UNCHANGED <<caller, threads, owner, refused>>

\* The owner lowers and resolves its future, whatever is raised.
Lower(i) ==
    /\ task[i] = "lowering"
    /\ \/ Goto(i, "binding") /\ future' = [future EXCEPT ![i] = "done"]
       \/ Goto(i, "failed") /\ future' = [future EXCEPT ![i] = "failed"]
    /\ UNCHANGED <<caller, threads, owner, refused>>

\* Future.result of the owner's future.
Share(i) ==
    /\ task[i] = "waiting" /\ future[owner[i]] # "pending"
    /\ Goto(i, IF future[owner[i]] = "done" THEN "binding" ELSE "failed")
    /\ UNCHANGED <<caller, threads, cache>>

\* What follows the lowering: a selector plan, the points and the remap.
Bind(i) ==
    /\ task[i] = "binding"
    /\ Goto(i, "done") \/ Goto(i, "failed")
    /\ UNCHANGED <<caller, threads, cache>>

----------------------------------------------------------------------------
CallerStep ==
    Submit \/ Collect \/ Failed \/ NextPhase \/ Close \/ Join \/ Write
TaskStep(i) ==
    PickUp(i) \/ Operate(i) \/ LookUp(i) \/ Lower(i) \/ Share(i) \/ Bind(i)
Next ==
    CallerStep \/ SubmitFails \/ Interrupt \/ \E i \in Index : TaskStep(i)

Safety == Init /\ [][Next]_vars

\* Every started operation ends; nobody need interrupt, nothing need fail.
Fairness == WF_vars(CallerStep) /\ \A i \in Index : WF_vars(TaskStep(i))
Spec == Safety /\ Fairness

----------------------------------------------------------------------------
(* Properties                                                              *)

TypeOK ==
    /\ workers \in 1..MaxWorkers
    /\ main \in {"mapping", "failing", "closing", "joining", "writing",
                 "returned", "raised"}
    /\ phase \in 1..Phases /\ next \in 1..(Items + 1)
    /\ inputs \in [Index -> Index] /\ active \subseteq Index
    /\ ordered \in [Index -> 0..Items]
    /\ error \in {"none", "process", "schedule", "interrupt"}
    /\ blamed \in 0..Items
    /\ temporary \in BOOLEAN
    /\ task \in [Index -> {"none", "queued", "running", "lowering", "waiting",
                           "binding", "done", "failed", "cancelled", "notified"}]
    /\ threads \in 0..workers
    /\ owner \in [Index -> 0..Items]
    /\ future \in [Index -> {"none", "pending", "done", "failed"}]
    /\ refused \subseteq Malformed

\* Isomorphic processes never lower their schedule twice, whatever the
\* interleaving of their lookups (lower_process).
LoweredOnce ==
    \A i, j \in Index :
      future[i] # "none" /\ future[j] # "none" /\ Class[i] = Class[j] => i = j

\* A thread that waits for a future waits for a thread that is lowering right
\* now or has resolved it: never for one that died between appending its entry
\* and lowering, and never for one that waits itself.
WaitersAreServed ==
    \A i \in At({"waiting"}) :
      future[owner[i]] = "pending" => task[owner[i]] = "lowering"

\* No operation runs once the temporary directory it writes to is gone: not
\* after a failure, not after an interrupt, and not the task of a submission
\* that failed after it had entered the pool's queue.
NoStraggler == ~temporary => Busy = {}

\* What is written holds, in the order of the processes, the result of each
\* one, or a schedule of its class that was lowered successfully.
OutputsInOrder ==
    main \in {"writing", "returned"} =>
      \A i \in Index :
        IF Phases \in Cached
        THEN Class[ordered[i]] = Class[i] /\ future[ordered[i]] = "done"
        ELSE ordered[i] = i

\* A generation with a failed operation writes nothing, and the process it
\* names is one that failed, not one it cancelled on the way out.
FailuresAreRaised ==
    /\ main \in {"writing", "returned"} => At({"failed", "cancelled"}) = {}
    /\ error = "process" => task[blamed] = "failed"
============================================================================
