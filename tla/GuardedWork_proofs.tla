------------------------- MODULE GuardedWork_proofs -------------------------
(***************************************************************************)
(* Proofs that the invariants of GuardedWork hold for any number of        *)
(* processes, phases, workers, calls, slots, interrupts, killed processes  *)
(* and descendants.  Each part has an inductive invariant of its own.      *)
(*                                                                         *)
(* Generation.  That a waiting operation is served rests on who is         *)
(* lowering (Sharing); that nothing outlives the temporary directory, and  *)
(* that a generation that writes has all results, on what the caller knows *)
(* of the operations in each place (Mapping, Ending).                      *)
(*                                                                         *)
(* Gate.  About interrupts that arrive while a call polls, starts its      *)
(* compiler or communicates with it (GuardedPlaces): what an interrupt of  *)
(* the termination itself leaves behind is not bounded by the gate.        *)
(*                                                                         *)
(* Worker.  That the known tree ends rests on who was captured before the  *)
(* supervisor decides anything (Captures); that no stranger is signalled,  *)
(* on the parents of foreign processes, which are foreign (Strangers).     *)
(* The latter holds if the system reuses no identifier of the last sample  *)
(* (~ReuseKnown).                                                          *)
(*                                                                         *)
(* Watchdog.  That whoever was seen ends rests on what the sampler still   *)
(* knows of them when it looks for the last time (Watched, NoneLeft).      *)
(***************************************************************************)
EXTENDS GuardedWork, FunctionTheorems, FiniteSetTheorems,
    WellFoundedInduction, TLAPS

----------------------------------------------------------------------------
(* The phases of a generation                                              *)

GenerationAssumptions == Generation!SizeAssumption /\ Generation!ShapeAssumption

\* What a task knows of the schedule it lowers, waits for or holds.
Sharing(i) ==
    /\ task[i] = "lowering" => owner[i] = i /\ future[i] = "pending"
    /\ task[i] = "waiting" =>
         /\ owner[i] \in Generation!Index /\ Class[owner[i]] = Class[i]
         /\ Class[i] \notin refused /\ future[owner[i]] # "none"
    /\ task[i] = "binding" \/ (task[i] = "done" /\ phase \in Cached) =>
         /\ owner[i] \in Generation!Index /\ Class[owner[i]] = Class[i]
         /\ future[owner[i]] = "done"
    /\ future[i] = "pending" => task[i] = "lowering" \/ Class[i] \in refused

Cache == Generation!LoweredOnce /\ \A i \in Generation!Index : Sharing(i)

\* Where a process is while the caller maps a phase.
Mapped(i) ==
    /\ next <= i => i \notin active /\ task[i] = "none"
    /\ i \in active => task[i] \notin {"none", "cancelled", "notified"}
    /\ i < next /\ i \notin active => task[i] = "done" /\ ordered[i] = Generation!Output(i)

Mapping ==
    main = "mapping" => error = "none" /\ \A i \in Generation!Index : Mapped(i)

\* Every process has its result once the last phase has ended by itself.
Complete == phase = Phases /\ \A i \in Generation!Index : task[i] = "done" /\ ordered[i] = Generation!Output(i)

Ending ==
    /\ main \in {"closing", "joining", "writing", "returned"} /\ error = "none" => Complete
    /\ main \in {"writing", "returned"} => error = "none"
    /\ main = "failing" => error # "none"
    /\ error = "process" => blamed \in Generation!Index /\ task[blamed] = "failed"
    /\ main \in {"joining", "writing", "returned", "raised"} =>
         \A i \in Generation!Index : task[i] # "queued"
    /\ main \in {"writing", "returned", "raised"} => Generation!Busy = {}
    /\ temporary = (main \notin {"returned", "raised"})

\* The operations of one process work on its own results.
Inputs == \A i \in Generation!Index : inputs[i] = i

\* The inductive invariant.
GenerationIInv == Generation!TypeOK /\ Cache /\ Mapping /\ Ending /\ Inputs

----------------------------------------------------------------------------
\* The strict order of the natural numbers as a relation.
Before == {pair \in Nat \X Nat : pair[1] < pair[2]}

\* The least of a set of processes is one of them.
LEMMA SmallestIsIn ==
  ASSUME NEW S, S \subseteq Nat, S # {}
  PROVE  Generation!Smallest(S) \in S
  <1>1. IsWellFoundedOn(Before, Nat)
    BY NatLessThanWellFounded, Zenon DEF OpToRel, Before
  <1>2. PICK m \in S : \A n \in S : ~ (<<n, m>> \in Before)
    BY <1>1, WFMin
  <1>3. \A n \in S : ~ (n < m)
    BY <1>2 DEF Before
  <1>4. \A n \in S : m <= n
    BY <1>3
  <1> QED
    BY <1>2, <1>4 DEF Generation!Smallest

\* The initial state satisfies the inductive invariant.
LEMMA GenerationInit ==
  ASSUME GenerationAssumptions, Generation!Init
  PROVE  GenerationIInv
  <1> USE DEF GenerationAssumptions, Generation!SizeAssumption,
           Generation!ShapeAssumption, Generation!Init
  <1>1. Generation!TypeOK
    <2>1. 1 \in 1..Phases /\ 1 \in 1..(Items + 1) /\ 0 \in 0..Items /\ 0 \in 0..workers
      OBVIOUS
    <2> QED
      BY <2>1 DEF Generation!TypeOK, Generation!Index
  <1>2. Cache
    BY DEF Cache, Generation!LoweredOnce, Sharing
  <1>3. Mapping
    BY DEF Mapping, Mapped, Generation!Index
  <1>4. Ending /\ Inputs
    BY DEF Ending, Inputs
  <1> QED
    BY <1>1, <1>2, <1>3, <1>4 DEF GenerationIInv

----------------------------------------------------------------------------
(* Steps of the operations                                                 *)

\* Where an operation can be.
Places == {"none", "queued", "running", "lowering", "waiting", "binding", "done",
           "failed", "cancelled", "notified"}

\* What a thread of the pool may do to its operation: take it from the queue,
\* or carry on with it.
Carries(i) ==
    /\ UNCHANGED <<Generation!caller, threads, refused>>
    /\ \E to \in Places \ {"none", "queued", "cancelled"} :
         /\ task' = [task EXCEPT ![i] = to]
         /\ \/ task[i] = "queued" /\ to = "running" /\ UNCHANGED Generation!cache
            \/ task[i] = "cancelled" /\ to = "notified" /\ UNCHANGED Generation!cache
            \/ /\ task[i] \in {"running", "lowering", "waiting", "binding"}
               /\ to \notin {"running", "notified"}
    /\ \A j \in Generation!Index \ {i} : owner'[j] = owner[j]
    /\ owner' \in [Generation!Index -> 0..Items]
    /\ future' \in [Generation!Index -> {"none", "pending", "done", "failed"}]

\* Every step of an operation is of that kind.
LEMMA TaskKinds ==
  ASSUME Generation!TypeOK, Cache, NEW i \in Generation!Index, Generation!TaskStep(i)
  PROVE  Carries(i)
  <1> USE DEF Carries, Places, Generation!Goto, Generation!cache
  <1>0. /\ owner \in [Generation!Index -> 0..Items]
        /\ future \in [Generation!Index -> {"none", "pending", "done", "failed"}]
        /\ task[i] \in Places
    BY DEF Generation!TypeOK
  <1>1. CASE Generation!PickUp(i)
    <2>1. task[i] \in {"queued", "cancelled"}
      BY <1>1 DEF Generation!PickUp, Generation!Waiting, Generation!At
    <2> QED
      BY <1>0, <1>1, <2>1 DEF Generation!PickUp
  <1>2. CASE Generation!Operate(i)
    BY <1>0, <1>2 DEF Generation!Operate
  <1>3. CASE Generation!LookUp(i)
    <2>1. CASE Generation!Entry(i) # {} /\ Generation!JoinEntry(i) /\ UNCHANGED future
      <3>1. (CHOOSE j \in Generation!Entry(i) : TRUE) \in 0..Items
        <4>1. Generation!Entry(i) \subseteq 0..Items
          BY DEF Generation!Entry, Generation!Index
        <4> QED
          BY <2>1, <4>1
      <3>2. task' \in {[task EXCEPT ![i] = to] : to \in {"failed", "waiting"}}
        BY <2>1 DEF Generation!JoinEntry
      <3>3. /\ owner' \in [Generation!Index -> 0..Items]
            /\ \A j \in Generation!Index \ {i} : owner'[j] = owner[j]
        BY <1>0, <2>1, <3>1 DEF Generation!JoinEntry
      <3> QED
        BY <1>0, <1>3, <2>1, <3>2, <3>3 DEF Generation!LookUp
    <2>2. CASE Generation!AppendEntry(i)
      <3>1. i \in 0..Items
        BY DEF Generation!Index
      <3>2. task' \in {[task EXCEPT ![i] = to] : to \in {"failed", "lowering"}}
        BY <2>2 DEF Generation!AppendEntry
      <3>3. /\ owner' \in [Generation!Index -> 0..Items]
            /\ \A j \in Generation!Index \ {i} : owner'[j] = owner[j]
            /\ future' \in [Generation!Index -> {"none", "pending", "done", "failed"}]
        BY <1>0, <2>2, <3>1 DEF Generation!AppendEntry
      <3> QED
        BY <1>0, <1>3, <2>2, <3>2, <3>3 DEF Generation!LookUp
    <2> QED
      BY <1>3, <2>1, <2>2 DEF Generation!LookUp
  <1>4. CASE Generation!Lower(i)
    BY <1>0, <1>4 DEF Generation!Lower
  <1>5. CASE Generation!Share(i)
    <2>1. task' \in {[task EXCEPT ![i] = to] : to \in {"failed", "binding"}}
      BY <1>5 DEF Generation!Share
    <2> QED
      BY <1>0, <1>5, <2>1 DEF Generation!Share
  <1>6. CASE Generation!Bind(i)
    BY <1>0, <1>6 DEF Generation!Bind
  <1> QED
    BY <1>1, <1>2, <1>3, <1>4, <1>5, <1>6 DEF Generation!TaskStep

\* A step of an operation keeps what tasks know of schedules.
LEMMA TaskCache ==
  ASSUME Generation!TypeOK, Cache, NEW i \in Generation!Index, Generation!TaskStep(i)
  PROVE  Cache'
  <1>0. /\ owner \in [Generation!Index -> 0..Items]
        /\ future \in [Generation!Index -> {"none", "pending", "done", "failed"}]
        /\ task \in [Generation!Index -> Places]
        /\ Generation!LoweredOnce /\ \A j \in Generation!Index : Sharing(j)
        /\ phase' = phase
    BY TaskKinds DEF Generation!TypeOK, Places, Cache, Carries, Generation!caller
  <1> USE DEF Generation!Goto, Generation!cache
  <1>1. CASE Generation!PickUp(i)
    <2>1. task[i] \in {"queued", "cancelled"}
      BY <1>1 DEF Generation!PickUp, Generation!Waiting, Generation!At
    <2> QED
      BY <1>0, <1>1, <2>1
        DEF Generation!PickUp, Cache, Generation!LoweredOnce, Sharing
  <1>2. CASE Generation!Operate(i)
    BY <1>0, <1>2 DEF Generation!Operate, Cache, Generation!LoweredOnce, Sharing
  <1>3. CASE Generation!LookUp(i) /\ Generation!Entry(i) # {} /\ Generation!JoinEntry(i) /\ UNCHANGED future
    <2>1. CASE Class[i] \in refused
      BY <1>0, <1>3, <2>1
        DEF Generation!LookUp, Generation!JoinEntry, Cache, Generation!LoweredOnce,
            Sharing
    <2>2. CASE Class[i] \notin refused
      <3>1. PICK j \in Generation!Entry(i) : owner' = [owner EXCEPT ![i] = j]
        BY <1>3, <2>2 DEF Generation!JoinEntry
      <3>2. j \in Generation!Index /\ Class[j] = Class[i] /\ future[j] # "none"
        BY <3>1 DEF Generation!Entry
      <3> QED
        BY <1>0, <1>3, <2>2, <3>1, <3>2
          DEF Generation!LookUp, Generation!JoinEntry, Cache, Generation!LoweredOnce,
              Sharing
    <2> QED
      BY <2>1, <2>2
  <1>4. CASE Generation!LookUp(i) /\ Generation!Entry(i) = {} /\ Generation!AppendEntry(i)
    <2>1. \A j \in Generation!Index : Class[j] = Class[i] => future[j] = "none"
      BY <1>4 DEF Generation!Entry
    <2>2. Generation!LoweredOnce'
      BY <1>0, <1>4, <2>1 DEF Generation!AppendEntry, Generation!LoweredOnce
    <2>3. ASSUME NEW j \in Generation!Index PROVE Sharing(j)'
      BY <1>0, <1>4, <2>1, <2>3 DEF Generation!LookUp, Generation!AppendEntry, Sharing
    <2> QED
      BY <2>2, <2>3 DEF Cache
  <1>5. CASE Generation!Lower(i)
    <2>1. owner[i] = i /\ future[i] = "pending"
      BY <1>0, <1>5 DEF Generation!Lower, Sharing
    <2>2. Generation!LoweredOnce'
      BY <1>0, <1>5, <2>1 DEF Generation!Lower, Generation!LoweredOnce
    <2>3. ASSUME NEW j \in Generation!Index PROVE Sharing(j)'
      BY <1>0, <1>5, <2>1, <2>3 DEF Generation!Lower, Sharing
    <2> QED
      BY <2>2, <2>3 DEF Cache
  <1>6. CASE Generation!Share(i)
    <2>1. future[owner[i]] \in {"none", "pending", "done", "failed"} /\ owner[i] \in Generation!Index
      BY <1>0, <1>6 DEF Generation!Share, Sharing
    <2> QED
      BY <1>0, <1>6, <2>1 DEF Generation!Share, Cache, Generation!LoweredOnce, Sharing
  <1>7. CASE Generation!Bind(i)
    BY <1>0, <1>7 DEF Generation!Bind, Cache, Generation!LoweredOnce, Sharing
  <1> QED
    BY <1>1, <1>2, <1>3, <1>4, <1>5, <1>6, <1>7
      DEF Generation!TaskStep, Generation!LookUp

\* A step of an operation keeps the rest of the invariant.
LEMMA TaskRest ==
  ASSUME GenerationIInv, NEW i \in Generation!Index, Generation!TaskStep(i)
  PROVE  Generation!TypeOK' /\ Mapping' /\ Ending' /\ Inputs'
  <1>0. Carries(i) /\ task \in [Generation!Index -> Places]
    BY TaskKinds DEF GenerationIInv, Generation!TypeOK, Places
  <1>1. PICK to \in Places \ {"none", "queued", "cancelled"} :
          /\ task' = [task EXCEPT ![i] = to]
          /\ \/ task[i] = "queued" /\ to = "running"
             \/ task[i] = "cancelled" /\ to = "notified"
             \/ /\ task[i] \in {"running", "lowering", "waiting", "binding"}
                /\ to \notin {"running", "notified"}
    BY <1>0 DEF Carries
  <1>2. /\ \A j \in Generation!Index \ {i} : task'[j] = task[j] /\ owner'[j] = owner[j]
        /\ task'[i] = to /\ UNCHANGED <<Generation!caller, threads, refused>>
    BY <1>0, <1>1 DEF Carries
  <1>3. Generation!TypeOK'
    <2>1. task' \in [Generation!Index -> Places]
      BY <1>0, <1>1
    <2>2. /\ owner' \in [Generation!Index -> 0..Items]
          /\ future' \in [Generation!Index -> {"none", "pending", "done", "failed"}]
      BY <1>0 DEF Carries
    <2> QED
      BY <1>2, <2>1, <2>2
        DEF GenerationIInv, Generation!TypeOK, Places, Generation!caller
  <1>4. Mapping'
    <2> SUFFICES ASSUME main = "mapping", NEW j \in Generation!Index PROVE error = "none" /\ Mapped(j)'
      BY <1>2 DEF Mapping, Generation!caller
    <2>1. error = "none" /\ Mapped(j)
      BY DEF GenerationIInv, Mapping
    <2>2. CASE j # i
      BY <1>2, <2>1, <2>2 DEF Mapped, Generation!Output, Generation!caller
    <2>3. CASE j = i
      BY <1>1, <1>2, <2>1, <2>3 DEF Mapped, Generation!caller
    <2> QED
      BY <2>1, <2>2, <2>3
  <1>5. Ending'
    <2>0. UNCHANGED <<main, phase, error, blamed, temporary, ordered, inputs>>
      BY <1>2 DEF Generation!caller
    <2>1. Ending
      BY DEF GenerationIInv
    <2>2. task[i] # "done" /\ task[i] # "failed"
      BY <1>1
    <2>3. ~ (main \in {"closing", "joining", "writing", "returned"} /\ error = "none")
      BY <2>1, <2>2 DEF Ending, Complete
    <2>4. error = "process" => task'[blamed] = "failed"
      BY <1>2, <2>1, <2>2 DEF Ending
    <2>5. main \in {"joining", "writing", "returned", "raised"} =>
            \A j \in Generation!Index : task'[j] # "queued"
      BY <1>1, <1>2, <2>1 DEF Ending
    <2>6. main \in {"writing", "returned", "raised"} => Generation!Busy' = {}
      <3> SUFFICES ASSUME main \in {"writing", "returned", "raised"}, NEW j \in Generation!Index
                   PROVE  task'[j] \notin {"running", "lowering", "waiting", "binding"}
        BY DEF Generation!Busy, Generation!At
      <3>1. \A k \in Generation!Index : task[k] \notin {"queued", "running", "lowering", "waiting",
                                                       "binding"}
        BY <2>1 DEF Ending, Generation!Busy, Generation!At
      <3> QED
        BY <1>1, <1>2, <3>1
    <2> QED
      BY <2>0, <2>1, <2>3, <2>4, <2>5, <2>6 DEF Ending
  <1>6. Inputs'
    BY <1>2 DEF GenerationIInv, Inputs, Generation!caller
  <1> QED
    BY <1>3, <1>4, <1>5, <1>6

----------------------------------------------------------------------------
(* Steps of the caller                                                     *)

\* The phase and the cache stay, and no task comes to hold or to share a
\* schedule, or stops lowering one.
LEMMA QuietCache ==
  ASSUME Cache, UNCHANGED <<phase, Generation!cache>>,
         \A i \in Generation!Index :
           \/ task'[i] = task[i]
           \/ /\ task[i] # "lowering"
              /\ task'[i] \notin {"lowering", "waiting", "binding", "done"}
  PROVE  Cache'
  <1>1. Generation!LoweredOnce'
    BY DEF Cache, Generation!LoweredOnce, Generation!cache
  <1>2. ASSUME NEW i \in Generation!Index PROVE Sharing(i)'
    BY <1>2 DEF Cache, Sharing, Generation!cache
  <1> QED
    BY <1>1, <1>2 DEF Cache

\* Cancelling touches only queued tasks.
LEMMA CancelsQueued ==
  ASSUME Generation!TypeOK, NEW S
  PROVE  /\ Generation!Cancelled(S) \in [Generation!Index -> Places]
         /\ \A i \in Generation!Index : \/ Generation!Cancelled(S)[i] = task[i]
                                        \/ task[i] = "queued" /\ Generation!Cancelled(S)[i] = "cancelled"
         /\ \A i \in S \cap Generation!Index : Generation!Cancelled(S)[i] # "queued"
  BY DEF Generation!TypeOK, Places, Generation!Cancelled

\* While the caller maps a phase it knows every operation that is under way.
LEMMA KnownToCaller ==
  ASSUME GenerationIInv, main = "mapping"
  PROVE  /\ active = {i \in Generation!Index : i < next /\ i \in active}
         /\ \A i \in Generation!Index : task[i] \notin {"none", "done"} => i \in active
         /\ error = "none" /\ temporary = TRUE
  <1>1. error = "none" /\ \A i \in Generation!Index : Mapped(i)
    BY DEF GenerationIInv, Mapping
  <1>2. active \subseteq Generation!Index /\ next \in Nat /\ Generation!Index \subseteq Nat
    BY DEF GenerationIInv, Generation!TypeOK, Generation!Index
  <1>3. \A i \in Generation!Index : i < next \/ next <= i
    BY <1>2
  <1> QED
    BY <1>1, <1>2, <1>3 DEF GenerationIInv, Ending, Mapped

\* A submission: the next process becomes known and its task waits or runs.
LEMMA SubmitStep ==
  ASSUME GenerationAssumptions, GenerationIInv, Generation!Submit
  PROVE  GenerationIInv'
  <1>0. /\ Generation!TypeOK /\ main = "mapping" /\ next <= Items /\ next' = next + 1
        /\ active' = active \cup {next}
        /\ UNCHANGED <<workers, main, phase, inputs, ordered, error, blamed, temporary,
                       Generation!cache>>
    BY DEF GenerationIInv, Generation!Submit, Generation!CanSubmit
  <1>1. /\ next \in Generation!Index /\ next \in Nat /\ next + 1 \in 1..(Items + 1)
        /\ Generation!Index \subseteq Nat
    BY <1>0
      DEF Generation!TypeOK, Generation!Index, GenerationAssumptions,
          Generation!SizeAssumption
  <1>2. PICK to \in {"queued", "running"} : task' = [task EXCEPT ![next] = to]
    BY DEF Generation!Submit
  <1>3. task[next] = "none" /\ next \notin active /\ error = "none"
    BY <1>0, <1>1 DEF GenerationIInv, Mapping, Mapped
  <1>4. task \in [Generation!Index -> Places]
    BY <1>0 DEF Generation!TypeOK, Places
  <1>5. threads' \in 0..workers
    BY <1>0
      DEF Generation!Submit, Generation!TypeOK, GenerationAssumptions,
          Generation!SizeAssumption
  <1>6. Generation!TypeOK'
    <2>1. task' \in [Generation!Index -> Places]
      BY <1>2, <1>4 DEF Places
    <2> QED
      BY <1>0, <1>1, <1>5, <2>1 DEF Generation!TypeOK, Places, Generation!cache
  <1>7. Cache'
    BY <1>0, <1>1, <1>2, <1>3, <1>4, QuietCache DEF GenerationIInv
  <1>8. Mapping'
    <2> SUFFICES ASSUME NEW i \in Generation!Index PROVE Mapped(i)'
      BY <1>0, <1>3 DEF Mapping
    <2>1. Mapped(i) /\ i \in Nat
      BY <1>0, <1>1 DEF GenerationIInv, Mapping
    <2>2. CASE i = next
      BY <1>0, <1>1, <1>2, <1>4, <2>1, <2>2 DEF Mapped
    <2>3. CASE i # next
      <3>1. task'[i] = task[i] /\ (i \in active' <=> i \in active)
        BY <1>0, <1>2, <1>4, <2>3
      <3>2. (next' <= i => next <= i) /\ (i < next' => i < next)
        BY <1>0, <1>1, <2>1, <2>3
      <3> QED
        BY <1>0, <2>1, <3>1, <3>2 DEF Mapped, Generation!Output, Generation!cache
    <2> QED
      BY <2>2, <2>3
  <1>9. Ending' /\ Inputs'
    BY <1>0, <1>3 DEF GenerationIInv, Ending, Inputs
  <1> QED
    BY <1>6, <1>7, <1>8, <1>9 DEF GenerationIInv

\* A submission that fails: its task stays in the queue.
LEMMA SubmitFailsStep ==
  ASSUME GenerationAssumptions, GenerationIInv, Generation!SubmitFails
  PROVE  GenerationIInv'
  <1>0. /\ Generation!TypeOK /\ main = "mapping" /\ next <= Items /\ main' = "failing"
        /\ error' = "schedule"
        /\ UNCHANGED <<workers, phase, next, inputs, active, ordered, blamed, temporary,
                       threads, Generation!cache>>
    BY DEF GenerationIInv, Generation!SubmitFails, Generation!CanSubmit
  <1>1. next \in Generation!Index
    BY <1>0
      DEF Generation!TypeOK, Generation!Index, GenerationAssumptions,
          Generation!SizeAssumption
  <1>2. task[next] = "none"
    <2>1. next <= next
      BY <1>1 DEF Generation!Index
    <2> QED
      BY <1>0, <1>1, <2>1 DEF GenerationIInv, Mapping, Mapped
  <1>3. /\ task' \in [Generation!Index -> Places]
        /\ \A i \in Generation!Index : \/ task'[i] = task[i]
                                       \/ task[i] = "queued" /\ task'[i] = "cancelled"
                                       \/ i = next /\ task'[i] = "queued"
    <2> DEFINE C == Generation!Cancelled(active)
    <2>1. /\ C \in [Generation!Index -> Places]
          /\ \A i \in Generation!Index : \/ C[i] = task[i]
                                         \/ task[i] = "queued" /\ C[i] = "cancelled"
      BY <1>0, CancelsQueued
    <2>2. task' = [C EXCEPT ![next] = "queued"]
      BY DEF Generation!SubmitFails
    <2> HIDE DEF C
    <2> QED
      BY <1>1, <2>1, <2>2 DEF Places
  <1>4. Generation!TypeOK'
    BY <1>0, <1>3 DEF Generation!TypeOK, Places, Generation!cache
  <1>5. Cache'
    BY <1>0, <1>2, <1>3, QuietCache DEF GenerationIInv
  <1>6. Mapping' /\ Ending' /\ Inputs'
    BY <1>0 DEF GenerationIInv, Mapping, Ending, Inputs
  <1> QED
    BY <1>4, <1>5, <1>6 DEF GenerationIInv

\* Collected results.
LEMMA ResultsStep ==
  ASSUME GenerationAssumptions, GenerationIInv, Generation!Collect, Generation!CollectResults(active \cap Generation!Ended)
  PROVE  GenerationIInv'
  <1> DEFINE D == active \cap Generation!Ended
  <1>0. /\ Generation!TypeOK /\ main = "mapping" /\ active' = active \ Generation!Ended
        /\ \A i \in D : task[i] = "done"
        /\ ordered' = [i \in Generation!Index |-> IF i \in D THEN Generation!Output(i) ELSE ordered[i]]
        /\ UNCHANGED <<workers, main, phase, next, inputs, temporary, threads, Generation!cache,
                       error, blamed, task>>
    BY DEF GenerationIInv, Generation!Collect, Generation!CollectResults
  <1>1. active \subseteq Generation!Index /\ D \subseteq Generation!Index
    BY <1>0 DEF Generation!TypeOK
  <1>2. \A i \in D : Generation!Output(i) \in 0..Items
    <2> SUFFICES ASSUME NEW i \in D PROVE Generation!Output(i) \in 0..Items
      OBVIOUS
    <2>1. i \in Generation!Index /\ task[i] = "done"
      BY <1>0, <1>1
    <2>2. inputs[i] \in Generation!Index
      BY <1>0, <2>1 DEF Generation!TypeOK
    <2>3. phase \in Cached => owner[i] \in Generation!Index
      BY <2>1 DEF GenerationIInv, Cache, Sharing
    <2> QED
      BY <2>2, <2>3 DEF Generation!Output, Generation!Index
  <1>3. ordered' \in [Generation!Index -> 0..Items]
    BY <1>0, <1>2 DEF Generation!TypeOK
  <1>4. Generation!TypeOK'
    BY <1>0, <1>1, <1>3 DEF Generation!TypeOK, Generation!cache
  <1>5. Cache'
    BY <1>0, QuietCache DEF GenerationIInv
  <1>6. Mapping'
    <2>1. ASSUME NEW i \in Generation!Index PROVE Mapped(i)'
      <3>1. Mapped(i)
        BY <1>0 DEF GenerationIInv, Mapping
      <3>2. Generation!Output(i)' = Generation!Output(i)
        BY <1>0 DEF Generation!Output, Generation!cache
      <3>3. i \in active' <=> i \in active /\ i \notin D
        BY <1>0
      <3>4. ordered'[i] = IF i \in D THEN Generation!Output(i) ELSE ordered[i]
        BY <1>0
      <3> QED
        BY <1>0, <3>1, <3>2, <3>3, <3>4 DEF Mapped
    <2>2. error' = "none"
      BY <1>0 DEF GenerationIInv, Mapping
    <2> QED
      BY <2>1, <2>2 DEF Mapping
  <1>7. Ending' /\ Inputs'
    BY <1>0, KnownToCaller DEF GenerationIInv, Ending, Inputs
  <1> QED
    BY <1>4, <1>5, <1>6, <1>7 DEF GenerationIInv

\* Collected failures: the least process that failed is named.
LEMMA FailuresStep ==
  ASSUME GenerationAssumptions, GenerationIInv, Generation!Collect, Generation!CollectFailures(active \cap Generation!Ended)
  PROVE  GenerationIInv'
  <1> DEFINE D == active \cap Generation!Ended
             F == {i \in D : task[i] = "failed"}
  <1>0. /\ Generation!TypeOK /\ active' = active \ Generation!Ended
        /\ F # {} /\ task' = Generation!Cancelled(active \ D) /\ main' = "failing"
        /\ error' = "process" /\ blamed' = Generation!Smallest(F)
        /\ UNCHANGED <<workers, phase, next, inputs, temporary, threads, Generation!cache, ordered>>
        /\ main = "mapping"
    BY DEF GenerationIInv, Generation!Collect, Generation!CollectFailures
  <1>1. active \subseteq Generation!Index /\ F \subseteq Generation!Index /\ F \subseteq Nat
    <2>1. active \subseteq Generation!Index
      BY <1>0 DEF Generation!TypeOK
    <2>2. F \subseteq active /\ Generation!Index \subseteq Nat
      BY DEF Generation!Index
    <2> QED
      BY <2>1, <2>2
  <1>2. blamed' \in F
    <2> HIDE DEF F
    <2> QED
      BY <1>0, <1>1, SmallestIsIn
  <1>3. /\ task' \in [Generation!Index -> Places]
        /\ \A i \in Generation!Index : \/ task'[i] = task[i]
                                       \/ task[i] = "queued" /\ task'[i] = "cancelled"
    BY <1>0, CancelsQueued
  <1>4. Generation!TypeOK'
    <2>1. blamed' \in 0..Items
      BY <1>1, <1>2 DEF Generation!Index
    <2> QED
      BY <1>0, <1>1, <1>3, <2>1 DEF Generation!TypeOK, Places, Generation!cache
  <1>5. Cache'
    BY <1>0, <1>3, QuietCache DEF GenerationIInv
  <1>6. Mapping' /\ Inputs'
    BY <1>0 DEF GenerationIInv, Mapping, Inputs
  <1>7. Ending'
    <2>1. blamed' \in Generation!Index /\ task'[blamed'] = "failed"
      BY <1>1, <1>2, <1>3
    <2> QED
      BY <1>0, <2>1 DEF GenerationIInv, Ending
  <1> QED
    BY <1>4, <1>5, <1>6, <1>7 DEF GenerationIInv

\* Nothing is left to submit or to wait for: every process has its result.
LEMMA PhaseDone ==
  ASSUME GenerationAssumptions, GenerationIInv, main = "mapping", ~Generation!CanSubmit, active = {}
  PROVE  \A i \in Generation!Index : task[i] = "done" /\ ordered[i] = Generation!Output(i)
  <1>1. Generation!TypeOK /\ Generation!Cardinality({}) = 0
    BY FS_EmptySet DEF GenerationIInv, Generation!Cardinality, Cardinality
  <1>2. Generation!InFlight \in Nat \ {0}
    BY <1>1
      DEF Generation!TypeOK, Generation!InFlight, GenerationAssumptions,
          Generation!SizeAssumption
  <1>3. ~ (next <= Items)
    BY <1>1, <1>2 DEF Generation!CanSubmit
  <1>4. \A i \in Generation!Index : i < next
    BY <1>1, <1>3
      DEF Generation!TypeOK, Generation!Index, GenerationAssumptions,
          Generation!SizeAssumption
  <1> QED
    BY <1>4 DEF GenerationIInv, Mapping, Mapped

\* The next phase begins, or the last one has ended.
LEMMA NextPhaseStep ==
  ASSUME GenerationAssumptions, GenerationIInv, Generation!NextPhase
  PROVE  GenerationIInv'
  <1>0. /\ Generation!TypeOK /\ main = "mapping" /\ active = {} /\ error = "none"
        /\ UNCHANGED <<workers, active, error, blamed, temporary, threads, Generation!cache>>
    BY KnownToCaller DEF GenerationIInv, Generation!NextPhase
  <1>1. \A i \in Generation!Index : task[i] = "done" /\ ordered[i] = Generation!Output(i)
    BY PhaseDone DEF Generation!NextPhase
  <1>2. CASE /\ phase < Phases /\ phase' = phase + 1 /\ next' = 1
             /\ task' = [i \in Generation!Index |-> "none"]
             /\ inputs' = ordered /\ ordered' = [i \in Generation!Index |-> 0]
             /\ UNCHANGED main
    <2>1. phase \notin Cached /\ phase' \in 1..Phases
      BY <1>0, <1>2
        DEF Generation!TypeOK, GenerationAssumptions, Generation!ShapeAssumption,
            Generation!SizeAssumption
    <2>2. \A i \in Generation!Index : ordered[i] = i
      BY <1>1, <2>1 DEF Generation!Output, GenerationIInv, Inputs
    <2>3. Generation!TypeOK'
      <3>1. inputs' \in [Generation!Index -> Generation!Index]
        BY <1>0, <1>2, <2>2 DEF Generation!TypeOK
      <3>2. ordered' \in [Generation!Index -> 0..Items] /\ 1 \in 1..(Items + 1)
        BY <1>2 DEF GenerationAssumptions, Generation!SizeAssumption
      <3> QED
        BY <1>0, <1>2, <2>1, <3>1, <3>2 DEF Generation!TypeOK, Generation!cache
    <2>4. Cache'
      <3>1. Generation!LoweredOnce'
        BY <1>0 DEF GenerationIInv, Cache, Generation!LoweredOnce, Generation!cache
      <3>2. ASSUME NEW i \in Generation!Index PROVE Sharing(i)'
        BY <1>0, <1>1, <1>2 DEF GenerationIInv, Cache, Sharing, Generation!cache
      <3> QED
        BY <3>1, <3>2 DEF Cache
    <2>5. Mapping'
      <3>1. \A i \in Generation!Index : ~ (i < 1)
        BY DEF Generation!Index
      <3> QED
        BY <1>0, <1>2, <3>1 DEF Mapping, Mapped
    <2>6. Ending' /\ Inputs'
      BY <1>0, <1>2, <2>2 DEF GenerationIInv, Ending, Inputs
    <2> QED
      BY <2>3, <2>4, <2>5, <2>6 DEF GenerationIInv
  <1>3. CASE /\ phase = Phases /\ main' = "closing"
             /\ UNCHANGED <<phase, next, inputs, task, ordered>>
    <2>1. Generation!TypeOK' /\ Cache'
      BY <1>0, <1>3, QuietCache
        DEF GenerationIInv, Generation!TypeOK, Generation!cache
    <2>2. Complete'
      <3>1. \A i \in Generation!Index : Generation!Output(i)' = Generation!Output(i)
        BY <1>0, <1>3 DEF Generation!Output, Generation!cache
      <3> QED
        BY <1>1, <1>3, <3>1 DEF Complete
    <2>3. Mapping' /\ Ending' /\ Inputs'
      BY <1>0, <1>3, <2>2 DEF GenerationIInv, Mapping, Ending, Inputs
    <2> QED
      BY <2>1, <2>3 DEF GenerationIInv
  <1> QED
    BY <1>2, <1>3 DEF Generation!NextPhase

\* Operations that an interrupt of the caller's own thread passes through.
LEMMA InterruptStep ==
  ASSUME GenerationAssumptions, GenerationIInv, Generation!Interrupt
  PROVE  GenerationIInv'
  <1>0. /\ Generation!TypeOK /\ main \in {"mapping", "failing"} /\ main' = "closing"
        /\ error' = "interrupt"
        /\ UNCHANGED <<workers, phase, next, inputs, active, ordered, blamed, temporary,
                       threads, owner, refused>>
    BY DEF GenerationIInv, Generation!Interrupt
  <1>1. Mapping' /\ Inputs'
    BY <1>0 DEF GenerationIInv, Mapping, Inputs
  <1>2. Ending'
    BY <1>0 DEF GenerationIInv, Ending
  <1>3. CASE UNCHANGED <<task, future>>
    <2>1. Generation!TypeOK' /\ Cache'
      BY <1>0, <1>3, QuietCache
        DEF GenerationIInv, Generation!TypeOK, Generation!cache
    <2> QED
      BY <1>1, <1>2, <2>1 DEF GenerationIInv
  <1>4. CASE /\ task' = [i \in Generation!Index |-> IF i \in Generation!Busy THEN "failed" ELSE task[i]]
             /\ future' = Generation!InterruptedFuture(Generation!At({"lowering"}))
    <2>1. \A i \in Generation!Index :
            task'[i] = IF task[i] \in {"running", "lowering", "waiting", "binding"}
                       THEN "failed" ELSE task[i]
      BY <1>4 DEF Generation!Busy, Generation!At
    <2>2. \A i \in Generation!Index :
            future'[i] = IF task[i] = "lowering" /\ future[i] = "pending"
                         THEN "failed" ELSE future[i]
      BY <1>4 DEF Generation!InterruptedFuture, Generation!At
    <2>3. Generation!TypeOK'
      <3>1. task' \in [Generation!Index -> Places]
        BY <1>0, <1>4, <2>1 DEF Generation!TypeOK, Places
      <3>2. future' \in [Generation!Index -> {"none", "pending", "done", "failed"}]
        BY <1>0, <1>4, <2>2 DEF Generation!TypeOK, Generation!InterruptedFuture
      <3> QED
        BY <1>0, <3>1, <3>2 DEF Generation!TypeOK, Places
    <2>4. Generation!LoweredOnce'
      BY <2>2 DEF GenerationIInv, Cache, Generation!LoweredOnce
    <2>5. ASSUME NEW i \in Generation!Index PROVE Sharing(i)'
      BY <1>0, <2>1, <2>2 DEF GenerationIInv, Cache, Sharing
    <2> QED
      BY <1>1, <1>2, <2>3, <2>4, <2>5 DEF GenerationIInv, Cache
  <1> QED
    BY <1>3, <1>4 DEF Generation!Interrupt

\* The queue is emptied.
LEMMA CloseStep ==
  ASSUME GenerationAssumptions, GenerationIInv, Generation!Close
  PROVE  GenerationIInv'
  <1>0. /\ Generation!TypeOK /\ main = "closing" /\ main' = "joining" /\ task' = Generation!Cancelled(Generation!Index)
        /\ UNCHANGED <<workers, phase, next, inputs, active, ordered, error, blamed,
                       temporary, threads, Generation!cache>>
    BY DEF GenerationIInv, Generation!Close
  <1>1. /\ task' \in [Generation!Index -> Places]
        /\ \A i \in Generation!Index : \/ task'[i] = task[i]
                                       \/ task[i] = "queued" /\ task'[i] = "cancelled"
        /\ \A i \in Generation!Index : task'[i] # "queued"
    BY <1>0, CancelsQueued
  <1>2. Generation!TypeOK'
    BY <1>0, <1>1 DEF Generation!TypeOK, Places, Generation!cache
  <1>3. Cache'
    BY <1>0, <1>1, QuietCache DEF GenerationIInv
  <1>4. Mapping' /\ Inputs'
    BY <1>0 DEF GenerationIInv, Mapping, Inputs
  <1>5. Ending'
    <2>1. error = "none" => Complete'
      <3>1. \A i \in Generation!Index : Generation!Output(i)' = Generation!Output(i)
        BY <1>0 DEF Generation!Output, Generation!cache
      <3> QED
        BY <1>0, <1>1, <3>1 DEF GenerationIInv, Ending, Complete
    <2>2. error = "process" => blamed \in Generation!Index /\ task'[blamed] = "failed"
      BY <1>1 DEF GenerationIInv, Ending
    <2> QED
      BY <1>0, <1>1, <2>1, <2>2 DEF GenerationIInv, Ending
  <1> QED
    BY <1>2, <1>3, <1>4, <1>5 DEF GenerationIInv

\* The other steps of the caller change only where it is.
LEMMA LeavingStep ==
  ASSUME GenerationAssumptions, GenerationIInv, Generation!Failed \/ Generation!Join \/ Generation!Write
  PROVE  GenerationIInv'
  <1>0. /\ Generation!TypeOK
        /\ UNCHANGED <<workers, phase, next, inputs, active, ordered, error, blamed,
                       task, threads, Generation!cache>>
    BY DEF GenerationIInv, Generation!Failed, Generation!Join, Generation!Write
  <1>1. \/ main = "failing" /\ main' = "closing" /\ temporary' = temporary
        \/ /\ main = "joining" /\ Generation!Busy = {} /\ error = "none" /\ main' = "writing"
           /\ temporary' = temporary
        \/ /\ main = "joining" /\ Generation!Busy = {} /\ error # "none" /\ main' = "raised"
           /\ temporary' = FALSE
        \/ main = "writing" /\ main' = "returned" /\ temporary' = FALSE
    BY DEF Generation!Failed, Generation!Join, Generation!Leave, Generation!Write
  <1>2. Generation!TypeOK' /\ Cache'
    BY <1>0, <1>1, QuietCache DEF GenerationIInv, Generation!TypeOK, Generation!cache
  <1>3. Mapping' /\ Inputs'
    BY <1>0, <1>1 DEF GenerationIInv, Mapping, Inputs
  <1>4. Generation!Busy' = Generation!Busy /\ (Complete => Complete')
    BY <1>0
      DEF Generation!Busy, Generation!At, Complete, Generation!Output,
          Generation!cache
  <1>5. Ending'
    BY <1>0, <1>1, <1>4 DEF GenerationIInv, Ending
  <1> QED
    BY <1>2, <1>3, <1>5 DEF GenerationIInv

----------------------------------------------------------------------------
\* Every step keeps the inductive invariant.
LEMMA GenerationNext ==
  ASSUME GenerationAssumptions, GenerationIInv, [Generation!Next]_Generation!vars
  PROVE  GenerationIInv'
  <1>1. CASE Generation!CallerStep
    BY <1>1, SubmitStep, ResultsStep, FailuresStep, NextPhaseStep, CloseStep,
       LeavingStep DEF Generation!CallerStep, Generation!Collect
  <1>2. CASE Generation!SubmitFails \/ Generation!Interrupt
    BY <1>2, SubmitFailsStep, InterruptStep
  <1>3. ASSUME NEW i \in Generation!Index, Generation!TaskStep(i) PROVE GenerationIInv'
    BY <1>3, TaskCache, TaskRest DEF GenerationIInv
  <1>4. CASE UNCHANGED Generation!vars
    <2>1. Cache'
      BY <1>4, QuietCache
        DEF GenerationIInv, Generation!vars, Generation!caller, Generation!cache
    <2> QED
      BY <1>4, <2>1
        DEF Generation!vars, Generation!caller, Generation!cache, GenerationIInv,
            Generation!TypeOK, Mapping, Mapped, Ending, Complete, Generation!Output,
            Inputs, Generation!Busy, Generation!At
  <1> QED
    BY <1>1, <1>2, <1>3, <1>4 DEF Generation!Next

\* What is written holds the result of each process in its place.
LEMMA OutputsAreInOrder == ASSUME GenerationIInv PROVE Generation!OutputsInOrder
  <1> SUFFICES ASSUME main \in {"writing", "returned"}, NEW i \in Generation!Index
               PROVE  IF Phases \in Cached
                      THEN Class[ordered[i]] = Class[i] /\ future[ordered[i]] = "done"
                      ELSE ordered[i] = i
    BY DEF Generation!OutputsInOrder
  <1>1. phase = Phases /\ task[i] = "done" /\ ordered[i] = Generation!Output(i)
    BY DEF GenerationIInv, Ending, Complete
  <1>2. Sharing(i) /\ inputs[i] = i
    BY DEF GenerationIInv, Cache, Inputs
  <1> QED
    BY <1>1, <1>2 DEF Generation!Output, Sharing

\* A generation with a failed operation writes nothing, and the process it
\* names is one that failed.
LEMMA FailuresAreNamed == ASSUME GenerationIInv PROVE Generation!FailuresAreRaised
  BY DEF GenerationIInv, Ending, Complete, Generation!FailuresAreRaised, Generation!At

----------------------------------------------------------------------------
(* The compiler behind its gate                                            *)

GuardedPlaces == Interruptible \subseteq {"polling", "starting", "waiting"}

\* Where a call holds a slot for the compiler it runs; it publishes without.
Guarding == {"starting", "launched", "waiting"} \cup Gate!Stopping

Holding(p) ==
    /\ callPc[p] \in Guarding => \E s \in Gate!Slot : holder[s] = p
    /\ callPc[p] = "publishing" => \A s \in Gate!Slot : holder[s] # p

\* Where a compiler may live, and what a call without one has left.
Tidy(p) ==
    /\ callPc[p] \in {"idle", "polling", "starting"} =>
             /\ alive[p] = {} /\ driverCode[p] = "none" /\ callOutcome[p] = "none"
             /\ unpublished[p] = "none" /\ library[p] = "none"
    /\ callPc[p] \in {"launched", "waiting"} => callOutcome[p] = "none" /\ library[p] = "none"
    /\ callPc[p] \in Gate!Stopping => callOutcome[p] = "failed" /\ library[p] = "none"
    /\ callPc[p] = "releasing" => callOutcome[p] # "none" /\ library[p] = "none"
    /\ callPc[p] = "publishing" => callOutcome[p] \in Gate!Returned /\ library[p] = "none"
    /\ callOutcome[p] \in Gate!Returned => alive[p] = {}
    /\ callPc[p] \in {"releasing", "ended"} /\ callOutcome[p] \notin Gate!Returned \cup {"left"} =>
             alive[p] = {} /\ unpublished[p] = "none"
    /\ callPc[p] = "ended" /\ callOutcome[p] \in Gate!Returned => unpublished[p] = "none"

\* A compiler that succeeded has ended and has written its library.
Success(p) ==
    /\ driverCode[p] = "zero" => alive[p] = {}
    /\ driverCode[p] = "zero" /\ callPc[p] \in {"launched", "waiting"} => unpublished[p] = "complete"
    /\ callOutcome[p] = "compiled" => driverCode[p] = "zero"
    /\ callOutcome[p] = "compiled" /\ callPc[p] \in {"releasing", "publishing"} =>
         unpublished[p] = "complete"
    /\ library[p] # "none" => library[p] = "complete" /\ driverCode[p] = "zero"

CallInv(p) == Holding(p) /\ Tidy(p) /\ Success(p)

\* The inductive invariant.
GateIInv == Gate!TypeOK /\ \A p \in Caller : CallInv(p)

GateAssumptions == Gate!GateAssumption /\ GuardedPlaces

----------------------------------------------------------------------------
\* The initial state satisfies the inductive invariant.
LEMMA GateInit == ASSUME GateAssumptions, Gate!Init PROVE GateIInv
  <1>1. Gate!TypeOK
    BY DEF GateAssumptions, Gate!GateAssumption, Gate!Init, Gate!TypeOK, Gate!Places,
           Gate!Slot
  <1>2. ASSUME NEW p \in Caller PROVE CallInv(p)
    BY DEF Gate!Init, CallInv, Holding, Tidy, Success, Guarding, Gate!Stopping,
           Gate!Returned
  <1> QED
    BY <1>1, <1>2 DEF GateIInv

\* A step of the call or the compiler of p leaves those of the others alone,
\* and takes no slot from them.
OnlyOf(p) ==
    /\ \A q \in Caller \ {p} :
         /\ callPc'[q] = callPc[q] /\ callOutcome'[q] = callOutcome[q] /\ alive'[q] = alive[q]
         /\ driverCode'[q] = driverCode[q] /\ unpublished'[q] = unpublished[q]
         /\ library'[q] = library[q]
    /\ \A s \in Gate!Slot :
         {holder[s], holder'[s]} \cap (Caller \ {p}) # {} => holder'[s] = holder[s]

\* So what is said of another call stays true.
LEMMA OthersStay ==
  ASSUME NEW p \in Caller, NEW q \in Caller, q # p, OnlyOf(p), CallInv(q)
  PROVE  CallInv(q)'
  <1>1. Holding(q)'
    BY DEF OnlyOf, CallInv, Holding
  <1>2. Tidy(q)' /\ Success(q)'
    BY DEF OnlyOf, CallInv, Tidy, Success
  <1> QED
    BY <1>1, <1>2 DEF CallInv

\* Every action of p keeps the types, what is said of p, and the others.
Keeps(p) == Gate!TypeOK' /\ CallInv(p)' /\ OnlyOf(p)

\* Waiting for a slot, taking it and releasing it.
LEMMA GateSteps ==
  ASSUME GateAssumptions, GateIInv, NEW p \in Caller,
         Gate!Enter(p) \/ Gate!Take(p) \/ Gate!Blocked(p) \/ Gate!Sleep(p) \/ Gate!Release(p)
  PROVE  Keeps(p)
  <1> USE DEF GateAssumptions, Gate!GateAssumption, GateIInv, Gate!gate,
           Gate!compiler, Gate!files, Gate!bounds, Gate!Goto, Gate!EndAs
  <1>0. /\ Gate!TypeOK /\ CallInv(p) /\ Free \notin Caller /\ Slots \in Nat \ {0}
    OBVIOUS
  <1>1. CASE Gate!Enter(p)
    <2>1. Gate!TypeOK' /\ OnlyOf(p)
      BY <1>0, <1>1 DEF Gate!Enter, Gate!TypeOK, OnlyOf, Gate!Places
    <2>2. CallInv(p)'
      BY <1>0, <1>1
        DEF Gate!Enter, Gate!TypeOK, CallInv, Holding, Tidy, Success, Guarding,
            Gate!Stopping, Gate!Returned
    <2> QED
      BY <2>1, <2>2 DEF Keeps
  <1>2. CASE Gate!Take(p)
    <2>1. Gate!TypeOK' /\ OnlyOf(p)
      BY <1>0, <1>2 DEF Gate!Take, Gate!TypeOK, OnlyOf, Gate!Places
    <2>2. CallInv(p)'
      BY <1>0, <1>2
        DEF Gate!Take, Gate!TypeOK, CallInv, Holding, Tidy, Success, Guarding,
            Gate!Stopping, Gate!Returned
    <2> QED
      BY <2>1, <2>2 DEF Keeps
  <1>3. CASE Gate!Blocked(p) \/ Gate!Sleep(p)
    <2>1. index[p] \in Gate!Slot => index[p] + 1 \in 1..(Slots + 1)
      BY <1>0 DEF Gate!Slot
    <2>2. 1 \in 1..(Slots + 1)
      BY <1>0
    <2>3. index' \in [Caller -> 1..(Slots + 1)]
      BY <1>0, <1>3, <2>1, <2>2 DEF Gate!Blocked, Gate!Sleep, Gate!TypeOK
    <2>4. Gate!TypeOK' /\ OnlyOf(p)
      BY <1>0, <1>3, <2>3 DEF Gate!Blocked, Gate!Sleep, Gate!TypeOK, OnlyOf
    <2>5. CallInv(p)'
      BY <1>0, <1>3 DEF Gate!Blocked, Gate!Sleep, CallInv, Holding, Tidy, Success
    <2> QED
      BY <2>4, <2>5 DEF Keeps
  <1>4. CASE Gate!Release(p)
    <2>1. Gate!TypeOK' /\ OnlyOf(p)
      BY <1>0, <1>4 DEF Gate!Release, Gate!Without, Gate!TypeOK, OnlyOf, Gate!Places
    <2>2. CallInv(p)'
      <3>1. \A s \in Gate!Slot : holder'[s] # p
        BY <1>0, <1>4 DEF Gate!Release, Gate!Without
      <3>2. Holding(p)'
        BY <1>0, <1>4, <3>1
          DEF Gate!Release, Gate!TypeOK, Holding, Guarding, Gate!Stopping
      <3>3. Tidy(p)' /\ Success(p)'
        BY <1>0, <1>4
          DEF Gate!Release, Gate!TypeOK, CallInv, Tidy, Success, Gate!Stopping,
              Gate!Returned
      <3> QED
        BY <3>2, <3>3 DEF CallInv
    <2> QED
      BY <2>1, <2>2 DEF Keeps
  <1> QED
    BY <1>1, <1>2, <1>3, <1>4

\* The compiler starts its tool, ends, or obeys a signal.
LEMMA CompilerSteps ==
  ASSUME GateAssumptions, GateIInv, NEW p \in Caller, Gate!CompilerStep(p)
  PROVE  Keeps(p)
  <1> USE DEF GateIInv, Gate!gate, Gate!files, Gate!bounds
  <1>0. Gate!TypeOK /\ CallInv(p)
    OBVIOUS
  <1>1. CASE Gate!StartTool(p)
    <2>1. Gate!TypeOK' /\ OnlyOf(p)
      BY <1>0, <1>1 DEF Gate!StartTool, Gate!TypeOK, OnlyOf
    <2>2. CallInv(p)'
      BY <1>0, <1>1
        DEF Gate!StartTool, Gate!TypeOK, CallInv, Holding, Tidy, Success, Guarding,
            Gate!Stopping, Gate!Returned
    <2> QED
      BY <2>1, <2>2 DEF Keeps
  <1>2. CASE Gate!EndTool(p)
    <2>1. Gate!TypeOK' /\ OnlyOf(p)
      BY <1>0, <1>2 DEF Gate!EndTool, Gate!TypeOK, OnlyOf
    <2>2. CallInv(p)'
      BY <1>0, <1>2
        DEF Gate!EndTool, Gate!TypeOK, CallInv, Holding, Tidy, Success, Guarding,
            Gate!Stopping, Gate!Returned
    <2> QED
      BY <2>1, <2>2 DEF Keeps
  <1>3. CASE Gate!EndDriver(p)
    <2>1. Gate!TypeOK' /\ OnlyOf(p)
      BY <1>0, <1>3 DEF Gate!EndDriver, Gate!TypeOK, OnlyOf
    <2>2. CallInv(p)'
      BY <1>0, <1>3
        DEF Gate!EndDriver, Gate!TypeOK, CallInv, Holding, Tidy, Success, Guarding,
            Gate!Stopping, Gate!Returned
    <2> QED
      BY <2>1, <2>2 DEF Keeps
  <1>4. ASSUME NEW m \in alive[p], Gate!Obey(p, m)
        PROVE  Keeps(p)
    <2>1. Gate!TypeOK' /\ OnlyOf(p)
      BY <1>0, <1>4 DEF Gate!Obey, Gate!TypeOK, OnlyOf
    <2>2. CallInv(p)'
      BY <1>0, <1>4
        DEF Gate!Obey, Gate!TypeOK, CallInv, Holding, Tidy, Success, Guarding,
            Gate!Stopping, Gate!Returned
    <2> QED
      BY <2>1, <2>2 DEF Keeps
  <1> QED
    BY <1>1, <1>2, <1>3, <1>4 DEF Gate!CompilerStep

\* The call launches the compiler and communicates with it.
LEMMA RunSteps ==
  ASSUME GateAssumptions, GateIInv, NEW p \in Caller,
         Gate!Launch(p) \/ Gate!Communicate(p) \/ Gate!Finish(p) \/ Gate!Timeout(p)
  PROVE  Keeps(p)
  <1> USE DEF GateIInv, Gate!gate, Gate!compiler, Gate!files, Gate!bounds, Gate!Goto,
           Gate!EndAs
  <1>0. Gate!TypeOK /\ CallInv(p)
    OBVIOUS
  <1>1. CASE Gate!Launch(p)
    <2>1. Gate!TypeOK' /\ OnlyOf(p)
      BY <1>0, <1>1 DEF Gate!Launch, Gate!TypeOK, OnlyOf, Gate!Places
    <2>2. CallInv(p)'
      BY <1>0, <1>1
        DEF Gate!Launch, Gate!TypeOK, CallInv, Holding, Tidy, Success, Guarding,
            Gate!Stopping, Gate!Returned
    <2> QED
      BY <2>1, <2>2 DEF Keeps
  <1>2. CASE Gate!Communicate(p)
    <2>1. Gate!TypeOK' /\ OnlyOf(p)
      BY <1>0, <1>2 DEF Gate!Communicate, Gate!TypeOK, OnlyOf, Gate!Places
    <2>2. CallInv(p)'
      BY <1>0, <1>2
        DEF Gate!Communicate, Gate!TypeOK, CallInv, Holding, Tidy, Success, Guarding,
            Gate!Stopping, Gate!Returned
    <2> QED
      BY <2>1, <2>2 DEF Keeps
  <1>3. CASE Gate!Finish(p)
    <2>1. Gate!TypeOK' /\ OnlyOf(p)
      BY <1>0, <1>3 DEF Gate!Finish, Gate!TypeOK, OnlyOf, Gate!Places
    <2>2. CallInv(p)'
      BY <1>0, <1>3
        DEF Gate!Finish, Gate!TypeOK, CallInv, Holding, Tidy, Success, Guarding,
            Gate!Stopping, Gate!Returned
    <2> QED
      BY <2>1, <2>2 DEF Keeps
  <1>4. CASE Gate!Timeout(p)
    <2>1. Gate!TypeOK' /\ OnlyOf(p)
      BY <1>0, <1>4 DEF Gate!Timeout, Gate!TypeOK, OnlyOf, Gate!Places
    <2>2. CallInv(p)'
      BY <1>0, <1>4
        DEF Gate!Timeout, Gate!TypeOK, CallInv, Holding, Tidy, Success, Guarding,
            Gate!Stopping, Gate!Returned
    <2> QED
      BY <2>1, <2>2 DEF Keeps
  <1> QED
    BY <1>1, <1>2, <1>3, <1>4

\* The call terminates the compiler and cleans up after it.
LEMMA StopSteps ==
  ASSUME GateAssumptions, GateIInv, NEW p \in Caller,
         \/ Gate!Terminate(p) \/ Gate!GraceEnds(p) \/ Gate!KillGroup(p)
         \/ Gate!Reap(p) \/ Gate!GiveUp(p)
  PROVE  Keeps(p)
  <1> USE DEF GateIInv, Gate!gate, Gate!compiler, Gate!files, Gate!bounds, Gate!Goto,
           Gate!EndAs, Gate!Unlink
  <1>0. Gate!TypeOK /\ CallInv(p)
    OBVIOUS
  <1>1. CASE Gate!Terminate(p) \/ Gate!GraceEnds(p) \/ Gate!KillGroup(p)
    <2>1. Gate!TypeOK' /\ OnlyOf(p)
      BY <1>0, <1>1
        DEF Gate!Terminate, Gate!GraceEnds, Gate!KillGroup, Gate!TypeOK, OnlyOf,
            Gate!Places
    <2>2. CallInv(p)'
      BY <1>0, <1>1
        DEF Gate!Terminate, Gate!GraceEnds, Gate!KillGroup, Gate!TypeOK, CallInv,
            Holding, Tidy, Success, Guarding, Gate!Stopping, Gate!Returned
    <2> QED
      BY <2>1, <2>2 DEF Keeps
  <1>2. CASE Gate!Reap(p) \/ Gate!GiveUp(p)
    <2>1. Gate!TypeOK' /\ OnlyOf(p)
      BY <1>0, <1>2 DEF Gate!Reap, Gate!GiveUp, Gate!TypeOK, OnlyOf, Gate!Places
    <2>2. CallInv(p)'
      BY <1>0, <1>2
        DEF Gate!Reap, Gate!GiveUp, Gate!TypeOK, CallInv, Holding, Tidy, Success,
            Guarding, Gate!Stopping, Gate!Returned
    <2> QED
      BY <2>1, <2>2 DEF Keeps
  <1> QED
    BY <1>1, <1>2

\* A guarded interrupt, the publication, and the death of the process.
LEMMA EndSteps ==
  ASSUME GateAssumptions, GateIInv, NEW p \in Caller,
         Gate!Interrupt(p) \/ Gate!Publish(p) \/ Gate!Die(p)
  PROVE  Keeps(p)
  <1> USE DEF GateIInv, Gate!gate, Gate!compiler, Gate!files, Gate!bounds, Gate!Goto,
           Gate!EndAs, Gate!Unlink, GateAssumptions, Gate!GateAssumption
  <1>0. Gate!TypeOK /\ CallInv(p) /\ Free \notin Caller
    OBVIOUS
  <1>1. CASE Gate!Interrupt(p)
    <2>0. callPc[p] \in {"polling", "starting", "waiting"}
      BY <1>1 DEF Gate!Interrupt, GuardedPlaces
    <2>1. Gate!TypeOK' /\ OnlyOf(p)
      BY <1>0, <1>1, <2>0 DEF Gate!Interrupt, Gate!TypeOK, OnlyOf, Gate!Places
    <2>2. CallInv(p)'
      BY <1>0, <1>1, <2>0
        DEF Gate!Interrupt, Gate!TypeOK, CallInv, Holding, Tidy, Success, Guarding,
            Gate!Stopping, Gate!Returned
    <2> QED
      BY <2>1, <2>2 DEF Keeps
  <1>2. CASE Gate!Publish(p)
    <2>1. Gate!TypeOK' /\ OnlyOf(p)
      <3>1. \/ library' = library
            \/ library' = [library EXCEPT ![p] = unpublished[p]]
        BY <1>2 DEF Gate!Publish
      <3>2. /\ library' \in [Caller -> {"none", "partial", "complete"}]
            /\ \A q \in Caller \ {p} : library'[q] = library[q]
        BY <1>0, <3>1 DEF Gate!TypeOK
      <3>3. /\ unpublished' = [unpublished EXCEPT ![p] = "none"]
            /\ callPc' = [callPc EXCEPT ![p] = "ended"] /\ callPc[p] = "publishing"
            /\ UNCHANGED <<holder, index, callOutcome, alive, signal, driverCode, interrupts,
                           deaths>>
        BY <1>2 DEF Gate!Publish
      <3>4. unpublished' \in [Caller -> {"none", "partial", "complete"}]
        BY <1>0, <3>3 DEF Gate!TypeOK
      <3>5. \A s \in Gate!Slot :
              holder[s] # Free => callPc'[holder[s]] \notin {"idle", "polling", "ended"}
        BY <1>0, <3>3 DEF Gate!TypeOK, CallInv, Holding
      <3> QED
        BY <1>0, <3>2, <3>3, <3>4, <3>5 DEF Gate!TypeOK, OnlyOf, Gate!Places
    <2>2. CallInv(p)'
      BY <1>0, <1>2
        DEF Gate!Publish, Gate!TypeOK, CallInv, Holding, Tidy, Success, Guarding,
            Gate!Stopping, Gate!Returned
    <2> QED
      BY <2>1, <2>2 DEF Keeps
  <1>3. CASE Gate!Die(p)
    <2>1. Gate!TypeOK' /\ OnlyOf(p)
      BY <1>0, <1>3 DEF Gate!Die, Gate!Without, Gate!TypeOK, OnlyOf, Gate!Places
    <2>2. CallInv(p)'
      BY <1>0, <1>3
        DEF Gate!Die, Gate!TypeOK, CallInv, Holding, Tidy, Success, Guarding,
            Gate!Stopping, Gate!Returned
    <2> QED
      BY <2>1, <2>2 DEF Keeps
  <1> QED
    BY <1>1, <1>2, <1>3

\* Every step keeps the inductive invariant.
LEMMA GateNext ==
  ASSUME GateAssumptions, GateIInv, [Gate!Next]_Gate!vars
  PROVE  GateIInv'
  <1>1. CASE Gate!Next
    <2>1. PICK p \in Caller :
            Gate!CallStep(p) \/ Gate!CompilerStep(p) \/ Gate!Interrupt(p) \/ Gate!Die(p)
      BY <1>1 DEF Gate!Next
    <2>2. Keeps(p)
      BY <2>1, GateSteps, CompilerSteps, RunSteps, StopSteps, EndSteps
        DEF Gate!CallStep
    <2>3. ASSUME NEW q \in Caller PROVE CallInv(q)'
      BY <2>2, OthersStay DEF Keeps, GateIInv
    <2> QED
      BY <2>2, <2>3 DEF Keeps, GateIInv
  <1>2. CASE UNCHANGED Gate!vars
    BY <1>2
      DEF Gate!vars, Gate!gate, Gate!compiler, Gate!files, Gate!bounds, GateIInv,
          Gate!TypeOK, CallInv, Holding, Tidy, Success
  <1> QED
    BY <1>1, <1>2

\* The gate bounds the compilers of all calls: each that runs has a slot of its
\* own, but for those of killed calls and of failed, reported cleanups.
LEMMA CompilersHaveSlots ==
  ASSUME GateAssumptions, GateIInv PROVE Gate!SlotsBoundCompilers
  <1> DEFINE R == Gate!Running \ Gate!Abandoned
             f == [p \in R |-> CHOOSE s \in Gate!Slot : holder[s] = p]
  <1>1. ASSUME NEW p \in R PROVE f[p] \in Gate!Slot /\ holder[f[p]] = p
    <2>1. callPc[p] \in Guarding
      <3>1. p \in Caller /\ callPc[p] \in Gate!Places /\ Tidy(p) /\ callPc[p] # "dead"
            /\ callOutcome[p] # "left" /\ alive[p] # {}
        BY DEF Gate!Running, Gate!Abandoned, GateIInv, CallInv, Gate!TypeOK
      <3> QED
        BY <3>1 DEF Tidy, Guarding, Gate!Stopping, Gate!Places
    <2>2. \E s \in Gate!Slot : holder[s] = p
      BY <2>1 DEF GateIInv, CallInv, Holding, Gate!Running
    <2> QED
      BY <2>2
  <1>2. f \in Injection(R, Gate!Slot)
    <2>1. f \in [R -> Gate!Slot]
      BY <1>1
    <2>2. \A p, q \in R : f[p] = f[q] => p = q
      BY <1>1
    <2> QED
      BY <2>1, <2>2, Fun_IsInj
  <1>3. IsFiniteSet(Gate!Slot) /\ Cardinality(Gate!Slot) = Slots
    BY FS_Interval DEF Gate!Slot, GateAssumptions, Gate!GateAssumption
  <1> HIDE DEF f, R
  <1>4. Cardinality(R) <= Slots
    BY <1>2, <1>3, FS_Injection
  <1>5. Gate!Cardinality(R) = Cardinality(R)
    BY DEF Gate!Cardinality, Cardinality
  <1> QED
    BY <1>4, <1>5 DEF Gate!SlotsBoundCompilers, R

\* A call that ended has removed its temporary library.
LEMMA NothingIsLeft == ASSUME GateIInv PROVE Gate!NothingLeft
  BY DEF GateIInv, CallInv, Tidy, Gate!NothingLeft, Gate!Returned

----------------------------------------------------------------------------
(* The supervisor of a worker                                             *)

Born == \A p \in known \cup members \cup captured : status[p] # "none"
Captures ==
    /\ Born /\ root \in captured
    /\ pc # "capturing" => members \cap Worker!Alive \subseteq captured
WorkerEnding ==
    /\ pc \in {"boundary", "finally", "done"} => Worker!Ended
    /\ pc = "boundary" => zero # "none"
    /\ Worker!KnownTreeEnds
Closing ==
    /\ phaseState # "none" => file # "none"
    /\ crossed => excess
    /\ Worker!CompletedIsClean
Retrying ==
    /\ failures = 3 => pc \in Worker!Teardown \cup {"boundary", "finally", "done"}
    /\ pc \in {"phase", "last"} => failures = 0
    /\ blind = "waiting" =>
         /\ Worker!Ended
         /\ \/ pc \in {"top", "cancel", "judging"} /\ failures > 0
            \/ pc = "boundary" /\ zero \in {"cancelled", "memory_probe_error"}
            \/ reason \notin {"none", "completed"}
WorkerIInv == Worker!TypeOK /\ Captures /\ WorkerEnding /\ Closing /\ Retrying

Foreign == {p \in Worker!Pid : status[p] = "foreign"}
Strangers ==
    /\ stranger \notin known \cup members \cup captured
    /\ status[stranger] \in {"none", "foreign"}
    /\ Foreign \cap (known \cup {root}) = {}
    /\ \A p \in Foreign : parent[p] \in Foreign \cup {Init0}
    /\ pc \in {"sigterm", "sigkill"} => aim.out \cap Foreign = {}
    /\ Worker!StrangersUntouched

LEMMA SupervisorInit ==
  ASSUME Worker!SupervisorAssumption, Worker!Init
  PROVE  WorkerIInv
<1>1. Worker!TypeOK
  <2>1. status \in [Worker!Pid -> {"none", "alive", "gone", "foreign"}]
    BY DEF Worker!Init
  <2>2. parent \in [Worker!Pid -> Worker!Pid \cup {Init0}]
    BY DEF Worker!Init
  <2>3. Worker!Alive = {root}
    BY DEF Worker!Init, Worker!Alive, Worker!Process, Worker!Pid
  <2>4. {excess, cancelled, recorded, failing, phaseError, requested, crossed, touched,
         disturbed} \subseteq BOOLEAN
    BY Zenon DEF Worker!Init
  <2>5. aim \in [group : BOOLEAN, out : SUBSET Worker!Pid]
    BY DEF Worker!Init, Worker!NoAim
  <2> QED
    BY <2>1, <2>2, <2>3, <2>4, <2>5
      DEF Worker!Init, Worker!TypeOK, Worker!Ended, Worker!Teardown, Worker!Process,
          Worker!Pid
<1>2. Captures
  BY DEF Worker!SupervisorAssumption, Worker!Init, Captures, Born, Worker!Alive,
         Worker!Process, Worker!Pid
<1> QED
  BY <1>1, <1>2
    DEF Worker!Init, WorkerIInv, WorkerEnding, Worker!KnownTreeEnds, Closing,
        Worker!CompletedIsClean, Retrying, Worker!Teardown

LEMMA StrangersInit == ASSUME Worker!SupervisorAssumption, Worker!Init PROVE Strangers
  BY DEF Worker!SupervisorAssumption, Worker!Init, Strangers,
         Worker!StrangersUntouched, Foreign, Worker!Process, Worker!Pid

LEMMA SelectedIsPresent == Worker!Selected \subseteq Worker!Present /\ Worker!Present \subseteq Worker!Pid
  BY DEF Worker!Selected, Worker!Present

\* What the end of some processes leaves.
LEMMA EndsTypes ==
    ASSUME Worker!SupervisorAssumption, Worker!TypeOK, NEW Q \in SUBSET Worker!Alive, Worker!Ends(Q)
    PROVE  /\ status' \in [Worker!Pid -> {"none", "alive", "gone", "foreign"}]
           /\ parent' \in [Worker!Pid -> Worker!Pid \cup {Init0}]
           /\ doomed' \subseteq Worker!Alive' /\ grouped' \subseteq Worker!Alive'
           /\ code' \in {"none", "zero", "failed"} /\ (Worker!Ended <=> root \notin Worker!Alive)'
           /\ crossed' \in BOOLEAN \/ crossed' = excess
           /\ blind' \in {"no", "waiting", "sampling"}
<1>1. status' \in [Worker!Pid -> {"none", "alive", "gone", "foreign"}]
  BY DEF Worker!TypeOK, Worker!Ends
<1>2. Worker!Alive' = Worker!Alive \ Q
  BY <1>1 DEF Worker!TypeOK, Worker!Ends, Worker!Alive, Worker!Process, Worker!Pid
<1>3. parent' \in [Worker!Pid -> Worker!Pid \cup {Init0}]
  BY DEF Worker!TypeOK, Worker!Ends
<1>4. doomed' \subseteq Worker!Alive' /\ grouped' \subseteq Worker!Alive'
  BY <1>2 DEF Worker!TypeOK, Worker!Ends
<1>5. code' \in {"none", "zero", "failed"} /\ (Worker!Ended <=> root \notin Worker!Alive)'
  <2>1. CASE root \in Q
    BY <1>2, <2>1 DEF Worker!TypeOK, Worker!Ends, Worker!Ended
  <2>2. CASE root \notin Q
    BY <1>2, <2>2 DEF Worker!TypeOK, Worker!Ends, Worker!Ended
  <2> QED
    BY <2>1, <2>2
<1>6. crossed' \in BOOLEAN \/ crossed' = excess
  BY Zenon DEF Worker!TypeOK, Worker!Ends
<1>7. blind' \in {"no", "waiting", "sampling"}
  BY DEF Worker!TypeOK, Worker!Ends
<1> QED
  BY <1>1, <1>3, <1>4, <1>5, <1>6, <1>7

LEMMA WorldTypes ==
    ASSUME Worker!SupervisorAssumption, WorkerIInv, Worker!World PROVE Worker!TypeOK'
<1> USE DEF WorkerIInv
<1>1. ASSUME NEW p \in Worker!Process, Worker!Exit(p) PROVE Worker!TypeOK'
  <2>1. Worker!Ends({p}) /\ {p} \in SUBSET Worker!Alive
    BY <1>1 DEF Worker!Exit
  <2> QED
    BY <1>1, <2>1, EndsTypes
      DEF Worker!Exit, Worker!Aside, Worker!monitor, Worker!verdict, Worker!TypeOK
<1>2. ASSUME NEW q \in Worker!Process, Worker!LeaveGroup(q) PROVE Worker!TypeOK'
  <2>1. Worker!Alive' = Worker!Alive /\ (Worker!Ended' <=> Worker!Ended)
    BY <1>2 DEF Worker!LeaveGroup, Worker!Alive, Worker!Ended
  <2>2. disturbed' \in BOOLEAN
    BY <1>2 DEF Worker!LeaveGroup, Worker!Disturb, Worker!TypeOK
  <2> QED
    BY <1>2, <2>1, <2>2
      DEF Worker!LeaveGroup, Worker!Aside, Worker!monitor, Worker!verdict,
          Worker!TypeOK
<1>3. ASSUME NEW p \in Worker!Process, Worker!Reuse(p) PROVE Worker!TypeOK'
  <2>1. status' \in [Worker!Pid -> {"none", "alive", "gone", "foreign"}] /\ Worker!Alive' = Worker!Alive
    BY <1>3
      DEF Worker!Reuse, Worker!TypeOK, Worker!Alive, Worker!Pid, Worker!Process,
          Worker!SupervisorAssumption
  <2>2. parent' \in [Worker!Pid -> Worker!Pid \cup {Init0}]
    BY <1>3 DEF Worker!Reuse, Worker!TypeOK, Worker!Pid
  <2> QED
    BY <1>3, <2>1, <2>2
      DEF Worker!Reuse, Worker!Aside, Worker!monitor, Worker!verdict, Worker!TypeOK,
          Worker!Ended
<1>4. ASSUME NEW p \in Worker!Process, NEW q \in Worker!Process, Worker!Fork(p, q) PROVE Worker!TypeOK'
  <2>1. /\ status' \in [Worker!Pid -> {"none", "alive", "gone", "foreign"}]
        /\ Worker!Alive' = Worker!Alive \cup {q}
    BY <1>4 DEF Worker!Fork, Worker!TypeOK, Worker!Alive, Worker!Running, Worker!Pid
  <2>2. parent' \in [Worker!Pid -> Worker!Pid \cup {Init0}]
    BY <1>4 DEF Worker!Fork, Worker!TypeOK, Worker!Pid
  <2>3. grouped' \subseteq Worker!Alive' /\ doomed' \subseteq Worker!Alive' /\ (Worker!Ended <=> root \notin Worker!Alive)'
    BY <1>4, <2>1 DEF Worker!Fork, Worker!TypeOK, Worker!Ended
  <2>4. disturbed' \in BOOLEAN
    BY <1>4 DEF Worker!Fork, Worker!Disturb, Worker!TypeOK
  <2> QED
    BY <1>4, <2>1, <2>2, <2>3, <2>4
      DEF Worker!Fork, Worker!Aside, Worker!monitor, Worker!verdict, Worker!TypeOK
<1>5. ASSUME Worker!Publish \/ Worker!Write \/ Worker!Cancel \/ Worker!Record PROVE Worker!TypeOK'
  <2>1. Worker!Alive' = Worker!Alive /\ Worker!Ended' = Worker!Ended
    BY <1>5
      DEF Worker!Publish, Worker!Write, Worker!Cancel, Worker!Record, Worker!tree,
          Worker!Alive, Worker!Ended
  <2>2. CASE Worker!Publish
    BY <2>1, <2>2
      DEF Worker!Publish, Worker!Aside, Worker!monitor, Worker!verdict, Worker!TypeOK
  <2>3. CASE Worker!Write
    BY <2>1, <2>3
      DEF Worker!Write, Worker!tree, Worker!ghosts, Worker!monitor, Worker!verdict,
          Worker!TypeOK
  <2>4. CASE Worker!Cancel
    BY <2>1, <2>4
      DEF Worker!Cancel, Worker!tree, Worker!ghosts, Worker!monitor, Worker!verdict,
          Worker!TypeOK
  <2>5. CASE Worker!Record
    BY <2>1, <2>5
      DEF Worker!Record, Worker!tree, Worker!ghosts, Worker!monitor, Worker!verdict,
          Worker!TypeOK
  <2> QED
    BY <1>5, <2>2, <2>3, <2>4, <2>5
<1> QED
  BY <1>1, <1>2, <1>3, <1>4, <1>5 DEF Worker!World

LEMMA AimTypes ==
  ASSUME NEW S \in SUBSET Worker!Pid
  PROVE  Worker!AimAt(S) \in [group : BOOLEAN, out : SUBSET Worker!Pid]
<1>1. (~Worker!Ended \/ S \cap grouped # {}) \in BOOLEAN /\ S \ grouped \in SUBSET Worker!Pid
  OBVIOUS
<1> QED
  BY <1>1 DEF Worker!AimAt

LEMMA SurvivorsAreCaptured ==
    ASSUME NEW S \in SUBSET Worker!Pid PROVE Worker!Survivors(S) \in SUBSET Worker!Pid /\ Worker!Survivors(S) \subseteq S
  BY DEF Worker!Survivors

LEMMA TerminateTypes ==
    ASSUME Worker!TypeOK, NEW why, why # "none", Worker!Terminate(why)
    PROVE  /\ aim' \in [group : BOOLEAN, out : SUBSET Worker!Pid] /\ requested' \in BOOLEAN
           /\ reason' # "none" /\ pc' \in Worker!Teardown \cup {"done"}
<1>1. captured \in SUBSET Worker!Pid
  BY DEF Worker!TypeOK
<1>2. Worker!AimAt(Worker!Survivors(captured)) \in [group : BOOLEAN, out : SUBSET Worker!Pid]
  BY <1>1, AimTypes, SurvivorsAreCaptured
<1> QED
  BY <1>2 DEF Worker!Terminate, Worker!Goto, Worker!TypeOK, Worker!Teardown

LEMMA ClassifyTypes ==
    ASSUME Worker!TypeOK, Worker!Classify, zero # "none" \/ code = "failed"
    PROVE  /\ phaseState' \in {"none", "generation", "closed"} /\ phaseError' \in BOOLEAN
           /\ reason' # "none"
  BY DEF Worker!Classify, Worker!Observe, Worker!TypeOK

LEMMA SampledTypes ==
    ASSUME Worker!TypeOK, Worker!Sampled
    PROVE  known' \in SUBSET Worker!Pid /\ members' \in SUBSET Worker!Pid /\ failing' \in BOOLEAN
  BY SelectedIsPresent DEF Worker!Sampled, Worker!TypeOK

LEMMA RefreshTypes ==
    ASSUME Worker!TypeOK, NEW to \in Worker!Teardown, Worker!Refresh(to), pc \in Worker!Teardown
    PROVE  /\ known' \cup members' \cup captured' \subseteq Worker!Pid /\ failing' \in BOOLEAN
           /\ aim' \in [group : BOOLEAN, out : SUBSET Worker!Pid]
           /\ pc' \in Worker!Teardown \cup {"done"}
           /\ UNCHANGED <<Worker!tree, excess, cancelled, recorded, Worker!verdict, touched>>
<1>1. CASE requested /\ Worker!Ended /\ Worker!Survivors(captured) = {}
  BY <1>1 DEF Worker!Refresh, Worker!monitor, Worker!TypeOK, Worker!Goto
<1>2. CASE ~(requested /\ Worker!Ended /\ Worker!Survivors(captured) = {})
  <2>1. Worker!Sampled /\ captured' = captured \cup (members' \cap Worker!Present)
    BY <1>2 DEF Worker!Refresh
  <2>2. captured' \in SUBSET Worker!Pid
    BY <2>1, SelectedIsPresent DEF Worker!TypeOK
  <2>3. Worker!AimAt(Worker!Survivors(captured')) \in [group : BOOLEAN, out : SUBSET Worker!Pid]
    BY <2>2, AimTypes, SurvivorsAreCaptured
  <2>4. aim' \in [group : BOOLEAN, out : SUBSET Worker!Pid] /\ pc' \in Worker!Teardown \cup {"done"}
    BY <1>2, <2>3 DEF Worker!Refresh, Worker!Goto, Worker!TypeOK
  <2> QED
    BY <1>2, <2>1, <2>2, <2>4, SampledTypes DEF Worker!Refresh
<1> QED
  BY <1>1, <1>2

LEMMA LoopTypes ==
    ASSUME Worker!SupervisorAssumption, WorkerIInv,
           Worker!Top \/ Worker!CheckCancel \/ Worker!Sample \/ Worker!Capture \/ Worker!Poll \/ Worker!LastPoll
    PROVE  Worker!TypeOK'
<1> USE DEF WorkerIInv
<1>1. Worker!Alive' = Worker!Alive /\ Worker!Ended' = Worker!Ended
  BY DEF Worker!Top, Worker!CheckCancel, Worker!Sample, Worker!Capture, Worker!Poll,
         Worker!LastPoll, Worker!tree, Worker!Alive, Worker!Ended
<1>2. CASE Worker!Top
  <2>1. CASE ~Worker!Violation /\ Worker!Goto("cancel") /\ UNCHANGED <<Worker!verdict, aim>>
    BY <1>1, <1>2, <2>1
      DEF Worker!Top, Worker!tree, Worker!monitor, Worker!verdict, Worker!ghosts,
          Worker!TypeOK, Worker!Goto, Worker!Teardown
  <2>2. CASE Worker!Violation /\ code = "failed" /\ Worker!Classify /\ Worker!Goto("finally")
             /\ UNCHANGED <<failures, zero, requested, aim>>
    BY <1>1, <1>2, <2>2, ClassifyTypes
      DEF Worker!Top, Worker!tree, Worker!monitor, Worker!ghosts, Worker!TypeOK,
          Worker!Goto, Worker!Teardown
  <2>3. CASE Worker!Violation /\ code # "failed" /\ Worker!Terminate("storage")
             /\ UNCHANGED <<failures, phaseState, phaseError, zero>>
    BY <1>1, <1>2, <2>3, TerminateTypes
      DEF Worker!Top, Worker!tree, Worker!monitor, Worker!ghosts, Worker!TypeOK
  <2> QED
    BY <1>2, <2>1, <2>2, <2>3 DEF Worker!Top
<1>3. CASE Worker!CheckCancel
  <2>1. CASE cancelled /\ ~Worker!Ended /\ Worker!Terminate("cancelled")
             /\ UNCHANGED <<failures, phaseState, phaseError, zero>>
    BY <1>1, <1>3, <2>1, TerminateTypes
      DEF Worker!CheckCancel, Worker!tree, Worker!monitor, Worker!ghosts,
          Worker!TypeOK
  <2>2. CASE ~(cancelled /\ ~Worker!Ended /\ Worker!Terminate("cancelled")
             /\ UNCHANGED <<failures, phaseState, phaseError, zero>>)
    BY <1>1, <1>3, <2>2
      DEF Worker!CheckCancel, Worker!tree, Worker!monitor, Worker!verdict,
          Worker!ghosts, Worker!TypeOK, Worker!Boundary, Worker!Goto, Worker!Teardown
  <2> QED
    BY <2>1, <2>2
<1>4. CASE Worker!Sample
  BY <1>1, <1>4, SampledTypes
    DEF Worker!Sample, Worker!tree, Worker!ghosts, Worker!verdict, Worker!TypeOK,
        Worker!Goto, Worker!Teardown
<1>5. CASE Worker!Capture
  BY <1>1, <1>5, SelectedIsPresent
    DEF Worker!Capture, Worker!tree, Worker!verdict, Worker!ghosts, Worker!TypeOK,
        Worker!Goto, Worker!Teardown
<1>6. CASE Worker!Poll \/ Worker!LastPoll
  BY <1>1, <1>6
    DEF Worker!Poll, Worker!LastPoll, Worker!SameVerdict, Worker!tree, Worker!monitor,
        Worker!verdict, Worker!ghosts, Worker!TypeOK, Worker!Boundary, Worker!Goto,
        Worker!Teardown
<1> QED
  BY <1>2, <1>3, <1>4, <1>5, <1>6

LEMMA VerdictTypes ==
    ASSUME Worker!SupervisorAssumption, WorkerIInv,
           Worker!Judge \/ Worker!CheckPhase \/ Worker!ClassifyAtBoundary \/ Worker!Finally
    PROVE  Worker!TypeOK'
<1> USE DEF WorkerIInv
<1>1. Worker!Alive' = Worker!Alive /\ Worker!Ended' = Worker!Ended
  BY DEF Worker!Judge, Worker!CheckPhase, Worker!ClassifyAtBoundary, Worker!Finally,
         Worker!tree, Worker!Alive, Worker!Ended
<1>2. CASE Worker!Judge
  <2>1. failures' \in 0..3
    BY <1>2 DEF Worker!Judge, Worker!TypeOK, Retrying, Worker!Teardown
  <2>2. CASE \E why \in {"memory_probe_error", "memory_limit"} : Worker!Terminate(why)
    BY <1>1, <1>2, <2>1, <2>2, TerminateTypes
      DEF Worker!Judge, Worker!Boundary, Worker!tree, Worker!monitor, Worker!ghosts,
          Worker!TypeOK
  <2>3. CASE ~\E why \in {"memory_probe_error", "memory_limit"} : Worker!Terminate(why)
    BY <1>1, <1>2, <2>1, <2>3
      DEF Worker!Judge, Worker!tree, Worker!monitor, Worker!ghosts, Worker!TypeOK,
          Worker!Boundary, Worker!Goto, Worker!Teardown
  <2> QED
    BY <2>2, <2>3
<1>3. CASE Worker!CheckPhase
  <2>1. phaseState' \in {"none", "generation", "closed"} /\ phaseError' \in BOOLEAN
    BY <1>3 DEF Worker!CheckPhase, Worker!Observe, Worker!TypeOK
  <2>2. CASE \E why \in {"phase_state_error", "stage_timeout", "worker_timeout"} : Worker!Terminate(why)
    BY <1>1, <1>3, <2>1, <2>2, TerminateTypes
      DEF Worker!CheckPhase, Worker!Boundary, Worker!tree, Worker!monitor,
          Worker!ghosts, Worker!TypeOK
  <2>3. CASE ~\E why \in {"phase_state_error", "stage_timeout", "worker_timeout"} : Worker!Terminate(why)
    BY <1>1, <1>3, <2>1, <2>3
      DEF Worker!CheckPhase, Worker!tree, Worker!monitor, Worker!ghosts,
          Worker!TypeOK, Worker!Boundary, Worker!Goto, Worker!Teardown
  <2> QED
    BY <2>2, <2>3
<1>4. CASE Worker!ClassifyAtBoundary
  <2>1. zero # "none"
    BY <1>4 DEF Worker!ClassifyAtBoundary, WorkerEnding
  <2>2. CASE \E why \in {"storage", zero} : Worker!Terminate(why)
    BY <1>1, <1>4, <2>1, <2>2, TerminateTypes
      DEF Worker!ClassifyAtBoundary, Worker!Observe, Worker!Classify, Worker!tree,
          Worker!monitor, Worker!ghosts, Worker!TypeOK
  <2>3. CASE ~\E why \in {"storage", zero} : Worker!Terminate(why)
    BY <1>1, <1>4, <2>1, <2>3, ClassifyTypes
      DEF Worker!ClassifyAtBoundary, Worker!tree, Worker!monitor, Worker!ghosts,
          Worker!TypeOK, Worker!Goto, Worker!Teardown
  <2> QED
    BY <2>2, <2>3
<1>5. CASE Worker!Finally
  <2>1. Worker!AimAt(Worker!Survivors(captured)) \in [group : BOOLEAN, out : SUBSET Worker!Pid]
    BY AimTypes, SurvivorsAreCaptured DEF Worker!TypeOK
  <2> QED
    BY <1>1, <1>5, <2>1
      DEF Worker!Finally, Worker!tree, Worker!monitor, Worker!verdict, Worker!ghosts,
          Worker!TypeOK, Worker!Goto, Worker!Teardown
<1> QED
  BY <1>2, <1>3, <1>4, <1>5

LEMMA TeardownTypes ==
    ASSUME Worker!SupervisorAssumption, WorkerIInv, Worker!SigTerm \/ Worker!Wait \/ Worker!GraceEnds \/ Worker!SigKill
    PROVE  Worker!TypeOK'
<1> USE DEF WorkerIInv
<1>1. CASE Worker!SigTerm
  <2>1. PICK Q \in SUBSET (Worker!Targets \cap Worker!Alive) : Worker!Ends(Q)
    BY <1>1 DEF Worker!SigTerm
  <2>2. touched' \in BOOLEAN
    BY <1>1 DEF Worker!SigTerm, Worker!TypeOK
  <2>3. Q \in SUBSET Worker!Alive
    OBVIOUS
  <2> QED
    BY <1>1, <2>1, <2>2, <2>3, EndsTypes
      DEF Worker!SigTerm, Worker!Goto, Worker!monitor, Worker!verdict, Worker!TypeOK,
          Worker!Teardown
<1>2. CASE Worker!Wait \/ Worker!GraceEnds
  <2>1. PICK to \in Worker!Teardown : Worker!Refresh(to) /\ pc \in Worker!Teardown
    BY <1>2 DEF Worker!Wait, Worker!GraceEnds, Worker!Teardown
  <2>2. Worker!Alive' = Worker!Alive /\ Worker!Ended' = Worker!Ended
    BY <2>1 DEF Worker!Refresh, Worker!tree, Worker!Alive, Worker!Ended
  <2>3. Worker!TypeOK /\ disturbed' \in BOOLEAN
    BY <1>2 DEF Worker!Wait, Worker!GraceEnds, Worker!TypeOK
  <2> QED
    BY <2>1, <2>2, <2>3, RefreshTypes DEF Worker!tree, Worker!verdict, Worker!TypeOK
<1>3. CASE Worker!SigKill
  <2>1. Worker!Alive' = Worker!Alive /\ Worker!Ended' = Worker!Ended
    BY <1>3 DEF Worker!SigKill, Worker!Alive, Worker!Ended
  <2>2. touched' \in BOOLEAN
    BY <1>3 DEF Worker!SigKill, Worker!TypeOK
  <2> QED
    BY <1>3, <2>1, <2>2
      DEF Worker!SigKill, Worker!Goto, Worker!monitor, Worker!verdict, Worker!TypeOK,
          Worker!Teardown
<1> QED
  BY <1>1, <1>2, <1>3

\* The monitor has seen a process before it knows it, and captured it before
\* the supervisor decides anything.
LEMMA CapturesKept ==
  ASSUME Worker!SupervisorAssumption, WorkerIInv, Worker!Next
  PROVE  Captures'
<1> USE DEF WorkerIInv
<1>1. ASSUME NEW p \in Worker!Process, Worker!Exit(p) PROVE Captures'
  <2>1. \A q \in Worker!Pid : status[q] # "none" => status'[q] # "none"
    BY <1>1 DEF Worker!Exit, Worker!Ends
  <2>2. Worker!Alive' \subseteq Worker!Alive
    BY <1>1 DEF Worker!Exit, Worker!Ends, Worker!Alive, Worker!Process, Worker!Pid
  <2> QED
    BY <1>1, <2>1, <2>2
      DEF Worker!Exit, Worker!Aside, Worker!monitor, Captures, Born, Worker!TypeOK
<1>2. ASSUME NEW p \in Worker!Process, NEW q \in Worker!Process, Worker!Fork(p, q) PROVE Captures'
  <2>1. q \notin known \cup members \cup captured
    BY <1>2 DEF Worker!Fork, Captures, Born
  <2>2. \A r \in Worker!Pid : r # q => status'[r] = status[r]
    BY <1>2 DEF Worker!Fork, Worker!TypeOK
  <2>3. Worker!Alive' \subseteq Worker!Alive \cup {q}
    BY <2>2 DEF Worker!Alive, Worker!Process, Worker!Pid
  <2> QED
    BY <1>2, <2>1, <2>2, <2>3
      DEF Worker!Fork, Worker!Aside, Worker!monitor, Captures, Born, Worker!TypeOK
<1>3. ASSUME NEW p \in Worker!Process, Worker!Reuse(p) PROVE Captures'
  <2>1. /\ \A r \in Worker!Pid : status[r] # "none" => status'[r] # "none"
        /\ Worker!Alive' = Worker!Alive
    BY <1>3
      DEF Worker!Reuse, Worker!TypeOK, Worker!Alive, Worker!Pid, Worker!Process,
          Worker!SupervisorAssumption
  <2> QED
    BY <1>3, <2>1
      DEF Worker!Reuse, Worker!Aside, Worker!monitor, Captures, Born, Worker!TypeOK
<1>4. ASSUME NEW q \in Worker!Process, Worker!LeaveGroup(q) PROVE Captures'
  BY <1>4
    DEF Worker!LeaveGroup, Worker!Aside, Worker!monitor, Captures, Born, Worker!Alive
<1>5. CASE Worker!Publish \/ Worker!Write \/ Worker!Cancel \/ Worker!Record
  BY <1>5
    DEF Worker!Publish, Worker!Write, Worker!Cancel, Worker!Record, Worker!tree,
        Worker!Aside, Worker!monitor, Captures, Born, Worker!Alive
<1>6. CASE Worker!Top \/ Worker!CheckCancel \/ Worker!Poll \/ Worker!LastPoll \/ Worker!Judge \/ Worker!CheckPhase
           \/ Worker!ClassifyAtBoundary \/ Worker!Finally \/ Worker!SigKill
  <2>1. UNCHANGED <<status, known, members, captured>> /\ pc # "capturing"
    BY <1>6
      DEF Worker!Top, Worker!CheckCancel, Worker!Poll, Worker!LastPoll, Worker!Judge,
          Worker!CheckPhase, Worker!ClassifyAtBoundary, Worker!Finally,
          Worker!SigKill, Worker!tree, Worker!monitor
  <2> QED
    BY <2>1 DEF Captures, Born, Worker!Alive
<1>7. CASE Worker!Sample
  <2>1. known' \subseteq known \cup Worker!Present /\ members' \subseteq members \cup Worker!Present
    BY <1>7, SelectedIsPresent DEF Worker!Sample, Worker!Sampled
  <2> QED
    BY <1>7, <2>1
      DEF Worker!Sample, Worker!Goto, Worker!tree, Captures, Born, Worker!Present
<1>8. CASE Worker!Capture
  <2>1. members' \cap Worker!Alive' \subseteq captured'
    BY <1>8
      DEF Worker!Capture, Worker!tree, Worker!Alive, Worker!Present, Worker!Process,
          Worker!Pid
  <2> QED
    BY <1>8, <2>1
      DEF Worker!Capture, Worker!Goto, Worker!tree, Captures, Born, Worker!Present
<1>9. CASE Worker!SigTerm
  <2>1. PICK Q \in SUBSET (Worker!Targets \cap Worker!Alive) : Worker!Ends(Q)
    BY <1>9 DEF Worker!SigTerm
  <2>2. \A q \in Worker!Pid : status[q] # "none" => status'[q] # "none"
    BY <2>1 DEF Worker!Ends
  <2>3. Worker!Alive' \subseteq Worker!Alive
    BY <2>1 DEF Worker!Ends, Worker!Alive, Worker!Process, Worker!Pid
  <2> QED
    BY <1>9, <2>2, <2>3
      DEF Worker!SigTerm, Worker!Goto, Worker!monitor, Captures, Born, Worker!TypeOK
<1>10. CASE Worker!Wait \/ Worker!GraceEnds
  <2>1. PICK to : Worker!Refresh(to) /\ pc # "capturing" /\ to # "capturing"
    BY <1>10 DEF Worker!Wait, Worker!GraceEnds
  <2>2. UNCHANGED status /\ Worker!Alive' = Worker!Alive
    BY <2>1 DEF Worker!Refresh, Worker!tree, Worker!Alive
  <2>3. CASE UNCHANGED Worker!monitor
    BY <2>1, <2>2, <2>3 DEF Worker!monitor, Captures, Born
  <2>4. CASE Worker!Sampled /\ captured' = captured \cup (members' \cap Worker!Present)
    <3>1. known' \subseteq known \cup Worker!Present /\ members' \subseteq members \cup Worker!Present
      BY <2>4, SelectedIsPresent DEF Worker!Sampled
    <3>2. members' \cap Worker!Alive \subseteq captured'
      BY <2>4 DEF Worker!Alive, Worker!Present, Worker!Process, Worker!Pid
    <3> QED
      BY <2>2, <2>4, <3>1, <3>2 DEF Captures, Born, Worker!Present
  <2> QED
    BY <2>1, <2>3, <2>4 DEF Worker!Refresh
<1> QED
  BY <1>1, <1>2, <1>3, <1>4, <1>5, <1>6, <1>7, <1>8, <1>9, <1>10
  DEF Worker!Next, Worker!World, Worker!SupervisorStep

\* Nobody of the known tree lives where the supervisor finds no survivor.
LEMMA NoSurvivor ==
    ASSUME Worker!SupervisorAssumption, Worker!TypeOK, NEW S \in SUBSET Worker!Pid, Worker!Ended, Worker!Survivors(S) = {}
    PROVE  Worker!Alive \cap S = {}
<1>1. root \notin Worker!Alive
  BY DEF Worker!TypeOK
<1>2. \A p \in Worker!Alive : p \in Worker!Process /\ p # stranger /\ status[p] = "alive"
  BY DEF Worker!Alive, Worker!SupervisorAssumption
<1> QED
  BY <1>1, <1>2 DEF Worker!Survivors

LEMMA TerminateEnds ==
    ASSUME Worker!SupervisorAssumption, WorkerIInv, NEW why, Worker!Terminate(why), pc # "capturing"
    PROVE  (pc' = "done" /\ Worker!Ended /\ Worker!Alive \cap (captured \cup members) = {}) \/ pc' = "sigterm"
<1>1. CASE Worker!Ended /\ Worker!Survivors(captured) = {}
  <2>1. Worker!Alive \cap captured = {} /\ members \cap Worker!Alive \subseteq captured
    BY <1>1, NoSurvivor DEF WorkerIInv, Worker!TypeOK, Captures
  <2> QED
    BY <1>1, <2>1 DEF Worker!Terminate, Worker!Goto
<1>2. CASE ~(Worker!Ended /\ Worker!Survivors(captured) = {})
  BY <1>2 DEF Worker!Terminate, Worker!Goto
<1> QED
  BY <1>1, <1>2

LEMMA EndingKept ==
  ASSUME Worker!SupervisorAssumption, WorkerIInv, Worker!Next
  PROVE  WorkerEnding'
<1> USE DEF WorkerIInv
<1>1. CASE Worker!World
  <2>1. UNCHANGED <<pc, zero, members, captured>>
    BY <1>1
      DEF Worker!World, Worker!Exit, Worker!LeaveGroup, Worker!Reuse, Worker!Fork,
          Worker!Publish, Worker!Write, Worker!Cancel, Worker!Record, Worker!Aside,
          Worker!monitor, Worker!verdict
  <2>2. Worker!Ended => Worker!Ended'
    BY <1>1
      DEF Worker!World, Worker!Exit, Worker!Ends, Worker!LeaveGroup, Worker!Reuse,
          Worker!Fork, Worker!Publish, Worker!Write, Worker!Cancel, Worker!Record,
          Worker!tree, Worker!Ended
  <2>3. \A p \in Worker!Alive' : p \in Worker!Alive \/ status[p] = "none"
    BY <1>1
      DEF Worker!World, Worker!Exit, Worker!Ends, Worker!LeaveGroup, Worker!Reuse,
          Worker!Fork, Worker!Publish, Worker!Write, Worker!Cancel, Worker!Record,
          Worker!tree, Worker!Alive, Worker!Process, Worker!Pid, Worker!TypeOK,
          Worker!SupervisorAssumption
  <2> QED
    BY <2>1, <2>2, <2>3 DEF WorkerEnding, Worker!KnownTreeEnds, Captures, Born
<1>2. CASE Worker!Top \/ Worker!CheckCancel \/ Worker!Poll \/ Worker!LastPoll \/ Worker!Judge \/ Worker!CheckPhase \/ Worker!ClassifyAtBoundary
  <2>1. UNCHANGED <<code, status, members, captured>> /\ pc # "capturing"
    BY <1>2
      DEF Worker!Top, Worker!CheckCancel, Worker!Poll, Worker!LastPoll, Worker!Judge,
          Worker!CheckPhase, Worker!ClassifyAtBoundary, Worker!tree, Worker!monitor
  <2>2. Worker!Alive' = Worker!Alive /\ Worker!Ended' = Worker!Ended
    BY <2>1 DEF Worker!Alive, Worker!Ended
  <2>3. CASE \E why : Worker!Terminate(why)
    BY <2>1, <2>2, <2>3, TerminateEnds DEF WorkerEnding, Worker!KnownTreeEnds
  <2>4. CASE ~\E why : Worker!Terminate(why)
    BY <1>2, <2>2, <2>4
      DEF Worker!Top, Worker!CheckCancel, Worker!Poll, Worker!LastPoll, Worker!Judge,
          Worker!CheckPhase, Worker!ClassifyAtBoundary, Worker!Boundary, Worker!Goto,
          WorkerEnding, Worker!KnownTreeEnds, Worker!Ended
  <2> QED
    BY <2>3, <2>4
<1>3. CASE Worker!Finally
  <2>1. Worker!Ended /\ Worker!Alive' = Worker!Alive /\ Worker!Ended' = Worker!Ended /\ UNCHANGED <<members, captured>>
    BY <1>3
      DEF Worker!Finally, WorkerEnding, Worker!tree, Worker!monitor, Worker!Alive,
          Worker!Ended
  <2>2. CASE Worker!Survivors(captured) = {}
    <3>1. Worker!Alive \cap captured = {} /\ members \cap Worker!Alive \subseteq captured
      BY <1>3, <2>1, <2>2, NoSurvivor DEF Worker!TypeOK, Captures, Worker!Finally
    <3> QED
      BY <1>3, <2>1, <2>2, <3>1
        DEF Worker!Finally, Worker!Goto, WorkerEnding, Worker!KnownTreeEnds
  <2>3. CASE Worker!Survivors(captured) # {}
    BY <1>3, <2>3 DEF Worker!Finally, Worker!Goto, WorkerEnding, Worker!KnownTreeEnds
  <2> QED
    BY <2>2, <2>3
<1>4. CASE Worker!Sample \/ Worker!Capture \/ Worker!SigTerm \/ Worker!SigKill
  BY <1>4
    DEF Worker!Sample, Worker!Capture, Worker!SigTerm, Worker!SigKill, Worker!Goto,
        WorkerEnding, Worker!KnownTreeEnds
<1>5. CASE Worker!Wait \/ Worker!GraceEnds
  <2>1. PICK to \in Worker!Teardown : Worker!Refresh(to) /\ pc \in Worker!Teardown
    BY <1>5 DEF Worker!Wait, Worker!GraceEnds, Worker!Teardown
  <2>2. Worker!Alive' = Worker!Alive /\ Worker!Ended' = Worker!Ended /\ UNCHANGED zero
    BY <2>1
      DEF Worker!Refresh, Worker!tree, Worker!verdict, Worker!Alive, Worker!Ended
  <2>3. captured' \in SUBSET Worker!Pid /\ members' \cap Worker!Alive \subseteq captured'
    <3>1. Captures' /\ Worker!TypeOK'
      BY <1>5, CapturesKept, TeardownTypes DEF Worker!Next, Worker!SupervisorStep
    <3> QED
      BY <2>1, <2>2, <3>1, RefreshTypes DEF Captures, Worker!TypeOK, Worker!Teardown
  <2>4. pc' = "done" => Worker!Ended /\ Worker!Survivors(captured') = {}
    BY <2>1 DEF Worker!Refresh, Worker!Goto, Worker!Teardown, Worker!monitor
  <2>5. pc' = "done" => Worker!Alive \cap captured' = {}
    BY <2>3, <2>4, NoSurvivor
  <2>6. pc' \in Worker!Teardown \cup {"done"}
    BY <2>1 DEF Worker!Refresh, Worker!Goto
  <2> QED
    BY <2>2, <2>3, <2>4, <2>5, <2>6
      DEF WorkerEnding, Worker!KnownTreeEnds, Worker!Teardown
<1> QED
  BY <1>1, <1>2, <1>3, <1>4, <1>5 DEF Worker!Next, Worker!SupervisorStep

\* What is written when the root ends.
LEMMA EndsRoot ==
    ASSUME Worker!TypeOK, NEW Q \in SUBSET Worker!Alive, Worker!Ends(Q)
    PROVE  \/ UNCHANGED <<code, crossed, blind>>
           \/ /\ code = "none" /\ ~Worker!Ended /\ Worker!Ended' /\ crossed' = excess
              /\ blind' = "waiting" => failures > 0 /\ reason = "none"
                                      /\ pc \notin {"sampling", "capturing", "polling"}
<1>1. CASE root \in Q
  <2>1. code = "none" /\ ~Worker!Ended /\ Worker!Ended' /\ crossed' = excess
    BY <1>1 DEF Worker!TypeOK, Worker!Ends, Worker!Ended
  <2>2. blind' = "waiting" => failures > 0 /\ reason = "none"
                              /\ pc \notin {"sampling", "capturing", "polling"}
    BY <1>1 DEF Worker!Ends, Worker!TypeOK
  <2> QED
    BY <2>1, <2>2
<1>2. CASE root \notin Q
  BY <1>2 DEF Worker!Ends
<1> QED
  BY <1>1, <1>2

LEMMA ClosingKept ==
  ASSUME Worker!SupervisorAssumption, WorkerIInv, Worker!Next
  PROVE  Closing'
<1> USE DEF WorkerIInv
<1>1. CASE Worker!World
  <2>1. UNCHANGED <<reason, phaseState>>
    BY <1>1
      DEF Worker!World, Worker!Exit, Worker!LeaveGroup, Worker!Reuse, Worker!Fork,
          Worker!Publish, Worker!Write, Worker!Cancel, Worker!Record, Worker!Aside,
          Worker!verdict
  <2>2. /\ file # "none" => file' # "none"
        /\ file = "closed" => file' = "closed"
        /\ excess => excess'
    BY <1>1
      DEF Worker!World, Worker!Exit, Worker!Ends, Worker!LeaveGroup, Worker!Reuse,
          Worker!Fork, Worker!Publish, Worker!Write, Worker!Cancel, Worker!Record,
          Worker!Aside, Worker!tree
  <2>3. (code' = code /\ crossed' = crossed) \/ (code = "none" /\ crossed' = excess)
    <3>1. ASSUME NEW p \in Worker!Process, Worker!Exit(p)
          PROVE  (code' = code /\ crossed' = crossed) \/ (code = "none" /\ crossed' = excess)
      <4>1. {p} \in SUBSET Worker!Alive /\ Worker!Ends({p})
        BY <3>1 DEF Worker!Exit
      <4> QED
        BY <4>1, EndsRoot
    <3> QED
      BY <1>1, <3>1
        DEF Worker!World, Worker!LeaveGroup, Worker!Reuse, Worker!Fork,
            Worker!Publish, Worker!Write, Worker!Cancel, Worker!Record, Worker!Aside,
            Worker!tree
  <2> QED
    BY <2>1, <2>2, <2>3 DEF Closing, Worker!CompletedIsClean
<1>2. CASE Worker!Top \/ Worker!CheckCancel \/ Worker!Judge \/ Worker!CheckPhase \/ Worker!ClassifyAtBoundary
  <2>1. UNCHANGED <<code, file, crossed, excess>>
    BY <1>2
      DEF Worker!Top, Worker!CheckCancel, Worker!Judge, Worker!CheckPhase,
          Worker!ClassifyAtBoundary, Worker!tree
  <2>2. phaseState' \in {phaseState, file}
    BY <1>2
      DEF Worker!Top, Worker!CheckCancel, Worker!Judge, Worker!CheckPhase,
          Worker!ClassifyAtBoundary, Worker!Classify, Worker!Observe, Worker!verdict
  <2>3. reason' = "completed" => reason = "completed" \/ (Worker!Classify /\ zero = "completed"
                                  /\ ~(Worker!Violation /\ code = "zero") /\ Worker!Ended)
    <3>1. \A why : why # "completed" => (Worker!Terminate(why) => reason' # "completed")
      BY DEF Worker!Terminate
    <3>2. code = "failed" /\ Worker!Classify => reason' # "completed"
      BY DEF Worker!Classify
    <3>3. CASE Worker!Top \/ Worker!CheckCancel \/ Worker!Judge \/ Worker!CheckPhase
      BY <3>1, <3>2, <3>3
        DEF Worker!Top, Worker!CheckCancel, Worker!Judge, Worker!CheckPhase,
            Worker!Boundary, Worker!verdict
    <3>4. CASE Worker!ClassifyAtBoundary
      BY <3>1, <3>4
        DEF Worker!ClassifyAtBoundary, Worker!Classify, WorkerEnding, Worker!TypeOK
    <3> QED
      BY <1>2, <3>3, <3>4
  <2>4. Worker!Classify /\ zero = "completed" /\ Worker!Ended /\ reason' = "completed"
        => code = "zero" /\ (phaseState' = "closed")
    BY DEF Worker!Classify, Worker!TypeOK, Worker!Ended
  <2> QED
    BY <2>1, <2>2, <2>3, <2>4
      DEF Closing, Worker!CompletedIsClean, Worker!Observe, Worker!Classify,
          Worker!Violation, Worker!TypeOK
<1>3. CASE Worker!Sample \/ Worker!Capture \/ Worker!Poll \/ Worker!LastPoll \/ Worker!Finally \/ Worker!SigKill
  BY <1>3
    DEF Worker!Sample, Worker!Capture, Worker!Poll, Worker!LastPoll, Worker!Finally,
        Worker!SigKill, Worker!SameVerdict, Worker!verdict, Worker!tree, Closing,
        Worker!CompletedIsClean
<1>4. CASE Worker!SigTerm
  <2>1. PICK Q \in SUBSET (Worker!Targets \cap Worker!Alive) : Worker!Ends(Q)
    BY <1>4 DEF Worker!SigTerm
  <2>2. (code' = code /\ crossed' = crossed) \/ (code = "none" /\ crossed' = excess)
    BY <2>1, EndsRoot
  <2> QED
    BY <1>4, <2>2 DEF Worker!SigTerm, Worker!verdict, Closing, Worker!CompletedIsClean
<1>5. CASE Worker!Wait \/ Worker!GraceEnds
  BY <1>5
    DEF Worker!Wait, Worker!GraceEnds, Worker!Refresh, Worker!tree, Worker!verdict,
        Closing, Worker!CompletedIsClean
<1> QED
  BY <1>1, <1>2, <1>3, <1>4, <1>5 DEF Worker!Next, Worker!SupervisorStep

\* A root that exits in the wait for a retry is found by the next poll.
LEMMA EndsRetrying ==
    ASSUME Worker!SupervisorAssumption, WorkerIInv, NEW Q \in SUBSET Worker!Alive, Worker!Ends(Q),
           UNCHANGED Worker!verdict, pc' = pc \/ (pc = "sigterm" /\ pc' = "grace")
    PROVE  Retrying'
<1> USE DEF WorkerIInv
<1>1. CASE UNCHANGED <<code, crossed, blind>>
  BY <1>1 DEF Worker!verdict, Retrying, Worker!Teardown, Worker!TypeOK, Worker!Ended
<1>2. CASE /\ ~Worker!Ended /\ Worker!Ended'
           /\ blind' = "waiting" => failures > 0 /\ reason = "none"
                                   /\ pc \notin {"sampling", "capturing", "polling"}
  <2>1. blind' = "waiting" => pc \in {"top", "cancel", "judging"} /\ pc' = pc
    BY <1>2 DEF Worker!TypeOK, Retrying, WorkerEnding, Worker!Teardown
  <2> QED
    BY <1>2, <2>1 DEF Worker!verdict, Retrying, Worker!Teardown
<1> QED
  BY <1>1, <1>2, EndsRoot

LEMMA RetryingKept ==
  ASSUME Worker!SupervisorAssumption, WorkerIInv, Worker!Next
  PROVE  Retrying'
<1> USE DEF WorkerIInv
<1>1. ASSUME NEW p \in Worker!Process, Worker!Exit(p) PROVE Retrying'
  <2>1. {p} \in SUBSET Worker!Alive /\ Worker!Ends({p}) /\ UNCHANGED <<pc, Worker!verdict>>
    BY <1>1 DEF Worker!Exit, Worker!Aside
  <2> QED
    BY <2>1, EndsRetrying
<1>2. CASE Worker!World /\ ~\E p \in Worker!Process : Worker!Exit(p)
  BY <1>2
    DEF Worker!World, Worker!LeaveGroup, Worker!Reuse, Worker!Fork, Worker!Publish,
        Worker!Write, Worker!Cancel, Worker!Record, Worker!Aside, Worker!tree,
        Worker!verdict, Retrying, Worker!Ended
<1>3. CASE Worker!Top \/ Worker!CheckCancel \/ Worker!Judge \/ Worker!CheckPhase \/ Worker!ClassifyAtBoundary
  <2>1. UNCHANGED <<code, blind>>
    BY <1>3
      DEF Worker!Top, Worker!CheckCancel, Worker!Judge, Worker!CheckPhase,
          Worker!ClassifyAtBoundary, Worker!tree
  <2>2. \A why : Worker!Terminate(why) => reason' = why /\ pc' \in {"done", "sigterm"}
    BY DEF Worker!Terminate, Worker!Goto
  <2>3. CASE Worker!Top
    BY <1>3, <2>1, <2>2, <2>3
      DEF Worker!Top, Worker!Classify, Worker!Goto, Worker!verdict, Retrying,
          Worker!Ended, Worker!Teardown
  <2>4. CASE Worker!CheckCancel
    BY <1>3, <2>1, <2>2, <2>4
      DEF Worker!CheckCancel, Worker!Boundary, Worker!Goto, Worker!verdict, Retrying,
          Worker!Ended, Worker!Teardown, Worker!TypeOK
  <2>5. CASE Worker!Judge
    BY <1>3, <2>1, <2>2, <2>5
      DEF Worker!Judge, Worker!Boundary, Worker!Goto, Worker!verdict, Retrying,
          Worker!Ended, Worker!Teardown, Worker!TypeOK
  <2>6. CASE Worker!CheckPhase
    BY <1>3, <2>1, <2>2, <2>6
      DEF Worker!CheckPhase, Worker!Boundary, Worker!Goto, Worker!verdict, Retrying,
          Worker!Ended, Worker!Teardown, Worker!TypeOK
  <2>7. CASE Worker!ClassifyAtBoundary
    <3>1. blind = "waiting" => zero \in {"cancelled", "memory_probe_error"}
      BY <2>7 DEF Worker!ClassifyAtBoundary, Retrying, Worker!TypeOK, Worker!Teardown
    <3>2. blind = "waiting" => reason' \notin {"none", "completed"}
      BY <2>2, <2>7, <3>1 DEF Worker!ClassifyAtBoundary, Worker!Classify
    <3> QED
      BY <2>1, <2>2, <2>7, <3>2
        DEF Worker!ClassifyAtBoundary, Worker!Goto, Retrying, Worker!Ended,
            Worker!Teardown
  <2> QED
    BY <1>3, <2>3, <2>4, <2>5, <2>6, <2>7
<1>4. CASE Worker!Sample \/ Worker!Capture \/ Worker!Poll \/ Worker!LastPoll
  BY <1>4
    DEF Worker!Sample, Worker!Capture, Worker!Poll, Worker!LastPoll,
        Worker!SameVerdict, Worker!Boundary, Worker!Goto, Worker!verdict, Worker!tree,
        Retrying, Worker!Ended, Worker!TypeOK, Worker!Teardown
<1>5. CASE Worker!Finally \/ Worker!SigKill
  BY <1>5
    DEF Worker!Finally, Worker!SigKill, Worker!Goto, Worker!verdict, Worker!tree,
        Retrying, Worker!Ended, Worker!TypeOK, Worker!Teardown
<1>6. CASE Worker!SigTerm
  <2>1. PICK Q \in SUBSET (Worker!Targets \cap Worker!Alive) : Worker!Ends(Q)
    BY <1>6 DEF Worker!SigTerm
  <2>2. Q \in SUBSET Worker!Alive /\ UNCHANGED Worker!verdict /\ pc = "sigterm" /\ pc' = "grace"
    BY <1>6 DEF Worker!SigTerm, Worker!Goto, Worker!verdict
  <2> QED
    BY <2>1, <2>2, EndsRetrying
<1>7. CASE Worker!Wait \/ Worker!GraceEnds
  BY <1>7
    DEF Worker!Wait, Worker!GraceEnds, Worker!Refresh, Worker!Goto, Worker!tree,
        Worker!verdict, Retrying, Worker!Ended, Worker!Teardown, Worker!TypeOK
<1> QED
  BY <1>1, <1>2, <1>3, <1>4, <1>5, <1>6, <1>7
    DEF Worker!Next, Worker!World, Worker!SupervisorStep

\* No foreign process is below the tree: its parents are foreign as well.
LEMMA NoneSelectedIsForeign ==
    ASSUME Worker!SupervisorAssumption, Worker!TypeOK, Strangers PROVE Worker!Selected \cap Foreign = {}
<1> DEFINE S == Worker!Pid \ Foreign
<1>1. S \in SUBSET Worker!Pid
  OBVIOUS
<1>2. (known \cup {root}) \cap Worker!Present \subseteq S
  BY DEF Strangers, Worker!Present
<1>3. \A q \in Worker!Children(S) : q \in S
  BY DEF Worker!Children, Worker!Present, Strangers, Worker!SupervisorAssumption
<1> QED
  BY <1>1, <1>2, <1>3 DEF Worker!Selected, Worker!Closed

LEMMA NoSurvivorIsForeign ==
    ASSUME NEW S, stranger \notin S PROVE Worker!Survivors(S) \cap Foreign = {}
  BY DEF Worker!Survivors, Foreign

LEMMA WorldStrangers ==
    ASSUME Worker!SupervisorAssumption, ~ReuseKnown, WorkerIInv, Strangers, Worker!World PROVE Strangers'
<1> USE DEF WorkerIInv
<1>1. UNCHANGED <<known, members, captured, aim, touched, pc>>
  BY DEF Worker!World, Worker!Exit, Worker!LeaveGroup, Worker!Reuse, Worker!Fork,
         Worker!Publish, Worker!Write, Worker!Cancel, Worker!Record, Worker!Aside,
         Worker!monitor, Worker!ghosts
<1>2. ASSUME NEW p \in Worker!Process, Worker!Exit(p) PROVE Strangers'
  <2>1. p \in Worker!Alive /\ p \notin Foreign
    BY <1>2 DEF Worker!Exit, Worker!Alive, Foreign
  <2>2. Foreign' = Foreign
    BY <1>2, <2>1 DEF Worker!Exit, Worker!Ends, Foreign, Worker!TypeOK
  <2>3. \A q \in Foreign : parent'[q] = parent[q]
    BY <1>2, <2>1
      DEF Worker!Exit, Worker!Ends, Strangers, Foreign, Worker!SupervisorAssumption,
          Worker!Alive, Worker!Pid
  <2>4. status'[stranger] = status[stranger]
    BY <1>2, <2>1
      DEF Worker!Exit, Worker!Ends, Worker!Alive, Worker!SupervisorAssumption,
          Worker!Pid
  <2> QED
    BY <1>1, <2>2, <2>3, <2>4 DEF Strangers, Worker!StrangersUntouched
<1>3. ASSUME NEW p \in Worker!Process, NEW q \in Worker!Process, Worker!Fork(p, q) PROVE Strangers'
  <2>1. q # stranger /\ q \notin Foreign /\ q \in Worker!Pid
    BY <1>3 DEF Worker!Fork, Foreign, Worker!SupervisorAssumption, Worker!Pid
  <2>2. Foreign' = Foreign /\ status'[stranger] = status[stranger]
    BY <1>3, <2>1 DEF Worker!Fork, Foreign, Worker!TypeOK, Worker!Pid
  <2>3. \A r \in Foreign : parent'[r] = parent[r]
    BY <1>3, <2>1 DEF Worker!Fork, Foreign, Worker!TypeOK
  <2> QED
    BY <1>1, <2>2, <2>3 DEF Strangers, Worker!StrangersUntouched
<1>4. ASSUME NEW p \in Worker!Process, Worker!Reuse(p) PROVE Strangers'
  <2>1. p \notin known /\ p # root /\ pc \notin {"sigterm", "sigkill"} /\ p \in Worker!Pid /\ stranger \in Worker!Pid
        /\ p # stranger
    BY <1>4 DEF Worker!Reuse, Worker!Pid, Worker!SupervisorAssumption
  <2>2. Foreign' = Foreign \cup {p, stranger} /\ status'[stranger] = "foreign"
    BY <1>4, <2>1 DEF Worker!Reuse, Foreign, Worker!TypeOK
  <2>3. \A r \in Foreign' : parent'[r] \in Foreign' \cup {Init0}
    <3>1. parent'[p] = Init0 /\ parent'[stranger] = p
      BY <1>4, <2>1 DEF Worker!Reuse, Worker!TypeOK
    <3>2. \A r \in Foreign : r \in Worker!Pid /\ r # p
      BY <1>4 DEF Worker!Reuse, Foreign
    <3>3. \A r \in Foreign : r # stranger
      BY <1>4 DEF Worker!Reuse, Foreign
    <3>4. \A r \in Foreign : parent'[r] = parent[r]
      BY <1>4, <3>2, <3>3 DEF Worker!Reuse, Worker!TypeOK
    <3> QED
      BY <2>2, <3>1, <3>4 DEF Strangers
  <2> QED
    BY <1>1, <2>1, <2>2, <2>3
      DEF Strangers, Worker!StrangersUntouched, Worker!SupervisorAssumption,
          Worker!Process, Worker!Pid
<1>5. CASE Worker!Publish \/ Worker!Write \/ Worker!Cancel \/ Worker!Record \/ \E q \in Worker!Process : Worker!LeaveGroup(q)
  <2>1. UNCHANGED <<status, parent>>
    BY <1>5
      DEF Worker!Publish, Worker!Write, Worker!Cancel, Worker!Record,
          Worker!LeaveGroup, Worker!tree
  <2> QED
    BY <1>1, <2>1 DEF Strangers, Worker!StrangersUntouched, Foreign
<1> QED
  BY <1>2, <1>3, <1>4, <1>5 DEF Worker!World

LEMMA StrangersKept ==
    ASSUME Worker!SupervisorAssumption, ~ReuseKnown, WorkerIInv, Strangers, Worker!Next PROVE Strangers'
<1> USE DEF WorkerIInv
<1>1. CASE Worker!World
  BY <1>1, WorldStrangers
<1>2. CASE Worker!Top \/ Worker!CheckCancel \/ Worker!Judge \/ Worker!CheckPhase \/ Worker!ClassifyAtBoundary \/ Worker!Finally
  <2>1. UNCHANGED <<status, parent, known, members, captured, touched>>
    BY <1>2
      DEF Worker!Top, Worker!CheckCancel, Worker!Judge, Worker!CheckPhase,
          Worker!ClassifyAtBoundary, Worker!Finally, Worker!tree, Worker!monitor,
          Worker!ghosts
  <2>2. Foreign' = Foreign
    BY <2>1 DEF Foreign
  <2>3. pc' \in {"sigterm", "sigkill"} => aim' = Worker!AimAt(Worker!Survivors(captured))
    <3>1. \A why : Worker!Terminate(why) /\ pc' \in {"sigterm", "sigkill"}
                   => aim' = Worker!AimAt(Worker!Survivors(captured))
      BY DEF Worker!Terminate, Worker!Goto
    <3> QED
      BY <1>2, <3>1
        DEF Worker!Top, Worker!CheckCancel, Worker!Judge, Worker!CheckPhase,
            Worker!ClassifyAtBoundary, Worker!Finally, Worker!Boundary, Worker!Goto
  <2>4. Worker!AimAt(Worker!Survivors(captured)).out \cap Foreign = {}
    BY NoSurvivorIsForeign DEF Worker!AimAt, Strangers
  <2> QED
    BY <2>1, <2>2, <2>3, <2>4 DEF Strangers, Worker!StrangersUntouched
<1>3. CASE Worker!Sample \/ Worker!Capture \/ Worker!Poll \/ Worker!LastPoll
  <2>1. UNCHANGED <<status, parent, touched>> /\ pc' \notin {"sigterm", "sigkill"}
    BY <1>3
      DEF Worker!Sample, Worker!Capture, Worker!Poll, Worker!LastPoll,
          Worker!Boundary, Worker!Goto, Worker!tree, Worker!ghosts
  <2>2. Foreign' = Foreign
    BY <2>1 DEF Foreign
  <2>3. known' \subseteq known \cup Worker!Selected /\ members' \subseteq members \cup Worker!Selected
        /\ captured' \subseteq captured \cup members
    BY <1>3
      DEF Worker!Sample, Worker!Sampled, Worker!Capture, Worker!Poll, Worker!LastPoll,
          Worker!monitor
  <2>4. stranger \notin Worker!Selected
    BY NoneSelectedIsForeign, SelectedIsPresent
    DEF Strangers, Foreign, Worker!Present
  <2>5. stranger \notin known' \cup members' \cup captured'
    BY <2>3, <2>4 DEF Strangers
  <2> QED
    BY <2>1, <2>2, <2>3, <2>5, NoneSelectedIsForeign
      DEF Strangers, Worker!StrangersUntouched
<1>4. CASE Worker!SigTerm \/ Worker!SigKill
  <2>1. Worker!Targets \cap Foreign = {}
    <3>1. grouped \cap Foreign = {}
      BY DEF Worker!TypeOK, Worker!Alive, Foreign
    <3>2. aim.out \cap Foreign = {}
      BY <1>4 DEF Worker!SigTerm, Worker!SigKill, Strangers
    <3> QED
      BY <3>1, <3>2 DEF Worker!Targets
  <2>2. ~touched'
    <3>1. Worker!Targets \subseteq Worker!Pid
      BY DEF Worker!Targets, Worker!TypeOK, Worker!Alive, Worker!Process, Worker!Pid
    <3>2. ~\E p \in Worker!Targets : status[p] = "foreign"
      BY <2>1, <3>1 DEF Foreign
    <3> QED
      BY <1>4, <3>2
        DEF Worker!SigTerm, Worker!SigKill, Strangers, Worker!StrangersUntouched
  <2>3. UNCHANGED <<known, members, captured>> /\ pc' \notin {"sigterm", "sigkill"}
    BY <1>4 DEF Worker!SigTerm, Worker!SigKill, Worker!Goto, Worker!monitor
  <2>4. CASE Worker!SigKill
    BY <2>2, <2>3, <2>4
      DEF Worker!SigKill, Strangers, Worker!StrangersUntouched, Foreign
  <2>5. CASE Worker!SigTerm
    <3>1. PICK Q \in SUBSET (Worker!Targets \cap Worker!Alive) : Worker!Ends(Q)
      BY <2>5 DEF Worker!SigTerm
    <3>2. Foreign' = Foreign /\ status'[stranger] = status[stranger]
      BY <3>1
        DEF Worker!Ends, Foreign, Worker!Alive, Worker!TypeOK,
            Worker!SupervisorAssumption, Worker!Pid
    <3>3. \A q \in Foreign : parent'[q] = parent[q]
      BY <3>1
        DEF Worker!Ends, Strangers, Foreign, Worker!Alive,
            Worker!SupervisorAssumption, Worker!Pid
    <3> QED
      BY <2>2, <2>3, <3>2, <3>3 DEF Strangers, Worker!StrangersUntouched
  <2> QED
    BY <1>4, <2>4, <2>5
<1>5. CASE Worker!Wait \/ Worker!GraceEnds
  <2>1. PICK to : Worker!Refresh(to) /\ (pc = "grace" \/ pc = "reaping")
    BY <1>5 DEF Worker!Wait, Worker!GraceEnds
  <2>2. UNCHANGED <<status, parent, touched>>
    BY <2>1 DEF Worker!Refresh, Worker!tree
  <2>3. Foreign' = Foreign
    BY <2>2 DEF Foreign
  <2>4. known' \subseteq known \cup Worker!Selected /\ members' \subseteq members \cup Worker!Selected
        /\ captured' \subseteq captured \cup members'
    BY <2>1 DEF Worker!Refresh, Worker!Sampled, Worker!monitor
  <2>5. stranger \notin Worker!Selected
    BY NoneSelectedIsForeign, SelectedIsPresent
    DEF Strangers, Foreign, Worker!Present
  <2>6. stranger \notin known' \cup members' \cup captured'
    BY <2>4, <2>5 DEF Strangers
  <2>7. pc' \in {"sigterm", "sigkill"} => aim' = Worker!AimAt(Worker!Survivors(captured'))
    BY <2>1 DEF Worker!Refresh, Worker!Goto
  <2>8. Worker!AimAt(Worker!Survivors(captured')).out \cap Foreign = {}
    BY <2>6, NoSurvivorIsForeign DEF Worker!AimAt
  <2> QED
    BY <2>2, <2>3, <2>4, <2>6, <2>7, <2>8, NoneSelectedIsForeign
      DEF Strangers, Worker!StrangersUntouched
<1> QED
  BY <1>1, <1>2, <1>3, <1>4, <1>5 DEF Worker!Next, Worker!SupervisorStep

LEMMA WorkerNext ==
  ASSUME Worker!SupervisorAssumption, WorkerIInv, [Worker!Next]_Worker!vars
  PROVE  WorkerIInv'
<1>1. CASE Worker!Next
  <2>1. Worker!TypeOK'
    BY <1>1, WorldTypes, LoopTypes, VerdictTypes, TeardownTypes
      DEF Worker!Next, Worker!SupervisorStep
  <2> QED
    BY <1>1, <2>1, CapturesKept, EndingKept, ClosingKept, RetryingKept DEF WorkerIInv
<1>2. CASE UNCHANGED Worker!vars
  BY <1>2
    DEF Worker!vars, Worker!tree, Worker!monitor, Worker!verdict, Worker!ghosts,
        WorkerIInv, Worker!TypeOK, Captures, Born, WorkerEnding, Worker!KnownTreeEnds,
        Closing, Worker!CompletedIsClean, Retrying, Worker!Alive, Worker!Ended
<1> QED
  BY <1>1, <1>2

LEMMA StrangersNext ==
    ASSUME Worker!SupervisorAssumption, ~ReuseKnown, WorkerIInv, Strangers, [Worker!Next]_Worker!vars
    PROVE  Strangers'
<1>1. CASE UNCHANGED Worker!vars
  BY <1>1
    DEF Worker!vars, Worker!tree, Worker!monitor, Worker!ghosts, Strangers,
        Worker!StrangersUntouched, Foreign
<1> QED
  BY <1>1, StrangersKept

----------------------------------------------------------------------------
(* The memory watchdog                                                     *)

Looping == {"looping", "sampling", "judging", "polling"}

Watched ==
    /\ \A p \in watched \cup seen \cup guardedGroup \cup {root} : guardedStatus[p] # "none"
    /\ Guarded!Alive \cap seen \subseteq watched
NoneLeft ==
    watchPc \in {"stopped", "ended"} /\ watchOutcome \in Guarded!Stopped /\ ~missed
      => Guarded!Alive \cap (guardedGroup \cup seen) = {}
Enforcing ==
    /\ watchPc \in Looping <=> watchOutcome = "none"
    /\ watchPc \in Looping => probeFailures < 3
    /\ watchPc = "polling" => probeFailures = 0
    /\ exceeded => (watchPc = "judging" /\ over) \/ watchOutcome \notin {"none", "finished"}
    /\ unwatched => /\ Guarded!Ended
                    /\ \/ watchOutcome \notin {"none", "finished"}
                       \/ watchOutcome = "none" /\ probeFailures > 0 /\ watchPc # "polling"
    /\ watchOutcome = "finished" => probeFailures = 0
WatchdogIInv == Guarded!TypeOK /\ Watched /\ NoneLeft /\ Enforcing

LEMMA WatchdogInit ==
  ASSUME Guarded!WatchdogAssumption, Guarded!Init
  PROVE  WatchdogIInv
<1>1. guardedStatus \in [Guarded!Process -> {"none", "alive", "zombie", "gone"}]
  BY DEF Guarded!Init
<1>2. guardedParent \in [Guarded!Process -> Guarded!Process \cup {Init0}]
  BY DEF Guarded!Init
<1>3. Guarded!TypeOK
  <2>1. {over, unwatched, exceeded, missed} \subseteq BOOLEAN
    BY Zenon DEF Guarded!Init
  <2>3. received \in BOOLEAN /\ watchPc = "looping" /\ watchOutcome = "none"
    BY Zenon DEF Guarded!Init
  <2>2. /\ guardedGroup \subseteq Guarded!Process /\ watched \subseteq Guarded!Process /\ seen \subseteq Guarded!Process
        /\ probeFailures \in 0..3
    BY DEF Guarded!Init, Guarded!Process
  <2> QED
    BY <1>1, <1>2, <2>1, <2>2, <2>3 DEF Guarded!TypeOK
<1> QED
  BY <1>1, <1>3
    DEF Guarded!Init, WatchdogIInv, Watched, NoneLeft, Enforcing, Looping,
        Guarded!Alive, Guarded!Process, Guarded!Stopped

LEMMA SelectedHasSeeds == Guarded!Seeds \subseteq Guarded!Selected /\ Guarded!Selected \subseteq Guarded!Present
  BY DEF Guarded!Selected, Guarded!Closed, Guarded!Seeds

\* The processes that end, and a root that is reaped.
LEMMA DeadTypes ==
    ASSUME Guarded!TypeOK, NEW Q \in SUBSET Guarded!Alive
    PROVE  /\ Guarded!Dead(Q) \in [Guarded!Process -> {"none", "alive", "zombie", "gone"}]
           /\ Guarded!Orphaned(Q) \in [Guarded!Process -> Guarded!Process \cup {Init0}]
           /\ \A p \in Guarded!Process : /\ Guarded!Dead(Q)[p] = "alive" <=> p \in Guarded!Alive \ Q
                                         /\ Guarded!Dead(Q)[p] = "none" <=> guardedStatus[p] = "none"
           /\ Guarded!Dead(Q)[root] = "alive" => guardedStatus[root] = "alive"
  BY DEF Guarded!Dead, Guarded!Orphaned, Guarded!TypeOK, Guarded!Alive,
         Guarded!Process

LEMMA ReapedTypes ==
    ASSUME Guarded!TypeOK
    PROVE  /\ Guarded!Reaped \in [Guarded!Process -> {"none", "alive", "zombie", "gone"}]
           /\ \A p \in Guarded!Process : /\ Guarded!Reaped[p] = "alive" <=> guardedStatus[p] = "alive"
                                         /\ Guarded!Reaped[p] = "none" <=> guardedStatus[p] = "none"
  BY DEF Guarded!Reaped, Guarded!TypeOK, Guarded!Process

\* Whatever a step does to the tree: who lives lived before or is forked
\* outside of the group that is left, and who was started stays started.
LEMMA TreeKept ==
    ASSUME Guarded!WatchdogAssumption, WatchdogIInv, Guarded!TreeStep \/ Guarded!Signal
    PROVE  WatchdogIInv'
<1> USE DEF WatchdogIInv
<1>1. ASSUME NEW p \in Guarded!Process, Guarded!Exit(p) PROVE WatchdogIInv'
  <2>1. {p} \in SUBSET Guarded!Alive /\ guardedStatus' = Guarded!Dead({p}) /\ guardedParent' = Guarded!Orphaned({p})
    BY <1>1 DEF Guarded!Exit
  <2>2. /\ guardedStatus' \in [Guarded!Process -> {"none", "alive", "zombie", "gone"}]
        /\ guardedParent' \in [Guarded!Process -> Guarded!Process \cup {Init0}]
    BY <2>1, DeadTypes
  <2>3. Guarded!Alive' = Guarded!Alive \ {p} /\ \A q \in Guarded!Process : guardedStatus[q] # "none" => guardedStatus'[q] # "none"
    BY <2>1, DeadTypes DEF Guarded!Alive
  <2>4. Guarded!Ended \/ p = root => Guarded!Ended'
    BY <2>1, DeadTypes DEF Guarded!Ended, Guarded!Alive, Guarded!Process
  <2>5. unwatched' => unwatched \/ (p = root /\ probeFailures > 0 /\ watchOutcome = "none")
    BY <1>1 DEF Guarded!Exit
  <2>6. unwatched' \in BOOLEAN
    BY <1>1 DEF Guarded!Exit, Guarded!TypeOK
  <2>7. Guarded!TypeOK'
    BY <1>1, <2>2, <2>6
      DEF Guarded!Exit, Guarded!watchdog, Guarded!sampler, Guarded!TypeOK
  <2>8. Watched' /\ NoneLeft'
    BY <1>1, <2>3
      DEF Guarded!Exit, Guarded!watchdog, Guarded!sampler, Watched, NoneLeft,
          Guarded!TypeOK, Guarded!Process
  <2>9. Enforcing'
    BY <1>1, <2>4, <2>5
      DEF Guarded!Exit, Guarded!watchdog, Guarded!sampler, Enforcing, Guarded!TypeOK,
          Looping
  <2> QED
    BY <2>7, <2>8, <2>9
<1>2. ASSUME NEW q \in Guarded!Process, Guarded!LeaveGroup(q) PROVE WatchdogIInv'
  BY <1>2
    DEF Guarded!LeaveGroup, Guarded!watchdog, Guarded!sampler, Guarded!TypeOK,
        Watched, NoneLeft, Enforcing, Guarded!Alive, Guarded!Ended
<1>3. ASSUME NEW p \in Guarded!Process, NEW q \in Guarded!Process, Guarded!Fork(p, q) PROVE WatchdogIInv'
  <2>1. /\ guardedStatus' \in [Guarded!Process -> {"none", "alive", "zombie", "gone"}]
        /\ guardedParent' \in [Guarded!Process -> Guarded!Process \cup {Init0}]
    BY <1>3 DEF Guarded!Fork, Guarded!TypeOK
  <2>2. Guarded!Alive' = Guarded!Alive \cup {q} /\ \A r \in Guarded!Process : guardedStatus[r] # "none" => guardedStatus'[r] # "none"
    BY <1>3 DEF Guarded!Fork, Guarded!TypeOK, Guarded!Alive
  <2>3. q \notin watched \cup seen \cup guardedGroup
    BY <1>3 DEF Guarded!Fork, Watched
  <2>4. guardedGroup' \subseteq guardedGroup \cup {q} /\ (q \in guardedGroup' => p \in guardedGroup)
    BY <1>3, <2>3 DEF Guarded!Fork
  <2>5. Guarded!TypeOK'
    BY <1>3, <2>1, <2>4
      DEF Guarded!Fork, Guarded!watchdog, Guarded!sampler, Guarded!TypeOK
  <2>6. Watched'
    BY <1>3, <2>1, <2>2, <2>3, <2>4
      DEF Guarded!Fork, Guarded!watchdog, Guarded!sampler, Watched, Guarded!TypeOK,
          Guarded!Process
  <2>7. NoneLeft'
    BY <1>3, <2>2, <2>3, <2>4
      DEF Guarded!Fork, Guarded!Alive, Guarded!watchdog, Guarded!sampler, NoneLeft
  <2>8. Guarded!Ended => Guarded!Ended'
    BY <1>3 DEF Guarded!Fork, Guarded!Ended, Guarded!TypeOK, Guarded!Process, Watched
  <2>9. Enforcing'
    BY <1>3, <2>8 DEF Guarded!Fork, Guarded!watchdog, Guarded!sampler, Enforcing
  <2> QED
    BY <2>5, <2>6, <2>7, <2>9
<1>4. CASE Guarded!Signal
  BY <1>4
    DEF Guarded!Signal, Guarded!tree, Guarded!sampler, Guarded!TypeOK, Watched,
        NoneLeft, Enforcing, Guarded!Alive, Guarded!Ended
<1> QED
  BY <1>1, <1>2, <1>3, <1>4 DEF Guarded!TreeStep

\* A sample, failed or not, keeps what was seen and lives in the known.
LEMMA SamplesKeep ==
    ASSUME WatchdogIInv, watched' \in {watched, Guarded!Selected}, seen' = seen \cup watched'
    PROVE  /\ watched' \subseteq Guarded!Process /\ seen' \subseteq Guarded!Process
           /\ \A p \in watched' \cup seen' : guardedStatus[p] # "none"
           /\ Guarded!Alive \cap seen' \subseteq watched'
<1>1. Guarded!Alive \cap seen \subseteq Guarded!Selected
  BY SelectedHasSeeds
    DEF WatchdogIInv, Watched, Guarded!Seeds, Guarded!Alive, Guarded!Present
<1>2. Guarded!Selected \subseteq Guarded!Present /\ Guarded!Present \subseteq Guarded!Process
  BY SelectedHasSeeds DEF Guarded!Present
<1> QED
  BY <1>1, <1>2 DEF WatchdogIInv, Guarded!TypeOK, Watched, Guarded!Present

LEMMA LoopKept ==
    ASSUME Guarded!WatchdogAssumption, WatchdogIInv, Guarded!Loop \/ Guarded!ProbeFails \/ Guarded!Sample \/ Guarded!Judge \/ Guarded!Poll
    PROVE  WatchdogIInv'
<1> USE DEF WatchdogIInv
<1>1. guardedStatus' \in {guardedStatus, Guarded!Reaped} /\ UNCHANGED <<guardedParent, guardedGroup, unwatched, received, missed>>
  BY DEF Guarded!Loop, Guarded!ProbeFails, Guarded!Sample, Guarded!Judge,
         Guarded!Poll, Guarded!FinishAs, Guarded!StopFor, Guarded!tree
<1>2. /\ guardedStatus' \in [Guarded!Process -> {"none", "alive", "zombie", "gone"}] /\ Guarded!Alive' = Guarded!Alive
      /\ Guarded!Ended' = Guarded!Ended
      /\ \A p \in Guarded!Process : guardedStatus[p] # "none" => guardedStatus'[p] # "none"
  BY <1>1, ReapedTypes
    DEF Guarded!TypeOK, Guarded!Alive, Guarded!Ended, Guarded!Process
<1>3. UNCHANGED Guarded!sampler \/ (watched' \in {watched, Guarded!Selected} /\ seen' = seen \cup watched')
  BY DEF Guarded!Loop, Guarded!ProbeFails, Guarded!Sample, Guarded!Judge,
         Guarded!Poll, Guarded!sampler
<1>4. Watched' /\ watched' \subseteq Guarded!Process /\ seen' \subseteq Guarded!Process
  BY <1>1, <1>2, <1>3, SamplesKeep
    DEF Watched, Guarded!sampler, Guarded!TypeOK, Guarded!Process
<1>5. watchOutcome = "none" /\ ~(watchPc' \in {"stopped", "ended"} /\ watchOutcome' \in Guarded!Stopped)
  BY DEF Guarded!Loop, Guarded!ProbeFails, Guarded!Sample, Guarded!Judge,
         Guarded!Poll, Guarded!FinishAs, Guarded!StopFor, Guarded!Goto, Enforcing,
         Looping, Guarded!Stopped
<1>6. Guarded!TypeOK' /\ Enforcing'
  <2>1. CASE Guarded!Loop
    BY <1>1, <1>2, <1>5, <2>1
      DEF Guarded!Loop, Guarded!FinishAs, Guarded!StopFor, Guarded!Goto,
          Guarded!sampler, Guarded!TypeOK, Enforcing, Looping, Guarded!Stopped
  <2>2. CASE Guarded!ProbeFails
    BY <1>1, <1>2, <1>4, <1>5, <2>2
      DEF Guarded!ProbeFails, Guarded!FinishAs, Guarded!StopFor, Guarded!Goto,
          Guarded!TypeOK, Enforcing, Looping, Guarded!Stopped
  <2>3. CASE Guarded!Sample
    <3>1. over' \in BOOLEAN /\ exceeded' \in BOOLEAN
      BY <2>3 DEF Guarded!Sample, Guarded!TypeOK
    <3> QED
      BY <1>1, <1>2, <1>4, <1>5, <2>3, <3>1
        DEF Guarded!Sample, Guarded!Goto, Guarded!TypeOK, Enforcing, Looping,
            Guarded!Stopped
  <2>4. CASE Guarded!Judge
    BY <1>1, <1>2, <1>5, <2>4
      DEF Guarded!Judge, Guarded!FinishAs, Guarded!StopFor, Guarded!Goto,
          Guarded!sampler, Guarded!TypeOK, Enforcing, Looping, Guarded!Stopped
  <2>5. CASE Guarded!Poll
    BY <1>1, <1>2, <1>5, <2>5
      DEF Guarded!Poll, Guarded!FinishAs, Guarded!Goto, Guarded!sampler,
          Guarded!TypeOK, Enforcing, Looping, Guarded!Stopped
  <2> QED
    BY <2>1, <2>2, <2>3, <2>4, <2>5
<1> QED
  BY <1>4, <1>5, <1>6 DEF NoneLeft

LEMMA StopKept ==
    ASSUME Guarded!WatchdogAssumption, WatchdogIInv, Guarded!Terminate \/ Guarded!Grace \/ Guarded!GraceEnds \/ Guarded!Kill \/ Guarded!Finish
    PROVE  WatchdogIInv'
<1> USE DEF WatchdogIInv
<1> DEFINE Rest == UNCHANGED <<guardedGroup, unwatched, received, probeFailures, over, watchOutcome, exceeded>>
<1>1. watchOutcome \in Guarded!Stopped
  BY DEF Guarded!Terminate, Guarded!Grace, Guarded!GraceEnds, Guarded!Kill,
         Guarded!Finish, Guarded!TypeOK
<1>2. ASSUME NEW failed \in BOOLEAN, NEW Q \in SUBSET Guarded!Alive, Rest,
             watched' = Guarded!Kept(failed), seen' = seen \cup watched',
             \/ guardedStatus' = Guarded!Dead(Q) /\ guardedParent' = Guarded!Orphaned(Q)
             \/ Q = {} /\ guardedStatus' = Guarded!Reaped /\ UNCHANGED guardedParent,
             missed' \in {missed, missed \/ failed},
             watchPc' \in {"grace", "killing", "stopped"},
             watchPc' = "stopped" /\ ~missed' => ~failed /\ Guarded!Alive \cap (Guarded!Selected \cup guardedGroup) \subseteq Q
      PROVE  WatchdogIInv'
  <2>1. /\ guardedStatus' \in [Guarded!Process -> {"none", "alive", "zombie", "gone"}]
        /\ guardedParent' \in [Guarded!Process -> Guarded!Process \cup {Init0}]
    BY <1>2, DeadTypes, ReapedTypes DEF Guarded!TypeOK
  <2>2. Guarded!Alive' = Guarded!Alive \ Q
    BY <1>2, DeadTypes, ReapedTypes DEF Guarded!Alive
  <2>3. /\ \A p \in Guarded!Process : guardedStatus[p] # "none" => guardedStatus'[p] # "none"
        /\ Guarded!Ended => Guarded!Ended'
    BY <1>2, DeadTypes, ReapedTypes DEF Guarded!Ended, Guarded!Process
  <2>4. watched' \in {watched, Guarded!Selected}
    BY <1>2 DEF Guarded!Kept
  <2>5. Watched' /\ watched' \subseteq Guarded!Process /\ seen' \subseteq Guarded!Process
    BY <1>2, <2>2, <2>3, <2>4, SamplesKeep
      DEF Watched, Guarded!TypeOK, Guarded!Process
  <2>6. Guarded!TypeOK'
    BY <1>1, <1>2, <2>1, <2>5 DEF Guarded!TypeOK
  <2>7. NoneLeft'
    <3>1. watchPc' = "stopped" /\ ~missed' => watched' = Guarded!Selected
      BY <1>2 DEF Guarded!Kept
    <3>2. Guarded!Alive \cap seen' \subseteq watched'
      BY <1>2, <2>4, SamplesKeep
    <3> QED
      BY <1>2, <2>2, <3>1, <3>2 DEF NoneLeft
  <2>8. Enforcing'
    BY <1>1, <1>2, <2>3 DEF Enforcing, Looping, Guarded!Stopped
  <2> QED
    BY <2>5, <2>6, <2>7, <2>8
<1>3. CASE Guarded!Terminate
  <2>1. PICK failed \in BOOLEAN :
          \E Q \in SUBSET (Guarded!Alive \cap (Guarded!Members(failed) \cup guardedGroup)) :
            /\ watched' = Guarded!Kept(failed) /\ seen' = seen \cup watched'
            /\ guardedStatus' = Guarded!Dead(Q) /\ guardedParent' = Guarded!Orphaned(Q)
    BY <1>3 DEF Guarded!Terminate
  <2>2. PICK Q \in SUBSET (Guarded!Alive \cap (Guarded!Members(failed) \cup guardedGroup)) :
          /\ watched' = Guarded!Kept(failed) /\ seen' = seen \cup watched'
          /\ guardedStatus' = Guarded!Dead(Q) /\ guardedParent' = Guarded!Orphaned(Q)
    BY <2>1
  <2>3. Q \in SUBSET Guarded!Alive /\ Rest /\ missed' = missed /\ watchPc' = "grace"
    BY <1>3 DEF Guarded!Terminate, Guarded!Goto
  <2> QED
    BY <1>2, <2>2, <2>3
<1>4. CASE Guarded!Grace
  <2>1. PICK failed \in BOOLEAN :
           /\ watched' = Guarded!Kept(failed) /\ seen' = seen \cup watched'
           /\ missed' = (missed \/ failed) /\ guardedStatus' = Guarded!Reaped
           /\ Guarded!Goto(IF Guarded!Ended /\ Guarded!Members(failed) = {} THEN "stopped" ELSE "grace")
    BY <1>4 DEF Guarded!Grace
  <2>2. Rest /\ UNCHANGED guardedParent /\ watchPc' \in {"grace", "stopped"} /\ {} \in SUBSET Guarded!Alive
    BY <1>4, <2>1 DEF Guarded!Grace, Guarded!Goto
  <2>3. watchPc' = "stopped" /\ ~missed' => ~failed /\ Guarded!Alive \cap (Guarded!Selected \cup guardedGroup) \subseteq {}
    <3>1. watchPc' = "stopped" /\ ~missed' => ~failed /\ Guarded!Selected = {}
      BY <2>1 DEF Guarded!Goto, Guarded!Members
    <3>2. Guarded!Alive \cap guardedGroup \subseteq Guarded!Selected
      BY SelectedHasSeeds DEF Guarded!Seeds, Guarded!Alive, Guarded!Present
    <3> QED
      BY <3>1, <3>2
  <2> QED
    BY <1>2, <2>1, <2>2, <2>3
<1>5. CASE Guarded!GraceEnds
  BY <1>5
    DEF Guarded!GraceEnds, Guarded!Goto, Guarded!tree, Guarded!watchdog,
        Guarded!sampler, Guarded!TypeOK, Watched, NoneLeft, Enforcing, Looping,
        Guarded!Alive, Guarded!Ended
<1>6. CASE Guarded!Kill
  <2>1. PICK failed \in BOOLEAN :
           /\ watched' = Guarded!Kept(failed) /\ seen' = seen \cup watched'
           /\ missed' = (missed \/ failed)
           /\ guardedStatus' = Guarded!Dead(Guarded!Alive \cap (Guarded!Members(failed) \cup guardedGroup))
           /\ guardedParent' = Guarded!Orphaned(Guarded!Alive \cap (Guarded!Members(failed) \cup guardedGroup))
    BY <1>6 DEF Guarded!Kill
  <2>2. Rest /\ watchPc' = "stopped"
    BY <1>6 DEF Guarded!Kill, Guarded!Goto
  <2>3. ~missed' => ~failed /\ Guarded!Members(failed) = Guarded!Selected
    BY <2>1 DEF Guarded!Members
  <2> QED
    BY <1>2, <2>1, <2>2, <2>3
<1>7. CASE Guarded!Finish
  <2>1. /\ guardedStatus' \in [Guarded!Process -> {"none", "alive", "zombie", "gone"}] /\ Guarded!Alive' = Guarded!Alive
        /\ (Guarded!Ended => Guarded!Ended')
        /\ \A p \in Guarded!Process : guardedStatus[p] # "none" => guardedStatus'[p] # "none"
    BY <1>7, ReapedTypes
      DEF Guarded!Finish, Guarded!TypeOK, Guarded!Alive, Guarded!Ended,
          Guarded!Process
  <2> QED
    BY <1>1, <1>7, <2>1
      DEF Guarded!Finish, Guarded!Goto, Guarded!watchdog, Guarded!sampler,
          Guarded!TypeOK, Watched, NoneLeft, Enforcing, Looping, Guarded!Stopped,
          Guarded!Process
<1> QED
  BY <1>3, <1>4, <1>5, <1>6, <1>7

LEMMA WatchdogNext ==
  ASSUME Guarded!WatchdogAssumption, WatchdogIInv, [Guarded!Next]_Guarded!vars
  PROVE  WatchdogIInv'
<1>1. CASE UNCHANGED Guarded!vars
  BY <1>1
    DEF Guarded!vars, Guarded!tree, Guarded!watchdog, Guarded!sampler, WatchdogIInv,
        Guarded!TypeOK, Watched, NoneLeft, Enforcing, Guarded!Alive, Guarded!Ended
<1>2. CASE Guarded!Next
  BY <1>2, TreeKept, LoopKept, StopKept DEF Guarded!Next, Guarded!WatchdogStep
<1> QED
  BY <1>1, <1>2

LEMMA WatchdogPromises ==
    ASSUME WatchdogIInv PROVE Guarded!GroupEnds /\ Guarded!SeenEnd /\ Guarded!FinishedWasEnforced
  BY DEF WatchdogIInv, NoneLeft, Enforcing, Looping, Guarded!TypeOK,
         Guarded!GroupEnds, Guarded!SeenEnd, Guarded!FinishedWasEnforced

----------------------------------------------------------------------------
(* The four parts together                                                 *)

Assumptions == PartsAssumption /\ GuardedPlaces /\ ~ReuseKnown

JointIInv == GenerationIInv /\ GateIInv /\ WorkerIInv /\ Strangers /\ WatchdogIInv

LEMMA JointInit == ASSUME Assumptions, Init PROVE JointIInv
  BY GenerationInit, GateInit, SupervisorInit, StrangersInit, WatchdogInit
    DEF Assumptions, PartsAssumption, GenerationAssumptions, GateAssumptions, Init,
        JointIInv

\* A step is one of its part, and the variables of the others stay.
LEMMA StepsOfParts ==
    ASSUME [Next]_vars
    PROVE  /\ [Generation!Next]_Generation!vars
           /\ [Gate!Next]_Gate!vars
           /\ [Worker!Next]_Worker!vars
           /\ [Guarded!Next]_Guarded!vars
<1>1. UNCHANGED generation => UNCHANGED Generation!vars
  BY DEF generation, Generation!vars, Generation!caller, Generation!cache
<1>2. UNCHANGED gate => UNCHANGED Gate!vars
  BY DEF gate, Gate!vars, Gate!gate, Gate!compiler, Gate!files, Gate!bounds
<1>3. UNCHANGED supervisor => UNCHANGED Worker!vars
  BY DEF supervisor, Worker!vars, Worker!tree, Worker!monitor, Worker!verdict,
         Worker!ghosts
<1>4. UNCHANGED watchdog => UNCHANGED Guarded!vars
  BY DEF watchdog, Guarded!vars, Guarded!tree, Guarded!watchdog, Guarded!sampler
<1>5. CASE UNCHANGED vars
  BY <1>1, <1>2, <1>3, <1>4, <1>5 DEF vars
<1> QED
  BY <1>1, <1>2, <1>3, <1>4, <1>5 DEF Next

LEMMA JointNext == ASSUME Assumptions, JointIInv, [Next]_vars PROVE JointIInv'
  BY StepsOfParts, GenerationNext, GateNext, WorkerNext, StrangersNext, WatchdogNext
  DEF Assumptions, PartsAssumption, GenerationAssumptions, GateAssumptions, JointIInv

\* The inductive invariant holds throughout.
THEOREM Invariant == ASSUME Assumptions PROVE Spec => []JointIInv
<1>1. Init => JointIInv
  BY JointInit
<1>2. JointIInv /\ [Next]_vars => JointIInv'
  BY JointNext
<1> QED
  BY <1>1, <1>2, PTL DEF Spec

\* The types of the four parts, a slot that belongs to a call that may use it,
\* and reasons to end only where the supervisor and the watchdog end.
THEOREM TypeCorrect == ASSUME Assumptions PROVE Spec => []TypeOK
<1>1. JointIInv => TypeOK
  BY DEF JointIInv, GenerationIInv, GateIInv, WorkerIInv, WatchdogIInv, TypeOK
<1> QED
  BY <1>1, Invariant, PTL

\* What was started does not outlive the one who answers for it: operations,
\* compilers, temporary libraries, the tree of a worker, a guarded command.
THEOREM OwnersOutlive == ASSUME Assumptions PROVE Spec => []NothingOutlivesItsOwner
<1>1. GenerationIInv => Generation!NoStraggler
  BY DEF GenerationIInv, Generation!TypeOK, Ending, Generation!NoStraggler
<1>2. GateAssumptions /\ GateIInv => Gate!SlotsBoundCompilers /\ Gate!NothingLeft
  BY CompilersHaveSlots, NothingIsLeft
<1>3. WorkerIInv => Worker!KnownTreeEnds
  BY DEF WorkerIInv, WorkerEnding
<1>4. WatchdogIInv => Guarded!GroupEnds /\ Guarded!SeenEnd
  BY WatchdogPromises
<1>5. JointIInv => NothingOutlivesItsOwner
  BY <1>1, <1>2, <1>3, <1>4
    DEF Assumptions, PartsAssumption, GateAssumptions, JointIInv,
        NothingOutlivesItsOwner
<1> QED
  BY <1>5, Invariant, PTL

\* A success that is reported happened: the outputs of a generation, the
\* library of a call, a completed worker and a finished command.
THEOREM SuccessesAreReal == ASSUME Assumptions PROVE Spec => []SuccessIsReal
<1>1. GenerationIInv => Generation!OutputsInOrder /\ Generation!FailuresAreRaised
  BY OutputsAreInOrder, FailuresAreNamed
<1>2. GateIInv => Gate!PublishedComplete
  BY DEF GateIInv, CallInv, Success, Gate!PublishedComplete
<1>3. WorkerIInv => Worker!CompletedIsClean /\ Worker!RetryFailsClosed
  BY DEF WorkerIInv, Worker!TypeOK, Closing, Retrying, Worker!RetryFailsClosed,
         Worker!Teardown
<1>4. WatchdogIInv => Guarded!FinishedWasEnforced
  BY WatchdogPromises
<1>5. JointIInv => SuccessIsReal
  BY <1>1, <1>2, <1>3, <1>4 DEF JointIInv, SuccessIsReal
<1> QED
  BY <1>5, Invariant, PTL

\* Nobody is harmed or kept waiting by the work of another: one lowering for a
\* class, its waiters are served, and no stranger is signalled.
THEOREM NobodyIsHarmed == ASSUME Assumptions PROVE Spec => []OthersUnharmed
<1>1. GenerationIInv => Generation!LoweredOnce /\ Generation!WaitersAreServed
  BY DEF GenerationIInv, Cache, Sharing, Generation!WaitersAreServed, Generation!At
<1>2. JointIInv => OthersUnharmed
  BY <1>1 DEF JointIInv, Strangers, OthersUnharmed
<1> QED
  BY <1>2, Invariant, PTL
=============================================================================
