---------------------------- MODULE GuardedWork ----------------------------
(***************************************************************************)
(* The four parts that start work and answer for it: the phases of a       *)
(* generation (GenerationPhases), the compiler behind its gate             *)
(* (CompilerGate), the supervisor of a campaign worker (WorkerSupervisor)  *)
(* and the memory watchdog (MemoryWatchdog).  They share no state.  A      *)
(* behaviour is one of one of them, chosen by part; the variables of the   *)
(* others keep their initial values.                                       *)
(***************************************************************************)
EXTENDS Naturals

CONSTANTS
    Items, Class, Malformed, Phases, Pooled, Cached, MaxWorkers,
    Caller, Slots, Interruptible, MaxInterrupts, MaxDeaths, Free,
    Descendant, root, stranger, Init0, ReuseKnown,
    Forked, Limit

VARIABLES part,
    workers, main, phase, next, inputs, active, ordered, error, blamed,
    temporary, task, threads, owner, future, refused,
    holder, callPc, index, callOutcome, alive, signal, driverCode, unpublished,
    library, interrupts, deaths,
    status, parent, grouped, doomed, code, file, excess, cancelled, pc,
    recorded, known, members, captured, failing, failures, phaseState,
    phaseError, zero, aim, requested, reason, blind, crossed, touched, disturbed,
    guardedStatus, guardedParent, guardedGroup, watchPc, received, probeFailures,
    watched, over, watchOutcome, unwatched, exceeded, seen, missed

Generation == INSTANCE GenerationPhases

Gate == INSTANCE CompilerGate WITH
    Process <- Caller, pc <- callPc, outcome <- callOutcome, code <- driverCode,
    temporary <- unpublished

Worker == INSTANCE WorkerSupervisor WITH phase <- phaseState

Guarded == INSTANCE MemoryWatchdog WITH
    Descendant <- Forked, status <- guardedStatus, parent <- guardedParent,
    grouped <- guardedGroup, pc <- watchPc, failures <- probeFailures,
    known <- watched, outcome <- watchOutcome, blind <- unwatched

PartsAssumption ==
    /\ Generation!SizeAssumption /\ Generation!ShapeAssumption
    /\ Gate!GateAssumption
    /\ Worker!SupervisorAssumption
    /\ Guarded!WatchdogAssumption

Parts == {"generation", "gate", "worker", "guarded"}
generation == <<workers, main, phase, next, inputs, active, ordered, error, blamed,
    temporary, task, threads, owner, future, refused>>
gate == <<holder, callPc, index, callOutcome, alive, signal, driverCode, unpublished,
    library, interrupts, deaths>>
supervisor == <<status, parent, grouped, doomed, code, file, excess, cancelled, pc,
    recorded, known, members, captured, failing, failures, phaseState, phaseError,
    zero, aim, requested, reason, blind, crossed, touched, disturbed>>
watchdog == <<guardedStatus, guardedParent, guardedGroup, watchPc, received,
    probeFailures, watched, over, watchOutcome, unwatched, exceeded, seen, missed>>
vars == <<part, generation, gate, supervisor, watchdog>>

Init ==
    /\ part \in Parts
    /\ Generation!Init /\ Gate!Init /\ Worker!Init /\ Guarded!Init
    /\ part # "generation" => workers = 1 /\ refused = {}

Next ==
    /\ UNCHANGED part
    /\ \/ /\ part = "generation" /\ Generation!Next
          /\ UNCHANGED <<gate, supervisor, watchdog>>
       \/ /\ part = "gate" /\ Gate!Next
          /\ UNCHANGED <<generation, supervisor, watchdog>>
       \/ /\ part = "worker" /\ Worker!Next
          /\ UNCHANGED <<generation, gate, watchdog>>
       \/ /\ part = "guarded" /\ Guarded!Next
          /\ UNCHANGED <<generation, gate, supervisor>>

\* The fairness that each module states of itself.
Fairness ==
    /\ WF_generation(part = "generation" /\ Generation!CallerStep)
    /\ \A i \in Generation!Index : WF_generation(part = "generation" /\ Generation!TaskStep(i))
    /\ \A p \in Caller : WF_gate(part = "gate" /\ Gate!CallStep(p))
    /\ WF_supervisor(part = "worker" /\ Worker!SupervisorStep)
    /\ WF_supervisor(part = "worker" /\ Worker!GraceEnds)
    /\ WF_supervisor(part = "worker" /\ \E p \in Worker!Process : Worker!Reap(p))
    /\ WF_watchdog(part = "guarded" /\ Guarded!WatchdogStep)
    /\ WF_watchdog(part = "guarded" /\ Guarded!GraceEnds)
Spec == Init /\ [][Next]_vars /\ Fairness

----------------------------------------------------------------------------
TypeOK == Generation!TypeOK /\ Gate!TypeOK /\ Worker!TypeOK /\ Guarded!TypeOK

\* What was started does not outlive the one who answers for it: no operation
\* of a generation runs without its temporary directory; no more compilers run
\* than there are slots, and a call leaves no temporary library; nobody of a
\* worker's known tree lives when its supervisor returns; nobody a terminated
\* command had in its group or in a sample lives when the watchdog ends.
NothingOutlivesItsOwner ==
    /\ Generation!NoStraggler
    /\ Gate!SlotsBoundCompilers /\ Gate!NothingLeft
    /\ Worker!KnownTreeEnds
    /\ Guarded!GroupEnds /\ Guarded!SeenEnd

\* A success that is reported happened: what a generation writes holds the
\* result of every process, the library of a call is one whose compiler
\* succeeded, a completed worker closed its interval within its limits and
\* while it was watched, and so did a command that finished.
SuccessIsReal ==
    /\ Generation!OutputsInOrder /\ Generation!FailuresAreRaised
    /\ Gate!PublishedComplete
    /\ Worker!CompletedIsClean /\ Worker!RetryFailsClosed
    /\ Guarded!FinishedWasEnforced

\* Nobody is harmed or kept waiting by the work of another: a class of
\* processes is lowered once and who waits for it is served, and no signal of
\* a supervisor reaches a process that never was its worker's.
OthersUnharmed ==
    /\ Generation!LoweredOnce /\ Generation!WaitersAreServed
    /\ Worker!StrangersUntouched

\* A reason to come to an end, and the end.
Due ==
    \/ part \in {"generation", "gate"}
    \/ part = "worker" /\ (Worker!Ended \/ cancelled \/ recorded)
    \/ part = "guarded" /\ (Guarded!Ended \/ received \/ exceeded)
Settled ==
    \/ main \in {"returned", "raised"}
    \/ \A p \in Caller : callPc[p] \in {"ended", "dead"}
    \/ pc = "done"
    \/ watchPc = "ended"

\* A generation ends, the calls at the gate do whatever their compilers do, a
\* supervisor returns once its worker ended, was cancelled or was found to
\* violate a limit, unless its last sample before SIGKILL fails or
\* the tree changes after it, and a watchdog does once its command ended, it
\* was signalled or a sample was over the limit.
EverythingEnds == Due ~> (Settled \/ disturbed)
=============================================================================
