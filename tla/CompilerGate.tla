--------------------------- MODULE CompilerGate ---------------------------
(***************************************************************************)
(* The compilation of a native evaluator behind the slot gate that all     *)
(* controllers of a machine share (evaluators/native_direct_cpp.py).       *)
(*                                                                         *)
(* A call polls the lock files of the slots in their order until it holds  *)
(* one, runs the compiler in a session of its own, and releases the slot   *)
(* when the compiler ended, or was terminated because of the timeout or an *)
(* interrupt.  It then publishes the library that the compiler wrote under *)
(* a temporary name, or removes it.                                        *)
(*                                                                         *)
(* Abstraction: every process makes one call.  A compiler is a driver that *)
(* starts one tool, which writes the library; both hold the driver's       *)
(* pipes.  A compiler may hang; a signal may come too late for the grace   *)
(* period.  Interruptible bounds where an interrupt is considered.         *)
(***************************************************************************)
EXTENDS Naturals, FiniteSets

CONSTANTS
    Process,
    Slots,          \* slot_count
    Interruptible,  \* places where an interrupt may arrive
    MaxInterrupts,  \* bound of the interrupts of one call
    MaxDeaths,      \* bound of the processes killed
    Free

Places == {"idle", "polling", "starting", "launched", "waiting", "stopping",
           "grace", "killing", "reaping", "releasing", "publishing", "ended", "dead"}
Stopping == {"stopping", "grace", "killing", "reaping"}

GateAssumption ==
    /\ Slots \in Nat \ {0} /\ MaxInterrupts \in Nat /\ MaxDeaths \in Nat
    /\ Interruptible \subseteq {"polling", "starting", "launched", "waiting"} \cup Stopping
    /\ Free \notin Process /\ IsFiniteSet(Process)

VARIABLES
    holder,     \* holder[s]: the process that holds the lock of slot s
    pc,         \* pc[p]: where the call of p is
    index,      \* index[p]: the slot it tries next
    outcome,    \* outcome[p]: how the call ends
    alive,      \* alive[p]: living members of the compiler's process group
    signal,     \* signal[p]: the last signal the group was sent
    code,       \* code[p]: the driver's return code, "none" while it runs
    temporary,  \* temporary[p]: the library under its temporary name
    library,    \* library[p]: the library under its name
    interrupts, \* interrupts[p]: interrupts of the call
    deaths      \* processes killed

gate == <<holder, index>>
compiler == <<alive, signal, code>>
files == <<temporary, library>>
bounds == <<interrupts, deaths>>
vars == <<gate, pc, outcome, compiler, files, bounds>>

Slot == 1..Slots

Init ==
    /\ holder = [s \in Slot |-> Free]
    /\ pc = [p \in Process |-> "idle"]
    /\ index = [p \in Process |-> 1]
    /\ outcome = [p \in Process |-> "none"]
    /\ alive = [p \in Process |-> {}]
    /\ signal = [p \in Process |-> "none"]
    /\ code = [p \in Process |-> "none"]
    /\ temporary = [p \in Process |-> "none"]
    /\ library = [p \in Process |-> "none"]
    /\ interrupts = [p \in Process |-> 0]
    /\ deaths = 0

Goto(p, to) == pc' = [pc EXCEPT ![p] = to]
EndAs(p, how) == outcome' = [outcome EXCEPT ![p] = how]
Unlink(p) == temporary' = [temporary EXCEPT ![p] = "none"]

----------------------------------------------------------------------------
(* _native_compiler_gate                                                   *)

\* The lock files are opened, or the gate cannot be initialised.
Enter(p) ==
    /\ pc[p] = "idle"
    /\ \/ Goto(p, "polling") /\ UNCHANGED outcome
       \/ Goto(p, "ended") /\ EndAs(p, "failed")
    /\ UNCHANGED <<gate, compiler, files, bounds>>

Take(p) ==
    /\ pc[p] = "polling" /\ index[p] \in Slot /\ holder[index[p]] = Free
    /\ holder' = [holder EXCEPT ![index[p]] = p]
    /\ Goto(p, "starting")
    /\ UNCHANGED <<index, outcome, compiler, files, bounds>>

Blocked(p) ==
    /\ pc[p] = "polling" /\ index[p] \in Slot /\ holder[index[p]] # Free
    /\ index' = [index EXCEPT ![p] = @ + 1]
    /\ UNCHANGED <<holder, pc, outcome, compiler, files, bounds>>

\* The sleep before the slots are tried again.
Sleep(p) ==
    /\ pc[p] = "polling" /\ index[p] \notin Slot
    /\ index' = [index EXCEPT ![p] = 1]
    /\ UNCHANGED <<holder, pc, outcome, compiler, files, bounds>>

Returned == {"compiled", "refused"}
Without(p) == [s \in Slot |-> IF holder[s] = p THEN Free ELSE holder[s]]

\* Mutant: the slot of a call that failed is not released.
ReleaseSuccessful(p) ==
    /\ pc[p] = "releasing"
    /\ holder' = IF outcome[p] = "compiled" THEN Without(p) ELSE holder
    /\ Goto(p, IF outcome[p] \in Returned THEN "publishing" ELSE "ended")
    /\ UNCHANGED <<index, outcome, compiler, files, bounds>>

\* The finally clause: unlock and close, whatever happened.
Release(p) ==
    /\ pc[p] = "releasing"
    /\ holder' = Without(p)
    /\ Goto(p, IF outcome[p] \in Returned THEN "publishing" ELSE "ended")
    /\ UNCHANGED <<index, outcome, compiler, files, bounds>>

----------------------------------------------------------------------------
(* The compiler: a driver and its tool                                     *)

StartTool(p) ==
    /\ alive[p] = {"driver"} /\ temporary[p] = "none" /\ signal[p] = "none"
    /\ alive' = [alive EXCEPT ![p] = {"driver", "tool"}]
    /\ temporary' = [temporary EXCEPT ![p] = "partial"]
    /\ UNCHANGED <<gate, pc, outcome, signal, code, library, bounds>>

\* The tool ends with the library written, or not.
EndTool(p) ==
    /\ "tool" \in alive[p]
    /\ alive' = [alive EXCEPT ![p] = @ \ {"tool"}]
    /\ temporary' \in {temporary, [temporary EXCEPT ![p] = "complete"]}
    /\ UNCHANGED <<gate, pc, outcome, signal, code, library, bounds>>

\* The driver ends after its tool; a failed one may leave what it wrote.
EndDriver(p) ==
    /\ alive[p] = {"driver"} /\ temporary[p] # "none"
    /\ alive' = [alive EXCEPT ![p] = {}]
    /\ \/ /\ temporary[p] = "complete"
          /\ code' = [code EXCEPT ![p] = "zero"] /\ UNCHANGED temporary
       \/ /\ code' = [code EXCEPT ![p] = "other"]
          /\ temporary' \in {temporary, [temporary EXCEPT ![p] = "none"]}
    /\ UNCHANGED <<gate, pc, outcome, signal, library, bounds>>

\* A signalled member dies; the tool may outlive the driver.
Obey(p, m) ==
    /\ signal[p] # "none" /\ m \in alive[p]
    /\ alive' = [alive EXCEPT ![p] = @ \ {m}]
    /\ code' = IF m = "driver" THEN [code EXCEPT ![p] = "other"] ELSE code
    /\ UNCHANGED <<gate, pc, outcome, signal, files, bounds>>

----------------------------------------------------------------------------
(* _run_native_compiler and _terminate_native_compiler_tree                *)

\* Popen returns, or raises.
Launch(p) ==
    /\ pc[p] = "starting"
    /\ \/ alive' = [alive EXCEPT ![p] = {"driver"}] /\ Goto(p, "launched")
          /\ UNCHANGED outcome
       \/ Goto(p, "releasing") /\ EndAs(p, "failed") /\ UNCHANGED alive
    /\ UNCHANGED <<gate, signal, code, files, bounds>>

Communicate(p) ==
    /\ pc[p] = "launched" /\ Goto(p, "waiting")
    /\ UNCHANGED <<gate, outcome, compiler, files, bounds>>

\* Mutant: a file of the temporary name stands for success.
FinishWritten(p) ==
    /\ pc[p] = "waiting" /\ alive[p] = {}
    /\ Goto(p, "releasing")
    /\ EndAs(p, IF temporary[p] # "none" THEN "compiled" ELSE "refused")
    /\ UNCHANGED <<gate, compiler, files, bounds>>

\* communicate returns: the driver was reaped and nobody holds its pipes.
Finish(p) ==
    /\ pc[p] = "waiting" /\ alive[p] = {}
    /\ Goto(p, "releasing")
    /\ EndAs(p, IF code[p] = "zero" THEN "compiled" ELSE "refused")
    /\ UNCHANGED <<gate, compiler, files, bounds>>

\* Mutant: the timeout is reported without terminating the compiler.
TimeoutReported(p) ==
    /\ pc[p] = "waiting" /\ alive[p] # {}
    /\ Goto(p, "releasing") /\ EndAs(p, "failed")
    /\ UNCHANGED <<gate, compiler, files, bounds>>

Timeout(p) ==
    /\ pc[p] = "waiting" /\ alive[p] # {}
    /\ Goto(p, "stopping") /\ EndAs(p, "failed")
    /\ UNCHANGED <<gate, compiler, files, bounds>>

Terminate(p) ==
    /\ pc[p] = "stopping"
    /\ signal' = [signal EXCEPT ![p] = "term"]
    /\ Goto(p, "grace")
    /\ UNCHANGED <<gate, outcome, alive, code, files, bounds>>

\* The tree ended, or the grace period did.
GraceEnds(p) ==
    /\ pc[p] = "grace" /\ Goto(p, "killing")
    /\ UNCHANGED <<gate, outcome, compiler, files, bounds>>

KillGroup(p) ==
    /\ pc[p] = "killing"
    /\ signal' = IF alive[p] = {} THEN signal ELSE [signal EXCEPT ![p] = "kill"]
    /\ Goto(p, "reaping")
    /\ UNCHANGED <<gate, outcome, alive, code, files, bounds>>

Reap(p) ==
    /\ pc[p] = "reaping" /\ alive[p] = {}
    /\ Unlink(p) /\ Goto(p, "releasing")
    /\ UNCHANGED <<gate, outcome, compiler, library, bounds>>

\* The group outlives its second grace period: the cleanup reports it.
GiveUp(p) ==
    /\ pc[p] = "reaping" /\ alive[p] # {}
    /\ EndAs(p, "left") /\ Unlink(p) /\ Goto(p, "releasing")
    /\ UNCHANGED <<gate, compiler, library, bounds>>

\* KeyboardInterrupt.  Only the communication is inside the try statement.
Interrupt(p) ==
    /\ pc[p] \in Interruptible /\ interrupts[p] < MaxInterrupts
    /\ interrupts' = [interrupts EXCEPT ![p] = @ + 1]
    /\ EndAs(p, "failed")
    /\ IF pc[p] = "waiting" THEN Goto(p, "stopping") /\ UNCHANGED temporary
                            ELSE Goto(p, "releasing") /\ Unlink(p)
    /\ UNCHANGED <<gate, compiler, library, deaths>>

----------------------------------------------------------------------------
(* compile_native_direct_cpp                                               *)

\* Mutant: what a failed compiler wrote stays.
PublishUnremoved(p) ==
    /\ pc[p] = "publishing"
    /\ IF outcome[p] = "compiled"
       THEN Unlink(p) /\ library' = [library EXCEPT ![p] = temporary[p]]
       ELSE UNCHANGED files
    /\ Goto(p, "ended")
    /\ UNCHANGED <<gate, outcome, compiler, bounds>>

\* Outside the gate: the library is published, unless that fails, or removed.
Publish(p) ==
    /\ pc[p] = "publishing"
    /\ \/ /\ outcome[p] = "compiled"
          /\ library' \in {library, [library EXCEPT ![p] = temporary[p]]}
       \/ outcome[p] = "refused" /\ UNCHANGED library
    /\ Unlink(p) /\ Goto(p, "ended")
    /\ UNCHANGED <<gate, outcome, compiler, bounds>>

\* The process is killed: its locks go, its compiler stays.
Die(p) ==
    /\ pc[p] \notin {"idle", "ended", "dead"} /\ deaths < MaxDeaths
    /\ deaths' = deaths + 1
    /\ holder' = Without(p)
    /\ Goto(p, "dead")
    /\ UNCHANGED <<index, outcome, compiler, files, interrupts>>

----------------------------------------------------------------------------
CallStep(p) ==
    \/ Enter(p) \/ Take(p) \/ Blocked(p) \/ Sleep(p) \/ Launch(p) \/ Communicate(p)
    \/ Finish(p) \/ Timeout(p) \/ Terminate(p) \/ GraceEnds(p) \/ KillGroup(p)
    \/ Reap(p) \/ GiveUp(p) \/ Release(p) \/ Publish(p)
CompilerStep(p) ==
    StartTool(p) \/ EndTool(p) \/ EndDriver(p) \/ \E m \in alive[p] : Obey(p, m)
Next == \E p \in Process : CallStep(p) \/ CompilerStep(p) \/ Interrupt(p) \/ Die(p)

\* A call never waits without a timeout or a poll, but for a compiler nothing
\* is promised.
Fairness == \A p \in Process : WF_vars(CallStep(p))
Spec == Init /\ [][Next]_vars /\ Fairness

----------------------------------------------------------------------------
(* Properties                                                              *)

\* A call that waits for a compiler, holds a slot or stops a compiler is
\* consistent with the gate and the compiler.
TypeOK ==
    /\ holder \in [Slot -> Process \cup {Free}]
    /\ pc \in [Process -> Places]
    /\ index \in [Process -> 1..(Slots + 1)]
    /\ outcome \in [Process -> {"none", "compiled", "refused", "failed", "left"}]
    /\ alive \in [Process -> SUBSET {"driver", "tool"}]
    /\ signal \in [Process -> {"none", "term", "kill"}]
    /\ code \in [Process -> {"none", "zero", "other"}]
    /\ \A f \in {temporary, library} : f \in [Process -> {"none", "partial", "complete"}]
    /\ interrupts \in [Process -> 0..MaxInterrupts] /\ deaths \in 0..MaxDeaths
    /\ \A s \in Slot : holder[s] # Free => pc[holder[s]] \notin {"idle", "polling", "ended"}

Running == {p \in Process : alive[p] # {}}
Abandoned == {p \in Process : pc[p] = "dead" \/ outcome[p] = "left"}

\* The gate bounds the compilers of all controllers together: no more run than
\* there are slots, but for those of a killed process and those whose failed
\* cleanup was reported.
SlotsBoundCompilers == Cardinality(Running \ Abandoned) <= Slots

\* A library under its name was written by a compiler that succeeded, whichever
\* timeout, signal, interrupt or kill came before or after.
PublishedComplete ==
    \A p \in Process : library[p] # "none" => library[p] = "complete" /\ code[p] = "zero"

\* A call that ended leaves no file under the temporary name, unless its
\* compiler was left alive to write one.
NothingLeft ==
    \A p \in Process : pc[p] = "ended" /\ outcome[p] # "left" => temporary[p] = "none"
============================================================================
