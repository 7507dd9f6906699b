-------------------------- MODULE WorkerSupervisor --------------------------
(***************************************************************************)
(* The supervisor of a campaign worker (tools/performance_report/          *)
(* resources.py, supervise_worker): it starts a worker in a session of its *)
(* own, watches its memory, its output files, its phase file and its time, *)
(* and returns one reason for the end when the known process tree is gone. *)
(*                                                                         *)
(* The processes of the tree run at their own pace between two steps of    *)
(* the supervisor; its storage thread is the action Record.  A process     *)
(* that got SIGKILL may take a while to end.                               *)
(*                                                                         *)
(* Abstraction: the metered sizes and times are choices of the steps that  *)
(* compare them.  A teardown refresh (sample, capture, probe) is one step. *)
(* ReuseKnown bounds whether the system may give away an identifier        *)
(* between two samples; none is given away between the probe of its owner  *)
(* and the signal that follows.                                            *)
(***************************************************************************)
EXTENDS Naturals, FiniteSets

CONSTANTS
    Descendant,    \* processes the root may start, directly or not
    root,
    stranger,      \* a child of an unrelated process
    Init0,         \* the parent of orphans and of the root
    ReuseKnown     \* an identifier of the last sample may be reused

Process == Descendant \cup {root}
Pid == Process \cup {stranger}

SupervisorAssumption ==
    /\ root \notin Descendant /\ stranger \notin Process /\ Init0 \notin Pid
    /\ IsFiniteSet(Descendant)
    /\ ReuseKnown \in BOOLEAN

VARIABLES
    status,    \* status[p]: "none", "alive", "gone" or, when reused, "foreign"
    parent,    \* parent[p]
    grouped,   \* processes of the root's process group
    doomed,    \* processes that got SIGKILL and have not ended yet
    code,      \* exit code of the root: "none", "zero" or "failed"
    file,      \* the phase file: "none", "generation" or "closed"
    excess,    \* an output limit is crossed
    cancelled, \* cancellation_requested()
    pc,        \* where the supervisor is
    recorded,  \* storage_violation is not None
    known,     \* _known_pids of the sampler
    members,   \* monitor.member_pids
    captured,  \* observed_process_identities
    failing,   \* the current usage has a memory_probe_reason
    failures,  \* consecutive_memory_probe_failures
    phase,     \* phase_state: "none", "generation" or "closed"
    phaseError,\* phase_error is not None
    zero,      \* zero_reason of the exit it classifies
    aim,       \* the live identities it is about to signal
    requested, \* tree_termination_requested
    reason,    \* the reason it will return, "none" before
    blind,     \* when the root exited with failures pending
    crossed,   \* a limit was crossed when the root exited
    touched,   \* a process outside of the tree was signalled
    disturbed  \* the last sample before SIGKILL failed, or the tree changed later

tree == <<status, parent, grouped, doomed, code, file, blind, crossed>>
monitor == <<known, members, captured, failing>>
verdict == <<failures, phase, phaseError, zero, requested, reason>>
ghosts == <<touched, disturbed>>
vars == <<tree, excess, cancelled, pc, recorded, monitor, verdict, aim, ghosts>>

NoAim == [group |-> FALSE, out |-> {}]

Init ==
    /\ status = [p \in Pid |-> IF p = root THEN "alive" ELSE "none"]
    /\ parent = [p \in Pid |-> Init0]
    /\ grouped = {root} /\ doomed = {} /\ code = "none" /\ file = "none"
    /\ excess = FALSE /\ cancelled = FALSE /\ pc = "top" /\ recorded = FALSE
    /\ known = {root} /\ members = {} /\ captured = {root}
    /\ failing = FALSE /\ failures = 0 /\ phase = "none" /\ phaseError = FALSE
    /\ zero = "none" /\ aim = NoAim /\ requested = FALSE /\ reason = "none"
    /\ blind = "no" /\ crossed = FALSE /\ touched = FALSE /\ disturbed = FALSE

Alive == {p \in Process : status[p] = "alive"}
Present == {p \in Pid : status[p] \in {"alive", "foreign"}}
Teardown == {"sigterm", "grace", "sigkill", "reaping"}

----------------------------------------------------------------------------
(* The worker, its descendants and the system                              *)

Running == Alive \ doomed
Aside == <<excess, cancelled, pc, recorded, monitor, verdict, aim, touched>>
Disturb == disturbed' = (disturbed \/ pc \in {"sigkill", "reaping"})

Fork(p, q) ==
    /\ p \in Running /\ q # root /\ status[q] = "none"
    /\ status' = [status EXCEPT ![q] = "alive"]
    /\ parent' = [parent EXCEPT ![q] = p]
    /\ grouped' = IF p \in grouped THEN grouped \cup {q} ELSE grouped
    /\ UNCHANGED <<doomed, code, file, blind, crossed, Aside>>
    /\ Disturb

\* A descendant opens a session or process group of its own.
LeaveGroup(q) ==
    /\ q \in Running \cap grouped /\ q # root
    /\ grouped' = grouped \ {q}
    /\ UNCHANGED <<status, parent, doomed, code, file, blind, crossed, Aside>>
    /\ Disturb

\* The processes of Q end; the root leaves an exit code.
Ends(Q) ==
    /\ status' = [p \in Pid |-> IF p \in Q THEN "gone" ELSE status[p]]
    /\ parent' = [p \in Pid |-> IF parent[p] \in Q THEN Init0 ELSE parent[p]]
    /\ grouped' = grouped \ Q
    /\ doomed' = doomed \ Q
    /\ IF root \in Q
       THEN /\ code' \in IF root \in doomed THEN {"failed"} ELSE {"zero", "failed"}
            /\ crossed' = excess
            /\ blind' = CASE failures = 0 \/ reason # "none" -> "no"
                          [] pc \in {"sampling", "capturing", "polling"} -> "sampling"
                          [] OTHER -> "waiting"
       ELSE UNCHANGED <<code, crossed, blind>>

Exit(p) == p \in Alive /\ Ends({p}) /\ UNCHANGED <<file, Aside, disturbed>>
Reap(p) == p \in doomed /\ Exit(p)

\* The identifier of a process that ended goes to an unrelated process, which
\* has a child.
Reuse(p) ==
    /\ status[p] = "gone" /\ p \in captured \ {root} /\ status[stranger] = "none"
    /\ ReuseKnown \/ p \notin known
    /\ pc \notin {"sigterm", "sigkill"}
    /\ status' = [status EXCEPT ![p] = "foreign", ![stranger] = "foreign"]
    /\ parent' = [parent EXCEPT ![p] = Init0, ![stranger] = p]
    /\ UNCHANGED <<grouped, doomed, code, file, blind, crossed, Aside, disturbed>>

\* The worker opens and closes its generation interval.
Publish ==
    /\ root \in Running /\ file # "closed"
    /\ file' = IF file = "none" THEN "generation" ELSE "closed"
    /\ UNCHANGED <<status, parent, grouped, doomed, code, blind, crossed, Aside, disturbed>>

\* A process of the tree writes past an output limit.
Write ==
    /\ Running # {} /\ ~excess /\ pc # "done" /\ excess' = TRUE
    /\ UNCHANGED <<tree, cancelled, pc, recorded, monitor, verdict, aim, ghosts>>

Cancel ==
    /\ ~cancelled /\ pc # "done" /\ cancelled' = TRUE
    /\ UNCHANGED <<tree, excess, pc, recorded, monitor, verdict, aim, ghosts>>

\* watch_storage_safety, the storage thread.
Record ==
    /\ excess /\ ~recorded /\ pc # "done" /\ recorded' = TRUE
    /\ UNCHANGED <<tree, excess, cancelled, pc, monitor, verdict, aim, ghosts>>

World ==
    \/ \E p \in Process : Exit(p) \/ LeaveGroup(p) \/ Reuse(p)
                          \/ \E q \in Process : Fork(p, q)
    \/ Publish \/ Write \/ Cancel \/ Record

----------------------------------------------------------------------------
(* Samples and identities                                                  *)

Children(S) == {p \in Present : parent[p] \in S}

\* ProcessTreeSampler.sample: the known processes and all their descendants,
\* the least set that has the ones and, with a process, its children.
Closed(S) == (known \cup {root}) \cap Present \subseteq S /\ Children(S) \subseteq S
Selected == {p \in Present : \A S \in SUBSET Pid : Closed(S) => p \in S}

\* A sample succeeds, or fails before or after the tree was walked; a failed
\* one leaves the members of the last.
Sampled ==
    \/ known' = Selected /\ members' = Selected /\ failing' = FALSE
    \/ known' \in {known, Selected} /\ failing' = TRUE /\ UNCHANGED members

\* Mutant: a live process with a captured identifier is a descendant.
SurvivorsByPid(identities) == (identities \ {root}) \cap Present

\* Captured descendants that still have the birth they were captured with.
Survivors(identities) ==
    {p \in identities \ {root} : status[p] = IF p = stranger THEN "foreign" ELSE "alive"}

Ended == code # "none"

AimAt(S) == [group |-> ~Ended \/ S \cap grouped # {}, out |-> S \ grouped]
\* Mutant: the members outside of the group are not signalled.
TargetsOfGroup == IF aim.group THEN grouped ELSE {}

\* The process group if it is live, and the survivors that left it.
Targets == (IF aim.group THEN grouped ELSE {}) \cup aim.out

----------------------------------------------------------------------------
(* The loop of supervise_worker                                            *)

Goto(to) == pc' = to
SameVerdict == UNCHANGED verdict

\* terminate(): the first reason stays; a tree that is gone needs no signal.
Terminate(why) ==
    /\ reason' = why /\ requested' = TRUE
    /\ IF Ended /\ Survivors(captured) = {}
       THEN Goto("done") /\ UNCHANGED aim
       ELSE Goto("sigterm") /\ aim' = AimAt(Survivors(captured))

Boundary(why) == Goto("boundary") /\ zero' = why

\* observe_phase and the final checks of classify_process_exit.
Observe == phase' = IF file = "none" THEN phase ELSE file
Classify ==
    /\ Observe
    /\ phaseError' = (phaseError \/ phase' # "closed")
    /\ reason' = CASE code = "failed" -> "worker_exit"
                   [] code = "zero" /\ phaseError' -> "phase_state_error"
                   [] OTHER -> zero

Violation == recorded \/ excess

Top ==
    /\ pc = "top"
    /\ \/ ~Violation /\ Goto("cancel") /\ UNCHANGED <<verdict, aim>>
       \/ /\ Violation /\ code = "failed" /\ Classify /\ Goto("finally")
          /\ UNCHANGED <<failures, zero, requested, aim>>
       \/ /\ Violation /\ code # "failed" /\ Terminate("storage")
          /\ UNCHANGED <<failures, phase, phaseError, zero>>
    /\ UNCHANGED <<tree, excess, cancelled, recorded, monitor, ghosts>>

\* Mutant: no poll between a failed probe and the next one.
CancelUnpolled ==
    /\ pc = "cancel"
    /\ \/ /\ cancelled /\ ~Ended /\ Terminate("cancelled")
          /\ UNCHANGED <<failures, phase, phaseError, zero>>
       \/ /\ cancelled /\ Ended /\ Boundary("cancelled")
          /\ UNCHANGED <<failures, phase, phaseError, requested, reason, aim>>
       \/ ~cancelled /\ Goto("sampling") /\ UNCHANGED <<verdict, aim>>
    /\ UNCHANGED <<tree, excess, cancelled, recorded, monitor, ghosts>>

\* A cancellation, then a root that exited while failures were pending.
CheckCancel ==
    /\ pc = "cancel"
    /\ \/ /\ cancelled /\ ~Ended /\ Terminate("cancelled")
          /\ UNCHANGED <<failures, phase, phaseError, zero>>
       \/ /\ Ended /\ (cancelled \/ failures > 0)
          /\ Boundary(IF cancelled THEN "cancelled" ELSE "memory_probe_error")
          /\ UNCHANGED <<failures, phase, phaseError, requested, reason, aim>>
       \/ /\ ~cancelled /\ ~(Ended /\ failures > 0)
          /\ Goto("sampling") /\ UNCHANGED <<verdict, aim>>
    /\ UNCHANGED <<tree, excess, cancelled, recorded, monitor, ghosts>>

Sample ==
    /\ pc = "sampling" /\ Sampled /\ Goto("capturing")
    /\ UNCHANGED <<tree, excess, cancelled, recorded, captured, verdict, aim, ghosts>>

Capture ==
    /\ pc = "capturing"
    /\ captured' = captured \cup (members \cap Present)
    /\ Goto("polling")
    /\ UNCHANGED <<tree, excess, cancelled, recorded, known, members, failing, verdict, aim, ghosts>>

Poll ==
    /\ pc = "polling"
    /\ \/ Ended /\ Boundary("completed") /\ UNCHANGED <<failures, phase, phaseError, requested, reason>>
       \/ ~Ended /\ Goto("judging") /\ SameVerdict
    /\ UNCHANGED <<tree, excess, cancelled, recorded, monitor, aim, ghosts>>

\* Failed probes are counted, a success resets the count of a root that lives;
\* then the memory limit.
Judge ==
    /\ pc = "judging"
    /\ \/ /\ Ended /\ (failing \/ failures > 0)
          /\ failures' = IF failing THEN failures + 1 ELSE failures
          /\ Boundary("memory_probe_error")
          /\ UNCHANGED <<phase, phaseError, requested, reason, aim>>
       \/ /\ failing /\ ~Ended /\ failures' = failures + 1
          /\ IF failures' = 3 THEN Terminate("memory_probe_error")
                              ELSE Goto("top") /\ UNCHANGED <<requested, reason, aim>>
          /\ UNCHANGED <<phase, phaseError, zero>>
       \/ /\ ~failing /\ ~(Ended /\ failures > 0) /\ failures' = 0
          /\ \/ Terminate("memory_limit")
             \/ Goto("phase") /\ UNCHANGED <<requested, reason, aim>>
          /\ UNCHANGED <<phase, phaseError, zero>>
    /\ UNCHANGED <<tree, excess, cancelled, recorded, monitor, ghosts>>

\* The phase file: it may be missing for a while before its first state.  Then
\* the limits of the phases and of the whole worker.
CheckPhase ==
    /\ pc = "phase" /\ Observe
    /\ \/ /\ phase' = "none" /\ phaseError' = TRUE
          /\ \/ Ended /\ Boundary("phase_state_error") /\ UNCHANGED <<requested, reason, aim>>
             \/ ~Ended /\ Terminate("phase_state_error") /\ UNCHANGED zero
       \/ /\ UNCHANGED <<phaseError, zero>>
          /\ \/ phase' # "none" /\ Terminate("stage_timeout")
             \/ Terminate("worker_timeout")
             \/ Goto("last") /\ UNCHANGED <<requested, reason, aim>>
    /\ UNCHANGED <<tree, excess, cancelled, recorded, monitor, failures, ghosts>>

LastPoll ==
    /\ pc = "last"
    /\ \/ Ended /\ Boundary("completed") /\ UNCHANGED <<failures, phase, phaseError, requested, reason>>
       \/ ~Ended /\ Goto("top") /\ SameVerdict
    /\ UNCHANGED <<tree, excess, cancelled, recorded, monitor, aim, ghosts>>

\* Mutant: no probe of the storage after the exit.
BoundaryUnprobed ==
    /\ pc = "boundary"
    /\ \/ /\ recorded /\ code = "zero" /\ Terminate("storage")
          /\ UNCHANGED <<phase, phaseError>>
       \/ /\ ~(recorded /\ code = "zero")
          /\ IF zero = "phase_state_error" /\ code = "zero"
             THEN Observe /\ UNCHANGED phaseError /\ Terminate(zero)
             ELSE Classify /\ Goto("finally") /\ UNCHANGED <<requested, aim>>
    /\ UNCHANGED <<tree, excess, cancelled, recorded, monitor, failures, zero, ghosts>>

\* classify_process_exit_at_boundary: the storage is probed once more, and a
\* violation outranks a clean exit.
ClassifyAtBoundary ==
    /\ pc = "boundary"
    /\ \/ /\ Violation /\ code = "zero" /\ Terminate("storage")
          /\ UNCHANGED <<phase, phaseError>>
       \/ /\ ~(Violation /\ code = "zero")
          /\ IF zero = "phase_state_error" /\ code = "zero"
             THEN Observe /\ UNCHANGED phaseError /\ Terminate(zero)
             ELSE Classify /\ Goto("finally") /\ UNCHANGED <<requested, aim>>
    /\ UNCHANGED <<tree, excess, cancelled, recorded, monitor, failures, zero, ghosts>>

\* Mutant: a root that exited leaves nothing behind.
FinallyTrusting ==
    /\ pc = "finally" /\ Goto("done") /\ UNCHANGED aim
    /\ UNCHANGED <<tree, excess, cancelled, recorded, monitor, verdict, ghosts>>

\* The descendants that the root left behind are terminated as well.
Finally ==
    /\ pc = "finally"
    /\ IF Survivors(captured) = {}
       THEN Goto("done") /\ UNCHANGED aim
       ELSE Goto("sigterm") /\ aim' = AimAt(Survivors(captured))
    /\ UNCHANGED <<tree, excess, cancelled, recorded, monitor, verdict, ghosts>>

----------------------------------------------------------------------------
(* _terminate_worker and _terminate_surviving_descendants                  *)

\* Some of the signalled processes exit at SIGTERM.
SigTerm ==
    /\ pc = "sigterm" /\ Goto("grace")
    /\ \E Q \in SUBSET (Targets \cap Alive) : Ends(Q)
    /\ touched' = (touched \/ \E p \in Targets : status[p] = "foreign")
    /\ UNCHANGED <<file, excess, cancelled, recorded, monitor, verdict, aim, disturbed>>

\* Mutant: nothing new is captured during the teardown.
RefreshStale(to) ==
    /\ \/ /\ requested /\ Ended /\ Survivors(captured) = {}
          /\ Goto("done") /\ UNCHANGED <<monitor, aim>>
       \/ /\ ~(requested /\ Ended /\ Survivors(captured) = {})
          /\ Sampled /\ UNCHANGED captured
          /\ IF Ended /\ Survivors(captured) = {}
             THEN Goto("done") /\ UNCHANGED aim
             ELSE Goto(to) /\ aim' = AimAt(Survivors(captured))
    /\ UNCHANGED <<tree, excess, cancelled, recorded, verdict, touched>>

\* Sample, capture, and probe again who is left; _terminate_worker looks
\* before it samples, too.
Refresh(to) ==
    /\ \/ /\ requested /\ Ended /\ Survivors(captured) = {}
          /\ Goto("done") /\ UNCHANGED <<monitor, aim>>
       \/ /\ ~(requested /\ Ended /\ Survivors(captured) = {})
          /\ Sampled
          /\ captured' = captured \cup (members' \cap Present)
          /\ IF Ended /\ Survivors(captured') = {}
             THEN Goto("done") /\ UNCHANGED aim
             ELSE Goto(to) /\ aim' = AimAt(Survivors(captured'))
    /\ UNCHANGED <<tree, excess, cancelled, recorded, verdict, touched>>

Wait == pc \in {"grace", "reaping"} /\ Refresh(pc) /\ UNCHANGED disturbed

\* The deadline has passed after a refresh.
GraceEnds ==
    /\ pc = "grace" /\ Refresh("sigkill")
    /\ disturbed' = (disturbed \/ (pc' = "sigkill" /\ failing'))

SigKill ==
    /\ pc = "sigkill" /\ Goto("reaping")
    /\ doomed' = doomed \cup (Targets \cap Alive)
    /\ touched' = (touched \/ \E p \in Targets : status[p] = "foreign")
    /\ UNCHANGED <<status, parent, grouped, code, file, blind, crossed,
                   excess, cancelled, recorded, monitor, verdict, aim, disturbed>>

----------------------------------------------------------------------------
SupervisorStep ==
    \/ Top \/ CheckCancel \/ Sample \/ Capture \/ Poll \/ Judge \/ CheckPhase
    \/ LastPoll \/ ClassifyAtBoundary \/ Finally
    \/ SigTerm \/ Wait \/ GraceEnds \/ SigKill
Next == World \/ SupervisorStep

\* The supervisor polls for ever, the grace period has an end, and
\* what got SIGKILL ends; the worker promises nothing else.
Fairness ==
    /\ WF_vars(SupervisorStep) /\ WF_vars(GraceEnds)
    /\ WF_vars(\E p \in Process : Reap(p))
Spec == Init /\ [][Next]_vars /\ Fairness

----------------------------------------------------------------------------
(* Properties                                                              *)

TypeOK ==
    /\ status \in [Pid -> {"none", "alive", "gone", "foreign"}]
    /\ parent \in [Pid -> Pid \cup {Init0}]
    /\ doomed \subseteq Alive /\ grouped \subseteq Alive
    /\ code \in {"none", "zero", "failed"} /\ (Ended <=> root \notin Alive)
    /\ file \in {"none", "generation", "closed"} /\ phase \in {"none", "generation", "closed"}
    /\ {excess, cancelled, recorded, failing, phaseError, requested, crossed, touched,
        disturbed} \subseteq BOOLEAN
    /\ pc \in {"top", "cancel", "sampling", "capturing", "polling", "judging", "phase",
               "last", "boundary", "finally", "done"} \cup Teardown
    /\ known \cup members \cup captured \subseteq Pid
    /\ failures \in 0..3
    /\ zero \in {"none", "completed", "cancelled", "memory_probe_error", "phase_state_error"}
    /\ aim \in [group : BOOLEAN, out : SUBSET Pid]
    /\ blind \in {"no", "waiting", "sampling"}
    /\ pc \in Teardown \cup {"finally", "done"} <=> reason # "none"

\* A worker that is reported as completed exited with zero, had closed its
\* generation interval, and no process had crossed an output limit by then,
\* whatever the storage thread had seen (resources.py:1741: "A synchronous
\* final probe keeps a clean exit from hiding that violation").
CompletedIsClean ==
    reason = "completed" => code = "zero" /\ file = "closed" /\ ~crossed

\* Nor did it exit in the wait for the retry of a failed memory probe.
RetryFailsClosed == reason = "completed" => blind # "waiting"

\* resources.py:1952: control does not return to the scheduler "until that
\* known tree is gone": nobody that a sample held or that was captured lives,
\* in whatever group and whoever its parent has become.
KnownTreeEnds == pc = "done" => Alive \cap (captured \cup members) = {}

\* No signal reaches a process that was never part of the worker's tree.
StrangersUntouched == ~touched
============================================================================
