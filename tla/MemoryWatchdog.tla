-------------------------- MODULE MemoryWatchdog --------------------------
(***************************************************************************)
(* The memory watchdog (tools/ci/memory_watchdog.py): run_guarded starts a *)
(* command in a session of its own, samples the memory of its process tree *)
(* and terminates the tree when the limit is exceeded, when three probes   *)
(* in a row fail, or when the watchdog itself is signalled.                *)
(*                                                                         *)
(* The processes of the tree fork, leave the group, exit and are orphaned  *)
(* at any time between two steps of the watchdog; one that got SIGTERM may *)
(* go on, SIGKILL ends a process at once.                                  *)
(*                                                                         *)
(* Abstraction: a process uses one unit of memory; a snapshot is taken in  *)
(* one step.  A root that exited is in the snapshots until it is polled.   *)
(***************************************************************************)
EXTENDS Naturals, FiniteSets

CONSTANTS
    Descendant,    \* processes the root may start, directly or not
    root,
    Limit,         \* limit_bytes
    Init0          \* the parent of orphans and of the root

Process == Descendant \cup {root}

WatchdogAssumption ==
    /\ root \notin Descendant /\ Init0 \notin Process /\ IsFiniteSet(Descendant)
    /\ Limit \in Nat \ {0}

VARIABLES
    status,    \* status[p]: "none", "alive", "zombie" or "gone"
    parent,    \* parent[p]
    grouped,   \* processes of the root's process group
    pc,        \* where the watchdog is
    received,  \* received_signal is not None
    failures,  \* consecutive_probe_failures
    known,     \* _known_pids of the sampler
    over,      \* the sample it judges is over the limit
    outcome,   \* how the run will end
    blind,     \* the root exited while failures were pending
    exceeded,  \* a sample was over the limit
    seen,      \* processes that some sample held
    missed     \* a snapshot failed after the SIGTERM

tree == <<status, parent, grouped, blind>>
sampler == <<known, seen>>
watchdog == <<received, failures, sampler, over, outcome, exceeded, missed>>
vars == <<tree, pc, watchdog>>

Init ==
    /\ status = [p \in Process |-> IF p = root THEN "alive" ELSE "none"]
    /\ parent = [p \in Process |-> Init0]
    /\ grouped = {root}
    /\ pc = "looping" /\ received = FALSE /\ failures = 0
    /\ known = {root} /\ seen = {} /\ over = FALSE /\ outcome = "none"
    /\ blind = FALSE /\ exceeded = FALSE /\ missed = FALSE

Alive == {p \in Process : status[p] = "alive"}
Present == {p \in Process : status[p] \in {"alive", "zombie"}}

----------------------------------------------------------------------------
(* The guarded processes                                                   *)

Fork(p, q) ==
    /\ p \in Alive /\ status[q] = "none"
    /\ status' = [status EXCEPT ![q] = "alive"]
    /\ parent' = [parent EXCEPT ![q] = p]
    /\ grouped' = IF p \in grouped THEN grouped \cup {q} ELSE grouped
    /\ UNCHANGED <<pc, watchdog, blind>>

\* A descendant opens a session or process group of its own.
LeaveGroup(q) ==
    /\ q \in Alive \cap grouped /\ q # root
    /\ grouped' = grouped \ {q}
    /\ UNCHANGED <<pc, watchdog, status, parent, blind>>

\* The processes of Q are gone, a root waits to be reaped.
Dead(Q) ==
    [p \in Process |-> IF p \notin Q THEN status[p]
                       ELSE IF p = root THEN "zombie" ELSE "gone"]
Orphaned(Q) == [p \in Process |-> IF parent[p] \in Q THEN Init0 ELSE parent[p]]

Exit(p) ==
    /\ p \in Alive
    /\ status' = Dead({p}) /\ parent' = Orphaned({p})
    /\ blind' = (blind \/ (p = root /\ failures > 0 /\ outcome = "none"))
    /\ UNCHANGED <<pc, watchdog, grouped>>

\* SIGINT, SIGTERM or SIGHUP reaches the watchdog.
Signal ==
    /\ pc # "ended" /\ ~received /\ received' = TRUE
    /\ UNCHANGED <<tree, pc, failures, sampler, over, outcome, exceeded, missed>>

----------------------------------------------------------------------------
(* ProcessTreeSampler.sample                                               *)

Children(S) == {p \in Present : parent[p] \in S}

\* Mutant: only the group and its present descendants are selected.
SeedsForgotten == Present \cap grouped

\* Known processes stay selected when they are orphaned.
Seeds == (known \cap Present) \cup (Present \cap grouped)

\* The seeds and their descendants: the least set that has the ones and, with
\* a process, its children.
Closed(S) == Seeds \subseteq S /\ Children(S) \subseteq S
Selected == {p \in Present : \A S \in SUBSET Process : Closed(S) => p \in S}

----------------------------------------------------------------------------
(* The loop of run_guarded                                                 *)

\* process.poll() is not None; the first such poll reaps the root.
Ended == status[root] # "alive"
Reaped == [status EXCEPT ![root] = IF @ = "zombie" THEN "gone" ELSE @]

Goto(to) == pc' = to
FinishAs(how) == outcome' = how /\ pc' = "ended" /\ status' = Reaped
StopFor(how) == outcome' = how /\ pc' = "terminating" /\ UNCHANGED status

\* Mutant: a remembered signal is looked at only while probes fail.
LoopUnsignalled ==
    /\ pc = "looping"
    /\ \/ received /\ failures > 0 /\ StopFor("signalled")
       \/ ~received /\ failures > 0 /\ Ended /\ FinishAs("unavailable")
       \/ /\ ~(failures > 0 /\ (received \/ Ended))
          /\ Goto("sampling") /\ UNCHANGED <<status, outcome>>
    /\ UNCHANGED <<parent, grouped, blind, received, failures, sampler, over, exceeded, missed>>

\* The top of the loop: a signal first, then a root that exited unwatched.
Loop ==
    /\ pc = "looping"
    /\ \/ received /\ StopFor("signalled")
       \/ ~received /\ failures > 0 /\ Ended /\ FinishAs("unavailable")
       \/ /\ ~received /\ ~(failures > 0 /\ Ended)
          /\ Goto("sampling") /\ UNCHANGED <<status, outcome>>
    /\ UNCHANGED <<parent, grouped, blind, received, failures, sampler, over, exceeded, missed>>

\* A probe fails before or after the tree was walked; the third one in a row
\* ends the run.
ProbeFails ==
    /\ pc = "sampling"
    /\ failures' = failures + 1
    /\ known' \in {known, Selected} /\ seen' = seen \cup known'
    /\ \/ Ended /\ FinishAs("unavailable")
       \/ ~Ended /\ failures' = 3 /\ StopFor("probe-failed")
       \/ ~Ended /\ failures' < 3 /\ Goto("looping") /\ UNCHANGED <<status, outcome>>
    /\ UNCHANGED <<parent, grouped, blind, received, over, exceeded, missed>>

Sample ==
    /\ pc = "sampling"
    /\ known' = Selected /\ seen' = seen \cup Selected
    /\ over' = (Cardinality(Selected) > Limit)
    /\ exceeded' = (exceeded \/ over')
    /\ Goto("judging")
    /\ UNCHANGED <<tree, received, failures, outcome, missed>>

\* Mutant: a successful sample clears the failures without looking at the root.
JudgeTrusting ==
    /\ pc = "judging"
    /\ \/ failures' = 0 /\ over /\ StopFor("limit")
       \/ failures' = 0 /\ ~over /\ Goto("polling") /\ UNCHANGED <<status, outcome>>
    /\ UNCHANGED <<parent, grouped, blind, received, sampler, over, exceeded, missed>>

\* A sample after failures counts only if the root lives: it may have seen the
\* zombie of a root that exited before.
Judge ==
    /\ pc = "judging"
    /\ \/ failures > 0 /\ Ended /\ FinishAs("unavailable") /\ UNCHANGED failures
       \/ /\ ~(failures > 0 /\ Ended) /\ failures' = 0
          /\ \/ over /\ StopFor("limit")
             \/ ~over /\ Goto("polling") /\ UNCHANGED <<status, outcome>>
    /\ UNCHANGED <<parent, grouped, blind, received, sampler, over, exceeded, missed>>

Poll ==
    /\ pc = "polling"
    /\ \/ Ended /\ FinishAs("finished")
       \/ ~Ended /\ Goto("looping") /\ UNCHANGED <<status, outcome>>
    /\ UNCHANGED <<parent, grouped, blind, received, failures, sampler, over, exceeded, missed>>

----------------------------------------------------------------------------
(* _terminate_tree                                                         *)

\* A failed probe counts as a sample without members; the group is signalled
\* all the same.
Members(failed) == IF failed THEN {} ELSE Selected
Kept(failed) == IF failed THEN known ELSE Selected

\* SIGTERM: some of the signalled processes exit, others go on.
Terminate ==
    /\ pc = "terminating"
    /\ \E failed \in BOOLEAN :
       \E Q \in SUBSET (Alive \cap (Members(failed) \cup grouped)) :
         /\ known' = Kept(failed) /\ seen' = seen \cup known'
         /\ status' = Dead(Q) /\ parent' = Orphaned(Q)
    /\ Goto("grace")
    /\ UNCHANGED <<grouped, blind, received, failures, over, outcome, exceeded, missed>>

\* Mutant: done when the root ended.
GraceOfRoot ==
    /\ pc = "grace"
    /\ \E failed \in BOOLEAN :
         /\ known' = Kept(failed) /\ seen' = seen \cup known'
         /\ missed' = (missed \/ failed)
         /\ status' = Reaped
         /\ Goto(IF Ended THEN "stopped" ELSE "grace")
    /\ UNCHANGED <<parent, grouped, blind, received, failures, over, outcome, exceeded>>

\* Within the grace period: done when the root ended and no member is left.
Grace ==
    /\ pc = "grace"
    /\ \E failed \in BOOLEAN :
         /\ known' = Kept(failed) /\ seen' = seen \cup known'
         /\ missed' = (missed \/ failed)
         /\ status' = Reaped
         /\ Goto(IF Ended /\ Members(failed) = {} THEN "stopped" ELSE "grace")
    /\ UNCHANGED <<parent, grouped, blind, received, failures, over, outcome, exceeded>>

GraceEnds ==
    /\ pc = "grace" /\ Goto("killing")
    /\ UNCHANGED <<tree, watchdog>>

\* SIGKILL for the group and for every member outside of it.
Kill ==
    /\ pc = "killing"
    /\ \E failed \in BOOLEAN : LET Q == Alive \cap (Members(failed) \cup grouped) IN
         /\ known' = Kept(failed) /\ seen' = seen \cup known'
         /\ missed' = (missed \/ failed)
         /\ status' = Dead(Q) /\ parent' = Orphaned(Q)
    /\ Goto("stopped")
    /\ UNCHANGED <<grouped, blind, received, failures, over, outcome, exceeded>>

\* The outcome that asked for the termination is reported.
Finish ==
    /\ pc = "stopped" /\ Goto("ended") /\ status' = Reaped
    /\ UNCHANGED <<parent, grouped, blind, watchdog>>

----------------------------------------------------------------------------
TreeStep ==
    \E p \in Process : Exit(p) \/ LeaveGroup(p) \/ \E q \in Process : Fork(p, q)
WatchdogStep ==
    \/ Loop \/ ProbeFails \/ Sample \/ Judge \/ Poll
    \/ Terminate \/ Grace \/ GraceEnds \/ Kill \/ Finish
Next == TreeStep \/ WatchdogStep \/ Signal

\* The watchdog polls for ever and the grace period has an end; the guarded
\* processes promise nothing.
Fairness == WF_vars(WatchdogStep) /\ WF_vars(GraceEnds)
Spec == Init /\ [][Next]_vars /\ Fairness

----------------------------------------------------------------------------
(* Properties                                                              *)

Stopped == {"signalled", "probe-failed", "limit"}

TypeOK ==
    /\ status \in [Process -> {"none", "alive", "zombie", "gone"}]
    /\ parent \in [Process -> Process \cup {Init0}]
    /\ grouped \subseteq Process
    /\ pc \in {"looping", "sampling", "judging", "polling", "terminating", "grace",
               "killing", "stopped", "ended"}
    /\ received \in BOOLEAN /\ failures \in 0..3 /\ known \subseteq Process /\ seen \subseteq Process
    /\ {over, blind, exceeded, missed} \subseteq BOOLEAN
    /\ outcome \in {"none", "finished", "unavailable"} \cup Stopped
    /\ pc \in {"terminating", "grace", "killing", "stopped"} => outcome \in Stopped

\* A command that is reported as finished was enforced to its end: no sample
\* was over the limit, and it did not exit while probes were failing, even if a
\* later probe succeeded on its zombie.
FinishedWasEnforced == outcome = "finished" => ~blind /\ ~exceeded /\ failures = 0

\* memory_watchdog.py:7: "... so the watchdog can terminate both its process
\* group and descendants that create another process group."  Once the run
\* ended by a termination and the snapshots after its SIGTERM succeeded, nobody
\* of the group lives.
GroupEnds ==
    pc = "ended" /\ outcome \in Stopped /\ ~missed => Alive \cap grouped = {}

\* Nor does a process that some sample saw, wherever it was and whoever its
\* parent has become; only what was forked after the last sample can.
SeenEnd ==
    pc = "ended" /\ outcome \in Stopped /\ ~missed => Alive \cap seen = {}
============================================================================
