---- MODULE CampaignReset ----
(***************************************************************************)
(* The reset of a performance campaign: tools/performance_report/          *)
(* campaign_reset.py and the tool that drives it, tools/developer/         *)
(* reset_performance_campaign.py.  "prepare" stages a fresh campaign and a *)
(* journal; "commit" and "recover" move the old roots to an archive and    *)
(* the staged ones in their place, rename by rename, under a file lock;    *)
(* "verify-baseline" publishes the fresh campaign, writes its gate and     *)
(* marks it READY.  A process may die at any step and the operator calls   *)
(* again.  A directory is known by the path at which it was made, so a     *)
(* rename is visible as a path that holds another path's directory.        *)
(***************************************************************************)
EXTENDS Naturals, Sequences, FiniteSets

CONSTANTS
    Journals,     \* resets prepared from the same source for one destination
    Archives,     \* archive roots
    ArchiveOf,    \* [Journals -> Archives], the operator's --archive-id
    GuardOf,      \* [Journals -> Archives]: equal for journals of one archive parent
    Committers,   \* processes that run commit or recover
    Verifiers,    \* processes that run verify-baseline
    Files,        \* sequence of the files of a publication
    StrayRoots,   \* source roots that a late worker of the old campaign makes again
    PinMarker,    \* verify-baseline is given --expected-marker-sha256
    MaxCrashes,   \* bound on processes that die
    MaxGates,     \* bound on baseline gates written
    None

VARIABLES
    at,        \* the directory (known by its first path) each path holds, or None
    journal,   \* state of each staging journal
    archived,  \* journals whose archive holds a COMMITTED journal
    pub,       \* what each file of the destination publication holds
    proc,      \* [Committers -> phase, journal and rename a process is at]
    marker,    \* the marker of a fresh campaign: 0 is PREPARED, g > 0 is READY by gate g
    gate,      \* its baseline gate: number and digest of the marker it was made for
    check,     \* [Verifiers -> phase of verify-baseline]
    crashes,
    gates      \* gates written so far

vars == <<at, journal, archived, pub, proc, marker, gate, check, crashes, gates>>

Roots == {"artifacts", "coordination"}
Parts == Roots \cup {"publication", "manifest"}
Paths == ({"source", "destination", "stray"} \X Roots) \cup ((Archives \cup Journals) \X Parts)
\* The archive roots and the journals' staging areas are directories of their own.
ResetAssumption ==
    /\ ArchiveOf \in [Journals -> Archives]
    /\ GuardOf \in [Journals -> Archives]
    /\ \A j, k \in Journals : ArchiveOf[j] = ArchiveOf[k] => GuardOf[j] = GuardOf[k]
    /\ Journals \cap Archives = {}
    /\ {"source", "destination", "stray"} \cap (Journals \cup Archives) = {}
    /\ None \notin Journals \cup Paths
    /\ Len(Files) \in Nat \ {0}
    /\ MaxCrashes \in Nat /\ MaxGates \in Nat

Held == {"rename", "replace", "install", "archive", "commit"}   \* phases under the guard
NoGate == [number |-> 0, made_for |-> 0]

Exists(path) == at[path] # None

\* The renames of commit_or_recover_reset in their order.
Renames(j) ==
    LET a == ArchiveOf[j]
    IN  << [from |-> <<j, "publication">>, to |-> <<a, "publication">>],
           [from |-> <<j, "manifest">>, to |-> <<a, "manifest">>],
           [from |-> <<"source", "artifacts">>, to |-> <<a, "artifacts">>],
           [from |-> <<"source", "coordination">>, to |-> <<a, "coordination">>],
           [from |-> <<j, "artifacts">>, to |-> <<"destination", "artifacts">>],
           [from |-> <<j, "coordination">>, to |-> <<"destination", "coordination">>] >>

Idle == [phase |-> "idle", journal |-> None, step |-> 0]

Init ==
    /\ at = [p \in Paths |-> IF p[1] = "source" THEN p ELSE None]
    /\ journal = [j \in Journals |-> "none"]
    /\ archived = {}
    /\ pub = [f \in 1..Len(Files) |-> "checkout"]
    /\ proc = [p \in Committers |-> Idle]
    /\ marker = [j \in Journals |-> 0]
    /\ gate = [j \in Journals |-> NoGate]
    /\ check = [v \in Verifiers |-> [phase |-> "idle", journal |-> None, digest |-> 0, number |-> 0]]
    /\ crashes = 0
    /\ gates = 0

----
\* prepare

\* _prepare looks that neither the archive nor the destination roots exist ...
PrepareBegins(j) ==
    /\ journal[j] = "none"
    /\ \A k \in Parts : ~Exists(<<ArchiveOf[j], k>>)
    /\ \A k \in Roots : ~Exists(<<"destination", k>>)
    /\ journal' = [journal EXCEPT ![j] = "staging"]
    /\ UNCHANGED <<at, archived, pub, proc, marker, gate, check, crashes, gates>>

\* ... copies what it keeps of the source, stages the fresh campaign with its
\* PREPARED marker, and writes the journal last.
PrepareEnds(j) ==
    /\ journal[j] = "staging"
    /\ \A k \in Roots : Exists(<<"source", k>>)
    /\ at' = [p \in Paths |-> IF p[1] = j THEN p ELSE at[p]]
    /\ journal' = [journal EXCEPT ![j] = "PREPARED"]
    /\ UNCHANGED <<archived, pub, proc, marker, gate, check, crashes, gates>>

----
\* commit and recover

Call(p, j) ==
    /\ proc[p].phase = "idle"
    /\ journal[j] \in {"PREPARED", "COMMITTING", "COMMITTED"}
    /\ proc' = [proc EXCEPT ![p] = [phase |-> "guard", journal |-> j, step |-> 0]]
    /\ UNCHANGED <<at, journal, archived, pub, marker, gate, check, crashes, gates>>

\* A process goes to a phase of its call, or ends it.
Goes(p, phase, step) ==
    proc' = [proc EXCEPT ![p] = [phase |-> phase, journal |-> proc[p].journal, step |-> step]]
Leaves(p) == proc' = [proc EXCEPT ![p] = Idle]

GuardFree(j) ==
    \A q \in Committers : proc[q].phase \in Held => GuardOf[proc[q].journal] # GuardOf[j]

\* Mutant: the journal read before the lock is trusted under it.
AcquireUnread(p) ==
    LET j == proc[p].journal
    IN  /\ proc[p].phase = "guard"
        /\ GuardFree(j)
        /\ journal' = [journal EXCEPT ![j] = "COMMITTING"]
        /\ Goes(p, "rename", 1)
        /\ UNCHANGED <<at, archived, pub, marker, gate, check, crashes, gates>>

\* Under the lock the journal is read again: nothing is done twice.
Acquire(p) ==
    LET j == proc[p].journal
    IN  /\ proc[p].phase = "guard"
        /\ GuardFree(j)
        /\ IF journal[j] = "COMMITTED"
           THEN /\ Leaves(p)
                /\ UNCHANGED journal
           ELSE /\ journal' = [journal EXCEPT ![j] = "COMMITTING"]
                /\ Goes(p, "rename", 1)
        /\ UNCHANGED <<at, archived, pub, marker, gate, check, crashes, gates>>

\* Mutant: one rename too many.
RenamedOneMore(p) ==
    IF proc[p].step > Len(Renames(proc[p].journal))
    THEN Goes(p, "install", 1) ELSE Goes(p, "rename", proc[p].step + 1)

\* The process has its present rename done.
Renamed(p) ==
    IF proc[p].step = Len(Renames(proc[p].journal))
    THEN Goes(p, "install", 1) ELSE Goes(p, "rename", proc[p].step + 1)

\* Mutant: a missing source is taken for a rename done before.
RenameForwardMissing(p) ==
    /\ proc[p].phase = "rename"
    /\ LET r == Renames(proc[p].journal)[proc[p].step]
       IN  \/ /\ Exists(r.to) /\ Exists(r.from)
              /\ Leaves(p)
           \/ /\ ~Exists(r.from)
              /\ Renamed(p)
           \/ /\ ~Exists(r.to) /\ Exists(r.from)
              /\ Goes(p, "replace", proc[p].step)
    /\ UNCHANGED <<at, journal, archived, pub, marker, gate, check, crashes, gates>>

\* Mutant: a rename that a dead process had done is an error of its successor.
RenameForwardOnce(p) ==
    /\ proc[p].phase = "rename"
    /\ LET r == Renames(proc[p].journal)[proc[p].step]
       IN  \/ /\ Exists(r.to) \/ ~Exists(r.from)
              /\ Leaves(p)
           \/ /\ ~Exists(r.to) /\ Exists(r.from)
              /\ Goes(p, "replace", proc[p].step)
    /\ UNCHANGED <<at, journal, archived, pub, marker, gate, check, crashes, gates>>

\* _rename_forward decides by which of the two directories exist.
RenameForward(p) ==
    /\ proc[p].phase = "rename"
    /\ LET r == Renames(proc[p].journal)[proc[p].step]
       IN  \/ /\ Exists(r.to) = Exists(r.from)          \* both or neither: an error
              /\ Leaves(p)
           \/ /\ Exists(r.to) /\ ~Exists(r.from)        \* done by an earlier call
              /\ Renamed(p)
           \/ /\ ~Exists(r.to) /\ Exists(r.from)
              /\ Goes(p, "replace", proc[p].step)
    /\ UNCHANGED <<at, journal, archived, pub, marker, gate, check, crashes, gates>>

\* Mutant: the directory is copied, and the source stays.
ReplaceCopied(p) ==
    /\ proc[p].phase = "replace"
    /\ LET r == Renames(proc[p].journal)[proc[p].step]
       IN  IF Exists(r.from) /\ ~Exists(r.to)
           THEN /\ at' = [at EXCEPT ![r.to] = at[r.from]]
                /\ Renamed(p)
           ELSE /\ Leaves(p)
                /\ UNCHANGED at
    /\ UNCHANGED <<journal, archived, pub, marker, gate, check, crashes, gates>>

\* os.replace of a directory fails when the source has gone or the
\* destination, not empty, has come since the look.
Replace(p) ==
    /\ proc[p].phase = "replace"
    /\ LET r == Renames(proc[p].journal)[proc[p].step]
       IN  IF Exists(r.from) /\ ~Exists(r.to)
           THEN /\ at' = [at EXCEPT ![r.to] = at[r.from], ![r.from] = None]
                /\ Renamed(p)
           ELSE /\ Leaves(p)
                /\ UNCHANGED at
    /\ UNCHANGED <<journal, archived, pub, marker, gate, check, crashes, gates>>

\* _install_publication_tree copies the staged publication file by file.
Install(p) ==
    /\ proc[p].phase = "install"
    /\ pub' = [pub EXCEPT ![proc[p].step] = "staged"]
    /\ IF proc[p].step = Len(Files)
       THEN Goes(p, "archive", 0) ELSE Goes(p, "install", proc[p].step + 1)
    /\ UNCHANGED <<at, journal, archived, marker, gate, check, crashes, gates>>

WriteArchiveJournal(p) ==
    /\ proc[p].phase = "archive"
    /\ archived' = archived \cup {proc[p].journal}
    /\ Goes(p, "commit", proc[p].step)
    /\ UNCHANGED <<at, journal, pub, marker, gate, check, crashes, gates>>

WriteCommitted(p) ==
    /\ proc[p].phase = "commit"
    /\ journal' = [journal EXCEPT ![proc[p].journal] = "COMMITTED"]
    /\ Leaves(p)
    /\ UNCHANGED <<at, archived, pub, marker, gate, check, crashes, gates>>

\* The process dies; the kernel releases its flock.
Crash(p) ==
    /\ proc[p].phase # "idle"
    /\ crashes < MaxCrashes
    /\ crashes' = crashes + 1
    /\ Leaves(p)
    /\ UNCHANGED <<at, journal, archived, pub, marker, gate, check, gates>>

CommitStep(p) ==
    \/ Acquire(p)
    \/ RenameForward(p)
    \/ Replace(p)
    \/ Install(p)
    \/ WriteArchiveJournal(p)
    \/ WriteCommitted(p)

----
\* verify-baseline

\* The journal whose fresh artifact root the destination holds.
Installed == {j \in Journals : at[<<"destination", "artifacts">>] = <<j, "artifacts">>}

\* Mutant: the digest the operator expects is not compared.
VerifyBeginsUnpinned(v, j) ==
    /\ check[v].phase = "idle"
    /\ \A p \in Committers : proc[p].phase \notin Held
    /\ j \in Installed
    /\ Exists(<<"destination", "coordination">>)
    /\ gates < MaxGates
    /\ check' = [check EXCEPT ![v] = [phase |-> "publish", journal |-> j,
                                      digest |-> marker[j], number |-> 0]]
    /\ UNCHANGED <<at, journal, archived, pub, proc, marker, gate, crashes, gates>>

\* The operator verifies when no commit is at work.  The marker may be PREPARED
\* or READY (require_ready=False) unless its digest is given.
VerifyBegins(v, j) ==
    /\ check[v].phase = "idle"
    /\ \A p \in Committers : proc[p].phase \notin Held
    /\ j \in Installed
    /\ Exists(<<"destination", "coordination">>)
    /\ gates < MaxGates
    /\ PinMarker => marker[j] = 0
    /\ check' = [check EXCEPT ![v] = [phase |-> "publish", journal |-> j,
                                      digest |-> marker[j], number |-> 0]]
    /\ UNCHANGED <<at, journal, archived, pub, proc, marker, gate, crashes, gates>>

\* publish-snapshot installs what the fresh store says.
Publish(v) ==
    /\ check[v].phase = "publish"
    /\ pub' = [f \in DOMAIN pub |-> "published"]
    /\ check' = [check EXCEPT ![v].phase = "gate"]
    /\ UNCHANGED <<at, journal, archived, proc, marker, gate, crashes, gates>>

\* The gate is written before mark_campaign_ready looks at the marker.
WriteGate(v) ==
    /\ check[v].phase = "gate"
    /\ gates < MaxGates
    /\ gates' = gates + 1
    /\ gate' = [gate EXCEPT ![check[v].journal] =
                    [number |-> gates + 1, made_for |-> check[v].digest]]
    /\ check' = [check EXCEPT ![v].phase = "ready", ![v].number = gates + 1]
    /\ UNCHANGED <<at, journal, archived, pub, proc, marker, crashes>>

\* mark_campaign_ready refuses a marker that is not PREPARED.
MarkReady(v) ==
    LET j == check[v].journal
    IN  /\ check[v].phase = "ready"
        /\ marker' = [marker EXCEPT ![j] = IF @ = 0 THEN check[v].number ELSE @]
        /\ check' = [check EXCEPT ![v] = [phase |-> "idle", journal |-> None,
                                          digest |-> 0, number |-> 0]]
        /\ UNCHANGED <<at, journal, archived, pub, proc, gate, crashes, gates>>

VerifierDies(v) ==
    /\ check[v].phase # "idle"
    /\ crashes < MaxCrashes
    /\ crashes' = crashes + 1
    /\ check' = [check EXCEPT ![v] = [phase |-> "idle", journal |-> None,
                                      digest |-> 0, number |-> 0]]
    /\ UNCHANGED <<at, journal, archived, pub, proc, marker, gate, gates>>

----
\* A worker of the old campaign that started after the look for idleness makes
\* its root again with mkdir(parents=True, exist_ok=True).
StrayWorker(k) ==
    /\ k \in StrayRoots
    /\ ~Exists(<<"source", k>>)
    /\ \A p \in Paths : at[p] # <<"stray", k>>
    /\ at' = [at EXCEPT ![<<"source", k>>] = <<"stray", k>>]
    /\ UNCHANGED <<journal, archived, pub, proc, marker, gate, check, crashes, gates>>

Next ==
    \/ \E j \in Journals : PrepareBegins(j) \/ PrepareEnds(j)
    \/ \E p \in Committers, j \in Journals : Call(p, j)
    \/ \E p \in Committers : CommitStep(p) \/ Crash(p)
    \/ \E v \in Verifiers, j \in Journals : VerifyBegins(v, j)
    \/ \E v \in Verifiers : Publish(v) \/ WriteGate(v) \/ MarkReady(v) \/ VerifierDies(v)
    \/ \E k \in Roots : StrayWorker(k)

Spec == Init /\ [][Next]_vars

\* A process runs on, and after a failure the operator calls commit or recover again.
Fairness ==
    /\ \A p \in Committers : WF_vars(CommitStep(p))
    /\ \A j \in Journals : WF_vars(\E p \in Committers : Call(p, j))
LiveSpec == Spec /\ Fairness

----
\* Properties

\* The variables hold values of their kinds.
TypeOK ==
    /\ at \in [Paths -> Paths \cup {None}]
    /\ journal \in [Journals -> {"none", "staging", "PREPARED", "COMMITTING", "COMMITTED"}]
    /\ archived \subseteq Journals
    /\ pub \in [1..Len(Files) -> {"checkout", "staged", "published"}]
    /\ proc \in [Committers -> [phase : Held \cup {"idle", "guard"},
                                journal : Journals \cup {None},
                                step : Nat]]
    /\ \A p \in Committers :
          proc[p].step <= IF proc[p].phase = "install" THEN Len(Files) ELSE 6
    /\ marker \in [Journals -> 0..MaxGates]
    /\ gate \in [Journals -> [number : 0..MaxGates, made_for : 0..MaxGates]]
    /\ check \in [Verifiers -> [phase : {"idle", "publish", "gate", "ready"},
                                journal : Journals \cup {None},
                                digest : 0..MaxGates, number : 0..MaxGates]]
    /\ crashes \in 0..MaxCrashes
    /\ gates \in 0..MaxGates

\* Nothing is lost and nothing doubled: whatever dies or runs beside, the old
\* roots and every staged directory are each at exactly one path
\* (_rename_forward and os.replace, campaign_reset.py:1145).
NothingLost ==
    LET made == {p \in Paths : \/ p[1] = "source"
                               \/ p[1] \in Journals /\ journal[p[1]] \notin {"none", "staging"}}
    IN  \A d \in made : Cardinality({p \in Paths : at[p] = d}) = 1

\* No worker of the old campaign has made a root of it again.
NoStray == \A p \in Paths : at[p] # None => at[p][1] # "stray"

\* A committed reset is a whole one: once an archive holds a COMMITTED journal it
\* also holds both old roots, the old publication and the manifest, and the
\* destination holds both fresh roots of that very journal
\* (commit_or_recover_reset, campaign_reset.py:1217).
CommittedIsWhole ==
    NoStray =>
        \A j \in archived :
            LET a == ArchiveOf[j]
            IN  /\ \A k \in Roots : /\ at[<<a, k>>] = <<"source", k>>
                                    /\ at[<<"destination", k>>] = <<j, k>>
                /\ \A k \in {"publication", "manifest"} : at[<<a, k>>] = <<j, k>>

\* A campaign that was READY stays one that workers may load: its gate is the one
\* that made it READY, made for its PREPARED marker (_load_campaign_marker
\* with require_ready, campaign_reset.py:903, and mark_campaign_ready, :954).
ReadyIsLoadable ==
    \A j \in Journals : marker[j] # 0 => gate[j] = [number |-> marker[j], made_for |-> 0]

\* "repeated calls are idempotent" (commit_or_recover_reset,
\* campaign_reset.py:1218) while no process dies: a call that waited for the
\* lock behind the one that committed does not install the staged publication
\* again, over one that was published since.
RepeatIsIdempotent ==
    [][\A p \in Committers :
          Install(p) /\ proc[p].journal \in archived /\ crashes = 0 => pub' = pub]_vars
====
