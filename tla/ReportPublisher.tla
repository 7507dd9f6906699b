---- MODULE ReportPublisher ----
(***************************************************************************)
(* Publication of the performance report while a campaign runs:            *)
(* tools/performance_report/publisher.py, and the "render" and "reset"     *)
(* commands of service.py that write the same files.  A publisher reads    *)
(* the current pointers of all cells twice, copies the report without a    *)
(* lock, merges, compiles the PDF for minutes, and installs file by file   *)
(* under the report-writer lock, keeping what it replaces for a rollback;  *)
(* the snapshot manifest comes last.  A cell's pointer is the number of    *)
(* its attempt, which only grows (AttemptHistory).                         *)
(***************************************************************************)
EXTENDS Naturals, Sequences, FiniteSets, SequencesExt

CONSTANTS
    CellOrder,    \* the cells, one cache file each, in the order they are read
    Publishers,   \* processes that may run publish-snapshot
    Commands,     \* processes that may run render or reset
    MaxAttempts,  \* bound on attempts of a cell
    MaxCommands,  \* bound on runs of render and reset
    MaxFaults,    \* bound on failing steps
    MaxCrashes,   \* bound on processes that die
    None

Cells == ToSet(CellOrder)
N == Len(CellOrder)
Attempts == [Cells -> 0..MaxAttempts]

\* Every cell has a cache file of its own, beside the tables and the PDF.
PublisherAssumption ==
    /\ CellOrder \in Seq(Cells) /\ CellOrder # <<>> /\ IsInjective(CellOrder)
    /\ {"tables", "pdf"} \cap Cells = {}
    /\ Publishers \cap Commands = {}
    /\ None \notin Publishers \cup Commands \cup [snapshot : Attempts, files : Attempts]
    /\ MaxAttempts \in Nat /\ MaxCommands \in Nat /\ MaxFaults \in Nat /\ MaxCrashes \in Nat

VARIABLES
    current,   \* [Cells -> attempt a cell's pointer names; 0 before the first]
    docs,      \* the published report: an attempt per cache file, and the
               \* attempts that the tables and the PDF were made from
    manifest,  \* snapshot and file identities of current.json, or None
    writer,    \* holder of the report-writer lock
    lease,     \* holder of the flock on daemon.guard
    pub,       \* [Publishers -> state of its cycle]
    cmd,       \* [Commands -> state of a render or reset]
    torn,      \* an installer died, or failed after a replacement it does not undo
    between,   \* [Publishers -> pointers between the two readings], a history
    commands, faults, crashes

vars == <<current, docs, manifest, writer, lease, pub, cmd, torn, between,
          commands, faults, crashes>>

budgets == <<commands, faults, crashes>>

Blank == [c \in Cells |-> 0]

\* Order of installation: caches, tables and, for a publisher, the PDF.
CommandFiles == Append(CellOrder, "tables")
PublisherFiles == Append(CommandFiles, "pdf")

\* The contents of a file of a report made from attempts.
Content(attempts, f) == IF f \in Cells THEN attempts[f] ELSE attempts

Fresh(phase, index) ==
    [phase |-> phase, seen |-> Blank, again |-> Blank, base |-> Blank,
     index |-> index, tries |-> 0, old |-> <<>>]
Down == Fresh("down", 0)
Begun == Fresh("capture", 1)

Waiting == [phase |-> "idle", plan |-> Blank, index |-> 0, old |-> <<>>]

Init ==
    /\ current = Blank
    /\ docs = [f \in ToSet(PublisherFiles) |-> Content(Blank, f)]
    /\ manifest = None
    /\ writer = None
    /\ lease = None
    /\ pub = [p \in Publishers |-> Down]
    /\ cmd = [k \in Commands |-> Waiting]
    /\ torn = FALSE
    /\ between = [p \in Publishers |-> Blank]
    /\ commands = 0 /\ faults = 0 /\ crashes = 0

----
\* A worker publishes a new attempt of a cell.
Measure(c) ==
    /\ current[c] < MaxAttempts
    /\ current' = [current EXCEPT ![c] = @ + 1]
    /\ UNCHANGED <<docs, manifest, writer, lease, pub, cmd, torn, between, budgets>>

----
\* The publisher

\* The next state of a publisher's cycle, and its parts.
Cycle(p, state) == pub' = [pub EXCEPT ![p] = state]
At(r, phase, index) ==
    [phase |-> phase, seen |-> r.seen, again |-> r.again, base |-> r.base,
     index |-> index, tries |-> r.tries, old |-> r.old]
With(function, c, value) == [function EXCEPT ![c] = value]

\* Mutant: the claim is the state file, which a dead process leaves behind.
StartUnleased(p) ==
    /\ pub[p].phase = "down"
    /\ lease' = p
    /\ Cycle(p, Begun)
    /\ UNCHANGED <<current, docs, manifest, writer, cmd, torn, between, budgets>>

\* run_publisher claims the lease or is refused.
Start(p) ==
    /\ pub[p].phase = "down"
    /\ lease = None
    /\ lease' = p
    /\ Cycle(p, Begun)
    /\ UNCHANGED <<current, docs, manifest, writer, cmd, torn, between, budgets>>

\* One pointer of the first reading.
ReadFirst(p) ==
    LET c == CellOrder[pub[p].index]
        r == [pub[p] EXCEPT !.seen = With(@, c, current[c])]
    IN  /\ pub[p].phase = "capture"
        /\ IF r.index < N
           THEN /\ Cycle(p, At(r, "capture", r.index + 1))
                /\ UNCHANGED between
           ELSE /\ Cycle(p, At(r, "confirm", 1))
                /\ between' = [between EXCEPT ![p] = current]
        /\ UNCHANGED <<current, docs, manifest, writer, lease, cmd, torn, budgets>>

\* Mutant: the second reading is not compared with the first.
ReadAgainUnconfirmed(p) ==
    LET c == CellOrder[pub[p].index]
        r == [pub[p] EXCEPT !.again = With(@, c, current[c])]
    IN  /\ pub[p].phase = "confirm"
        /\ Cycle(p, IF r.index < N THEN At(r, "confirm", r.index + 1) ELSE At(r, "copy", 1))
        /\ UNCHANGED <<current, docs, manifest, writer, lease, cmd, torn, between, budgets>>

\* One pointer of the second reading; two equal readings are the snapshot,
\* three unequal pairs end the cycle.
ReadAgain(p) ==
    LET c == CellOrder[pub[p].index]
        r == [pub[p] EXCEPT !.again = With(@, c, current[c])]
    IN  /\ pub[p].phase = "confirm"
        /\ Cycle(p, IF r.index < N THEN At(r, "confirm", r.index + 1)
                    ELSE IF r.again = r.seen THEN At(r, "copy", 1)
                    ELSE IF r.tries = 2 THEN At(r, "ended", 0)
                    ELSE [At(r, "capture", 1) EXCEPT !.tries = @ + 1])
        /\ UNCHANGED <<current, docs, manifest, writer, lease, cmd, torn, between, budgets>>

\* _copy_report_source copies the caches one by one, with no lock.
Copy(p) ==
    LET c == CellOrder[pub[p].index]
        r == [pub[p] EXCEPT !.base = With(@, c, docs[c])]
    IN  /\ pub[p].phase = "copy"
        /\ Cycle(p, IF r.index < N THEN At(r, "copy", r.index + 1) ELSE At(r, "build", 0))
        /\ UNCHANGED <<current, docs, manifest, writer, lease, cmd, torn, between, budgets>>

\* merge_current: a captured record replaces what the copy says of its cell.
Merged(base, records) ==
    [c \in Cells |-> IF records[c] # 0 THEN records[c] ELSE base[c]]

\* Mutant: only the copied caches reach the tables.
StagedUnmerged(p) == pub[p].base

Staged(p) == Merged(pub[p].base, pub[p].seen)

\* The staged report is rendered and compiled; latexmk may fail (Fault).
Build(p) ==
    /\ pub[p].phase = "build"
    /\ Cycle(p, [pub[p] EXCEPT !.phase = "lock"])
    /\ UNCHANGED <<current, docs, manifest, writer, lease, cmd, torn, between, budgets>>

\* _publisher_writer_lock polls with a back-off.
TakeWriter(p) ==
    /\ pub[p].phase = "lock"
    /\ writer = None
    /\ writer' = p
    /\ Cycle(p, [At(pub[p], "install", 1) EXCEPT !.old = <<>>])
    /\ UNCHANGED <<current, docs, manifest, lease, cmd, torn, between, budgets>>

\* One file is saved, replaced and synced.
Replace(p) ==
    LET f == PublisherFiles[pub[p].index]
        r == [pub[p] EXCEPT !.old = Append(@, docs[f])]
    IN  /\ pub[p].phase = "install"
        /\ docs' = [docs EXCEPT ![f] = Content(Staged(p), f)]
        /\ Cycle(p, At(r, IF r.index = N + 2 THEN "manifest" ELSE "install", r.index + 1))
        /\ UNCHANGED <<current, manifest, writer, lease, cmd, torn, between, budgets>>

\* The directory sync or an interrupt fails after os.replace and before the file
\* is noted as replaced: the rollback leaves it.
ReplaceUnsynced(p) ==
    LET f == PublisherFiles[pub[p].index]
    IN  /\ pub[p].phase = "install"
        /\ faults < MaxFaults
        /\ faults' = faults + 1
        /\ docs' = [docs EXCEPT ![f] = Content(Staged(p), f)]
        /\ torn' = TRUE
        /\ Cycle(p, [pub[p] EXCEPT !.phase = "rollback"])
        /\ UNCHANGED <<current, manifest, writer, lease, cmd, between, commands, crashes>>

Snapshot(p) == [snapshot |-> pub[p].seen, files |-> Staged(p)]

WriteManifest(p) ==
    /\ pub[p].phase = "manifest"
    /\ manifest' = Snapshot(p)
    /\ torn' = FALSE
    /\ writer' = None
    /\ Cycle(p, [pub[p] EXCEPT !.phase = "ended"])
    /\ UNCHANGED <<current, docs, lease, cmd, between, budgets>>

\* The manifest is replaced, and syncing its directory fails: the files are rolled
\* back under it.
ManifestUnsynced(p) ==
    /\ pub[p].phase = "manifest"
    /\ faults < MaxFaults
    /\ faults' = faults + 1
    /\ manifest' = Snapshot(p)
    /\ Cycle(p, [pub[p] EXCEPT !.phase = "rollback"])
    /\ UNCHANGED <<current, docs, writer, lease, cmd, torn, between, commands, crashes>>

\* Mutant: a failure leaves the files that were replaced.
RollBackNothing(p) ==
    /\ pub[p].phase = "rollback"
    /\ writer' = None
    /\ Cycle(p, [pub[p] EXCEPT !.phase = "ended"])
    /\ UNCHANGED <<current, docs, manifest, lease, cmd, torn, between, budgets>>

\* The last replaced file is restored; when none is left the lock is released.
RollBack(p) ==
    LET n == Len(pub[p].old)
    IN  /\ pub[p].phase = "rollback"
        /\ IF n = 0
           THEN /\ writer' = None
                /\ Cycle(p, [pub[p] EXCEPT !.phase = "ended"])
                /\ UNCHANGED docs
           ELSE /\ docs' = [docs EXCEPT ![PublisherFiles[n]] = pub[p].old[n]]
                /\ Cycle(p, [pub[p] EXCEPT !.old = Front(@)])
                /\ UNCHANGED writer
        /\ UNCHANGED <<current, manifest, lease, cmd, torn, between, budgets>>

\* A step of the cycle fails: before the lock the cycle ends, under it what was
\* replaced is rolled back.
Fault(p) ==
    /\ pub[p].phase \in {"capture", "confirm", "copy", "build", "install", "manifest"}
    /\ faults < MaxFaults
    /\ faults' = faults + 1
    /\ Cycle(p, [pub[p] EXCEPT !.phase =
                    IF @ \in {"install", "manifest"} THEN "rollback" ELSE "ended"])
    /\ UNCHANGED <<current, docs, manifest, writer, lease, cmd, torn, between, commands, crashes>>

\* run_publisher with --watch begins the next cycle; without, or when it fails,
\* it gives the lease back.
NextCycle(p) ==
    /\ pub[p].phase = "ended"
    /\ Cycle(p, Begun)
    /\ UNCHANGED <<current, docs, manifest, writer, lease, cmd, torn, between, budgets>>

Stop(p) ==
    /\ pub[p].phase = "ended"
    /\ Cycle(p, Down)
    /\ lease' = None
    /\ UNCHANGED <<current, docs, manifest, writer, cmd, torn, between, budgets>>

\* The process dies: the kernel releases its two locks.
Die(p) ==
    /\ pub[p].phase # "down"
    /\ crashes < MaxCrashes
    /\ crashes' = crashes + 1
    /\ torn' = (torn \/ pub[p].phase \in {"install", "rollback"})
    /\ Cycle(p, Down)
    /\ lease' = IF lease = p THEN None ELSE lease
    /\ writer' = IF writer = p THEN None ELSE writer
    /\ UNCHANGED <<current, docs, manifest, cmd, between, commands, faults>>

PublisherStep(p) ==
    \/ ReadFirst(p)
    \/ ReadAgain(p)
    \/ Copy(p)
    \/ Build(p)
    \/ TakeWriter(p)
    \/ Replace(p)
    \/ WriteManifest(p)
    \/ RollBack(p)
    \/ NextCycle(p)
    \/ Stop(p)

----
\* render and reset: ReportService.publish

\* The next state of a command.
Runs(k, state) == cmd' = [cmd EXCEPT ![k] = state]

\* The lock is taken, the caches are loaded and merged with the pointers, or
\* reset.  The pointers are read as one: no property compares them with another.
Command(k, reset) ==
    /\ cmd[k].phase = "idle"
    /\ writer = None
    /\ commands < MaxCommands
    /\ commands' = commands + 1
    /\ writer' = k
    /\ Runs(k, [phase |-> "install", index |-> 1, old |-> <<>>,
                plan |-> IF reset THEN Blank ELSE Merged(docs, current)])
    /\ UNCHANGED <<current, docs, manifest, lease, pub, torn, between, faults, crashes>>

CommandReplace(k) ==
    LET f == CommandFiles[cmd[k].index]
    IN  /\ cmd[k].phase = "install"
        /\ docs' = [docs EXCEPT ![f] = Content(cmd[k].plan, f)]
        /\ IF cmd[k].index < N + 1
           THEN /\ Runs(k, [phase |-> "install", plan |-> cmd[k].plan,
                            index |-> cmd[k].index + 1, old |-> Append(cmd[k].old, docs[f])])
                /\ UNCHANGED <<writer, torn>>
           ELSE /\ Runs(k, Waiting)
                /\ writer' = None
                /\ torn' = FALSE
        /\ UNCHANGED <<current, manifest, lease, pub, between, budgets>>

CommandFault(k) ==
    /\ cmd[k].phase = "install"
    /\ faults < MaxFaults
    /\ faults' = faults + 1
    /\ Runs(k, [cmd[k] EXCEPT !.phase = "rollback"])
    /\ UNCHANGED <<current, docs, manifest, writer, lease, pub, torn, between, commands, crashes>>

CommandRollBack(k) ==
    LET n == Len(cmd[k].old)
    IN  /\ cmd[k].phase = "rollback"
        /\ IF n = 0
           THEN /\ writer' = None
                /\ Runs(k, Waiting)
                /\ UNCHANGED docs
           ELSE /\ docs' = [docs EXCEPT ![CommandFiles[n]] = cmd[k].old[n]]
                /\ Runs(k, [cmd[k] EXCEPT !.old = Front(@)])
                /\ UNCHANGED writer
        /\ UNCHANGED <<current, manifest, lease, pub, torn, between, budgets>>

CommandDies(k) ==
    /\ cmd[k].phase # "idle"
    /\ crashes < MaxCrashes
    /\ crashes' = crashes + 1
    /\ torn' = TRUE
    /\ Runs(k, Waiting)
    /\ writer' = IF writer = k THEN None ELSE writer
    /\ UNCHANGED <<current, docs, manifest, lease, pub, between, commands, faults>>

CommandStep(k) == CommandReplace(k) \/ CommandRollBack(k)

Next ==
    \/ \E c \in Cells : Measure(c)
    \/ \E p \in Publishers : \/ Start(p) \/ PublisherStep(p)
                             \/ ReplaceUnsynced(p) \/ ManifestUnsynced(p)
                             \/ Fault(p) \/ Die(p)
    \/ \E k \in Commands : \/ \E reset \in BOOLEAN : Command(k, reset)
                           \/ CommandStep(k) \/ CommandFault(k) \/ CommandDies(k)

Spec == Init /\ [][Next]_vars

\* Processes run on, the writer lock is polled often enough to be got, and a
\* publisher is started again after it stopped or died.
LiveSpec ==
    /\ Spec
    /\ \A p \in Publishers : WF_vars(PublisherStep(p))
    /\ WF_vars(\E p \in Publishers : Start(p))
    /\ \A k \in Commands : WF_vars(CommandStep(k))

----
\* Properties

\* The variables hold values of their kinds.
TypeOK ==
    /\ current \in Attempts
    /\ DOMAIN docs = ToSet(PublisherFiles)
    /\ \A f \in DOMAIN docs : IF f \in Cells THEN docs[f] \in 0..MaxAttempts ELSE docs[f] \in Attempts
    /\ manifest # None => manifest \in [snapshot : Attempts, files : Attempts]
    /\ writer \in Publishers \cup Commands \cup {None}
    /\ lease \in Publishers \cup {None}
    /\ \A p \in Publishers :
          /\ pub[p].seen \in Attempts /\ pub[p].again \in Attempts /\ pub[p].base \in Attempts
          /\ pub[p].index \in 0..N + 3 /\ pub[p].tries \in 0..2 /\ Len(pub[p].old) <= N + 2
    /\ \A k \in Commands : cmd[k].plan \in Attempts /\ cmd[k].index \in 0..N + 1
    /\ torn \in BOOLEAN

\* What is published was once true: the pointers that a publisher captured, one
\* by one and with no lock, are the pointers of all cells at one moment between
\* its two readings ("a stable pointer set", publisher.py:217).
CaptureExisted ==
    \A p \in Publishers :
        pub[p].phase \in {"copy", "build", "lock", "install", "manifest"}
            => pub[p].seen = between[p]

\* The snapshots of the manifest never go back, cell by cell, whichever
\* publishers ran, stopped or died (_publisher_state_lease, publisher.py:126).
ManifestForward ==
    [][(manifest # None /\ manifest' # manifest) =>
           \A c \in Cells : manifest.snapshot[c] <= manifest'.snapshot[c]]_vars

\* When no one writes and no installer was torn off, tables show exactly what
\* the caches say, after installs that failed and rolled back as well
\* (_install_snapshot, publisher.py:377; _snapshot_files, service.py:366).
TablesShowCaches ==
    (writer = None /\ ~torn) => docs["tables"] = [c \in Cells |-> docs[c]]

Valid == manifest # None /\ \A f \in DOMAIN docs : docs[f] = Content(manifest.files, f)

\* A report that validates is whole whatever died, failed or was overwritten:
\* PDF and tables show the caches, and every record of the manifest's snapshot is
\* in them (validate_published_snapshot, publisher.py:428).
ValidIsWhole ==
    Valid => /\ docs["pdf"] = docs["tables"]
             /\ docs["tables"] = [c \in Cells |-> docs[c]]
             /\ \A c \in Cells : manifest.snapshot[c] # 0 => docs[c] = manifest.snapshot[c]

\* The report is the valid report of the current pointers.
Converged ==
    /\ Valid /\ manifest.snapshot = current
    /\ \A c \in Cells : current[c] # 0 => docs[c] = current[c]
====
