--------------------------- MODULE ArtifactStore ---------------------------
(***************************************************************************)
(* One schema-v3 artifact directory and the processes that write it.       *)
(*                                                                         *)
(* Generation processes (Writer) build a private sibling directory under   *)
(* an exclusive flock and publish it with one rename or one atomic         *)
(* exchange (artifacts/transaction.py, artifacts/writer.py).  The          *)
(* `group-processes` command (Grouper) rewrites process-groups.json and    *)
(* the manifest in place under the same flock                              *)
(* (artifacts/process_groups.py).  Any of them may fail at a file          *)
(* operation or be killed at any point.                                    *)
(*                                                                         *)
(* Data abstraction: generation run w produces exactly one process, named  *)
(* w; grouping run g discovers exactly one relation, named g.  The         *)
(* artifact_id of a manifest is its set of processes, because the group    *)
(* map is the one payload whose role is not part of the identity.          *)
(***************************************************************************)
EXTENDS Naturals

CONSTANTS
    Writer,      \* generation runs, each one also the name of its process
    Grouper,     \* grouping runs, each one also the name of its relation
    Absent,      \* no directory under this name
    NoManifest,  \* a directory without artifact.json
    Nobody,      \* the flock is free
    MaxRuns      \* bound: how often one actor is started

Actor == Writer \cup Grouper

GroupMap == [members : SUBSET Writer, relations : SUBSET Grouper]

Manifest == [procs : SUBSET Writer, groups : GroupMap]

Directory == [procs    : SUBSET Writer,
              groups   : GroupMap,
              manifest : Manifest \cup {NoManifest}]

ASSUME ActorAssumption ==
    /\ Writer \cap Grouper = {}
    /\ Nobody \notin Actor
ASSUME SentinelAssumption ==
    /\ Absent \notin Directory /\ \A procs \in SUBSET Writer : Absent # procs
    /\ NoManifest \notin Manifest
ASSUME BoundAssumption == MaxRuns \in Nat

VARIABLES
    destination,  \* the directory at the public name, or Absent
    staging,      \* staging[w]: the private sibling of writer w, or Absent
    lock,         \* holder of .<name>.lock
    pc,           \* pc[a]: where actor a is
    mode,         \* mode[w]: "error", "append" or "replace"
    expected,     \* expected[w]: processes of the manifest read before the lock
    draft,        \* draft[g]: group map read before the lock, then extended
    outcome,      \* outcome[a]: how the last finished run of a ended
    interrupted,  \* history: a group update stopped between its two renames
    runs          \* runs[a]: how often a was started

vars == <<destination, staging, lock, pc, mode, expected, draft, outcome,
          interrupted, runs>>

EmptyGroups == [members |-> {}, relations |-> {}]

EmptyDirectory ==
    [procs |-> {}, groups |-> EmptyGroups, manifest |-> NoManifest]

Init ==
    /\ destination = Absent
    /\ staging = [w \in Writer |-> Absent]
    /\ lock = Nobody
    /\ pc = [a \in Actor |-> "idle"]
    /\ mode = [w \in Writer |-> "error"]
    /\ expected = [w \in Writer |-> {}]
    /\ draft = [g \in Grouper |-> EmptyGroups]
    /\ outcome = [a \in Actor |-> "none"]
    /\ interrupted = FALSE
    /\ runs = [a \in Actor |-> 0]

Goto(a, label) == pc' = [pc EXCEPT ![a] = label]

\* load_manifest on the public path: it fails where there is no manifest.
Readable == destination # Absent /\ destination.manifest # NoManifest

----------------------------------------------------------------------------
(* Generation: write_schema_v3_artifact                                    *)

\* An append reads the manifest before it takes the lock and refuses a
\* process the artifact already has; the other modes read nothing.
Start(w, m) ==
    /\ pc[w] = "idle" /\ runs[w] < MaxRuns
    /\ m = "append" => Readable /\ w \notin destination.manifest.procs
    /\ expected' = [expected EXCEPT ![w] =
                      IF m = "append" THEN destination.manifest.procs ELSE {}]
    /\ mode' = [mode EXCEPT ![w] = m]
    /\ runs' = [runs EXCEPT ![w] = @ + 1]
    /\ Goto(w, "waiting")
    /\ UNCHANGED <<destination, staging, lock, draft, outcome, interrupted>>

\* Mutant: a shared lock, which two holders may take.
AcquireShared(a) ==
    /\ pc[a] = "waiting"
    /\ lock' = a
    /\ Goto(a, "locked")
    /\ UNCHANGED <<destination, staging, mode, expected, draft, outcome,
                   interrupted, runs>>

\* flock(LOCK_EX) blocks until the lock is free.
Acquire(a) ==
    /\ pc[a] = "waiting" /\ lock = Nobody
    /\ lock' = a
    /\ Goto(a, "locked")
    /\ UNCHANGED <<destination, staging, mode, expected, draft, outcome,
                   interrupted, runs>>

\* Mutant: the existence check of mode "error" was made before the lock.
StageUnchecked(w) ==
    /\ pc[w] = "locked"
    /\ mode[w] = "append" => destination # Absent
    /\ staging' = [staging EXCEPT ![w] =
                     IF mode[w] = "append" THEN destination ELSE EmptyDirectory]
    /\ Goto(w, "staged")
    /\ UNCHANGED <<destination, lock, mode, expected, draft, outcome,
                   interrupted, runs>>

\* __enter__ under the lock: the mode's precondition, then a copy or an
\* empty staging directory.
Stage(w) ==
    /\ pc[w] = "locked"
    /\ mode[w] = "error" => destination = Absent
    /\ mode[w] = "append" => destination # Absent
    /\ staging' = [staging EXCEPT ![w] =
                     IF mode[w] = "append" THEN destination ELSE EmptyDirectory]
    /\ Goto(w, "staged")
    /\ UNCHANGED <<destination, lock, mode, expected, draft, outcome,
                   interrupted, runs>>

\* Mutant: expected_artifact_id is not compared with the staged manifest.
CheckStagedUnexpected(w) ==
    /\ pc[w] = "staged"
    /\ mode[w] = "append" => staging[w].manifest # NoManifest
    /\ staging' = [staging EXCEPT ![w].manifest = NoManifest]
    /\ Goto(w, "building")
    /\ UNCHANGED <<destination, lock, mode, expected, draft, outcome,
                   interrupted, runs>>

\* ArtifactBuilder.__enter__: the staged manifest must still be the one read
\* before the lock; it is then removed from the staging directory.
CheckStaged(w) ==
    /\ pc[w] = "staged"
    /\ mode[w] = "append" =>
         /\ staging[w].manifest # NoManifest
         /\ staging[w].manifest.procs = expected[w]
    /\ staging' = [staging EXCEPT ![w].manifest = NoManifest]
    /\ Goto(w, "building")
    /\ UNCHANGED <<destination, lock, mode, expected, draft, outcome,
                   interrupted, runs>>

\* add_* of the process payloads, then process-groups.json: the relations of
\* the staged map are kept and every process becomes a generated member.
AddPayloads(w) ==
    /\ pc[w] = "building"
    /\ LET old == staging[w]
           groups == [members |-> old.groups.members \cup {w},
                      relations |-> old.groups.relations]
       IN  staging' = [staging EXCEPT
                         ![w].procs = old.procs \cup {w},
                         ![w].groups = groups]
    /\ Goto(w, "filled")
    /\ UNCHANGED <<destination, lock, mode, expected, draft, outcome,
                   interrupted, runs>>

\* finalize: the process records are those read before the lock plus the new
\* one; the payload digests are those of the staged files.
Finalize(w) ==
    /\ pc[w] = "filled"
    /\ staging' = [staging EXCEPT ![w].manifest =
                     [procs |-> expected[w] \cup {w},
                      groups |-> staging[w].groups]]
    /\ Goto(w, "finalized")
    /\ UNCHANGED <<destination, lock, mode, expected, draft, outcome,
                   interrupted, runs>>

\* commit up to the rename: an existing destination is exchanged with the
\* staging directory, a missing one is created by the rename.
Install(w) ==
    /\ pc[w] = "finalized"
    /\ destination' = staging[w]
    /\ staging' = [staging EXCEPT ![w] = destination]
    /\ interrupted' = FALSE
    /\ Goto(w, "installed")
    /\ UNCHANGED <<lock, mode, expected, draft, outcome, runs>>

\* fsync of the parent directory succeeds: the transaction is committed.
Commit(w) ==
    /\ pc[w] = "installed"
    /\ outcome' = [outcome EXCEPT ![w] = "ok"]
    /\ Goto(w, "releasing")
    /\ UNCHANGED <<destination, staging, lock, mode, expected, draft,
                   interrupted, runs>>

\* Any exception inside the with block, a failed precondition, or a failed
\* fsync: __exit__ or __enter__ goes to _release.
Fail(w) ==
    /\ pc[w] \in {"locked", "staged", "building", "filled", "finalized",
                  "installed"}
    /\ outcome' = [outcome EXCEPT ![w] = "error"]
    /\ Goto(w, "releasing")
    /\ UNCHANGED <<destination, staging, lock, mode, expected, draft,
                   interrupted, runs>>

\* _release, first half: the staging directory is removed.  After an exchange
\* it holds the previous artifact.
RemoveStaging(w) ==
    /\ pc[w] = "releasing"
    /\ staging' = [staging EXCEPT ![w] = Absent]
    /\ Goto(w, "unlocking")
    /\ UNCHANGED <<destination, lock, mode, expected, draft, outcome,
                   interrupted, runs>>

\* Mutant: the stream is kept open and locked.
UnlockForgotten(a) ==
    /\ pc[a] = "unlocking"
    /\ Goto(a, "idle")
    /\ UNCHANGED <<destination, staging, lock, mode, expected, draft, outcome,
                   interrupted, runs>>

\* _release, second half.
Unlock(a) ==
    /\ pc[a] = "unlocking"
    /\ lock' = Nobody
    /\ Goto(a, "idle")
    /\ UNCHANGED <<destination, staging, mode, expected, draft, outcome,
                   interrupted, runs>>

\* The flock outlives the with block: rmtree raised inside _release, or the
\* builder was left without finalize(), which raises before the transaction's
\* __exit__ runs.
Leak(w) ==
    /\ pc[w] \in {"releasing", "building", "filled"}
    /\ outcome' = [outcome EXCEPT ![w] = "error"]
    /\ Goto(w, "leaked")
    /\ UNCHANGED <<destination, staging, lock, mode, expected, draft,
                   interrupted, runs>>

----------------------------------------------------------------------------
(* Grouping: update_artifact_process_groups and write_process_groups       *)

\* The stored map is read, without the lock, and the analysis adds relation g.
StartGrouping(g) ==
    /\ pc[g] = "idle" /\ runs[g] < MaxRuns
    /\ Readable
    /\ draft' = [draft EXCEPT ![g] =
                   [members |-> destination.groups.members,
                    relations |-> destination.groups.relations \cup {g}]]
    /\ runs' = [runs EXCEPT ![g] = @ + 1]
    /\ Goto(g, "waiting")
    /\ UNCHANGED <<destination, staging, lock, mode, expected, outcome,
                   interrupted>>

\* validate_process_groups against the locked manifest, then the first
\* os.replace: the new map under the old manifest.
ReplaceGroups(g) ==
    /\ pc[g] = "locked"
    /\ Readable /\ draft[g].members = destination.manifest.procs
    /\ destination' = [destination EXCEPT !.groups = draft[g]]
    /\ Goto(g, "payload_replaced")
    /\ UNCHANGED <<staging, lock, mode, expected, draft, outcome,
                   interrupted, runs>>

\* Mutant: the manifest keeps the old record of process-groups.json.
ReplaceManifestOldRecord(g) ==
    /\ pc[g] = "payload_replaced"
    /\ interrupted' = FALSE
    /\ outcome' = [outcome EXCEPT ![g] = "ok"]
    /\ Goto(g, "unlocking")
    /\ UNCHANGED <<destination, staging, lock, mode, expected, draft, runs>>

\* The second os.replace: the manifest now declares the new map.
ReplaceManifest(g) ==
    /\ pc[g] = "payload_replaced"
    /\ destination' = [destination EXCEPT !.manifest.groups = draft[g]]
    /\ interrupted' = FALSE
    /\ outcome' = [outcome EXCEPT ![g] = "ok"]
    /\ Goto(g, "unlocking")
    /\ UNCHANGED <<staging, lock, mode, expected, draft, runs>>

\* A rejected map or a failed file operation: the lock is released.
FailGrouping(g) ==
    /\ pc[g] \in {"locked", "payload_replaced"}
    /\ interrupted' = (interrupted \/ pc[g] = "payload_replaced")
    /\ outcome' = [outcome EXCEPT ![g] = "error"]
    /\ Goto(g, "unlocking")
    /\ UNCHANGED <<destination, staging, lock, mode, expected, draft, runs>>

----------------------------------------------------------------------------
\* The process dies, or (after Leak) the last reference to the lock stream is
\* dropped: the kernel releases the flock and the private staging directory,
\* whose name is never used again, is abandoned.
Die(a) ==
    /\ pc[a] # "idle"
    /\ lock' = IF lock = a THEN Nobody ELSE lock
    /\ staging' = [w \in Writer |-> IF w = a THEN Absent ELSE staging[w]]
    /\ interrupted' = (interrupted \/ pc[a] = "payload_replaced")
    /\ outcome' = [outcome EXCEPT ![a] = "error"]
    /\ Goto(a, "idle")
    /\ UNCHANGED <<destination, mode, expected, draft, runs>>

WriterStep(w) ==
    \/ Acquire(w) \/ Stage(w) \/ CheckStaged(w) \/ AddPayloads(w)
    \/ Finalize(w) \/ Install(w) \/ Commit(w) \/ Fail(w)
    \/ RemoveStaging(w) \/ Unlock(w)

GrouperStep(g) ==
    \/ Acquire(g) \/ ReplaceGroups(g) \/ ReplaceManifest(g)
    \/ FailGrouping(g) \/ Unlock(g)

Next ==
    \/ \E w \in Writer :
         \/ \E m \in {"error", "append", "replace"} : Start(w, m)
         \/ WriterStep(w)
         \/ Leak(w)
    \/ \E g \in Grouper : StartGrouping(g) \/ GrouperStep(g)
    \/ \E a \in Actor : Die(a)

\* A started process keeps executing, and a leaked lock stream is closed when
\* its builder is collected or its process exits.
Fairness ==
    /\ \A w \in Writer : WF_vars(WriterStep(w))
    /\ \A g \in Grouper : WF_vars(GrouperStep(g))
    /\ \A w \in Writer : WF_vars(pc[w] = "leaked" /\ Die(w))

Safety == Init /\ [][Next]_vars

Spec == Safety /\ Fairness

----------------------------------------------------------------------------
(* Properties                                                              *)

WriterLabel == {"idle", "waiting", "locked", "staged", "building", "filled",
                "finalized", "installed", "releasing", "unlocking", "leaked"}
GrouperLabel == {"idle", "waiting", "locked", "payload_replaced", "unlocking"}

\* Every variable keeps its type.
TypeOK ==
    /\ destination \in Directory \cup {Absent}
    /\ staging \in [Writer -> Directory \cup {Absent}]
    /\ lock \in Actor \cup {Nobody}
    /\ pc \in [Actor -> WriterLabel \cup GrouperLabel]
    /\ mode \in [Writer -> {"error", "append", "replace"}]
    /\ expected \in [Writer -> SUBSET Writer]
    /\ draft \in [Grouper -> GroupMap]
    /\ outcome \in [Actor -> {"none", "ok", "error"}]
    /\ interrupted \in BOOLEAN
    /\ runs \in [Actor -> 0..MaxRuns]

\* Whatever fails or dies, a reader that opens the public name finds either
\* nothing or a complete artifact: a manifest whose processes are exactly the
\* processes on disk, and a group map that covers exactly those processes
\* (validate_process_groups).
PublishedWhole ==
    destination # Absent =>
      /\ destination.manifest # NoManifest
      /\ destination.manifest.procs = destination.procs
      /\ destination.groups.members = destination.procs

\* The manifest's digest of process-groups.json disagrees with the file only
\* between the two renames of an update, or after an update was cut there and
\* no later update or generation has completed: "an interrupted update leaves
\* a digest mismatch that the next update repairs" (write_process_groups).
DigestRepaired ==
    \/ destination = Absent
    \/ destination.manifest.groups = destination.groups
    \/ interrupted
    \/ \E g \in Grouper : pc[g] = "payload_replaced"

\* An append that publishes adds its process to the artifact that is public
\* at that moment and keeps every relation stored in it: neither another
\* generation nor a grouping run between its unlocked read of the manifest
\* and its lock is lost.
AppendLosesNothing ==
    [][\A w \in Writer :
         pc[w] = "finalized" /\ pc'[w] = "installed" /\ mode[w] = "append" =>
           /\ destination'.procs = destination.procs \cup {w}
           /\ destination.groups.relations \subseteq
                destination'.groups.relations]_vars

\* mode "error" never replaces an artifact, however many generations raced
\* for the same output between their existence check and their rename.
ErrorModeNeverReplaces ==
    [][\A w \in Writer :
         pc[w] = "finalized" /\ pc'[w] = "installed" /\ mode[w] = "error" =>
           destination = Absent]_vars

\* A private staging directory exists only while its writer holds the lock,
\* so no finished generation leaves the previous artifact's copy behind.
StagingUnderLock ==
    \A w \in Writer : staging[w] # Absent => lock = w

\* A generation that waits for the lock gets its turn or dies, although other
\* holders fail, die or leak the lock.
WaiterProceeds ==
    \A a \in Actor : pc[a] = "waiting" ~> pc[a] # "waiting"

\* Readers see an atomic catalogue of processes (ArtifactCatalogue): staging,
\* locking, exchange, failure and death are invisible to them.
Catalogue == INSTANCE ArtifactCatalogue WITH
    artifact <- IF destination = Absent THEN Absent
                ELSE destination.manifest.procs

ImplementsCatalogue == Catalogue!Spec

\* The comment of the except clause of commit(), "Atomic exchange leaves both
\* directory names untouched on failure": a generation that reports an error
\* has not changed the public artifact.
FailedCommitLeavesDestination ==
    [][\A w \in Writer :
         pc[w] = "installed" /\ pc'[w] = "releasing" =>
           outcome'[w] = "ok"]_vars

\* update_artifact_process_groups "merges new relations into the stored map":
\* an update never removes a relation the stored map has.
UpdateMerges ==
    [][\A g \in Grouper :
         pc[g] = "locked" /\ pc'[g] = "payload_replaced" =>
           destination.groups.relations \subseteq
             destination'.groups.relations]_vars
=============================================================================
