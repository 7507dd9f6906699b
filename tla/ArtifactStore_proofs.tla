------------------------ MODULE ArtifactStore_proofs ------------------------
(***************************************************************************)
(* Proofs about ArtifactStore.  None of its invariants is inductive alone: *)
(* that the published directory is whole depends on what the staging       *)
(* directory holds at each label, that depends on the flock keeping the    *)
(* destination unchanged since the copy, and even the type of the          *)
(* destination depends on a manifest being there when it is rewritten.     *)
(***************************************************************************)
EXTENDS ArtifactStore, TLAPS

\* The flock is held by exactly the actor that is past its acquisition.
LockHeld == \A a \in Actor : pc[a] \notin {"idle", "waiting"} <=> lock = a

\* The processes the staged payload of w describes: those of the manifest w
\* read, and w itself once its payload was added.
Added(w) == expected[w] \cup (IF pc[w] = "building" THEN {} ELSE {w})

\* The staging directory of w at each label of w.
StagedFor(w) ==
    /\ pc[w] \in WriterLabel
    /\ mode[w] # "append" => expected[w] = {}
    /\ pc[w] \in {"idle", "waiting", "locked", "unlocking"} =>
         staging[w] = Absent
    /\ pc[w] = "staged" =>
         staging[w] = IF mode[w] = "append" THEN destination
                      ELSE EmptyDirectory
    /\ pc[w] = "staged" => staging[w] # Absent
    /\ pc[w] \in {"building", "filled", "finalized"} =>
         /\ staging[w] \in Directory
         /\ staging[w].procs = Added(w)
         /\ staging[w].groups.members = Added(w)
         /\ mode[w] = "append" =>
              /\ destination \in Directory
              /\ destination.procs = expected[w]
              /\ destination.groups.relations = staging[w].groups.relations
    /\ pc[w] = "finalized" =>
         staging[w].manifest = [procs |-> staging[w].procs,
                                groups |-> staging[w].groups]

\* The destination of a grouping run between its two renames.
GroupsReplaced(g) ==
    pc[g] = "payload_replaced" => /\ destination # Absent
                                  /\ destination.groups = draft[g]

\* The inductive invariant.
IInv ==
    /\ TypeOK
    /\ LockHeld
    /\ \A w \in Writer : StagedFor(w)
    /\ \A g \in Grouper : GroupsReplaced(g)
    /\ PublishedWhole
    /\ DigestRepaired

----------------------------------------------------------------------------
\* The initial state satisfies the inductive invariant.
LEMMA InitIInv == Init => IInv
  <1> SUFFICES ASSUME Init PROVE IInv
    OBVIOUS
  <1>1. TypeOK
    <2>1. EmptyGroups \in GroupMap
      BY DEF EmptyGroups, GroupMap
    <2>2. "idle" \in WriterLabel \cup GrouperLabel /\ 0 \in 0..MaxRuns
      BY BoundAssumption DEF WriterLabel
    <2>3. QED
      BY <2>1, <2>2 DEF Init, TypeOK
  <1>2. LockHeld
    BY ActorAssumption DEF Init, LockHeld
  <1>3. \A w \in Writer : StagedFor(w)
    BY DEF Init, StagedFor, WriterLabel, Actor
  <1>4. \A g \in Grouper : GroupsReplaced(g)
    BY DEF Init, GroupsReplaced, Actor
  <1>5. PublishedWhole /\ DigestRepaired
    BY DEF Init, PublishedWhole, DigestRepaired
  <1>6. QED
    BY <1>1, <1>2, <1>3, <1>4, <1>5 DEF IInv

\* Reading the manifest before the lock keeps the invariant.
LEMMA StartKeeps ==
  ASSUME IInv, NEW w \in Writer,
         NEW m \in {"error", "append", "replace"}, Start(w, m)
  PROVE  IInv'
  BY ActorAssumption, SentinelAssumption, BoundAssumption
  DEF IInv, TypeOK, LockHeld, StagedFor, Added, GroupsReplaced, PublishedWhole,
      DigestRepaired, Actor, Directory, Manifest, GroupMap, WriterLabel,
      GrouperLabel, Goto, Start, Readable

\* Entering the transaction keeps the invariant.
LEMMA StageKeeps ==
  ASSUME IInv, NEW w \in Writer, Stage(w)
  PROVE  IInv'
  BY ActorAssumption, SentinelAssumption, BoundAssumption
  DEF IInv, TypeOK, LockHeld, StagedFor, Added, GroupsReplaced, PublishedWhole,
      DigestRepaired, Actor, Directory, Manifest, GroupMap, WriterLabel,
      GrouperLabel, Goto, Stage, EmptyDirectory,
      EmptyGroups

\* Removing the checked manifest keeps the invariant.
LEMMA CheckStagedKeeps ==
  ASSUME IInv, NEW w \in Writer, CheckStaged(w)
  PROVE  IInv'
  <1>0. /\ pc[w] = "staged" /\ lock = w /\ StagedFor(w)
        /\ staging[w] \in Directory
    BY ActorAssumption, SentinelAssumption
    DEF IInv, TypeOK, LockHeld, StagedFor, Actor, CheckStaged
  <1>1. TypeOK'
    BY <1>0 DEF IInv, TypeOK, Directory, Manifest, GroupMap, Actor,
       WriterLabel, GrouperLabel, Goto, CheckStaged, PublishedWhole,
       EmptyDirectory, EmptyGroups
  <1>2. LockHeld'
    BY <1>0 DEF IInv, TypeOK, LockHeld, Actor, Goto, CheckStaged
  <1>3. \A v \in Writer : StagedFor(v)'
    <2> SUFFICES ASSUME NEW v \in Writer PROVE StagedFor(v)'
      OBVIOUS
    <2>1. CASE v = w
      <3>1. staging'[w] = [procs |-> staging[w].procs,
                           groups |-> staging[w].groups,
                           manifest |-> NoManifest]
        BY <1>0 DEF IInv, TypeOK, Directory, CheckStaged
      <3>2. staging'[w] \in Directory
        BY <1>0, <3>1
        DEF IInv, TypeOK, Directory, Manifest, GroupMap
      <3>3. /\ pc'[w] = "building" /\ mode' = mode /\ expected' = expected
            /\ destination' = destination
        BY DEF IInv, TypeOK, Actor, Goto, CheckStaged
      <3>4. /\ staging[w].procs = expected[w]
            /\ staging[w].groups.members = expected[w]
        BY <1>0 DEF IInv, StagedFor, PublishedWhole, CheckStaged,
           EmptyDirectory, EmptyGroups
      <3>5. QED
        BY <1>0, <2>1, <3>1, <3>2, <3>3, <3>4
        DEF StagedFor, Added, WriterLabel
    <2>2. CASE v # w
      <3>1. pc[v] \in {"idle", "waiting"}
        BY <1>0, <2>2, ActorAssumption DEF IInv, LockHeld, Actor, CheckStaged
      <3>2. StagedFor(v)
        BY DEF IInv
      <3>3. QED
        BY <1>0, <2>2, <3>1, <3>2
        DEF IInv, TypeOK, StagedFor, Actor, Goto, CheckStaged
    <2>3. QED
      BY <2>1, <2>2
  <1>4. \A h \in Grouper : GroupsReplaced(h)'
    <2> SUFFICES ASSUME NEW h \in Grouper PROVE GroupsReplaced(h)'
      OBVIOUS
    <2>1. pc[h] \in {"idle", "waiting"} /\ h # w
      BY <1>0, ActorAssumption DEF IInv, LockHeld, Actor, CheckStaged
    <2>2. QED
      BY <1>0, <2>1 DEF IInv, TypeOK, GroupsReplaced, Actor, Goto, CheckStaged
  <1>5. PublishedWhole'
    BY <1>0, SentinelAssumption
    DEF IInv, TypeOK, PublishedWhole, StagedFor, Directory, Manifest, GroupMap,
        Actor, CheckStaged, PublishedWhole,
       EmptyDirectory, EmptyGroups
  <1>6. DigestRepaired'
    BY <1>0, SentinelAssumption
    DEF IInv, TypeOK, DigestRepaired, GroupsReplaced, StagedFor, Directory,
        Manifest, GroupMap, Actor, Goto, CheckStaged
  <1>7. QED
    BY <1>1, <1>2, <1>3, <1>4, <1>5, <1>6 DEF IInv

\* Writing the payloads keeps the invariant.
LEMMA AddPayloadsKeeps ==
  ASSUME IInv, NEW w \in Writer, AddPayloads(w)
  PROVE  IInv'
  <1>0. /\ pc[w] = "building" /\ lock = w /\ StagedFor(w)
        /\ staging[w] \in Directory
    BY DEF IInv, LockHeld, StagedFor, Actor, AddPayloads
  <1>1. TypeOK'
    BY <1>0 DEF IInv, TypeOK, Directory, Manifest, GroupMap, Actor,
       WriterLabel, GrouperLabel, Goto, AddPayloads
  <1>2. LockHeld'
    BY <1>0 DEF IInv, TypeOK, LockHeld, Actor, Goto, AddPayloads
  <1>3. \A v \in Writer : StagedFor(v)'
    <2> SUFFICES ASSUME NEW v \in Writer PROVE StagedFor(v)'
      OBVIOUS
    <2>1. CASE v = w
      <3>1. staging'[w] = [procs |-> staging[w].procs \cup {w},
                           groups |-> [members |-> staging[w].groups.members
                                                     \cup {w},
                                       relations |->
                                         staging[w].groups.relations],
                           manifest |-> staging[w].manifest]
        BY <1>0 DEF IInv, TypeOK, Directory, AddPayloads
      <3>2. staging'[w] \in Directory
        BY <1>0, <3>1
        DEF IInv, TypeOK, Directory, Manifest, GroupMap
      <3>3. /\ pc'[w] = "filled" /\ mode' = mode /\ expected' = expected
            /\ destination' = destination
        BY DEF IInv, TypeOK, Actor, Goto, AddPayloads
      <3>4. QED
        BY <1>0, <2>1, <3>1, <3>2, <3>3
        DEF StagedFor, Added, WriterLabel
    <2>2. CASE v # w
      <3>1. pc[v] \in {"idle", "waiting"}
        BY <1>0, <2>2, ActorAssumption DEF IInv, LockHeld, Actor, AddPayloads
      <3>2. StagedFor(v)
        BY DEF IInv
      <3>3. QED
        BY <1>0, <2>2, <3>1, <3>2
        DEF IInv, TypeOK, StagedFor, Actor, Goto, AddPayloads
    <2>3. QED
      BY <2>1, <2>2
  <1>4. \A h \in Grouper : GroupsReplaced(h)'
    <2> SUFFICES ASSUME NEW h \in Grouper PROVE GroupsReplaced(h)'
      OBVIOUS
    <2>1. pc[h] \in {"idle", "waiting"} /\ h # w
      BY <1>0, ActorAssumption DEF IInv, LockHeld, Actor, AddPayloads
    <2>2. QED
      BY <1>0, <2>1 DEF IInv, TypeOK, GroupsReplaced, Actor, Goto, AddPayloads
  <1>5. PublishedWhole'
    BY <1>0, SentinelAssumption
    DEF IInv, TypeOK, PublishedWhole, StagedFor, Directory, Manifest, GroupMap,
        Actor, AddPayloads
  <1>6. DigestRepaired'
    BY <1>0, SentinelAssumption
    DEF IInv, TypeOK, DigestRepaired, GroupsReplaced, StagedFor, Directory,
        Manifest, GroupMap, Actor, Goto, AddPayloads
  <1>7. QED
    BY <1>1, <1>2, <1>3, <1>4, <1>5, <1>6 DEF IInv

\* Writing the manifest keeps the invariant.
LEMMA FinalizeKeeps ==
  ASSUME IInv, NEW w \in Writer, Finalize(w)
  PROVE  IInv'
  <1>0. /\ pc[w] = "filled" /\ lock = w /\ StagedFor(w)
        /\ staging[w] \in Directory
    BY DEF IInv, LockHeld, StagedFor, Actor, Finalize
  <1>1. TypeOK'
    BY <1>0 DEF IInv, TypeOK, Directory, Manifest, GroupMap, Actor,
       WriterLabel, GrouperLabel, Goto, Finalize, Added, StagedFor
  <1>2. LockHeld'
    BY <1>0 DEF IInv, TypeOK, LockHeld, Actor, Goto, Finalize
  <1>3. \A v \in Writer : StagedFor(v)'
    <2> SUFFICES ASSUME NEW v \in Writer PROVE StagedFor(v)'
      OBVIOUS
    <2>1. CASE v = w
      <3>1. staging'[w] = [procs |-> staging[w].procs,
                           groups |-> staging[w].groups,
                           manifest |-> [procs |-> expected[w] \cup {w},
                                         groups |-> staging[w].groups]]
        BY <1>0 DEF IInv, TypeOK, Directory, Finalize
      <3>2. staging'[w] \in Directory
        BY <1>0, <3>1
        DEF IInv, TypeOK, Directory, Manifest, GroupMap
      <3>3. /\ pc'[w] = "finalized" /\ mode' = mode /\ expected' = expected
            /\ destination' = destination
        BY DEF IInv, TypeOK, Actor, Goto, Finalize
      <3>4. /\ staging'[w].procs = Added(w)'
            /\ staging'[w].groups.members = Added(w)'
            /\ mode[w] # "append" => expected[w] = {}
            /\ mode[w] = "append" =>
                 /\ destination \in Directory
                 /\ destination.procs = expected[w]
                 /\ destination.groups.relations
                      = staging'[w].groups.relations
        BY <1>0, <3>1, <3>3 DEF StagedFor, Added
      <3>5. staging'[w].manifest = [procs |-> staging'[w].procs,
                                    groups |-> staging'[w].groups]
        BY <1>0, <3>1 DEF StagedFor, Added
      <3>6. staging'[w] # Absent
        BY <3>2, SentinelAssumption
      <3>7. QED
        BY <2>1, <3>2, <3>3, <3>4, <3>5, <3>6 DEF StagedFor, WriterLabel
    <2>2. CASE v # w
      <3>1. pc[v] \in {"idle", "waiting"}
        BY <1>0, <2>2, ActorAssumption DEF IInv, LockHeld, Actor, Finalize
      <3>2. StagedFor(v)
        BY DEF IInv
      <3>3. QED
        BY <1>0, <2>2, <3>1, <3>2
        DEF IInv, TypeOK, StagedFor, Actor, Goto, Finalize
    <2>3. QED
      BY <2>1, <2>2
  <1>4. \A h \in Grouper : GroupsReplaced(h)'
    <2> SUFFICES ASSUME NEW h \in Grouper PROVE GroupsReplaced(h)'
      OBVIOUS
    <2>1. pc[h] \in {"idle", "waiting"} /\ h # w
      BY <1>0, ActorAssumption DEF IInv, LockHeld, Actor, Finalize
    <2>2. QED
      BY <1>0, <2>1 DEF IInv, TypeOK, GroupsReplaced, Actor, Goto, Finalize
  <1>5. PublishedWhole'
    BY <1>0, SentinelAssumption
    DEF IInv, TypeOK, PublishedWhole, StagedFor, Directory, Manifest, GroupMap,
        Actor, Finalize, Added, StagedFor
  <1>6. DigestRepaired'
    BY <1>0, SentinelAssumption
    DEF IInv, TypeOK, DigestRepaired, GroupsReplaced, StagedFor, Directory,
        Manifest, GroupMap, Actor, Goto, Finalize
  <1>7. QED
    BY <1>1, <1>2, <1>3, <1>4, <1>5, <1>6 DEF IInv

\* The rename or exchange keeps the invariant.
LEMMA InstallKeeps ==
  ASSUME IInv, NEW w \in Writer, Install(w)
  PROVE  IInv'
  <1>0. /\ pc[w] = "finalized" /\ lock = w /\ StagedFor(w)
        /\ staging[w] \in Directory
    BY DEF IInv, LockHeld, StagedFor, Actor, Install
  <1>1. TypeOK'
    BY <1>0 DEF IInv, TypeOK, Directory, Manifest, GroupMap, Actor,
       WriterLabel, GrouperLabel, Goto, Install
  <1>2. LockHeld'
    BY <1>0 DEF IInv, TypeOK, LockHeld, Actor, Goto, Install
  <1>3. \A v \in Writer : StagedFor(v)'
    <2> SUFFICES ASSUME NEW v \in Writer PROVE StagedFor(v)'
      OBVIOUS
    <2>1. CASE v = w
      BY <1>0, <2>1, ActorAssumption, SentinelAssumption
      DEF IInv, TypeOK, StagedFor, Added, Actor, WriterLabel, Goto,
          Install
    <2>2. CASE v # w
      <3>1. pc[v] \in {"idle", "waiting"}
        BY <1>0, <2>2, ActorAssumption DEF IInv, LockHeld, Actor, Install
      <3>2. StagedFor(v)
        BY DEF IInv
      <3>3. QED
        BY <1>0, <2>2, <3>1, <3>2
        DEF IInv, TypeOK, StagedFor, Actor, Goto, Install
    <2>3. QED
      BY <2>1, <2>2
  <1>4. \A h \in Grouper : GroupsReplaced(h)'
    <2> SUFFICES ASSUME NEW h \in Grouper PROVE GroupsReplaced(h)'
      OBVIOUS
    <2>1. pc[h] \in {"idle", "waiting"} /\ h # w
      BY <1>0, ActorAssumption DEF IInv, LockHeld, Actor, Install
    <2>2. QED
      BY <1>0, <2>1 DEF IInv, TypeOK, GroupsReplaced, Actor, Goto, Install
  <1>5. PublishedWhole'
    BY <1>0, SentinelAssumption
    DEF IInv, TypeOK, PublishedWhole, StagedFor, Directory, Manifest, GroupMap,
        Actor, Install
  <1>6. DigestRepaired'
    BY <1>0, SentinelAssumption
    DEF IInv, TypeOK, DigestRepaired, GroupsReplaced, StagedFor, Directory,
        Manifest, GroupMap, Actor, Goto, Install
  <1>7. QED
    BY <1>1, <1>2, <1>3, <1>4, <1>5, <1>6 DEF IInv

\* Committing keeps the invariant.
LEMMA CommitKeeps ==
  ASSUME IInv, NEW w \in Writer, Commit(w)
  PROVE  IInv'
  BY ActorAssumption, SentinelAssumption, BoundAssumption
  DEF IInv, TypeOK, LockHeld, StagedFor, Added, GroupsReplaced, PublishedWhole,
      DigestRepaired, Actor, Directory, Manifest, GroupMap, WriterLabel,
      GrouperLabel, Goto, Commit

\* A failing generation keeps the invariant.
LEMMA FailKeeps ==
  ASSUME IInv, NEW w \in Writer, Fail(w)
  PROVE  IInv'
  BY ActorAssumption, SentinelAssumption, BoundAssumption
  DEF IInv, TypeOK, LockHeld, StagedFor, Added, GroupsReplaced, PublishedWhole,
      DigestRepaired, Actor, Directory, Manifest, GroupMap, WriterLabel,
      GrouperLabel, Goto, Fail

\* Removing the staging directory keeps the invariant.
LEMMA RemoveStagingKeeps ==
  ASSUME IInv, NEW w \in Writer, RemoveStaging(w)
  PROVE  IInv'
  BY ActorAssumption, SentinelAssumption, BoundAssumption
  DEF IInv, TypeOK, LockHeld, StagedFor, Added, GroupsReplaced, PublishedWhole,
      DigestRepaired, Actor, Directory, Manifest, GroupMap, WriterLabel,
      GrouperLabel, Goto, RemoveStaging

\* Leaking the lock keeps the invariant.
LEMMA LeakKeeps ==
  ASSUME IInv, NEW w \in Writer, Leak(w)
  PROVE  IInv'
  BY ActorAssumption, SentinelAssumption, BoundAssumption
  DEF IInv, TypeOK, LockHeld, StagedFor, Added, GroupsReplaced, PublishedWhole,
      DigestRepaired, Actor, Directory, Manifest, GroupMap, WriterLabel,
      GrouperLabel, Goto, Leak

\* Taking the lock keeps the invariant.
LEMMA AcquireKeeps ==
  ASSUME IInv, NEW a \in Actor, Acquire(a)
  PROVE  IInv'
  BY ActorAssumption, SentinelAssumption, BoundAssumption
  DEF IInv, TypeOK, LockHeld, StagedFor, Added, GroupsReplaced, PublishedWhole,
      DigestRepaired, Actor, Directory, Manifest, GroupMap, WriterLabel,
      GrouperLabel, Goto, Acquire

\* Releasing the lock keeps the invariant.
LEMMA UnlockKeeps ==
  ASSUME IInv, NEW a \in Actor, Unlock(a)
  PROVE  IInv'
  BY ActorAssumption, SentinelAssumption, BoundAssumption
  DEF IInv, TypeOK, LockHeld, StagedFor, Added, GroupsReplaced, PublishedWhole,
      DigestRepaired, Actor, Directory, Manifest, GroupMap, WriterLabel,
      GrouperLabel, Goto, Unlock

\* Death of an actor keeps the invariant.
LEMMA DieKeeps ==
  ASSUME IInv, NEW a \in Actor, Die(a)
  PROVE  IInv'
  BY ActorAssumption, SentinelAssumption, BoundAssumption
  DEF IInv, TypeOK, LockHeld, StagedFor, Added, GroupsReplaced, PublishedWhole,
      DigestRepaired, Actor, Directory, Manifest, GroupMap, WriterLabel,
      GrouperLabel, Goto, Die

\* Reading the stored map keeps the invariant.
LEMMA StartGroupingKeeps ==
  ASSUME IInv, NEW g \in Grouper, StartGrouping(g)
  PROVE  IInv'
  BY ActorAssumption, SentinelAssumption, BoundAssumption
  DEF IInv, TypeOK, LockHeld, StagedFor, Added, GroupsReplaced, PublishedWhole,
      DigestRepaired, Actor, Directory, Manifest, GroupMap, WriterLabel,
      GrouperLabel, Goto, StartGrouping, Readable

\* The first rename of an update keeps the invariant.
LEMMA ReplaceGroupsKeeps ==
  ASSUME IInv, NEW g \in Grouper, ReplaceGroups(g)
  PROVE  IInv'
  <1>0. /\ pc[g] = "locked" /\ lock = g /\ destination \in Directory
        /\ destination.manifest \in Manifest /\ draft[g] \in GroupMap
    BY DEF IInv, TypeOK, LockHeld, GroupsReplaced, PublishedWhole, Directory,
       Actor, ReplaceGroups, Readable
  <1>1. TypeOK'
    BY <1>0 DEF IInv, TypeOK, Directory, Manifest, GroupMap, Actor,
       WriterLabel, GrouperLabel, Goto, ReplaceGroups
  <1>2. LockHeld'
    BY <1>0 DEF IInv, TypeOK, LockHeld, Actor, Goto, ReplaceGroups
  <1>3. \A v \in Writer : StagedFor(v)'
    <2> SUFFICES ASSUME NEW v \in Writer PROVE StagedFor(v)'
      OBVIOUS
    <2>1. pc[v] \in {"idle", "waiting"} /\ v # g
      BY <1>0, ActorAssumption DEF IInv, LockHeld, Actor, ReplaceGroups
    <2>2. StagedFor(v)
      BY DEF IInv
    <2>3. QED
      BY <1>0, <2>1, <2>2
      DEF IInv, TypeOK, StagedFor, Actor, Goto, ReplaceGroups
  <1>4. \A h \in Grouper : GroupsReplaced(h)'
    <2> SUFFICES ASSUME NEW h \in Grouper PROVE GroupsReplaced(h)'
      OBVIOUS
    <2>1. CASE h = g
      BY <1>0, <2>1, SentinelAssumption
      DEF IInv, TypeOK, GroupsReplaced, Directory, Manifest, Actor, Goto,
          ReplaceGroups
    <2>2. CASE h # g
      <3>1. pc[h] \in {"idle", "waiting"}
        BY <1>0, <2>2, ActorAssumption DEF IInv, LockHeld, Actor, ReplaceGroups
      <3>2. QED
        BY <1>0, <2>2, <3>1
        DEF IInv, TypeOK, GroupsReplaced, Actor, Goto, ReplaceGroups
    <2>3. QED
      BY <2>1, <2>2
  <1>5. PublishedWhole'
    BY <1>0, SentinelAssumption
    DEF IInv, TypeOK, PublishedWhole, StagedFor, Directory, Manifest, GroupMap,
        Actor, ReplaceGroups
  <1>6. DigestRepaired'
    BY <1>0, SentinelAssumption
    DEF IInv, TypeOK, DigestRepaired, GroupsReplaced, StagedFor, Directory,
        Manifest, GroupMap, Actor, Goto, ReplaceGroups
  <1>7. QED
    BY <1>1, <1>2, <1>3, <1>4, <1>5, <1>6 DEF IInv

\* The second rename of an update keeps the invariant.
LEMMA ReplaceManifestKeeps ==
  ASSUME IInv, NEW g \in Grouper, ReplaceManifest(g)
  PROVE  IInv'
  <1>0. /\ pc[g] = "payload_replaced" /\ lock = g /\ destination \in Directory
        /\ destination.manifest \in Manifest /\ draft[g] \in GroupMap
    BY DEF IInv, TypeOK, LockHeld, GroupsReplaced, PublishedWhole, Directory,
       Actor, ReplaceManifest
  <1>1. TypeOK'
    BY <1>0 DEF IInv, TypeOK, Directory, Manifest, GroupMap, Actor,
       WriterLabel, GrouperLabel, Goto, ReplaceManifest
  <1>2. LockHeld'
    BY <1>0 DEF IInv, TypeOK, LockHeld, Actor, Goto, ReplaceManifest
  <1>3. \A v \in Writer : StagedFor(v)'
    <2> SUFFICES ASSUME NEW v \in Writer PROVE StagedFor(v)'
      OBVIOUS
    <2>1. pc[v] \in {"idle", "waiting"} /\ v # g
      BY <1>0, ActorAssumption DEF IInv, LockHeld, Actor, ReplaceManifest
    <2>2. StagedFor(v)
      BY DEF IInv
    <2>3. QED
      BY <1>0, <2>1, <2>2
      DEF IInv, TypeOK, StagedFor, Actor, Goto, ReplaceManifest
  <1>4. \A h \in Grouper : GroupsReplaced(h)'
    <2> SUFFICES ASSUME NEW h \in Grouper PROVE GroupsReplaced(h)'
      OBVIOUS
    <2>1. CASE h = g
      BY <1>0, <2>1, SentinelAssumption
      DEF IInv, TypeOK, GroupsReplaced, Directory, Manifest, Actor, Goto,
          ReplaceManifest
    <2>2. CASE h # g
      <3>1. pc[h] \in {"idle", "waiting"}
        BY <1>0, <2>2, ActorAssumption
        DEF IInv, LockHeld, Actor, ReplaceManifest
      <3>2. QED
        BY <1>0, <2>2, <3>1
        DEF IInv, TypeOK, GroupsReplaced, Actor, Goto, ReplaceManifest
    <2>3. QED
      BY <2>1, <2>2
  <1>5. PublishedWhole'
    BY <1>0, SentinelAssumption
    DEF IInv, TypeOK, PublishedWhole, StagedFor, Directory, Manifest, GroupMap,
        Actor, ReplaceManifest
  <1>6. DigestRepaired'
    BY <1>0, SentinelAssumption
    DEF IInv, TypeOK, DigestRepaired, GroupsReplaced, StagedFor, Directory,
        Manifest, GroupMap, Actor, Goto, ReplaceManifest
  <1>7. QED
    BY <1>1, <1>2, <1>3, <1>4, <1>5, <1>6 DEF IInv

\* A failing update keeps the invariant.
LEMMA FailGroupingKeeps ==
  ASSUME IInv, NEW g \in Grouper, FailGrouping(g)
  PROVE  IInv'
  BY ActorAssumption, SentinelAssumption, BoundAssumption
  DEF IInv, TypeOK, LockHeld, StagedFor, Added, GroupsReplaced, PublishedWhole,
      DigestRepaired, Actor, Directory, Manifest, GroupMap, WriterLabel,
      GrouperLabel, Goto, FailGrouping

\* The inductive invariant holds in every reachable state.
THEOREM Invariant == Safety => []IInv
  <1>1. IInv /\ [Next]_vars => IInv'
    <2> SUFFICES ASSUME IInv, [Next]_vars PROVE IInv'
      OBVIOUS
    <2>1. CASE UNCHANGED vars
      BY <2>1 DEF vars, IInv, TypeOK, LockHeld, StagedFor, Added,
         GroupsReplaced, PublishedWhole, DigestRepaired
    <2>2. ASSUME NEW w \in Writer,
                 NEW m \in {"error", "append", "replace"}, Start(w, m)
          PROVE  IInv'
      BY <2>2, StartKeeps
    <2>3. ASSUME NEW w \in Writer, WriterStep(w) \/ Leak(w)
          PROVE  IInv'
      BY <2>3, AcquireKeeps, StageKeeps, CheckStagedKeeps, AddPayloadsKeeps,
         FinalizeKeeps, InstallKeeps, CommitKeeps, FailKeeps,
         RemoveStagingKeeps, UnlockKeeps, LeakKeeps
      DEF WriterStep, Actor
    <2>4. ASSUME NEW g \in Grouper, StartGrouping(g) \/ GrouperStep(g)
          PROVE  IInv'
      BY <2>4, StartGroupingKeeps, AcquireKeeps, ReplaceGroupsKeeps,
         ReplaceManifestKeeps, FailGroupingKeeps, UnlockKeeps
      DEF GrouperStep, Actor
    <2>5. ASSUME NEW a \in Actor, Die(a)
          PROVE  IInv'
      BY <2>5, DieKeeps
    <2>6. QED
      BY <2>1, <2>2, <2>3, <2>4, <2>5 DEF Next
  <1>2. QED
    BY InitIInv, <1>1, PTL DEF Safety

\* Every variable keeps its type, for any number of writers and groupers:
\* in particular no step reads or rewrites a manifest that is not there.
THEOREM TypeCorrect == Safety => []TypeOK
  BY Invariant, PTL DEF IInv

\* A reader of the public name finds nothing or a complete artifact, whatever
\* fails or dies (transaction.py, writer.py, process_groups.py).
THEOREM PublishedIsWhole == Safety => []PublishedWhole
  BY Invariant, PTL DEF IInv

\* A digest mismatch of process-groups.json exists only during an update or
\* after one that was cut between its renames and not yet repaired.
THEOREM DigestMismatchIsRepaired == Safety => []DigestRepaired
  BY Invariant, PTL DEF IInv

\* A staging directory exists only while its writer holds the flock.
THEOREM StagingOnlyUnderLock == Safety => []StagingUnderLock
  <1>1. IInv => StagingUnderLock
    BY DEF IInv, TypeOK, LockHeld, StagedFor, StagingUnderLock, Actor,
       WriterLabel
  <1>2. QED
    BY Invariant, <1>1, PTL

\* The only step to the label "installed" is Install.
LEMMA OnlyInstallInstalls ==
  ASSUME IInv, Next, NEW w \in Writer,
         pc[w] = "finalized", pc'[w] = "installed"
  PROVE  Install(w)
  BY ActorAssumption
  DEF IInv, TypeOK, Actor, Next, WriterStep, GrouperStep, Start, Acquire,
      Stage,
      CheckStaged, AddPayloads, Finalize, Commit, Fail, RemoveStaging, Unlock,
      Leak, StartGrouping, ReplaceGroups, ReplaceManifest, FailGrouping, Die,
      Install, Goto

\* A publishing append adds its process to the artifact that is public at
\* that moment and keeps the relations stored in it.
THEOREM AppendIsNeverLost == Safety => AppendLosesNothing
  <1>1. IInv /\ [Next]_vars =>
          [\A w \in Writer :
             pc[w] = "finalized" /\ pc'[w] = "installed"
               /\ mode[w] = "append" =>
               /\ destination'.procs = destination.procs \cup {w}
               /\ destination.groups.relations \subseteq
                    destination'.groups.relations]_vars
    <2> SUFFICES ASSUME IInv, Next, NEW w \in Writer,
                        pc[w] = "finalized", pc'[w] = "installed",
                        mode[w] = "append"
                 PROVE  /\ destination'.procs = destination.procs \cup {w}
                        /\ destination.groups.relations \subseteq
                             destination'.groups.relations
      OBVIOUS
    <2>1. destination' = staging[w]
      BY OnlyInstallInstalls DEF Install, IInv
    <2>2. StagedFor(w)
      BY DEF IInv
    <2>3. QED
      BY <2>1, <2>2 DEF StagedFor, Added
  <1>2. QED
    BY Invariant, <1>1, PTL DEF Safety, AppendLosesNothing

----------------------------------------------------------------------------
\* What each mode still knows at the rename: a generation of mode "error" has
\* staged nothing over an artifact, and an append adds a new process.
Admitted(w) ==
    /\ mode[w] = "error"
         /\ pc[w] \in {"staged", "building", "filled", "finalized"} =>
         destination = Absent
    /\ w \notin expected[w]

\* A step of another actor changes neither the mode nor the label of w; while
\* w is past its precondition it cannot change the destination either.
LEMMA AdmittedKept ==
  ASSUME IInv, [Next]_vars, NEW w \in Writer, Admitted(w)
  PROVE  Admitted(w)'
  <1>1. CASE UNCHANGED vars
    BY <1>1 DEF vars, Admitted
  <1>2. ASSUME NEW v \in Writer, NEW m \in {"error", "append", "replace"},
               Start(v, m)
        PROVE  Admitted(w)'
    BY <1>2 DEF IInv, TypeOK, Actor, Start, Readable, Goto, Admitted
  <1>3. ASSUME NEW v \in Writer, WriterStep(v) \/ Leak(v)
        PROVE  Admitted(w)'
    <2>1. CASE Install(v)
      BY <2>1, ActorAssumption
      DEF IInv, TypeOK, LockHeld, Actor, Install, Goto, Admitted
    <2>2. CASE Stage(v)
      BY <2>2 DEF IInv, TypeOK, Actor, Stage, Goto, Admitted
    <2>3. CASE Acquire(v) \/ CheckStaged(v) \/ AddPayloads(v)
                 \/ Finalize(v) \/ Commit(v) \/ Fail(v)
                 \/ RemoveStaging(v) \/ Unlock(v) \/ Leak(v)
      BY <2>3
      DEF IInv, TypeOK, Actor, Acquire, CheckStaged, AddPayloads, Finalize,
          Commit, Fail, RemoveStaging, Unlock, Leak, Goto, Admitted
    <2>4. QED
      BY <1>3, <2>1, <2>2, <2>3 DEF WriterStep
  <1>4. ASSUME NEW g \in Grouper, StartGrouping(g) \/ GrouperStep(g)
        PROVE  Admitted(w)'
    <2>1. CASE ReplaceGroups(g) \/ ReplaceManifest(g)
      <3>1. pc[w] \in {"idle", "waiting"} /\ w # g
        BY <2>1, ActorAssumption
        DEF IInv, LockHeld, Actor, ReplaceGroups, ReplaceManifest
      <3>2. QED
        BY <2>1, <3>1
        DEF IInv, TypeOK, Actor, ReplaceGroups, ReplaceManifest, Goto, Admitted
    <2>2. CASE StartGrouping(g) \/ Acquire(g) \/ FailGrouping(g) \/ Unlock(g)
      BY <2>2, ActorAssumption
      DEF IInv, TypeOK, Actor, StartGrouping, Acquire, FailGrouping, Unlock,
          Goto, Admitted
    <2>3. QED
      BY <1>4, <2>1, <2>2 DEF GrouperStep
  <1>5. ASSUME NEW a \in Actor, Die(a)
        PROVE  Admitted(w)'
    BY <1>5 DEF IInv, TypeOK, Die, Goto, Actor, Admitted
  <1>6. QED
    BY <1>1, <1>2, <1>3, <1>4, <1>5 DEF Next

\* Every writer is admitted in every reachable state.
THEOREM AdmittedAlways == Safety => [](\A w \in Writer : Admitted(w))
  <1>1. Init => \A w \in Writer : Admitted(w)
    BY DEF Init, Admitted, Actor
  <1>2. IInv /\ (\A w \in Writer : Admitted(w)) /\ [Next]_vars
          => (\A w \in Writer : Admitted(w))'
    BY AdmittedKept
  <1>3. QED
    BY Invariant, <1>1, <1>2, PTL DEF Safety

\* A generation of mode "error" never replaces an artifact, however many
\* generations raced for the same name (transaction.py, __enter__ and commit).
THEOREM ErrorModeKeeps == Safety => ErrorModeNeverReplaces
  <1>1. IInv /\ (\A w \in Writer : Admitted(w)) /\ [Next]_vars =>
          [\A w \in Writer :
             pc[w] = "finalized" /\ pc'[w] = "installed"
               /\ mode[w] = "error" => destination = Absent]_vars
    BY DEF Admitted
  <1>2. QED
    BY Invariant, AdmittedAlways, <1>1, PTL DEF Safety, ErrorModeNeverReplaces

----------------------------------------------------------------------------
(* Refinement: readers see an ArtifactCatalogue.                           *)

\* What a reader of the public name sees.
Visible == IF destination = Absent THEN Absent ELSE destination.manifest.procs

\* Publishing is a step of the catalogue.
LEMMA InstallRefines ==
  ASSUME IInv, NEW w \in Writer, Admitted(w), Install(w)
  PROVE  Catalogue!Next
  <1>1. /\ StagedFor(w) /\ pc[w] = "finalized" /\ mode[w] \in
             {"error", "append", "replace"}
        /\ destination' = staging[w]
    BY DEF IInv, TypeOK, Install
  <1>2. /\ staging[w] # Absent
        /\ staging[w].manifest.procs = expected[w] \cup {w}
    BY <1>1, SentinelAssumption DEF StagedFor, Added
  <1>3. Visible' = expected[w] \cup {w}
    BY <1>1, <1>2 DEF Visible
  <1>4. CASE mode[w] = "error"
    <2>1. Visible = Absent /\ Visible' = {w}
      BY <1>1, <1>3, <1>4 DEF Admitted, StagedFor, Visible
    <2>2. QED
      BY <2>1 DEF Catalogue!Next, Catalogue!Create, Visible
  <1>5. CASE mode[w] = "replace"
    <2>1. Visible' = {w}
      BY <1>1, <1>3, <1>5 DEF StagedFor
    <2>2. QED
      BY <2>1 DEF Catalogue!Next, Catalogue!Replace, Visible
  <1>6. CASE mode[w] = "append"
    <2>1. destination \in Directory /\ destination.procs = expected[w]
      BY <1>1, <1>6 DEF StagedFor
    <2>2. destination # Absent
      BY <2>1, SentinelAssumption
    <2>3. Visible = expected[w]
      BY <2>1, <2>2 DEF IInv, PublishedWhole, Visible
    <2>4. expected[w] # Absent /\ w \notin expected[w]
      BY SentinelAssumption DEF IInv, TypeOK, Admitted
    <2>5. QED
      BY <1>3, <2>2, <2>3, <2>4
      DEF Catalogue!Next, Catalogue!Append, Visible
  <1>7. QED
    BY <1>1, <1>4, <1>5, <1>6

\* A group update changes the map and its record, not the processes.
LEMMA GroupingStutters ==
  ASSUME IInv, NEW g \in Grouper, ReplaceGroups(g) \/ ReplaceManifest(g)
  PROVE  Visible' = Visible
  <1>1. /\ destination \in Directory /\ destination # Absent
        /\ destination.manifest \in Manifest
    BY SentinelAssumption
    DEF IInv, TypeOK, GroupsReplaced, PublishedWhole, Directory, ReplaceGroups,
        ReplaceManifest, Readable
  <1>2. /\ destination' \in Directory
        /\ destination'.manifest.procs = destination.manifest.procs
    BY <1>1 DEF IInv, TypeOK, Directory, Manifest, ReplaceGroups,
       ReplaceManifest
  <1>3. QED
    BY <1>1, <1>2, SentinelAssumption DEF Visible

\* Every step of the store is a step of the catalogue or invisible.
LEMMA StepRefines ==
  ASSUME IInv, \A w \in Writer : Admitted(w), [Next]_vars
  PROVE  Catalogue!Next \/ Visible' = Visible
  <1>1. CASE UNCHANGED vars
    BY <1>1 DEF vars, Visible
  <1>2. ASSUME NEW w \in Writer, NEW m \in {"error", "append", "replace"},
               Start(w, m)
        PROVE  Visible' = Visible
    BY <1>2 DEF Start, Visible
  <1>3. ASSUME NEW w \in Writer, WriterStep(w) \/ Leak(w)
        PROVE  Catalogue!Next \/ Visible' = Visible
    <2>1. CASE Install(w)
      BY <2>1, InstallRefines
    <2>2. CASE ~Install(w)
      BY <1>3, <2>2
      DEF WriterStep, Acquire, Stage, CheckStaged, AddPayloads, Finalize,
          Commit, Fail, RemoveStaging, Unlock, Leak, Visible
    <2>3. QED
      BY <2>1, <2>2
  <1>4. ASSUME NEW g \in Grouper, StartGrouping(g) \/ GrouperStep(g)
        PROVE  Visible' = Visible
    <2>1. CASE ReplaceGroups(g) \/ ReplaceManifest(g)
      BY <2>1, GroupingStutters
    <2>2. CASE ~(ReplaceGroups(g) \/ ReplaceManifest(g))
      BY <1>4, <2>2
      DEF GrouperStep, StartGrouping, Acquire, FailGrouping, Unlock, Visible
    <2>3. QED
      BY <2>1, <2>2
  <1>5. ASSUME NEW a \in Actor, Die(a)
        PROVE  Visible' = Visible
    BY <1>5 DEF Die, Visible
  <1>6. QED
    BY <1>1, <1>2, <1>3, <1>4, <1>5 DEF Next

\* The store implements the catalogue: staging, locking, exchange, failures
\* and deaths are invisible to a reader of the public name.
THEOREM StoreRefinesCatalogue == Safety => ImplementsCatalogue
  <1>1. Init => Catalogue!Init
    BY DEF Init, Catalogue!Init
  <1>2. IInv /\ (\A w \in Writer : Admitted(w)) /\ [Next]_vars
          => [Catalogue!Next]_Visible
    BY StepRefines
  <1>3. QED
    BY Invariant, AdmittedAlways, <1>1, <1>2, PTL
    DEF Safety, ImplementsCatalogue, Catalogue!Spec, Visible
=============================================================================
