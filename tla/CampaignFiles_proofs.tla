------------------------ MODULE CampaignFiles_proofs ------------------------
(***************************************************************************)
(* Proofs about the two parts that move a campaign's files, its reset      *)
(* (Reset) and the publication of its report (Pub), as CampaignFiles joins *)
(* them.                                                                   *)
(*                                                                         *)
(* Reset.  For any number of journals, archives, processes, crashes and    *)
(* files: whoever dies wherever, no directory is lost and none is doubled; *)
(* a reset that is committed is a whole one while no worker of the old     *)
(* campaign makes its roots again; a campaign that one operator verified   *)
(* with the pinned marker stays loadable; and while nobody dies, a         *)
(* repeated commit installs nothing.                                       *)
(*                                                                         *)
(* Report.  For any cells, publishers, commands, faults and deaths: what   *)
(* is captured existed, the manifest only goes forward, the tables show    *)
(* the caches, and a report that validates is whole.                       *)
(*                                                                         *)
(* The last section puts the two invariants together for the specification *)
(* of CampaignFiles and its properties.                                    *)
(***************************************************************************)
EXTENDS CampaignFiles, FiniteSetTheorems, SequenceTheorems, TLAPS

----------------------------------------------------------------------------
(* The reset: directories and steps                                        *)

From(j, i) == Reset!Renames(j)[i].from
To(j, i) == Reset!Renames(j)[i].to

Unprepared == {"none", "staging"}
Called == {"PREPARED", "COMMITTING", "COMMITTED"}

----------------------------------------------------------------------------
(* The inductive invariant.                                                *)

\* The directories that somebody has made and that must not be lost.
Made(d) == d[1] = "source" \/ (d[1] \in Journals /\ journal[d[1]] \notin Unprepared)

Single == \A p, q \in Reset!Paths : at[p] = at[q] /\ at[p] # None => p = q
Somewhere == \A d \in Reset!Paths : Made(d) => \E p \in Reset!Paths : at[p] = d
Known == \A p \in Reset!Paths : at[p] # None => Made(at[p]) \/ at[p][1] = "stray"
Unstaged == \A p \in Reset!Paths : p[1] \in Journals /\ journal[p[1]] \in Unprepared => at[p] = None
Directories == Single /\ Somewhere /\ Known /\ Unstaged

\* A process works on a prepared journal, and under the guard on one that it
\* has marked COMMITTING.
CallInv(p) ==
    /\ proc[p].phase # "idle" => proc[p].journal \in Journals
         /\ journal[proc[p].journal] \in Called
    /\ proc[p].phase \in Reset!Held => journal[proc[p].journal] = "COMMITTING"
    /\ proc[p].phase \in {"rename", "replace"} => proc[p].step \in 1..6
    /\ proc[p].phase = "install" => proc[p].step \in 1..Len(Files)

\* The guard of a destination has one holder.
Alone ==
    \A p, q \in Committers :
        p # q /\ proc[p].phase \in Reset!Held /\ proc[q].phase \in Reset!Held =>
            GuardOf[proc[p].journal] # GuardOf[proc[q].journal]

CheckInv(v) == check[v].phase # "idle" => check[v].journal \in Journals

ResetIInv ==
    /\ Reset!TypeOK
    /\ Directories
    /\ \A p \in Committers : CallInv(p)
    /\ Alone
    /\ \A v \in Verifiers : CheckInv(v)

\* Without late workers: a directory is where it was made or where a rename of
\* a journal has taken it, and of the renames of a process those before its
\* step are done.
InPlace ==
    \A p \in Reset!Paths : at[p] \notin {None, p} =>
        \E j \in Journals, i \in 1..6 : at[p] = From(j, i) /\ p = To(j, i)

Arrived(j, i) == at[To(j, i)] = From(j, i)

Done(p) ==
    /\ proc[p].phase \in {"rename", "replace"} =>
         \A i \in 1..(proc[p].step - 1) : Arrived(proc[p].journal, i)
    /\ proc[p].phase \in {"install", "archive", "commit"} =>
         \A i \in 1..6 : Arrived(proc[p].journal, i)

Progress ==
    /\ InPlace
    /\ \A p \in Committers : Done(p)
    /\ \A j \in archived : \A i \in 1..6 : Arrived(j, i)

\* While nobody dies, what is archived is COMMITTED or about to be.
Finishing ==
    crashes = 0 =>
        \A j \in archived :
            \/ journal[j] = "COMMITTED"
            \/ \E p \in Committers : proc[p].phase = "commit" /\ proc[p].journal = j

\* What the verification under way has found and written is still so.
Verified(v) ==
    LET j == check[v].journal
    IN  /\ check[v].phase # "idle" => marker[j] = 0 /\ check[v].digest = 0
        /\ check[v].phase = "ready" => gate[j] = [number |-> check[v].number, made_for |-> 0]

Loadable == Reset!ReadyIsLoadable /\ \A v \in Verifiers : Verified(v)

\* No late worker makes a root of the old campaign in this step.
NobodyStrays == \A k \in Reset!Roots : ~Reset!StrayWorker(k)

----------------------------------------------------------------------------
(* The paths and the renames.                                              *)

\* What a path is: a place, an archive or a journal, and a part of it.
LEMMA PathsAre ==
    /\ \A p \in Reset!Paths : p = <<p[1], p[2]>> /\ p[2] \in Reset!Parts
    /\ \A k \in Reset!Roots : \A r \in {"source", "destination", "stray"} : <<r, k>> \in Reset!Paths
    /\ \A a \in Archives \cup Journals : \A k \in Reset!Parts : <<a, k>> \in Reset!Paths
  BY DEF Reset!Paths, Reset!Parts, Reset!Roots

\* The six renames, one by one.
LEMMA RenamesAre ==
    ASSUME NEW j \in Journals
    PROVE  /\ Len(Reset!Renames(j)) = 6
           /\ From(j, 1) = <<j, "publication">> /\ To(j, 1) = <<ArchiveOf[j], "publication">>
           /\ From(j, 2) = <<j, "manifest">> /\ To(j, 2) = <<ArchiveOf[j], "manifest">>
           /\ From(j, 3) = <<"source", "artifacts">>
           /\ To(j, 3) = <<ArchiveOf[j], "artifacts">>
           /\ From(j, 4) = <<"source", "coordination">>
           /\ To(j, 4) = <<ArchiveOf[j], "coordination">>
           /\ From(j, 5) = <<j, "artifacts">> /\ To(j, 5) = <<"destination", "artifacts">>
           /\ From(j, 6) = <<j, "coordination">> /\ To(j, 6) = <<"destination", "coordination">>
  BY DEF Reset!Renames, From, To

\* No rename takes a directory to where one is taken from, or into a journal.
LEMMA RenamesMoveOut ==
    ASSUME Reset!ResetAssumption, NEW j \in Journals, NEW i \in 1..6
    PROVE  /\ From(j, i) \in Reset!Paths /\ From(j, i)[1] \in Journals \cup {"source"}
           /\ From(j, i)[1] \in Journals => From(j, i)[1] = j
           /\ To(j, i) \in Reset!Paths /\ To(j, i)[1] \in Archives \cup {"destination"}
           /\ To(j, i)[1] \notin Journals \cup {"source", "stray"}
  <1>1. /\ ArchiveOf[j] \in Archives
        /\ "source" \notin Journals
        /\ \A a \in Archives \cup {"destination"} : a \notin Journals \cup {"source", "stray"}
    BY DEF Reset!ResetAssumption
  <1>2. i = 1 \/ i = 2 \/ i = 3 \/ i = 4 \/ i = 5 \/ i = 6
    OBVIOUS
  <1>3. /\ \A k \in Reset!Parts : <<j, k>> \in Reset!Paths /\ <<ArchiveOf[j], k>> \in Reset!Paths
        /\ \A k \in Reset!Roots : <<"source", k>> \in Reset!Paths /\ <<"destination", k>> \in Reset!Paths
    BY <1>1, PathsAre
  <1> QED
    BY <1>1, <1>2, <1>3, RenamesAre DEF Reset!Parts, Reset!Roots

\* A directory of a journal has one destination, and what comes to a path has
\* one part.
LEMMA RenamesAreWays ==
    ASSUME Reset!ResetAssumption, NEW j \in Journals, NEW k \in Journals,
           NEW i \in 1..6, NEW n \in 1..6
    PROVE  /\ From(j, i) = From(k, n) => i = n /\ (j = k \/ i \in {3, 4})
           /\ To(j, i) = To(k, n) => i = n
           /\ i \in {3, 4} => From(j, i) = From(k, i)
  <1>1. /\ ArchiveOf[j] \in Archives /\ ArchiveOf[k] \in Archives
        /\ "source" \notin Journals /\ "destination" \notin Archives
    BY DEF Reset!ResetAssumption
  <1>2. i = 1 \/ i = 2 \/ i = 3 \/ i = 4 \/ i = 5 \/ i = 6
    OBVIOUS
  <1>3. n = 1 \/ n = 2 \/ n = 3 \/ n = 4 \/ n = 5 \/ n = 6
    OBVIOUS
  <1>4. From(j, i) = From(k, n) => i = n /\ (j = k \/ i \in {3, 4})
    BY <1>1, <1>2, <1>3, RenamesAre
  <1>5. To(j, i) = To(k, n) => i = n
    BY <1>1, <1>2, <1>3, RenamesAre
  <1>6. i \in {3, 4} => From(j, i) = From(k, i)
    BY RenamesAre
  <1> QED
    BY <1>4, <1>5, <1>6

----------------------------------------------------------------------------
(* Type correctness.                                                       *)

\* The initial state has the types.
LEMMA ResetInitTypeOK == ASSUME Reset!ResetAssumption, Reset!Init PROVE Reset!TypeOK
  <1>1. \A p \in Reset!Paths : (IF p[1] = "source" THEN p ELSE None) \in Reset!Paths \cup {None}
    OBVIOUS
  <1>2. 0 \in 0..MaxGates /\ 0 \in 0..MaxCrashes
    BY DEF Reset!ResetAssumption
  <1>3. Reset!Idle \in [phase : Reset!Held \cup {"idle", "guard"}, journal : Journals \cup {None}, step : Nat]
    BY DEF Reset!Idle
  <1>4. Reset!NoGate \in [number : 0..MaxGates, made_for : 0..MaxGates]
    BY <1>2 DEF Reset!NoGate
  <1>5. [phase |-> "idle", journal |-> None, digest |-> 0, number |-> 0] \in
          [phase : {"idle", "publish", "gate", "ready"}, journal : Journals \cup {None},
           digest : 0..MaxGates, number : 0..MaxGates]
    BY <1>2
  <1>6. \A p \in Committers :
          proc[p].step <= IF proc[p].phase = "install" THEN Len(Files) ELSE 6
    BY DEF Reset!Init, Reset!Idle
  <1> QED
    BY <1>1, <1>2, <1>3, <1>4, <1>5, <1>6 DEF Reset!Init, Reset!TypeOK

\* What the proofs use of the types of a process.
Process == [phase : Reset!Held \cup {"idle", "guard"}, journal : Journals \cup {None}, step : Nat]
Within(r) == r.step <= IF r.phase = "install" THEN Len(Files) ELSE 6

\* A process that goes where it may is one, and no other changes.
LEMMA MovesAreTyped ==
    ASSUME Reset!ResetAssumption, ResetIInv, NEW p \in Committers,
           \/ Reset!Leaves(p)
           \/ \E ph \in Reset!Held \cup {"guard"}, st \in Nat :
                Reset!Goes(p, ph, st) /\ (st <= IF ph = "install" THEN Len(Files) ELSE 6)
    PROVE  /\ proc' \in [Committers -> Process]
           /\ \A q \in Committers : Within(proc'[q])
           /\ \A q \in Committers \ {p} : proc'[q] = proc[q]
  <1>1. /\ proc \in [Committers -> Process] /\ \A q \in Committers : Within(proc[q])
        /\ proc[p].journal \in Journals \cup {None}
    BY DEF ResetIInv, Reset!TypeOK, Process, Within
  <1>2. Reset!Idle \in Process /\ Within(Reset!Idle)
    BY DEF Process, Reset!Idle, Within
  <1>3. ASSUME NEW r \in Process, Within(r), proc' = [proc EXCEPT ![p] = r]
        PROVE  /\ proc' \in [Committers -> Process]
               /\ \A q \in Committers : Within(proc'[q])
               /\ \A q \in Committers \ {p} : proc'[q] = proc[q]
    BY <1>1, <1>3
  <1>4. CASE Reset!Leaves(p)
    BY <1>2, <1>3, <1>4 DEF Reset!Leaves
  <1>5. ASSUME NEW ph \in Reset!Held \cup {"guard"}, NEW st \in Nat, Reset!Goes(p, ph, st),
               st <= IF ph = "install" THEN Len(Files) ELSE 6
        PROVE  /\ proc' \in [Committers -> Process]
               /\ \A q \in Committers : Within(proc'[q])
               /\ \A q \in Committers \ {p} : proc'[q] = proc[q]
    <2>1. [phase |-> ph, journal |-> proc[p].journal, step |-> st] \in Process
      BY <1>1 DEF Process
    <2>2. Within([phase |-> ph, journal |-> proc[p].journal, step |-> st])
      BY <1>5 DEF Within
    <2> QED
      BY <1>3, <1>5, <2>1, <2>2 DEF Reset!Goes
  <1> QED
    BY <1>4, <1>5

\* A step of the commit keeps the types of the processes.
LEMMA CommitTyped ==
    ASSUME Reset!ResetAssumption, ResetIInv, NEW p \in Committers, Reset!CommitStep(p)
    PROVE  /\ proc' \in [Committers -> Process]
           /\ \A q \in Committers : Within(proc'[q])
           /\ \A q \in Committers \ {p} : proc'[q] = proc[q]
  <1>1. /\ CallInv(p) /\ proc[p].step \in Nat /\ Within(proc[p])
        /\ Len(Files) \in Nat \ {0}
    BY DEF ResetIInv, Reset!TypeOK, Within, Reset!ResetAssumption
  <1>2. \/ Reset!Leaves(p)
        \/ \E ph \in Reset!Held \cup {"guard"}, st \in Nat :
             Reset!Goes(p, ph, st) /\ (st <= IF ph = "install" THEN Len(Files) ELSE 6)
    <2>1. CASE Reset!Acquire(p)
      BY <2>1 DEF Reset!Acquire, Reset!Held
    <2>2. ASSUME proc[p].phase \in {"rename", "replace"}, Reset!Renamed(p)
          PROVE  \E ph \in Reset!Held, st \in Nat :
                   Reset!Goes(p, ph, st) /\ (st <= IF ph = "install" THEN Len(Files) ELSE 6)
      <3>1. Len(Reset!Renames(proc[p].journal)) = 6
        BY <1>1, <2>2, RenamesAre DEF CallInv
      <3> QED
        BY <1>1, <2>2, <3>1 DEF Reset!Renamed, CallInv, Reset!Held
    <2>3. CASE Reset!RenameForward(p)
      <3>1. proc[p].phase = "rename" /\ proc[p].step \in 1..6
        BY <1>1, <2>3 DEF Reset!RenameForward, CallInv
      <3>2. Reset!Renamed(p) \/ Reset!Goes(p, "replace", proc[p].step) \/ Reset!Leaves(p)
        BY <2>3 DEF Reset!RenameForward
      <3> QED
        BY <2>2, <3>1, <3>2 DEF Reset!Held
    <2>4. CASE Reset!Replace(p)
      <3>1. proc[p].phase = "replace" /\ (Reset!Renamed(p) \/ Reset!Leaves(p))
        BY <2>4 DEF Reset!Replace
      <3> QED
        BY <2>2, <3>1
    <2>5. CASE Reset!Install(p)
      <3>1. proc[p].phase = "install" /\ proc[p].step \in 1..Len(Files)
        BY <1>1, <2>5 DEF Reset!Install, CallInv
      <3> QED
        BY <1>1, <2>5, <3>1 DEF Reset!Install, Reset!Held
    <2>6. CASE Reset!WriteArchiveJournal(p)
      <3>1. proc[p].phase = "archive"
        BY <2>6 DEF Reset!WriteArchiveJournal
      <3> QED
        BY <1>1, <2>6, <3>1 DEF Reset!WriteArchiveJournal, Reset!Held, Within
    <2>7. CASE Reset!WriteCommitted(p)
      BY <2>7 DEF Reset!WriteCommitted
    <2> QED
      BY <2>1, <2>3, <2>4, <2>5, <2>6, <2>7 DEF Reset!CommitStep
  <1> QED
    BY <1>2, MovesAreTyped

\* A step of the commit keeps the types.
LEMMA CommitTypeOK ==
    ASSUME Reset!ResetAssumption, ResetIInv, NEW p \in Committers, Reset!CommitStep(p)
    PROVE  Reset!TypeOK'
  <1>1. /\ proc' \in [Committers -> Process]
        /\ \A q \in Committers : Within(proc'[q])
    BY CommitTyped
  <1>2. CallInv(p) /\ Reset!TypeOK
    BY DEF ResetIInv
  <1>3. at' \in [Reset!Paths -> Reset!Paths \cup {None}]
    <2>1. CASE Reset!Replace(p)
      <3>1. proc[p].journal \in Journals /\ proc[p].step \in 1..6
        BY <1>2, <2>1 DEF Reset!Replace, CallInv
      <3>2. From(proc[p].journal, proc[p].step) \in Reset!Paths
        BY <3>1, RenamesMoveOut
      <3>3. at[From(proc[p].journal, proc[p].step)] \in Reset!Paths \cup {None}
        BY <1>2, <3>2 DEF Reset!TypeOK
      <3> QED
        BY <1>2, <2>1, <3>3 DEF Reset!TypeOK, Reset!Replace, From, To
    <2> QED
      BY <1>2, <2>1
        DEF Reset!TypeOK, Reset!CommitStep, Reset!Acquire, Reset!RenameForward,
            Reset!Install, Reset!WriteArchiveJournal, Reset!WriteCommitted
  <1>4. /\ journal' \in [Journals -> {"none", "staging", "PREPARED", "COMMITTING", "COMMITTED"}]
        /\ archived' \subseteq Journals
        /\ pub' \in [1..Len(Files) -> {"checkout", "staged", "published"}]
    <2>1. proc[p].phase = "archive" => proc[p].journal \in Journals
      BY <1>2 DEF CallInv
    <2> QED
      BY <1>2, <2>1
        DEF Reset!TypeOK, Reset!CommitStep, Reset!Acquire, Reset!RenameForward,
            Reset!Replace, Reset!Install, Reset!WriteArchiveJournal,
            Reset!WriteCommitted
  <1>5. UNCHANGED <<marker, gate, check, crashes, gates>>
    BY DEF Reset!CommitStep, Reset!Acquire, Reset!RenameForward, Reset!Replace,
           Reset!Install, Reset!WriteArchiveJournal, Reset!WriteCommitted
  <1> QED
    BY <1>1, <1>2, <1>3, <1>4, <1>5 DEF Reset!TypeOK, Process, Within

\* A verification keeps the types.
LEMMA CheckTypeOK ==
    ASSUME Reset!ResetAssumption, ResetIInv, NEW v \in Verifiers,
           \/ \E j \in Journals : Reset!VerifyBegins(v, j)
           \/ Reset!Publish(v) \/ Reset!WriteGate(v)
           \/ Reset!MarkReady(v) \/ Reset!VerifierDies(v)
    PROVE  Reset!TypeOK'
  <1> DEFINE Check == [phase : {"idle", "publish", "gate", "ready"},
                       journal : Journals \cup {None},
                       digest : 0..MaxGates, number : 0..MaxGates]
  <1>1. Reset!TypeOK /\ CheckInv(v) /\ check \in [Verifiers -> Check] /\ check[v] \in Check
    BY DEF ResetIInv, Reset!TypeOK
  <1>2. 0 \in 0..MaxGates /\ MaxGates \in Nat /\ MaxCrashes \in Nat
    BY DEF Reset!ResetAssumption
  <1> HIDE DEF Check
  <1>3. ASSUME NEW c \in Check, check' = [check EXCEPT ![v] = c]
        PROVE  check' \in [Verifiers -> Check]
    BY <1>1, <1>3
  <1>4. [phase |-> "idle", journal |-> None, digest |-> 0, number |-> 0] \in Check
    BY <1>2 DEF Check
  <1>5. ASSUME NEW j \in Journals, Reset!VerifyBegins(v, j) PROVE Reset!TypeOK'
    <2>1. [phase |-> "publish", journal |-> j, digest |-> marker[j], number |-> 0] \in Check
      BY <1>1, <1>2 DEF Reset!TypeOK, Check
    <2>2. check' \in [Verifiers -> Check]
      BY <1>3, <1>5, <2>1 DEF Reset!VerifyBegins
    <2> QED
      BY <1>1, <1>5, <2>2 DEF Reset!VerifyBegins, Reset!TypeOK, Check
  <1>6. CASE Reset!Publish(v)
    <2>1. [check[v] EXCEPT !.phase = "gate"] \in Check
      BY <1>1 DEF Check
    <2>2. check' \in [Verifiers -> Check]
      BY <1>1, <1>3, <1>6, <2>1 DEF Reset!Publish
    <2>3. pub' \in [1..Len(Files) -> {"checkout", "staged", "published"}]
      BY <1>1, <1>6 DEF Reset!Publish, Reset!TypeOK
    <2> QED
      BY <1>1, <1>6, <2>2, <2>3 DEF Reset!Publish, Reset!TypeOK, Check
  <1>7. CASE Reset!WriteGate(v)
    <2>1. gates + 1 \in 0..MaxGates /\ gates' \in 0..MaxGates
      BY <1>1, <1>2, <1>7 DEF Reset!WriteGate, Reset!TypeOK
    <2>2. \A d \in 0..MaxGates :
            [number |-> gates + 1, made_for |-> d] \in [number : 0..MaxGates,
              made_for : 0..MaxGates]
      BY <2>1
    <2>3. check[v].digest \in 0..MaxGates
      BY <1>1 DEF Check
    <2>4. gate' \in [Journals -> [number : 0..MaxGates, made_for : 0..MaxGates]]
      BY <1>1, <1>7, <2>2, <2>3 DEF Reset!WriteGate, Reset!TypeOK
    <2>5. check' \in [Verifiers -> Check]
      BY <1>1, <1>7, <2>1 DEF Reset!WriteGate, Check
    <2> QED
      BY <1>1, <1>7, <2>1, <2>4, <2>5 DEF Reset!WriteGate, Reset!TypeOK, Check
  <1>8. CASE Reset!MarkReady(v)
    <2>1. check[v].number \in 0..MaxGates
      BY <1>1 DEF Check
    <2>2. marker' \in [Journals -> 0..MaxGates]
      BY <1>1, <1>8, <2>1 DEF Reset!MarkReady, Reset!TypeOK
    <2>3. check' \in [Verifiers -> Check]
      BY <1>3, <1>4, <1>8 DEF Reset!MarkReady
    <2> QED
      BY <1>1, <1>8, <2>2, <2>3 DEF Reset!MarkReady, Reset!TypeOK, Check
  <1>9. CASE Reset!VerifierDies(v)
    <2>1. check' \in [Verifiers -> Check]
      BY <1>3, <1>4, <1>9 DEF Reset!VerifierDies
    <2> QED
      BY <1>1, <1>2, <1>9, <2>1 DEF Reset!VerifierDies, Reset!TypeOK, Check
  <1> QED
    BY <1>5, <1>6, <1>7, <1>8, <1>9

\* Every step keeps the types.
LEMMA ResetNextTypeOK ==
  ASSUME Reset!ResetAssumption, ResetIInv, [Reset!Next]_Reset!vars
  PROVE  Reset!TypeOK'
  <1>1. Reset!TypeOK
    BY DEF ResetIInv
  <1>2. ASSUME NEW j \in Journals, Reset!PrepareBegins(j) PROVE Reset!TypeOK'
    BY <1>1, <1>2 DEF Reset!TypeOK, Reset!PrepareBegins
  <1>3. ASSUME NEW j \in Journals, Reset!PrepareEnds(j) PROVE Reset!TypeOK'
    <2>1. at' \in [Reset!Paths -> Reset!Paths \cup {None}]
      BY <1>1, <1>3 DEF Reset!TypeOK, Reset!PrepareEnds
    <2> QED
      BY <1>1, <1>3, <2>1 DEF Reset!TypeOK, Reset!PrepareEnds
  <1>4. ASSUME NEW p \in Committers, NEW j \in Journals, Reset!Call(p, j)
        PROVE  Reset!TypeOK'
    <2>1. [phase |-> "guard", journal |-> j, step |-> 0] \in Process
      BY DEF Process
    <2>2. proc' \in [Committers -> Process]
      BY <1>1, <1>4, <2>1 DEF Reset!Call, Reset!TypeOK, Process
    <2>3. \A q \in Committers : Within(proc'[q])
      BY <1>1, <1>4 DEF Reset!Call, Reset!TypeOK, Within
    <2> QED
      BY <1>1, <1>4, <2>2, <2>3 DEF Reset!TypeOK, Reset!Call, Process, Within
  <1>5. ASSUME NEW p \in Committers, Reset!Crash(p) PROVE Reset!TypeOK'
    <2>1. proc' \in [Committers -> Process] /\ \A q \in Committers : Within(proc'[q])
      BY <1>5, MovesAreTyped DEF Reset!Crash
    <2>2. crashes' \in 0..MaxCrashes
      BY <1>1, <1>5 DEF Reset!Crash, Reset!TypeOK, Reset!ResetAssumption
    <2> QED
      BY <1>1, <1>5, <2>1, <2>2 DEF Reset!TypeOK, Reset!Crash, Process, Within
  <1>6. ASSUME NEW k \in Reset!Roots, Reset!StrayWorker(k) PROVE Reset!TypeOK'
    <2>1. <<"stray", k>> \in Reset!Paths
      BY PathsAre
    <2> QED
      BY <1>1, <1>6, <2>1 DEF Reset!TypeOK, Reset!StrayWorker
  <1>7. CASE UNCHANGED Reset!vars
    BY <1>1, <1>7 DEF Reset!TypeOK, Reset!vars
  <1> QED
    BY <1>2, <1>3, <1>4, <1>5, <1>6, <1>7, CommitTypeOK, CheckTypeOK DEF Reset!Next

----------------------------------------------------------------------------
(* The directories.                                                        *)

\* Steps that move nothing and prepare nothing lose nothing.
LEMMA DirectoriesStay ==
    ASSUME Directories, UNCHANGED at,
           \A j \in Journals : (journal'[j] \in Unprepared) = (journal[j] \in Unprepared)
    PROVE  Directories'
  <1>1. \A d : Made(d)' = Made(d)
    BY DEF Made
  <1> QED
    BY <1>1 DEF Directories, Single, Somewhere, Known, Unstaged

\* A rename takes a directory from one path to another.
LEMMA RenameLosesNothing ==
    ASSUME ResetIInv, NEW from \in Reset!Paths, NEW to \in Reset!Paths, from # to, at[from] # None, at[to] = None,
           at' = [at EXCEPT ![to] = at[from], ![from] = None], UNCHANGED journal,
           to[1] \notin Journals, None \notin Reset!Paths
    PROVE  Directories'
  <1>1. /\ at \in [Reset!Paths -> Reset!Paths \cup {None}]
        /\ at'[to] = at[from] /\ at'[from] = None
        /\ \A p \in Reset!Paths \ {from, to} : at'[p] = at[p]
    BY DEF ResetIInv, Reset!TypeOK
  <1>2. \A d : Made(d)' = Made(d)
    BY DEF Made
  <1>3. Directories
    BY DEF ResetIInv
  <1>4. Single'
    BY <1>1, <1>3 DEF Directories, Single
  <1>5. Somewhere'
    <2> SUFFICES ASSUME NEW d \in Reset!Paths, Made(d)
                 PROVE  \E p \in Reset!Paths : at'[p] = d
      BY <1>2 DEF Somewhere
    <2>1. PICK p \in Reset!Paths : at[p] = d
      BY <1>3 DEF Directories, Somewhere
    <2>2. p # to
      BY <2>1
    <2> QED
      BY <1>1, <2>1, <2>2
  <1>6. Known'
    BY <1>1, <1>2, <1>3 DEF Directories, Known
  <1>7. Unstaged'
    BY <1>1, <1>3 DEF Directories, Unstaged
  <1> QED
    BY <1>4, <1>5, <1>6, <1>7 DEF Directories

\* The staged directories are new where they are made.
LEMMA PrepareEndsDirectories ==
    ASSUME Reset!ResetAssumption, ResetIInv, NEW j \in Journals, Reset!PrepareEnds(j)
    PROVE  Directories'
  <1>1. /\ at \in [Reset!Paths -> Reset!Paths \cup {None}] /\ Directories
        /\ journal \in [Journals -> {"none", "staging", "PREPARED", "COMMITTING", "COMMITTED"}]
    BY DEF ResetIInv, Reset!TypeOK
  <1>2. /\ \A p \in Reset!Paths : at'[p] = IF p[1] = j THEN p ELSE at[p]
        /\ journal[j] = "staging" /\ journal'[j] = "PREPARED"
        /\ \A k \in Journals \ {j} : journal'[k] = journal[k]
    BY <1>1 DEF Reset!PrepareEnds
  <1>3. j # "source" /\ j # "stray" /\ None \notin Reset!Paths
    BY DEF Reset!ResetAssumption
  <1>4. \A p \in Reset!Paths : p[1] = j => at[p] = None
    BY <1>1, <1>2 DEF Directories, Unstaged, Unprepared
  <1>5. \A p \in Reset!Paths : at[p] # None => at[p][1] # j
    BY <1>1, <1>2, <1>3 DEF Directories, Known, Made, Unprepared
  <1>6. \A d : Made(d)' = (Made(d) \/ d[1] = j)
    BY <1>2 DEF Made, Unprepared
  <1>7. Single'
    BY <1>1, <1>2, <1>5 DEF Directories, Single
  <1>8. Somewhere'
    <2> SUFFICES ASSUME NEW d \in Reset!Paths, Made(d) \/ d[1] = j
                 PROVE  \E p \in Reset!Paths : at'[p] = d
      BY <1>6 DEF Somewhere
    <2>1. CASE d[1] = j
      BY <1>2, <2>1
    <2>2. CASE Made(d)
      <3>1. PICK p \in Reset!Paths : at[p] = d
        BY <1>1, <2>2 DEF Directories, Somewhere
      <3>2. p[1] # j
        BY <1>3, <1>4, <3>1
      <3> QED
        BY <1>2, <3>1, <3>2
    <2> QED
      BY <2>1, <2>2
  <1>9. Known'
    BY <1>1, <1>2, <1>6 DEF Directories, Known
  <1>10. Unstaged'
    BY <1>1, <1>2 DEF Directories, Unstaged, Unprepared
  <1> QED
    BY <1>7, <1>8, <1>9, <1>10 DEF Directories

\* A late worker makes a root that is at no path.
LEMMA StrayDirectories ==
    ASSUME Reset!ResetAssumption, ResetIInv, NEW k \in Reset!Roots, Reset!StrayWorker(k)
    PROVE  Directories'
  <1>1. at \in [Reset!Paths -> Reset!Paths \cup {None}] /\ Directories
    BY DEF ResetIInv, Reset!TypeOK
  <1>2. /\ <<"source", k>> \in Reset!Paths /\ <<"stray", k>> \in Reset!Paths
        /\ "source" \notin Journals /\ None \notin Reset!Paths
    BY PathsAre DEF Reset!ResetAssumption
  <1>3. /\ at'[<<"source", k>>] = <<"stray", k>> /\ at[<<"source", k>>] = None
        /\ \A p \in Reset!Paths \ {<<"source", k>>} : at'[p] = at[p]
        /\ \A p \in Reset!Paths : at[p] # <<"stray", k>>
    BY <1>1, <1>2 DEF Reset!StrayWorker, Reset!Exists
  <1>4. \A d : Made(d)' = Made(d)
    BY DEF Reset!StrayWorker, Made
  <1>5. Single'
    BY <1>1, <1>3 DEF Directories, Single
  <1>6. Somewhere'
    <2> SUFFICES ASSUME NEW d \in Reset!Paths, Made(d)
                 PROVE  \E p \in Reset!Paths : at'[p] = d
      BY <1>4 DEF Somewhere
    <2>1. PICK p \in Reset!Paths : at[p] = d
      BY <1>1 DEF Directories, Somewhere
    <2> QED
      BY <1>2, <1>3, <2>1
  <1>7. Known'
    BY <1>1, <1>2, <1>3, <1>4 DEF Directories, Known
  <1>8. Unstaged'
    BY <1>1, <1>2, <1>3 DEF Directories, Unstaged, Reset!StrayWorker
  <1> QED
    BY <1>5, <1>6, <1>7, <1>8 DEF Directories

\* What a rename of a process does to the paths.
LEMMA ReplaceMoves ==
    ASSUME Reset!ResetAssumption, ResetIInv, NEW p \in Committers, Reset!Replace(p), at' # at,
           NEW from, NEW to, NEW j, NEW i,
           j = proc[p].journal, i = proc[p].step, from = From(j, i), to = To(j, i)
    PROVE  /\ j \in Journals /\ i \in 1..6
           /\ from \in Reset!Paths /\ to \in Reset!Paths
           /\ from # to /\ to[1] \notin Journals
           /\ at[from] # None /\ at[to] = None
           /\ at' = [at EXCEPT ![to] = at[from], ![from] = None]
           /\ Reset!Renamed(p)
  <1>1. j \in Journals /\ i \in 1..6
    BY DEF Reset!Replace, ResetIInv, CallInv
  <1>2. from \in Reset!Paths /\ to \in Reset!Paths /\ from # to /\ to[1] \notin Journals
    BY <1>1, RenamesMoveOut
  <1> QED
    BY <1>1, <1>2 DEF Reset!Replace, Reset!Exists, From, To

\* Every step keeps the directories.
LEMMA NextDirectories ==
  ASSUME Reset!ResetAssumption, ResetIInv, [Reset!Next]_Reset!vars
  PROVE  Directories'
  <1>1. /\ Directories
        /\ journal \in [Journals -> {"none", "staging", "PREPARED", "COMMITTING", "COMMITTED"}]
    BY DEF ResetIInv, Reset!TypeOK
  <1>2. ASSUME UNCHANGED <<at, journal>> PROVE Directories'
    BY <1>1, <1>2, DirectoriesStay
  <1>3. ASSUME NEW j \in Journals, Reset!PrepareBegins(j) PROVE Directories'
    BY <1>1, <1>3, DirectoriesStay DEF Reset!PrepareBegins, Unprepared
  <1>4. ASSUME NEW p \in Committers, Reset!CommitStep(p) PROVE Directories'
    <2>1. CallInv(p) /\ None \notin Reset!Paths
      BY DEF ResetIInv, Reset!ResetAssumption
    <2>2. CASE Reset!Acquire(p)
      BY <1>1, <2>1, <2>2, DirectoriesStay
        DEF Reset!Acquire, CallInv, Called, Unprepared
    <2>3. CASE Reset!Replace(p) /\ at' # at
      BY <2>1, <2>3, ReplaceMoves, RenameLosesNothing DEF Reset!Replace
    <2>4. CASE Reset!WriteCommitted(p)
      BY <1>1, <2>1, <2>4, DirectoriesStay
        DEF Reset!WriteCommitted, CallInv, Called, Unprepared
    <2> QED
      BY <1>2, <1>4, <2>2, <2>3, <2>4
        DEF Reset!CommitStep, Reset!RenameForward, Reset!Replace, Reset!Install,
            Reset!WriteArchiveJournal
  <1> QED
    BY <1>2, <1>3, <1>4, PrepareEndsDirectories, StrayDirectories
      DEF Reset!Next, Reset!vars, Reset!Call, Reset!Crash, Reset!VerifyBegins,
          Reset!Publish, Reset!WriteGate, Reset!MarkReady, Reset!VerifierDies

----------------------------------------------------------------------------
(* The processes.                                                          *)

\* The step of a process changes no journal that another holds: the guard of a
\* destination is one for all its journals.
LEMMA CommitCalls ==
    ASSUME Reset!ResetAssumption, ResetIInv, NEW p \in Committers, Reset!CommitStep(p)
    PROVE  /\ \A q \in Committers : CallInv(q)'
           /\ Alone'
  <1>1. /\ \A q \in Committers \ {p} : proc'[q] = proc[q] /\ CallInv(q)
        /\ CallInv(p) /\ Alone
        /\ proc \in [Committers -> Process]
        /\ journal \in [Journals -> {"none", "staging", "PREPARED", "COMMITTING", "COMMITTED"}]
    BY CommitTyped DEF ResetIInv, Reset!TypeOK, Process
  <1>2. Len(Files) \in Nat \ {0}
    BY DEF Reset!ResetAssumption
  <1>3. ASSUME UNCHANGED journal, CallInv(p)',
               proc'[p].phase \in Reset!Held => proc[p].phase \in Reset!Held,
               proc'[p].phase \in Reset!Held => proc'[p].journal = proc[p].journal
        PROVE  /\ \A q \in Committers : CallInv(q)'
               /\ Alone'
    <2>1. \A q \in Committers \ {p} : CallInv(q)'
      BY <1>1, <1>3 DEF CallInv
    <2>2. Alone'
      BY <1>1, <1>3 DEF Alone
    <2> QED
      BY <1>3, <2>1, <2>2
  <1>4. ASSUME proc[p].phase \in {"rename", "replace"}, Reset!Renamed(p), UNCHANGED journal
        PROVE  /\ CallInv(p)' /\ proc'[p].phase \in Reset!Held
               /\ proc'[p].journal = proc[p].journal
    <2>1. Len(Reset!Renames(proc[p].journal)) = 6 /\ proc[p].step \in 1..6
      BY <1>1, <1>4, RenamesAre DEF CallInv
    <2>2. CASE proc[p].step = 6
      BY <1>1, <1>2, <1>4, <2>1, <2>2
        DEF Reset!Renamed, Reset!Goes, CallInv, Reset!Held
    <2>3. CASE proc[p].step # 6
      BY <1>1, <1>4, <2>1, <2>3 DEF Reset!Renamed, Reset!Goes, CallInv, Reset!Held
    <2> QED
      BY <2>2, <2>3
  <1>5. ASSUME Reset!Leaves(p), UNCHANGED journal
        PROVE  CallInv(p)' /\ proc'[p].phase \notin Reset!Held
    BY <1>1, <1>5 DEF Reset!Leaves, Reset!Idle, CallInv, Reset!Held
  <1>6. CASE Reset!Acquire(p)
    <2>1. CASE journal[proc[p].journal] = "COMMITTED"
      BY <1>3, <1>5, <1>6, <2>1 DEF Reset!Acquire
    <2>2. CASE journal[proc[p].journal] # "COMMITTED"
      <3>1. /\ proc[p].phase = "guard" /\ Reset!GuardFree(proc[p].journal)
            /\ proc[p].journal \in Journals
            /\ journal' = [journal EXCEPT ![proc[p].journal] = "COMMITTING"]
            /\ Reset!Goes(p, "rename", 1)
        BY <1>1, <1>6, <2>2 DEF Reset!Acquire, CallInv
      <3>2. proc'[p] = [phase |-> "rename", journal |-> proc[p].journal, step |-> 1]
        BY <1>1, <3>1 DEF Reset!Goes
      <3>3. journal'[proc[p].journal] = "COMMITTING"
        BY <1>1, <3>1
      <3>4. CallInv(p)'
        BY <3>1, <3>2, <3>3 DEF CallInv, Called
      <3>5. ASSUME NEW q \in Committers \ {p} PROVE CallInv(q)'
        BY <1>1, <3>1, <3>3, <3>5 DEF CallInv, Called
      <3>6. Alone'
        BY <1>1, <3>1, <3>2 DEF Alone, Reset!GuardFree
      <3> QED
        BY <3>4, <3>5, <3>6
    <2> QED
      BY <2>1, <2>2
  <1>7. CASE Reset!RenameForward(p)
    <2>1. CASE Reset!Leaves(p)
      BY <1>3, <1>5, <1>7, <2>1 DEF Reset!RenameForward
    <2>2. CASE Reset!Renamed(p)
      BY <1>3, <1>4, <1>7, <2>2 DEF Reset!RenameForward, Reset!Held
    <2>3. CASE Reset!Goes(p, "replace", proc[p].step)
      <3>1. CallInv(p)' /\ proc'[p].journal = proc[p].journal
        BY <1>1, <1>7, <2>3 DEF Reset!RenameForward, Reset!Goes, CallInv, Reset!Held
      <3> QED
        BY <1>3, <1>7, <3>1 DEF Reset!RenameForward, Reset!Held
    <2> QED
      BY <1>7, <2>1, <2>2, <2>3 DEF Reset!RenameForward
  <1>8. CASE Reset!Replace(p)
    <2>1. CASE Reset!Leaves(p)
      BY <1>3, <1>5, <1>8, <2>1 DEF Reset!Replace
    <2>2. CASE Reset!Renamed(p)
      BY <1>3, <1>4, <1>8, <2>2 DEF Reset!Replace, Reset!Held
    <2> QED
      BY <1>8, <2>1, <2>2 DEF Reset!Replace
  <1>9. CASE Reset!Install(p)
    <2>1. proc[p].phase = "install" /\ proc[p].step \in 1..Len(Files) /\ UNCHANGED journal
      BY <1>1, <1>9 DEF Reset!Install, CallInv
    <2>2. CallInv(p)' /\ proc'[p].journal = proc[p].journal
      <3>1. CASE proc[p].step = Len(Files)
        BY <1>1, <1>9, <2>1, <3>1 DEF Reset!Install, Reset!Goes, CallInv, Reset!Held
      <3>2. CASE proc[p].step # Len(Files)
        BY <1>1, <1>2, <1>9, <2>1, <3>2
          DEF Reset!Install, Reset!Goes, CallInv, Reset!Held
      <3> QED
        BY <3>1, <3>2
    <2> QED
      BY <1>3, <2>1, <2>2 DEF Reset!Held
  <1>10. CASE Reset!WriteArchiveJournal(p)
    <2>1. CallInv(p)' /\ proc'[p].journal = proc[p].journal
      BY <1>1, <1>10 DEF Reset!WriteArchiveJournal, Reset!Goes, CallInv, Reset!Held
    <2> QED
      BY <1>3, <1>10, <2>1 DEF Reset!WriteArchiveJournal, Reset!Held
  <1>11. CASE Reset!WriteCommitted(p)
    <2>1. /\ proc[p].phase = "commit" /\ proc[p].journal \in Journals
          /\ journal' = [journal EXCEPT ![proc[p].journal] = "COMMITTED"]
      BY <1>1, <1>11 DEF Reset!WriteCommitted, CallInv
    <2>2. proc'[p].phase = "idle"
      BY <1>1, <1>11 DEF Reset!WriteCommitted, Reset!Leaves, Reset!Idle
    <2>3. CallInv(p)'
      BY <2>2 DEF CallInv, Reset!Held
    <2>4. ASSUME NEW q \in Committers \ {p} PROVE CallInv(q)'
      <3>1. proc[q].phase \in Reset!Held => proc[q].journal # proc[p].journal
        BY <1>1, <2>1 DEF Alone, Reset!Held
      <3> QED
        BY <1>1, <2>1, <3>1 DEF CallInv, Called
    <2>5. Alone'
      BY <1>1, <2>2 DEF Alone, Reset!Held
    <2> QED
      BY <2>3, <2>4, <2>5
  <1> QED
    BY <1>6, <1>7, <1>8, <1>9, <1>10, <1>11 DEF Reset!CommitStep

\* Every step keeps what the processes hold.
LEMMA NextCalls ==
    ASSUME Reset!ResetAssumption, ResetIInv, [Reset!Next]_Reset!vars
    PROVE  /\ \A p \in Committers : CallInv(p)'
           /\ Alone'
           /\ \A v \in Verifiers : CheckInv(v)'
  <1>1. /\ \A q \in Committers : CallInv(q)
        /\ Alone /\ Reset!TypeOK
        /\ \A v \in Verifiers : CheckInv(v)
        /\ proc \in [Committers -> Process]
    BY DEF ResetIInv, Reset!TypeOK, Process
  <1>2. ASSUME UNCHANGED <<proc, check>>,
               \A j \in Journals : journal[j] \in Called => journal'[j] = journal[j]
        PROVE  /\ \A p \in Committers : CallInv(p)'
               /\ Alone'
               /\ \A v \in Verifiers : CheckInv(v)'
    BY <1>1, <1>2 DEF CallInv, Alone, CheckInv, Reset!Held, Called
  <1>3. ASSUME NEW j \in Journals, Reset!PrepareBegins(j) \/ Reset!PrepareEnds(j)
        PROVE  /\ \A p \in Committers : CallInv(p)'
               /\ Alone'
               /\ \A v \in Verifiers : CheckInv(v)'
    BY <1>1, <1>2, <1>3
      DEF Reset!PrepareBegins, Reset!PrepareEnds, Called, Reset!TypeOK
  <1>4. ASSUME NEW p \in Committers, NEW j \in Journals, Reset!Call(p, j)
        PROVE  /\ \A q \in Committers : CallInv(q)'
               /\ Alone'
               /\ \A v \in Verifiers : CheckInv(v)'
    <2>1. /\ proc'[p] = [phase |-> "guard", journal |-> j, step |-> 0]
          /\ \A q \in Committers \ {p} : proc'[q] = proc[q]
          /\ UNCHANGED <<journal, check>> /\ journal[j] \in Called
      BY <1>1, <1>4 DEF Reset!Call, Called
    <2>2. \A q \in Committers : CallInv(q)'
      BY <1>1, <2>1 DEF CallInv, Reset!Held
    <2>3. Alone'
      BY <1>1, <2>1 DEF Alone, Reset!Held
    <2> QED
      BY <1>1, <2>1, <2>2, <2>3 DEF CheckInv
  <1>5. ASSUME NEW p \in Committers, Reset!CommitStep(p)
        PROVE  /\ \A q \in Committers : CallInv(q)'
               /\ Alone'
               /\ \A v \in Verifiers : CheckInv(v)'
    <2>1. UNCHANGED check
      BY <1>5
        DEF Reset!CommitStep, Reset!Acquire, Reset!RenameForward, Reset!Replace,
            Reset!Install, Reset!WriteArchiveJournal, Reset!WriteCommitted
    <2> QED
      BY <1>1, <1>5, <2>1, CommitCalls DEF CheckInv
  <1>6. ASSUME NEW p \in Committers, Reset!Crash(p)
        PROVE  /\ \A q \in Committers : CallInv(q)'
               /\ Alone'
               /\ \A v \in Verifiers : CheckInv(v)'
    <2>1. /\ proc'[p] = Reset!Idle
          /\ \A q \in Committers \ {p} : proc'[q] = proc[q]
          /\ UNCHANGED <<journal, check>>
      BY <1>1, <1>6 DEF Reset!Crash, Reset!Leaves
    <2>2. \A q \in Committers : CallInv(q)'
      BY <1>1, <2>1 DEF CallInv, Reset!Held, Reset!Idle
    <2>3. Alone'
      BY <1>1, <2>1 DEF Alone, Reset!Held, Reset!Idle
    <2> QED
      BY <1>1, <2>1, <2>2, <2>3 DEF CheckInv
  <1>7. ASSUME NEW v \in Verifiers,
               \/ \E j \in Journals : Reset!VerifyBegins(v, j)
               \/ Reset!Publish(v) \/ Reset!WriteGate(v)
               \/ Reset!MarkReady(v) \/ Reset!VerifierDies(v)
        PROVE  /\ \A q \in Committers : CallInv(q)'
               /\ Alone'
               /\ \A w \in Verifiers : CheckInv(w)'
    <2>1. UNCHANGED <<proc, journal>>
      BY <1>7
        DEF Reset!VerifyBegins, Reset!Publish, Reset!WriteGate, Reset!MarkReady,
            Reset!VerifierDies
    <2>2. \A w \in Verifiers \ {v} : check'[w] = check[w]
      BY <1>1, <1>7
        DEF Reset!VerifyBegins, Reset!Publish, Reset!WriteGate, Reset!MarkReady,
            Reset!VerifierDies, Reset!TypeOK
    <2>3. CheckInv(v)'
      <3>1. CASE \E j \in Journals : Reset!VerifyBegins(v, j)
        BY <1>1, <3>1 DEF Reset!VerifyBegins, CheckInv, Reset!TypeOK
      <3>2. CASE Reset!Publish(v)
        BY <1>1, <3>2 DEF Reset!Publish, CheckInv, Reset!TypeOK
      <3>3. CASE Reset!WriteGate(v)
        BY <1>1, <3>3 DEF Reset!WriteGate, CheckInv, Reset!TypeOK
      <3>4. CASE Reset!MarkReady(v) \/ Reset!VerifierDies(v)
        BY <1>1, <3>4 DEF Reset!MarkReady, Reset!VerifierDies, CheckInv, Reset!TypeOK
      <3> QED
        BY <1>7, <3>1, <3>2, <3>3, <3>4
    <2>4. \A w \in Verifiers : CheckInv(w)'
      BY <1>1, <2>2, <2>3 DEF CheckInv
    <2> QED
      BY <1>1, <2>1, <2>4 DEF CallInv, Alone
  <1>8. ASSUME NEW k \in Reset!Roots, Reset!StrayWorker(k)
        PROVE  /\ \A p \in Committers : CallInv(p)'
               /\ Alone'
               /\ \A v \in Verifiers : CheckInv(v)'
    BY <1>2, <1>8 DEF Reset!StrayWorker
  <1>9. CASE UNCHANGED Reset!vars
    BY <1>2, <1>9 DEF Reset!vars
  <1> QED
    BY <1>3, <1>4, <1>5, <1>6, <1>7, <1>8, <1>9 DEF Reset!Next

\* The initial state satisfies the inductive invariant.
LEMMA ResetInitIInv == ASSUME Reset!ResetAssumption, Reset!Init PROVE ResetIInv
  <1>1. None \notin Reset!Paths /\ "source" \notin Journals
    BY DEF Reset!ResetAssumption
  <1>2. Directories
    BY <1>1
      DEF Reset!Init, Directories, Single, Somewhere, Known, Unstaged, Made,
          Unprepared
  <1>3. /\ \A p \in Committers : CallInv(p)
        /\ Alone
        /\ \A v \in Verifiers : CheckInv(v)
    BY DEF Reset!Init, Reset!Idle, CallInv, Alone, CheckInv, Reset!Held
  <1> QED
    BY <1>2, <1>3, ResetInitTypeOK DEF ResetIInv

----------------------------------------------------------------------------
(* Committed is whole.                                                     *)

\* The directory of a rename that is not where it was and whose destination is
\* taken has arrived there.
LEMMA MissingHasArrived ==
    ASSUME Reset!ResetAssumption, ResetIInv, InPlace, NEW j \in Journals, NEW i \in 1..6,
           journal[j] \in Called, at[From(j, i)] = None, at[To(j, i)] # None
    PROVE  Arrived(j, i)
  <1>1. /\ From(j, i) \in Reset!Paths /\ To(j, i) \in Reset!Paths
        /\ From(j, i)[1] = j \/ From(j, i)[1] = "source"
        /\ To(j, i)[1] \notin Journals \cup {"source", "stray"}
    BY RenamesMoveOut
  <1>2. Directories /\ at \in [Reset!Paths -> Reset!Paths \cup {None}] /\ None \notin Reset!Paths
    BY DEF ResetIInv, Reset!TypeOK, Reset!ResetAssumption
  <1>3. Made(From(j, i))
    BY <1>1 DEF Made, Called, Unprepared
  <1>4. PICK p \in Reset!Paths : at[p] = From(j, i)
    BY <1>1, <1>2, <1>3 DEF Directories, Somewhere
  <1>5. p # From(j, i)
    BY <1>1, <1>2, <1>4
  <1>6. PICK k \in Journals, n \in 1..6 : at[p] = From(k, n) /\ p = To(k, n)
    BY <1>1, <1>2, <1>4, <1>5 DEF InPlace
  <1>7. n = i /\ (j = k \/ i \in {3, 4})
    <2>1. From(j, i) = From(k, n)
      BY <1>4, <1>6
    <2>2. \A m \in Journals, l \in 1..6 :
            From(j, i) = From(m, l) => i = l /\ (j = m \/ i \in {3, 4})
      BY RenamesAreWays
    <2> QED
      BY <1>6, <2>1, <2>2
  <1>8. CASE j = k
    BY <1>4, <1>6, <1>7, <1>8 DEF Arrived
  <1>9. CASE i \in {3, 4}
    <2>1. at[To(j, i)] # To(j, i)
      BY <1>1, <1>2 DEF Directories, Known, Made
    <2>2. PICK m \in Journals, l \in 1..6 : at[To(j, i)] = From(m, l) /\ To(j, i) = To(m, l)
      BY <1>1, <2>1 DEF InPlace
    <2>3. l = i
      BY <2>2, RenamesAreWays
    <2>4. From(m, i) = From(j, i)
      BY <1>9, RenamesAreWays
    <2> QED
      BY <2>2, <2>3, <2>4 DEF Arrived
  <1> QED
    BY <1>7, <1>8, <1>9

\* What has arrived stays, whatever step is taken.
LEMMA ArrivedStays ==
    ASSUME Reset!ResetAssumption, ResetIInv, [Reset!Next]_Reset!vars, NobodyStrays,
           NEW j \in Journals, NEW i \in 1..6, Arrived(j, i)
    PROVE  Arrived(j, i)'
  <1>1. /\ From(j, i) \in Reset!Paths /\ To(j, i) \in Reset!Paths /\ None \notin Reset!Paths
        /\ To(j, i)[1] \notin Journals \cup {"source", "stray"}
        /\ at \in [Reset!Paths -> Reset!Paths \cup {None}]
        /\ at[To(j, i)] # None
    BY RenamesMoveOut DEF Arrived, ResetIInv, Reset!TypeOK, Reset!ResetAssumption
  <1>2. ASSUME NEW k \in Journals, Reset!PrepareEnds(k) PROVE at'[To(j, i)] = at[To(j, i)]
    BY <1>1, <1>2 DEF Reset!PrepareEnds
  <1>3. ASSUME NEW p \in Committers, Reset!Replace(p), at' # at
        PROVE  at'[To(j, i)] = at[To(j, i)]
    <2> DEFINE k == proc[p].journal
               n == proc[p].step
    <2>1. /\ k \in Journals /\ n \in 1..6
          /\ From(k, n) \in Reset!Paths /\ To(k, n) \in Reset!Paths /\ at[To(k, n)] = None
          /\ at' = [at EXCEPT ![To(k, n)] = at[From(k, n)], ![From(k, n)] = None]
      BY <1>3, ReplaceMoves
    <2>2. From(k, n)[1] \in Journals \cup {"source"}
      BY <2>1, RenamesMoveOut
    <2> QED
      BY <1>1, <2>1, <2>2
  <1>4. at'[To(j, i)] = at[To(j, i)]
    BY <1>2, <1>3
      DEF Reset!Next, Reset!vars, Reset!PrepareBegins, Reset!Call, Reset!CommitStep,
          Reset!Acquire, Reset!RenameForward, Reset!Replace, Reset!Install,
          Reset!WriteArchiveJournal, Reset!WriteCommitted, Reset!Crash,
          Reset!VerifyBegins, Reset!Publish, Reset!WriteGate, Reset!MarkReady,
          Reset!VerifierDies, Reset!StrayWorker, NobodyStrays
  <1> QED
    BY <1>4 DEF Arrived, From, To, Reset!Renames

\* Without late workers every step leaves the directories where the renames
\* may have taken them.
LEMMA NextInPlace ==
    ASSUME Reset!ResetAssumption, ResetIInv, InPlace, [Reset!Next]_Reset!vars, NobodyStrays
    PROVE  InPlace'
  <1>1. \A j, i : From(j, i)' = From(j, i) /\ To(j, i)' = To(j, i)
    BY DEF From, To, Reset!Renames
  <1>2. ASSUME UNCHANGED at PROVE InPlace'
    BY <1>1, <1>2 DEF InPlace
  <1>3. ASSUME NEW k \in Journals, Reset!PrepareEnds(k) PROVE InPlace'
    <2>1. \A p \in Reset!Paths : at'[p] = IF p[1] = k THEN p ELSE at[p]
      BY <1>3 DEF Reset!PrepareEnds
    <2>2. \A p \in Reset!Paths : at'[p] \notin {None, p} => at[p] \notin {None, p} /\ at'[p] = at[p]
      BY <2>1
    <2> QED
      BY <1>1, <2>2 DEF InPlace
  <1>4. ASSUME NEW p \in Committers, Reset!Replace(p), at' # at PROVE InPlace'
    <2> DEFINE k == proc[p].journal
               n == proc[p].step
    <2>1. /\ k \in Journals /\ n \in 1..6
          /\ From(k, n) \in Reset!Paths /\ To(k, n) \in Reset!Paths
          /\ at[From(k, n)] # None
          /\ at' = [at EXCEPT ![To(k, n)] = at[From(k, n)], ![From(k, n)] = None]
      BY <1>4, ReplaceMoves
    <2>2. at[From(k, n)] = From(k, n)
      <3>1. \A m \in Journals, l \in 1..6 : From(k, n) # To(m, l)
        <4> SUFFICES ASSUME NEW m \in Journals, NEW l \in 1..6 PROVE From(k, n) # To(m, l)
          OBVIOUS
        <4>1. From(k, n)[1] \in Journals \cup {"source"}
          BY <2>1, RenamesMoveOut
        <4>2. To(m, l)[1] \notin Journals \cup {"source", "stray"}
          BY RenamesMoveOut
        <4> QED
          BY <4>1, <4>2
      <3> QED
        BY <2>1, <3>1 DEF InPlace
    <2>3. at \in [Reset!Paths -> Reset!Paths \cup {None}]
      BY DEF ResetIInv, Reset!TypeOK
    <2> HIDE DEF k, n
    <2>4. \A q \in Reset!Paths : at'[q] = IF q = From(k, n) THEN None
                                          ELSE IF q = To(k, n) THEN From(k, n) ELSE at[q]
      BY <2>1, <2>2, <2>3
    <2>5. ASSUME NEW q \in Reset!Paths, at'[q] \notin {None, q}
          PROVE  \E j \in Journals, i \in 1..6 : at'[q] = From(j, i) /\ q = To(j, i)
      <3>1. CASE at'[q] = From(k, n) /\ q = To(k, n)
        BY <2>1, <3>1
      <3>2. CASE at'[q] = at[q]
        BY <2>5, <3>2 DEF InPlace
      <3> QED
        BY <2>4, <2>5, <3>1, <3>2
    <2> QED
      BY <1>1, <2>5 DEF InPlace
  <1> QED
    BY <1>2, <1>3, <1>4
      DEF Reset!Next, Reset!vars, Reset!PrepareBegins, Reset!Call, Reset!CommitStep,
          Reset!Acquire, Reset!RenameForward, Reset!Replace, Reset!Install,
          Reset!WriteArchiveJournal, Reset!WriteCommitted, Reset!Crash,
          Reset!VerifyBegins, Reset!Publish, Reset!WriteGate, Reset!MarkReady,
          Reset!VerifierDies, Reset!StrayWorker, NobodyStrays

\* A process that goes on has its renames done.
LEMMA NextDone ==
    ASSUME Reset!ResetAssumption, ResetIInv, Progress, [Reset!Next]_Reset!vars, NobodyStrays,
           NEW p \in Committers, NEW j, NEW n, j = proc[p].journal, n = proc[p].step
    PROVE  Done(p)'
  <1>1. /\ proc \in [Committers -> Process] /\ CallInv(p) /\ Done(p) /\ InPlace
    BY DEF ResetIInv, Reset!TypeOK, Process, Progress
  <1>2. \A k \in Journals, i \in 1..6 : Arrived(k, i) => Arrived(k, i)'
    BY ArrivedStays
  <1>3. ASSUME proc'[p] = proc[p] PROVE Done(p)'
    <2>1. proc[p].phase \in Reset!Held => j \in Journals
      BY <1>1 DEF CallInv, Reset!Held
    <2>2. proc[p].phase \in {"rename", "replace"} => n \in 1..6
      BY <1>1 DEF CallInv
    <2>3. ASSUME proc[p].phase \in {"rename", "replace"}, NEW i \in 1..(n - 1)
          PROVE  Arrived(j, i)'
      <3>1. i \in 1..6 /\ Arrived(j, i)
        BY <1>1, <2>2, <2>3 DEF Done
      <3> QED
        BY <1>2, <2>1, <2>3, <3>1 DEF Reset!Held
    <2>4. ASSUME proc[p].phase \in {"install", "archive", "commit"}, NEW i \in 1..6
          PROVE  Arrived(j, i)'
      BY <1>1, <1>2, <2>1, <2>4 DEF Done, Reset!Held
    <2> QED
      BY <1>3, <2>3, <2>4 DEF Done, Arrived, From, To
  <1>4. ASSUME proc'[p].phase \in {"idle", "guard"} PROVE Done(p)'
    BY <1>4 DEF Done
  <1>5. ASSUME proc[p].phase \in {"rename", "replace"}, Reset!Renamed(p),
               Arrived(j, n)'
        PROVE  Done(p)'
    <2>1. j \in Journals /\ n \in 1..6 /\ Len(Reset!Renames(j)) = 6
      BY <1>1, <1>5, RenamesAre DEF CallInv
    <2>2. \A i \in 1..n : Arrived(j, i)'
      <3>1. \A i \in 1..(n - 1) : i \in 1..6 /\ Arrived(j, i)
        BY <1>1, <1>5, <2>1 DEF Done
      <3>2. \A i \in 1..(n - 1) : Arrived(j, i)'
        BY <1>2, <2>1, <3>1
      <3>3. \A i \in 1..n : i \in 1..(n - 1) \/ i = n
        BY <2>1
      <3> QED
        BY <1>5, <3>2, <3>3
    <2>3. CASE n = 6
      <3>1. proc'[p] = [phase |-> "install", journal |-> j, step |-> 1]
        BY <1>1, <1>5, <2>1, <2>3 DEF Reset!Renamed, Reset!Goes
      <3> QED
        BY <2>2, <2>3, <3>1 DEF Done, Arrived, From, To
    <2>4. CASE n # 6
      <3>1. proc'[p] = [phase |-> "rename", journal |-> j, step |-> n + 1]
        BY <1>1, <1>5, <2>1, <2>4 DEF Reset!Renamed, Reset!Goes
      <3>2. (n + 1) - 1 = n
        BY <2>1
      <3> QED
        BY <2>2, <3>1, <3>2 DEF Done, Arrived, From, To
    <2> QED
      BY <2>3, <2>4
  <1>6. ASSUME Reset!Leaves(p) PROVE Done(p)'
    BY <1>1, <1>4, <1>6 DEF Reset!Leaves, Reset!Idle
  <1>7. CASE Reset!Acquire(p)
    <2>1. CASE Reset!Goes(p, "rename", 1)
      <3>1. proc'[p].phase = "rename" /\ proc'[p].step = 1
        BY <1>1, <2>1 DEF Reset!Goes
      <3> QED
        BY <3>1 DEF Done
    <2> QED
      BY <1>6, <1>7, <2>1 DEF Reset!Acquire
  <1>8. CASE Reset!RenameForward(p)
    <2>1. proc[p].phase = "rename" /\ j \in Journals /\ n \in 1..6 /\ journal[j] = "COMMITTING"
      BY <1>1, <1>8 DEF Reset!RenameForward, CallInv, Reset!Held
    <2>2. CASE Reset!Renamed(p) /\ Reset!Exists(To(j, n)) /\ ~Reset!Exists(From(j, n))
      <3>1. Arrived(j, n)
        BY <1>1, <2>1, <2>2, MissingHasArrived DEF Reset!Exists, Called
      <3>2. Arrived(j, n)'
        BY <1>2, <2>1, <3>1
      <3> QED
        BY <1>5, <2>1, <2>2, <3>2
    <2>3. CASE Reset!Goes(p, "replace", n)
      <3>1. proc'[p] = [phase |-> "replace", journal |-> j, step |-> n]
        BY <1>1, <2>3 DEF Reset!Goes
      <3>2. \A i \in 1..(n - 1) : i \in 1..6 /\ Arrived(j, i)
        BY <1>1, <2>1 DEF Done
      <3>3. \A i \in 1..(n - 1) : Arrived(j, i)'
        BY <1>2, <2>1, <3>2
      <3> QED
        BY <3>1, <3>3 DEF Done, Arrived, From, To
    <2> QED
      BY <1>6, <1>8, <2>2, <2>3 DEF Reset!RenameForward, From, To
  <1>9. CASE Reset!Replace(p)
    <2>1. proc[p].phase = "replace" /\ j \in Journals /\ n \in 1..6
      BY <1>1, <1>9 DEF Reset!Replace, CallInv
    <2>2. CASE Reset!Leaves(p)
      BY <1>6, <2>2
    <2>3. CASE ~ Reset!Leaves(p)
      <3>1. /\ Reset!Renamed(p) /\ Reset!Exists(From(j, n)) /\ ~Reset!Exists(To(j, n))
            /\ at' = [at EXCEPT ![To(j, n)] = at[From(j, n)], ![From(j, n)] = None]
        BY <1>9, <2>3 DEF Reset!Replace, From, To
      <3>2. /\ From(j, n) \in Reset!Paths /\ To(j, n) \in Reset!Paths
            /\ From(j, n)[1] \in Journals \cup {"source"}
            /\ To(j, n)[1] \notin Journals \cup {"source", "stray"}
            /\ at \in [Reset!Paths -> Reset!Paths \cup {None}]
        BY <2>1, RenamesMoveOut DEF ResetIInv, Reset!TypeOK
      <3>3. at[From(j, n)] = From(j, n)
        <4>1. \A k \in Journals, i \in 1..6 : From(j, n) # To(k, i)
          <5> SUFFICES ASSUME NEW k \in Journals, NEW i \in 1..6
                       PROVE  From(j, n) # To(k, i)
            OBVIOUS
          <5>1. To(k, i)[1] \notin Journals \cup {"source", "stray"}
            BY RenamesMoveOut
          <5> QED
            BY <3>2, <5>1
        <4> QED
          BY <1>1, <3>1, <3>2, <4>1 DEF InPlace, Reset!Exists
      <3>4. at'[To(j, n)] = From(j, n)
        BY <3>1, <3>2, <3>3
      <3>5. Arrived(j, n)'
        BY <3>4 DEF Arrived, From, To
      <3> QED
        BY <1>5, <2>1, <3>1, <3>5
    <2> QED
      BY <2>2, <2>3
  <1>10. ASSUME proc[p].phase \in {"install", "archive"},
                \E ph \in {"install", "archive", "commit"}, st \in Nat : Reset!Goes(p, ph, st)
         PROVE  Done(p)'
    <2>1. /\ proc'[p].phase \in {"install", "archive", "commit"}
          /\ proc'[p].journal = j /\ j \in Journals
      BY <1>1, <1>10 DEF Reset!Goes, CallInv
    <2>2. \A i \in 1..6 : Arrived(j, i)'
      BY <1>1, <1>2, <1>10, <2>1 DEF Done
    <2> QED
      BY <2>1, <2>2 DEF Done, Arrived, From, To
  <1>11. CASE Reset!Install(p)
    BY <1>1, <1>10, <1>11 DEF Reset!Install, CallInv
  <1>12. CASE Reset!WriteArchiveJournal(p)
    <2>1. n \in Nat
      BY <1>1 DEF Process
    <2> QED
      BY <1>10, <1>12, <2>1 DEF Reset!WriteArchiveJournal
  <1>13. CASE Reset!WriteCommitted(p) \/ Reset!Crash(p)
    BY <1>6, <1>13 DEF Reset!WriteCommitted, Reset!Crash
  <1>14. ASSUME NEW k \in Journals, Reset!Call(p, k) PROVE Done(p)'
    BY <1>1, <1>4, <1>14 DEF Reset!Call
  <1>15. ASSUME NEW q \in Committers, q # p,
                Reset!CommitStep(q) \/ Reset!Crash(q) \/ \E k \in Journals : Reset!Call(q, k)
         PROVE  Done(p)'
    <2>1. proc'[p] = proc[p]
      <3>1. CASE Reset!CommitStep(q)
        BY <1>15, <3>1, CommitTyped
      <3>2. CASE Reset!Crash(q) \/ \E k \in Journals : Reset!Call(q, k)
        BY <1>1, <1>15, <3>2 DEF Reset!Crash, Reset!Call, Reset!Leaves
      <3> QED
        BY <1>15, <3>1, <3>2
    <2> QED
      BY <1>3, <2>1
  <1>16. CASE UNCHANGED proc
    BY <1>3, <1>16
  <1>17. CASE \E k \in Journals : Reset!PrepareBegins(k) \/ Reset!PrepareEnds(k)
    BY <1>16, <1>17 DEF Reset!PrepareBegins, Reset!PrepareEnds
  <1>18. CASE \/ \E v \in Verifiers, k \in Journals : Reset!VerifyBegins(v, k)
              \/ \E v \in Verifiers : Reset!Publish(v) \/ Reset!WriteGate(v) \/ Reset!MarkReady(v) \/ Reset!VerifierDies(v)
              \/ \E k \in Reset!Roots : Reset!StrayWorker(k)
    BY <1>16, <1>18
      DEF Reset!VerifyBegins, Reset!Publish, Reset!WriteGate, Reset!MarkReady,
          Reset!VerifierDies, Reset!StrayWorker
  <1> QED
    BY <1>7, <1>8, <1>9, <1>11, <1>12, <1>13, <1>14, <1>15, <1>16, <1>17, <1>18
    DEF Reset!Next, Reset!vars, Reset!CommitStep

\* Every step keeps the progress.
LEMMA NextProgress ==
    ASSUME Reset!ResetAssumption, ResetIInv, Progress, [Reset!Next]_Reset!vars, NobodyStrays
    PROVE  Progress'
  <1>1. InPlace' /\ \A p \in Committers : Done(p)'
    BY NextInPlace, NextDone DEF Progress
  <1>2. ASSUME NEW j \in archived', NEW i \in 1..6 PROVE Arrived(j, i)'
    <2>1. CASE j \in archived
      BY <2>1, ArrivedStays DEF Progress, ResetIInv, Reset!TypeOK
    <2>2. CASE j \notin archived
      <3>1. PICK p \in Committers : Reset!WriteArchiveJournal(p) /\ j = proc[p].journal
        BY <1>2, <2>2
          DEF Reset!Next, Reset!vars, Reset!PrepareBegins, Reset!PrepareEnds,
              Reset!Call, Reset!CommitStep, Reset!Acquire, Reset!RenameForward,
              Reset!Replace, Reset!Install, Reset!WriteArchiveJournal,
              Reset!WriteCommitted, Reset!Crash, Reset!VerifyBegins, Reset!Publish,
              Reset!WriteGate, Reset!MarkReady, Reset!VerifierDies, Reset!StrayWorker
      <3>2. proc[p].phase = "archive" /\ j \in Journals
        BY <3>1 DEF Reset!WriteArchiveJournal, ResetIInv, CallInv
      <3>3. Arrived(j, i)
        BY <3>1, <3>2 DEF Progress, Done
      <3> QED
        BY <3>2, <3>3, ArrivedStays
    <2> QED
      BY <2>1, <2>2
  <1> QED
    BY <1>1, <1>2 DEF Progress, Arrived, From, To

----------------------------------------------------------------------------
(* Repeated calls.                                                         *)

\* While nobody dies, what is archived stays COMMITTED or about to be.
LEMMA NextFinishing ==
    ASSUME Reset!ResetAssumption, ResetIInv, Finishing, [Reset!Next]_Reset!vars
    PROVE  Finishing'
  <1>1. /\ proc \in [Committers -> Process]
        /\ crashes \in Nat /\ archived \subseteq Journals
        /\ journal \in [Journals -> {"none", "staging", "PREPARED", "COMMITTING", "COMMITTED"}]
        /\ \A p \in Committers : CallInv(p)
    BY DEF ResetIInv, Reset!TypeOK, Process, Reset!ResetAssumption
  <1> SUFFICES ASSUME crashes' = 0, NEW j \in archived'
               PROVE  \/ journal'[j] = "COMMITTED"
                      \/ \E p \in Committers : proc'[p].phase = "commit" /\ proc'[p].journal = j
    BY DEF Finishing
  <1> DEFINE Finished == \/ journal'[j] = "COMMITTED"
                         \/ \E p \in Committers : proc'[p].phase = "commit"
                              /\ proc'[p].journal = j
  <1>2. ASSUME UNCHANGED <<journal, archived, crashes, proc>> PROVE Finished
    BY <1>2 DEF Finishing
  <1>3. ASSUME NEW k \in Journals, Reset!PrepareBegins(k) \/ Reset!PrepareEnds(k)
        PROVE  Finished
    BY <1>1, <1>3 DEF Finishing, Reset!PrepareBegins, Reset!PrepareEnds
  <1>4. ASSUME NEW p \in Committers, NEW k \in Journals, Reset!Call(p, k) PROVE Finished
    <2>1. /\ UNCHANGED <<journal, archived, crashes>> /\ proc[p].phase = "idle"
          /\ \A q \in Committers \ {p} : proc'[q] = proc[q]
      BY <1>1, <1>4 DEF Reset!Call
    <2> QED
      BY <2>1 DEF Finishing
  <1>5. ASSUME NEW p \in Committers, Reset!CommitStep(p) PROVE Finished
    <2>1. \A q \in Committers \ {p} : proc'[q] = proc[q]
      BY <1>5, CommitTyped
    <2>2. CASE Reset!WriteArchiveJournal(p)
      <3>1. /\ archived' = archived \cup {proc[p].journal} /\ UNCHANGED <<journal, crashes>>
            /\ proc[p].phase = "archive"
            /\ proc'[p].phase = "commit" /\ proc'[p].journal = proc[p].journal
        BY <1>1, <2>2 DEF Reset!WriteArchiveJournal, Reset!Goes
      <3> QED
        BY <2>1, <3>1 DEF Finishing
    <2>3. CASE Reset!WriteCommitted(p)
      <3>1. /\ UNCHANGED <<archived, crashes>>
            /\ journal' = [journal EXCEPT ![proc[p].journal] = "COMMITTED"]
        BY <2>3 DEF Reset!WriteCommitted
      <3>2. CASE j = proc[p].journal
        BY <1>1, <3>1, <3>2
      <3>3. CASE j # proc[p].journal
        BY <1>1, <2>1, <3>1, <3>3 DEF Finishing
      <3> QED
        BY <3>2, <3>3
    <2>4. ASSUME UNCHANGED <<archived, crashes>>, proc[p].phase # "commit",
                 journal[j] = "COMMITTED" => journal'[j] = "COMMITTED"
          PROVE  Finished
      BY <2>1, <2>4 DEF Finishing
    <2>5. CASE Reset!Acquire(p)
      <3>1. UNCHANGED <<archived, crashes>> /\ proc[p].phase = "guard"
        BY <2>5 DEF Reset!Acquire
      <3>2. journal[j] = "COMMITTED" => journal'[j] = "COMMITTED"
        BY <1>1, <2>5, <3>1 DEF Reset!Acquire
      <3> QED
        BY <2>4, <3>1, <3>2
    <2>6. CASE Reset!RenameForward(p) \/ Reset!Replace(p) \/ Reset!Install(p)
      BY <2>4, <2>6 DEF Reset!RenameForward, Reset!Replace, Reset!Install
    <2> QED
      BY <1>5, <2>2, <2>3, <2>5, <2>6 DEF Reset!CommitStep
  <1>6. ASSUME \/ \E p \in Committers : Reset!Crash(p)
               \/ \E v \in Verifiers : Reset!VerifierDies(v)
        PROVE  FALSE
    BY <1>1, <1>6 DEF Reset!Crash, Reset!VerifierDies
  <1>7. ASSUME \/ \E v \in Verifiers, k \in Journals : Reset!VerifyBegins(v, k)
               \/ \E v \in Verifiers : Reset!Publish(v) \/ Reset!WriteGate(v) \/ Reset!MarkReady(v)
               \/ \E k \in Reset!Roots : Reset!StrayWorker(k)
        PROVE  Finished
    BY <1>2, <1>7
      DEF Reset!VerifyBegins, Reset!Publish, Reset!WriteGate, Reset!MarkReady,
          Reset!StrayWorker
  <1>8. CASE UNCHANGED Reset!vars
    BY <1>2, <1>8 DEF Reset!vars
  <1> QED
    BY <1>3, <1>4, <1>5, <1>6, <1>7, <1>8 DEF Reset!Next

----------------------------------------------------------------------------
(* The baseline gate.                                                      *)

\* One verification at a time, with the pinned marker.
OneVerifier == PinMarker /\ \A v, w \in Verifiers : v = w

\* A step keeps the gate of what is READY, and what a verification has found.
LEMMA NextLoadable ==
    ASSUME Reset!ResetAssumption, OneVerifier, ResetIInv, Loadable, [Reset!Next]_Reset!vars
    PROVE  Loadable'
  <1>1. /\ marker \in [Journals -> 0..MaxGates]
        /\ gate \in [Journals -> [number : 0..MaxGates, made_for : 0..MaxGates]]
        /\ check \in [Verifiers -> [phase : {"idle", "publish", "gate", "ready"},
                                    journal : Journals \cup {None},
                                    digest : 0..MaxGates, number : 0..MaxGates]]
        /\ \A v \in Verifiers : CheckInv(v) /\ Verified(v)
        /\ \A v, w \in Verifiers : v = w
        /\ PinMarker
        /\ \A j \in Journals : marker[j] # 0 => gate[j] = [number |-> marker[j], made_for |-> 0]
    BY DEF ResetIInv, Reset!TypeOK, Loadable, OneVerifier, Reset!ReadyIsLoadable
  <1>2. ASSUME UNCHANGED <<marker, gate, check>> PROVE Loadable'
    BY <1>1, <1>2 DEF Loadable, Verified, Reset!ReadyIsLoadable
  <1>3. ASSUME NEW v \in Verifiers, NEW j \in Journals, Reset!VerifyBegins(v, j)
        PROVE  Loadable'
    <2>1. /\ UNCHANGED <<marker, gate>> /\ marker[j] = 0
          /\ check'[v] = [phase |-> "publish", journal |-> j, digest |-> 0, number |-> 0]
      BY <1>1, <1>3 DEF Reset!VerifyBegins
    <2>2. Verified(v)'
      BY <2>1 DEF Verified
    <2> QED
      BY <1>1, <2>1, <2>2 DEF Loadable, Reset!ReadyIsLoadable
  <1>4. ASSUME NEW v \in Verifiers, Reset!Publish(v) PROVE Loadable'
    <2>1. /\ UNCHANGED <<marker, gate>> /\ check[v].phase = "publish"
          /\ check'[v].phase = "gate" /\ check'[v].journal = check[v].journal
          /\ check'[v].digest = check[v].digest
      BY <1>1, <1>4 DEF Reset!Publish
    <2>2. Verified(v)'
      BY <1>1, <2>1 DEF Verified
    <2> QED
      BY <1>1, <2>1, <2>2 DEF Loadable, Reset!ReadyIsLoadable
  <1>5. ASSUME NEW v \in Verifiers, Reset!WriteGate(v), NEW j, j = check[v].journal
        PROVE  Loadable'
    <2>1. /\ UNCHANGED marker /\ check[v].phase = "gate" /\ j \in Journals
          /\ marker[j] = 0 /\ check[v].digest = 0
          /\ gate' = [gate EXCEPT ![j] = [number |-> gates + 1, made_for |-> check[v].digest]]
      BY <1>1, <1>5 DEF Reset!WriteGate, CheckInv, Verified
    <2>2. /\ check'[v].phase = "ready" /\ check'[v].journal = j
          /\ check'[v].digest = 0 /\ check'[v].number = gates + 1
      BY <1>1, <1>5, <2>1 DEF Reset!WriteGate
    <2>3. /\ gate'[j] = [number |-> gates + 1, made_for |-> 0]
          /\ \A k \in Journals \ {j} : gate'[k] = gate[k]
      BY <1>1, <2>1
    <2>4. Verified(v)'
      BY <2>1, <2>2, <2>3 DEF Verified
    <2>5. Reset!ReadyIsLoadable'
      BY <1>1, <2>1, <2>3 DEF Reset!ReadyIsLoadable
    <2> QED
      BY <1>1, <2>4, <2>5 DEF Loadable
  <1>6. ASSUME NEW v \in Verifiers, Reset!MarkReady(v), NEW j, j = check[v].journal
        PROVE  Loadable'
    <2>1. /\ UNCHANGED gate /\ check[v].phase = "ready" /\ j \in Journals
          /\ marker[j] = 0 /\ gate[j] = [number |-> check[v].number, made_for |-> 0]
      BY <1>1, <1>6 DEF Reset!MarkReady, CheckInv, Verified
    <2>2. /\ marker'[j] = check[v].number
          /\ \A k \in Journals \ {j} : marker'[k] = marker[k]
          /\ check'[v].phase = "idle"
      BY <1>1, <1>6, <2>1 DEF Reset!MarkReady
    <2>3. Verified(v)'
      BY <2>2 DEF Verified
    <2>4. Reset!ReadyIsLoadable'
      BY <1>1, <2>1, <2>2 DEF Reset!ReadyIsLoadable
    <2> QED
      BY <1>1, <2>3, <2>4 DEF Loadable
  <1>7. ASSUME NEW v \in Verifiers, Reset!VerifierDies(v) PROVE Loadable'
    <2>1. UNCHANGED <<marker, gate>> /\ check'[v].phase = "idle"
      BY <1>1, <1>7 DEF Reset!VerifierDies
    <2>2. Verified(v)'
      BY <2>1 DEF Verified
    <2> QED
      BY <1>1, <2>1, <2>2 DEF Loadable, Reset!ReadyIsLoadable
  <1> QED
    BY <1>2, <1>3, <1>4, <1>5, <1>6, <1>7
      DEF Reset!Next, Reset!vars, Reset!PrepareBegins, Reset!PrepareEnds, Reset!Call,
          Reset!CommitStep, Reset!Acquire, Reset!RenameForward, Reset!Replace,
          Reset!Install, Reset!WriteArchiveJournal, Reset!WriteCommitted, Reset!Crash,
          Reset!StrayWorker

----------------------------------------------------------------------------
(* The report: its inductive invariant                                     *)

Writing == {"install", "manifest", "rollback"}
Confirmed == {"copy", "build", "lock", "install", "manifest"}
File(i) == Pub!PublisherFiles[i]
Entry(i) == IF i <= Pub!N THEN 0..MaxAttempts ELSE Pub!Attempts

Value == (0..MaxAttempts) \cup Pub!Attempts

Cycles ==
    [phase : {"down", "capture", "confirm", "ended"} \cup Confirmed \cup Writing,
     seen : Pub!Attempts, again : Pub!Attempts, base : Pub!Attempts, index : 0..(Pub!N + 3),
       tries : 0..2,
     old : Seq(Value)]

Works ==
    [phase : {"idle", "install", "rollback"}, plan : Pub!Attempts, index : 0..(Pub!N + 1),
     old : Seq(Value)]

\* The files of a report d.
OfFiles(d) == d = [f \in Pub!ToSet(Pub!PublisherFiles) |-> d[f]]
Report(d) ==
    /\ OfFiles(d)
    /\ \A f \in Pub!ToSet(Pub!PublisherFiles) :
          d[f] \in IF f \in Pub!Cells THEN 0..MaxAttempts ELSE Pub!Attempts

Types ==
    /\ Pub!TypeOK /\ Report(docs)
    /\ cycle \in [Publishers -> Cycles] /\ cmd \in [Commands -> Works]
    /\ between \in [Publishers -> Pub!Attempts]

\* Where an installation is, and that what it keeps fits the files it came from.
Kept(old) == \A i \in 1..Len(old) : old[i] \in Entry(i)
Position(p) ==
    /\ cycle[p].phase \in {"capture", "confirm", "copy"} => cycle[p].index \in 1..Pub!N
    /\ cycle[p].phase = "install" => cycle[p].index \in 1..(Pub!N + 2)
         /\ Len(cycle[p].old) = cycle[p].index - 1
    /\ cycle[p].phase = "manifest" => cycle[p].index = Pub!N + 3 /\ Len(cycle[p].old) = Pub!N + 2
    /\ cycle[p].phase = "rollback" => Len(cycle[p].old) <= Pub!N + 2
    /\ cycle[p].phase \in Writing => Kept(cycle[p].old)
WorkPosition(k) ==
    /\ cmd[k].phase = "install" => cmd[k].index \in 1..(Pub!N + 1)
         /\ Len(cmd[k].old) = cmd[k].index - 1
    /\ cmd[k].phase = "rollback" => Len(cmd[k].old) <= Pub!N + 1
    /\ cmd[k].phase # "idle" => Kept(cmd[k].old)

\* The two locks have the holders that the phases say.
Owners ==
    /\ \A p \in Publishers : /\ cycle[p].phase # "down" => lease = p
                             /\ writer = p <=> cycle[p].phase \in Writing
    /\ \A k \in Commands : writer = k <=> cmd[k].phase # "idle"

\* The manifest is of pointers that were current, and its files hold them.
Captured ==
    manifest # None =>
        \A c \in Pub!Cells :
            /\ manifest.snapshot[c] <= current[c]
            /\ manifest.snapshot[c] # 0 => manifest.files[c] = manifest.snapshot[c]

\* What a reading has seen of a cell is not older than what is published of it.
Newer(p, c) == manifest # None => manifest.snapshot[c] <= cycle[p].seen[c]

\* Pointers only grow: what the first reading saw of a cell is at most what the
\* second sees, and the moment between them lies between.
Reads(p) ==
    /\ cycle[p].phase = "capture" =>
         \A i \in 1..(cycle[p].index - 1) :
            LET c == CellOrder[i] IN Newer(p, c) /\ cycle[p].seen[c] <= current[c]
    /\ cycle[p].phase = "confirm" =>
         /\ \A c \in Pub!Cells :
               Newer(p, c) /\ cycle[p].seen[c] <= between[p][c] /\ between[p][c] <= current[c]
         /\ \A i \in 1..(cycle[p].index - 1) :
               between[p][CellOrder[i]] <= cycle[p].again[CellOrder[i]]
    /\ cycle[p].phase \in Confirmed =>
         /\ cycle[p].seen = between[p]
         /\ \A c \in Pub!Cells : Newer(p, c) /\ cycle[p].seen[c] <= current[c]

\* What file i was before the installation that keeps these, in a report d.
Undone(d, old, i) == IF i <= Len(old) THEN old[i] ELSE d[File(i)]

\* The tables were made from the caches that the report had.
Undoable(d, old) ==
    \E a \in Pub!Attempts :
        /\ \A i \in 1..Pub!N : Undone(d, old, i) = a[CellOrder[i]]
        /\ Undone(d, old, Pub!N + 1) = a

ReportInstalled(d, attempts, n) == \A i \in 1..n : d[File(i)] = Pub!Content(attempts, File(i))

Installs(p) ==
    /\ cycle[p].phase \in {"install", "manifest"}
         => ReportInstalled(docs, Pub!Staged(p), cycle[p].index - 1)
    /\ cycle[p].phase \in Writing /\ ~torn => Undoable(docs, cycle[p].old)
WorkInstalls(k) ==
    /\ cmd[k].phase = "install" => ReportInstalled(docs, cmd[k].plan, cmd[k].index - 1)
    /\ cmd[k].phase # "idle" /\ ~torn => Undoable(docs, cmd[k].old)

ReportIInv ==
    /\ Types /\ Owners /\ Captured /\ Pub!TablesShowCaches
    /\ \A p \in Publishers : Position(p) /\ Reads(p) /\ Installs(p)
    /\ \A k \in Commands : WorkPosition(k) /\ WorkInstalls(k)

----------------------------------------------------------------------------
(* The files of a report                                                   *)

LEMMA FilesAre ==
    ASSUME Pub!PublisherAssumption
    PROVE  /\ Pub!N \in Nat \ {0}
           /\ \A i \in 1..Pub!N : /\ File(i) = CellOrder[i] /\ Pub!CommandFiles[i] = CellOrder[i]
                                  /\ CellOrder[i] \in Pub!Cells
           /\ File(Pub!N + 1) = "tables" /\ Pub!CommandFiles[Pub!N + 1] = "tables"
                /\ File(Pub!N + 2) = "pdf"
           /\ Pub!ToSet(Pub!PublisherFiles) = Pub!Cells \cup {"tables", "pdf"}
           /\ \A c \in Pub!Cells : \E i \in 1..Pub!N : CellOrder[i] = c
           /\ \A i, j \in 1..Pub!N : CellOrder[i] = CellOrder[j] => i = j
           /\ \A i, j \in 1..(Pub!N + 2) : File(i) = File(j) => i = j
           /\ \A i \in 1..(Pub!N + 2) : File(i) \in Pub!ToSet(Pub!PublisherFiles)
           /\ "tables" \notin Pub!Cells /\ "pdf" \notin Pub!Cells
  <1>1. /\ CellOrder \in Seq(Pub!Cells) /\ CellOrder # <<>>
        /\ "tables" \notin Pub!Cells /\ "pdf" \notin Pub!Cells
        /\ \A i, j \in DOMAIN CellOrder : CellOrder[i] = CellOrder[j] => i = j
    BY DEF Pub!PublisherAssumption, Pub!IsInjective
  <1>2. Pub!N \in Nat \ {0} /\ DOMAIN CellOrder = 1..Pub!N
    BY <1>1, EmptySeq, LenProperties DEF Pub!N
  <1>3. DEFINE F == Pub!Cells \cup {"tables", "pdf"}
  <1>4. CellOrder \in Seq(F)
    BY <1>1, <1>2, SeqDef, ElementOfSeq
  <1>5. /\ Pub!CommandFiles \in Seq(F) /\ Len(Pub!CommandFiles) = Pub!N + 1
        /\ \A i \in 1..Pub!N : Pub!CommandFiles[i] = CellOrder[i]
        /\ Pub!CommandFiles[Pub!N + 1] = "tables"
    BY <1>2, <1>4, AppendProperties DEF Pub!CommandFiles, Pub!N
  <1>6. /\ Pub!PublisherFiles \in Seq(F) /\ Len(Pub!PublisherFiles) = Pub!N + 2
        /\ \A i \in 1..(Pub!N + 1) : Pub!PublisherFiles[i] = Pub!CommandFiles[i]
        /\ Pub!PublisherFiles[Pub!N + 2] = "pdf"
    BY <1>2, <1>5, AppendProperties DEF Pub!PublisherFiles
  <1>7. DOMAIN Pub!PublisherFiles = 1..(Pub!N + 2)
    BY <1>2, <1>6, LenProperties
  <1>8. \A c \in Pub!Cells : \E i \in 1..Pub!N : CellOrder[i] = c
    BY <1>2 DEF Pub!Cells, Pub!ToSet
  <1>9. \A i \in 1..Pub!N : CellOrder[i] \in Pub!Cells /\ i \in 1..(Pub!N + 1)
    BY <1>2 DEF Pub!Cells, Pub!ToSet
  <1>10. Pub!ToSet(Pub!PublisherFiles) = F
    <2>1. \A i \in 1..(Pub!N + 2) : Pub!PublisherFiles[i] \in F
      BY <1>6, <1>7, ElementOfSeq
    <2>2. \A f \in F : \E i \in 1..(Pub!N + 2) : Pub!PublisherFiles[i] = f
      <3>1. \A c \in Pub!Cells : \E i \in 1..(Pub!N + 2) : Pub!PublisherFiles[i] = c
        BY <1>2, <1>5, <1>6, <1>8, <1>9
      <3> QED
        BY <1>2, <1>5, <1>6, <3>1
    <2> QED
      BY <1>7, <2>1, <2>2 DEF Pub!ToSet
  <1>11. /\ \A i, j \in 1..(Pub!N + 2) : Pub!PublisherFiles[i] = Pub!PublisherFiles[j] => i = j
         /\ \A i \in 1..(Pub!N + 2) : Pub!PublisherFiles[i] \in F
    <2>1. \A i \in 1..(Pub!N + 2) : i \in 1..Pub!N \/ i = Pub!N + 1 \/ i = Pub!N + 2
      BY <1>2
    <2>2. /\ \A i \in 1..Pub!N : Pub!PublisherFiles[i] = CellOrder[i]
          /\ Pub!PublisherFiles[Pub!N + 1] = "tables"
          /\ Pub!PublisherFiles[Pub!N + 2] = "pdf"
      BY <1>2, <1>5, <1>6, <1>9
    <2>3. "tables" # "pdf"
      OBVIOUS
    <2> QED
      BY <1>1, <1>2, <1>9, <2>1, <2>2, <2>3
  <1> QED
    BY <1>1, <1>2, <1>5, <1>6, <1>8, <1>9, <1>10, <1>11 DEF File

----------------------------------------------------------------------------
(* What is replaced, kept and put back                                     *)

LEMMA EntriesAre ==
    ASSUME Pub!PublisherAssumption, NEW d, Report(d), NEW i \in 1..(Pub!N + 2)
    PROVE  d[File(i)] \in Entry(i) /\ d[File(i)] \in Value
  <1>1. Pub!N \in Nat /\ (i \in 1..Pub!N => File(i) \in Pub!Cells) /\ (i \notin 1..Pub!N
          => File(i) \notin Pub!Cells)
    BY FilesAre
  <1>2. d[File(i)] \in IF File(i) \in Pub!Cells THEN 0..MaxAttempts ELSE Pub!Attempts
    BY FilesAre DEF Report
  <1>3. Entry(i) = IF i \in 1..Pub!N THEN 0..MaxAttempts ELSE Pub!Attempts
    BY <1>1 DEF Entry
  <1> QED
    BY <1>1, <1>2, <1>3 DEF Value

\* One file differs between two reports.
LEMMA ReplacedIs ==
    ASSUME Pub!PublisherAssumption, NEW d, Report(d), NEW i \in 1..(Pub!N + 2),
           NEW e, OfFiles(e), e[File(i)] \in Entry(i),
           \A f \in Pub!ToSet(Pub!PublisherFiles) : f # File(i) => e[f] = d[f]
    PROVE  /\ Report(e)
           /\ \A j \in 1..(Pub!N + 2) : j # i => e[File(j)] = d[File(j)]
  <1>1. File(i) \in Pub!ToSet(Pub!PublisherFiles) /\ Pub!N \in Nat
        /\ (i \in 1..Pub!N => File(i) \in Pub!Cells) /\ (i \notin 1..Pub!N
             => File(i) \notin Pub!Cells)
    BY FilesAre
  <1>2. \A j \in 1..(Pub!N + 2) : File(j) \in Pub!ToSet(Pub!PublisherFiles)
          /\ (File(j) = File(i) => j = i)
    BY FilesAre
  <1>3. e[File(i)] \in IF File(i) \in Pub!Cells THEN 0..MaxAttempts ELSE Pub!Attempts
    BY <1>1 DEF Entry
  <1>4. Report(e)
    BY <1>1, <1>3 DEF Report
  <1> QED
    BY <1>2, <1>4

\* Keeping a file and replacing it leaves what can be undone.
LEMMA KeptIsUndoable ==
    ASSUME Pub!PublisherAssumption, NEW d, Report(d), NEW old \in Seq(Value), Kept(old),
           NEW i \in 1..(Pub!N + 2), Len(old) = i - 1,
           NEW e, \A f \in Pub!ToSet(Pub!PublisherFiles) : f # File(i) => e[f] = d[f],
           NEW new \in Seq(Value), Len(new) = i,
           \A j \in 1..(i - 1) : new[j] = old[j], new[i] = d[File(i)]
    PROVE  Kept(new) /\ (Undoable(d, old) => Undoable(e, new))
  <1>0. Pub!N \in Nat /\ d[File(i)] \in Entry(i) /\ d[File(i)] \in Value
    BY FilesAre, EntriesAre
  <1>1. Len(new) = i /\ \A j \in 1..(i - 1) : new[j] = old[j]
    OBVIOUS
  <1>2. Kept(new)
    BY <1>0, <1>1 DEF Kept
  <1>3. \A j \in 1..(Pub!N + 2) : Undone(e, new, j) = Undone(d, old, j)
    <2>1. \A j \in 1..(Pub!N + 2) : j # i => e[File(j)] = d[File(j)]
      BY FilesAre
    <2> QED
      BY <1>0, <1>1, <2>1 DEF Undone
  <1>4. Pub!N + 1 \in 1..(Pub!N + 2) /\ \A j \in 1..Pub!N : j \in 1..(Pub!N + 2)
    BY <1>0
  <1>5. Undoable(d, old) => Undoable(e, new)
    BY <1>3, <1>4 DEF Undoable
  <1> QED
    BY <1>1, <1>2, <1>5

\* So does putting the last one back.
LEMMA RestoredIsUndoable ==
    ASSUME Pub!PublisherAssumption, NEW d, Report(d), NEW old \in Seq(Value), Kept(old),
           NEW n \in 1..(Pub!N + 2), Len(old) = n,
           NEW e, OfFiles(e), e[File(n)] = old[n],
           \A f \in Pub!ToSet(Pub!PublisherFiles) : f # File(n) => e[f] = d[f],
           NEW new, new = Pub!Front(old)
    PROVE  /\ Report(e) /\ new \in Seq(Value) /\ Len(new) = n - 1 /\ Kept(new)
           /\ Undoable(d, old) => Undoable(e, new)
  <1>0. Pub!N \in Nat /\ old[n] \in Entry(n) /\ old # << >>
    BY FilesAre, EmptySeq DEF Kept
  <1>1. /\ new = [j \in 1..(n - 1) |-> old[j]]
        /\ \A j \in 1..n : old[j] \in Value
    BY <1>0, ElementOfSeq DEF Pub!Front
  <1>2. new \in Seq(Value) /\ Len(new) = n - 1 /\ \A j \in 1..(n - 1) : new[j] = old[j]
    <2>1. n - 1 \in Nat /\ \A j \in 1..(n - 1) : j \in 1..n
      BY <1>0
    <2> QED
      BY <1>1, <2>1
  <1>3. Report(e) /\ \A j \in 1..(Pub!N + 2) : j # n => e[File(j)] = d[File(j)]
    BY <1>0, ReplacedIs
  <1>4. Kept(new)
    BY <1>0, <1>2 DEF Kept
  <1>5. \A j \in 1..(Pub!N + 2) : Undone(e, new, j) = Undone(d, old, j)
    BY <1>0, <1>2, <1>3 DEF Undone
  <1>6. Pub!N + 1 \in 1..(Pub!N + 2) /\ \A j \in 1..Pub!N : j \in 1..(Pub!N + 2)
    BY <1>0
  <1>7. Undoable(d, old) => Undoable(e, new)
    BY <1>5, <1>6 DEF Undoable
  <1> QED
    BY <1>2, <1>3, <1>4, <1>7

Shows(d) == d["tables"] = [c \in Pub!Cells |-> d[c]]

\* Nothing is kept before the first replacement, nor when all is put back.
LEMMA NothingToUndo ==
    ASSUME Pub!PublisherAssumption, NEW d, Report(d), NEW old \in Seq(Value), Len(old) = 0
    PROVE  Undoable(d, old) <=> Shows(d)
  <1>0. /\ Pub!N \in Nat \ {0} /\ File(Pub!N + 1) = "tables"
        /\ \A i \in 1..Pub!N : File(i) = CellOrder[i] /\ CellOrder[i] \in Pub!Cells
        /\ \A c \in Pub!Cells : \E i \in 1..Pub!N : CellOrder[i] = c
        /\ "tables" \notin Pub!Cells
             /\ Pub!ToSet(Pub!PublisherFiles) = Pub!Cells \cup {"tables", "pdf"}
    BY FilesAre
  <1>1. \A i \in 1..(Pub!N + 1) : Undone(d, old, i) = d[File(i)]
    BY <1>0 DEF Undone
  <1>2. d["tables"] \in Pub!Attempts /\ \A c \in Pub!Cells : d[c] \in 0..MaxAttempts
    BY <1>0 DEF Report
  <1>3. ASSUME NEW a \in Pub!Attempts, \A i \in 1..Pub!N : d[CellOrder[i]] = a[CellOrder[i]]
        PROVE  a = [c \in Pub!Cells |-> d[c]]
    BY <1>0, <1>3 DEF Pub!Attempts
  <1>4. ASSUME Undoable(d, old) PROVE Shows(d)
    <2>1. PICK a \in Pub!Attempts : /\ \A i \in 1..Pub!N : Undone(d, old, i) = a[CellOrder[i]]
                                    /\ Undone(d, old, Pub!N + 1) = a
      BY <1>4 DEF Undoable
    <2>2. d["tables"] = a /\ \A i \in 1..Pub!N : d[CellOrder[i]] = a[CellOrder[i]]
      BY <1>0, <1>1, <2>1
    <2> QED
      BY <1>3, <2>2 DEF Shows
  <1>5. ASSUME Shows(d) PROVE Undoable(d, old)
    <2>1. \A i \in 1..Pub!N : Undone(d, old, i) = d["tables"][CellOrder[i]]
      BY <1>0, <1>1, <1>5 DEF Shows
    <2>2. Undone(d, old, Pub!N + 1) = d["tables"]
      BY <1>0, <1>1
    <2> QED
      BY <1>2, <2>1, <2>2 DEF Undoable
  <1> QED
    BY <1>4, <1>5

\* The caches and tables of a report were installed from one assignment.
LEMMA InstalledShows ==
    ASSUME Pub!PublisherAssumption, NEW d, NEW a \in Pub!Attempts, NEW n \in Nat, n > Pub!N,
           ReportInstalled(d, a, n)
    PROVE  Shows(d)
  <1>0. /\ Pub!N \in Nat \ {0} /\ File(Pub!N + 1) = "tables" /\ "tables" \notin Pub!Cells
        /\ \A i \in 1..Pub!N : File(i) = CellOrder[i] /\ CellOrder[i] \in Pub!Cells
        /\ \A c \in Pub!Cells : \E i \in 1..Pub!N : CellOrder[i] = c
    BY FilesAre
  <1>1. \A i \in 1..(Pub!N + 1) : d[File(i)] = Pub!Content(a, File(i))
    BY <1>0 DEF ReportInstalled
  <1>2. d["tables"] = a
    BY <1>0, <1>1 DEF Pub!Content
  <1>3. \A i \in 1..Pub!N : i \in 1..(Pub!N + 1)
    BY <1>0
  <1>4. \A c \in Pub!Cells : d[c] = a[c]
    BY <1>0, <1>1, <1>3 DEF Pub!Content
  <1> QED
    BY <1>2, <1>4 DEF Shows, Pub!Attempts

----------------------------------------------------------------------------
(* What a step of a publisher or of a command has to keep                  *)

\* The lease is for one publisher: nothing is said of the others.
LEMMA ReportAlone ==
    ASSUME Pub!PublisherAssumption, ReportIInv, NEW p \in Publishers,
           cycle[p].phase # "down" \/ lease = None
    PROVE  \A q \in Publishers \ {p} :
              cycle[q].phase = "down" /\ writer # q /\ cycle[q].phase \notin Writing
  <1>1. \A q \in Publishers : /\ cycle[q].phase # "down" => lease = q
                              /\ writer = q <=> cycle[q].phase \in Writing
    BY DEF ReportIInv, Owners
  <1>2. None \notin Publishers
    BY DEF Pub!PublisherAssumption
  <1>3. "down" \notin Writing
    BY DEF Writing
  <1> QED
    BY <1>1, <1>2, <1>3

LEMMA TypesAre ==
    ASSUME Pub!PublisherAssumption, current' \in Pub!Attempts, Report(docs'),
           manifest' # None => manifest' \in [snapshot : Pub!Attempts, files : Pub!Attempts],
           writer' \in Publishers \cup Commands \cup {None}, lease' \in Publishers \cup {None},
           cycle' \in [Publishers -> Cycles], \A p \in Publishers : Len(cycle'[p].old) <= Pub!N + 2,
           cmd' \in [Commands -> Works], torn' \in BOOLEAN,
           between' \in [Publishers -> Pub!Attempts]
    PROVE  Types'
  <1>1. DOMAIN docs' = Pub!ToSet(Pub!PublisherFiles)
    BY DEF Report, OfFiles
  <1>2. \A f \in DOMAIN docs' :
           IF f \in Pub!Cells THEN docs'[f] \in 0..MaxAttempts ELSE docs'[f] \in Pub!Attempts
    BY <1>1 DEF Report
  <1>3. \A p \in Publishers :
          /\ cycle'[p].seen \in Pub!Attempts /\ cycle'[p].again \in Pub!Attempts
               /\ cycle'[p].base \in Pub!Attempts
          /\ cycle'[p].index \in 0..Pub!N + 3 /\ cycle'[p].tries \in 0..2
               /\ Len(cycle'[p].old) <= Pub!N + 2
    BY DEF Cycles
  <1>4. \A k \in Commands : cmd'[k].plan \in Pub!Attempts /\ cmd'[k].index \in 0..Pub!N + 1
    BY DEF Works
  <1>5. Pub!TypeOK'
    BY <1>1, <1>2, <1>3, <1>4 DEF Pub!TypeOK
  <1> QED
    BY <1>5 DEF Types

LEMMA PublisherIInv ==
    ASSUME Pub!PublisherAssumption, ReportIInv, NEW p \in Publishers, NEW s \in Cycles,
           Pub!Cycle(p, s),
           cmd' = cmd, current' = current, Len(s.old) <= Pub!N + 2,
           cycle[p].phase # "down" \/ lease = None,
           lease' \in {p, None}, s.phase # "down" => lease' = p,
           writer' = writer \/ {writer, writer'} \subseteq {p, None},
           writer' = p <=> s.phase \in Writing,
           UNCHANGED <<docs, torn>> \/ writer = p,
           Report(docs'), torn' \in BOOLEAN, between' \in [Publishers -> Pub!Attempts],
           manifest' # None => manifest' \in [snapshot : Pub!Attempts, files : Pub!Attempts],
           Captured', Pub!TablesShowCaches', Position(p)', Reads(p)', Installs(p)'
    PROVE  ReportIInv'
  <1>1. Types /\ Owners
    BY DEF ReportIInv
  <1>2. cycle' = [cycle EXCEPT ![p] = s] /\ cycle' \in [Publishers -> Cycles] /\ cycle'[p] = s
        /\ \A q \in Publishers \ {p} : cycle'[q] = cycle[q]
    BY <1>1 DEF Pub!Cycle, Types
  <1>3. \A q \in Publishers \ {p} :
           cycle'[q].phase = "down" /\ writer # q /\ cycle[q].phase \notin Writing
    BY <1>2, ReportAlone
  <1>4. None \notin Publishers \cup Commands /\ Publishers \cap Commands = {}
    BY DEF Pub!PublisherAssumption
  <1>5. Types'
    <2>1. current' \in Pub!Attempts /\ cmd' \in [Commands -> Works]
          /\ writer' \in Publishers \cup Commands \cup {None}
          /\ lease' \in Publishers \cup {None}
          /\ \A q \in Publishers : Len(cycle[q].old) <= Pub!N + 2
      BY <1>1 DEF Types, Pub!TypeOK
    <2>2. \A q \in Publishers : Len(cycle'[q].old) <= Pub!N + 2
      BY <1>2, <2>1
    <2> QED
      BY <1>2, <2>1, <2>2, TypesAre
  <1>6. Owners'
    <2>1. \A q \in Publishers \ {p} : writer' # q
      BY <1>3, <1>4
    <2>2. ASSUME NEW k \in Commands PROVE (writer' = k <=> cmd'[k].phase # "idle")
      BY <1>1, <1>4 DEF Owners
    <2>3. \A q \in Publishers \ {p} : cycle'[q].phase \notin Writing
      BY <1>2, <1>3
    <2> QED
      BY <1>2, <1>3, <2>1, <2>2, <2>3 DEF Owners
  <1>7. ASSUME NEW q \in Publishers \ {p} PROVE Position(q)' /\ Reads(q)' /\ Installs(q)'
    BY <1>3 DEF Position, Reads, Installs, Writing, Confirmed
  <1>8. ASSUME NEW k \in Commands PROVE WorkPosition(k)' /\ WorkInstalls(k)'
    <2>1. WorkPosition(k) /\ WorkInstalls(k)
      BY DEF ReportIInv
    <2>2. CASE UNCHANGED <<docs, torn>>
      BY <2>1, <2>2 DEF WorkPosition, WorkInstalls
    <2>3. CASE writer = p
      <3>1. cmd[k].phase = "idle"
        BY <1>1, <1>4, <2>3 DEF Owners
      <3> QED
        BY <2>1, <3>1 DEF WorkPosition, WorkInstalls
    <2> QED
      BY <2>2, <2>3
  <1> QED
    BY <1>5, <1>6, <1>7, <1>8 DEF ReportIInv

LEMMA CommandIInv ==
    ASSUME Pub!PublisherAssumption, ReportIInv, NEW k \in Commands, NEW s \in Works,
           Pub!Runs(k, s),
           UNCHANGED <<current, manifest, lease, cycle, between>>,
           {writer, writer'} \subseteq {k, None}, writer' = k <=> s.phase # "idle",
           Report(docs'), torn' \in BOOLEAN, Pub!TablesShowCaches',
           WorkPosition(k)', WorkInstalls(k)'
    PROVE  ReportIInv'
  <1>1. Types /\ Owners
    BY DEF ReportIInv
  <1>2. cmd' = [cmd EXCEPT ![k] = s] /\ cmd' \in [Commands -> Works] /\ cmd'[k] = s
        /\ \A j \in Commands \ {k} : cmd'[j] = cmd[j]
    BY <1>1 DEF Pub!Runs, Types
  <1>3. None \notin Publishers \cup Commands /\ Publishers \cap Commands = {}
    BY DEF Pub!PublisherAssumption
  <1>4. /\ \A p \in Publishers : writer # p /\ writer' # p /\ cycle[p].phase \notin Writing
        /\ \A j \in Commands \ {k} : writer' # j /\ cmd[j].phase = "idle"
    BY <1>1, <1>3 DEF Owners
  <1>5. Types'
    <2>1. /\ current' \in Pub!Attempts /\ cycle' \in [Publishers -> Cycles]
          /\ manifest' # None => manifest' \in [snapshot : Pub!Attempts, files : Pub!Attempts]
          /\ writer' \in Publishers \cup Commands \cup {None}
          /\ lease' \in Publishers \cup {None}
          /\ \A q \in Publishers : Len(cycle'[q].old) <= Pub!N + 2
          /\ between' \in [Publishers -> Pub!Attempts]
      BY <1>1 DEF Types, Pub!TypeOK
    <2> QED
      BY <1>2, <2>1, TypesAre
  <1>6. Owners'
    BY <1>1, <1>2, <1>4 DEF Owners
  <1>7. ASSUME NEW p \in Publishers PROVE Position(p)' /\ Reads(p)' /\ Installs(p)'
    <2>1. Position(p) /\ Reads(p) /\ cycle[p].phase \notin Writing /\ cycle' = cycle
      BY <1>4 DEF ReportIInv
    <2>2. Position(p)' /\ Reads(p)'
      BY <2>1 DEF Position, Reads, Newer
    <2>3. Installs(p)'
      BY <2>1 DEF Installs, Writing
    <2> QED
      BY <2>2, <2>3
  <1>8. ASSUME NEW j \in Commands \ {k} PROVE WorkPosition(j)' /\ WorkInstalls(j)'
    BY <1>2, <1>4 DEF WorkPosition, WorkInstalls
  <1>9. Captured'
    BY DEF ReportIInv, Captured
  <1> QED
    BY <1>5, <1>6, <1>7, <1>8, <1>9 DEF ReportIInv

LEMMA QuietIInv ==
    ASSUME Pub!PublisherAssumption, ReportIInv, NEW p \in Publishers, NEW s \in Cycles,
           Pub!Cycle(p, s),
           UNCHANGED <<current, docs, manifest, writer, cmd, torn>>, Len(s.old) <= Pub!N + 2,
           cycle[p].phase # "down" \/ lease = None,
           lease' \in {p, None}, s.phase # "down" => lease' = p,
           writer = p <=> s.phase \in Writing, between' \in [Publishers -> Pub!Attempts],
           Position(p)', Reads(p)', Installs(p)'
    PROVE  ReportIInv'
  <1>1. Types /\ Captured /\ Pub!TablesShowCaches
    BY DEF ReportIInv
  <1>2. /\ Report(docs') /\ torn' \in BOOLEAN
        /\ manifest' # None => manifest' \in [snapshot : Pub!Attempts, files : Pub!Attempts]
    BY <1>1 DEF Types, Pub!TypeOK
  <1>3. Captured' /\ Pub!TablesShowCaches'
    BY <1>1 DEF Captured, Pub!TablesShowCaches
  <1> QED
    BY <1>2, <1>3, PublisherIInv

LEMMA RecordsAre ==
    /\ \A r \in Cycles :
         /\ r = [phase |-> r.phase, seen |-> r.seen, again |-> r.again, base |-> r.base,
                 index |-> r.index, tries |-> r.tries, old |-> r.old]
         /\ r.phase \in {"down", "capture", "confirm", "ended"} \cup Confirmed \cup Writing
         /\ r.seen \in Pub!Attempts /\ r.again \in Pub!Attempts /\ r.base \in Pub!Attempts
         /\ r.index \in 0..(Pub!N + 3) /\ r.tries \in 0..2 /\ r.old \in Seq(Value)
    /\ \A r \in Works :
         /\ r = [phase |-> r.phase, plan |-> r.plan, index |-> r.index, old |-> r.old]
         /\ r.phase \in {"idle", "install", "rollback"} /\ r.plan \in Pub!Attempts
         /\ r.index \in 0..(Pub!N + 1) /\ r.old \in Seq(Value)
  BY DEF Cycles, Works

LEMMA WithIs ==
    ASSUME NEW a \in Pub!Attempts, NEW c \in Pub!Cells, NEW v \in 0..MaxAttempts,
           NEW b, b = Pub!With(a, c, v)
    PROVE  b \in Pub!Attempts /\ b[c] = v /\ \A x \in Pub!Cells : x # c => b[x] = a[x]
  BY DEF Pub!With, Pub!Attempts

LEMMA BlankIs == ASSUME Pub!PublisherAssumption PROVE Pub!Blank \in Pub!Attempts
  BY DEF Pub!PublisherAssumption, Pub!Blank, Pub!Attempts

LEMMA DownIs ==
    ASSUME Pub!PublisherAssumption
    PROVE  Pub!Down \in Cycles /\ Pub!Down.phase = "down" /\ Len(Pub!Down.old) = 0
  <1>1. 0 \in 0..(Pub!N + 3) /\ 0 \in 0..2 /\ << >> \in Seq(Value) /\ Len(<< >>) = 0
    BY FilesAre, EmptySeq
  <1> QED
    BY <1>1, BlankIs DEF Pub!Down, Pub!Fresh, Cycles

LEMMA BegunIs ==
    ASSUME Pub!PublisherAssumption
    PROVE  Pub!Begun \in Cycles /\ Pub!Begun.phase = "capture" /\ Pub!Begun.index = 1
             /\ Len(Pub!Begun.old) = 0
  <1>1. 1 \in 0..(Pub!N + 3) /\ 0 \in 0..2 /\ << >> \in Seq(Value) /\ Len(<< >>) = 0
    BY FilesAre, EmptySeq
  <1>2. Pub!Begun = [phase |-> "capture", seen |-> Pub!Blank, again |-> Pub!Blank,
          base |-> Pub!Blank,
                     index |-> 1, tries |-> 0, old |-> << >>]
    BY DEF Pub!Begun, Pub!Fresh
  <1> QED
    BY <1>1, <1>2, BlankIs DEF Cycles

----------------------------------------------------------------------------
(* One lemma per action of a publisher                                     *)

LEMMA OfPublisher ==
    ASSUME Pub!PublisherAssumption, ReportIInv, NEW p \in Publishers
    PROVE  /\ cycle[p] \in Cycles /\ Len(cycle[p].old) <= Pub!N + 2
           /\ cycle[p].phase # "down" => lease = p
           /\ writer = p <=> cycle[p].phase \in Writing
           /\ Position(p) /\ Reads(p) /\ Installs(p)
           /\ current \in Pub!Attempts /\ between \in [Publishers -> Pub!Attempts]
           /\ lease \in Publishers \cup {None} /\ None # p
           /\ DOMAIN cycle = Publishers
  BY DEF ReportIInv, Types, Pub!TypeOK, Owners, Pub!PublisherAssumption

\* A cycle begins.
LEMMA BeginIInv ==
    ASSUME Pub!PublisherAssumption, ReportIInv, NEW p \in Publishers,
           Pub!Start(p) \/ Pub!NextCycle(p)
    PROVE  ReportIInv'
  <1> DEFINE s == Pub!Begun
  <1>1. s \in Cycles /\ s.phase = "capture" /\ s.index = 1 /\ Len(s.old) = 0
    BY BegunIs
  <1>2. Pub!Cycle(p, s) /\ UNCHANGED <<current, docs, manifest, writer, cmd, torn, between>>
        /\ (cycle[p].phase # "down" \/ lease = None) /\ lease' = p
        /\ cycle[p].phase \in {"down", "ended"}
    BY OfPublisher DEF Pub!Start, Pub!NextCycle, Pub!budgets
  <1> HIDE DEF s
  <1>3. cycle'[p] = s
    BY <1>2, OfPublisher DEF Pub!Cycle
  <1>4. Pub!N \in Nat \ {0}
    BY FilesAre
  <1>5. Position(p)'
    BY <1>1, <1>3, <1>4 DEF Position, Writing
  <1>6. Reads(p)' /\ Installs(p)'
    BY <1>1, <1>3 DEF Reads, Installs, Writing, Confirmed
  <1>7. Len(s.old) <= Pub!N + 2 /\ ~(writer = p) /\ s.phase \notin Writing
    BY <1>1, <1>2, <1>4, OfPublisher DEF Writing
  <1>8. between' \in [Publishers -> Pub!Attempts]
    BY <1>2, OfPublisher
  <1> QED
    BY <1>1, <1>2, <1>5, <1>6, <1>7, <1>8, QuietIInv

\* The cell that a reading or the copy is at.
LEMMA CellAt ==
    ASSUME Pub!PublisherAssumption, ReportIInv, NEW p \in Publishers,
           cycle[p].phase \in {"capture", "confirm", "copy"}
    PROVE  /\ Pub!N \in Nat \ {0} /\ cycle[p].index \in 1..Pub!N
                /\ CellOrder[cycle[p].index] \in Pub!Cells
           /\ current[CellOrder[cycle[p].index]] \in 0..MaxAttempts
           /\ docs[CellOrder[cycle[p].index]] \in 0..MaxAttempts
           /\ \A i \in 1..Pub!N : /\ CellOrder[i] \in Pub!Cells
                                  /\ CellOrder[i] = CellOrder[cycle[p].index]
                                       => i = cycle[p].index
           /\ \A c \in Pub!Cells : \E i \in 1..Pub!N : CellOrder[i] = c
  <1>1. Position(p) /\ current \in Pub!Attempts /\ Report(docs)
    BY DEF ReportIInv, Types, Pub!TypeOK
  <1>2. cycle[p].index \in 1..Pub!N
    BY <1>1 DEF Position
  <1>3. CellOrder[cycle[p].index] \in Pub!Cells
          /\ CellOrder[cycle[p].index] \in Pub!ToSet(Pub!PublisherFiles)
    BY <1>2, FilesAre
  <1> QED
    BY <1>1, <1>2, <1>3, FilesAre DEF Pub!Attempts, Report

\* A pointer is an attempt, and attempts are numbers.
LEMMA AttemptsAre ==
    ASSUME Pub!PublisherAssumption, NEW f \in Pub!Attempts
    PROVE  \A c \in Pub!Cells : f[c] \in Nat
  BY DEF Pub!Attempts, Pub!PublisherAssumption

\* Pointers are never behind the manifest.
LEMMA CurrentIsNewer ==
    ASSUME Pub!PublisherAssumption, ReportIInv
    PROVE  /\ \A c \in Pub!Cells : current[c] \in Nat
           /\ manifest # None => \A c \in Pub!Cells : manifest.snapshot[c] <= current[c]
  BY DEF ReportIInv, Types, Pub!TypeOK, Captured, Pub!Attempts,
         Pub!PublisherAssumption

LEMMA ReadFirstIInv ==
    ASSUME Pub!PublisherAssumption, ReportIInv, NEW p \in Publishers, Pub!ReadFirst(p)
    PROVE  ReportIInv'
  <1> DEFINE r == cycle[p]
             c == CellOrder[r.index]
             seen == Pub!With(r.seen, c, current[c])
             s == [phase |-> IF r.index < Pub!N THEN "capture" ELSE "confirm",
                   seen |-> seen, again |-> r.again, base |-> r.base,
                   index |-> IF r.index < Pub!N THEN r.index + 1 ELSE 1,
                   tries |-> r.tries, old |-> r.old]
  <1>0. r.phase = "capture" /\ UNCHANGED <<current, docs, manifest, writer, lease, cmd, torn>>
    BY DEF Pub!ReadFirst, Pub!budgets
  <1>1. /\ Pub!N \in Nat \ {0} /\ r.index \in 1..Pub!N /\ c \in Pub!Cells
             /\ current[c] \in 0..MaxAttempts
        /\ \A i \in 1..Pub!N : CellOrder[i] \in Pub!Cells /\ (CellOrder[i] = c => i = r.index)
        /\ \A x \in Pub!Cells : \E i \in 1..Pub!N : CellOrder[i] = x
    BY <1>0, CellAt
  <1>2. /\ r \in Cycles /\ Len(r.old) <= Pub!N + 2 /\ lease = p /\ writer # p
        /\ Position(p) /\ Reads(p) /\ current \in Pub!Attempts
        /\ between \in [Publishers -> Pub!Attempts] /\ DOMAIN cycle = Publishers
    BY <1>0, OfPublisher DEF Writing
  <1>3. r = [phase |-> r.phase, seen |-> r.seen, again |-> r.again, base |-> r.base,
             index |-> r.index, tries |-> r.tries, old |-> r.old]
        /\ r.seen \in Pub!Attempts /\ r.again \in Pub!Attempts /\ r.base \in Pub!Attempts
        /\ r.tries \in 0..2 /\ r.old \in Seq(Value)
    BY <1>2, RecordsAre
  <1>4. seen \in Pub!Attempts /\ seen[c] = current[c] /\ \A x \in Pub!Cells : x # c
          => seen[x] = r.seen[x]
    BY <1>1, <1>3, WithIs
  <1>5. Pub!Cycle(p, s)
    <2> DEFINE q == [cycle[p] EXCEPT !.seen = Pub!With(@, c, current[c])]
    <2>1. q = [phase |-> r.phase, seen |-> seen, again |-> r.again, base |-> r.base,
               index |-> r.index, tries |-> r.tries, old |-> r.old]
      BY <1>3
    <2>2. Pub!Cycle(p, IF q.index < Pub!N THEN Pub!At(q, "capture", q.index + 1)
            ELSE Pub!At(q, "confirm", 1))
      BY DEF Pub!ReadFirst
    <2> HIDE DEF q, seen
    <2> QED
      BY <2>1, <2>2 DEF Pub!At
  <1>6. between' = IF r.index < Pub!N THEN between ELSE [between EXCEPT ![p] = current]
    BY <1>1 DEF Pub!ReadFirst
  <1> HIDE DEF seen
  <1>7. s \in Cycles
    BY <1>1, <1>3, <1>4 DEF Cycles
  <1>8. cycle'[p] = s
    BY <1>2, <1>5 DEF Pub!Cycle
  <1>9. between' \in [Publishers -> Pub!Attempts] /\ (r.index = Pub!N => between'[p] = current)
    BY <1>1, <1>2, <1>6
  <1>10. Position(p)' /\ Installs(p)'
    BY <1>1, <1>8 DEF Position, Installs, Writing
  <1>11. \A i \in 1..r.index : Newer(p, CellOrder[i])'
           /\ seen[CellOrder[i]] <= current[CellOrder[i]]
    <2> SUFFICES ASSUME NEW i \in 1..r.index
                 PROVE  /\ manifest # None
                             => manifest.snapshot[CellOrder[i]] <= seen[CellOrder[i]]
                        /\ seen[CellOrder[i]] <= current[CellOrder[i]]
      BY <1>0, <1>8 DEF Newer
    <2>1. CASE i = r.index
      BY <1>1, <1>4, <2>1, CurrentIsNewer
    <2>2. CASE i \in 1..(r.index - 1)
      <3>1. Newer(p, CellOrder[i]) /\ r.seen[CellOrder[i]] <= current[CellOrder[i]]
        BY <1>0, <1>2, <2>2 DEF Reads
      <3>2. CellOrder[i] # c /\ CellOrder[i] \in Pub!Cells
        BY <1>1, <2>2
      <3> QED
        BY <1>4, <3>1, <3>2 DEF Newer
    <2> QED
      BY <1>1, <2>1, <2>2
  <1>12. Reads(p)'
    <2>1. CASE r.index < Pub!N
      BY <1>0, <1>1, <1>8, <1>11, <2>1 DEF Reads, Confirmed
    <2>2. CASE r.index = Pub!N
      <3>1. s.phase = "confirm" /\ s.index = 1 /\ s.seen = seen
        BY <1>1, <2>2
      <3>2. \A x \in Pub!Cells : Newer(p, x)' /\ seen[x] <= current[x]
        BY <1>1, <1>11, <2>2
      <3>3. \A x \in Pub!Cells : current[x] <= current[x]
        BY CurrentIsNewer
      <3> QED
        BY <1>0, <1>8, <1>9, <2>2, <3>1, <3>2, <3>3 DEF Reads, Confirmed
    <2> QED
      BY <1>1, <2>1, <2>2
  <1>13. s.phase \notin Writing /\ Len(s.old) <= Pub!N + 2
    BY <1>2 DEF Writing
  <1> HIDE DEF s
  <1> QED
    BY <1>0, <1>2, <1>5, <1>7, <1>9, <1>10, <1>12, <1>13, QuietIInv

LEMMA ReadAgainIInv ==
    ASSUME Pub!PublisherAssumption, ReportIInv, NEW p \in Publishers, Pub!ReadAgain(p)
    PROVE  ReportIInv'
  <1> DEFINE r == cycle[p]
             c == CellOrder[r.index]
             again == Pub!With(r.again, c, current[c])
             phase == IF r.index < Pub!N THEN "confirm" ELSE IF again = r.seen THEN "copy"
                      ELSE IF r.tries = 2 THEN "ended" ELSE "capture"
             index == IF r.index < Pub!N THEN r.index + 1 ELSE IF again = r.seen THEN 1
                      ELSE IF r.tries = 2 THEN 0 ELSE 1
             tries == IF phase = "capture" THEN r.tries + 1 ELSE r.tries
             s == [phase |-> phase, seen |-> r.seen, again |-> again, base |-> r.base,
                   index |-> index, tries |-> tries, old |-> r.old]
  <1>0. r.phase = "confirm"
        /\ UNCHANGED <<current, docs, manifest, writer, lease, cmd, torn, between>>
    BY DEF Pub!ReadAgain, Pub!budgets
  <1>1. /\ Pub!N \in Nat \ {0} /\ r.index \in 1..Pub!N /\ c \in Pub!Cells
             /\ current[c] \in 0..MaxAttempts
        /\ \A i \in 1..Pub!N : CellOrder[i] \in Pub!Cells /\ (CellOrder[i] = c => i = r.index)
        /\ \A x \in Pub!Cells : \E i \in 1..Pub!N : CellOrder[i] = x
    BY <1>0, CellAt
  <1>2. /\ r \in Cycles /\ Len(r.old) <= Pub!N + 2 /\ lease = p /\ writer # p
        /\ Position(p) /\ Reads(p) /\ current \in Pub!Attempts
        /\ between \in [Publishers -> Pub!Attempts] /\ DOMAIN cycle = Publishers
    BY <1>0, OfPublisher DEF Writing
  <1>3. r = [phase |-> r.phase, seen |-> r.seen, again |-> r.again, base |-> r.base,
             index |-> r.index, tries |-> r.tries, old |-> r.old]
        /\ r.seen \in Pub!Attempts /\ r.again \in Pub!Attempts /\ r.base \in Pub!Attempts
        /\ r.tries \in 0..2 /\ r.old \in Seq(Value)
    BY <1>2, RecordsAre
  <1>4. again \in Pub!Attempts /\ again[c] = current[c]
        /\ \A x \in Pub!Cells : x # c => again[x] = r.again[x]
    BY <1>1, <1>3, WithIs
  <1>5. Pub!Cycle(p, s)
    <2> DEFINE q == [cycle[p] EXCEPT !.again = Pub!With(@, c, current[c])]
    <2>1. q = [phase |-> r.phase, seen |-> r.seen, again |-> again, base |-> r.base,
               index |-> r.index, tries |-> r.tries, old |-> r.old]
      BY <1>3
    <2>2. Pub!Cycle(p, IF q.index < Pub!N THEN Pub!At(q, "confirm", q.index + 1)
                       ELSE IF q.again = q.seen THEN Pub!At(q, "copy", 1)
                       ELSE IF q.tries = 2 THEN Pub!At(q, "ended", 0)
                       ELSE [Pub!At(q, "capture", 1) EXCEPT !.tries = @ + 1])
      BY DEF Pub!ReadAgain
    <2> HIDE DEF q, again
    <2>3. q.index = r.index /\ q.again = again /\ q.seen = r.seen /\ q.tries = r.tries
      BY <2>1
    <2>4. \A f, n : Pub!At(q, f, n) = [phase |-> f, seen |-> r.seen, again |-> again,
                                       base |-> r.base, index |-> n, tries |-> r.tries,
                                       old |-> r.old]
      BY <2>1 DEF Pub!At
    <2>5. [Pub!At(q, "capture", 1) EXCEPT !.tries = @ + 1]
            = [phase |-> "capture", seen |-> r.seen, again |-> again,
               base |-> r.base, index |-> 1, tries |-> r.tries + 1, old |-> r.old]
      BY <2>4
    <2> QED
      BY <2>2, <2>3, <2>4, <2>5
  <1> HIDE DEF again
  <1>6. phase \in {"confirm", "copy", "ended", "capture"} /\ index \in 0..(Pub!N + 3)
        /\ tries \in 0..2 /\ (phase \in {"capture", "confirm", "copy"} => index \in 1..Pub!N)
        /\ (phase = "capture" => index = 1)
        /\ (phase = "confirm" => index = r.index + 1 /\ r.index < Pub!N)
        /\ (phase = "copy" => r.index = Pub!N /\ again = r.seen)
    BY <1>1, <1>3
  <1> HIDE DEF phase, index, tries
  <1>7. s \in Cycles /\ s.phase = phase /\ s.index = index /\ s.seen = r.seen
        /\ s.again = again /\ s.old = r.old
    BY <1>3, <1>4, <1>6 DEF Cycles, Confirmed
  <1>8. cycle'[p] = s
    BY <1>2, <1>5 DEF Pub!Cycle
  <1> HIDE DEF s
  <1>9. s.phase \notin Writing
    BY <1>6, <1>7 DEF Writing
  <1>10. Position(p)' /\ Installs(p)'
    BY <1>6, <1>7, <1>8, <1>9 DEF Position, Installs, Writing
  <1>11. \A x \in Pub!Cells : /\ Newer(p, x) /\ Newer(p, x)'
                              /\ r.seen[x] <= between[p][x] /\ between[p][x] <= current[x]
    BY <1>0, <1>2, <1>7, <1>8 DEF Reads, Newer
  <1>12. \A i \in 1..r.index : between[p][CellOrder[i]] <= again[CellOrder[i]]
    <2> SUFFICES ASSUME NEW i \in 1..r.index
                 PROVE  between[p][CellOrder[i]] <= again[CellOrder[i]]
      OBVIOUS
    <2>1. CASE i = r.index
      BY <1>1, <1>4, <1>11, <2>1
    <2>2. CASE i \in 1..(r.index - 1)
      <3>1. between[p][CellOrder[i]] <= r.again[CellOrder[i]]
        BY <1>0, <1>2, <2>2 DEF Reads
      <3>2. CellOrder[i] # c /\ CellOrder[i] \in Pub!Cells
        BY <1>1, <2>2
      <3> QED
        BY <1>4, <3>1, <3>2
    <2> QED
      BY <1>1, <2>1, <2>2
  <1>13. ASSUME phase = "copy" PROVE r.seen = between[p]
                /\ \A x \in Pub!Cells : r.seen[x] <= current[x]
    <2>1. r.seen \in Pub!Attempts /\ between[p] \in Pub!Attempts /\ again = r.seen
            /\ r.index = Pub!N
      BY <1>2, <1>3, <1>6, <1>13
    <2>2. \A x \in Pub!Cells : r.seen[x] \in Nat /\ between[p][x] \in Nat
      BY <2>1, AttemptsAre
    <2>3. \A x \in Pub!Cells : between[p][x] <= r.seen[x]
      BY <1>1, <1>12, <2>1
    <2>4. \A x \in Pub!Cells : r.seen[x] = between[p][x]
      BY <1>11, <2>2, <2>3
    <2> QED
      BY <1>11, <2>1, <2>2, <2>4 DEF Pub!Attempts
  <1>14. Reads(p)'
    <2>1. CASE phase = "confirm"
      <3>1. /\ \A x \in Pub!Cells : /\ Newer(p, x)' /\ r.seen[x] <= between'[p][x]
                                     /\ between'[p][x] <= current'[x]
            /\ \A i \in 1..(index - 1) : between'[p][CellOrder[i]] <= again[CellOrder[i]]
        BY <1>0, <1>1, <1>6, <1>11, <1>12, <2>1
      <3>2. cycle'[p].phase = "confirm" /\ cycle'[p].seen = r.seen /\ cycle'[p].again = again
            /\ cycle'[p].index = index
        BY <1>7, <1>8, <2>1
      <3> QED
        BY <3>1, <3>2 DEF Reads, Confirmed
    <2>2. CASE phase = "copy"
      <3>1. r.seen = between'[p] /\ \A x \in Pub!Cells : Newer(p, x)' /\ r.seen[x] <= current'[x]
        BY <1>0, <1>11, <1>13, <2>2
      <3>2. cycle'[p].phase = "copy" /\ cycle'[p].seen = r.seen
        BY <1>7, <1>8, <2>2
      <3> QED
        BY <3>1, <3>2 DEF Reads
    <2>3. CASE phase = "capture"
      BY <1>6, <1>7, <1>8, <2>3 DEF Reads, Confirmed
    <2>4. CASE phase = "ended"
      BY <1>7, <1>8, <2>4 DEF Reads, Confirmed
    <2> QED
      BY <1>6, <2>1, <2>2, <2>3, <2>4
  <1>15. Len(s.old) <= Pub!N + 2 /\ between' \in [Publishers -> Pub!Attempts] /\ r.phase # "down"
    BY <1>0, <1>2, <1>7
  <1> QED
    BY <1>0, <1>2, <1>5, <1>7, <1>9, <1>10, <1>14, <1>15, QuietIInv

\* A confirmed snapshot stays one.
LEMMA ConfirmedStays ==
    ASSUME NEW p \in Publishers, Reads(p), UNCHANGED <<current, manifest, between>>,
           cycle[p].phase \in Confirmed, cycle'[p].seen = cycle[p].seen,
           cycle'[p].phase \notin {"capture", "confirm"}
    PROVE  Reads(p)'
  <1>1. cycle[p].seen = between[p]
        /\ \A c \in Pub!Cells : Newer(p, c) /\ cycle[p].seen[c] <= current[c]
    BY DEF Reads
  <1>2. cycle'[p].seen = between'[p]
        /\ \A c \in Pub!Cells : Newer(p, c)' /\ cycle'[p].seen[c] <= current'[c]
    BY <1>1 DEF Newer
  <1> QED
    BY <1>2 DEF Reads

LEMMA CopyIInv ==
    ASSUME Pub!PublisherAssumption, ReportIInv, NEW p \in Publishers, Pub!Copy(p)
    PROVE  ReportIInv'
  <1> DEFINE r == cycle[p]
             c == CellOrder[r.index]
             base == Pub!With(r.base, c, docs[c])
             phase == IF r.index < Pub!N THEN "copy" ELSE "build"
             index == IF r.index < Pub!N THEN r.index + 1 ELSE 0
             s == [phase |-> phase, seen |-> r.seen, again |-> r.again, base |-> base,
                   index |-> index, tries |-> r.tries, old |-> r.old]
  <1>0. r.phase = "copy"
        /\ UNCHANGED <<current, docs, manifest, writer, lease, cmd, torn, between>>
    BY DEF Pub!Copy, Pub!budgets
  <1>1. /\ Pub!N \in Nat \ {0} /\ r.index \in 1..Pub!N /\ c \in Pub!Cells
             /\ docs[c] \in 0..MaxAttempts
    BY <1>0, CellAt
  <1>2. /\ r \in Cycles /\ Len(r.old) <= Pub!N + 2 /\ lease = p /\ writer # p
        /\ Reads(p) /\ between \in [Publishers -> Pub!Attempts] /\ DOMAIN cycle = Publishers
    BY <1>0, OfPublisher DEF Writing
  <1>3. r = [phase |-> r.phase, seen |-> r.seen, again |-> r.again, base |-> r.base,
             index |-> r.index, tries |-> r.tries, old |-> r.old]
        /\ r.seen \in Pub!Attempts /\ r.again \in Pub!Attempts /\ r.base \in Pub!Attempts
        /\ r.tries \in 0..2 /\ r.old \in Seq(Value)
    BY <1>2, RecordsAre
  <1>4. base \in Pub!Attempts
    BY <1>1, <1>3, WithIs
  <1>5. Pub!Cycle(p, s)
    <2> DEFINE q == [cycle[p] EXCEPT !.base = Pub!With(@, c, docs[c])]
    <2>1. q = [phase |-> r.phase, seen |-> r.seen, again |-> r.again, base |-> base,
               index |-> r.index, tries |-> r.tries, old |-> r.old]
      BY <1>3
    <2>2. Pub!Cycle(p, IF q.index < Pub!N THEN Pub!At(q, "copy", q.index + 1)
            ELSE Pub!At(q, "build", 0))
      BY DEF Pub!Copy
    <2> HIDE DEF q, base
    <2> QED
      BY <2>1, <2>2 DEF Pub!At
  <1> HIDE DEF base
  <1>6. phase \in {"copy", "build"} /\ index \in 0..(Pub!N + 3) /\ (phase = "copy"
          => index \in 1..Pub!N)
    BY <1>1
  <1> HIDE DEF phase, index
  <1>7. s \in Cycles /\ s.phase = phase /\ s.index = index /\ s.seen = r.seen /\ s.old = r.old
    BY <1>3, <1>4, <1>6 DEF Cycles, Confirmed
  <1>8. cycle'[p] = s
    BY <1>2, <1>5 DEF Pub!Cycle
  <1> HIDE DEF s
  <1>9. s.phase \notin Writing
    BY <1>6, <1>7 DEF Writing
  <1>10. Position(p)' /\ Installs(p)'
    BY <1>6, <1>7, <1>8, <1>9 DEF Position, Installs, Writing
  <1>11. Reads(p)'
    <2>1. cycle[p].phase \in Confirmed /\ cycle'[p].phase \notin {"capture", "confirm"}
      BY <1>0, <1>6, <1>7, <1>8 DEF Confirmed
    <2> QED
      BY <1>0, <1>2, <1>7, <1>8, <2>1, ConfirmedStays
  <1>12. Len(s.old) <= Pub!N + 2 /\ between' \in [Publishers -> Pub!Attempts] /\ r.phase # "down"
    BY <1>0, <1>2, <1>7
  <1> QED
    BY <1>0, <1>2, <1>5, <1>7, <1>9, <1>10, <1>11, <1>12, QuietIInv

\* A cycle that goes to another phase is otherwise the same.
LEMMA PhaseIs ==
    ASSUME NEW r \in Cycles, NEW f,
           f \in {"down", "capture", "confirm", "ended"} \cup Confirmed \cup Writing,
           NEW s, s = [r EXCEPT !.phase = f]
    PROVE  s \in Cycles /\ s.phase = f /\ s.seen = r.seen /\ s.base = r.base
           /\ s.index = r.index /\ s.old = r.old
  <1>1. r = [phase |-> r.phase, seen |-> r.seen, again |-> r.again, base |-> r.base,
             index |-> r.index, tries |-> r.tries, old |-> r.old]
        /\ r.seen \in Pub!Attempts /\ r.again \in Pub!Attempts /\ r.base \in Pub!Attempts
        /\ r.index \in 0..(Pub!N + 3) /\ r.tries \in 0..2 /\ r.old \in Seq(Value)
    BY RecordsAre
  <1>2. s = [phase |-> f, seen |-> r.seen, again |-> r.again, base |-> r.base,
             index |-> r.index, tries |-> r.tries, old |-> r.old]
    BY <1>1
  <1>3. s \in Cycles
    BY <1>1, <1>2 DEF Cycles
  <1> QED
    BY <1>2, <1>3

\* Outside the lock a cycle ends, or fails and ends.
LEMMA BuildIInv ==
    ASSUME Pub!PublisherAssumption, ReportIInv, NEW p \in Publishers, Pub!Build(p)
    PROVE  ReportIInv'
  <1> DEFINE s == [cycle[p] EXCEPT !.phase = "lock"]
  <1>0. cycle[p].phase = "build" /\ Pub!Cycle(p, s)
        /\ UNCHANGED <<current, docs, manifest, writer, lease, cmd, torn, between>>
    BY DEF Pub!Build, Pub!budgets
  <1>1. /\ cycle[p] \in Cycles /\ Len(cycle[p].old) <= Pub!N + 2 /\ lease = p /\ writer # p
        /\ Reads(p) /\ between \in [Publishers -> Pub!Attempts] /\ DOMAIN cycle = Publishers
    BY <1>0, OfPublisher DEF Writing
  <1>2. s \in Cycles /\ s.phase = "lock" /\ s.seen = cycle[p].seen /\ s.old = cycle[p].old
    <2>1. "lock" \in {"down", "capture", "confirm", "ended"} \cup Confirmed \cup Writing
      BY DEF Confirmed
    <2> QED
      BY <1>1, <2>1, PhaseIs
  <1> HIDE DEF s
  <1>3. cycle'[p] = s
    BY <1>0, <1>1 DEF Pub!Cycle
  <1>4. Position(p)' /\ Installs(p)' /\ s.phase \notin Writing
    BY <1>2, <1>3 DEF Position, Installs, Writing
  <1>5. Reads(p)'
    BY <1>0, <1>1, <1>2, <1>3, ConfirmedStays DEF Confirmed
  <1>6. Len(s.old) <= Pub!N + 2 /\ between' \in [Publishers -> Pub!Attempts]
    BY <1>0, <1>1, <1>2
  <1> QED
    BY <1>0, <1>1, <1>2, <1>4, <1>5, <1>6, QuietIInv

LEMMA FaultIInv ==
    ASSUME Pub!PublisherAssumption, ReportIInv, NEW p \in Publishers, Pub!Fault(p)
    PROVE  ReportIInv'
  <1> DEFINE r == cycle[p]
             f == IF r.phase \in {"install", "manifest"} THEN "rollback" ELSE "ended"
             s == [cycle[p] EXCEPT !.phase = f]
  <1>0. /\ r.phase \in {"capture", "confirm", "copy", "build", "install", "manifest"}
        /\ Pub!Cycle(p, s) /\ UNCHANGED <<current, docs, manifest, writer, lease, cmd, torn,
             between>>
    BY DEF Pub!Fault
  <1>1. /\ r \in Cycles /\ Len(r.old) <= Pub!N + 2
        /\ lease = p /\ Position(p) /\ Installs(p)
        /\ writer = p <=> r.phase \in Writing
        /\ Reads(p) /\ between \in [Publishers -> Pub!Attempts] /\ DOMAIN cycle = Publishers
    BY <1>0, OfPublisher
  <1>2. s \in Cycles /\ s.phase = f /\ s.old = r.old
    <2>1. f \in {"down", "capture", "confirm", "ended"} \cup Confirmed \cup Writing
      BY DEF Writing
    <2> QED
      BY <1>1, <2>1, PhaseIs
  <1> HIDE DEF s
  <1>3. cycle'[p] = s
    BY <1>0, <1>1 DEF Pub!Cycle
  <1>4. Position(p)' /\ Installs(p)'
    BY <1>0, <1>1, <1>2, <1>3 DEF Position, Installs, Writing
  <1>5. Reads(p)'
    BY <1>2, <1>3 DEF Reads, Confirmed
  <1>6. writer = p <=> s.phase \in Writing
    BY <1>0, <1>1, <1>2 DEF Writing
  <1>7. Len(s.old) <= Pub!N + 2 /\ between' \in [Publishers -> Pub!Attempts] /\ r.phase # "down"
    BY <1>0, <1>1, <1>2
  <1> QED
    BY <1>0, <1>1, <1>2, <1>4, <1>5, <1>6, <1>7, QuietIInv

LEMMA StopIInv ==
    ASSUME Pub!PublisherAssumption, ReportIInv, NEW p \in Publishers, Pub!Stop(p)
    PROVE  ReportIInv'
  <1>0. /\ cycle[p].phase = "ended" /\ lease' = None /\ Pub!Cycle(p, Pub!Down)
        /\ UNCHANGED <<current, docs, manifest, writer, cmd, torn, between>>
    BY DEF Pub!Stop, Pub!budgets
  <1>1. writer # p /\ between \in [Publishers -> Pub!Attempts] /\ DOMAIN cycle = Publishers
    BY <1>0, OfPublisher DEF Writing
  <1>2. Pub!Down \in Cycles /\ Pub!Down.phase = "down" /\ Len(Pub!Down.old) <= Pub!N + 2
    BY DownIs, FilesAre
  <1>3. cycle'[p] = Pub!Down
    BY <1>0, <1>1 DEF Pub!Cycle
  <1>4. Position(p)' /\ Installs(p)' /\ Reads(p)' /\ Pub!Down.phase \notin Writing
    BY <1>2, <1>3 DEF Position, Installs, Reads, Writing, Confirmed
  <1>5. between' \in [Publishers -> Pub!Attempts]
    BY <1>0, <1>1
  <1> QED
    BY <1>0, <1>1, <1>2, <1>4, <1>5, QuietIInv

LEMMA MergedIs ==
    ASSUME NEW a \in Pub!Attempts, NEW b \in Pub!Attempts
    PROVE  /\ Pub!Merged(a, b) \in Pub!Attempts
           /\ \A c \in Pub!Cells : b[c] # 0 => Pub!Merged(a, b)[c] = b[c]
  BY DEF Pub!Merged, Pub!Attempts

LEMMA ContentIs ==
    ASSUME Pub!PublisherAssumption, NEW a \in Pub!Attempts, NEW i \in 1..(Pub!N + 2)
    PROVE  Pub!Content(a, File(i)) \in Entry(i)
  <1>1. Pub!N \in Nat /\ (i \in 1..Pub!N => File(i) \in Pub!Cells) /\ (i \notin 1..Pub!N
          => File(i) \notin Pub!Cells)
    BY FilesAre
  <1>2. CASE i \in 1..Pub!N
    BY <1>1, <1>2 DEF Pub!Content, Entry, Pub!Attempts
  <1>3. CASE i \notin 1..Pub!N
    BY <1>1, <1>3 DEF Pub!Content, Entry
  <1> QED
    BY <1>2, <1>3

LEMMA TakeWriterIInv ==
    ASSUME Pub!PublisherAssumption, ReportIInv, NEW p \in Publishers, Pub!TakeWriter(p)
    PROVE  ReportIInv'
  <1> DEFINE r == cycle[p]
             s == [phase |-> "install", seen |-> r.seen, again |-> r.again, base |-> r.base,
                   index |-> 1, tries |-> r.tries, old |-> << >>]
  <1>0. /\ r.phase = "lock" /\ writer = None /\ writer' = p
        /\ Pub!Cycle(p, [Pub!At(r, "install", 1) EXCEPT !.old = << >>])
        /\ UNCHANGED <<current, docs, manifest, lease, cmd, torn, between>>
    BY DEF Pub!TakeWriter, Pub!budgets
  <1>1. /\ r \in Cycles /\ lease = p /\ Reads(p)
        /\ between \in [Publishers -> Pub!Attempts] /\ DOMAIN cycle = Publishers
    BY <1>0, OfPublisher
  <1>2. Pub!N \in Nat /\ 1 \in 0..(Pub!N + 3) /\ 1 \in 1..(Pub!N + 2)
    BY FilesAre
  <1>3. << >> \in Seq(Value) /\ Len(<< >>) = 0
    BY EmptySeq
  <1>4. Pub!Cycle(p, s)
    BY <1>0 DEF Pub!At
  <1>5. s \in Cycles
    BY <1>1, <1>2, <1>3, RecordsAre DEF Cycles, Writing
  <1>6. s.phase = "install" /\ s.seen = r.seen /\ s.index = 1 /\ s.old = << >>
    OBVIOUS
  <1> HIDE DEF s
  <1>7. cycle'[p] = s
    BY <1>1, <1>4 DEF Pub!Cycle
  <1>8. Report(docs) /\ Pub!TablesShowCaches /\ Captured /\ torn \in BOOLEAN
        /\ (manifest # None => manifest \in [snapshot : Pub!Attempts, files : Pub!Attempts])
    BY DEF ReportIInv, Types, Pub!TypeOK
  <1>9. Captured'
    BY <1>0, <1>8 DEF Captured
  <1>10. Pub!TablesShowCaches'
    BY <1>0, OfPublisher DEF Pub!TablesShowCaches
  <1>11. Position(p)'
    BY <1>2, <1>3, <1>6, <1>7 DEF Position, Kept
  <1>12. Reads(p)'
    BY <1>0, <1>1, <1>6, <1>7, ConfirmedStays DEF Confirmed
  <1>13. Installs(p)'
    <2>1. ~torn => Undoable(docs, << >>)
      BY <1>0, <1>3, <1>8, NothingToUndo DEF Pub!TablesShowCaches, Shows
    <2>2. ReportInstalled(docs, Pub!Staged(p)', 0)
      BY DEF ReportInstalled
    <2> QED
      BY <1>0, <1>6, <1>7, <2>1, <2>2 DEF Installs
  <1>14. /\ Len(s.old) <= Pub!N + 2
         /\ between' \in [Publishers -> Pub!Attempts] /\ Report(docs')
         /\ torn' \in BOOLEAN /\ UNCHANGED <<docs, torn>> /\ r.phase # "down"
         /\ (manifest' # None => manifest' \in [snapshot : Pub!Attempts, files : Pub!Attempts])
         /\ s.phase \in Writing /\ lease' = p
    BY <1>0, <1>1, <1>2, <1>3, <1>6, <1>8 DEF Writing
  <1> QED
    BY <1>0, <1>4, <1>5, <1>9, <1>10, <1>11, <1>12, <1>13, <1>14, PublisherIInv

\* What a publisher that holds the lock knows.
LEMMA OfWriter ==
    ASSUME Pub!PublisherAssumption, ReportIInv, NEW p \in Publishers, cycle[p].phase \in Writing
    PROVE  /\ writer = p /\ lease = p /\ cycle[p].phase # "down" /\ None # p
           /\ cycle[p] \in Cycles /\ Len(cycle[p].old) <= Pub!N + 2
           /\ cycle[p].old \in Seq(Value)
           /\ Position(p) /\ Reads(p) /\ Installs(p) /\ Kept(cycle[p].old)
           /\ Pub!Staged(p) \in Pub!Attempts
           /\ between \in [Publishers -> Pub!Attempts] /\ DOMAIN cycle = Publishers
           /\ Report(docs) /\ Captured /\ torn \in BOOLEAN
           /\ manifest # None => manifest \in [snapshot : Pub!Attempts, files : Pub!Attempts]
  <1>1. "down" \notin Writing
    BY DEF Writing
  <1>2. cycle[p] \in Cycles
    BY OfPublisher
  <1>3. Pub!Staged(p) \in Pub!Attempts /\ cycle[p].old \in Seq(Value)
    BY <1>2, RecordsAre, MergedIs DEF Pub!Staged
  <1>4. Report(docs) /\ Captured /\ torn \in BOOLEAN
        /\ (manifest # None => manifest \in [snapshot : Pub!Attempts, files : Pub!Attempts])
    BY DEF ReportIInv, Types, Pub!TypeOK
  <1> QED
    BY <1>1, <1>2, <1>3, <1>4, OfPublisher DEF Position

Writes(i, a) == docs' = [docs EXCEPT ![File(i)] = Pub!Content(a, File(i))]

\* One file is replaced by what a report made from a holds in it.
LEMMA WrittenIs ==
    ASSUME Pub!PublisherAssumption, Report(docs), NEW i \in 1..(Pub!N + 2),
           NEW a \in Pub!Attempts,
           Writes(i, a)
    PROVE  /\ Report(docs') /\ docs'[File(i)] = Pub!Content(a, File(i))
           /\ \A f \in Pub!ToSet(Pub!PublisherFiles) : f # File(i) => docs'[f] = docs[f]
           /\ \A j \in 1..(Pub!N + 2) : j # i => docs'[File(j)] = docs[File(j)]
  <1> DEFINE v == Pub!Content(a, File(i))
  <1>1. docs' = [f \in Pub!ToSet(Pub!PublisherFiles) |-> IF f = File(i) THEN v ELSE docs[f]]
    BY DEF Report, OfFiles, Writes
  <1>2. File(i) \in Pub!ToSet(Pub!PublisherFiles)
    BY FilesAre
  <1>3. v \in Entry(i)
    BY ContentIs
  <1> HIDE DEF v
  <1>4. OfFiles(docs') /\ docs'[File(i)] = v
        /\ \A f \in Pub!ToSet(Pub!PublisherFiles) : f # File(i) => docs'[f] = docs[f]
    BY <1>1, <1>2 DEF OfFiles
  <1>5. docs'[File(i)] \in Entry(i)
    BY <1>3, <1>4
  <1>6. Report(docs') /\ \A j \in 1..(Pub!N + 2) : j # i => docs'[File(j)] = docs[File(j)]
    BY <1>4, <1>5, ReplacedIs
  <1> QED
    BY <1>4, <1>6 DEF v

LEMMA ReplaceIInv ==
    ASSUME Pub!PublisherAssumption, ReportIInv, NEW p \in Publishers, Pub!Replace(p)
    PROVE  ReportIInv'
  <1> DEFINE r == cycle[p]
             i == r.index
             new == Append(r.old, docs[File(i)])
             phase == IF i = Pub!N + 2 THEN "manifest" ELSE "install"
             s == [phase |-> phase, seen |-> r.seen, again |-> r.again, base |-> r.base,
                   index |-> i + 1, tries |-> r.tries, old |-> new]
  <1>0. /\ r.phase = "install"
             /\ docs' = [docs EXCEPT ![File(i)] = Pub!Content(Pub!Staged(p), File(i))]
        /\ UNCHANGED <<current, manifest, writer, lease, cmd, torn, between>>
    BY DEF Pub!Replace, File, Pub!budgets
  <1>1. /\ r.phase \in Writing /\ writer = p /\ lease = p /\ r.phase # "down" /\ None # p
        /\ r \in Cycles /\ r.old \in Seq(Value) /\ Position(p) /\ Reads(p) /\ Installs(p)
        /\ Kept(r.old) /\ Pub!Staged(p) \in Pub!Attempts
        /\ between \in [Publishers -> Pub!Attempts] /\ DOMAIN cycle = Publishers
        /\ Report(docs) /\ Captured /\ torn \in BOOLEAN
        /\ (manifest # None => manifest \in [snapshot : Pub!Attempts, files : Pub!Attempts])
    BY <1>0, OfWriter DEF Writing
  <1>2. Pub!N \in Nat /\ i \in 1..(Pub!N + 2) /\ Len(r.old) = i - 1
    BY <1>0, <1>1, FilesAre DEF Position
  <1>3. r = [phase |-> r.phase, seen |-> r.seen, again |-> r.again, base |-> r.base,
             index |-> r.index, tries |-> r.tries, old |-> r.old]
        /\ r.seen \in Pub!Attempts /\ r.again \in Pub!Attempts /\ r.base \in Pub!Attempts
        /\ r.tries \in 0..2
    BY <1>1, RecordsAre
  <1>5. /\ Report(docs') /\ docs'[File(i)] = Pub!Content(Pub!Staged(p), File(i))
        /\ \A f \in Pub!ToSet(Pub!PublisherFiles) : f # File(i) => docs'[f] = docs[f]
        /\ \A j \in 1..(Pub!N + 2) : j # i => docs'[File(j)] = docs[File(j)]
    BY <1>0, <1>1, <1>2, WrittenIs DEF Writes
  <1>7. /\ new \in Seq(Value) /\ Len(new) = i /\ Kept(new)
        /\ Undoable(docs, r.old) => Undoable(docs', new)
    <2>1. docs[File(i)] \in Value
      BY <1>1, <1>2, EntriesAre
    <2>2. /\ new \in Seq(Value) /\ Len(new) = i
          /\ \A j \in 1..(i - 1) : new[j] = r.old[j]
          /\ new[i] = docs[File(i)]
      BY <1>1, <1>2, <2>1, AppendProperties
    <2>3. \A f \in Pub!ToSet(Pub!PublisherFiles) : f # File(i) => docs'[f] = docs[f]
      BY <1>5
    <2> HIDE DEF new
    <2> QED
      BY <1>1, <1>2, <2>2, <2>3, KeptIsUndoable
  <1>8. Pub!Cycle(p, s)
    <2> DEFINE q == [cycle[p] EXCEPT !.old = Append(@, docs[File(i)])]
    <2>1. q = [phase |-> r.phase, seen |-> r.seen, again |-> r.again, base |-> r.base,
               index |-> r.index, tries |-> r.tries, old |-> new]
      BY <1>3
    <2>2. Pub!Cycle(p, Pub!At(q, IF q.index = Pub!N + 2 THEN "manifest"
            ELSE "install", q.index + 1))
      BY DEF Pub!Replace, File
    <2> HIDE DEF q, new
    <2> QED
      BY <2>1, <2>2 DEF Pub!At
  <1> HIDE DEF new
  <1>9. s \in Cycles /\ s.phase = phase /\ s.seen = r.seen /\ s.base = r.base
        /\ s.index = i + 1 /\ s.old = new
    BY <1>2, <1>3, <1>7 DEF Cycles, Writing
  <1>10. phase \in {"install", "manifest"} /\ (phase = "install" => i + 1 \in 1..(Pub!N + 2))
         /\ (phase = "manifest" => i + 1 = Pub!N + 3)
    BY <1>2
  <1> HIDE DEF phase
  <1>11. cycle'[p] = s
    BY <1>1, <1>8 DEF Pub!Cycle
  <1> HIDE DEF s
  <1>12. Position(p)'
    BY <1>2, <1>7, <1>9, <1>10, <1>11 DEF Position, Writing
  <1>13. Reads(p)'
    <2>1. cycle[p].phase \in Confirmed /\ cycle'[p].phase \notin {"capture", "confirm"}
      BY <1>0, <1>9, <1>10, <1>11 DEF Confirmed
    <2> QED
      BY <1>0, <1>1, <1>9, <1>11, <2>1, ConfirmedStays
  <1>14. Installs(p)'
    <2>1. Pub!Staged(p)' = Pub!Staged(p)
      BY <1>9, <1>11 DEF Pub!Staged, Pub!Merged
    <2>2. ReportInstalled(docs, Pub!Staged(p), i - 1) /\ (~torn => Undoable(docs, r.old))
      BY <1>0, <1>1 DEF Installs
    <2>3. ReportInstalled(docs', Pub!Staged(p), i)
      BY <1>2, <1>5, <2>2 DEF ReportInstalled
    <2>4. cycle'[p].index - 1 = i
      BY <1>2, <1>9, <1>11
    <2> QED
      BY <1>0, <1>7, <1>9, <1>11, <2>1, <2>2, <2>3, <2>4 DEF Installs
  <1>15. Captured' /\ Pub!TablesShowCaches'
    BY <1>0, <1>1 DEF Captured, Pub!TablesShowCaches
  <1>16. /\ Len(s.old) <= Pub!N + 2 /\ between' \in [Publishers -> Pub!Attempts]
         /\ torn' \in BOOLEAN /\ s.phase \in Writing /\ lease' = p /\ writer' = p
         /\ (manifest' # None => manifest' \in [snapshot : Pub!Attempts, files : Pub!Attempts])
    BY <1>0, <1>1, <1>2, <1>7, <1>9, <1>10 DEF Writing
  <1> QED
    BY <1>0, <1>1, <1>5, <1>8, <1>9, <1>12, <1>13, <1>14, <1>15, <1>16, PublisherIInv

LEMMA ReplaceUnsyncedIInv ==
    ASSUME Pub!PublisherAssumption, ReportIInv, NEW p \in Publishers, Pub!ReplaceUnsynced(p)
    PROVE  ReportIInv'
  <1> DEFINE r == cycle[p]
             i == r.index
             s == [cycle[p] EXCEPT !.phase = "rollback"]
  <1>0. /\ r.phase = "install"
             /\ docs' = [docs EXCEPT ![File(i)] = Pub!Content(Pub!Staged(p), File(i))]
        /\ torn' = TRUE /\ Pub!Cycle(p, s)
        /\ UNCHANGED <<current, manifest, writer, lease, cmd, between>>
    BY DEF Pub!ReplaceUnsynced, File
  <1>1. /\ r.phase \in Writing /\ writer = p /\ lease = p /\ r.phase # "down" /\ None # p
        /\ r \in Cycles /\ Len(r.old) <= Pub!N + 2 /\ Position(p) /\ Kept(r.old)
        /\ Pub!Staged(p) \in Pub!Attempts
        /\ between \in [Publishers -> Pub!Attempts] /\ DOMAIN cycle = Publishers
        /\ Report(docs) /\ Captured /\ torn \in BOOLEAN
        /\ (manifest # None => manifest \in [snapshot : Pub!Attempts, files : Pub!Attempts])
    BY <1>0, OfWriter DEF Writing
  <1>2. i \in 1..(Pub!N + 2)
    BY <1>0, <1>1 DEF Position
  <1>3. Report(docs')
    BY <1>0, <1>1, <1>2, WrittenIs DEF Writes
  <1>4. s \in Cycles /\ s.phase = "rollback" /\ s.old = r.old
    BY <1>1, PhaseIs DEF Writing
  <1> HIDE DEF s
  <1>5. cycle'[p] = s
    BY <1>0, <1>1 DEF Pub!Cycle
  <1>6. Position(p)' /\ Reads(p)' /\ Installs(p)' /\ s.phase \in Writing
    BY <1>0, <1>1, <1>4, <1>5 DEF Position, Reads, Installs, Confirmed, Writing
  <1>7. Captured' /\ Pub!TablesShowCaches'
    BY <1>0, <1>1 DEF Captured, Pub!TablesShowCaches
  <1>8. /\ Len(s.old) <= Pub!N + 2 /\ between' \in [Publishers -> Pub!Attempts]
        /\ torn' \in BOOLEAN /\ lease' = p /\ writer' = p
        /\ (manifest' # None => manifest' \in [snapshot : Pub!Attempts, files : Pub!Attempts])
    BY <1>0, <1>1, <1>4
  <1> QED
    BY <1>0, <1>1, <1>3, <1>4, <1>6, <1>7, <1>8, PublisherIInv

\* The snapshot of a publisher that has installed everything.
LEMMA SnapshotIs ==
    ASSUME Pub!PublisherAssumption, ReportIInv, NEW p \in Publishers, cycle[p].phase = "manifest",
           manifest' = Pub!Snapshot(p), UNCHANGED current
    PROVE  /\ manifest' \in [snapshot : Pub!Attempts, files : Pub!Attempts] /\ Captured'
           /\ manifest'.snapshot = cycle[p].seen
  <1>1. cycle[p] \in Cycles /\ Pub!Staged(p) \in Pub!Attempts /\ Reads(p)
    BY OfWriter DEF Writing
  <1>2. cycle[p].seen \in Pub!Attempts /\ cycle[p].base \in Pub!Attempts
    BY <1>1, RecordsAre
  <1>3. manifest'.snapshot = cycle[p].seen /\ manifest'.files = Pub!Staged(p)
        /\ manifest' \in [snapshot : Pub!Attempts, files : Pub!Attempts]
    BY <1>1, <1>2 DEF Pub!Snapshot
  <1>4. \A c \in Pub!Cells : cycle[p].seen[c] <= current[c]
    BY <1>1 DEF Reads, Confirmed
  <1>5. \A c \in Pub!Cells : cycle[p].seen[c] # 0 => Pub!Staged(p)[c] = cycle[p].seen[c]
    BY <1>2, MergedIs DEF Pub!Staged
  <1>6. Captured'
    BY <1>3, <1>4, <1>5 DEF Captured
  <1> QED
    BY <1>3, <1>6

LEMMA WriteManifestIInv ==
    ASSUME Pub!PublisherAssumption, ReportIInv, NEW p \in Publishers, Pub!WriteManifest(p)
    PROVE  ReportIInv'
  <1> DEFINE r == cycle[p]
             s == [cycle[p] EXCEPT !.phase = "ended"]
  <1>0. /\ r.phase = "manifest" /\ manifest' = Pub!Snapshot(p)
        /\ torn' = FALSE /\ writer' = None
        /\ Pub!Cycle(p, s) /\ UNCHANGED <<current, docs, lease, cmd, between>>
    BY DEF Pub!WriteManifest, Pub!budgets
  <1>1. /\ r.phase \in Writing /\ writer = p /\ lease = p /\ r.phase # "down" /\ None # p
        /\ r \in Cycles /\ Len(r.old) <= Pub!N + 2 /\ Position(p) /\ Installs(p)
        /\ Pub!Staged(p) \in Pub!Attempts
        /\ between \in [Publishers -> Pub!Attempts]
        /\ DOMAIN cycle = Publishers /\ Report(docs)
    BY <1>0, OfWriter DEF Writing
  <1>2. manifest' \in [snapshot : Pub!Attempts, files : Pub!Attempts] /\ Captured'
    BY <1>0, SnapshotIs
  <1>3. Pub!TablesShowCaches'
    <2>1. Pub!N \in Nat /\ ReportInstalled(docs, Pub!Staged(p), Pub!N + 2)
      BY <1>0, <1>1, FilesAre DEF Position, Installs
    <2>2. Shows(docs)
      BY <1>1, <2>1, InstalledShows
    <2> QED
      BY <1>0, <2>2 DEF Pub!TablesShowCaches, Shows
  <1>4. s \in Cycles /\ s.phase = "ended" /\ s.old = r.old
    BY <1>1, PhaseIs
  <1> HIDE DEF s
  <1>5. cycle'[p] = s
    BY <1>0, <1>1 DEF Pub!Cycle
  <1>6. Position(p)' /\ Reads(p)' /\ Installs(p)' /\ s.phase \notin Writing
    BY <1>4, <1>5 DEF Position, Reads, Installs, Confirmed, Writing
  <1>7. /\ Len(s.old) <= Pub!N + 2
        /\ between' \in [Publishers -> Pub!Attempts] /\ Report(docs')
        /\ torn' \in BOOLEAN /\ lease' = p
    BY <1>0, <1>1, <1>4
  <1> QED
    BY <1>0, <1>1, <1>2, <1>3, <1>4, <1>6, <1>7, PublisherIInv

LEMMA ManifestUnsyncedIInv ==
    ASSUME Pub!PublisherAssumption, ReportIInv, NEW p \in Publishers, Pub!ManifestUnsynced(p)
    PROVE  ReportIInv'
  <1> DEFINE r == cycle[p]
             s == [cycle[p] EXCEPT !.phase = "rollback"]
  <1>0. /\ r.phase = "manifest" /\ manifest' = Pub!Snapshot(p) /\ Pub!Cycle(p, s)
        /\ UNCHANGED <<current, docs, writer, lease, cmd, torn, between>>
    BY DEF Pub!ManifestUnsynced
  <1>1. /\ r.phase \in Writing /\ writer = p /\ lease = p /\ r.phase # "down" /\ None # p
        /\ r \in Cycles /\ Len(r.old) <= Pub!N + 2
        /\ Position(p) /\ Installs(p) /\ Kept(r.old)
        /\ between \in [Publishers -> Pub!Attempts] /\ DOMAIN cycle = Publishers
        /\ Report(docs) /\ torn \in BOOLEAN
    BY <1>0, OfWriter DEF Writing
  <1>2. manifest' \in [snapshot : Pub!Attempts, files : Pub!Attempts] /\ Captured'
    BY <1>0, SnapshotIs
  <1>4. s \in Cycles /\ s.phase = "rollback" /\ s.old = r.old
    BY <1>1, PhaseIs DEF Writing
  <1> HIDE DEF s
  <1>5. cycle'[p] = s
    BY <1>0, <1>1 DEF Pub!Cycle
  <1>6. Position(p)' /\ Reads(p)' /\ Installs(p)' /\ s.phase \in Writing
    BY <1>0, <1>1, <1>4, <1>5 DEF Position, Reads, Installs, Confirmed, Writing
  <1>7. /\ Len(s.old) <= Pub!N + 2
        /\ between' \in [Publishers -> Pub!Attempts] /\ Report(docs')
        /\ torn' \in BOOLEAN /\ lease' = p /\ writer' = p /\ Pub!TablesShowCaches'
    BY <1>0, <1>1, <1>4 DEF Pub!TablesShowCaches
  <1> QED
    BY <1>0, <1>1, <1>2, <1>4, <1>6, <1>7, PublisherIInv

\* An undone replacement leaves what is left undoable; when nothing is left, the
\* tables show the caches again.
LEMMA RollBackIInv ==
    ASSUME Pub!PublisherAssumption, ReportIInv, NEW p \in Publishers, Pub!RollBack(p)
    PROVE  ReportIInv'
  <1> DEFINE r == cycle[p]
             n == Len(r.old)
  <1>0. r.phase = "rollback" /\ UNCHANGED <<current, manifest, lease, cmd, torn, between>>
    BY DEF Pub!RollBack, Pub!budgets
  <1>1. /\ r.phase \in Writing /\ writer = p /\ lease = p /\ r.phase # "down" /\ None # p
        /\ r \in Cycles /\ n <= Pub!N + 2
        /\ r.old \in Seq(Value) /\ Position(p) /\ Installs(p)
        /\ Kept(r.old)
        /\ between \in [Publishers -> Pub!Attempts] /\ DOMAIN cycle = Publishers
        /\ Report(docs) /\ Captured /\ torn \in BOOLEAN
        /\ (manifest # None => manifest \in [snapshot : Pub!Attempts, files : Pub!Attempts])
    BY <1>0, OfWriter DEF Writing
  <1>2. n \in Nat /\ Pub!N \in Nat /\ (n # 0 => n \in 1..(Pub!N + 2))
    BY <1>1, LenProperties, FilesAre
  <1>3. /\ Captured' /\ between' \in [Publishers -> Pub!Attempts] /\ torn' \in BOOLEAN
             /\ lease' = p
        /\ (manifest' # None => manifest' \in [snapshot : Pub!Attempts, files : Pub!Attempts])
    BY <1>0, <1>1 DEF Captured
  <1>4. ~torn => Undoable(docs, r.old)
    BY <1>1 DEF Installs
  <1>5. CASE n = 0
    <2> DEFINE s == [cycle[p] EXCEPT !.phase = "ended"]
    <2>1. writer' = None /\ Pub!Cycle(p, s) /\ UNCHANGED docs
      BY <1>5 DEF Pub!RollBack
    <2>2. Pub!TablesShowCaches'
      BY <1>0, <1>1, <1>4, <1>5, <2>1, NothingToUndo DEF Pub!TablesShowCaches, Shows
    <2>3. s \in Cycles /\ s.phase = "ended" /\ s.old = r.old
      BY <1>1, PhaseIs
    <2> HIDE DEF s
    <2>4. cycle'[p] = s
      BY <1>1, <2>1 DEF Pub!Cycle
    <2>5. Position(p)' /\ Reads(p)' /\ Installs(p)' /\ s.phase \notin Writing
      BY <2>3, <2>4 DEF Position, Reads, Installs, Confirmed, Writing
    <2>6. Len(s.old) <= Pub!N + 2 /\ Report(docs')
      BY <1>1, <2>1, <2>3
    <2> QED
      BY <1>0, <1>1, <1>3, <2>1, <2>2, <2>3, <2>5, <2>6, PublisherIInv
  <1>6. CASE n # 0
    <2> DEFINE new == Pub!Front(r.old)
               s == [cycle[p] EXCEPT !.old = Pub!Front(@)]
    <2>1. /\ docs' = [docs EXCEPT ![File(n)] = r.old[n]] /\ writer' = writer /\ Pub!Cycle(p, s)
      BY <1>6 DEF Pub!RollBack, File
    <2>2. /\ OfFiles(docs') /\ docs'[File(n)] = r.old[n]
          /\ \A f \in Pub!ToSet(Pub!PublisherFiles) : f # File(n) => docs'[f] = docs[f]
      <3>1. docs' = [f \in Pub!ToSet(Pub!PublisherFiles) |-> IF f = File(n) THEN r.old[n]
              ELSE docs[f]]
        BY <1>1, <2>1 DEF Report, OfFiles
      <3>2. File(n) \in Pub!ToSet(Pub!PublisherFiles)
        BY <1>2, <1>6, FilesAre
      <3> QED
        BY <3>1, <3>2 DEF OfFiles
    <2>3. /\ Report(docs') /\ new \in Seq(Value) /\ Len(new) = n - 1 /\ Kept(new)
          /\ Undoable(docs, r.old) => Undoable(docs', new)
      BY <1>1, <1>2, <1>6, <2>2, RestoredIsUndoable
    <2>4. s = [phase |-> r.phase, seen |-> r.seen, again |-> r.again, base |-> r.base,
               index |-> r.index, tries |-> r.tries, old |-> new]
      BY <1>1, RecordsAre
    <2> HIDE DEF new
    <2>5. s \in Cycles /\ s.phase = "rollback" /\ s.old = new
      BY <1>0, <1>1, <2>3, <2>4, RecordsAre DEF Cycles
    <2> HIDE DEF s
    <2>6. cycle'[p] = s
      BY <1>1, <2>1 DEF Pub!Cycle
    <2>7. Position(p)' /\ Reads(p)' /\ Installs(p)' /\ s.phase \in Writing
      BY <1>0, <1>2, <1>4, <1>6, <2>3, <2>5, <2>6
      DEF Position, Reads, Installs, Confirmed, Writing
    <2>8. Len(s.old) <= Pub!N + 2 /\ writer' = p /\ Pub!TablesShowCaches'
      BY <1>1, <1>2, <1>6, <2>1, <2>3, <2>5 DEF Pub!TablesShowCaches
    <2> QED
      BY <1>0, <1>1, <1>3, <2>1, <2>3, <2>5, <2>7, <2>8, PublisherIInv
  <1> QED
    BY <1>5, <1>6

\* A publisher that dies with everything installed leaves tables that show the caches.
LEMMA DieIInv ==
    ASSUME Pub!PublisherAssumption, ReportIInv, NEW p \in Publishers, Pub!Die(p)
    PROVE  ReportIInv'
  <1> DEFINE r == cycle[p]
  <1>0. /\ r.phase # "down" /\ Pub!Cycle(p, Pub!Down)
        /\ torn' = (torn \/ r.phase \in {"install", "rollback"})
        /\ lease' = (IF lease = p THEN None ELSE lease)
        /\ writer' = (IF writer = p THEN None ELSE writer)
        /\ UNCHANGED <<current, docs, manifest, cmd, between>>
    BY DEF Pub!Die
  <1>1. /\ lease = p /\ None # p /\ Position(p) /\ Installs(p)
        /\ writer = p <=> r.phase \in Writing
        /\ between \in [Publishers -> Pub!Attempts] /\ DOMAIN cycle = Publishers
    BY <1>0, OfPublisher
  <1>2. /\ Report(docs) /\ Captured /\ Pub!TablesShowCaches /\ torn \in BOOLEAN
        /\ manifest # None => manifest \in [snapshot : Pub!Attempts, files : Pub!Attempts]
    BY DEF ReportIInv, Types, Pub!TypeOK
  <1>8. /\ r.phase \in {"install", "rollback"} => torn' = TRUE
        /\ r.phase \notin {"install", "rollback"} => torn' = torn
    <2>1. CASE r.phase \in {"install", "rollback"}
      BY <1>0, <2>1
    <2>2. CASE r.phase \notin {"install", "rollback"}
      <3>1. torn' = (torn \/ FALSE)
        BY <1>0, <2>2
      <3> QED
        BY <1>2, <2>2, <3>1
    <2> QED
      BY <2>1, <2>2
  <1>3. Pub!Down \in Cycles /\ Pub!Down.phase = "down" /\ Len(Pub!Down.old) <= Pub!N + 2
    BY DownIs, FilesAre
  <1>4. cycle'[p] = Pub!Down
    BY <1>0, <1>1 DEF Pub!Cycle
  <1>5. Position(p)' /\ Installs(p)' /\ Reads(p)' /\ Pub!Down.phase \notin Writing
    BY <1>3, <1>4 DEF Position, Installs, Reads, Writing, Confirmed
  <1>6. Pub!TablesShowCaches'
    <2>1. CASE writer # p
      BY <1>0, <1>1, <1>2, <1>8, <2>1 DEF Pub!TablesShowCaches, Writing
    <2>2. CASE writer = p /\ r.phase # "manifest"
      BY <1>1, <1>8, <2>2 DEF Pub!TablesShowCaches, Writing
    <2>3. CASE writer = p /\ r.phase = "manifest"
      <3>1. Pub!N \in Nat /\ ReportInstalled(docs, Pub!Staged(p), Pub!N + 2)
              /\ Pub!Staged(p) \in Pub!Attempts
        BY <1>1, <2>3, FilesAre, OfWriter DEF Position, Installs, Writing
      <3>2. Shows(docs)
        BY <3>1, InstalledShows
      <3> QED
        BY <1>0, <3>2 DEF Pub!TablesShowCaches, Shows
    <2> QED
      BY <2>1, <2>2, <2>3
  <1>7. /\ lease' = None /\ writer' # p
             /\ (writer' = writer \/ {writer, writer'} \subseteq {p, None})
        /\ Captured' /\ between' \in [Publishers -> Pub!Attempts] /\ Report(docs')
        /\ torn' \in BOOLEAN /\ (UNCHANGED <<docs, torn>> \/ writer = p)
        /\ (manifest' # None => manifest' \in [snapshot : Pub!Attempts, files : Pub!Attempts])
    <2>1. lease' = None /\ writer' # p
            /\ (writer' = writer \/ {writer, writer'} \subseteq {p, None})
      BY <1>0, <1>1
    <2>2. torn' \in BOOLEAN /\ (UNCHANGED <<docs, torn>> \/ writer = p)
      BY <1>0, <1>1, <1>2, <1>8 DEF Writing
    <2> QED
      BY <1>0, <1>1, <1>2, <2>1, <2>2 DEF Captured
  <1> QED
    BY <1>0, <1>3, <1>5, <1>6, <1>7, PublisherIInv

----------------------------------------------------------------------------
(* render, reset and the workers                                           *)

LEMMA OfCommand ==
    ASSUME Pub!PublisherAssumption, ReportIInv, NEW k \in Commands
    PROVE  /\ cmd[k] \in Works /\ k # None /\ DOMAIN cmd = Commands
           /\ writer = k <=> cmd[k].phase # "idle"
           /\ WorkPosition(k) /\ WorkInstalls(k)
           /\ Report(docs) /\ Pub!TablesShowCaches /\ torn \in BOOLEAN
           /\ current \in Pub!Attempts /\ Pub!N \in Nat
           /\ \A i \in 1..(Pub!N + 1) : Pub!CommandFiles[i] = File(i) /\ i \in 1..(Pub!N + 2)
  <1>1. \A i \in 1..(Pub!N + 1) : Pub!CommandFiles[i] = File(i) /\ i \in 1..(Pub!N + 2)
    <2>1. \A i \in 1..(Pub!N + 1) : i \in 1..Pub!N \/ i = Pub!N + 1
      BY FilesAre
    <2> QED
      BY <2>1, FilesAre
  <1>2. Pub!N \in Nat /\ k # None
    BY FilesAre DEF Pub!PublisherAssumption
  <1> QED
    BY <1>1, <1>2 DEF ReportIInv, Types, Pub!TypeOK, Owners

LEMMA WaitingIs ==
    ASSUME Pub!PublisherAssumption
    PROVE  Pub!Waiting \in Works /\ Pub!Waiting.phase = "idle"
  <1>1. Pub!Blank \in Pub!Attempts
    BY DEF Pub!Blank, Pub!Attempts, Pub!PublisherAssumption
  <1>2. 0 \in 0..(Pub!N + 1) /\ << >> \in Seq(Value)
    BY FilesAre, EmptySeq
  <1> QED
    BY <1>1, <1>2 DEF Pub!Waiting, Works

LEMMA CommandStartsIInv ==
    ASSUME Pub!PublisherAssumption, ReportIInv, NEW k \in Commands, NEW reset \in BOOLEAN,
           Pub!Command(k, reset)
    PROVE  ReportIInv'
  <1> DEFINE plan == IF reset THEN Pub!Blank ELSE Pub!Merged(docs, current)
             s == [phase |-> "install", index |-> 1, old |-> << >>, plan |-> plan]
  <1>0. /\ cmd[k].phase = "idle" /\ writer = None /\ writer' = k /\ Pub!Runs(k, s)
        /\ UNCHANGED <<current, docs, manifest, lease, cycle, torn, between>>
    BY DEF Pub!Command
  <1>1. /\ k # None /\ DOMAIN cmd = Commands /\ Report(docs) /\ Pub!TablesShowCaches
        /\ torn \in BOOLEAN /\ current \in Pub!Attempts /\ Pub!N \in Nat
    BY OfCommand
  <1>2. plan \in Pub!Attempts
    <2>1. Pub!Blank \in Pub!Attempts
      BY DEF Pub!Blank, Pub!Attempts, Pub!PublisherAssumption
    <2>2. \A c \in Pub!Cells : docs[c] \in 0..MaxAttempts
      BY <1>1, FilesAre DEF Report
    <2>3. Pub!Merged(docs, current) \in Pub!Attempts
      BY <1>1, <2>2 DEF Pub!Merged, Pub!Attempts
    <2> QED
      BY <2>1, <2>3
  <1> HIDE DEF plan
  <1>3. << >> \in Seq(Value) /\ Len(<< >>) = 0
    BY EmptySeq
  <1>4. s \in Works /\ s.phase = "install" /\ s.index = 1 /\ s.old = << >> /\ s.plan = plan
    BY <1>1, <1>2, <1>3 DEF Works
  <1> HIDE DEF s
  <1>5. cmd'[k] = s
    BY <1>0, <1>1 DEF Pub!Runs
  <1>6. WorkPosition(k)'
    BY <1>1, <1>3, <1>4, <1>5 DEF WorkPosition, Kept
  <1>7. WorkInstalls(k)'
    <2>1. ~torn => Undoable(docs, << >>)
      BY <1>0, <1>1, <1>3, NothingToUndo DEF Pub!TablesShowCaches, Shows
    <2>2. ReportInstalled(docs, cmd'[k].plan, 0)
      BY DEF ReportInstalled
    <2> QED
      BY <1>0, <1>4, <1>5, <2>1, <2>2 DEF WorkInstalls
  <1>8. /\ Pub!TablesShowCaches' /\ Report(docs') /\ torn' \in BOOLEAN
        /\ {writer, writer'} \subseteq {k, None} /\ (writer' = k <=> s.phase # "idle")
    BY <1>0, <1>1, <1>4 DEF Pub!TablesShowCaches
  <1> QED
    BY <1>0, <1>4, <1>6, <1>7, <1>8, CommandIInv

LEMMA CommandReplaceIInv ==
    ASSUME Pub!PublisherAssumption, ReportIInv, NEW k \in Commands, Pub!CommandReplace(k)
    PROVE  ReportIInv'
  <1> DEFINE r == cmd[k]
             i == r.index
             new == Append(r.old, docs[File(i)])
  <1>1. /\ r \in Works /\ k # None /\ DOMAIN cmd = Commands /\ writer = k
        /\ WorkPosition(k) /\ WorkInstalls(k) /\ Report(docs)
        /\ torn \in BOOLEAN /\ Pub!N \in Nat
    BY OfCommand DEF Pub!CommandReplace
  <1>2. /\ i \in 1..(Pub!N + 1) /\ i \in 1..(Pub!N + 2) /\ Pub!CommandFiles[i] = File(i)
        /\ Len(r.old) = i - 1 /\ Kept(r.old)
        /\ r.plan \in Pub!Attempts /\ r.old \in Seq(Value)
    BY <1>1, OfCommand, RecordsAre DEF WorkPosition, Pub!CommandReplace
  <1>3. /\ r.phase = "install" /\ Writes(i, r.plan)
        /\ UNCHANGED <<current, manifest, lease, cycle, between>>
    BY <1>2 DEF Pub!CommandReplace, Pub!budgets, Writes
  <1>4. /\ Report(docs') /\ docs'[File(i)] = Pub!Content(r.plan, File(i))
        /\ \A f \in Pub!ToSet(Pub!PublisherFiles) : f # File(i) => docs'[f] = docs[f]
        /\ \A j \in 1..(Pub!N + 2) : j # i => docs'[File(j)] = docs[File(j)]
    BY <1>1, <1>2, <1>3, WrittenIs
  <1>5. ReportInstalled(docs', r.plan, i)
    <2>1. ReportInstalled(docs, r.plan, i - 1)
      BY <1>1, <1>3 DEF WorkInstalls
    <2> QED
      BY <1>1, <1>2, <1>4, <2>1 DEF ReportInstalled
  <1>6. CASE i = Pub!N + 1
    <2>1. Pub!Runs(k, Pub!Waiting) /\ writer' = None /\ torn' = FALSE
      BY <1>1, <1>6 DEF Pub!CommandReplace
    <2>2. Pub!Waiting \in Works /\ Pub!Waiting.phase = "idle" /\ cmd'[k] = Pub!Waiting
      BY <1>1, <2>1, WaitingIs DEF Pub!Runs
    <2>3. Pub!TablesShowCaches'
      BY <1>1, <1>2, <1>5, <1>6, InstalledShows DEF Pub!TablesShowCaches, Shows
    <2>4. WorkPosition(k)' /\ WorkInstalls(k)'
      BY <2>2 DEF WorkPosition, WorkInstalls
    <2> QED
      BY <1>1, <1>3, <1>4, <2>1, <2>2, <2>3, <2>4, CommandIInv
  <1>7. CASE i # Pub!N + 1
    <2> DEFINE s == [phase |-> "install", plan |-> r.plan, index |-> i + 1, old |-> new]
    <2>1. Pub!Runs(k, s) /\ UNCHANGED <<writer, torn>>
      BY <1>1, <1>2, <1>7 DEF Pub!CommandReplace
    <2>2. docs[File(i)] \in Value
      BY <1>1, <1>2, EntriesAre
    <2>3. /\ new \in Seq(Value) /\ Len(new) = i
          /\ \A j \in 1..(i - 1) : new[j] = r.old[j]
          /\ new[i] = docs[File(i)]
      BY <1>1, <1>2, <2>2, AppendProperties
    <2> HIDE DEF new
    <2>4. Kept(new) /\ (Undoable(docs, r.old) => Undoable(docs', new))
      <3>1. \A f \in Pub!ToSet(Pub!PublisherFiles) : f # File(i) => docs'[f] = docs[f]
        BY <1>4
      <3> QED
        BY <1>1, <1>2, <2>3, <3>1, KeptIsUndoable
    <2>5. s \in Works /\ s.phase = "install" /\ s.index = i + 1 /\ s.old = new /\ s.plan = r.plan
      BY <1>1, <1>2, <1>7, <2>3 DEF Works
    <2> HIDE DEF s
    <2>6. cmd'[k] = s
      BY <1>1, <2>1 DEF Pub!Runs
    <2>7. WorkPosition(k)'
      BY <1>1, <1>2, <1>7, <2>3, <2>4, <2>5, <2>6 DEF WorkPosition
    <2>8. WorkInstalls(k)'
      <3>1. ~torn => Undoable(docs, r.old)
        BY <1>1, <1>3 DEF WorkInstalls
      <3>2. cmd'[k].index - 1 = i /\ cmd'[k].plan = r.plan /\ cmd'[k].old = new
        BY <1>1, <1>2, <2>5, <2>6
      <3> QED
        BY <1>5, <2>1, <2>4, <3>1, <3>2 DEF WorkInstalls
    <2>9. /\ Pub!TablesShowCaches' /\ torn' \in BOOLEAN
          /\ {writer, writer'} \subseteq {k, None} /\ (writer' = k <=> s.phase # "idle")
      BY <1>1, <2>1, <2>5 DEF Pub!TablesShowCaches
    <2> QED
      BY <1>3, <1>4, <2>1, <2>5, <2>7, <2>8, <2>9, CommandIInv
  <1> QED
    BY <1>6, <1>7

LEMMA CommandFaultIInv ==
    ASSUME Pub!PublisherAssumption, ReportIInv, NEW k \in Commands, Pub!CommandFault(k)
    PROVE  ReportIInv'
  <1> DEFINE r == cmd[k]
             s == [cmd[k] EXCEPT !.phase = "rollback"]
  <1>0. /\ r.phase = "install" /\ Pub!Runs(k, s)
        /\ UNCHANGED <<current, docs, manifest, writer, lease, cycle, torn, between>>
    BY DEF Pub!CommandFault
  <1>1. /\ r \in Works /\ k # None /\ DOMAIN cmd = Commands /\ writer = k
        /\ WorkPosition(k) /\ WorkInstalls(k) /\ Report(docs)
        /\ torn \in BOOLEAN /\ Pub!N \in Nat
    BY <1>0, OfCommand
  <1>2. s \in Works /\ s.phase = "rollback" /\ s.old = r.old
    BY <1>1, RecordsAre DEF Works
  <1> HIDE DEF s
  <1>3. cmd'[k] = s
    BY <1>0, <1>1 DEF Pub!Runs
  <1>4. WorkPosition(k)' /\ WorkInstalls(k)'
    BY <1>0, <1>1, <1>2, <1>3 DEF WorkPosition, WorkInstalls
  <1>5. /\ Pub!TablesShowCaches' /\ Report(docs') /\ torn' \in BOOLEAN
        /\ {writer, writer'} \subseteq {k, None} /\ (writer' = k <=> s.phase # "idle")
    BY <1>0, <1>1, <1>2 DEF Pub!TablesShowCaches
  <1> QED
    BY <1>0, <1>2, <1>4, <1>5, CommandIInv

LEMMA CommandRollBackIInv ==
    ASSUME Pub!PublisherAssumption, ReportIInv, NEW k \in Commands, Pub!CommandRollBack(k)
    PROVE  ReportIInv'
  <1> DEFINE r == cmd[k]
             n == Len(r.old)
  <1>0. r.phase = "rollback" /\ UNCHANGED <<current, manifest, lease, cycle, torn, between>>
    BY DEF Pub!CommandRollBack, Pub!budgets
  <1>1. /\ r \in Works /\ k # None /\ DOMAIN cmd = Commands /\ writer = k
        /\ WorkPosition(k) /\ WorkInstalls(k) /\ Report(docs)
        /\ torn \in BOOLEAN /\ Pub!N \in Nat
    BY <1>0, OfCommand
  <1>2. r.old \in Seq(Value) /\ n \in Nat /\ n <= Pub!N + 1 /\ Kept(r.old)
    BY <1>0, <1>1, RecordsAre, LenProperties DEF WorkPosition
  <1>3. n # 0 => n \in 1..(Pub!N + 2) /\ Pub!CommandFiles[n] = File(n)
    BY <1>1, <1>2, OfCommand
  <1>4. ~torn => Undoable(docs, r.old)
    BY <1>0, <1>1 DEF WorkInstalls
  <1>5. CASE n = 0
    <2>1. Pub!Runs(k, Pub!Waiting) /\ writer' = None /\ UNCHANGED docs
      BY <1>5 DEF Pub!CommandRollBack
    <2>2. Pub!Waiting \in Works /\ Pub!Waiting.phase = "idle" /\ cmd'[k] = Pub!Waiting
      BY <1>1, <2>1, WaitingIs DEF Pub!Runs
    <2>3. Pub!TablesShowCaches'
      BY <1>0, <1>1, <1>2, <1>4, <1>5, <2>1, NothingToUndo
        DEF Pub!TablesShowCaches, Shows
    <2>4. WorkPosition(k)' /\ WorkInstalls(k)'
      BY <2>2 DEF WorkPosition, WorkInstalls
    <2>5. Report(docs') /\ torn' \in BOOLEAN /\ {writer, writer'} \subseteq {k, None}
      BY <1>0, <1>1, <2>1
    <2> QED
      BY <1>0, <1>1, <2>1, <2>2, <2>3, <2>4, <2>5, CommandIInv
  <1>6. CASE n # 0
    <2> DEFINE new == Pub!Front(r.old)
               s == [cmd[k] EXCEPT !.old = Pub!Front(@)]
    <2>1. docs' = [docs EXCEPT ![File(n)] = r.old[n]] /\ writer' = writer /\ Pub!Runs(k, s)
      BY <1>3, <1>6 DEF Pub!CommandRollBack
    <2>2. /\ OfFiles(docs') /\ docs'[File(n)] = r.old[n]
          /\ \A f \in Pub!ToSet(Pub!PublisherFiles) : f # File(n) => docs'[f] = docs[f]
      <3>1. docs' = [f \in Pub!ToSet(Pub!PublisherFiles) |-> IF f = File(n) THEN r.old[n]
              ELSE docs[f]]
        BY <1>1, <2>1 DEF Report, OfFiles
      <3>2. File(n) \in Pub!ToSet(Pub!PublisherFiles)
        BY <1>3, <1>6, FilesAre
      <3> QED
        BY <3>1, <3>2 DEF OfFiles
    <2>3. /\ Report(docs') /\ new \in Seq(Value) /\ Len(new) = n - 1 /\ Kept(new)
          /\ Undoable(docs, r.old) => Undoable(docs', new)
      BY <1>1, <1>2, <1>3, <1>6, <2>2, RestoredIsUndoable
    <2>4. s = [phase |-> r.phase, plan |-> r.plan, index |-> r.index, old |-> new]
      BY <1>1, RecordsAre
    <2> HIDE DEF new
    <2>5. s \in Works /\ s.phase = "rollback" /\ s.old = new
      BY <1>0, <1>1, <2>3, <2>4, RecordsAre DEF Works
    <2> HIDE DEF s
    <2>6. cmd'[k] = s
      BY <1>1, <2>1 DEF Pub!Runs
    <2>7. WorkPosition(k)' /\ WorkInstalls(k)'
      BY <1>0, <1>1, <1>2, <1>4, <1>6, <2>3, <2>5, <2>6 DEF WorkPosition, WorkInstalls
    <2>8. /\ Pub!TablesShowCaches' /\ torn' \in BOOLEAN
          /\ {writer, writer'} \subseteq {k, None} /\ (writer' = k <=> s.phase # "idle")
      BY <1>0, <1>1, <2>1, <2>5 DEF Pub!TablesShowCaches
    <2> QED
      BY <1>0, <2>1, <2>3, <2>5, <2>7, <2>8, CommandIInv
  <1> QED
    BY <1>5, <1>6

LEMMA CommandDiesIInv ==
    ASSUME Pub!PublisherAssumption, ReportIInv, NEW k \in Commands, Pub!CommandDies(k)
    PROVE  ReportIInv'
  <1>0. /\ cmd[k].phase # "idle" /\ torn' = TRUE /\ Pub!Runs(k, Pub!Waiting)
        /\ writer' = (IF writer = k THEN None ELSE writer)
        /\ UNCHANGED <<current, docs, manifest, lease, cycle, between>>
    BY DEF Pub!CommandDies
  <1>1. k # None /\ DOMAIN cmd = Commands /\ writer = k /\ Report(docs)
    BY <1>0, OfCommand
  <1>2. Pub!Waiting \in Works /\ Pub!Waiting.phase = "idle" /\ cmd'[k] = Pub!Waiting
    BY <1>0, <1>1, WaitingIs DEF Pub!Runs
  <1>3. WorkPosition(k)' /\ WorkInstalls(k)'
    BY <1>2 DEF WorkPosition, WorkInstalls
  <1>4. /\ Pub!TablesShowCaches' /\ Report(docs') /\ torn' \in BOOLEAN
        /\ {writer, writer'} \subseteq {k, None} /\ (writer' = k <=> Pub!Waiting.phase # "idle")
    BY <1>0, <1>1, <1>2 DEF Pub!TablesShowCaches
  <1> QED
    BY <1>0, <1>2, <1>3, <1>4, CommandIInv

\* A new attempt is above everything that was read or published.
LEMMA MeasureIInv ==
    ASSUME Pub!PublisherAssumption, ReportIInv, NEW c \in Pub!Cells, Pub!Measure(c)
    PROVE  ReportIInv'
  <1>0. /\ current[c] < MaxAttempts /\ current' = [current EXCEPT ![c] = @ + 1]
        /\ UNCHANGED <<docs, manifest, writer, lease, cycle, cmd, torn, between>>
    BY DEF Pub!Measure, Pub!budgets
  <1>1. /\ Types /\ Owners /\ Captured /\ Pub!TablesShowCaches
        /\ \A p \in Publishers : Position(p) /\ Reads(p) /\ Installs(p)
        /\ \A k \in Commands : WorkPosition(k) /\ WorkInstalls(k)
    BY DEF ReportIInv
  <1>2. current \in Pub!Attempts /\ MaxAttempts \in Nat
    BY <1>1 DEF Types, Pub!TypeOK, Pub!PublisherAssumption
  <1>3. current' \in Pub!Attempts /\ \A x \in Pub!Cells : current[x] <= current'[x]
    BY <1>0, <1>2 DEF Pub!Attempts
  <1>4. Types'
    <2>1. /\ Report(docs') /\ cycle' \in [Publishers -> Cycles]
          /\ cmd' \in [Commands -> Works]
          /\ manifest' # None => manifest' \in [snapshot : Pub!Attempts, files : Pub!Attempts]
          /\ writer' \in Publishers \cup Commands \cup {None}
          /\ lease' \in Publishers \cup {None}
          /\ \A q \in Publishers : Len(cycle'[q].old) <= Pub!N + 2
          /\ between' \in [Publishers -> Pub!Attempts] /\ torn' \in BOOLEAN
      BY <1>0, <1>1 DEF Types, Pub!TypeOK
    <2> QED
      BY <1>3, <2>1, TypesAre
  <1>5. Owners' /\ Pub!TablesShowCaches'
    BY <1>0, <1>1 DEF Owners, Pub!TablesShowCaches
  <1>6. \A x \in Pub!Cells : current[x] \in Nat /\ current'[x] \in Nat
    BY <1>2, <1>3 DEF Pub!Attempts
  <1>7. Captured'
    <2>1. ASSUME manifest # None, NEW x \in Pub!Cells
          PROVE  manifest.snapshot[x] <= current'[x]
      <3>1. manifest.snapshot[x] \in Nat /\ manifest.snapshot[x] <= current[x]
        BY <1>1, <2>1 DEF Types, Pub!TypeOK, Pub!Attempts, Captured
      <3> QED
        BY <1>3, <1>6, <3>1
    <2> QED
      BY <1>0, <1>1, <2>1 DEF Captured
  <1>8. ASSUME NEW p \in Publishers PROVE Position(p)' /\ Reads(p)' /\ Installs(p)'
    <2>1. /\ cycle[p].seen \in Pub!Attempts /\ between[p] \in Pub!Attempts
          /\ Position(p) /\ Reads(p) /\ Installs(p)
      BY <1>1, RecordsAre DEF Types
    <2>2. \A x \in Pub!Cells : cycle[p].seen[x] \in Nat /\ between[p][x] \in Nat
      BY <2>1 DEF Pub!Attempts
    <2>3. /\ \A x \in Pub!Cells : cycle[p].seen[x] <= current[x]
               => cycle[p].seen[x] <= current'[x]
          /\ \A x \in Pub!Cells : between[p][x] <= current[x] => between[p][x] <= current'[x]
      BY <1>3, <1>6, <2>2
    <2>4. cycle[p].phase = "capture"
            => \A i \in 1..(cycle[p].index - 1) : CellOrder[i] \in Pub!Cells
      <3>1. ASSUME cycle[p].phase = "capture", NEW i \in 1..(cycle[p].index - 1)
            PROVE  CellOrder[i] \in Pub!Cells
        <4>1. cycle[p].index \in 1..Pub!N /\ Pub!N \in Nat
          BY <2>1, <3>1, FilesAre DEF Position
        <4>2. i \in 1..Pub!N
          BY <4>1
        <4> QED
          BY <4>2, FilesAre
      <3> QED
        BY <3>1
    <2>5. Reads(p)'
      BY <1>0, <2>1, <2>3, <2>4 DEF Reads, Newer
    <2>6. Position(p)' /\ Installs(p)'
      BY <1>0, <2>1 DEF Position, Installs, Pub!Staged, Pub!Merged
    <2> QED
      BY <2>5, <2>6
  <1>9. \A k \in Commands : WorkPosition(k)' /\ WorkInstalls(k)'
    BY <1>0, <1>1 DEF WorkPosition, WorkInstalls
  <1> QED
    BY <1>4, <1>5, <1>7, <1>8, <1>9 DEF ReportIInv

----------------------------------------------------------------------------
(* The initial state and every step                                        *)

LEMMA ReportInitIInv ==
    ASSUME Pub!PublisherAssumption, Pub!Init PROVE ReportIInv
  <1>1. /\ Pub!Blank \in Pub!Attempts /\ Pub!N \in Nat
        /\ \A p \in Publishers : p # None
        /\ \A k \in Commands : k # None
    BY FilesAre DEF Pub!Blank, Pub!Attempts, Pub!PublisherAssumption
  <1>2. /\ current = Pub!Blank
             /\ docs = [f \in Pub!ToSet(Pub!PublisherFiles) |-> Pub!Content(Pub!Blank, f)]
        /\ manifest = None /\ writer = None /\ lease = None /\ torn = FALSE
        /\ cycle = [p \in Publishers |-> Pub!Down] /\ cmd = [k \in Commands |-> Pub!Waiting]
        /\ between = [p \in Publishers |-> Pub!Blank]
    BY DEF Pub!Init
  <1>3. Pub!Down \in Cycles /\ Pub!Down.phase = "down" /\ Len(Pub!Down.old) = 0
    BY DownIs
  <1>4. Pub!Waiting \in Works /\ Pub!Waiting.phase = "idle"
    BY WaitingIs
  <1>5. Report(docs)
    <2>1. \A f : Pub!Content(Pub!Blank, f) \in IF f \in Pub!Cells THEN 0..MaxAttempts
            ELSE Pub!Attempts
      BY <1>1 DEF Pub!Content, Pub!Attempts
    <2> QED
      BY <1>2, <2>1 DEF Report, OfFiles
  <1>6. Pub!TablesShowCaches
    <2>1. docs["tables"] = Pub!Blank /\ \A c \in Pub!Cells : docs[c] = Pub!Blank[c]
      BY <1>2, FilesAre DEF Pub!Content
    <2>2. Pub!Blank = [c \in Pub!Cells |-> docs[c]]
      BY <2>1 DEF Pub!Blank
    <2> QED
      BY <2>1, <2>2 DEF Pub!TablesShowCaches
  <1>7. /\ \A p \in Publishers : cycle[p] = Pub!Down
        /\ \A k \in Commands : cmd[k] = Pub!Waiting
        /\ cycle \in [Publishers -> Cycles] /\ cmd \in [Commands -> Works]
        /\ between \in [Publishers -> Pub!Attempts]
    BY <1>1, <1>2, <1>3, <1>4
  <1>8. Pub!TypeOK
    <2>1. /\ \A p \in Publishers :
                /\ cycle[p].seen \in Pub!Attempts /\ cycle[p].again \in Pub!Attempts
                     /\ cycle[p].base \in Pub!Attempts
                /\ cycle[p].index \in 0..Pub!N + 3 /\ cycle[p].tries \in 0..2
                     /\ Len(cycle[p].old) <= Pub!N + 2
          /\ \A k \in Commands : cmd[k].plan \in Pub!Attempts /\ cmd[k].index \in 0..Pub!N + 1
      BY <1>1, <1>3, <1>4, <1>7, RecordsAre
    <2>2. /\ DOMAIN docs = Pub!ToSet(Pub!PublisherFiles)
          /\ \A f \in DOMAIN docs :
                IF f \in Pub!Cells THEN docs[f] \in 0..MaxAttempts ELSE docs[f] \in Pub!Attempts
      BY <1>2, <1>5 DEF Report
    <2> QED
      BY <1>1, <1>2, <2>1, <2>2 DEF Pub!TypeOK
  <1>9. /\ \A p \in Publishers : Position(p) /\ Reads(p) /\ Installs(p)
        /\ \A k \in Commands : WorkPosition(k) /\ WorkInstalls(k)
    BY <1>3, <1>4, <1>7
    DEF Position, Reads, Installs, WorkPosition, WorkInstalls, Writing, Confirmed
  <1>10. Owners
    BY <1>1, <1>2, <1>3, <1>4, <1>7 DEF Owners, Writing
  <1> QED
    BY <1>2, <1>5, <1>6, <1>7, <1>8, <1>9, <1>10 DEF ReportIInv, Types, Captured

LEMMA StutterIInv ==
    ASSUME Pub!PublisherAssumption, ReportIInv, UNCHANGED Pub!vars PROVE ReportIInv'
  <1>1. UNCHANGED <<current, docs, manifest, writer, lease, cycle, cmd, torn, between>>
    BY DEF Pub!vars
  <1>2. Types' /\ Owners' /\ Captured' /\ Pub!TablesShowCaches'
    BY <1>1
      DEF ReportIInv, Types, Pub!TypeOK, Report, OfFiles, Owners, Captured,
          Pub!TablesShowCaches
  <1>3. \A p \in Publishers : Position(p)' /\ Reads(p)' /\ Installs(p)'
    BY <1>1 DEF ReportIInv, Position, Reads, Newer, Installs, Pub!Staged, Pub!Merged
  <1>4. \A k \in Commands : WorkPosition(k)' /\ WorkInstalls(k)'
    BY <1>1 DEF ReportIInv, WorkPosition, WorkInstalls
  <1> QED
    BY <1>2, <1>3, <1>4 DEF ReportIInv

LEMMA NextIInv ==
    ASSUME Pub!PublisherAssumption, ReportIInv, [Pub!Next]_Pub!vars PROVE ReportIInv'
  <1>1. ASSUME NEW p \in Publishers, Pub!Start(p) \/ Pub!PublisherStep(p)
        PROVE  ReportIInv'
    BY <1>1, BeginIInv, ReadFirstIInv, ReadAgainIInv, CopyIInv, BuildIInv,
       TakeWriterIInv, ReplaceIInv, WriteManifestIInv, RollBackIInv, StopIInv
      DEF Pub!PublisherStep
  <1>2. ASSUME NEW p \in Publishers,
               Pub!ReplaceUnsynced(p) \/ Pub!ManifestUnsynced(p) \/ Pub!Fault(p) \/ Pub!Die(p)
        PROVE  ReportIInv'
    BY <1>2, ReplaceUnsyncedIInv, ManifestUnsyncedIInv, FaultIInv, DieIInv
  <1>3. ASSUME NEW k \in Commands, NEW reset \in BOOLEAN, Pub!Command(k, reset)
        PROVE  ReportIInv'
    BY <1>3, CommandStartsIInv
  <1>4. ASSUME NEW k \in Commands, Pub!CommandStep(k) \/ Pub!CommandFault(k) \/ Pub!CommandDies(k)
        PROVE  ReportIInv'
    BY <1>4, CommandReplaceIInv, CommandRollBackIInv, CommandFaultIInv,
       CommandDiesIInv
      DEF Pub!CommandStep
  <1>5. ASSUME NEW c \in Pub!Cells, Pub!Measure(c) PROVE ReportIInv'
    BY <1>5, MeasureIInv
  <1> QED
    BY <1>1, <1>2, <1>3, <1>4, <1>5, StutterIInv DEF Pub!Next

----------------------------------------------------------------------------
(* The two parts together.                                                 *)

IInv ==
    /\ ResetIInv
    /\ Reset!NoStray => Progress
    /\ Finishing
    /\ OneVerifier => Loadable
    /\ ReportIInv

\* A step of a behaviour is one of its part, and the other part stutters.
LEMMA StepsAreSteps ==
    ASSUME [Next]_vars PROVE [Reset!Next]_Reset!vars /\ [Pub!Next]_Pub!vars
  BY DEF Next, vars, resets, reports, Reset!vars, Pub!vars

\* The initial state of a reset satisfies its four invariants.
LEMMA InitReset ==
    ASSUME Reset!ResetAssumption, Reset!Init
    PROVE  ResetIInv /\ Progress /\ Finishing /\ Loadable
  <1>1. ResetIInv
    BY ResetInitIInv
  <1>2. Progress
    BY DEF Reset!Init, Progress, InPlace, Done, Reset!Idle
  <1>3. Finishing
    BY DEF Reset!Init, Finishing
  <1>4. Loadable
    BY DEF Reset!Init, Loadable, Reset!ReadyIsLoadable, Verified
  <1> QED
    BY <1>1, <1>2, <1>3, <1>4

\* Every step of a reset keeps its inductive invariant.
LEMMA NextReset ==
    ASSUME Reset!ResetAssumption, ResetIInv, [Reset!Next]_Reset!vars PROVE ResetIInv'
  BY ResetNextTypeOK, NextDirectories, NextCalls DEF ResetIInv

\* A root that a late worker has made does not go away again.
LEMMA StraysStay ==
    ASSUME Reset!ResetAssumption, ResetIInv, [Reset!Next]_Reset!vars, Reset!NoStray'
    PROVE  Reset!NoStray /\ NobodyStrays
  <1>1. /\ at \in [Reset!Paths -> Reset!Paths \cup {None}] /\ None \notin Reset!Paths
        /\ journal \in [Journals -> {"none", "staging", "PREPARED", "COMMITTING", "COMMITTED"}]
    BY DEF ResetIInv, Reset!TypeOK, Reset!ResetAssumption
  <1>2. ASSUME NEW k \in Reset!Roots, Reset!StrayWorker(k) PROVE FALSE
    <2>1. <<"source", k>> \in Reset!Paths /\ at'[<<"source", k>>] = <<"stray", k>>
      BY <1>1, <1>2, PathsAre DEF Reset!StrayWorker
    <2>2. <<"stray", k>> # None /\ <<"stray", k>>[1] = "stray"
      BY <1>1, PathsAre
    <2> QED
      BY <2>1, <2>2 DEF Reset!NoStray
  <1>3. ASSUME NEW k \in Journals, Reset!PrepareEnds(k) PROVE Reset!NoStray
    <2>1. \A p \in Reset!Paths : at'[p] = IF p[1] = k THEN p ELSE at[p]
      BY <1>3 DEF Reset!PrepareEnds
    <2>2. \A p \in Reset!Paths : p[1] = k => at[p] = None
      BY <1>3 DEF Reset!PrepareEnds, ResetIInv, Directories, Unstaged, Unprepared
    <2> QED
      BY <2>1, <2>2 DEF Reset!NoStray
  <1>4. ASSUME NEW p \in Committers, Reset!Replace(p), at' # at PROVE Reset!NoStray
    <2>1. PICK from \in Reset!Paths, to \in Reset!Paths :
            /\ from # to /\ at[from] # None /\ at[to] = None
            /\ at' = [at EXCEPT ![to] = at[from], ![from] = None]
      BY <1>4, ReplaceMoves
    <2>2. at'[to] = at[from] /\ \A q \in Reset!Paths \ {from, to} : at'[q] = at[q]
      BY <1>1, <2>1
    <2> QED
      BY <2>1, <2>2 DEF Reset!NoStray
  <1>5. NobodyStrays
    BY <1>2 DEF NobodyStrays
  <1>6. Reset!NoStray
    <2>1. CASE UNCHANGED at
      BY <2>1 DEF Reset!NoStray
    <2> QED
      BY <1>2, <1>3, <1>4, <2>1
        DEF Reset!Next, Reset!vars, Reset!PrepareBegins, Reset!Call, Reset!CommitStep,
            Reset!Acquire, Reset!RenameForward, Reset!Install,
            Reset!WriteArchiveJournal, Reset!WriteCommitted, Reset!Crash,
            Reset!VerifyBegins, Reset!Publish, Reset!WriteGate, Reset!MarkReady,
            Reset!VerifierDies
  <1> QED
    BY <1>5, <1>6

\* Every joint step keeps the invariants of both parts.
LEMMA NextIInvs == ASSUME PartsAssumption, IInv, [Next]_vars PROVE IInv'
  <1>1. /\ [Reset!Next]_Reset!vars /\ [Pub!Next]_Pub!vars
        /\ Reset!ResetAssumption /\ Pub!PublisherAssumption
    BY StepsAreSteps DEF PartsAssumption
  <1>2. ResetIInv'
    BY <1>1, NextReset DEF IInv
  <1>3. Reset!NoStray' => Progress'
    BY <1>1, StraysStay, NextProgress DEF IInv
  <1>4. Finishing'
    BY <1>1, NextFinishing DEF IInv
  <1>5. OneVerifier => Loadable'
    BY <1>1, NextLoadable DEF IInv
  <1>6. ReportIInv'
    BY <1>1, NextIInv DEF IInv
  <1> QED
    BY <1>2, <1>3, <1>4, <1>5, <1>6 DEF IInv, OneVerifier

\* Both inductive invariants hold throughout: where each directory of a reset is
\* and who holds the guard (commit_or_recover_reset, campaign_reset.py:1217),
\* the holders of the report's two locks, and what every publisher and command
\* knows of the files at each of its steps (publish_snapshot and
\* _install_snapshot, publisher.py; ReportService.publish, service.py).
THEOREM Invariant == ASSUME PartsAssumption PROVE Spec => []IInv
  <1>1. Init => IInv
    BY InitReset, ReportInitIInv DEF Init, IInv, PartsAssumption
  <1>2. IInv /\ [Next]_vars => IInv'
    BY NextIInvs
  <1> QED
    BY <1>1, <1>2, PTL DEF Spec

\* The variables of both parts hold values of their kinds.
THEOREM TypeCorrect == ASSUME PartsAssumption PROVE Spec => []TypeOK
  <1>1. IInv => TypeOK
    BY DEF IInv, ResetIInv, ReportIInv, Types, TypeOK
  <1> QED
    BY <1>1, Invariant, PTL

\* However many processes commit, die and are called again, and whatever late
\* workers make beside them, the old roots and every staged directory are each
\* at exactly one path.
LEMMA NothingIsLost ==
    ASSUME Reset!ResetAssumption, ResetIInv PROVE Reset!NothingLost
  <1>1. ASSUME NEW d \in Reset!Paths, Made(d)
        PROVE  Reset!Cardinality({p \in Reset!Paths : at[p] = d}) = 1
    <2>1. Directories /\ None \notin Reset!Paths
      BY DEF ResetIInv, Reset!ResetAssumption
    <2>2. PICK p \in Reset!Paths : at[p] = d
      BY <1>1, <2>1 DEF Directories, Somewhere
    <2>3. {q \in Reset!Paths : at[q] = d} = {p}
      BY <1>1, <2>1, <2>2 DEF Directories, Single
    <2>4. Reset!Cardinality({p}) = Cardinality({p})
      BY DEF Reset!Cardinality, Cardinality
    <2> QED
      BY <2>3, <2>4, FS_Singleton
  <1> QED
    BY <1>1 DEF Reset!NothingLost, Made, Unprepared

\* An archive that holds a COMMITTED journal holds what it stands for, and the
\* destination the fresh roots of that journal.
LEMMA CommittedIsComplete ==
    ASSUME Reset!ResetAssumption, ResetIInv, Progress PROVE Reset!CommittedIsWhole
  <1> SUFFICES ASSUME NEW j \in archived
               PROVE  LET a == ArchiveOf[j]
                      IN  /\ \A k \in Reset!Roots :
                                /\ at[<<a, k>>] = <<"source", k>>
                                /\ at[<<"destination", k>>] = <<j, k>>
                          /\ \A k \in {"publication", "manifest"} : at[<<a, k>>] = <<j, k>>
    BY DEF Reset!CommittedIsWhole
  <1>1. j \in Journals
    BY DEF ResetIInv, Reset!TypeOK
  <1>2. \A i \in 1..6 : at[To(j, i)] = From(j, i)
    BY DEF Progress, Arrived
  <1>3. /\ 1 \in 1..6 /\ 2 \in 1..6 /\ 3 \in 1..6 /\ 4 \in 1..6 /\ 5 \in 1..6 /\ 6 \in 1..6
    OBVIOUS
  <1> QED
    BY <1>1, <1>2, <1>3, RenamesAre DEF Reset!Roots

\* What a publisher publishes are the pointers of all cells at one moment,
\* though they are read one by one and without a lock: two equal readings of
\* numbers that only grow leave no room for another value in between.
LEMMA CapturesExisted == ASSUME ReportIInv PROVE Pub!CaptureExisted
  BY DEF ReportIInv, Reads, Confirmed, Pub!CaptureExisted

\* A report that validates is whole: PDF and tables show the caches, and every
\* record of the manifest's snapshot is in them, whatever died or was overwritten.
LEMMA ValidReportsAreWhole ==
    ASSUME Pub!PublisherAssumption, ReportIInv PROVE Pub!ValidIsWhole
  <1> SUFFICES ASSUME Pub!Valid
               PROVE  /\ docs["pdf"] = docs["tables"]
                      /\ docs["tables"] = [c \in Pub!Cells |-> docs[c]]
                      /\ \A c \in Pub!Cells :
                            manifest.snapshot[c] # 0 => docs[c] = manifest.snapshot[c]
    BY DEF Pub!ValidIsWhole
  <1>1. /\ manifest # None /\ Captured /\ DOMAIN docs = Pub!Cells \cup {"tables", "pdf"}
        /\ manifest.files \in Pub!Attempts
        /\ "tables" \notin Pub!Cells /\ "pdf" \notin Pub!Cells
    BY FilesAre DEF ReportIInv, Types, Pub!TypeOK, Pub!Valid
  <1>2. /\ docs["pdf"] = manifest.files /\ docs["tables"] = manifest.files
        /\ \A c \in Pub!Cells : docs[c] = manifest.files[c]
    BY <1>1 DEF Pub!Valid, Pub!Content
  <1>3. manifest.files = [c \in Pub!Cells |-> docs[c]]
    BY <1>1, <1>2 DEF Pub!Attempts
  <1> QED
    BY <1>1, <1>2, <1>3 DEF Captured

\* Files in use stay whole, whoever dies wherever: no directory of a reset is
\* lost or doubled; a committed reset is a whole one unless a late worker made
\* a root again; a READY campaign has the gate it was marked with, made for its
\* PREPARED marker; captured pointers existed, tables show the caches after
\* failed installs that rolled back as well, and a report that validates is
\* whole (_rename_forward, campaign_reset.py:1145; mark_campaign_ready, :954;
\* _install_snapshot, publisher.py:377; validate_published_snapshot, :428).
THEOREM FilesAreWhole ==
    ASSUME PartsAssumption, OneVerifier PROVE Spec => []FilesStayWhole
  <1>1. IInv => Reset!NothingLost /\ Reset!ReadyIsLoadable
    BY NothingIsLost DEF IInv, PartsAssumption, Loadable
  <1>2. IInv => Reset!CommittedIsWhole
    <2>1. CASE Reset!NoStray
      BY <2>1, CommittedIsComplete DEF IInv, PartsAssumption
    <2>2. CASE ~Reset!NoStray
      BY <2>2 DEF Reset!CommittedIsWhole
    <2> QED
      BY <2>1, <2>2
  <1>3. IInv => Pub!CaptureExisted /\ Pub!TablesShowCaches /\ Pub!ValidIsWhole
    BY CapturesExisted, ValidReportsAreWhole DEF IInv, PartsAssumption, ReportIInv
  <1>4. IInv => FilesStayWhole
    BY <1>1, <1>2, <1>3 DEF FilesStayWhole
  <1> QED
    BY <1>4, Invariant, PTL

\* While nobody dies, no call installs the staged publication once the archive
\* says COMMITTED: the one that waited for the guard reads the journal again.
LEMMA RepeatsInstallNothing ==
    ASSUME ResetIInv, Finishing, NEW p \in Committers, Reset!Install(p),
           proc[p].journal \in archived, crashes = 0
    PROVE  FALSE
  <1>1. proc[p].phase = "install" /\ journal[proc[p].journal] = "COMMITTING"
    BY DEF Reset!Install, ResetIInv, CallInv, Reset!Held
  <1>2. PICK q \in Committers : proc[q].phase = "commit" /\ proc[q].journal = proc[p].journal
    BY <1>1 DEF Finishing
  <1> QED
    BY <1>1, <1>2 DEF ResetIInv, Alone, Reset!Held

\* A manifest that is written replaces none that is ahead of it in a cell: its
\* publisher has the lease and has read after it had it.
LEMMA ManifestGoesForward ==
    ASSUME Pub!PublisherAssumption, ReportIInv, [Pub!Next]_Pub!vars, manifest # None,
           manifest' # manifest
    PROVE  \A c \in Pub!Cells : manifest.snapshot[c] <= manifest'.snapshot[c]
  <1>1. PICK p \in Publishers : Pub!WriteManifest(p) \/ Pub!ManifestUnsynced(p)
    BY DEF Pub!Next, Pub!vars, Pub!Measure, Pub!Start, Pub!PublisherStep,
           Pub!ReadFirst, Pub!ReadAgain, Pub!Copy, Pub!Build, Pub!TakeWriter,
           Pub!Replace, Pub!RollBack, Pub!NextCycle, Pub!Stop, Pub!ReplaceUnsynced,
           Pub!Fault, Pub!Die, Pub!Command, Pub!CommandStep, Pub!CommandReplace,
           Pub!CommandFault, Pub!CommandRollBack, Pub!CommandDies
  <1>2. cycle[p].phase = "manifest" /\ manifest' = Pub!Snapshot(p) /\ UNCHANGED current
    BY <1>1 DEF Pub!WriteManifest, Pub!ManifestUnsynced
  <1>3. manifest'.snapshot = cycle[p].seen
    BY <1>2, SnapshotIs
  <1>4. \A c \in Pub!Cells : manifest.snapshot[c] <= cycle[p].seen[c]
    BY <1>2, OfPublisher DEF Reads, Confirmed, Newer
  <1> QED
    BY <1>3, <1>4

\* What is published never goes back: a repeated commit installs nothing over
\* what was published since while nobody dies (campaign_reset.py:1218), and the
\* published snapshot never goes back in any cell, whichever publishers run,
\* fail or die (_publisher_state_lease, publisher.py:126).
THEOREM PublishedGoesForward ==
    ASSUME PartsAssumption PROVE Spec => NothingGoesBack
  <1>1. IInv /\ [Next]_vars =>
          [\A p \in Committers :
              Reset!Install(p) /\ proc[p].journal \in archived /\ crashes = 0
                => pub' = pub]_Reset!vars
    BY RepeatsInstallNothing DEF IInv
  <1>2. IInv /\ [Next]_vars =>
          [manifest # None /\ manifest' # manifest =>
              \A c \in Pub!Cells : manifest.snapshot[c] <= manifest'.snapshot[c]]_Pub!vars
    BY StepsAreSteps, ManifestGoesForward DEF IInv, PartsAssumption
  <1> QED
    BY <1>1, <1>2, Invariant, PTL
      DEF Spec, NothingGoesBack, Reset!RepeatIsIdempotent, Pub!ManifestForward
=============================================================================
