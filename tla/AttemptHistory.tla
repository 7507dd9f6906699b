-------------------------- MODULE AttemptHistory --------------------------
(***************************************************************************)
(* The result store of the performance campaign                            *)
(* (tools/performance_report/artifacts.py) under the workers of several    *)
(* campaigns (scheduler.py).                                               *)
(*                                                                         *)
(* Each cell has attempts, one of which its pointer current.json names.  A *)
(* successful result names the artifact directory it was measured on: that *)
(* of its own attempt, or one of an equivalent cell that it reused.  After *)
(* every run of a cell, and at the start of a campaign, the attempts that  *)
(* nobody needs are moved to the history and lose their artifact.          *)
(*                                                                         *)
(* A worker holds the lock of its cell.  It reads other cells without      *)
(* their locks, and takes the use lock of an attempt whose result it       *)
(* reuses; both locks are only tried.  Any worker may be killed.           *)
(*                                                                         *)
(* Abstraction: an attempt is a number, its files are those that outlive   *)
(* the run and the artifact directory.  Whether a current result is fresh, *)
(* and which policy a campaign follows, is a choice of Decide.             *)
(***************************************************************************)
EXTENDS Naturals, FiniteSets

CONSTANTS
    Worker,
    Cell,
    Equivalent,   \* [Cell -> SUBSET Cell], equivalent_cells
    Consumers,    \* [Cell -> SUBSET Cell], _artifact_consumer_cell_ids
    Directional,  \* all-flow cells, which must reuse the artifact of an owner
    Retiming,     \* cells that campaigns may time again on their artifact
    MaxAttempts,  \* bound of the attempts of all cells and the workers killed
    MaxDeaths,    \* bound of the workers killed
    Nobody

ASSUME CellAssumption ==
    /\ Equivalent \in [Cell -> SUBSET Cell]
    /\ Consumers \in [Cell -> SUBSET Cell]
    /\ \A x \in Cell : x \in Consumers[x] /\ x \notin Equivalent[x]
    /\ \A x, y \in Cell : y \in Equivalent[x] => x \in Consumers[y]
    /\ Directional \subseteq Cell /\ Retiming \subseteq Cell \ Directional
\* In the catalog a cell has at most one equivalent: the same process in another
\* data set, which has it in turn, or the owner of its artifact, which has none.
ASSUME PairAssumption ==
    \A x \in Cell : \A y \in Equivalent[x] : Equivalent[y] \subseteq {x}
ASSUME SizeAssumption == MaxAttempts \in Nat /\ MaxDeaths \in Nat /\ Nobody \notin Worker

VARIABLES
    count,      \* attempts made so far
    deaths,     \* workers killed so far
    cellOf,     \* cellOf[a]: the cell of attempt a
    place,      \* place[a]: in attempts/ ("live") or in the history
    sealed,     \* sealed[a]: "open" while it has no manifest
    payload,    \* attempts whose artifact directory exists
    uses,       \* uses[a]: the attempt whose artifact the result of a names
    current,    \* current[x]: the attempt the pointer of x names, or 0
    cellLock,   \* cellLock[x]: who holds campaign-cell-x
    useLock,    \* useLock[a]: who holds campaign-artifact-use-a
    pc,         \* pc[w]: where worker w is
    at,         \* at[w]: the cell it runs
    pointer,    \* pointer[w]: an attempt another cell's pointer named
    record,     \* record[w]: the attempt whose result it reuses, or 0
    mine,       \* mine[w]: the attempt it makes, or 0
    todo,       \* todo[w]: attempts its cleanup has not looked at
    target,     \* target[w]: the attempt it looks at
    unread,     \* unread[w]: consumers it has not consulted about target
    protected   \* protected[w]: attempts found in use

attempts == <<count, cellOf, place, sealed, payload, uses>>
locks == <<cellLock, useLock>>
run == <<at, pointer, record, mine>>
scan == <<todo, target, unread, protected>>
vars == <<attempts, current, locks, pc, run, scan, deaths>>

Attempt == 1..MaxAttempts
Live(x) == {a \in Attempt : cellOf[a] = x /\ place[a] = "live"}

\* Attempts whose artifact is at the path that results name: not one that was
\* moved and waits to be removed.
Usable == {a \in payload : place[a] = "live"}

Init ==
    /\ count = 0 /\ deaths = 0
    /\ cellOf = [a \in Attempt |-> Nobody] /\ place = [a \in Attempt |-> "none"]
    /\ sealed = [a \in Attempt |-> "open"]
    /\ payload = {} /\ uses = [a \in Attempt |-> 0]
    /\ current = [x \in Cell |-> 0]
    /\ cellLock = [x \in Cell |-> Nobody]
    /\ useLock = [a \in Attempt |-> Nobody]
    /\ pc = [w \in Worker |-> "idle"] /\ at = [w \in Worker |-> Nobody]
    /\ pointer = [w \in Worker |-> 0] /\ record = [w \in Worker |-> 0]
    /\ mine = [w \in Worker |-> 0] /\ target = [w \in Worker |-> 0]
    /\ todo = [w \in Worker |-> {}] /\ unread = [w \in Worker |-> {}]
    /\ protected = [w \in Worker |-> {}]

Goto(w, to) == pc' = [pc EXCEPT ![w] = to]

----------------------------------------------------------------------------
(* A run of a cell: _run_cell and _run_cell_in_lane                        *)

\* The lock of the cell is free; a deferred cell changes nothing.
LockCell(w, x, then) ==
    /\ pc[w] = "idle" /\ cellLock[x] = Nobody
    /\ cellLock' = [cellLock EXCEPT ![x] = w]
    /\ at' = [at EXCEPT ![w] = x]
    /\ Goto(w, then)
    /\ UNCHANGED <<deaths, attempts, current, useLock, pointer, record, mine, scan>>

StartCell(w, x) == LockCell(w, x, "deciding")
Reconcile(w, x) == LockCell(w, x, "pruning")

Successful(a) == a # 0 /\ uses[a] # 0

\* The current result is kept.
Keep(w) ==
    /\ pc[w] = "deciding" /\ current[at[w]] # 0
    /\ Goto(w, "leaving")
    /\ UNCHANGED <<deaths, attempts, current, locks, run, scan>>

\* The policy is to time the current artifact again.
Retime(w) ==
    /\ pc[w] = "deciding" /\ at[w] \in Retiming
    /\ Successful(current[at[w]])
    /\ record' = [record EXCEPT ![w] = current[at[w]]]
    /\ Goto(w, "locking")
    /\ UNCHANGED <<deaths, attempts, current, locks, at, pointer, mine, scan>>

\* The pointer of an equivalent cell is read, ...
ReadPointer(w, y) ==
    /\ pc[w] = "deciding" /\ y \in Equivalent[at[w]]
    /\ Successful(current[y])
    /\ pointer' = [pointer EXCEPT ![w] = current[y]]
    /\ Goto(w, "reading")
    /\ UNCHANGED <<deaths, attempts, current, locks, at, record, mine, scan>>

\* ... then the manifest and the result it names.  Without them the run fails.
ReadRecord(w) ==
    /\ pc[w] = "reading"
    /\ \/ /\ place[pointer[w]] = "live"
          /\ record' = [record EXCEPT ![w] = pointer[w]]
          /\ Goto(w, "locking")
       \/ /\ place[pointer[w]] # "live"
          /\ Goto(w, "leaving") /\ UNCHANGED record
    /\ pointer' = [pointer EXCEPT ![w] = 0]
    /\ UNCHANGED <<deaths, attempts, current, locks, at, mine, scan>>

\* Nothing is reused; an all-flow cell cannot run then.
Generate(w) ==
    /\ pc[w] = "deciding"
    /\ Goto(w, IF at[w] \in Directional THEN "leaving" ELSE "creating")
    /\ UNCHANGED <<deaths, attempts, current, locks, run, scan>>

\* The use lock of the attempt is taken and its artifact looked for again.
LockUse(w) ==
    /\ pc[w] = "locking" /\ useLock[record[w]] = Nobody
    /\ useLock' = [useLock EXCEPT ![record[w]] = w]
    /\ \/ /\ uses[record[w]] \in Usable
          /\ Goto(w, "creating") /\ UNCHANGED record
       \/ /\ uses[record[w]] \notin Usable
          /\ record' = [record EXCEPT ![w] = 0]
          /\ Goto(w, IF at[w] \in Directional THEN "leaving" ELSE "creating")
    /\ UNCHANGED <<deaths, attempts, current, cellLock, at, pointer, mine, scan>>

\* Somebody else uses or archives the attempt: the cell is deferred.
UseBusy(w) ==
    /\ pc[w] = "locking" /\ useLock[record[w]] # Nobody
    /\ Goto(w, "leaving")
    /\ UNCHANGED <<deaths, attempts, current, locks, run, scan>>

NewAttempt(w) ==
    /\ pc[w] = "creating" /\ count + deaths < MaxAttempts
    /\ count' = count + 1
    /\ mine' = [mine EXCEPT ![w] = count + 1]
    /\ cellOf' = [cellOf EXCEPT ![count + 1] = at[w]]
    /\ place' = [place EXCEPT ![count + 1] = "live"]
    /\ Goto(w, "loading")
    /\ UNCHANGED <<deaths, sealed, payload, uses, current, locks, at, pointer, record, scan>>

SealAs(w, how) == sealed' = [sealed EXCEPT ![mine[w]] = how]

\* The child reads the reused measurement and its artifact, or generates one.
Load(w) ==
    /\ pc[w] = "loading"
    /\ \/ /\ record[w] # 0 /\ place[record[w]] = "live" /\ uses[record[w]] \in Usable
          /\ Goto(w, "measuring") /\ UNCHANGED <<sealed, payload>>
       \/ /\ record[w] # 0 /\ ~(place[record[w]] = "live" /\ uses[record[w]] \in Usable)
          /\ SealAs(w, "failed") /\ Goto(w, "leaving") /\ UNCHANGED payload
       \/ /\ record[w] = 0
          /\ payload' = payload \cup {mine[w]}
          /\ Goto(w, "measuring") /\ UNCHANGED sealed
    /\ UNCHANGED <<deaths, count, cellOf, place, uses, current, locks, run, scan>>

\* A failed worker loses its artifact, an interrupted one keeps it.
Fail(w) ==
    /\ pc[w] = "measuring"
    /\ SealAs(w, "failed") /\ Goto(w, "leaving")
    /\ payload' \in {payload, payload \ {mine[w]}}
    /\ UNCHANGED <<deaths, count, cellOf, place, uses, current, locks, run, scan>>

\* A cancelled worker's attempt may be removed altogether.
Discard(w) ==
    /\ pc[w] = "measuring"
    /\ place' = [place EXCEPT ![mine[w]] = "none"]
    /\ payload' = payload \ {mine[w]}
    /\ Goto(w, "leaving")
    /\ UNCHANGED <<deaths, count, cellOf, sealed, uses, current, locks, run, scan>>

\* The manifest of a success, or of a terminal result without an artifact.
Seal(w) ==
    /\ pc[w] = "measuring"
    /\ SealAs(w, "ok") /\ Goto(w, "publishing")
    /\ \/ /\ uses' = [uses EXCEPT ![mine[w]] =
                        IF record[w] = 0 THEN mine[w] ELSE uses[record[w]]]
          /\ UNCHANGED payload
       \/ payload' = payload \ {mine[w]} /\ UNCHANGED uses
    /\ UNCHANGED <<deaths, count, cellOf, place, current, locks, run, scan>>

\* _publish replaces the pointer.
Point(w) ==
    /\ pc[w] = "publishing"
    /\ current' = [current EXCEPT ![at[w]] = mine[w]]
    /\ Goto(w, "leaving")
    /\ UNCHANGED <<deaths, attempts, locks, run, scan>>

\* The lane's locks are released on every way out.
Leave(w) ==
    /\ pc[w] = "leaving"
    /\ useLock' = [a \in Attempt |-> IF useLock[a] = w THEN Nobody ELSE useLock[a]]
    /\ record' = [record EXCEPT ![w] = 0] /\ mine' = [mine EXCEPT ![w] = 0]
    /\ Goto(w, "pruning")
    /\ UNCHANGED <<deaths, attempts, current, cellLock, at, pointer, scan>>

----------------------------------------------------------------------------
(* The cleanup under the lock of the cell: archive_obsolete_attempts       *)

\* Mutant: what an earlier cleanup left in the history stays there.
PruneNothing(w) ==
    /\ pc[w] = "pruning"
    /\ todo' = [todo EXCEPT ![w] = Live(at[w])]
    /\ Goto(w, "scanning")
    /\ UNCHANGED <<deaths, attempts, current, locks, run, target, unread, protected>>

\* A cleanup that died may have left an artifact in the history.
Prune(w) ==
    /\ pc[w] = "pruning"
    /\ payload' = {a \in payload : cellOf[a] = at[w] => place[a] # "history"}
    /\ todo' = [todo EXCEPT ![w] = Live(at[w])]
    /\ Goto(w, "scanning")
    /\ UNCHANGED <<deaths, count, cellOf, place, sealed, uses, current, locks, run, target,
                   unread, protected>>

\* Mutant: use locks are ignored.
LockTargetAnyway(w, a) ==
    /\ pc[w] = "scanning" /\ a \in todo[w]
    /\ todo' = [todo EXCEPT ![w] = @ \ {a}]
    /\ target' = [target EXCEPT ![w] = a]
    /\ protected' = [protected EXCEPT ![w] = {current[at[w]]}]
    /\ unread' = [unread EXCEPT ![w] = Consumers[at[w]]]
    /\ Goto(w, "consulting")
    /\ UNCHANGED <<deaths, attempts, current, locks, run>>

\* Nobody uses the attempt now; what protects it is read under its use lock.
LockTarget(w, a) ==
    /\ pc[w] = "scanning" /\ a \in todo[w] /\ useLock[a] = Nobody
    /\ useLock' = [useLock EXCEPT ![a] = w]
    /\ todo' = [todo EXCEPT ![w] = @ \ {a}]
    /\ target' = [target EXCEPT ![w] = a]
    /\ protected' = [protected EXCEPT ![w] = {current[at[w]]}]
    /\ unread' = [unread EXCEPT ![w] = Consumers[at[w]]]
    /\ Goto(w, "consulting")
    /\ UNCHANGED <<deaths, attempts, current, cellLock, run>>

TargetBusy(w, a) ==
    /\ pc[w] = "scanning" /\ a \in todo[w] /\ useLock[a] # Nobody
    /\ todo' = [todo EXCEPT ![w] = @ \ {a}]
    /\ UNCHANGED <<deaths, attempts, current, locks, pc, run, target, unread, protected>>

\* The pointer of a consumer is read, ...
Consult(w, y) ==
    /\ pc[w] = "consulting" /\ y \in unread[w]
    /\ unread' = [unread EXCEPT ![w] = @ \ {y}]
    /\ \/ current[y] = 0 /\ UNCHANGED <<pointer, pc>>
       \/ /\ current[y] # 0
          /\ pointer' = [pointer EXCEPT ![w] = current[y]]
          /\ Goto(w, "following")
    /\ UNCHANGED <<deaths, attempts, current, locks, at, record, mine, todo, target, protected>>

\* ... then its manifest and result, and the artifact that one names.
Followed(w) ==
    LET p == pointer[w] IN
    /\ place[p] = "live"
    /\ Successful(p) => uses[p] \in Usable

Unlocked(w) == [a \in Attempt |-> IF useLock[a] = w THEN Nobody ELSE useLock[a]]

\* Mutant: only the cell's own results protect its attempts.
FollowOwn(w) ==
    /\ pc[w] = "following" /\ Followed(w)
    /\ protected' = [protected EXCEPT ![w] =
         IF cellOf[pointer[w]] = at[w] THEN @ \cup {uses[pointer[w]]} ELSE @]
    /\ pointer' = [pointer EXCEPT ![w] = 0]
    /\ Goto(w, "consulting")
    /\ UNCHANGED <<deaths, attempts, current, locks, at, record, mine, todo, target, unread>>

Follow(w) ==
    /\ pc[w] = "following" /\ Followed(w)
    /\ protected' = [protected EXCEPT ![w] = @ \cup {uses[pointer[w]]}]
    /\ pointer' = [pointer EXCEPT ![w] = 0]
    /\ Goto(w, "consulting")
    /\ UNCHANGED <<deaths, attempts, current, locks, at, record, mine, todo, target, unread>>

\* The consumer's files are not there: the cleanup is given up with a warning.
GiveUp(w) ==
    /\ pc[w] = "following" /\ ~Followed(w)
    /\ useLock' = Unlocked(w)
    /\ pointer' = [pointer EXCEPT ![w] = 0]
    /\ todo' = [todo EXCEPT ![w] = {}] /\ target' = [target EXCEPT ![w] = 0]
    /\ unread' = [unread EXCEPT ![w] = {}]
    /\ protected' = [protected EXCEPT ![w] = {}]
    /\ Goto(w, "unlocking")
    /\ UNCHANGED <<deaths, attempts, current, cellLock, at, record, mine>>

Consulted(w) == pc[w] = "consulting" /\ unread[w] = {}

\* Mutant: an attempt without a manifest is obsolete too.
ObsoleteUnsealed(w) == target[w] \notin protected[w]

Obsolete(w) == target[w] \notin protected[w] /\ sealed[target[w]] # "open"

KeepTarget(w) ==
    /\ Consulted(w) /\ ~Obsolete(w)
    /\ useLock' = Unlocked(w)
    /\ target' = [target EXCEPT ![w] = 0]
    /\ protected' = [protected EXCEPT ![w] = {}]
    /\ Goto(w, "scanning")
    /\ UNCHANGED <<deaths, attempts, current, cellLock, run, todo, unread>>

\* The rename into the history, ...
Move(w) ==
    /\ Consulted(w) /\ Obsolete(w)
    /\ place' = [place EXCEPT ![target[w]] = "history"]
    /\ Goto(w, "moved")
    /\ UNCHANGED <<deaths, count, cellOf, sealed, payload, uses, current, locks, run, scan>>

\* ... then the removal of the artifact.
Remove(w) ==
    /\ pc[w] = "moved"
    /\ payload' = payload \ {target[w]}
    /\ useLock' = Unlocked(w)
    /\ target' = [target EXCEPT ![w] = 0]
    /\ protected' = [protected EXCEPT ![w] = {}]
    /\ Goto(w, "scanning")
    /\ UNCHANGED <<deaths, count, cellOf, place, sealed, uses, current, cellLock, run, todo,
                   unread>>

Cleaned(w) ==
    /\ pc[w] = "scanning" /\ todo[w] = {}
    /\ Goto(w, "unlocking")
    /\ UNCHANGED <<deaths, attempts, current, locks, run, scan>>

UnlockCell(w) ==
    /\ pc[w] = "unlocking"
    /\ cellLock' = [cellLock EXCEPT ![at[w]] = Nobody]
    /\ at' = [at EXCEPT ![w] = Nobody]
    /\ Goto(w, "idle")
    /\ UNCHANGED <<deaths, attempts, current, useLock, pointer, record, mine, scan>>

\* The process of a worker dies; its locks are released by the system.
Kill(w) ==
    /\ pc[w] # "idle" /\ deaths < MaxDeaths /\ count + deaths < MaxAttempts
    /\ deaths' = deaths + 1
    /\ cellLock' = [cellLock EXCEPT ![at[w]] = Nobody]
    /\ useLock' = Unlocked(w)
    /\ at' = [at EXCEPT ![w] = Nobody]
    /\ pointer' = [pointer EXCEPT ![w] = 0] /\ record' = [record EXCEPT ![w] = 0]
    /\ mine' = [mine EXCEPT ![w] = 0] /\ target' = [target EXCEPT ![w] = 0]
    /\ todo' = [todo EXCEPT ![w] = {}] /\ unread' = [unread EXCEPT ![w] = {}]
    /\ protected' = [protected EXCEPT ![w] = {}]
    /\ Goto(w, "idle")
    /\ UNCHANGED <<attempts, current>>

----------------------------------------------------------------------------
RunStep(w) ==
    \/ \E x \in Cell : StartCell(w, x) \/ ReadPointer(w, x)
    \/ Keep(w) \/ Retime(w) \/ ReadRecord(w) \/ Generate(w) \/ LockUse(w)
    \/ UseBusy(w) \/ NewAttempt(w) \/ Load(w) \/ Fail(w) \/ Discard(w) \/ Seal(w)
    \/ Point(w) \/ Leave(w)
CleanupStep(w) ==
    \/ \E x \in Cell : Reconcile(w, x) \/ Consult(w, x)
    \/ Prune(w) \/ \E a \in Attempt : LockTarget(w, a) \/ TargetBusy(w, a)
    \/ Follow(w) \/ GiveUp(w) \/ KeepTarget(w) \/ Move(w) \/ Remove(w)
    \/ Cleaned(w) \/ UnlockCell(w)
Next == \E w \in Worker : RunStep(w) \/ CleanupStep(w) \/ Kill(w)

Safety == Init /\ [][Next]_vars

----------------------------------------------------------------------------
(* Properties                                                              *)

\* Every variable keeps its type, and an idle worker holds no use lock.
TypeOK ==
    /\ count \in 0..MaxAttempts /\ deaths \in 0..MaxDeaths
    /\ cellOf \in [Attempt -> Cell \cup {Nobody}]
    /\ place \in [Attempt -> {"none", "live", "history"}]
    /\ sealed \in [Attempt -> {"open", "ok", "failed"}]
    /\ payload \subseteq Attempt
    /\ uses \in [Attempt -> 0..MaxAttempts]
    /\ current \in [Cell -> 0..MaxAttempts]
    /\ cellLock \in [Cell -> Worker \cup {Nobody}]
    /\ useLock \in [Attempt -> Worker \cup {Nobody}]
    /\ pc \in [Worker -> {"idle", "deciding", "reading", "locking", "creating",
         "loading", "measuring", "publishing", "leaving", "pruning", "scanning",
         "consulting", "following", "moved", "unlocking"}]
    /\ at \in [Worker -> Cell \cup {Nobody}]
    /\ pointer \in [Worker -> 0..MaxAttempts] /\ record \in [Worker -> 0..MaxAttempts]
    /\ mine \in [Worker -> 0..MaxAttempts] /\ target \in [Worker -> 0..MaxAttempts]
    /\ todo \in [Worker -> SUBSET Attempt]
    /\ unread \in [Worker -> SUBSET Cell]
    /\ protected \in [Worker -> SUBSET (0..MaxAttempts)]
    /\ \A a \in Attempt : useLock[a] # Nobody => pc[useLock[a]] # "idle"

\* A pointer names a live attempt of its cell with a sealed success; an artifact
\* that this attempt made itself exists (load_current, _validate_current_pointer).
PointersStand ==
    \A x \in Cell : LET a == current[x] IN
      a # 0 => /\ cellOf[a] = x /\ place[a] = "live" /\ sealed[a] = "ok"
               /\ uses[a] = a => a \in Usable

\* No campaign timed a cell again on the artifact of an earlier attempt of it.
NeverRetimed == \A a \in Attempt : uses[a] \in {0, a} \/ cellOf[uses[a]] # cellOf[a]

\* The artifact a current result borrowed exists, even though the cell that made
\* it has been measured again since (protected_attempt_ids).
BorrowedStand ==
    NeverRetimed =>
      \A x \in Cell :
        current[x] # 0 /\ uses[current[x]] # 0 => uses[current[x]] \in Usable

\* What a current result needs exists, whether its cell made it or another one:
\* the pointer's attempt, its seal, and the artifact it was measured on.
NeededStand == TypeOK /\ PointersStand /\ BorrowedStand

\* The use lock of an attempt keeps the artifact that the attempt made: it stays
\* while a worker that found it under the lock measures on it, until the result
\* that names it is the current one.
OwnReuseUndisturbed ==
    \A w \in Worker :
      /\ pc[w] \in {"creating", "loading", "measuring", "publishing"}
      /\ record[w] # 0 /\ uses[record[w]] = record[w]
      => record[w] \in Usable

\* Attempts that are being made, or were left unfinished by a killed worker,
\* are never archived, nor is a current one, nor one whose artifact a current
\* result borrowed, though the results are read one by one before the move.
OnlyObsoleteMove ==
    [][\A a \in Attempt :
         place[a] = "live" /\ place'[a] = "history" =>
           /\ sealed[a] # "open"
           /\ \A x \in Cell :
                current[x] # a /\ (NeverRetimed /\ current[x] # 0 => uses[current[x]] # a)
      ]_vars

\* After a cleanup that came to its end, no attempt of the cell keeps an
\* artifact in the history, even if earlier cleanups died half way.
HistoryIsLight ==
    \A w \in Worker :
      pc[w] = "scanning" /\ todo[w] = {} =>
        \A a \in payload : cellOf[a] = at[w] => place[a] = "live"
============================================================================
