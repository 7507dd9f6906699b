----------------------- MODULE AttemptHistory_proofs -----------------------
(***************************************************************************)
(* Proofs about AttemptHistory, for any cells, workers and numbers of      *)
(* attempts: what a current result needs stands, and a cleanup that reads  *)
(* the other cells one by one, without their locks, moves nothing that is  *)
(* in use.                                                                 *)
(***************************************************************************)
EXTENDS AttemptHistory, TLAPS

----------------------------------------------------------------------------
(* The inductive invariant                                                 *)

Making == {"loading", "measuring", "publishing"}
Using == {"creating"} \cup Making
Looking == {"consulting", "following", "moved"}
Cleaning == {"scanning"} \cup Looking

\* Attempts that are not made yet have left no trace, and those in the history
\* or live have their files.
Unmade ==
    /\ \A a \in Attempt : a > count =>
         /\ place[a] = "none" /\ sealed[a] = "open" /\ uses[a] = 0 /\ a \notin payload
    /\ \A a \in payload : place[a] # "none"

\* A result names an artifact made by the attempt that named it first.
Named ==
    \A a \in Attempt : uses[a] # 0 => sealed[a] = "ok" /\ uses[uses[a]] = uses[a]

\* An artifact that was borrowed is of an equivalent cell.
Lineage ==
    NeverRetimed =>
      \A a \in Attempt : uses[a] \notin {0, a} => cellOf[uses[a]] \in Equivalent[cellOf[a]]

\* Who runs or cleans a cell holds its lock, so there is one of them.
HoldsCell(w) == pc[w] # "idle" => at[w] \in Cell /\ cellLock[at[w]] = w

\* Use locks are held for the reused attempt and for the one a cleanup looks at.
HoldsUse(w) ==
    /\ pc[w] \in Using /\ record[w] # 0 => useLock[record[w]] = w
    /\ pc[w] \in Looking => target[w] # 0 /\ useLock[target[w]] = w
    /\ pc[w] \in {"idle", "deciding", "reading", "locking", "pruning", "scanning",
                   "unlocking"} => \A a \in Attempt : useLock[a] # w

\* The attempt a worker makes is of its cell, live, and sealed once measured;
\* the artifact it generated is there.
MakesOwn(w) ==
    pc[w] \in Making =>
      /\ mine[w] # 0 /\ mine[w] <= count
      /\ cellOf[mine[w]] = at[w] /\ place[mine[w]] = "live"
      /\ sealed[mine[w]] = (IF pc[w] = "publishing" THEN "ok" ELSE "open")
      /\ pc[w] = "measuring" /\ record[w] = 0 => mine[w] \in payload

\* What it is about to publish names its own artifact, which is there, or the
\* one of the result it reused.
Publishes(w) ==
    pc[w] = "publishing" /\ uses[mine[w]] # 0 =>
      IF record[w] = 0 THEN uses[mine[w]] = mine[w] /\ mine[w] \in payload
                       ELSE uses[mine[w]] = uses[record[w]] /\ uses[mine[w]] # mine[w]

\* A result that is reused was a success, of an equivalent cell or the current
\* one of this cell; the artifact its own attempt made is still there.
Reuses(w) ==
    /\ pc[w] \in {"reading", "following"} => pointer[w] # 0
    /\ pc[w] = "reading" =>
         uses[pointer[w]] # 0 /\ cellOf[pointer[w]] \in Equivalent[at[w]]
    /\ pc[w] = "locking" => record[w] # 0
    /\ pc[w] \notin ({"locking", "leaving"} \cup Using) => record[w] = 0
    /\ pc[w] \in ({"locking"} \cup Using) /\ record[w] # 0 =>
         /\ uses[record[w]] # 0
         /\ cellOf[record[w]] \in Equivalent[at[w]] \/ record[w] = current[at[w]]
    /\ pc[w] \in Using /\ record[w] # 0 /\ uses[record[w]] = record[w] =>
         record[w] \in payload /\ place[record[w]] = "live"

\* A cleanup looks at live attempts of its cell.
LooksAtOwn(w) ==
    /\ pc[w] \in Cleaning =>
         \A a \in todo[w] : cellOf[a] = at[w] /\ place[a] = "live"
    /\ pc[w] \in Looking =>
         /\ cellOf[target[w]] = at[w] /\ target[w] \notin todo[w]
         /\ place[target[w]] = (IF pc[w] = "moved" THEN "history" ELSE "live")

\* The consumers a cleanup has read: whichever of them still needs its target
\* was seen to need it, whatever they published since.
Protects(w) ==
    pc[w] \in {"consulting", "following"} =>
      /\ current[at[w]] \in protected[w]
      /\ NeverRetimed =>
           \A x \in Consumers[at[w]] \ unread[w] :
             (current[x] # 0 /\ uses[current[x]] = target[w]) =>
               \/ target[w] \in protected[w]
               \/ pc[w] = "following" /\ uses[pointer[w]] = target[w]

\* No artifact of the cell is in the history from the pruning on, but that of
\* the attempt that is being moved.
Light(w) ==
    pc[w] \in Cleaning =>
      \A a \in payload : cellOf[a] = at[w] =>
        place[a] = "live" \/ (pc[w] = "moved" /\ a = target[w])

Stores == PointersStand /\ BorrowedStand /\ Unmade /\ Named /\ Lineage
Works(w) ==
    /\ HoldsCell(w) /\ HoldsUse(w) /\ MakesOwn(w) /\ Publishes(w) /\ Reuses(w)
    /\ LooksAtOwn(w) /\ Protects(w) /\ Light(w)
IInv == TypeOK /\ Stores /\ \A w \in Worker : Works(w)

----------------------------------------------------------------------------
(* Lemmas                                                                  *)


\* What is said of attempts and pointers alone survives where they do not change.
LEMMA Quiet ==
    ASSUME Stores, UNCHANGED <<attempts, current>>
    PROVE  Stores'
<1> USE DEF Stores, attempts, NeverRetimed
<1>1. PointersStand' /\ BorrowedStand'
  BY DEF PointersStand, BorrowedStand, Usable
<1>2. Unmade' /\ Named' /\ Lineage'
  BY DEF Unmade, Named, Lineage
<1> QED
  BY <1>1, <1>2

\* The registers and the locks of worker v stay what they are.
Still(v) ==
    /\ pc'[v] = pc[v] /\ at'[v] = at[v] /\ pointer'[v] = pointer[v]
    /\ record'[v] = record[v] /\ mine'[v] = mine[v] /\ target'[v] = target[v]
    /\ todo'[v] = todo[v] /\ unread'[v] = unread[v] /\ protected'[v] = protected[v]
    /\ \A x \in Cell : cellLock[x] = v => cellLock'[x] = v
    /\ \A a \in Attempt : useLock'[a] = v <=> useLock[a] = v

\* A worker is not concerned by what others do with their registers and locks.
LEMMA Frame ==
    ASSUME NEW v \in Worker, TypeOK, Works(v), Still(v), UNCHANGED <<attempts, current>>
    PROVE  Works(v)'
<1> USE DEF Still, attempts, Works
<1>1. HoldsCell(v)'
  BY DEF HoldsCell
<1>2. HoldsUse(v)'
  BY DEF HoldsUse, TypeOK, Using, Making, Looking, Attempt
<1>3. MakesOwn(v)' /\ Publishes(v)'
  BY DEF MakesOwn, Publishes
<1>4. Reuses(v)'
  BY DEF Reuses
<1>5. LooksAtOwn(v)' /\ Light(v)'
  BY DEF LooksAtOwn, Light
<1>6. Protects(v)'
  BY DEF Protects, NeverRetimed
<1> QED
  BY <1>1, <1>2, <1>3, <1>4, <1>5, <1>6

\* Two workers do not run one cell.
LEMMA Apart ==
    ASSUME NEW v \in Worker, NEW w \in Worker, v # w, HoldsCell(v), HoldsCell(w),
           pc[v] # "idle", pc[w] # "idle"
    PROVE  at[v] # at[w]
  BY DEF HoldsCell

\* No later result makes good that a cell was timed again.
LEMMA RetimedStays ==
    ASSUME TypeOK, Named,
           \A a \in Attempt : uses[a] # 0 => uses'[a] = uses[a] /\ cellOf'[a] = cellOf[a]
    PROVE  NeverRetimed' => NeverRetimed
<1> SUFFICES ASSUME NeverRetimed', NEW a \in Attempt, uses[a] \notin {0, a}
             PROVE  cellOf[uses[a]] # cellOf[a]
  BY DEF NeverRetimed
<1>. uses[a] \in 0..MaxAttempts
  BY DEF TypeOK
<1>1. uses[a] \in Attempt /\ uses[uses[a]] # 0
  BY SizeAssumption DEF Named, Attempt
<1>2. uses'[a] = uses[a] /\ cellOf'[a] = cellOf[a] /\ cellOf'[uses[a]] = cellOf[uses[a]]
  BY <1>1
<1> QED
  BY <1>2 DEF NeverRetimed

\* A worker is not concerned by what another one does with an attempt m that is
\* its own or locked by it.
LEMMA FrameOfAttempt ==
    ASSUME NEW v \in Worker, NEW w \in Worker, v # w, NEW m \in Attempt,
           TypeOK, Stores, Works(v), Still(v), UNCHANGED current, count <= count',
           pc[v] # "idle" => cellOf'[m] # at[v] /\ (cellOf[m] # at[v] \/ place[m] = "none"),
           uses[m] = 0 \/ useLock[m] = w,
           UNCHANGED uses \/ sealed[m] = "open",
           uses[m] # 0 => uses'[m] = uses[m] /\ cellOf'[m] = cellOf[m],
           \A a \in Attempt \ {m} :
             /\ uses'[a] = uses[a] /\ cellOf'[a] = cellOf[a] /\ place'[a] = place[a]
             /\ sealed'[a] = sealed[a] /\ (a \in payload' <=> a \in payload),
           payload' \subseteq Attempt, count' \in Nat
    PROVE  Works(v)'
<1> USE DEF Still, Works, Stores
<1>1. HoldsCell(v)'
  BY DEF HoldsCell
<1>2. HoldsUse(v)'
  BY DEF HoldsUse, TypeOK, Using, Making, Looking, Attempt
<1>3. MakesOwn(v)' /\ Publishes(v)'
  <2>1. pc[v] \in Making => mine[v] \in Attempt \ {m}
    BY DEF MakesOwn, TypeOK, Attempt, Making
  <2>2. pc[v] \in Making /\ record[v] # 0 => record[v] \in Attempt /\ uses[record[v]] # 0
    BY DEF Reuses, TypeOK, Attempt, Making, Using
  <2>3. MakesOwn(v)'
    BY <2>1 DEF MakesOwn, TypeOK
  <2>4. Publishes(v)'
    BY <2>1, <2>2 DEF Publishes, Making, TypeOK
  <2> QED
    BY <2>3, <2>4
<1>4. Reuses(v)'
  <2>1. pc[v] = "reading" =>
          uses[pointer[v]] # 0 /\ uses'[pointer[v]] # 0
          /\ cellOf'[pointer[v]] = cellOf[pointer[v]]
    BY DEF Reuses, TypeOK, Attempt
  <2>2. pc[v] \in ({"locking"} \cup Using) /\ record[v] # 0 =>
          uses'[record[v]] = uses[record[v]] /\ cellOf'[record[v]] = cellOf[record[v]]
    BY DEF Reuses, TypeOK, Attempt
  <2>3. pc[v] \in Using /\ record[v] # 0 => record[v] \in Attempt \ {m}
    BY DEF Reuses, HoldsUse, TypeOK, Attempt
  <2> QED
    BY <2>1, <2>2, <2>3 DEF Reuses
<1>5. LooksAtOwn(v)'
  <2>1. pc[v] \in Cleaning => todo[v] \subseteq Attempt \ {m}
    BY DEF LooksAtOwn, TypeOK, Cleaning, Looking
  <2>2. pc[v] \in Looking => target[v] \in Attempt \ {m}
    BY DEF LooksAtOwn, HoldsUse, TypeOK, Looking, Attempt
  <2> QED
    BY <2>1, <2>2 DEF LooksAtOwn
<1>6. Light(v)'
  BY DEF Light, Cleaning, Looking, TypeOK
<1>7. Protects(v)'
  <2>1. NeverRetimed' => NeverRetimed
    BY RetimedStays
  <2>2. ASSUME NEW x \in Cell, current[x] # 0, uses'[current[x]] # 0
        PROVE  uses'[current[x]] = uses[current[x]]
    <3>1. current[x] \in Attempt /\ sealed[current[x]] = "ok"
      BY <2>2 DEF PointersStand, TypeOK, Attempt
    <3> QED
      BY <3>1
  <2>3. pc[v] \in {"consulting", "following"} => target[v] # 0 /\ at[v] \in Cell
    BY DEF HoldsUse, HoldsCell, Looking
  <2>4. pc[v] = "following" /\ uses[pointer[v]] = target[v] =>
          uses'[pointer[v]] = target[v]
    BY <2>3 DEF Reuses, TypeOK, Attempt
  <2> QED
    BY <2>1, <2>2, <2>3, <2>4, CellAssumption DEF Protects
<1> QED
  BY <1>1, <1>2, <1>3, <1>4, <1>5, <1>6, <1>7

\* An artifact that a result is about to borrow exists, and the worker has its
\* use lock or the current result of its cell borrowed it already.
LEMMA BorrowsHeld ==
    ASSUME NEW w \in Worker, IInv, NeverRetimed, pc[w] = "publishing",
           uses[mine[w]] \notin {0, mine[w]}
    PROVE  /\ uses[mine[w]] \in Usable
           /\ \/ useLock[uses[mine[w]]] = w
              \/ current[at[w]] # 0 /\ uses[current[at[w]]] = uses[mine[w]]
<1> DEFINE b == uses[mine[w]]
           r == record[w]
<1>1. r \in Attempt /\ uses[r] = b /\ b # 0 /\ uses[b] = b /\ mine[w] \in Attempt
  BY DEF IInv, Stores, Works, Publishes, Named, MakesOwn, Making, TypeOK, Attempt
<1>2. at[w] \in Cell /\ cellOf[mine[w]] = at[w]
  BY DEF IInv, Works, HoldsCell, MakesOwn, Making
<1>3. cellOf[b] \in Equivalent[at[w]] /\ cellOf[b] # at[w]
  BY <1>1, <1>2, CellAssumption DEF IInv, Stores, Lineage
<1>4. CASE r = current[at[w]]
  BY <1>1, <1>2, <1>4 DEF IInv, Stores, BorrowedStand, Attempt
<1>5. CASE r # current[at[w]]
  <2>1. cellOf[r] \in Equivalent[at[w]]
    BY <1>1, <1>5, SizeAssumption DEF IInv, Works, Reuses, Using, Making, Attempt
  <2>2. r = b
    <3>1. r # b => cellOf[b] \in Equivalent[cellOf[r]]
      BY <1>1 DEF IInv, Stores, Lineage
    <3> QED
      BY <1>2, <1>3, <2>1, <3>1, PairAssumption, CellAssumption
  <2> QED
    BY <1>1, <2>2, SizeAssumption
    DEF IInv, Works, HoldsUse, Reuses, Using, Making, Usable, Attempt
<1> QED
  BY <1>4, <1>5

\* What a cleanup moves is not current, nor borrowed by a current result, though
\* the pointers of the other cells were read without their locks.
LEMMA MovesNothingNeeded ==
    ASSUME NEW w \in Worker, IInv, Consulted(w), target[w] \notin protected[w],
           NEW x \in Cell, current[x] # 0
    PROVE  current[x] # target[w] /\ (NeverRetimed => uses[current[x]] # target[w])
<1> DEFINE b == target[w]
<1>1. /\ pc[w] = "consulting" /\ b \in Attempt /\ at[w] \in Cell
      /\ cellOf[b] = at[w] /\ current[at[w]] # b
  BY DEF Consulted, IInv, Works, HoldsCell, HoldsUse, LooksAtOwn, Protects, Looking,
     TypeOK, Attempt
<1>2. current[x] \in Attempt /\ cellOf[current[x]] = x
  BY DEF IInv, Stores, PointersStand, TypeOK, Attempt
<1>3. current[x] # b
  BY <1>1, <1>2
<1>4. ASSUME NeverRetimed, uses[current[x]] = b
      PROVE  FALSE
  <2>1. x \in Consumers[at[w]]
    BY <1>1, <1>2, <1>3, <1>4, CellAssumption, SizeAssumption
    DEF IInv, Stores, Lineage, Attempt
  <2> QED
    BY <1>1, <1>4, <2>1 DEF Consulted, IInv, Works, Protects
<1> QED
  BY <1>3, <1>4

----------------------------------------------------------------------------
(* The steps that change no attempt and no pointer                         *)

LEMMA LockCellStep ==
    ASSUME NEW w \in Worker, NEW x \in Cell, NEW then \in {"deciding", "pruning"},
           IInv, LockCell(w, x, then)
    PROVE  IInv'
<1> USE SizeAssumption DEF Attempt, LockCell, attempts, scan, Goto
<1>1. Stores'
  BY Quiet DEF IInv
<1>2. TypeOK'
  BY DEF IInv, TypeOK, Works, HoldsCell, HoldsUse
<1>3. Works(w)'
  <2>1. HoldsCell(w)'
    BY DEF IInv, TypeOK, Works, HoldsCell
  <2>2. HoldsUse(w)'
    BY DEF IInv, TypeOK, Works, HoldsUse, Using, Making, Looking
  <2>3. MakesOwn(w)'
    BY DEF IInv, TypeOK, Works, MakesOwn, Making
  <2>4. Publishes(w)'
    BY DEF IInv, TypeOK, Works, Publishes
  <2>5. Reuses(w)'
    BY DEF IInv, TypeOK, Works, Reuses, Using, Making
  <2>6. LooksAtOwn(w)'
    BY DEF IInv, TypeOK, Works, LooksAtOwn, Cleaning, Looking
  <2>7. Protects(w)'
    BY DEF IInv, TypeOK, Works, Protects
  <2>8. Light(w)'
    BY DEF IInv, TypeOK, Works, Light, Cleaning, Looking
  <2> QED
    BY <2>1, <2>2, <2>3, <2>4, <2>5, <2>6, <2>7, <2>8 DEF Works
<1>4. ASSUME NEW v \in Worker \ {w}
      PROVE  Works(v)'
  <2>1. Still(v)
    BY DEF IInv, TypeOK, Works, HoldsCell, Still
  <2> QED
    BY <2>1, Frame DEF IInv
<1> QED
  BY <1>1, <1>2, <1>3, <1>4 DEF IInv

LEMMA ReadPointerStep ==
    ASSUME NEW w \in Worker, NEW x \in Cell, IInv, ReadPointer(w, x)
    PROVE  IInv'
<1> USE SizeAssumption DEF Attempt, ReadPointer, attempts, locks, scan, Goto,
   Successful
<1>1. Stores'
  BY Quiet DEF IInv
<1>2. TypeOK'
  BY DEF IInv, TypeOK, Works, HoldsCell, HoldsUse
<1>3. Works(w)'
  <2>1. HoldsCell(w)'
    BY DEF IInv, TypeOK, Works, HoldsCell
  <2>2. HoldsUse(w)'
    BY DEF IInv, TypeOK, Works, HoldsUse, Using, Making, Looking
  <2>3. MakesOwn(w)'
    BY DEF IInv, TypeOK, Works, MakesOwn, Making
  <2>4. Publishes(w)'
    BY DEF IInv, TypeOK, Works, Publishes
  <2>5. Reuses(w)'
    <3>1. current[x] \in Attempt /\ cellOf[current[x]] = x /\ at[w] \in Cell
      BY CellAssumption DEF IInv, Stores, PointersStand, TypeOK, Works, HoldsCell
    <3> QED
      BY <3>1 DEF IInv, TypeOK, Works, Reuses, Using, Making
  <2>6. LooksAtOwn(w)'
    BY DEF IInv, TypeOK, Works, LooksAtOwn, Cleaning, Looking
  <2>7. Protects(w)'
    BY DEF IInv, TypeOK, Works, Protects
  <2>8. Light(w)'
    BY DEF IInv, TypeOK, Works, Light, Cleaning, Looking
  <2> QED
    BY <2>1, <2>2, <2>3, <2>4, <2>5, <2>6, <2>7, <2>8 DEF Works
<1>4. ASSUME NEW v \in Worker \ {w}
      PROVE  Works(v)'
  <2>1. Still(v)
    BY DEF IInv, TypeOK, Works, HoldsCell, Still
  <2> QED
    BY <2>1, Frame DEF IInv
<1> QED
  BY <1>1, <1>2, <1>3, <1>4 DEF IInv

LEMMA KeepStep ==
    ASSUME NEW w \in Worker, IInv, Keep(w)
    PROVE  IInv'
<1> USE SizeAssumption DEF Attempt, Keep, attempts, locks, run, scan, Goto
<1>1. Stores'
  BY Quiet DEF IInv
<1>2. TypeOK'
  BY DEF IInv, TypeOK, Works, HoldsCell, HoldsUse
<1>3. Works(w)'
  BY DEF IInv, TypeOK, Works, HoldsCell, HoldsUse, MakesOwn, Publishes, Reuses,
     LooksAtOwn, Protects, Light, Using, Making, Looking, Cleaning
<1>4. ASSUME NEW v \in Worker \ {w}
      PROVE  Works(v)'
  <2>1. Still(v)
    BY DEF IInv, TypeOK, Works, HoldsCell, Still
  <2> QED
    BY <2>1, Frame DEF IInv
<1> QED
  BY <1>1, <1>2, <1>3, <1>4 DEF IInv

LEMMA RetimeStep ==
    ASSUME NEW w \in Worker, IInv, Retime(w)
    PROVE  IInv'
<1> USE SizeAssumption DEF Attempt, Retime, attempts, locks, scan, Goto, Successful
<1>1. Stores'
  BY Quiet DEF IInv
<1>2. TypeOK'
  BY SMTT(20) DEF IInv, TypeOK, Works, HoldsCell, HoldsUse
<1>3. Works(w)'
  BY DEF IInv, TypeOK, Works, HoldsCell, HoldsUse, MakesOwn, Publishes, Reuses,
     LooksAtOwn, Protects, Light, Using, Making, Looking, Cleaning
<1>4. ASSUME NEW v \in Worker \ {w}
      PROVE  Works(v)'
  <2>1. Still(v)
    BY DEF IInv, TypeOK, Works, HoldsCell, Still
  <2> QED
    BY <2>1, Frame DEF IInv
<1> QED
  BY <1>1, <1>2, <1>3, <1>4 DEF IInv

LEMMA ReadRecordStep ==
    ASSUME NEW w \in Worker, IInv, ReadRecord(w)
    PROVE  IInv'
<1> USE SizeAssumption DEF Attempt, ReadRecord, attempts, locks, scan, Goto
<1>1. Stores'
  BY Quiet DEF IInv
<1>2. TypeOK'
  <2>1. pointer \in [Worker -> 0..MaxAttempts] /\ record \in [Worker -> 0..MaxAttempts]
    BY DEF IInv, TypeOK
  <2>2. pointer' \in [Worker -> 0..MaxAttempts] /\ record' \in [Worker -> 0..MaxAttempts]
    BY <2>1
  <2>3. pc' = [pc EXCEPT ![w] = "locking"] \/ pc' = [pc EXCEPT ![w] = "leaving"]
    OBVIOUS
  <2>4. \A a \in Attempt : useLock'[a] # Nobody => pc'[useLock'[a]] # "idle"
    BY <2>3 DEF IInv, TypeOK
  <2> QED
    BY <2>2, <2>3, <2>4 DEF IInv, TypeOK
<1>3. Works(w)'
  BY DEF IInv, TypeOK, Works, HoldsCell, HoldsUse, MakesOwn, Publishes, Reuses,
     LooksAtOwn, Protects, Light, Using, Making, Looking, Cleaning
<1>4. ASSUME NEW v \in Worker \ {w}
      PROVE  Works(v)'
  <2>1. Still(v)
    BY DEF IInv, TypeOK, Works, HoldsCell, Still
  <2> QED
    BY <2>1, Frame DEF IInv
<1> QED
  BY <1>1, <1>2, <1>3, <1>4 DEF IInv

LEMMA GenerateStep ==
    ASSUME NEW w \in Worker, IInv, Generate(w)
    PROVE  IInv'
<1> USE SizeAssumption DEF Attempt, Generate, attempts, locks, run, scan, Goto
<1>1. Stores'
  BY Quiet DEF IInv
<1>2. TypeOK'
  BY DEF IInv, TypeOK, Works, HoldsCell, HoldsUse
<1>3. Works(w)'
  <2>1. HoldsCell(w)'
    BY DEF IInv, TypeOK, Works, HoldsCell
  <2>2. HoldsUse(w)'
    <3>1. record[w] = 0 /\ record' = record
      BY DEF IInv, Works, Reuses, Using, Making
    <3>2. pc'[w] \in {"leaving", "creating"}
      BY DEF IInv, TypeOK
    <3> QED
      BY <3>1, <3>2 DEF HoldsUse, Using, Looking
  <2>3. MakesOwn(w)'
    BY DEF IInv, TypeOK, Works, MakesOwn, Making
  <2>4. Publishes(w)'
    BY DEF IInv, TypeOK, Works, Publishes
  <2>5. Reuses(w)'
    BY DEF IInv, TypeOK, Works, Reuses, Using, Making
  <2>6. LooksAtOwn(w)'
    BY DEF IInv, TypeOK, Works, LooksAtOwn, Cleaning, Looking
  <2>7. Protects(w)'
    BY DEF IInv, TypeOK, Works, Protects
  <2>8. Light(w)'
    BY DEF IInv, TypeOK, Works, Light, Cleaning, Looking
  <2> QED
    BY <2>1, <2>2, <2>3, <2>4, <2>5, <2>6, <2>7, <2>8 DEF Works
<1>4. ASSUME NEW v \in Worker \ {w}
      PROVE  Works(v)'
  <2>1. Still(v)
    BY DEF IInv, TypeOK, Works, HoldsCell, Still
  <2> QED
    BY <2>1, Frame DEF IInv
<1> QED
  BY <1>1, <1>2, <1>3, <1>4 DEF IInv

LEMMA LockUseStep ==
    ASSUME NEW w \in Worker, IInv, LockUse(w)
    PROVE  IInv'
<1> USE SizeAssumption DEF Attempt, LockUse, attempts, scan, Goto
<1>1. Stores'
  BY Quiet DEF IInv
<1>2. TypeOK'
  <2>1. record \in [Worker -> 0..MaxAttempts] /\ useLock \in [Attempt -> Worker \cup {Nobody}]
    BY DEF IInv, TypeOK
  <2>2. record' \in [Worker -> 0..MaxAttempts]
    <3>1. record' = record \/ record' = [record EXCEPT ![w] = 0]
      OBVIOUS
    <3> QED
      BY <2>1, <3>1
  <2>5. useLock' \in [Attempt -> Worker \cup {Nobody}]
    BY <2>1
  <2>3. pc' = [pc EXCEPT ![w] = "creating"] \/ pc' = [pc EXCEPT ![w] = "leaving"]
    OBVIOUS
  <2>4. \A a \in Attempt : useLock'[a] # Nobody => pc'[useLock'[a]] # "idle"
    BY <2>1, <2>3 DEF IInv, TypeOK
  <2> QED
    BY <2>2, <2>3, <2>4, <2>5 DEF IInv, TypeOK
<1>3. Works(w)'
  <2>1. HoldsCell(w)'
    BY DEF IInv, TypeOK, Works, HoldsCell
  <2>2. HoldsUse(w)'
    BY DEF IInv, TypeOK, Works, HoldsUse, Using, Making, Looking
  <2>3. MakesOwn(w)'
    BY DEF IInv, TypeOK, Works, MakesOwn, Making
  <2>4. Publishes(w)'
    BY DEF IInv, TypeOK, Works, Publishes
  <2>5. Reuses(w)'
    BY DEF IInv, TypeOK, Works, Reuses, Using, Making, Usable
  <2>6. LooksAtOwn(w)'
    BY DEF IInv, TypeOK, Works, LooksAtOwn, Cleaning, Looking
  <2>7. Protects(w)'
    BY DEF IInv, TypeOK, Works, Protects
  <2>8. Light(w)'
    BY DEF IInv, TypeOK, Works, Light, Cleaning, Looking
  <2> QED
    BY <2>1, <2>2, <2>3, <2>4, <2>5, <2>6, <2>7, <2>8 DEF Works
<1>4. ASSUME NEW v \in Worker \ {w}
      PROVE  Works(v)'
  <2>1. Still(v)
    BY DEF IInv, TypeOK, Works, HoldsCell, Still
  <2> QED
    BY <2>1, Frame DEF IInv
<1> QED
  BY <1>1, <1>2, <1>3, <1>4 DEF IInv

LEMMA UseBusyStep ==
    ASSUME NEW w \in Worker, IInv, UseBusy(w)
    PROVE  IInv'
<1> USE SizeAssumption DEF Attempt, UseBusy, attempts, locks, run, scan, Goto
<1>1. Stores'
  BY Quiet DEF IInv
<1>2. TypeOK'
  BY SMTT(20) DEF IInv, TypeOK, Works, HoldsCell, HoldsUse
<1>3. Works(w)'
  BY DEF IInv, TypeOK, Works, HoldsCell, HoldsUse, MakesOwn, Publishes, Reuses,
     LooksAtOwn, Protects, Light, Using, Making, Looking, Cleaning
<1>4. ASSUME NEW v \in Worker \ {w}
      PROVE  Works(v)'
  <2>1. Still(v)
    BY DEF IInv, TypeOK, Works, HoldsCell, Still
  <2> QED
    BY <2>1, Frame DEF IInv
<1> QED
  BY <1>1, <1>2, <1>3, <1>4 DEF IInv

LEMMA LeaveStep ==
    ASSUME NEW w \in Worker, IInv, Leave(w)
    PROVE  IInv'
<1> USE SizeAssumption DEF Attempt, Leave, attempts, scan, Goto
<1>1. Stores'
  BY Quiet DEF IInv
<1>2. TypeOK'
  BY DEF IInv, TypeOK, Works, HoldsCell, HoldsUse
<1>3. Works(w)'
  BY DEF IInv, TypeOK, Works, HoldsCell, HoldsUse, MakesOwn, Publishes, Reuses,
     LooksAtOwn, Protects, Light, Using, Making, Looking, Cleaning
<1>4. ASSUME NEW v \in Worker \ {w}
      PROVE  Works(v)'
  <2>1. Still(v)
    BY DEF IInv, TypeOK, Works, HoldsCell, Still
  <2> QED
    BY <2>1, Frame DEF IInv
<1> QED
  BY <1>1, <1>2, <1>3, <1>4 DEF IInv

LEMMA ConsultStep ==
    ASSUME NEW w \in Worker, NEW x \in Cell, IInv, Consult(w, x)
    PROVE  IInv'
<1> USE SizeAssumption DEF Attempt, Consult, attempts, locks, Goto
<1>1. Stores'
  BY Quiet DEF IInv
<1>2. TypeOK'
  <2>1. pointer \in [Worker -> 0..MaxAttempts] /\ unread \in [Worker -> SUBSET Cell]
        /\ current[x] \in 0..MaxAttempts
    BY DEF IInv, TypeOK
  <2>2. pointer' \in [Worker -> 0..MaxAttempts] /\ unread' \in [Worker -> SUBSET Cell]
    BY <2>1
  <2>3. pc' = pc \/ pc' = [pc EXCEPT ![w] = "following"]
    OBVIOUS
  <2> QED
    BY <2>2, <2>3, SMTT(20) DEF IInv, TypeOK
<1>3. Works(w)'
  <2>1. HoldsCell(w)'
    BY DEF IInv, TypeOK, Works, HoldsCell
  <2>2. HoldsUse(w)'
    BY DEF IInv, TypeOK, Works, HoldsUse, Using, Making, Looking
  <2>3. MakesOwn(w)'
    BY DEF IInv, TypeOK, Works, MakesOwn, Making
  <2>4. Publishes(w)'
    BY DEF IInv, TypeOK, Works, Publishes
  <2>5. Reuses(w)'
    BY DEF IInv, TypeOK, Works, Reuses, Using, Making
  <2>6. LooksAtOwn(w)'
    BY DEF IInv, TypeOK, Works, LooksAtOwn, Cleaning, Looking
  <2>7. Protects(w)'
    <3>1. /\ current[at[w]] \in protected[w]
          /\ NeverRetimed =>
               \A y \in Consumers[at[w]] \ unread[w] :
                 (current[y] # 0 /\ uses[current[y]] = target[w]) => target[w] \in protected[w]
      BY DEF IInv, Works, Protects
    <3>2. /\ at'[w] = at[w] /\ target'[w] = target[w] /\ protected'[w] = protected[w]
          /\ current' = current /\ uses' = uses /\ unread'[w] = unread[w] \ {x}
      BY DEF IInv, TypeOK
    <3>3. NeverRetimed' => NeverRetimed
      BY DEF NeverRetimed
    <3>4. current[x] # 0 => pc'[w] = "following" /\ pointer'[w] = current[x]
      BY DEF IInv, TypeOK
    <3> QED
      BY <3>1, <3>2, <3>3, <3>4 DEF Protects
  <2>8. Light(w)'
    BY DEF IInv, TypeOK, Works, Light, Cleaning, Looking
  <2> QED
    BY <2>1, <2>2, <2>3, <2>4, <2>5, <2>6, <2>7, <2>8 DEF Works
<1>4. ASSUME NEW v \in Worker \ {w}
      PROVE  Works(v)'
  <2>1. Still(v)
    BY DEF IInv, TypeOK, Works, HoldsCell, Still
  <2> QED
    BY <2>1, Frame DEF IInv
<1> QED
  BY <1>1, <1>2, <1>3, <1>4 DEF IInv

LEMMA LockTargetStep ==
    ASSUME NEW w \in Worker, NEW a \in Attempt, IInv, LockTarget(w, a)
    PROVE  IInv'
<1> USE SizeAssumption DEF Attempt, LockTarget, attempts, run, Goto
<1>1. Stores'
  BY Quiet DEF IInv
<1>2. TypeOK'
  <2>1. at[w] \in Cell
    BY DEF IInv, Works, HoldsCell
  <2>2. Consumers[at[w]] \subseteq Cell
    BY <2>1, CellAssumption
  <2>3. current[at[w]] \in 0..MaxAttempts
    BY <2>1 DEF IInv, TypeOK
  <2>4. /\ protected' \in [Worker -> SUBSET (0..MaxAttempts)]
        /\ todo' \in [Worker -> SUBSET Attempt] /\ target' \in [Worker -> 0..MaxAttempts]
        /\ unread' \in [Worker -> SUBSET Cell]
    BY <2>2, <2>3 DEF IInv, TypeOK
  <2>5. useLock' \in [Attempt -> Worker \cup {Nobody}]
    BY DEF IInv, TypeOK
  <2>6. \A b \in Attempt : useLock'[b] # Nobody => pc'[useLock'[b]] # "idle"
    BY <2>5 DEF IInv, TypeOK
  <2> QED
    BY <2>4, <2>5, <2>6 DEF IInv, TypeOK
<1>3. Works(w)'
  <2>1. HoldsCell(w)'
    BY DEF IInv, TypeOK, Works, HoldsCell
  <2>2. HoldsUse(w)'
    BY DEF IInv, TypeOK, Works, HoldsUse, Using, Making, Looking
  <2>3. MakesOwn(w)'
    BY DEF IInv, TypeOK, Works, MakesOwn, Making
  <2>4. Publishes(w)'
    BY DEF IInv, TypeOK, Works, Publishes
  <2>5. Reuses(w)'
    BY DEF IInv, TypeOK, Works, Reuses, Using, Making
  <2>6. LooksAtOwn(w)'
    BY DEF IInv, TypeOK, Works, LooksAtOwn, Cleaning, Looking
  <2>7. Protects(w)'
    BY DEF IInv, TypeOK, Works, Protects
  <2>8. Light(w)'
    BY DEF IInv, TypeOK, Works, Light, Cleaning, Looking
  <2> QED
    BY <2>1, <2>2, <2>3, <2>4, <2>5, <2>6, <2>7, <2>8 DEF Works
<1>4. ASSUME NEW v \in Worker \ {w}
      PROVE  Works(v)'
  <2>1. Still(v)
    BY DEF IInv, TypeOK, Works, HoldsCell, Still
  <2> QED
    BY <2>1, Frame DEF IInv
<1> QED
  BY <1>1, <1>2, <1>3, <1>4 DEF IInv

LEMMA TargetBusyStep ==
    ASSUME NEW w \in Worker, NEW a \in Attempt, IInv, TargetBusy(w, a)
    PROVE  IInv'
<1> USE SizeAssumption DEF Attempt, TargetBusy, attempts, locks, run
<1>1. Stores'
  BY Quiet DEF IInv
<1>2. TypeOK'
  BY DEF IInv, TypeOK, Works, HoldsCell, HoldsUse
<1>3. Works(w)'
  <2>1. HoldsCell(w)'
    BY DEF IInv, TypeOK, Works, HoldsCell
  <2>2. HoldsUse(w)'
    BY DEF IInv, TypeOK, Works, HoldsUse, Using, Making, Looking
  <2>3. MakesOwn(w)'
    BY DEF IInv, TypeOK, Works, MakesOwn, Making
  <2>4. Publishes(w)'
    BY DEF IInv, TypeOK, Works, Publishes
  <2>5. Reuses(w)'
    BY DEF IInv, TypeOK, Works, Reuses, Using, Making
  <2>6. LooksAtOwn(w)'
    BY DEF IInv, TypeOK, Works, LooksAtOwn, Cleaning, Looking
  <2>7. Protects(w)'
    BY DEF IInv, TypeOK, Works, Protects
  <2>8. Light(w)'
    BY DEF IInv, TypeOK, Works, Light, Cleaning, Looking
  <2> QED
    BY <2>1, <2>2, <2>3, <2>4, <2>5, <2>6, <2>7, <2>8 DEF Works
<1>4. ASSUME NEW v \in Worker \ {w}
      PROVE  Works(v)'
  <2>1. Still(v)
    BY DEF IInv, TypeOK, Works, HoldsCell, Still
  <2> QED
    BY <2>1, Frame DEF IInv
<1> QED
  BY <1>1, <1>2, <1>3, <1>4 DEF IInv

LEMMA FollowStep ==
    ASSUME NEW w \in Worker, IInv, Follow(w)
    PROVE  IInv'
<1> USE SizeAssumption DEF Attempt, Follow, attempts, locks, Goto, Successful
<1>1. Stores'
  BY Quiet DEF IInv
<1>2. TypeOK'
  <2>1. pointer[w] \in Attempt
    BY DEF IInv, TypeOK, Works, Reuses
  <2>2. uses[pointer[w]] \in 0..MaxAttempts
    BY <2>1 DEF IInv, TypeOK
  <2>3. protected' \in [Worker -> SUBSET (0..MaxAttempts)]
    BY <2>2 DEF IInv, TypeOK
  <2> QED
    BY <2>3 DEF IInv, TypeOK
<1>3. Works(w)'
  <2>1. HoldsCell(w)'
    BY DEF IInv, TypeOK, Works, HoldsCell
  <2>2. HoldsUse(w)'
    BY DEF IInv, TypeOK, Works, HoldsUse, Using, Making, Looking
  <2>3. MakesOwn(w)'
    BY DEF IInv, TypeOK, Works, MakesOwn, Making
  <2>4. Publishes(w)'
    BY DEF IInv, TypeOK, Works, Publishes
  <2>5. Reuses(w)'
    BY DEF IInv, TypeOK, Works, Reuses, Using, Making
  <2>6. LooksAtOwn(w)'
    BY DEF IInv, TypeOK, Works, LooksAtOwn, Cleaning, Looking
  <2>7. Protects(w)'
    <3>1. /\ current[at[w]] \in protected[w]
          /\ NeverRetimed =>
               \A y \in Consumers[at[w]] \ unread[w] :
                 (current[y] # 0 /\ uses[current[y]] = target[w]) =>
                   target[w] \in protected[w] \/ uses[pointer[w]] = target[w]
      BY DEF IInv, Works, Protects
    <3>2. /\ at'[w] = at[w] /\ target'[w] = target[w] /\ current' = current /\ uses' = uses
          /\ unread' = unread /\ protected'[w] = protected[w] \cup {uses[pointer[w]]}
      BY DEF IInv, TypeOK
    <3>3. NeverRetimed' => NeverRetimed
      BY DEF NeverRetimed
    <3> QED
      BY <3>1, <3>2, <3>3 DEF Protects
  <2>8. Light(w)'
    BY DEF IInv, TypeOK, Works, Light, Cleaning, Looking
  <2> QED
    BY <2>1, <2>2, <2>3, <2>4, <2>5, <2>6, <2>7, <2>8 DEF Works
<1>4. ASSUME NEW v \in Worker \ {w}
      PROVE  Works(v)'
  <2>1. Still(v)
    BY DEF IInv, TypeOK, Works, HoldsCell, Still
  <2> QED
    BY <2>1, Frame DEF IInv
<1> QED
  BY <1>1, <1>2, <1>3, <1>4 DEF IInv

LEMMA GiveUpStep ==
    ASSUME NEW w \in Worker, IInv, GiveUp(w)
    PROVE  IInv'
<1> USE SizeAssumption DEF Attempt, GiveUp, attempts, Goto, Unlocked, Successful
<1>1. Stores'
  BY Quiet DEF IInv
<1>2. TypeOK'
  BY SMTT(20) DEF IInv, TypeOK, Works, HoldsCell, HoldsUse
<1>3. Works(w)'
  <2>1. HoldsCell(w)'
    BY DEF IInv, TypeOK, Works, HoldsCell
  <2>2. HoldsUse(w)'
    BY DEF IInv, TypeOK, Works, HoldsUse, Using, Making, Looking
  <2>3. MakesOwn(w)'
    BY DEF IInv, TypeOK, Works, MakesOwn, Making
  <2>4. Publishes(w)'
    BY DEF IInv, TypeOK, Works, Publishes
  <2>5. Reuses(w)'
    BY DEF IInv, TypeOK, Works, Reuses, Using, Making
  <2>6. LooksAtOwn(w)'
    BY DEF IInv, TypeOK, Works, LooksAtOwn, Cleaning, Looking
  <2>7. Protects(w)'
    BY DEF IInv, TypeOK, Works, Protects
  <2>8. Light(w)'
    BY DEF IInv, TypeOK, Works, Light, Cleaning, Looking
  <2> QED
    BY <2>1, <2>2, <2>3, <2>4, <2>5, <2>6, <2>7, <2>8 DEF Works
<1>4. ASSUME NEW v \in Worker \ {w}
      PROVE  Works(v)'
  <2>1. Still(v)
    BY DEF IInv, TypeOK, Works, HoldsCell, Still
  <2> QED
    BY <2>1, Frame DEF IInv
<1> QED
  BY <1>1, <1>2, <1>3, <1>4 DEF IInv

LEMMA KeepTargetStep ==
    ASSUME NEW w \in Worker, IInv, KeepTarget(w)
    PROVE  IInv'
<1> USE SizeAssumption DEF Attempt, KeepTarget, attempts, run, Goto, Unlocked,
   Consulted
<1>1. Stores'
  BY Quiet DEF IInv
<1>2. TypeOK'
  BY SMTT(20) DEF IInv, TypeOK, Works, HoldsCell, HoldsUse
<1>3. Works(w)'
  <2>1. HoldsCell(w)'
    BY DEF IInv, TypeOK, Works, HoldsCell
  <2>2. HoldsUse(w)'
    BY DEF IInv, TypeOK, Works, HoldsUse, Using, Making, Looking
  <2>3. MakesOwn(w)'
    BY DEF IInv, TypeOK, Works, MakesOwn, Making
  <2>4. Publishes(w)'
    BY DEF IInv, TypeOK, Works, Publishes
  <2>5. Reuses(w)'
    BY DEF IInv, TypeOK, Works, Reuses, Using, Making
  <2>6. LooksAtOwn(w)'
    BY DEF IInv, TypeOK, Works, LooksAtOwn, Cleaning, Looking
  <2>7. Protects(w)'
    BY DEF IInv, TypeOK, Works, Protects
  <2>8. Light(w)'
    BY DEF IInv, TypeOK, Works, Light, Cleaning, Looking
  <2> QED
    BY <2>1, <2>2, <2>3, <2>4, <2>5, <2>6, <2>7, <2>8 DEF Works
<1>4. ASSUME NEW v \in Worker \ {w}
      PROVE  Works(v)'
  <2>1. Still(v)
    BY DEF IInv, TypeOK, Works, HoldsCell, Still
  <2> QED
    BY <2>1, Frame DEF IInv
<1> QED
  BY <1>1, <1>2, <1>3, <1>4 DEF IInv

LEMMA CleanedStep ==
    ASSUME NEW w \in Worker, IInv, Cleaned(w)
    PROVE  IInv'
<1> USE SizeAssumption DEF Attempt, Cleaned, attempts, locks, run, scan, Goto
<1>1. Stores'
  BY Quiet DEF IInv
<1>2. TypeOK'
  BY DEF IInv, TypeOK, Works, HoldsCell, HoldsUse
<1>3. Works(w)'
  <2>1. HoldsCell(w)'
    BY DEF IInv, TypeOK, Works, HoldsCell
  <2>2. HoldsUse(w)'
    BY DEF IInv, TypeOK, Works, HoldsUse, Using, Making, Looking
  <2>3. MakesOwn(w)'
    BY DEF IInv, TypeOK, Works, MakesOwn, Making
  <2>4. Publishes(w)'
    BY DEF IInv, TypeOK, Works, Publishes
  <2>5. Reuses(w)'
    BY DEF IInv, TypeOK, Works, Reuses, Using, Making
  <2>6. LooksAtOwn(w)'
    BY DEF IInv, TypeOK, Works, LooksAtOwn, Cleaning, Looking
  <2>7. Protects(w)'
    BY DEF IInv, TypeOK, Works, Protects
  <2>8. Light(w)'
    BY DEF IInv, TypeOK, Works, Light, Cleaning, Looking
  <2> QED
    BY <2>1, <2>2, <2>3, <2>4, <2>5, <2>6, <2>7, <2>8 DEF Works
<1>4. ASSUME NEW v \in Worker \ {w}
      PROVE  Works(v)'
  <2>1. Still(v)
    BY DEF IInv, TypeOK, Works, HoldsCell, Still
  <2> QED
    BY <2>1, Frame DEF IInv
<1> QED
  BY <1>1, <1>2, <1>3, <1>4 DEF IInv

LEMMA UnlockCellStep ==
    ASSUME NEW w \in Worker, IInv, UnlockCell(w)
    PROVE  IInv'
<1> USE SizeAssumption DEF Attempt, UnlockCell, attempts, scan, Goto
<1>1. Stores'
  BY Quiet DEF IInv
<1>2. TypeOK'
  BY DEF IInv, TypeOK, Works, HoldsCell, HoldsUse
<1>3. Works(w)'
  <2>1. HoldsCell(w)'
    BY DEF IInv, TypeOK, Works, HoldsCell
  <2>2. HoldsUse(w)'
    BY DEF IInv, TypeOK, Works, HoldsUse, Using, Making, Looking
  <2>3. MakesOwn(w)'
    BY DEF IInv, TypeOK, Works, MakesOwn, Making
  <2>4. Publishes(w)'
    BY DEF IInv, TypeOK, Works, Publishes
  <2>5. Reuses(w)'
    BY DEF IInv, TypeOK, Works, Reuses, Using, Making
  <2>6. LooksAtOwn(w)'
    BY DEF IInv, TypeOK, Works, LooksAtOwn, Cleaning, Looking
  <2>7. Protects(w)'
    BY DEF IInv, TypeOK, Works, Protects
  <2>8. Light(w)'
    BY DEF IInv, TypeOK, Works, Light, Cleaning, Looking
  <2> QED
    BY <2>1, <2>2, <2>3, <2>4, <2>5, <2>6, <2>7, <2>8 DEF Works
<1>4. ASSUME NEW v \in Worker \ {w}
      PROVE  Works(v)'
  <2>1. Still(v)
    BY DEF IInv, TypeOK, Works, HoldsCell, Still
  <2> QED
    BY <2>1, Frame DEF IInv
<1> QED
  BY <1>1, <1>2, <1>3, <1>4 DEF IInv

LEMMA KillStep ==
    ASSUME NEW w \in Worker, IInv, Kill(w)
    PROVE  IInv'
<1> USE SizeAssumption DEF Attempt, Kill, attempts, Goto, Unlocked
<1>1. Stores'
  BY Quiet DEF IInv
<1>2. TypeOK'
  BY SMTT(20) DEF IInv, TypeOK, Works, HoldsCell, HoldsUse
<1>3. Works(w)'
  BY DEF IInv, TypeOK, Works, HoldsCell, HoldsUse, MakesOwn, Publishes, Reuses,
     LooksAtOwn, Protects, Light, Using, Making, Looking, Cleaning
<1>4. ASSUME NEW v \in Worker \ {w}
      PROVE  Works(v)'
  <2>1. Still(v)
    BY DEF IInv, TypeOK, Works, HoldsCell, Still
  <2> QED
    BY <2>1, Frame DEF IInv
<1> QED
  BY <1>1, <1>2, <1>3, <1>4 DEF IInv

----------------------------------------------------------------------------
(* The steps that change attempts or pointers                              *)

\* The attempt that is being made is of the worker's cell, and nobody knows it.
LEMMA MineIsOpen ==
    ASSUME NEW w \in Worker, IInv, pc[w] \in {"loading", "measuring"}
    PROVE  /\ mine[w] \in Attempt /\ mine[w] <= count /\ at[w] \in Cell
           /\ cellOf[mine[w]] = at[w] /\ place[mine[w]] = "live"
           /\ sealed[mine[w]] = "open" /\ uses[mine[w]] = 0
           /\ \A a \in Attempt : uses[a] # mine[w]
           /\ \A x \in Cell : current[x] # mine[w]
<1>1. /\ mine[w] \in Attempt /\ mine[w] <= count /\ at[w] \in Cell
      /\ cellOf[mine[w]] = at[w] /\ place[mine[w]] = "live" /\ sealed[mine[w]] = "open"
  BY SizeAssumption DEF IInv, TypeOK, Works, HoldsCell, MakesOwn, Making, Attempt
<1>2. uses[mine[w]] = 0
  BY <1>1 DEF IInv, Stores, Named
<1>3. \A a \in Attempt : uses[a] # mine[w]
  BY <1>1, <1>2, SizeAssumption DEF IInv, Stores, Named, Attempt
<1>4. \A x \in Cell : current[x] # mine[w]
  BY <1>1, SizeAssumption DEF IInv, Stores, PointersStand, Attempt
<1> QED
  BY <1>1, <1>2, <1>3, <1>4

LEMMA NewAttemptStep ==
    ASSUME NEW w \in Worker, IInv, NewAttempt(w)
    PROVE  IInv'
<1> USE SizeAssumption DEF NewAttempt, locks, scan, Goto
<1> DEFINE m == count + 1
<1>1. /\ m \in Attempt /\ count \in Nat /\ at[w] \in Cell
      /\ place[m] = "none" /\ sealed[m] = "open" /\ uses[m] = 0 /\ m \notin payload
  BY DEF IInv, TypeOK, Stores, Unmade, Works, HoldsCell, Attempt
<1>2. TypeOK'
  BY <1>1 DEF IInv, TypeOK, Attempt
<1>3. Stores'
  <2>1. NeverRetimed' => NeverRetimed
    BY <1>1, RetimedStays DEF IInv, Stores, TypeOK, Attempt
  <2>2. \A a \in Attempt : uses[a] # m
    BY <1>1 DEF IInv, Stores, Named
  <2>3. PointersStand'
    BY <1>1 DEF IInv, TypeOK, Stores, PointersStand, Usable, Attempt
  <2>4. BorrowedStand'
    BY <1>1, <2>1, <2>2 DEF IInv, TypeOK, Stores, BorrowedStand, Usable, Attempt
  <2>5. Unmade'
    BY <1>1 DEF IInv, TypeOK, Stores, Unmade, Attempt
  <2>6. Named'
    BY DEF IInv, Stores, Named
  <2>7. Lineage'
    BY <1>1, <2>1, <2>2 DEF IInv, TypeOK, Stores, Lineage, Attempt
  <2> QED
    BY <2>3, <2>4, <2>5, <2>6, <2>7 DEF Stores
<1>4. Works(w)'
  <2>1. HoldsCell(w)'
    BY DEF IInv, TypeOK, Works, HoldsCell
  <2>2. HoldsUse(w)'
    BY DEF IInv, TypeOK, Works, HoldsUse, Using, Making, Looking
  <2>3. MakesOwn(w)' /\ Publishes(w)'
    BY <1>1 DEF IInv, TypeOK, MakesOwn, Publishes, Making
  <2>4. Reuses(w)'
    <3>1. record[w] # 0 => record[w] \in Attempt \ {m}
      BY <1>1 DEF IInv, TypeOK, Works, Reuses, Using, Attempt
    <3> QED
      BY <1>1, <3>1 DEF IInv, TypeOK, Works, Reuses, Using, Making
  <2>5. LooksAtOwn(w)' /\ Protects(w)' /\ Light(w)'
    BY DEF IInv, TypeOK, LooksAtOwn, Protects, Light, Cleaning, Looking
  <2> QED
    BY <2>1, <2>2, <2>3, <2>4, <2>5 DEF Works
<1>5. ASSUME NEW v \in Worker \ {w}
      PROVE  Works(v)'
  <2>1. Still(v)
    BY DEF IInv, TypeOK, Still
  <2>2. pc[v] # "idle" => at[v] # at[w]
    BY Apart DEF IInv, Works
  <2>3. \A a \in Attempt \ {m} :
          /\ uses'[a] = uses[a] /\ cellOf'[a] = cellOf[a] /\ place'[a] = place[a]
          /\ sealed'[a] = sealed[a] /\ (a \in payload' <=> a \in payload)
    BY <1>1 DEF IInv, TypeOK
  <2>4. /\ cellOf'[m] = at[w] /\ count <= count' /\ count' \in Nat
        /\ payload' \subseteq Attempt /\ UNCHANGED <<uses, current>>
    BY <1>1 DEF IInv, TypeOK
  <2> QED
    BY <1>1, <2>1, <2>2, <2>3, <2>4, FrameOfAttempt DEF IInv
<1> QED
  BY <1>2, <1>3, <1>4, <1>5 DEF IInv

LEMMA LoadStep ==
    ASSUME NEW w \in Worker, IInv, Load(w)
    PROVE  IInv'
<1> USE SizeAssumption DEF Load, SealAs, locks, run, scan, Goto
<1> DEFINE m == mine[w]
<1>1. /\ pc[w] = "loading" /\ m \in Attempt /\ m <= count /\ at[w] \in Cell /\ cellOf[m] = at[w]
      /\ place[m] = "live" /\ sealed[m] = "open" /\ uses[m] = 0
      /\ \A a \in Attempt : uses[a] # m
      /\ \A x \in Cell : current[x] # m
  BY MineIsOpen
<1>2. /\ pc' = [pc EXCEPT ![w] = "measuring"] \/ pc' = [pc EXCEPT ![w] = "leaving"]
      /\ payload' = payload \/ (record[w] = 0 /\ payload' = payload \cup {m})
      /\ sealed' = sealed \/
           (pc' = [pc EXCEPT ![w] = "leaving"] /\ sealed' = [sealed EXCEPT ![m] = "failed"])
      /\ UNCHANGED <<deaths, count, cellOf, place, uses, current, cellLock, useLock, at,
                     pointer, record, mine, todo, target, unread, protected>>
  OBVIOUS
<1>3. record[w] = 0 => pc' = [pc EXCEPT ![w] = "measuring"] /\ m \in payload'
  OBVIOUS
<1> USE <1>1, <1>2
<1> HIDE DEF Load, m
<1>4. TypeOK'
  BY DEF IInv, TypeOK, m
<1>5. Stores'
  <2>1. PointersStand'
    <3>1. ASSUME NEW x \in Cell, current[x] # 0
          PROVE  /\ current[x] \in Attempt \ {m} /\ sealed'[current[x]] = sealed[current[x]]
      BY <3>1 DEF IInv, TypeOK, Attempt
    <3> QED
      BY <3>1 DEF IInv, Stores, PointersStand, Usable
  <2>4. BorrowedStand'
    BY DEF IInv, Stores, BorrowedStand, Usable, NeverRetimed
  <2>2. Unmade'
    BY DEF IInv, TypeOK, Stores, Unmade
  <2>3. Named' /\ Lineage'
    BY DEF IInv, TypeOK, Stores, Named, Lineage, NeverRetimed
  <2> QED
    BY <2>1, <2>2, <2>3, <2>4 DEF Stores
<1>6. Works(w)'
  <2>1. HoldsCell(w)' /\ HoldsUse(w)'
    BY DEF IInv, TypeOK, Works, HoldsCell, HoldsUse, Using, Making, Looking
  <2>2. MakesOwn(w)' /\ Publishes(w)'
    BY <1>3 DEF IInv, TypeOK, MakesOwn, Publishes, Making, m
  <2>3. Reuses(w)'
    BY DEF IInv, TypeOK, Works, Reuses, Using, Making
  <2>4. LooksAtOwn(w)' /\ Protects(w)' /\ Light(w)'
    BY DEF IInv, TypeOK, LooksAtOwn, Protects, Light, Cleaning, Looking
  <2> QED
    BY <2>1, <2>2, <2>3, <2>4 DEF Works
<1>7. ASSUME NEW v \in Worker \ {w}
      PROVE  Works(v)'
  <2>1. Still(v)
    BY DEF IInv, TypeOK, Still
  <2>2. pc[v] # "idle" => at[v] # at[w]
    BY Apart DEF IInv, Works
  <2>3. \A a \in Attempt \ {m} : sealed'[a] = sealed[a] /\ (a \in payload' <=> a \in payload)
    BY DEF IInv, TypeOK
  <2>4. payload' \subseteq Attempt /\ count \in Nat
    BY DEF IInv, TypeOK
  <2> QED
    BY <2>1, <2>2, <2>3, <2>4, FrameOfAttempt DEF IInv
<1> QED
  BY <1>4, <1>5, <1>6, <1>7 DEF IInv


LEMMA FailStep ==
    ASSUME NEW w \in Worker, IInv, Fail(w)
    PROVE  IInv'
<1> USE SizeAssumption DEF Fail, SealAs, locks, run, scan, Goto
<1> DEFINE m == mine[w]
<1>1. /\ pc[w] = "measuring" /\ m \in Attempt /\ m <= count /\ at[w] \in Cell
      /\ cellOf[m] = at[w] /\ place[m] = "live" /\ sealed[m] = "open" /\ uses[m] = 0
      /\ \A a \in Attempt : uses[a] # m
      /\ \A x \in Cell : current[x] # m
  BY MineIsOpen
<1>2. /\ pc' = [pc EXCEPT ![w] = "leaving"] /\ sealed' = [sealed EXCEPT ![m] = "failed"]
      /\ payload' \in {payload, payload \ {m}}
      /\ UNCHANGED <<place, uses>>
      /\ UNCHANGED <<deaths, count, cellOf, current, cellLock, useLock, at, pointer, record, mine,
                     todo, target, unread, protected>>
  OBVIOUS
<1> USE <1>1, <1>2
<1> HIDE DEF Fail, m
<1>4. TypeOK'
  BY DEF IInv, TypeOK, m
<1>5. Stores'
  <2>1. \A x \in Cell : current[x] # 0 => current[x] \in Attempt \ {m}
    BY DEF IInv, TypeOK, Attempt
  <2>2. PointersStand'
    BY <2>1 DEF IInv, TypeOK, Stores, PointersStand, Usable
  <2>3. BorrowedStand'
    BY <2>1 DEF IInv, TypeOK, Stores, BorrowedStand, Usable, NeverRetimed, Attempt
  <2>4. Unmade'
    BY DEF IInv, TypeOK, Stores, Unmade
  <2>5. Named' /\ Lineage'
    BY DEF IInv, TypeOK, Stores, Named, Lineage, NeverRetimed
  <2> QED
    BY <2>2, <2>3, <2>4, <2>5 DEF Stores
<1>6. Works(w)'
  <2>1. HoldsCell(w)' /\ HoldsUse(w)'
    BY DEF IInv, TypeOK, Works, HoldsCell, HoldsUse, Using, Making, Looking
  <2>2. MakesOwn(w)' /\ Publishes(w)' /\ Reuses(w)'
    BY DEF IInv, TypeOK, MakesOwn, Publishes, Reuses, Using, Making
  <2>3. LooksAtOwn(w)' /\ Protects(w)' /\ Light(w)'
    BY DEF IInv, TypeOK, LooksAtOwn, Protects, Light, Cleaning, Looking
  <2> QED
    BY <2>1, <2>2, <2>3 DEF Works
<1>7. ASSUME NEW v \in Worker \ {w}
      PROVE  Works(v)'
  <2>1. Still(v)
    BY DEF IInv, TypeOK, Still
  <2>2. pc[v] # "idle" => at[v] # at[w]
    BY Apart DEF IInv, Works
  <2>3. \A a \in Attempt \ {m} :
          /\ uses'[a] = uses[a] /\ place'[a] = place[a]
          /\ sealed'[a] = sealed[a] /\ (a \in payload' <=> a \in payload)
    BY DEF IInv, TypeOK
  <2>4. payload' \subseteq Attempt /\ count \in Nat
    BY DEF IInv, TypeOK
  <2> QED
    BY <2>1, <2>2, <2>3, <2>4, FrameOfAttempt DEF IInv
<1> QED
  BY <1>4, <1>5, <1>6, <1>7 DEF IInv

LEMMA DiscardStep ==
    ASSUME NEW w \in Worker, IInv, Discard(w)
    PROVE  IInv'
<1> USE SizeAssumption DEF Discard, SealAs, locks, run, scan, Goto
<1> DEFINE m == mine[w]
<1>1. /\ pc[w] = "measuring" /\ m \in Attempt /\ m <= count /\ at[w] \in Cell
      /\ cellOf[m] = at[w] /\ place[m] = "live" /\ sealed[m] = "open" /\ uses[m] = 0
      /\ \A a \in Attempt : uses[a] # m
      /\ \A x \in Cell : current[x] # m
  BY MineIsOpen
<1>2. /\ pc' = [pc EXCEPT ![w] = "leaving"] /\ place' = [place EXCEPT ![m] = "none"]
      /\ payload' = payload \ {m}
      /\ UNCHANGED <<sealed, uses>>
      /\ UNCHANGED <<deaths, count, cellOf, current, cellLock, useLock, at, pointer, record, mine,
                     todo, target, unread, protected>>
  OBVIOUS
<1> USE <1>1, <1>2
<1> HIDE DEF Discard, m
<1>4. TypeOK'
  BY DEF IInv, TypeOK, m
<1>5. Stores'
  <2>1. \A x \in Cell : current[x] # 0 => current[x] \in Attempt \ {m}
    BY DEF IInv, TypeOK, Attempt
  <2>2. PointersStand'
    BY <2>1 DEF IInv, TypeOK, Stores, PointersStand, Usable
  <2>3. BorrowedStand'
    BY <2>1 DEF IInv, TypeOK, Stores, BorrowedStand, Usable, NeverRetimed, Attempt
  <2>4. Unmade'
    BY DEF IInv, TypeOK, Stores, Unmade
  <2>5. Named' /\ Lineage'
    BY DEF IInv, TypeOK, Stores, Named, Lineage, NeverRetimed
  <2> QED
    BY <2>2, <2>3, <2>4, <2>5 DEF Stores
<1>6. Works(w)'
  <2>1. HoldsCell(w)' /\ HoldsUse(w)'
    BY DEF IInv, TypeOK, Works, HoldsCell, HoldsUse, Using, Making, Looking
  <2>2. MakesOwn(w)' /\ Publishes(w)' /\ Reuses(w)'
    BY DEF IInv, TypeOK, MakesOwn, Publishes, Reuses, Using, Making
  <2>3. LooksAtOwn(w)' /\ Protects(w)' /\ Light(w)'
    BY DEF IInv, TypeOK, LooksAtOwn, Protects, Light, Cleaning, Looking
  <2> QED
    BY <2>1, <2>2, <2>3 DEF Works
<1>7. ASSUME NEW v \in Worker \ {w}
      PROVE  Works(v)'
  <2>1. Still(v)
    BY DEF IInv, TypeOK, Still
  <2>2. pc[v] # "idle" => at[v] # at[w]
    BY Apart DEF IInv, Works
  <2>3. \A a \in Attempt \ {m} :
          /\ uses'[a] = uses[a] /\ place'[a] = place[a]
          /\ sealed'[a] = sealed[a] /\ (a \in payload' <=> a \in payload)
    BY DEF IInv, TypeOK
  <2>4. payload' \subseteq Attempt /\ count \in Nat
    BY DEF IInv, TypeOK
  <2> QED
    BY <2>1, <2>2, <2>3, <2>4, FrameOfAttempt DEF IInv
<1> QED
  BY <1>4, <1>5, <1>6, <1>7 DEF IInv

LEMMA SealStep ==
    ASSUME NEW w \in Worker, IInv, Seal(w)
    PROVE  IInv'
<1> USE SizeAssumption DEF Seal, SealAs, locks, run, scan, Goto
<1> DEFINE m == mine[w]
<1>1. /\ pc[w] = "measuring" /\ m \in Attempt /\ m <= count /\ at[w] \in Cell
      /\ cellOf[m] = at[w] /\ place[m] = "live" /\ sealed[m] = "open" /\ uses[m] = 0
      /\ \A a \in Attempt : uses[a] # m
      /\ \A x \in Cell : current[x] # m
  BY MineIsOpen
<1>2. /\ pc' = [pc EXCEPT ![w] = "publishing"] /\ sealed' = [sealed EXCEPT ![m] = "ok"]
      /\ \/ /\ uses' = [uses EXCEPT ![m] = IF record[w] = 0 THEN m ELSE uses[record[w]]]
            /\ payload' = payload
         \/ payload' = payload \ {m} /\ uses' = uses
      /\ place' = place
      /\ UNCHANGED <<deaths, count, cellOf, current, cellLock, useLock, at, pointer, record, mine,
                     todo, target, unread, protected>>
  OBVIOUS
<1>3. /\ \A a \in Attempt \ {m} : uses'[a] = uses[a] /\ sealed'[a] = sealed[a]
      /\ \A a \in Attempt \ {m} : a \in payload' <=> a \in payload
      /\ uses'[m] # 0 => payload' = payload
      /\ uses'[m] \in {0, IF record[w] = 0 THEN m ELSE uses[record[w]]}
  BY <1>1, <1>2 DEF IInv, TypeOK
<1>4. record[w] # 0 => record[w] \in Attempt \ {m} /\ uses[record[w]] # 0
  BY <1>1 DEF IInv, TypeOK, Works, Reuses, Using, Making, Attempt
<1>5. record[w] # 0 => uses[record[w]] \in Attempt \ {m}
  BY <1>1, <1>4 DEF IInv, TypeOK, Attempt
<1> USE <1>1, <1>2
<1> HIDE DEF Seal, m
<1>6. TypeOK'
  <2>1. uses' \in [Attempt -> 0..MaxAttempts]
    <3>1. uses \in [Attempt -> 0..MaxAttempts]
      BY DEF IInv, TypeOK
    <3>2. m \in 0..MaxAttempts /\ (record[w] # 0 => uses[record[w]] \in 0..MaxAttempts)
      BY <1>5 DEF Attempt
    <3>3. \/ uses' = uses \/ uses' = [uses EXCEPT ![m] = m]
          \/ record[w] # 0 /\ uses' = [uses EXCEPT ![m] = uses[record[w]]]
      OBVIOUS
    <3> QED
      BY <3>1, <3>2, <3>3
  <2>2. payload' \subseteq Attempt
    BY DEF IInv, TypeOK
  <2> QED
    BY <2>1, <2>2 DEF IInv, TypeOK, m
<1>7. Stores'
  <2>1. \A x \in Cell : current[x] # 0 => current[x] \in Attempt \ {m}
    BY DEF IInv, TypeOK, Attempt
  <2>2. NeverRetimed' => NeverRetimed
    BY <1>3, RetimedStays DEF IInv, Stores, TypeOK
  <2>3. PointersStand'
    BY <1>3, <2>1 DEF IInv, TypeOK, Stores, PointersStand, Usable
  <2>4. BorrowedStand'
    BY <1>3, <2>1, <2>2 DEF IInv, Stores, BorrowedStand, Usable
  <2>5. Unmade'
    BY <1>3 DEF IInv, TypeOK, Stores, Unmade
  <2>6. Named'
    <3>1. uses'[m] # 0 => sealed'[m] = "ok" /\ uses'[uses'[m]] = uses'[m]
      <4>1. uses'[m] # 0 /\ record[w] # 0 =>
              uses[uses[record[w]]] = uses[record[w]] /\ uses[record[w]] \in Attempt \ {m}
        BY <1>4, <1>5 DEF IInv, TypeOK, Stores, Named, Attempt
      <4> QED
        BY <1>3, <4>1 DEF IInv, TypeOK
    <3>2. ASSUME NEW a \in Attempt \ {m}, uses[a] # 0
          PROVE  sealed'[a] = "ok" /\ uses[a] \in Attempt \ {m} /\ uses[uses[a]] = uses[a]
      BY <3>2 DEF IInv, TypeOK, Stores, Named, Attempt
    <3> QED
      BY <1>3, <3>1, <3>2 DEF Named
  <2>7. Lineage'
    <3>1. SUFFICES ASSUME NeverRetimed', NEW a \in Attempt, uses'[a] \notin {0, a}
                   PROVE  cellOf[uses'[a]] \in Equivalent[cellOf[a]]
      BY DEF Lineage
    <3>2. NeverRetimed
      BY <2>2, <3>1
    <3>3. CASE a # m
      BY <1>3, <3>1, <3>2, <3>3 DEF IInv, Stores, Lineage
    <3>4. CASE a = m
      <4> DEFINE r == record[w]
                 b == uses[r]
      <4>1. r \in Attempt /\ b \in Attempt /\ uses'[m] = b /\ r # 0
        BY <1>3, <1>4, <1>5, <3>1, <3>4 DEF IInv, TypeOK, Attempt
      <4>2. cellOf[b] # at[w]
        BY <3>1, <3>4, <4>1 DEF NeverRetimed
      <4>3. cellOf[r] \in Equivalent[at[w]] \/ cellOf[r] = at[w]
        BY <1>4, <4>1 DEF IInv, Stores, PointersStand, Works, Reuses, Using, Making
      <4>4. r # b => cellOf[b] \in Equivalent[cellOf[r]]
        BY <1>4, <3>2, <4>1 DEF IInv, Stores, Lineage
      <4> QED
        BY <3>4, <4>1, <4>2, <4>3, <4>4, CellAssumption, PairAssumption
    <3> QED
      BY <3>3, <3>4
  <2> QED
    BY <2>3, <2>4, <2>5, <2>6, <2>7 DEF Stores
<1>8. Works(w)'
  <2>1. HoldsCell(w)' /\ HoldsUse(w)'
    BY DEF IInv, TypeOK, Works, HoldsCell, HoldsUse, Using, Making, Looking
  <2>2. MakesOwn(w)'
    BY DEF IInv, TypeOK, MakesOwn, Making, m
  <2>3. Publishes(w)'
    BY <1>3, <1>4, <1>5 DEF IInv, TypeOK, Works, Publishes, MakesOwn, Making, m
  <2>4. Reuses(w)'
    BY <1>3, <1>4, <1>5 DEF IInv, TypeOK, Works, Reuses, Using, Making
  <2>5. LooksAtOwn(w)' /\ Protects(w)' /\ Light(w)'
    BY DEF IInv, TypeOK, LooksAtOwn, Protects, Light, Cleaning, Looking
  <2> QED
    BY <2>1, <2>2, <2>3, <2>4, <2>5 DEF Works
<1>9. ASSUME NEW v \in Worker \ {w}
      PROVE  Works(v)'
  <2>1. Still(v)
    BY DEF IInv, TypeOK, Still
  <2>2. pc[v] # "idle" => at[v] # at[w]
    BY Apart DEF IInv, Works
  <2>3. \A a \in Attempt \ {m} :
          /\ uses'[a] = uses[a] /\ place'[a] = place[a]
          /\ sealed'[a] = sealed[a] /\ (a \in payload' <=> a \in payload)
    BY DEF IInv, TypeOK
  <2>4. payload' \subseteq Attempt /\ count \in Nat
    BY DEF IInv, TypeOK
  <2> QED
    BY <2>1, <2>2, <2>3, <2>4, FrameOfAttempt DEF IInv
<1> QED
  BY <1>6, <1>7, <1>8, <1>9 DEF IInv

LEMMA PointStep ==
    ASSUME NEW w \in Worker, IInv, Point(w)
    PROVE  IInv'
<1> USE SizeAssumption DEF Point, attempts, locks, run, scan, Goto
<1> DEFINE m == mine[w]
<1>1. /\ m \in Attempt /\ at[w] \in Cell /\ cellOf[m] = at[w] /\ place[m] = "live"
      /\ sealed[m] = "ok" /\ current' = [current EXCEPT ![at[w]] = m]
  BY DEF IInv, TypeOK, Works, HoldsCell, MakesOwn, Making, Attempt
<1>2. uses[m] = m => m \in Usable
  BY <1>1 DEF IInv, TypeOK, Stores, Named, Works, Publishes, Reuses, HoldsUse,
     MakesOwn, Usable,
     Using, Making, Attempt
<1>3. TypeOK'
  BY <1>1 DEF IInv, TypeOK, Attempt
<1>4. NeverRetimed' => NeverRetimed
  BY DEF NeverRetimed
<1>5. Stores'
  <2>1. PointersStand'
    BY <1>1, <1>2 DEF IInv, TypeOK, Stores, PointersStand, Usable
  <2>2. BorrowedStand'
    <3>1. NeverRetimed /\ uses[m] # 0 => uses[m] \in Usable
      BY <1>2, BorrowsHeld
    <3> QED
      BY <1>1, <1>4, <3>1 DEF IInv, TypeOK, Stores, BorrowedStand, Usable
  <2>3. Unmade' /\ Named' /\ Lineage'
    BY <1>4 DEF IInv, Stores, Unmade, Named, Lineage
  <2> QED
    BY <2>1, <2>2, <2>3 DEF Stores
<1>6. Works(w)'
  <2>1. HoldsCell(w)' /\ HoldsUse(w)'
    BY DEF IInv, TypeOK, Works, HoldsCell, HoldsUse, Using, Making, Looking
  <2>2. MakesOwn(w)' /\ Publishes(w)' /\ Reuses(w)'
    BY DEF IInv, TypeOK, MakesOwn, Publishes, Reuses, Using, Making
  <2>3. LooksAtOwn(w)' /\ Protects(w)' /\ Light(w)'
    BY DEF IInv, TypeOK, LooksAtOwn, Protects, Light, Cleaning, Looking
  <2> QED
    BY <2>1, <2>2, <2>3 DEF Works
<1>7. ASSUME NEW v \in Worker \ {w}
      PROVE  Works(v)'
  <2>1. Still(v)
    BY DEF IInv, TypeOK, Still
  <2>2. pc[v] # "idle" => at[v] \in Cell /\ at[v] # at[w]
    BY Apart DEF IInv, Works, HoldsCell
  <2>3. pc[v] # "idle" => current'[at[v]] = current[at[v]]
    BY <1>1, <2>2 DEF IInv, TypeOK
  <2>4. HoldsCell(v)' /\ HoldsUse(v)'
    BY <2>1 DEF IInv, TypeOK, Works, Still, HoldsCell, HoldsUse, Using, Making,
       Looking
  <2>5. MakesOwn(v)' /\ Publishes(v)' /\ LooksAtOwn(v)' /\ Light(v)'
    BY <2>1 DEF IInv, Works, Still, MakesOwn, Publishes, LooksAtOwn, Light
  <2>6. Reuses(v)'
    BY <2>1, <2>3 DEF IInv, Works, Still, Reuses, Using, Making
  <2>7. Protects(v)'
    <3>1. SUFFICES ASSUME pc[v] \in {"consulting", "following"}
                   PROVE  Protects(v)'
      BY <2>1 DEF Still, Protects
    <3>2. /\ target[v] \in Attempt /\ useLock[target[v]] = v /\ cellOf[target[v]] = at[v]
          /\ current'[at[v]] = current[at[v]] /\ at[v] # at[w]
      BY <2>2, <2>3, <3>1 DEF IInv, TypeOK, Works, HoldsUse, LooksAtOwn, Looking,
         Attempt
    <3>3. ASSUME NeverRetimed, uses[m] = target[v]
          PROVE  current[at[w]] # 0 /\ uses[current[at[w]]] = target[v]
      <4>1. uses[m] \notin {0, m}
        BY <1>1, <3>2, <3>3 DEF Attempt
      <4> QED
        BY <3>2, <3>3, <4>1, BorrowsHeld
    <3>4. \A x \in Cell : x # at[w] => current'[x] = current[x]
      BY <1>1 DEF IInv, TypeOK
    <3>5. at[v] \in Cell /\ Consumers[at[v]] \subseteq Cell
      BY <2>2, <3>1, CellAssumption
    <3>6. current'[at[w]] = m
      BY <1>1 DEF IInv, TypeOK
    <3> QED
      BY <1>4, <2>1, <3>1, <3>2, <3>3, <3>4, <3>5, <3>6
      DEF IInv, Works, Still, Protects
  <2> QED
    BY <2>4, <2>5, <2>6, <2>7 DEF Works
<1> QED
  BY <1>3, <1>5, <1>6, <1>7 DEF IInv

LEMMA PruneStep ==
    ASSUME NEW w \in Worker, IInv, Prune(w)
    PROVE  IInv'
<1> USE SizeAssumption DEF Prune, locks, run, Goto
<1>1. /\ payload' \subseteq payload
      /\ \A a \in payload : place[a] = "live" => a \in payload'
      /\ \A a \in payload' : cellOf[a] = at[w] => place[a] # "history"
  OBVIOUS
<1>2. TypeOK'
  BY DEF IInv, TypeOK, Live
<1>3. Stores'
  <2>1. PointersStand' /\ BorrowedStand'
    BY <1>1 DEF IInv, Stores, PointersStand, BorrowedStand, Usable, NeverRetimed
  <2>2. Unmade'
    BY <1>1 DEF IInv, Stores, Unmade
  <2>3. Named' /\ Lineage'
    BY DEF IInv, Stores, Named, Lineage, NeverRetimed
  <2> QED
    BY <2>1, <2>2, <2>3 DEF Stores
<1>4. Works(w)'
  <2>1. HoldsCell(w)' /\ HoldsUse(w)'
    BY DEF IInv, TypeOK, Works, HoldsCell, HoldsUse, Using, Making, Looking
  <2>2. MakesOwn(w)' /\ Publishes(w)' /\ Reuses(w)'
    BY DEF IInv, TypeOK, Works, MakesOwn, Publishes, Reuses, Using, Making
  <2>3. LooksAtOwn(w)' /\ Protects(w)'
    BY DEF IInv, TypeOK, LooksAtOwn, Protects, Cleaning, Looking, Live
  <2>4. Light(w)'
    BY <1>1 DEF IInv, TypeOK, Stores, Unmade, Light
  <2> QED
    BY <2>1, <2>2, <2>3, <2>4 DEF Works
<1>5. ASSUME NEW v \in Worker \ {w}
      PROVE  Works(v)'
  <2>1. Still(v)
    BY DEF IInv, TypeOK, Still
  <2>2. HoldsCell(v)' /\ HoldsUse(v)'
    BY <2>1 DEF IInv, TypeOK, Works, Still, HoldsCell, HoldsUse, Using, Making,
       Looking
  <2>3. MakesOwn(v)' /\ Publishes(v)'
    BY <1>1, <2>1 DEF IInv, Works, Still, MakesOwn, Publishes, Making
  <2>4. Reuses(v)' /\ LooksAtOwn(v)'
    BY <1>1, <2>1 DEF IInv, Works, Still, Reuses, LooksAtOwn
  <2>5. Protects(v)' /\ Light(v)'
    BY <1>1, <2>1 DEF IInv, Works, Still, Protects, Light, NeverRetimed
  <2> QED
    BY <2>2, <2>3, <2>4, <2>5 DEF Works
<1> QED
  BY <1>2, <1>3, <1>4, <1>5 DEF IInv

LEMMA MoveStep ==
    ASSUME NEW w \in Worker, IInv, Move(w)
    PROVE  IInv'
<1> USE SizeAssumption DEF Move, Consulted, Obsolete, locks, run, scan, Goto
<1> DEFINE m == target[w]
<1>1. /\ m \in Attempt /\ at[w] \in Cell /\ cellOf[m] = at[w] /\ place[m] = "live"
      /\ useLock[m] = w /\ m \notin todo[w]
  BY DEF IInv, TypeOK, Works, HoldsCell, HoldsUse, LooksAtOwn, Looking, Cleaning,
     Attempt
<1>2. ASSUME NEW x \in Cell, current[x] # 0
      PROVE  /\ current[x] \in Attempt \ {m}
             /\ NeverRetimed => uses[current[x]] # m
  <2>1. current[x] # m /\ (NeverRetimed => uses[current[x]] # m)
    BY <1>2, MovesNothingNeeded
  <2>2. current[x] \in Attempt
    BY <1>2 DEF IInv, TypeOK, Attempt
  <2> QED
    BY <2>1, <2>2
<1>3. /\ place' = [place EXCEPT ![m] = "history"] /\ pc' = [pc EXCEPT ![w] = "moved"]
      /\ UNCHANGED <<deaths, count, cellOf, sealed, payload, uses, current, cellLock, useLock,
                     at, pointer, record, mine, todo, target, unread, protected>>
      /\ pc[w] = "consulting"
  OBVIOUS
<1> USE <1>1, <1>3
<1> HIDE DEF Move, m
<1>4. TypeOK'
  BY DEF IInv, TypeOK
<1>5. Stores'
  <2>1. PointersStand'
    BY <1>2 DEF IInv, TypeOK, Stores, PointersStand, Usable
  <2>2. BorrowedStand'
    BY <1>2 DEF IInv, TypeOK, Stores, BorrowedStand, Usable, NeverRetimed
  <2>3. Unmade'
    BY DEF IInv, TypeOK, Stores, Unmade
  <2>4. Named' /\ Lineage'
    BY DEF IInv, Stores, Named, Lineage, NeverRetimed
  <2> QED
    BY <2>1, <2>2, <2>3, <2>4 DEF Stores
<1>6. Works(w)'
  <2>1. HoldsCell(w)' /\ HoldsUse(w)'
    BY DEF IInv, TypeOK, Works, HoldsCell, HoldsUse, Using, Making, Looking
  <2>2. MakesOwn(w)' /\ Publishes(w)' /\ Reuses(w)'
    BY DEF IInv, TypeOK, Works, MakesOwn, Publishes, Reuses, Using, Making
  <2>3. LooksAtOwn(w)' /\ Protects(w)'
    BY DEF IInv, TypeOK, Works, LooksAtOwn, Protects, Cleaning, Looking, m
  <2>4. Light(w)'
    BY DEF IInv, TypeOK, Works, Light, Cleaning, Looking, m
  <2> QED
    BY <2>1, <2>2, <2>3, <2>4 DEF Works
<1>7. ASSUME NEW v \in Worker \ {w}
      PROVE  Works(v)'
  <2>1. Still(v)
    BY DEF IInv, TypeOK, Still
  <2>2. pc[v] # "idle" => at[v] # at[w]
    BY Apart DEF IInv, Works
  <2>3. \A a \in Attempt \ {m} : place'[a] = place[a]
    BY DEF IInv, TypeOK
  <2>4. payload \subseteq Attempt /\ count \in Nat
    BY DEF IInv, TypeOK
  <2> QED
    BY <2>1, <2>2, <2>3, <2>4, FrameOfAttempt DEF IInv
<1> QED
  BY <1>4, <1>5, <1>6, <1>7 DEF IInv

LEMMA RemoveStep ==
    ASSUME NEW w \in Worker, IInv, Remove(w)
    PROVE  IInv'
<1> USE SizeAssumption DEF Remove, Unlocked, run, Goto
<1> DEFINE m == target[w]
<1>1. /\ m \in Attempt /\ at[w] \in Cell /\ cellOf[m] = at[w] /\ place[m] = "history"
      /\ useLock[m] = w
  BY DEF IInv, TypeOK, Works, HoldsCell, HoldsUse, LooksAtOwn, Looking, Cleaning,
     Attempt
<1>2. /\ payload' \subseteq payload
      /\ \A a \in payload : a # m => a \in payload'
      /\ m \notin payload'
  OBVIOUS
<1>3. TypeOK'
  <2>1. useLock' \in [Attempt -> Worker \cup {Nobody}]
    BY DEF IInv, TypeOK
  <2>2. \A a \in Attempt : useLock'[a] # Nobody => pc'[useLock'[a]] # "idle"
    BY <2>1 DEF IInv, TypeOK
  <2> QED
    BY <2>1, <2>2 DEF IInv, TypeOK
<1>4. Stores'
  <2>1. PointersStand' /\ BorrowedStand'
    BY <1>1, <1>2 DEF IInv, Stores, PointersStand, BorrowedStand, Usable,
       NeverRetimed
  <2>2. Unmade'
    BY <1>2 DEF IInv, Stores, Unmade
  <2>3. Named' /\ Lineage'
    BY DEF IInv, Stores, Named, Lineage, NeverRetimed
  <2> QED
    BY <2>1, <2>2, <2>3 DEF Stores
<1>5. Works(w)'
  <2>1. HoldsCell(w)' /\ HoldsUse(w)'
    BY DEF IInv, TypeOK, Works, HoldsCell, HoldsUse, Using, Making, Looking
  <2>2. MakesOwn(w)' /\ Publishes(w)' /\ Reuses(w)'
    BY DEF IInv, TypeOK, Works, MakesOwn, Publishes, Reuses, Using, Making
  <2>3. LooksAtOwn(w)' /\ Protects(w)'
    BY DEF IInv, TypeOK, Works, LooksAtOwn, Protects, Cleaning, Looking
  <2>4. Light(w)'
    BY <1>2 DEF IInv, TypeOK, Works, Light, Cleaning, Looking
  <2> QED
    BY <2>1, <2>2, <2>3, <2>4 DEF Works
<1>6. ASSUME NEW v \in Worker \ {w}
      PROVE  Works(v)'
  <2>1. Still(v)
    BY DEF IInv, TypeOK, Still
  <2>2. pc[v] # "idle" => at[v] # at[w]
    BY Apart DEF IInv, Works
  <2>3. payload' \subseteq Attempt /\ count \in Nat
    BY DEF IInv, TypeOK
  <2> QED
    BY <1>1, <2>1, <2>2, <2>3, FrameOfAttempt DEF IInv
<1> QED
  BY <1>3, <1>4, <1>5, <1>6 DEF IInv


----------------------------------------------------------------------------
(* The theorems                                                            *)

LEMMA Start == Init => IInv
<1> SUFFICES ASSUME Init
             PROVE  IInv
  OBVIOUS
<1> USE SizeAssumption DEF Init, Attempt
<1>1. TypeOK
  BY DEF TypeOK
<1>2. Stores
  BY DEF Stores, PointersStand, BorrowedStand, Unmade, Named, Lineage
<1>3. ASSUME NEW w \in Worker
      PROVE  Works(w)
  BY DEF Works, HoldsCell, HoldsUse, MakesOwn, Publishes, Reuses, LooksAtOwn,
     Protects, Light,
     Using, Making, Looking, Cleaning
<1> QED
  BY <1>1, <1>2, <1>3 DEF IInv

LEMMA Step == IInv /\ [Next]_vars => IInv'
<1> SUFFICES ASSUME IInv, [Next]_vars
             PROVE  IInv'
  OBVIOUS
<1>1. CASE UNCHANGED vars
  <2>1. Stores' /\ UNCHANGED <<attempts, current>>
    BY <1>1, Quiet DEF vars, IInv
  <2>2. TypeOK'
    BY <1>1 DEF vars, attempts, locks, run, scan, IInv, TypeOK, Attempt
  <2>3. ASSUME NEW w \in Worker
        PROVE  Works(w)'
    <3>1. Still(w)
      BY <1>1 DEF vars, locks, run, scan, Still
    <3> QED
      BY <2>1, <3>1, Frame DEF IInv
  <2> QED
    BY <2>1, <2>2, <2>3 DEF IInv
<1>2. ASSUME NEW w \in Worker, RunStep(w)
      PROVE  IInv'
  <2>1. ASSUME NEW x \in Cell, StartCell(w, x)
        PROVE  IInv'
    BY <2>1, LockCellStep DEF StartCell
  <2> QED
    BY <1>2, <2>1, ReadPointerStep, KeepStep, RetimeStep, ReadRecordStep,
       GenerateStep,
       LockUseStep, UseBusyStep, NewAttemptStep, LoadStep, FailStep, DiscardStep, SealStep,
       PointStep, LeaveStep
    DEF RunStep
<1>3. ASSUME NEW w \in Worker, CleanupStep(w)
      PROVE  IInv'
  <2>1. ASSUME NEW x \in Cell, Reconcile(w, x)
        PROVE  IInv'
    BY <2>1, LockCellStep DEF Reconcile
  <2> QED
    BY <1>3, <2>1, ConsultStep, PruneStep, LockTargetStep, TargetBusyStep,
       FollowStep,
       GiveUpStep, KeepTargetStep, MoveStep, RemoveStep, CleanedStep, UnlockCellStep
    DEF CleanupStep
<1> QED
  BY <1>1, <1>2, <1>3, KillStep DEF Next

\* The inductive invariant: types, the records of the store, and for each worker
\* the locks it holds, what it makes, reuses, looks at and protects.
THEOREM Invariant == Safety => []IInv
  BY Start, Step, PTL DEF Safety

\* Whatever is measured again, moved to the history or left by killed workers,
\* what a current result needs is there: the attempt of the pointer, its seal,
\* and its artifact, also when another cell made it and was measured again.
THEOREM WhatIsNeededStands == Safety => []NeededStand
<1>1. IInv => NeededStand
  BY DEF IInv, Stores, NeededStand
<1> QED
  BY <1>1, Invariant, PTL

\* An artifact that was found under the use lock of the attempt that made it
\* stays until the result that was measured on it is published.
THEOREM OwnReuseIsUndisturbed == Safety => []OwnReuseUndisturbed
<1>1. IInv => OwnReuseUndisturbed
  BY DEF IInv, Works, Reuses, OwnReuseUndisturbed, Usable, Using, Making
<1> QED
  BY <1>1, Invariant, PTL

\* A cleanup that comes to its end leaves no artifact of its cell in the history,
\* also none that earlier, killed cleanups left there.
THEOREM HistoryStaysLight == Safety => []HistoryIsLight
<1>1. IInv => HistoryIsLight
  BY DEF IInv, Works, Light, HistoryIsLight, Cleaning
<1> QED
  BY <1>1, Invariant, PTL

\* What moves to the history was sealed, is not current, and was not borrowed by
\* a current result, though a cleanup reads the pointers of the other cells one
\* by one and without their locks.
THEOREM OnlyObsoleteIsMoved == Safety => OnlyObsoleteMove
<1> DEFINE Moves(a) == place[a] = "live" /\ place'[a] = "history"
           Allowed(a) ==
             /\ sealed[a] # "open"
             /\ \A x \in Cell :
                  current[x] # a /\ (NeverRetimed /\ current[x] # 0 => uses[current[x]] # a)
<1>1. ASSUME IInv, [Next]_vars, NEW a \in Attempt, Moves(a)
      PROVE  Allowed(a)
  <2>1. PICK w \in Worker : Move(w)
    <3>1. \E w \in Worker : place' # place /\ (RunStep(w) \/ CleanupStep(w) \/ Kill(w))
      BY <1>1 DEF Next, vars, attempts
    <3>2. PICK w \in Worker : place' # place /\ (RunStep(w) \/ CleanupStep(w) \/ Kill(w))
      BY <3>1
    <3>3. ~NewAttempt(w) /\ ~Discard(w)
      BY <1>1 DEF NewAttempt, Discard, IInv, TypeOK
    <3>4. ~RunStep(w)
      BY <3>2, <3>3 DEF RunStep, StartCell, LockCell, ReadPointer, Keep, Retime,
         ReadRecord,
         Generate, LockUse, UseBusy, Load, Fail, Seal, Point, Leave, attempts
    <3>5. ~Kill(w)
      BY <3>2 DEF Kill, attempts
    <3>6. CleanupStep(w) => Move(w)
      BY <3>2 DEF CleanupStep, Reconcile, LockCell, Consult, Prune, LockTarget,
         TargetBusy,
         Follow, GiveUp, KeepTarget, Remove, Cleaned, UnlockCell, attempts
    <3> QED
      BY <3>2, <3>4, <3>5, <3>6
  <2>2. target[w] = a
    BY <1>1, <2>1 DEF Move, IInv, TypeOK
  <2>3. Consulted(w) /\ a \notin protected[w] /\ sealed[a] # "open"
    BY <2>1, <2>2 DEF Move, Obsolete
  <2>4. \A x \in Cell : current[x] # 0 =>
          current[x] # a /\ (NeverRetimed => uses[current[x]] # a)
    BY <1>1, <2>2, <2>3, MovesNothingNeeded
  <2> QED
    BY <2>3, <2>4, SizeAssumption DEF Attempt
<1>2. IInv /\ [Next]_vars => [\A a \in Attempt : Moves(a) => Allowed(a)]_vars
  BY <1>1
<1> QED
  BY <1>2, Invariant, PTL DEF Safety, OnlyObsoleteMove
=============================================================================
