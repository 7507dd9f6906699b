----------------------- MODULE ArenaExecution_proofs -----------------------
(***************************************************************************)
(* What the arena guarantees for every program.  The allocator first, for  *)
(* every interval list: live currents never share a plane, the free list   *)
(* stays sound, no plane is lost and no integrity error is reached.  Then  *)
(* the program on it: the amplitudes of a tile are those of the program    *)
(* and a selection resolved from addresses is the dependency closure.      *)
(*                                                                         *)
(* Four recursive functions over a program (the domains, the terms of a    *)
(* certified copy, the worklist of a selection and the closure of the      *)
(* dependencies) are used through what they compute: a value from those of *)
(* lower rank (RecursionIs), a least fixed point (IterationIs, FixedPoint).*)
(* Both rest on induction for sets of naturals (NatSet).                   *)
(***************************************************************************)
EXTENDS ArenaExecution, FunctionTheorems, FiniteSetTheorems, WellFoundedInduction, TLAPS

\* A free list: disjoint ranges no two of which touch.
Disjoint(F) == \A r, q \in F : r # q => ~Meets(r, q) /\ Stop(r) # q.base

Unmet(F, r) == \A q \in F : ~Meets(q, r)

(***************************************************************************)
(* A range has at most one free neighbour on each side, and the merged     *)
(* range starts at the neighbour before it and stops at the one after it.  *)
(***************************************************************************)
LEMMA MergedIs ==
    ASSUME NEW F \in SUBSET Ranges, Disjoint(F), NEW r \in Ranges, Unmet(F, r)
    PROVE  /\ Merged(F, r) \in Ranges
           /\ Merged(F, r).base <= r.base
           /\ Stop(r) <= Stop(Merged(F, r))
           /\ \/ Before(F, r) = {} /\ Merged(F, r).base = r.base
              \/ \E q \in F : Before(F, r) = {q} /\ Merged(F, r).base = q.base
           /\ \/ After(F, r) = {} /\ Stop(Merged(F, r)) = Stop(r)
              \/ \E q \in F : After(F, r) = {q} /\ Stop(Merged(F, r)) = Stop(q)
<1> DEFINE low  == IF Before(F, r) = {} THEN r.base
                   ELSE (CHOOSE q \in Before(F, r) : TRUE).base
           high == IF After(F, r) = {} THEN Stop(r)
                   ELSE Stop(CHOOSE q \in After(F, r) : TRUE)
<1>1. Merged(F, r) = [base |-> low, count |-> high - low]
  BY DEF Merged
<1>2. /\ low \in Nat /\ low <= r.base
      /\ \/ Before(F, r) = {} /\ low = r.base
         \/ \E q \in F : Before(F, r) = {q} /\ low = q.base
  <2>1. CASE Before(F, r) = {}
    BY <2>1 DEF Ranges
  <2>2. CASE Before(F, r) # {}
    <3>1. PICK q \in Before(F, r) : q = CHOOSE x \in Before(F, r) : TRUE
      BY <2>2
    <3>2. q \in F /\ q \in Ranges /\ Stop(q) = r.base
      BY <3>1 DEF Before
    <3>3. \A x \in Before(F, r) : x = q
      BY <3>2 DEF Before, Disjoint, Meets, Stop, Ranges
    <3>4. low = q.base
      BY <2>2, <3>1
    <3>5. Before(F, r) = {q}
      BY <3>1, <3>3
    <3>6. q.base \in Nat /\ q.base <= r.base
      BY <3>2 DEF Stop, Ranges
    <3> HIDE DEF low
    <3> QED
      BY <3>2, <3>4, <3>5, <3>6
  <2> QED
    BY <2>1, <2>2
<1>3. /\ high \in Nat /\ Stop(r) <= high
      /\ \/ After(F, r) = {} /\ high = Stop(r)
         \/ \E q \in F : After(F, r) = {q} /\ high = Stop(q)
  <2>1. CASE After(F, r) = {}
    BY <2>1 DEF Ranges, Stop
  <2>2. CASE After(F, r) # {}
    <3>1. PICK q \in After(F, r) : q = CHOOSE x \in After(F, r) : TRUE
      BY <2>2
    <3>2. q \in F /\ q \in Ranges /\ q.base = Stop(r)
      BY <3>1 DEF After
    <3>3. \A x \in After(F, r) : x = q
      BY <3>2 DEF After, Disjoint, Meets, Stop, Ranges
    <3>4. high = Stop(q)
      BY <2>2, <3>1
    <3>5. After(F, r) = {q}
      BY <3>1, <3>3
    <3>6. Stop(q) \in Nat /\ Stop(r) <= Stop(q)
      BY <3>2 DEF Stop, Ranges
    <3> HIDE DEF high
    <3> QED
      BY <3>2, <3>4, <3>5, <3>6
  <2> QED
    BY <2>1, <2>2
<1>4. r.base < Stop(r) /\ r.base \in Nat /\ Stop(r) \in Nat
  BY DEF Ranges, Stop
<1> HIDE DEF low, high
<1>5. low < high /\ high - low \in Nat \ {0} /\ low + (high - low) = high
  BY <1>2, <1>3, <1>4
<1>6. Merged(F, r).base = low /\ Stop(Merged(F, r)) = high
  BY <1>1, <1>5 DEF Stop
<1>7. Merged(F, r) \in Ranges
  BY <1>1, <1>2, <1>5 DEF Ranges
<1> QED
  BY <1>2, <1>3, <1>6, <1>7

(***************************************************************************)
(* FreeRanges::insert keeps the list disjoint and coalesced.               *)
(***************************************************************************)
LEMMA InsertedDisjoint ==
    ASSUME NEW F \in SUBSET Ranges, Disjoint(F), NEW r \in Ranges, Unmet(F, r)
    PROVE  Inserted(F, r) \in SUBSET Ranges /\ Disjoint(Inserted(F, r))
<1> DEFINE m == Merged(F, r)
           rest == F \ (Before(F, r) \cup After(F, r))
<1>1. /\ m \in Ranges /\ m.base <= r.base /\ Stop(r) <= Stop(m)
      /\ \/ Before(F, r) = {} /\ m.base = r.base
         \/ \E q \in F : Before(F, r) = {q} /\ m.base = q.base
      /\ \/ After(F, r) = {} /\ Stop(m) = Stop(r)
         \/ \E q \in F : After(F, r) = {q} /\ Stop(m) = Stop(q)
  BY MergedIs
<1>2. Inserted(F, r) = rest \cup {m}
  BY DEF Inserted
<1> HIDE DEF m
<1>3. ASSUME NEW q \in rest
      PROVE  ~Meets(q, m) /\ Stop(q) # m.base /\ Stop(m) # q.base
  <2>1. q \in F /\ q \in Ranges /\ ~Meets(q, r) /\ Stop(q) # r.base /\ q.base # Stop(r)
    BY DEF Unmet, Before, After
  <2>2. CASE Stop(q) < r.base
    <3>1. Stop(q) < m.base
      <4>1. CASE Before(F, r) = {} /\ m.base = r.base
        BY <2>2, <4>1
      <4>2. CASE \E b \in F : Before(F, r) = {b} /\ m.base = b.base
        <5>1. PICK b \in F : Before(F, r) = {b} /\ m.base = b.base
          BY <4>2
        <5>2. b # q /\ b \in Ranges /\ Stop(b) = r.base
          BY <5>1 DEF Before
        <5>3. ~Meets(q, b) /\ Stop(q) # b.base
          BY <2>1, <5>1, <5>2 DEF Disjoint
        <5> QED
          BY <2>1, <2>2, <5>1, <5>2, <5>3 DEF Meets, Stop, Ranges
      <4> QED
        BY <1>1, <4>1, <4>2
    <3> QED
      BY <1>1, <2>1, <3>1 DEF Meets, Stop, Ranges
  <2>3. CASE q.base > Stop(r)
    <3>1. q.base > Stop(m)
      <4>1. CASE After(F, r) = {} /\ Stop(m) = Stop(r)
        BY <2>3, <4>1
      <4>2. CASE \E b \in F : After(F, r) = {b} /\ Stop(m) = Stop(b)
        <5>1. PICK b \in F : After(F, r) = {b} /\ Stop(m) = Stop(b)
          BY <4>2
        <5>2. b # q /\ b \in Ranges /\ b.base = Stop(r)
          BY <5>1 DEF After
        <5>3. ~Meets(b, q) /\ Stop(b) # q.base
          BY <2>1, <5>1, <5>2 DEF Disjoint
        <5> QED
          BY <2>1, <2>3, <5>1, <5>2, <5>3 DEF Meets, Stop, Ranges
      <4> QED
        BY <1>1, <4>1, <4>2
    <3> QED
      BY <1>1, <2>1, <3>1 DEF Meets, Stop, Ranges
  <2> QED
    BY <2>1, <2>2, <2>3 DEF Meets, Stop, Ranges
<1>4. \A q, s \in rest : q # s => ~Meets(q, s) /\ Stop(q) # s.base
  BY DEF Disjoint
<1>5. ASSUME NEW q \in rest PROVE ~Meets(m, q)
  BY <1>3 DEF Meets
<1> QED
  BY <1>1, <1>2, <1>3, <1>4, <1>5 DEF Disjoint

(***************************************************************************)
(* Inserting adds the planes of the range and no others.                   *)
(***************************************************************************)
LEMMA InsertedPlanes ==
    ASSUME NEW F \in SUBSET Ranges, Disjoint(F), NEW r \in Ranges, Unmet(F, r),
           NEW p \in Nat
    PROVE  (\E q \in Inserted(F, r) : Holds(q, p)) <=> (\E q \in F \cup {r} : Holds(q, p))
<1> DEFINE m == Merged(F, r)
           rest == F \ (Before(F, r) \cup After(F, r))
<1>1. /\ m \in Ranges /\ m.base <= r.base /\ Stop(r) <= Stop(m)
      /\ \/ Before(F, r) = {} /\ m.base = r.base
         \/ \E q \in F : Before(F, r) = {q} /\ m.base = q.base
      /\ \/ After(F, r) = {} /\ Stop(m) = Stop(r)
         \/ \E q \in F : After(F, r) = {q} /\ Stop(m) = Stop(q)
  BY MergedIs
<1>2. Inserted(F, r) = rest \cup {m}
  BY DEF Inserted
<1> HIDE DEF m
<1>3. ASSUME NEW q \in F \cup {r}, Holds(q, p)
      PROVE  \E s \in rest \cup {m} : Holds(s, p)
  <2>1. CASE q = r
    BY <1>1, <1>3, <2>1 DEF Holds, Stop, Ranges
  <2>2. CASE q \in Before(F, r)
    <3>1. m.base = q.base /\ Stop(q) = r.base /\ q \in Ranges
      BY <1>1, <2>2 DEF Before
    <3> QED
      BY <1>1, <1>3, <3>1 DEF Holds, Stop, Ranges
  <2>3. CASE q \in After(F, r)
    <3>1. Stop(m) = Stop(q) /\ q.base = Stop(r) /\ q \in Ranges
      BY <1>1, <2>3 DEF After
    <3> QED
      BY <1>1, <1>3, <3>1 DEF Holds, Stop, Ranges
  <2> QED
    BY <1>3, <2>1, <2>2, <2>3
<1>4. ASSUME Holds(m, p)
      PROVE  \E s \in F \cup {r} : Holds(s, p)
  <2>1. CASE p < r.base
    <3>1. PICK q \in F : Before(F, r) = {q} /\ m.base = q.base
      BY <1>1, <1>4, <2>1 DEF Holds, Ranges
    <3>2. Stop(q) = r.base
      BY <3>1 DEF Before
    <3> QED
      BY <1>4, <2>1, <3>1, <3>2 DEF Holds
  <2>2. CASE r.base <= p /\ p < Stop(r)
    BY <2>2 DEF Holds
  <2>3. CASE Stop(r) <= p
    <3>1. PICK q \in F : After(F, r) = {q} /\ Stop(m) = Stop(q)
      BY <1>1, <1>4, <2>3 DEF Holds, Ranges, Stop
    <3>2. q.base = Stop(r)
      BY <3>1 DEF After
    <3> QED
      BY <1>4, <2>3, <3>1, <3>2 DEF Holds
  <2> QED
    BY <2>1, <2>2, <2>3 DEF Ranges, Stop
<1> QED
  BY <1>2, <1>3, <1>4

(***************************************************************************)
(* What the insertion of a range leaves unmet and inside a bound.          *)
(***************************************************************************)
LEMMA InsertedUnmet ==
    ASSUME NEW F \in SUBSET Ranges, Disjoint(F), NEW r \in Ranges, Unmet(F, r),
           NEW x \in Ranges, ~Meets(r, x), \A q \in F : ~Meets(q, x)
    PROVE  \A q \in Inserted(F, r) : ~Meets(q, x)
<1> SUFFICES ASSUME NEW q \in Inserted(F, r), Meets(q, x)
             PROVE  FALSE
  OBVIOUS
<1>1. q \in Ranges
  BY InsertedDisjoint
<1>2. PICK p \in Nat : Holds(q, p) /\ Holds(x, p)
  <2>1. CASE q.base <= x.base
    BY <1>1, <2>1 DEF Meets, Holds, Stop, Ranges
  <2>2. CASE x.base <= q.base
    BY <1>1, <2>2 DEF Meets, Holds, Stop, Ranges
  <2> QED
    BY <1>1, <2>1, <2>2 DEF Ranges
<1>3. PICK s \in F \cup {r} : Holds(s, p)
  BY <1>2, InsertedPlanes
<1>4. Meets(s, x)
  BY <1>2, <1>3 DEF Meets, Holds, Stop, Ranges
<1> QED
  BY <1>3, <1>4

LEMMA InsertedInside ==
    ASSUME NEW F \in SUBSET Ranges, Disjoint(F), NEW r \in Ranges, Unmet(F, r),
           NEW limit \in Nat, Stop(r) <= limit, \A q \in F : Stop(q) <= limit
    PROVE  \A q \in Inserted(F, r) : Stop(q) <= limit
<1>1. Stop(Merged(F, r)) <= limit
  BY MergedIs
<1> QED
  BY <1>1 DEF Inserted

-----------------------------------------------------------------------------
(***************************************************************************)
(* The inductive invariant.  A released value ended before every value     *)
(* that is still to be placed starts: this is what makes reusing its       *)
(* planes sound, and why a release always finds its assignment.            *)
(***************************************************************************)
ReleasedIsPast ==
    /\ released \subseteq placed
    /\ \A u \in released, w \in Values \ placed : span[u].last < span[w].first

HeldApart ==
    \A u, v \in placed \ released : u # v => ~Meets(PlanesOf(u), PlanesOf(v))

IInv ==
    /\ TypeOK
    /\ NeverCorrupt
    /\ ReleasedIsPast
    /\ HeldApart
    /\ LiveNeverShare
    /\ FreeListSound
    /\ NoPlaneLost

LEMMA PlanesAreRanges ==
    ASSUME TypeOK, NEW v \in Values
    PROVE  /\ PlanesOf(v) \in Ranges
           /\ span[v].first \in Nat /\ span[v].last \in Nat /\ span[v].width \in Nat \ {0}
           /\ span[v].first <= span[v].last
BY StagesAssumption, WidthsAssumption DEF TypeOK, PlanesOf, Ranges, Spans

LEMMA InitIInv == Init => IInv
<1> SUFFICES ASSUME Init PROVE IInv
  OBVIOUS
<1>1. span \in [Values -> Spans]
  BY RequestsAssumption DEF Init, InitLayout
<1>2. TypeOK
  BY <1>1, MaxPlanesAssumption DEF Init, InitLayout, TypeOK
<1>3. 0..(stop - 1) = {}
  BY DEF Init, InitLayout
<1> QED
  BY <1>2, <1>3 DEF Init, InitLayout, IInv, NeverCorrupt, ReleasedIsPast, HeldApart,
     LiveNeverShare, FreeListSound, NoPlaneLost

(***************************************************************************)
(* A release: the planes of the released value join the free list.         *)
(***************************************************************************)
LEMMA ReleaseIInv ==
    ASSUME IInv, NEW u \in Values, NEW v \in Values, Release(u, v)
    PROVE  IInv'
<1> USE DEF IInv
<1>1. /\ u \notin released /\ v \notin placed
      /\ span[u].last < span[v].first
      /\ \A w \in Values \ placed : span[v].first <= span[w].first
  <2>1. \A w \in Values \ placed : StartsNoLater(v, w)
    BY DEF Release, IsNext
  <2> QED
    BY <2>1, PlanesAreRanges DEF Release, IsDue, IsNext, StartsNoLater
<1>2. u \in placed
  BY <1>1, PlanesAreRanges
<1>3. PlanesOf(u) \in Ranges /\ Unmet(free, PlanesOf(u))
  BY <1>1, <1>2, PlanesAreRanges DEF FreeListSound, Unmet
<1>4. ~\E r \in free : Meets(r, PlanesOf(u))
  BY <1>3 DEF Unmet
<1>5. /\ free' = Inserted(free, PlanesOf(u))
      /\ released' = released \cup {u}
      /\ UNCHANGED <<span, placed, base, stop, outcome>>
  BY <1>2, <1>4 DEF Release
<1>6. free \in SUBSET Ranges /\ Disjoint(free)
  BY DEF TypeOK, FreeListSound, Disjoint
<1>7. \A w \in Values : PlanesOf(w)' = PlanesOf(w) /\ PlanesOf(w) \in Ranges
  BY <1>5, PlanesAreRanges DEF PlanesOf
<1>8. free' \in SUBSET Ranges /\ Disjoint(free')
  BY <1>3, <1>5, <1>6, InsertedDisjoint
<1>9. TypeOK'
  BY <1>5, <1>8 DEF TypeOK
<1>10. NeverCorrupt'
  BY <1>5 DEF NeverCorrupt
<1>11. ReleasedIsPast'
  <2>1. \A w \in Values \ placed : span[u].last < span[w].first
    BY <1>1, PlanesAreRanges
  <2> QED
    BY <1>2, <1>5, <2>1 DEF ReleasedIsPast
<1>12. HeldApart'
  BY <1>5, <1>7 DEF HeldApart, TypeOK
<1>13. LiveNeverShare'
  <2>1. \A w \in placed : w \in Values
    BY DEF TypeOK
  <2> QED
    BY <1>5, <1>7, <2>1 DEF LiveNeverShare, Overlap
<1>14. FreeListSound'
  <2>1. \A r \in free' : Stop(r) <= stop
    <3>1. stop \in Nat /\ Stop(PlanesOf(u)) <= stop /\ \A q \in free : Stop(q) <= stop
      BY <1>2, MaxPlanesAssumption DEF LiveNeverShare, FreeListSound, TypeOK
    <3> QED
      BY <1>3, <1>5, <1>6, <3>1, InsertedInside
  <2>2. ASSUME NEW w \in placed \ released, w # u
        PROVE  \A r \in free' : ~Meets(r, PlanesOf(w))
    <3>1. w \in Values /\ PlanesOf(w) \in Ranges
      BY <1>7 DEF TypeOK
    <3>2. ~Meets(PlanesOf(u), PlanesOf(w)) /\ \A q \in free : ~Meets(q, PlanesOf(w))
      BY <1>1, <1>2, <2>2 DEF HeldApart, FreeListSound
    <3> QED
      BY <1>3, <1>5, <1>6, <3>1, <3>2, InsertedUnmet
  <2>3. \A r, q \in free' : r # q => ~Meets(r, q) /\ Stop(r) # q.base
    BY <1>8 DEF Disjoint
  <2>4. \A w \in placed' \ released' :
            w \in placed \ released /\ w # u /\ PlanesOf(w)' = PlanesOf(w)
    BY <1>5, <1>7 DEF TypeOK
  <2> QED
    BY <1>5, <2>1, <2>2, <2>3, <2>4 DEF FreeListSound
<1>15. NoPlaneLost'
  <2> SUFFICES ASSUME NEW p \in 0..(stop - 1)
               PROVE  \/ \E r \in free' : Holds(r, p)
                      \/ \E w \in placed' \ released' : Holds(PlanesOf(w)', p)
    BY <1>5 DEF NoPlaneLost
  <2>1. p \in Nat
    OBVIOUS
  <2>2. CASE \E r \in free \cup {PlanesOf(u)} : Holds(r, p)
    BY <1>3, <1>5, <1>6, <2>1, <2>2, InsertedPlanes
  <2>3. CASE \E w \in placed \ released : w # u /\ Holds(PlanesOf(w), p)
    BY <1>5, <1>7, <2>3 DEF TypeOK
  <2> QED
    BY <2>2, <2>3 DEF NoPlaneLost
<1> QED
  BY <1>9, <1>10, <1>11, <1>12, <1>13, <1>14, <1>15

(***************************************************************************)
(* A placement.  Both ways give the value a range apart from every range   *)
(* that is still held; what they do to the free list differs.              *)
(***************************************************************************)
LEMMA NewRangeIInv ==
    ASSUME IInv, NEW v \in Values \ placed, IsNext(v),
           placed' = placed \cup {v}, base' \in [Values -> Nat],
           \A w \in Values : w # v => base'[w] = base[w],
           UNCHANGED <<span, released>>, outcome' = outcome,
           stop' \in 0..MaxPlanes, stop <= stop',
           Stop(PlanesOf(v)') <= stop',
           \A w \in placed \ released : ~Meets(PlanesOf(w), PlanesOf(v)')
    PROVE  /\ \A w \in placed : PlanesOf(w)' = PlanesOf(w)
           /\ PlanesOf(v)' \in Ranges
           /\ ReleasedIsPast' /\ HeldApart' /\ LiveNeverShare' /\ NeverCorrupt'
<1> USE DEF IInv
<1>1. \A w \in placed : w \in Values /\ w # v /\ PlanesOf(w)' = PlanesOf(w)
  BY DEF TypeOK, PlanesOf
<1>2. PlanesOf(v)' \in Ranges /\ \A w \in placed : PlanesOf(w) \in Ranges
  BY <1>1, PlanesAreRanges DEF PlanesOf, Ranges
<1>3. ReleasedIsPast'
  BY DEF ReleasedIsPast
<1>4. \A w \in placed \ released : ~Meets(PlanesOf(v)', PlanesOf(w))
  BY DEF Meets
<1>5. HeldApart'
  BY <1>1, <1>4 DEF HeldApart, ReleasedIsPast
<1>6. \A w \in placed' : Stop(PlanesOf(w)') <= stop'
  <2>1. \A w \in placed : Stop(PlanesOf(w)) <= stop /\ Stop(PlanesOf(w)) \in Nat
    BY <1>2 DEF LiveNeverShare, Stop, Ranges
  <2> QED
    BY <1>1, <2>1, MaxPlanesAssumption DEF TypeOK
<1>7. \A w \in released : ~Overlap(v, w) /\ ~Overlap(w, v)
  BY PlanesAreRanges DEF ReleasedIsPast, Overlap, TypeOK
<1>8. ASSUME NEW u \in placed', NEW w \in placed', u # w, Overlap(u, w)
      PROVE  ~Meets(PlanesOf(u)', PlanesOf(w)')
  <2>1. CASE u \in placed /\ w \in placed
    BY <1>1, <1>8, <2>1 DEF LiveNeverShare
  <2>2. CASE u = v
    BY <1>1, <1>4, <1>7, <1>8, <2>2
  <2>3. CASE w = v
    BY <1>1, <1>7, <1>8, <2>3
  <2> QED
    BY <1>8, <2>1, <2>2, <2>3
<1>9. LiveNeverShare'
  BY <1>6, <1>8 DEF LiveNeverShare, Overlap
<1> QED
  BY <1>1, <1>2, <1>3, <1>5, <1>9 DEF NeverCorrupt

LEMMA PlaceIInv ==
    ASSUME IInv, NEW v \in Values, Place(v)
    PROVE  IInv'
<1> USE DEF IInv
<1>1. PICK r \in free : /\ IsBestFit(free, span[v].width, r)
                        /\ base' = [base EXCEPT ![v] = r.base]
                        /\ free' = Remainder(free, span[v].width, r)
  BY DEF Place
<1>2. /\ v \notin placed /\ IsNext(v) /\ placed' = placed \cup {v}
      /\ UNCHANGED <<span, released, stop, outcome>>
  BY DEF Place, IsNext
<1>3. r \in Ranges /\ span[v].width \in Nat \ {0} /\ span[v].width <= r.count
  BY <1>1, PlanesAreRanges DEF TypeOK, IsBestFit, Fits
<1>4. PlanesOf(v)' = [base |-> r.base, count |-> span[v].width]
  BY <1>1, <1>2 DEF PlanesOf, TypeOK
<1> DEFINE new  == [base |-> r.base, count |-> span[v].width]
           rest == [base |-> r.base + span[v].width, count |-> r.count - span[v].width]
           F    == free \ {r}
<1>5. new \in Ranges /\ Stop(new) <= Stop(r) /\ Stop(new) = r.base + span[v].width
  BY <1>3 DEF Ranges, Stop
<1>6. F \in SUBSET Ranges /\ Disjoint(F) /\ free \in SUBSET Ranges /\ Disjoint(free)
  BY DEF TypeOK, FreeListSound, Disjoint
<1>7. \A x \in Ranges : ~Meets(r, x) => ~Meets(new, x) /\ ~Meets(x, new)
  BY <1>3, <1>5 DEF Meets, Ranges, Stop
<1>8. \A w \in placed \ released : ~Meets(r, PlanesOf(w)) /\ PlanesOf(w) \in Ranges
  BY PlanesAreRanges DEF FreeListSound, TypeOK
<1>9. \A w \in placed \ released : ~Meets(PlanesOf(w), PlanesOf(v)')
  BY <1>4, <1>7, <1>8
<1>10. base' \in [Values -> Nat] /\ \A w \in Values : w # v => base'[w] = base[w]
  BY <1>1, <1>3 DEF TypeOK, Ranges
<1>11. stop \in Nat /\ Stop(r) <= stop /\ Stop(r) \in Nat
  BY <1>3, MaxPlanesAssumption DEF FreeListSound, TypeOK, Stop, Ranges
<1>12. Stop(PlanesOf(v)') <= stop'
  BY <1>2, <1>4, <1>5, <1>11 DEF Ranges, Stop
<1>13. /\ \A w \in placed : PlanesOf(w)' = PlanesOf(w)
       /\ PlanesOf(v)' \in Ranges
       /\ ReleasedIsPast' /\ HeldApart' /\ LiveNeverShare' /\ NeverCorrupt'
  <2>1. stop' \in 0..MaxPlanes /\ stop <= stop'
    BY <1>2, <1>11 DEF TypeOK
  <2> QED
    BY <1>2, <1>9, <1>10, <1>12, <2>1, NewRangeIInv
\* The free list, without r or with what is left of it.
<1>14. \A q \in F : q \in Ranges /\ ~Meets(q, r) /\ ~Meets(r, q) /\ Stop(q) # r.base
                     /\ q.base # Stop(r)
  BY <1>6 DEF Disjoint
<1>15. CASE r.count = span[v].width
  <2>1. free' = F /\ new = r
    BY <1>1, <1>3, <1>15 DEF Remainder, Ranges
  <2>2. TypeOK'
    BY <1>2, <1>6, <1>10, <2>1 DEF TypeOK
  <2>3. FreeListSound'
    <3>1. \A q \in free', w \in placed' \ released' : ~Meets(q, PlanesOf(w)')
      BY <1>2, <1>4, <1>13, <1>14, <2>1 DEF FreeListSound
    <3> QED
      BY <1>2, <1>6, <2>1, <3>1 DEF FreeListSound, Disjoint
  <2>4. NoPlaneLost'
    <3> SUFFICES ASSUME NEW p \in 0..(stop - 1)
                 PROVE  \/ \E q \in free' : Holds(q, p)
                        \/ \E w \in placed' \ released' : Holds(PlanesOf(w)', p)
      BY <1>2 DEF NoPlaneLost
    <3>1. CASE \E q \in free : Holds(q, p)
      <4>1. v \in placed' \ released' /\ PlanesOf(v)' = r
        BY <1>2, <1>4, <2>1 DEF ReleasedIsPast
      <4> QED
        BY <2>1, <3>1, <4>1
    <3>2. CASE \E w \in placed \ released : Holds(PlanesOf(w), p)
      BY <1>2, <1>13, <3>2
    <3> QED
      BY <3>1, <3>2 DEF NoPlaneLost
  <2> QED
    BY <1>13, <2>2, <2>3, <2>4
<1>16. CASE r.count # span[v].width
  <2>1. free' = Inserted(F, rest)
    BY <1>1, <1>16 DEF Remainder
  <2>2. /\ rest \in Ranges /\ Stop(rest) = Stop(r) /\ rest.base = Stop(new)
        /\ \A x \in Ranges : ~Meets(r, x) => ~Meets(rest, x) /\ ~Meets(x, rest)
    BY <1>3, <1>5, <1>16 DEF Ranges, Stop, Meets
  <2> HIDE DEF rest, new, F
  <2>3. Unmet(F, rest)
    BY <1>14, <2>2 DEF Unmet
  <2>4. free' \in SUBSET Ranges /\ Disjoint(free')
    BY <1>6, <2>1, <2>2, <2>3, InsertedDisjoint
  <2>5. TypeOK'
    BY <1>2, <1>10, <2>4 DEF TypeOK
  <2>6. \A q \in free' : Stop(q) <= stop
    <3>1. \A q \in F : Stop(q) <= stop
      BY DEF F, FreeListSound
    <3> QED
      BY <1>6, <1>11, <2>1, <2>2, <2>3, <3>1, InsertedInside
  <2>7. ASSUME NEW w \in placed' \ released'
        PROVE  \A q \in free' : ~Meets(q, PlanesOf(w)')
    <3>1. CASE w = v
      <4>1. ~Meets(rest, new) /\ \A q \in F : ~Meets(q, new)
        BY <1>5, <1>7, <1>14, <2>2 DEF Meets, Ranges, Stop
      <4> QED
        BY <1>4, <1>5, <1>6, <2>1, <2>2, <2>3, <3>1, <4>1, InsertedUnmet DEF new
    <3>2. CASE w \in placed \ released
      <4>1. ~Meets(rest, PlanesOf(w)) /\ \A q \in F : ~Meets(q, PlanesOf(w))
        BY <1>8, <2>2, <3>2 DEF F, FreeListSound
      <4>2. PlanesOf(w)' = PlanesOf(w) /\ PlanesOf(w) \in Ranges
        BY <1>8, <1>13, <3>2
      <4> QED
        BY <1>6, <2>1, <2>2, <2>3, <4>1, <4>2, InsertedUnmet
    <3> QED
      BY <1>2, <2>7, <3>1, <3>2
  <2>8. FreeListSound'
    BY <1>2, <2>4, <2>6, <2>7 DEF FreeListSound, Disjoint
  <2>9. NoPlaneLost'
    <3> SUFFICES ASSUME NEW p \in 0..(stop - 1)
                 PROVE  \/ \E q \in free' : Holds(q, p)
                        \/ \E w \in placed' \ released' : Holds(PlanesOf(w)', p)
      BY <1>2 DEF NoPlaneLost
    <3>1. p \in Nat
      OBVIOUS
    <3>2. CASE Holds(r, p)
      <4>1. v \in placed' \ released' /\ PlanesOf(v)' = new
        BY <1>2, <1>4 DEF ReleasedIsPast, new
      <4>2. Holds(new, p) \/ Holds(rest, p)
        BY <1>3, <1>5, <2>2, <3>1, <3>2 DEF Holds, new, Ranges, Stop
      <4>3. CASE Holds(rest, p)
        BY <1>6, <2>1, <2>2, <2>3, <3>1, <4>3, InsertedPlanes
      <4> QED
        BY <4>1, <4>2, <4>3
    <3>3. CASE \E q \in F : Holds(q, p)
      BY <1>6, <2>1, <2>2, <2>3, <3>1, <3>3, InsertedPlanes
    <3>4. CASE \E w \in placed \ released : Holds(PlanesOf(w), p)
      BY <1>2, <1>13, <3>4
    <3> QED
      BY <3>2, <3>3, <3>4 DEF NoPlaneLost, F
  <2> QED
    BY <1>13, <2>5, <2>8, <2>9
<1> QED
  BY <1>15, <1>16

LEMMA ExtendIInv ==
    ASSUME IInv, NEW v \in Values, Extend(v)
    PROVE  IInv'
<1> USE DEF IInv
<1>1. v \notin placed /\ IsNext(v) /\ UNCHANGED <<span, released, free>>
  BY DEF Extend, IsNext
<1>2. span[v].width \in Nat \ {0} /\ stop \in Nat /\ stop <= MaxPlanes
  BY PlanesAreRanges, MaxPlanesAssumption DEF TypeOK
<1>3. CASE stop + span[v].width > MaxPlanes
  <2>1. UNCHANGED <<span, placed, base, released, free, stop>> /\ outcome' = "overflow"
    BY <1>1, <1>3 DEF Extend
  <2> QED
    BY <2>1 DEF TypeOK, NeverCorrupt, ReleasedIsPast, HeldApart, LiveNeverShare, Overlap,
       FreeListSound, NoPlaneLost, PlanesOf
<1>4. CASE ~(stop + span[v].width > MaxPlanes)
  <2>1. /\ placed' = placed \cup {v} /\ base' = [base EXCEPT ![v] = stop]
        /\ stop' = stop + span[v].width /\ UNCHANGED outcome
    BY <1>4 DEF Extend
  <2>2. PlanesOf(v)' = [base |-> stop, count |-> span[v].width]
    BY <1>1, <2>1 DEF PlanesOf, TypeOK
  <2>3. /\ base' \in [Values -> Nat] /\ \A w \in Values : w # v => base'[w] = base[w]
        /\ stop' \in 0..MaxPlanes /\ stop <= stop' /\ Stop(PlanesOf(v)') = stop'
    BY <1>2, <1>4, <2>1, <2>2, MaxPlanesAssumption DEF TypeOK, Stop
  <2>4. \A x \in Ranges : Stop(x) <= stop => ~Meets(x, PlanesOf(v)')
    BY <1>2, <2>2 DEF Meets, Stop, Ranges
  <2>5. \A w \in placed \ released : ~Meets(PlanesOf(w), PlanesOf(v)')
    BY <2>4, PlanesAreRanges DEF LiveNeverShare, TypeOK
  <2>6. /\ \A w \in placed : PlanesOf(w)' = PlanesOf(w)
        /\ PlanesOf(v)' \in Ranges
        /\ ReleasedIsPast' /\ HeldApart' /\ LiveNeverShare' /\ NeverCorrupt'
    <3>1. Stop(PlanesOf(v)') <= stop'
      BY <2>3, MaxPlanesAssumption
    <3> QED
      BY <1>1, <2>1, <2>3, <2>5, <3>1, NewRangeIInv
  <2>7. TypeOK'
    BY <1>1, <2>1, <2>3 DEF TypeOK
  <2>8. FreeListSound'
    <3>1. \A r \in free : r \in Ranges /\ Stop(r) <= stop /\ Stop(r) \in Nat
      BY DEF FreeListSound, TypeOK, Stop, Ranges
    <3>2. \A r \in free' : Stop(r) <= stop'
      BY <1>1, <1>2, <2>1, <3>1
    <3>3. \A r \in free', w \in placed' \ released' : ~Meets(r, PlanesOf(w)')
      BY <1>1, <2>1, <2>4, <2>6, <3>1 DEF FreeListSound
    <3> QED
      BY <1>1, <3>2, <3>3 DEF FreeListSound
  <2>9. NoPlaneLost'
    <3> SUFFICES ASSUME NEW p \in 0..(stop' - 1)
                 PROVE  \/ \E q \in free : Holds(q, p)
                        \/ \E w \in placed' \ released : Holds(PlanesOf(w)', p)
      BY <1>1 DEF NoPlaneLost
    <3>1. CASE p \in 0..(stop - 1)
      BY <2>1, <2>6, <3>1 DEF NoPlaneLost
    <3>2. CASE p \notin 0..(stop - 1)
      <4>1. v \in placed' \ released
        BY <1>1, <2>1 DEF ReleasedIsPast
      <4>2. Holds(PlanesOf(v)', p)
        BY <1>2, <2>1, <2>2, <3>2 DEF Holds, Stop
      <4> QED
        BY <4>1, <4>2
    <3> QED
      BY <3>1, <3>2
  <2> QED
    BY <2>6, <2>7, <2>8, <2>9
<1> QED
  BY <1>3, <1>4

LEMMA NextIInv == IInv /\ [LayoutNext]_layoutVars => IInv'
<1> SUFFICES ASSUME IInv, [LayoutNext]_layoutVars PROVE IInv'
  OBVIOUS
<1>1. CASE Finish
  BY <1>1 DEF IInv, Finish, TypeOK, NeverCorrupt, ReleasedIsPast, HeldApart, LiveNeverShare,
     Overlap, FreeListSound, NoPlaneLost, PlanesOf
<1>2. CASE UNCHANGED layoutVars
  BY <1>2 DEF layoutVars, IInv, TypeOK, NeverCorrupt, ReleasedIsPast, HeldApart,
     LiveNeverShare,
     Overlap, FreeListSound, NoPlaneLost, PlanesOf
<1> QED
  BY <1>1, <1>2, ReleaseIInv, PlaceIInv, ExtendIInv DEF LayoutNext

THEOREM InvHolds == Spec => []IInv
BY InitIInv, NextIInv, PTL DEF Spec

(***************************************************************************)
(* Type correctness of the allocator's state.                              *)
(***************************************************************************)
THEOREM TypeCorrect == Spec => []TypeOK
BY InvHolds, PTL DEF IInv

(***************************************************************************)
(* Whatever the lifetimes and widths, two currents alive at the same stage *)
(* never share a component plane.                                          *)
(***************************************************************************)
THEOREM NoLivePlaneIsShared == Spec => []LiveNeverShare
BY InvHolds, PTL DEF IInv

(***************************************************************************)
(* The free list stays disjoint, coalesced, inside the arena and apart     *)
(* from every range still held.                                            *)
(***************************************************************************)
THEOREM FreeListStaysSound == Spec => []FreeListSound
BY InvHolds, PTL DEF IInv

(***************************************************************************)
(* The allocator's integrity errors are unreachable.                       *)
(***************************************************************************)
THEOREM IntegrityHolds == Spec => []NeverCorrupt
BY InvHolds, PTL DEF IInv

(***************************************************************************)
(* No plane below arena_stop is ever lost to the allocator.                *)
(***************************************************************************)
THEOREM EveryPlaneAccounted == Spec => []NoPlaneLost
BY InvHolds, PTL DEF IInv
-----------------------------------------------------------------------------
(***************************************************************************)
(* Induction over the naturals, for a set.                                 *)
(***************************************************************************)
LEMMA NatSet ==
    ASSUME NEW T \in SUBSET Nat, 0 \in T, \A n \in T : n + 1 \in T
    PROVE  T = Nat
<1> SUFFICES ASSUME T # Nat
             PROVE  FALSE
  OBVIOUS
<1> DEFINE U == Nat \ T
           R == {s \in Nat \X Nat : s[1] < s[2]}
<1>1. U \subseteq Nat /\ U # {}
  OBVIOUS
<1>2. IsWellFoundedOn(R, Nat)
  BY NatLessThanWellFounded DEF OpToRel
<1>3. PICK x \in U : \A y \in U : ~(<<y, x>> \in R)
  <2> HIDE DEF R, U
  <2> QED
    BY <1>1, <1>2, WFMin
<1>4. \A y \in U : ~(y < x)
  BY <1>3
<1> QED
  BY <1>4

(***************************************************************************)
(* Counting the elements below each one numbers a finite set in the order. *)
(***************************************************************************)
LEMMA RankIs ==
    ASSUME NEW S, IsFiniteSet(S), NEW below \in [S -> SUBSET S],
           \A x, y \in S : x # y => x \in below[y] \/ y \in below[x],
           \A x, y \in S : x \in below[y] => y \notin below[x],
           \A x, y, z \in S : x \in below[y] /\ y \in below[z] => x \in below[z]
    PROVE  /\ Cardinality(S) \in Nat
           /\ \A x \in S : Cardinality(below[x]) \in 0..(Cardinality(S) - 1)
           /\ \A x, y \in S :
                  x \in below[y] <=> Cardinality(below[x]) < Cardinality(below[y])
           /\ \A i \in 1..Cardinality(S) : \E x \in S : Cardinality(below[x]) = i - 1
<1> DEFINE rank == [x \in S |-> Cardinality(below[x])]
           n == Cardinality(S)
<1>1. n \in Nat
  BY FS_CardinalityType
<1>2. ASSUME NEW x \in S
      PROVE  IsFiniteSet(below[x]) /\ Cardinality(below[x]) \in 0..(n - 1)
  <2>1. below[x] \in SUBSET S /\ below[x] # S
    OBVIOUS
  <2>2. IsFiniteSet(below[x]) /\ Cardinality(below[x]) <= n /\ n # Cardinality(below[x])
    BY <2>1, FS_Subset
  <2>3. Cardinality(below[x]) \in Nat
    BY <2>2, FS_CardinalityType
  <2> QED
    BY <1>1, <2>2, <2>3
<1>3. ASSUME NEW x \in S, NEW y \in S, x \in below[y]
      PROVE  Cardinality(below[x]) < Cardinality(below[y])
  <2>1. below[x] \in SUBSET below[y] /\ below[x] # below[y]
    BY <1>3
  <2>2. /\ Cardinality(below[x]) <= Cardinality(below[y])
        /\ Cardinality(below[y]) # Cardinality(below[x])
    BY <1>2, <2>1, FS_Subset
  <2> QED
    BY <1>2, <2>2
<1>4. ASSUME NEW x \in S, NEW y \in S, Cardinality(below[x]) < Cardinality(below[y])
      PROVE  x \in below[y]
  <2>1. Cardinality(below[x]) \in Nat /\ Cardinality(below[y]) \in Nat
    BY <1>2
  <2>2. x # y /\ y \notin below[x]
    BY <1>3, <1>4, <2>1
  <2> QED
    BY <2>2
<1>5. \A x, y \in S : rank[x] = rank[y] => x = y
  <2> SUFFICES ASSUME NEW x \in S, NEW y \in S, rank[x] = rank[y], x # y
               PROVE  FALSE
    OBVIOUS
  <2>1. Cardinality(below[x]) \in Nat /\ Cardinality(below[y]) = Cardinality(below[x])
    BY <1>2
  <2> QED
    BY <1>3, <2>1
<1>6. \A i \in 1..n : \E x \in S : rank[x] = i - 1
  <2> DEFINE T == 0..(n - 1)
  <2>1. rank \in Injection(S, T)
    BY <1>2, <1>5 DEF Injection, IsInjective
  <2>2. IsFiniteSet(T) /\ Cardinality(T) = n
    BY <1>1, FS_Interval
  <2> HIDE DEF T, rank
  <2>3. rank \in Surjection(S, T)
    BY <2>1, <2>2, FS_Injection
  <2>4. \A t \in T : \E x \in S : rank[x] = t
    BY <2>3 DEF Surjection
  <2>5. \A i \in 1..n : i - 1 \in T
    BY <1>1 DEF T
  <2> QED
    BY <2>4, <2>5
<1> QED
  BY <1>1, <1>2, <1>3, <1>4, <1>6

LEMMA SortedIs ==
    ASSUME NEW S \in SUBSET Nat, IsFiniteSet(S)
    PROVE  /\ Cardinality(S) \in Nat
           /\ Sorted(S) \in [1..Cardinality(S) -> S]
           /\ \A i, j \in 1..Cardinality(S) : i < j => Sorted(S)[i] < Sorted(S)[j]
           /\ \A x \in S : \E i \in 1..Cardinality(S) : Sorted(S)[i] = x
<1> DEFINE below == [x \in S |-> {y \in S : y < x}]
           rank == [x \in S |-> Cardinality(below[x])]
           n == Cardinality(S)
<1>1. below \in [S -> SUBSET S] /\ \A x, y \in S : y \in below[x] <=> y < x
  OBVIOUS
<1>2. \A x \in S : rank[x] = Cardinality({y \in S : y < x})
  OBVIOUS
<1>3. \A x \in S : rank[x] = Cardinality(below[x])
  OBVIOUS
<1> HIDE DEF below, rank
<1>4. /\ \A x, y \in S : x # y => x \in below[y] \/ y \in below[x]
      /\ \A x, y \in S : x \in below[y] => y \notin below[x]
      /\ \A x, y, z \in S : x \in below[y] /\ y \in below[z] => x \in below[z]
  BY <1>1
<1>5. /\ n \in Nat
      /\ \A x \in S : Cardinality(below[x]) \in 0..(n - 1)
      /\ \A x, y \in S : x \in below[y] <=> Cardinality(below[x]) < Cardinality(below[y])
      /\ \A i \in 1..n : \E x \in S : Cardinality(below[x]) = i - 1
  BY <1>1, <1>4, RankIs
<1>6. /\ \A x \in S : rank[x] \in 0..(n - 1)
      /\ \A x, y \in S : y < x <=> rank[y] < rank[x]
      /\ \A i \in 1..n : \E x \in S : rank[x] = i - 1
  BY <1>1, <1>3, <1>5
<1> DEFINE s == Sorted(S)
<1>7. \A i \in 1..n : s[i] \in S /\ rank[s[i]] = i - 1
  <2> TAKE i \in 1..n
  <2>1. s[i] = CHOOSE x \in S : rank[x] = i - 1
    BY <1>2 DEF Sorted
  <2> QED
    BY <1>6, <2>1
<1>8. s \in [1..n -> S]
  BY <1>7 DEF Sorted
<1> HIDE DEF s
<1>9. \A i, j \in 1..n : i < j => s[i] < s[j]
  <2> TAKE i, j \in 1..n
  <2>1. i < j => rank[s[i]] < rank[s[j]]
    BY <1>5, <1>7
  <2> QED
    BY <1>6, <1>7, <2>1
<1>10. ASSUME NEW x \in S
       PROVE  \E i \in 1..n : s[i] = x
  <2> DEFINE i == rank[x] + 1
  <2>1. i \in 1..n /\ i - 1 = rank[x]
    BY <1>5, <1>6
  <2>2. s[i] \in S /\ rank[s[i]] = rank[x]
    BY <1>7, <2>1
  <2>3. ~(rank[s[i]] < rank[x]) /\ ~(rank[x] < rank[s[i]])
    BY <1>6, <2>2
  <2>4. ~(s[i] < x) /\ ~(x < s[i])
    BY <1>6, <2>2, <2>3
  <2>5. s[i] \in Nat /\ x \in Nat
    BY <2>2
  <2>6. s[i] = x
    BY <2>4, <2>5
  <2> QED
    BY <2>1, <2>6
<1> QED
  BY <1>5, <1>8, <1>9, <1>10 DEF s

(***************************************************************************)
(* A finite set of naturals has its Max.                                   *)
(***************************************************************************)
LEMMA MaxIs ==
    ASSUME NEW S \in SUBSET Nat, IsFiniteSet(S), S # {}
    PROVE  Max(S) \in S /\ \A x \in S : x <= Max(S)
<1>1. /\ Cardinality(S) \in Nat /\ Sorted(S) \in [1..Cardinality(S) -> S]
      /\ \A i, j \in 1..Cardinality(S) : i < j => Sorted(S)[i] < Sorted(S)[j]
      /\ \A x \in S : \E i \in 1..Cardinality(S) : Sorted(S)[i] = x
  BY SortedIs
<1>2. Cardinality(S) \in 1..Cardinality(S)
  <2>1. PICK x : x \in S
    OBVIOUS
  <2>2. PICK i \in 1..Cardinality(S) : Sorted(S)[i] = x
    BY <1>1, <2>1
  <2> QED
    BY <1>1, <2>2
<1>3. \E m \in S : \A x \in S : m >= x
  <2>0. Sorted(S)[Cardinality(S)] \in S
    BY <1>1, <1>2
  <2> WITNESS Sorted(S)[Cardinality(S)] \in S
  <2> TAKE x \in S
  <2>1. PICK i \in 1..Cardinality(S) : Sorted(S)[i] = x
    BY <1>1
  <2>2. i < Cardinality(S) => Sorted(S)[i] < Sorted(S)[Cardinality(S)]
    BY <1>1, <1>2
  <2>3. i = Cardinality(S) \/ i < Cardinality(S)
    BY <1>1
  <2>4. x \in Nat /\ Sorted(S)[Cardinality(S)] \in Nat
    BY <2>0
  <2> QED
    BY <2>1, <2>2, <2>3, <2>4
<1> QED
  BY <1>3 DEF Max

(***************************************************************************)
(* A function defined from its values at elements of lower rank exists.    *)
(***************************************************************************)
Unfolds(g, V, E, F) == g = [c \in V |-> F[c] \cup UNION {g[e] : e \in E[c]}]

LEMMA RecursionIs ==
    ASSUME NEW V, NEW E \in [V -> SUBSET V], NEW F, NEW N \in Nat, NEW rank \in [V -> 0..N],
           \A c \in V : \A e \in E[c] : rank[e] < rank[c]
    PROVE  \E g : Unfolds(g, V, E, F)
<1> DEFINE next(g) == [c \in V |-> F[c] \cup UNION {g[e] : e \in E[c]}]
           Good(g, n) == \A c \in V : rank[c] < n => g[c] = next(g)[c]
           T == {n \in Nat : \E g : Good(g, n)}
<1>1. 0 \in T
  <2>1. Good(rank, 0)
    OBVIOUS
  <2> HIDE DEF Good
  <2> QED
    BY <2>1
<1>2. ASSUME NEW n \in T
      PROVE  n + 1 \in T
  <2>1. PICK g : Good(g, n)
    OBVIOUS
  <2> DEFINE h == next(g)
  <2>2. \A c \in V : rank[c] < n => h[c] = g[c]
    BY <2>1
  <2>3. ASSUME NEW c \in V, rank[c] < n + 1
        PROVE  h[c] = next(h)[c]
    <3>1. \A e \in E[c] : e \in V /\ rank[e] < n
      BY <2>3
    <3>2. {h[e] : e \in E[c]} = {g[e] : e \in E[c]}
      <4> HIDE DEF h
      <4> QED
        BY <2>2, <3>1
    <3>3. h[c] = F[c] \cup UNION {g[e] : e \in E[c]}
      OBVIOUS
    <3>4. next(h)[c] = F[c] \cup UNION {h[e] : e \in E[c]}
      OBVIOUS
    <3> HIDE DEF h, next
    <3> QED
      BY <3>2, <3>3, <3>4
  <2> HIDE DEF h, next
  <2>4. Good(h, n + 1)
    BY <2>3
  <2> HIDE DEF Good
  <2> QED
    BY <2>4
<1>3. T = Nat
  <2> HIDE DEF T
  <2>1. T \in SUBSET Nat
    BY DEF T
  <2> QED
    BY <1>1, <1>2, <2>1, NatSet
<1>4. PICK g : Good(g, N + 1)
  <2>1. N + 1 \in T
    <3> HIDE DEF T
    <3> QED
      BY <1>3
  <2> QED
    BY <2>1
<1> DEFINE h == [c \in V |-> g[c]]
<1>5. \A c \in V : next(h)[c] = next(g)[c]
  <2> TAKE c \in V
  <2>1. {h[e] : e \in E[c]} = {g[e] : e \in E[c]}
    OBVIOUS
  <2> HIDE DEF h
  <2>2. next(h)[c] = F[c] \cup UNION {h[e] : e \in E[c]}
    OBVIOUS
  <2>3. next(g)[c] = F[c] \cup UNION {g[e] : e \in E[c]}
    OBVIOUS
  <2> HIDE DEF next
  <2> QED
    BY <2>1, <2>2, <2>3
<1>6. \A c \in V : h[c] = next(h)[c]
  <2> HIDE DEF next
  <2> QED
    BY <1>4, <1>5
<1>7. h = next(h)
  <2>1. next(h) = [c \in V |-> next(h)[c]]
    OBVIOUS
  <2>2. h = [c \in V |-> h[c]]
    OBVIOUS
  <2> HIDE DEF h, next
  <2> QED
    BY <1>6, <2>1, <2>2
<1> QED
  BY <1>7 DEF Unfolds

(***************************************************************************)
(* Adding what a step finds, as many times as there are elements, ends in  *)
(* the least set with the start that the step does not leave.              *)
(***************************************************************************)
Iterates(h, a, G, N) ==
    h = [n \in 0..N |-> IF n = 0 THEN a ELSE h[n - 1] \cup G[h[n - 1]]]

LEMMA IterationIs ==
    ASSUME NEW V, NEW a \in SUBSET V, NEW G \in [SUBSET V -> SUBSET V], NEW N \in Nat
    PROVE  \E h : Iterates(h, a, G, N) /\ h \in [0..N -> SUBSET V]
<1> DEFINE next(h) == [n \in Nat |-> IF n = 0 THEN a ELSE h[n - 1] \cup G[h[n - 1]]]
           Good(h, n) == \A k \in 0..n : h[k] = next(h)[k] /\ h[k] \in SUBSET V
           T == {n \in Nat : \E h : Good(h, n)}
<1>1. 0 \in T
  <2> DEFINE h == [n \in Nat |-> a]
  <2>1. Good(h, 0)
    OBVIOUS
  <2> HIDE DEF Good, h
  <2> QED
    BY <2>1
<1>2. ASSUME NEW n \in T
      PROVE  n + 1 \in T
  <2>1. PICK g : Good(g, n)
    OBVIOUS
  <2> DEFINE h == next(g)
  <2>2. \A k \in 0..n : h[k] = g[k]
    BY <2>1
  <2>3. ASSUME NEW k \in 0..(n + 1)
        PROVE  h[k] = next(h)[k] /\ h[k] \in SUBSET V
    <3>1. CASE k = 0
      BY <3>1
    <3>2. CASE k # 0
      <4>1. k - 1 \in 0..n /\ k \in Nat
        BY <3>2
      <4>2. g[k - 1] \in SUBSET V /\ h[k - 1] = g[k - 1]
        BY <2>1, <2>2, <4>1
      <4>3. h[k] = g[k - 1] \cup G[g[k - 1]]
        BY <3>2, <4>1
      <4>4. next(h)[k] = h[k - 1] \cup G[h[k - 1]]
        BY <3>2, <4>1
      <4> HIDE DEF h, next
      <4> QED
        BY <4>2, <4>3, <4>4
    <3> QED
      BY <3>1, <3>2
  <2> HIDE DEF h, next
  <2>4. Good(h, n + 1)
    BY <2>3
  <2> HIDE DEF Good
  <2> QED
    BY <2>4
<1>3. T = Nat
  <2> HIDE DEF T
  <2>1. T \in SUBSET Nat
    BY DEF T
  <2> QED
    BY <1>1, <1>2, <2>1, NatSet
<1>4. PICK g : Good(g, N)
  BY <1>3
<1> DEFINE h == [n \in 0..N |-> g[n]]
<1>5. \A n \in 0..N : /\ h[n] = (IF n = 0 THEN a ELSE h[n - 1] \cup G[h[n - 1]])
                      /\ h[n] \in SUBSET V
  <2> TAKE n \in 0..N
  <2>1. n # 0 => n - 1 \in 0..N
    OBVIOUS
  <2>2. h[n] = g[n] /\ (n # 0 => h[n - 1] = g[n - 1])
    BY <2>1
  <2>3. g[n] = next(g)[n] /\ g[n] \in SUBSET V
    BY <1>4
  <2>4. next(g)[n] = IF n = 0 THEN a ELSE g[n - 1] \cup G[g[n - 1]]
    OBVIOUS
  <2> HIDE DEF h, next
  <2> QED
    BY <2>2, <2>3, <2>4
<1>6. h = [n \in 0..N |-> h[n]]
  OBVIOUS
<1> HIDE DEF h
<1>7. h = [n \in 0..N |-> IF n = 0 THEN a ELSE h[n - 1] \cup G[h[n - 1]]]
  BY <1>5, <1>6
<1>8. Iterates(h, a, G, N)
  BY <1>7 DEF Iterates
<1>9. h \in [0..N -> SUBSET V]
  BY <1>5, <1>6
<1> QED
  BY <1>8, <1>9

Grows(h, V, a, G, N) ==
    /\ h[0] = a
    /\ \A n \in 1..N : h[n - 1] \in SUBSET V => h[n] = h[n - 1] \cup G[h[n - 1]]

IsLeast(least, V, a, G) ==
    /\ least \in SUBSET V /\ a \subseteq least /\ G[least] \subseteq least
    /\ \A C \in SUBSET V :
          a \subseteq C /\ (\A X \in SUBSET C : G[X] \subseteq C) => least \subseteq C

LEMMA FixedPoint ==
    ASSUME NEW V, IsFiniteSet(V), NEW a \in SUBSET V, NEW G \in [SUBSET V -> SUBSET V],
           NEW h, Grows(h, V, a, G, Cardinality(V))
    PROVE  IsLeast(h[Cardinality(V)], V, a, G)
<1> USE DEF Grows
<1> DEFINE N == Cardinality(V)
           Far(n) == \/ Cardinality(h[n]) >= n
                     \/ n > 0 /\ G[h[n - 1]] \subseteq h[n - 1] /\ h[n] = h[n - 1]
           Good(n) == /\ h[n] \in SUBSET V /\ a \subseteq h[n] /\ Far(n)
                      /\ \A C \in SUBSET V :
                            a \subseteq C /\ (\A X \in SUBSET C : G[X] \subseteq C)
                               => h[n] \subseteq C
           T == {n \in Nat : n <= N => Good(n)}
<1>1. N \in Nat
  BY FS_CardinalityType
<1>2. \A X \in SUBSET V : IsFiniteSet(X) /\ Cardinality(X) \in Nat
  BY FS_Subset, FS_CardinalityType
<1>3. 0 \in T
  <2>1. Far(0)
    BY <1>2
  <2> QED
    BY <2>1
<1>4. ASSUME NEW n \in T
      PROVE  n + 1 \in T
  <2> SUFFICES ASSUME n + 1 <= N
               PROVE  Good(n + 1)
    OBVIOUS
  <2>1. Good(n) /\ n \in Nat
    BY <1>1
  <2> DEFINE now == h[n]
             then == h[n + 1]
  <2>2. then = now \cup G[now] /\ now \in SUBSET V
    <3>1. n + 1 \in 1..N /\ (n + 1) - 1 = n
      BY <1>1, <2>1
    <3> QED
      BY <2>1, <3>1
  <2>3. then \in SUBSET V /\ a \subseteq then /\ now \subseteq then
    BY <2>1, <2>2
  <2>4. Far(n + 1)
    <3>0. n + 1 > 0 /\ (n + 1) - 1 = n
      BY <2>1
    <3>1. CASE then = now
      BY <2>2, <3>0, <3>1
    <3>2. CASE then # now /\ ~(n > 0 /\ G[h[n - 1]] \subseteq h[n - 1] /\ h[n] = h[n - 1])
      <4>1. Cardinality(now) >= n
        BY <2>1, <3>2
      <4>2. Cardinality(now) <= Cardinality(then) /\ Cardinality(then) # Cardinality(now)
        BY <1>2, <2>3, <3>2, FS_Subset
      <4>3. Cardinality(now) \in Nat /\ Cardinality(then) \in Nat
        BY <1>2, <2>2, <2>3
      <4>4. Cardinality(then) >= n + 1
        BY <2>1, <4>1, <4>2, <4>3
      <4> QED
        BY <4>4
    <3>3. CASE n > 0 /\ G[h[n - 1]] \subseteq h[n - 1] /\ h[n] = h[n - 1]
      BY <2>2, <3>0, <3>3
    <3> QED
      BY <3>1, <3>2, <3>3
  <2>5. ASSUME NEW C \in SUBSET V, a \subseteq C, \A X \in SUBSET C : G[X] \subseteq C
        PROVE  then \subseteq C
    BY <2>1, <2>2, <2>5
  <2> HIDE DEF Far
  <2> QED
    BY <2>3, <2>4, <2>5
<1>5. T = Nat
  <2> HIDE DEF T
  <2>1. T \in SUBSET Nat
    BY DEF T
  <2> QED
    BY <1>3, <1>4, <2>1, NatSet
<1>6. Good(N)
  BY <1>1, <1>5
<1>7. G[h[N]] \subseteq h[N]
  <2>1. CASE Cardinality(h[N]) >= N
    <3>1. h[N] = V
      <4>1. Cardinality(h[N]) <= N /\ (N = Cardinality(h[N]) => V = h[N])
        BY <1>6, FS_Subset
      <4>2. Cardinality(h[N]) \in Nat
        BY <1>2, <1>6
      <4> QED
        BY <1>1, <2>1, <4>1, <4>2
    <3> QED
      BY <3>1
  <2>2. CASE N > 0 /\ G[h[N - 1]] \subseteq h[N - 1] /\ h[N] = h[N - 1]
    BY <2>2
  <2> QED
    BY <1>6, <2>1, <2>2
<1> QED
  BY <1>6, <1>7 DEF IsLeast

-----------------------------------------------------------------------------
(* What a well-formed program gives. *)

LEMMA ParentsAre ==
    ASSUME NEW S, NEW s \in Seq(S)
    PROVE  ToSet(s) \subseteq S /\ \A k \in DOMAIN s : s[k] \in S /\ s[k] \in ToSet(s)
BY DEF ToSet

LEMMA StagesFinite ==
    ASSUME program \in Programs
    PROVE  /\ \A c \in Values : program.stage[c] \in Nat /\ program.width[c] \in Nat \ {0}
           /\ \A S \in SUBSET {program.stage[c] : c \in Values} :
                  IsFiniteSet(S) /\ S \subseteq Nat
<1>1. Lifetimes(program) \in [Values -> Spans]
  BY ProgramsAssumption, RequestsAssumption DEF WellFormed
<1>2. ASSUME NEW c \in Values
      PROVE  program.stage[c] \in Nat /\ program.width[c] \in Nat \ {0}
  <2>1. Lifetimes(program)[c] \in Spans
    BY <1>1
  <2>2. /\ Lifetimes(program)[c].first = program.stage[c]
        /\ Lifetimes(program)[c].width = program.width[c]
    BY DEF Lifetimes
  <2> QED
    BY <2>1, <2>2, StagesAssumption, WidthsAssumption DEF Spans
<1> DEFINE all == {program.stage[c] : c \in Values}
           f == [c \in Values |-> program.stage[c]]
<1>3. f \in Surjection(Values, all)
  BY DEF Surjection
<1>4. IsFiniteSet(all) /\ all \subseteq Nat
  <2>1. IsFiniteSet(all)
    <3> HIDE DEF f, all
    <3> QED
      BY <1>3, ValuesAssumption, FS_Surjection
  <2> QED
    BY <1>2, <2>1
<1> HIDE DEF all
<1>5. \A S \in SUBSET all : IsFiniteSet(S) /\ S \subseteq Nat
  BY <1>4, FS_Subset
<1> QED
  BY <1>2, <1>5 DEF all

(***************************************************************************)
(* A current is alive from its stage to every row that reads it; the       *)
(* closures come after every stage.                                        *)
(***************************************************************************)
LEMMA LifetimesAre ==
    ASSUME program \in Programs, NEW c \in Values
    PROVE  /\ ClosureStage(program) \in Nat /\ program.stage[c] < ClosureStage(program)
           /\ LastUse(program, c) \in Nat /\ program.stage[c] <= LastUse(program, c)
           /\ \A t \in program.closures :
                 c \in ToSet(t.parents) => LastUse(program, c) = ClosureStage(program)
           /\ \A r \in program.contributions :
                 c \in ToSet(r.parents) => program.stage[r.result] <= LastUse(program, c)
<1> DEFINE all  == {program.stage[d] : d \in Values}
           uses == {program.stage[c]} \cup
                   {program.stage[r.result] :
                       r \in {q \in program.contributions : c \in ToSet(q.parents)}}
<1>1. \A S \in SUBSET all : IsFiniteSet(S) /\ S \subseteq Nat
  BY StagesFinite
<1>2. program.stage[c] \in all /\ uses \subseteq all
  <2>1. \A r \in program.contributions : r.result \in Values
    BY ProgramsAssumption DEF WellFormed
  <2> QED
    BY <2>1
<1>3. Max(all) \in all /\ \A x \in all : x <= Max(all)
  <2> HIDE DEF all
  <2> QED
    BY <1>1, <1>2, MaxIs
<1>4. all \subseteq Nat /\ Max(all) \in Nat
  <2> HIDE DEF all
  <2> QED
    BY <1>1, <1>3
<1>5. ClosureStage(program) = 1 + Max(all)
  BY DEF ClosureStage
<1>6. Max(uses) \in uses /\ \A x \in uses : x <= Max(uses)
  <2>1. program.stage[c] \in uses
    OBVIOUS
  <2> HIDE DEF all, uses
  <2> QED
    BY <1>1, <1>2, <2>1, MaxIs
<1>7. Max(uses) \in all
  <2> HIDE DEF all, uses
  <2> QED
    BY <1>2, <1>6
<1>8. /\ ClosureStage(program) \in Nat /\ program.stage[c] < ClosureStage(program)
      /\ Max(uses) \in Nat /\ Max(uses) < ClosureStage(program) /\ program.stage[c] \in Nat
      /\ \A x \in all : x \in Nat /\ x < ClosureStage(program)
  <2> HIDE DEF all, uses
  <2>1. ClosureStage(program) \in Nat /\ \A x \in all :
            x \in Nat /\ x < ClosureStage(program)
    BY <1>3, <1>4, <1>5
  <2> QED
    BY <1>2, <1>7, <2>1
<1>9. CASE \E t \in program.closures : c \in ToSet(t.parents)
  <2>1. LastUse(program, c) = ClosureStage(program)
    BY <1>9 DEF LastUse
  <2>2. \A r \in program.contributions :
           c \in ToSet(r.parents) => program.stage[r.result] \in all
    BY <1>2
  <2> HIDE DEF all, uses
  <2> QED
    BY <1>8, <2>1, <2>2
<1>10. CASE ~\E t \in program.closures : c \in ToSet(t.parents)
  <2>1. LastUse(program, c) = Max(uses)
    BY <1>10 DEF LastUse
  <2>2. program.stage[c] <= Max(uses)
    BY <1>6
  <2>3. \A r \in program.contributions :
           c \in ToSet(r.parents) => program.stage[r.result] <= Max(uses)
    <3>1. \A r \in program.contributions :
             c \in ToSet(r.parents) => program.stage[r.result] \in uses
      OBVIOUS
    <3> HIDE DEF uses
    <3> QED
      BY <1>6, <3>1
  <2> HIDE DEF all, uses
  <2> QED
    BY <1>8, <1>10, <2>1, <2>2, <2>3
<1> QED
  BY <1>9, <1>10

(***************************************************************************)
(* lower_selector_domains: a current belongs to the sectors of the         *)
(* closures and of the currents that read it.                              *)
(***************************************************************************)
LEMMA DomainIs ==
    ASSUME program \in Programs, NEW c \in Values
    PROVE  DomainOf(program)[c] =
             {program.sector[t.destination] :
                t \in {u \in program.closures : c \in ToSet(u.parents)}}
             \cup UNION {DomainOf(program)[r.result] :
                           r \in {q \in program.contributions : c \in ToSet(q.parents)}}
<1> DEFINE of(v) == {q \in program.contributions : v \in ToSet(q.parents)}
           E == [v \in Values |-> {r.result : r \in of(v)}]
           F == [v \in Values |-> {program.sector[t.destination] :
                                      t \in {u \in program.closures : v \in ToSet(u.parents)}}]
           IsDomain(g) ==
              g = [v \in Values |->
                     {program.sector[t.destination] :
                         t \in {u \in program.closures : v \in ToSet(u.parents)}}
                     \cup UNION {g[r.result] :
                                    r \in {q \in program.contributions : v \in ToSet(q.parents)}}]
<1>1. PICK N \in Nat : \A v \in Values : program.stage[v] \in 0..N
  <2>1. ClosureStage(program) \in Nat /\ \A v \in Values :
            program.stage[v] \in 0..ClosureStage(program)
    BY LifetimesAre, StagesFinite
  <2> QED
    BY <2>1
<1> DEFINE rank == [v \in Values |-> N - program.stage[v]]
<1>2. E \in [Values -> SUBSET Values] /\ rank \in [Values -> 0..N]
  <2>1. \A r \in program.contributions : r.result \in Values
    BY ProgramsAssumption DEF WellFormed
  <2> QED
    BY <1>1, <2>1
<1>3. \A v \in Values : \A e \in E[v] : rank[e] < rank[v]
  <2> SUFFICES ASSUME NEW v \in Values, NEW r \in of(v)
               PROVE  rank[r.result] < rank[v]
    OBVIOUS
  <2>1. r.parents \in Seq({d \in Values : program.stage[d] < program.stage[r.result]})
    BY ProgramsAssumption DEF WellFormed
  <2>2. program.stage[v] < program.stage[r.result]
    BY <2>1, ParentsAre
  <2>3. r.result \in Values
    BY ProgramsAssumption DEF WellFormed
  <2> QED
    BY <1>1, <2>2, <2>3
<1>4. \E g : Unfolds(g, Values, E, F)
  <2> HIDE DEF E, F, rank
  <2> QED
    BY <1>2, <1>3, RecursionIs
<1>5. \E g : IsDomain(g)
  <2>1. PICK g : Unfolds(g, Values, E, F)
    BY <1>4
  <2>2. \A v \in Values : {g[e] : e \in E[v]} = {g[r.result] : r \in of(v)}
    OBVIOUS
  <2>3. g = [v \in Values |-> F[v] \cup UNION {g[e] : e \in E[v]}]
    BY <2>1 DEF Unfolds
  <2>4. g = [v \in Values |-> F[v] \cup UNION {g[r.result] : r \in of(v)}]
    <3> HIDE DEF E, F, of
    <3> QED
      BY <2>2, <2>3
  <2>5. IsDomain(g)
    BY <2>4
  <2> HIDE DEF IsDomain
  <2> QED
    BY <2>5
<1>6. DomainOf(program) = CHOOSE g : IsDomain(g)
  BY DEF DomainOf
<1> HIDE DEF IsDomain
<1>7. IsDomain(DomainOf(program))
  BY <1>5, <1>6
<1> QED
  BY <1>7 DEF IsDomain

LEMMA ValuesBounded == \E N \in Nat : \A k \in Values : k \in 0..N
<1>1. Values \in SUBSET Nat /\ IsFiniteSet(Values)
  BY ValuesAssumption
<1>2. CASE Values = {}
  BY <1>2
<1>3. CASE Values # {}
  <2> DEFINE top == Max(Values)
  <2>1. top \in Values /\ \A x \in Values : x <= top
    BY <1>1, <1>3, MaxIs
  <2> HIDE DEF top
  <2>2. top \in Nat /\ \A k \in Values : k \in 0..top
    BY <1>1, <2>1
  <2> QED
    BY <2>2
<1> QED
  BY <1>2, <1>3

(***************************************************************************)
(* What the rows of a current sum to: its contributions, or the terms of   *)
(* its representative.                                                     *)
(***************************************************************************)
LEMMA TermsAre ==
    ASSUME program \in Programs, NEW c \in Values \ program.sources
    PROVE  IF IsCopy(c)
           THEN TermsOf(program)[c] = IF program.copies[c] = c THEN {}
                                      ELSE TermsOf(program)[program.copies[c]]
           ELSE TermsOf(program)[c] = {r.id : r \in Into(c)}
<1> DEFINE copied(k) == k \notin program.sources /\ IsCopy(k) /\ program.copies[k] # k
           E == [k \in Values |-> IF copied(k) THEN {program.copies[k]} ELSE {}]
           F == [k \in Values |-> IF k \in program.sources THEN {k}
                                  ELSE IF IsCopy(k) THEN {} ELSE {r.id : r \in Into(k)}]
           rank == [k \in Values |-> k]
           value(g, k) == IF k \in program.sources THEN {k}
                          ELSE IF k \notin DOMAIN program.copies
                               THEN {r.id : r \in {q \in program.contributions : q.result = k}}
                          ELSE IF program.copies[k] = k THEN {} ELSE g[program.copies[k]]
           IsTerms(g) == g = [k \in Values |->
                           IF k \in program.sources THEN {k}
                           ELSE IF k \notin DOMAIN program.copies
                               THEN {r.id : r \in {q \in program.contributions : q.result = k}}
                           ELSE IF program.copies[k] = k THEN {} ELSE g[program.copies[k]]]
<1>1. \A k \in DOMAIN program.copies :
         /\ program.copies[k] \in Values /\ program.copies[k] \in Nat
         /\ program.copies[k] <= k /\ k \in Nat /\ k \notin program.sources
  BY ProgramsAssumption, ValuesAssumption DEF WellFormed
<1>2. PICK N \in Nat : \A k \in Values : k \in 0..N
  BY ValuesBounded
<1>3. E \in [Values -> SUBSET Values] /\ rank \in [Values -> 0..N]
  BY <1>1, <1>2 DEF IsCopy
<1>4. \A k \in Values : \A e \in E[k] : rank[e] < rank[k]
  <2> SUFFICES ASSUME NEW k \in Values, copied(k)
               PROVE  rank[program.copies[k]] < rank[k]
    OBVIOUS
  <2>1. program.copies[k] \in Values /\ program.copies[k] < k
    BY <1>1 DEF IsCopy
  <2> QED
    BY <2>1
<1>5. \E g : Unfolds(g, Values, E, F)
  <2> HIDE DEF E, F, rank
  <2> QED
    BY <1>3, <1>4, RecursionIs
<1>6. \E g : IsTerms(g)
  <2>1. PICK g : Unfolds(g, Values, E, F)
    BY <1>5
  <2>2. ASSUME NEW k \in Values
        PROVE  F[k] \cup UNION {g[e] : e \in E[k]} = value(g, k)
    <3>1. CASE copied(k)
      <4>1. {g[e] : e \in E[k]} = {g[program.copies[k]]} /\ F[k] = {}
        BY <3>1
      <4>2. value(g, k) = g[program.copies[k]]
        BY <3>1 DEF IsCopy
      <4> HIDE DEF E, F, value
      <4> QED
        BY <4>1, <4>2
    <3>2. CASE ~copied(k)
      <4>1. {g[e] : e \in E[k]} = {}
        BY <3>2
      <4>2. value(g, k) = F[k]
        BY <1>1, <3>2 DEF IsCopy, Into
      <4> HIDE DEF E, F, value
      <4> QED
        BY <4>1, <4>2
    <3> QED
      BY <3>1, <3>2
  <2>3. g = [k \in Values |-> F[k] \cup UNION {g[e] : e \in E[k]}]
    BY <2>1 DEF Unfolds
  <2>4. g = [k \in Values |-> value(g, k)]
    <3> HIDE DEF E, F, value
    <3> QED
      BY <2>2, <2>3
  <2>5. IsTerms(g)
    BY <2>4
  <2> HIDE DEF IsTerms
  <2> QED
    BY <2>5
<1>7. TermsOf(program) = CHOOSE g : IsTerms(g)
  BY DEF TermsOf
<1> HIDE DEF IsTerms
<1>8. IsTerms(TermsOf(program))
  BY <1>6, <1>7
<1>9. TermsOf(program)[c] = value(TermsOf(program), c)
  BY <1>8 DEF IsTerms
<1> QED
  BY <1>9 DEF IsCopy, Into

-----------------------------------------------------------------------------
(* The lowered rows and their order. *)

IsRow(row) ==
    /\ row.stage \in Nat /\ row.id \in Nat /\ row.executor \in 0..NoExecutor
    /\ row.parents \in Seq(Values) /\ row.reads = Addresses(row.parents)
    /\ IF row.role = "closure"
       THEN /\ row.stage = ClosureStage(program) /\ row.executor = 0
            /\ \E t \in program.closures :
                  /\ row.id = t.id /\ row.parents = t.parents
                  /\ row.dest = t.destination /\ row.into = t.destination
                  /\ row.domain = {program.sector[t.destination]}
       ELSE /\ row.into \in Values /\ row.stage = program.stage[row.into]
            /\ row.dest = PlanesOf(row.into) /\ row.domain = DomainOf(program)[row.into]
    /\ \/ row.role = "closure"
       \/ /\ row.role = "source" /\ row.into \in program.sources
          /\ row.executor = 0 /\ row.id = row.into /\ row.parents = <<>>
       \/ /\ row.role = "finalization" /\ row.into \in Values \ program.sources
          /\ row.executor = 0 /\ row.id = row.into /\ row.parents = <<>>
       \/ /\ row.role = "contribution" /\ row.into \in Values \ program.sources
          /\ ~IsCopy(row.into) /\ row.executor < NoExecutor
          /\ \E r \in program.contributions :
                /\ row.into = r.result /\ row.id = r.id
                /\ row.parents = r.parents /\ row.executor = r.executor
       \/ /\ row.role = "contribution" /\ row.into \in Values \ program.sources
          /\ IsCopy(row.into) /\ row.executor = NoExecutor /\ row.id = row.into
          /\ row.parents = <<program.copies[row.into]>>

\* The fields of a row but its initialize flag.
SameRow(f, r) ==
    /\ f.role = r.role /\ f.stage = r.stage /\ f.executor = r.executor /\ f.id = r.id
    /\ f.dest = r.dest /\ f.reads = r.reads /\ f.parents = r.parents
    /\ f.domain = r.domain /\ f.into = r.into

LEMMA SameRowIs ==
    ASSUME NEW f, NEW r, SameRow(f, r)
    PROVE  /\ IsRow(r) => IsRow(f)
           /\ \A q : Precedes(q, f) <=> Precedes(q, r)
           /\ \A q : Precedes(f, q) <=> Precedes(r, q)
BY DEF SameRow, IsRow, Precedes

LEMMA FlagKeepsRow ==
    ASSUME NEW r \in AllRows, NEW flag
    PROVE  /\ SameRow([r EXCEPT !.initialize = flag], r)
           /\ [r EXCEPT !.initialize = flag].initialize = flag
<1>1. ASSUME NEW role, NEW c, NEW id, NEW executor, NEW parents,
             r = RowOf(role, c, id, executor, parents)
      PROVE  /\ SameRow([r EXCEPT !.initialize = flag], r)
             /\ [r EXCEPT !.initialize = flag].initialize = flag
  BY <1>1 DEF RowOf, SameRow
<1>2. CASE r \in ClosureRows
  BY <1>2 DEF ClosureRows, SameRow
<1> QED
  BY <1>1, <1>2 DEF AllRows, SourceRows, ContributionRows, FinalizationRows

LEMMA SeqOfMore ==
    ASSUME NEW T, NEW S \in SUBSET T, NEW s \in Seq(S)
    PROVE  s \in Seq(T)
<1>1. s \in [1..Len(s) -> S] /\ Len(s) \in Nat
  OBVIOUS
<1>2. s \in [1..Len(s) -> T]
  BY <1>1
<1> QED
  BY <1>1, <1>2

LEMMA RowsAre ==
    ASSUME program \in Programs, NEW row \in AllRows
    PROVE  IsRow(row)
<1>1. /\ program.sources \subseteq Values
      /\ \A r \in program.contributions :
            /\ r.id \in Nat /\ r.result \in Values \ program.sources
            /\ r.parents \in Seq(Values) /\ r.executor \in 0..(NoExecutor - 1)
      /\ \A t \in program.closures :
             t.id \in Nat /\ t.parents \in Seq(Values) /\ t.parents # <<>>
      /\ \A c \in DOMAIN program.copies :
            c \in Values \ program.sources /\ program.copies[c] \in Values
  <2>1. WellFormed(program)
    BY ProgramsAssumption
  <2>2. \A r \in program.contributions : r.parents \in Seq(Values)
    <3> SUFFICES ASSUME NEW r \in program.contributions
                 PROVE  r.parents \in Seq(Values)
      OBVIOUS
    <3> DEFINE earlier == {c \in Values : program.stage[c] < program.stage[r.result]}
    <3>1. r.parents \in Seq(earlier) /\ earlier \in SUBSET Values
      BY <2>1 DEF WellFormed
    <3> HIDE DEF earlier
    <3> QED
      BY <3>1, SeqOfMore
  <2>3. \A r \in program.contributions : r.result \in Values \ program.sources
    BY <2>1 DEF WellFormed
  <2>4. \A c \in DOMAIN program.copies :
            c \in Values \ program.sources /\ program.copies[c] \in Values
    BY <2>1 DEF WellFormed
  <2> QED
    BY <2>1, <2>2, <2>3, <2>4 DEF WellFormed, Identified
<1>2. \A c \in Values : c \in Nat /\ program.stage[c] \in Nat
  BY ValuesAssumption, StagesFinite
<1>3. NoExecutor \in Nat /\ \A e \in 0..(NoExecutor - 1) :
          e \in 0..NoExecutor /\ e < NoExecutor
  BY NoExecutorAssumption
<1>4. ASSUME NEW role, NEW c \in Values, NEW id, NEW executor, NEW parents,
             row = RowOf(role, c, id, executor, parents)
      PROVE  /\ row.role = role /\ row.into = c /\ row.id = id /\ row.executor = executor
             /\ row.parents = parents /\ row.stage = program.stage[c]
             /\ row.dest = PlanesOf(c) /\ row.domain = DomainOf(program)[c]
             /\ row.reads = Addresses(parents)
  BY <1>4 DEF RowOf
<1>5. <<>> \in Seq(Values) /\ 0 \in 0..NoExecutor
  BY <1>3
<1>6. CASE row \in SourceRows
  <2>1. PICK c \in program.sources : row = RowOf("source", c, c, 0, <<>>)
    BY <1>6 DEF SourceRows
  <2>2. c \in Values
    BY <1>1
  <2>3. /\ row.role = "source" /\ row.into = c /\ row.id = c /\ row.executor = 0
        /\ row.parents = <<>> /\ row.stage = program.stage[c]
        /\ row.dest = PlanesOf(c) /\ row.domain = DomainOf(program)[c]
        /\ row.reads = Addresses(<<>>)
    BY <1>4, <2>1, <2>2
  <2> QED
    BY <1>2, <1>5, <2>2, <2>3 DEF IsRow
<1>7. CASE row \in FinalizationRows
  <2>1. PICK c \in Values \ program.sources : row = RowOf("finalization", c, c, 0, <<>>)
    BY <1>7 DEF FinalizationRows
  <2>3. /\ row.role = "finalization" /\ row.into = c /\ row.id = c /\ row.executor = 0
        /\ row.parents = <<>> /\ row.stage = program.stage[c]
        /\ row.dest = PlanesOf(c) /\ row.domain = DomainOf(program)[c]
        /\ row.reads = Addresses(<<>>)
    BY <1>4, <2>1
  <2> QED
    BY <1>2, <1>5, <2>3 DEF IsRow
<1>8. CASE \E r \in program.contributions :
              /\ ~IsCopy(r.result)
              /\ row = RowOf("contribution", r.result, r.id, r.executor, r.parents)
  <2>1. PICK r \in program.contributions :
              /\ ~IsCopy(r.result)
              /\ row = RowOf("contribution", r.result, r.id, r.executor, r.parents)
    BY <1>8
  <2>2. r.result \in Values \ program.sources /\ r.parents \in Seq(Values) /\ r.id \in Nat
    BY <1>1
  <2>3. /\ row.role = "contribution" /\ row.into = r.result /\ row.id = r.id
        /\ row.executor = r.executor
        /\ row.parents = r.parents /\ row.stage = program.stage[r.result]
        /\ row.dest = PlanesOf(r.result) /\ row.domain = DomainOf(program)[r.result]
        /\ row.reads = Addresses(r.parents)
    BY <1>4, <2>1, <2>2
  <2> QED
    BY <1>1, <1>2, <1>3, <2>1, <2>2, <2>3 DEF IsRow
<1>9. CASE \E c \in DOMAIN program.copies :
              row = RowOf("contribution", c, c, NoExecutor, <<program.copies[c]>>)
  <2>1. PICK c \in DOMAIN program.copies :
              row = RowOf("contribution", c, c, NoExecutor, <<program.copies[c]>>)
    BY <1>9
  <2>2. c \in Values \ program.sources /\ <<program.copies[c]>> \in Seq(Values) /\ IsCopy(c)
    BY <1>1 DEF IsCopy
  <2>3. /\ row.role = "contribution" /\ row.into = c /\ row.id = c
        /\ row.executor = NoExecutor
        /\ row.parents = <<program.copies[c]>> /\ row.stage = program.stage[c]
        /\ row.dest = PlanesOf(c) /\ row.domain = DomainOf(program)[c]
        /\ row.reads = Addresses(<<program.copies[c]>>)
    BY <1>4, <2>1, <2>2
  <2> QED
    BY <1>2, <1>3, <2>2, <2>3 DEF IsRow
<1>10. CASE row \in ClosureRows
  <2>1. PICK t \in program.closures : row =
          [role |-> "closure", stage |-> ClosureStage(program), executor |-> 0, id |-> t.id,
           dest |-> t.destination, reads |-> Addresses(t.parents), parents |-> t.parents,
           initialize |-> FALSE, domain |-> {program.sector[t.destination]},
           into |-> t.destination]
    BY <1>10 DEF ClosureRows
  <2>2. PICK c \in Values : TRUE
    BY <1>1
  <2>3. ClosureStage(program) \in Nat
    BY <2>2, LifetimesAre
  <2> QED
    BY <1>1, <1>5, <2>1, <2>3 DEF IsRow
<1> QED
  BY <1>6, <1>7, <1>8, <1>9, <1>10 DEF AllRows, ContributionRows

LEMMA ImageFinite ==
    ASSUME NEW S, IsFiniteSet(S), NEW f
    PROVE  IsFiniteSet({f[x] : x \in S})
<1> DEFINE g == [x \in S |-> f[x]]
           T == {f[x] : x \in S}
<1>1. g \in Surjection(S, T)
  BY DEF Surjection
<1> HIDE DEF g, T
<1>2. IsFiniteSet(T)
  BY <1>1, FS_Surjection
<1> QED
  BY <1>2 DEF T

LEMMA RowsFinite == program \in Programs => IsFiniteSet(AllRows)
<1> SUFFICES ASSUME program \in Programs
             PROVE  IsFiniteSet(AllRows)
  OBVIOUS
<1>1. /\ IsFiniteSet(program.sources) /\ IsFiniteSet(Values \ program.sources)
      /\ IsFiniteSet(program.contributions) /\ IsFiniteSet(program.closures)
      /\ IsFiniteSet(DOMAIN program.copies)
  <2>1. /\ program.sources \in SUBSET Values /\ Values \ program.sources \in SUBSET Values
        /\ DOMAIN program.copies \in SUBSET Values
        /\ IsFiniteSet(program.contributions) /\ IsFiniteSet(program.closures)
    BY ProgramsAssumption DEF WellFormed, Identified
  <2> QED
    BY <2>1, ValuesAssumption, FS_Subset
<1>2. IsFiniteSet(SourceRows)
  <2> DEFINE f == [c \in program.sources |-> RowOf("source", c, c, 0, <<>>)]
  <2>1. SourceRows = {f[c] : c \in program.sources}
    BY DEF SourceRows
  <2> HIDE DEF f
  <2> QED
    BY <1>1, <2>1, ImageFinite
<1>3. IsFiniteSet(FinalizationRows)
  <2> DEFINE S == Values \ program.sources
             f == [c \in S |-> RowOf("finalization", c, c, 0, <<>>)]
  <2>1. FinalizationRows = {f[c] : c \in S}
    BY DEF FinalizationRows
  <2> HIDE DEF f
  <2> QED
    BY <1>1, <2>1, ImageFinite
<1>4. IsFiniteSet(ContributionRows)
  <2> DEFINE S == {q \in program.contributions : ~IsCopy(q.result)}
             f == [r \in S |-> RowOf("contribution", r.result, r.id, r.executor, r.parents)]
             C == DOMAIN program.copies
             g == [c \in C |->
                     RowOf("contribution", c, c, NoExecutor, <<program.copies[c]>>)]
  <2>1. ContributionRows = {f[r] : r \in S} \cup {g[c] : c \in C}
    BY DEF ContributionRows
  <2>2. IsFiniteSet(S)
    <3>1. S \in SUBSET program.contributions
      OBVIOUS
    <3> QED
      BY <1>1, <3>1, FS_Subset
  <2> HIDE DEF f, S, g
  <2>3. IsFiniteSet({f[r] : r \in S}) /\ IsFiniteSet({g[c] : c \in C})
    BY <1>1, <2>2, ImageFinite
  <2> QED
    BY <2>1, <2>3, FS_Union
<1>5. IsFiniteSet(ClosureRows)
  <2> DEFINE S == program.closures
             f == [t \in S |->
                    [role |-> "closure", stage |-> ClosureStage(program), executor |-> 0,
                     id |-> t.id, dest |-> t.destination, reads |-> Addresses(t.parents),
                     parents |-> t.parents, initialize |-> FALSE,
                     domain |-> {program.sector[t.destination]}, into |-> t.destination]]
  <2>1. ClosureRows = {f[t] : t \in S}
    BY DEF ClosureRows
  <2> HIDE DEF f
  <2> QED
    BY <1>1, <2>1, ImageFinite
<1>6. IsFiniteSet(SourceRows \cup ContributionRows)
  BY <1>2, <1>4, FS_Union
<1>7. IsFiniteSet(SourceRows \cup ContributionRows \cup FinalizationRows)
  BY <1>3, <1>6, FS_Union
<1> QED
  BY <1>5, <1>7, FS_Union DEF AllRows

RoleNames == {"source", "contribution", "finalization", "closure"}

(***************************************************************************)
(* The order of the row groups is total: rows of one stage, role and       *)
(* executor differ in their ids.                                           *)
(***************************************************************************)
LEMMA PrecedesIs ==
    ASSUME NEW x, NEW y, NEW z, IsRow(x), IsRow(y), IsRow(z)
    PROVE  /\ Precedes(x, y) => ~Precedes(y, x)
           /\ Precedes(x, y) /\ Precedes(y, z) => Precedes(x, z)
           /\ \/ Precedes(x, y) \/ Precedes(y, x)
              \/ /\ x.stage = y.stage /\ x.role = y.role
                 /\ x.executor = y.executor /\ x.id = y.id
<1>1. \A r \in {x, y, z} :
         /\ r.role \in RoleNames /\ Roles[r.role] \in 0..3
         /\ r.stage \in Nat /\ r.id \in Nat /\ r.executor \in Nat
  BY NoExecutorAssumption DEF IsRow, Roles, RoleNames
<1>2. \A r, q \in {x, y, z} : Roles[r.role] = Roles[q.role] => r.role = q.role
  BY <1>1 DEF Roles, RoleNames
<1> DEFINE a(r) == Roles[r.role]
<1>3. \A r \in {x, y, z} : a(r) \in Nat
  BY <1>1
<1>4. \A r, q \in {x, y, z} : r.role = q.role <=> a(r) = a(q)
  BY <1>2
<1>5. \A r, q \in {x, y, z} : Precedes(r, q) <=>
         \/ r.stage < q.stage
         \/ /\ r.stage = q.stage
            /\ \/ a(r) < a(q)
               \/ /\ a(r) = a(q)
                  /\ \/ r.executor < q.executor
                     \/ r.executor = q.executor /\ r.id < q.id
  BY <1>4 DEF Precedes
<1> HIDE DEF a
<1>6. Precedes(x, y) => ~Precedes(y, x)
  BY <1>1, <1>3, <1>5
<1>7. Precedes(x, y) /\ Precedes(y, z) => Precedes(x, z)
  BY <1>1, <1>3, <1>5
<1>8. \/ Precedes(x, y) \/ Precedes(y, x)
      \/ /\ x.stage = y.stage /\ a(x) = a(y)
         /\ x.executor = y.executor /\ x.id = y.id
  BY <1>1, <1>3, <1>5
<1> QED
  BY <1>4, <1>6, <1>7, <1>8

LEMMA RowsDiffer ==
    ASSUME program \in Programs, NEW x \in AllRows, NEW y \in AllRows,
           x.stage = y.stage, x.role = y.role, x.executor = y.executor, x.id = y.id
    PROVE  x = y
<1>1. /\ \A r, q \in program.contributions : r.id = q.id => r = q
      /\ \A r, q \in program.closures : r.id = q.id => r = q
      /\ \A r \in program.contributions : r.executor \in 0..(NoExecutor - 1)
  BY ProgramsAssumption DEF WellFormed, Identified
<1>2. \A role, c, id, executor, parents :
         LET r == RowOf(role, c, id, executor, parents)
         IN  r.role = role /\ r.id = id /\ r.executor = executor
  BY DEF RowOf
<1>3. \A r \in SourceRows : r.role = "source" /\ r = RowOf("source", r.id, r.id, 0, <<>>)
  BY <1>2 DEF SourceRows
<1>4. \A r \in FinalizationRows :
         r.role = "finalization" /\ r = RowOf("finalization", r.id, r.id, 0, <<>>)
  BY <1>2 DEF FinalizationRows
<1>5. \A r \in ClosureRows : r.role = "closure"
  BY DEF ClosureRows
<1>6. \A r \in ContributionRows :
         /\ r.role = "contribution"
         /\ \/ /\ r.executor = NoExecutor
               /\ r = RowOf("contribution", r.id, r.id, NoExecutor,
                  <<program.copies[r.id]>>)
            \/ /\ r.executor # NoExecutor
               /\ \E q \in program.contributions :
                     q.id = r.id
                         /\ r = RowOf("contribution", q.result, q.id, q.executor, q.parents)
  <2> SUFFICES ASSUME NEW r \in ContributionRows
               PROVE  /\ r.role = "contribution"
                      /\ \/ /\ r.executor = NoExecutor
                            /\ r = RowOf("contribution", r.id, r.id, NoExecutor,
                                         <<program.copies[r.id]>>)
                         \/ /\ r.executor # NoExecutor
                            /\ \E q \in program.contributions :
                                  /\ q.id = r.id
                                  /\ r = RowOf("contribution", q.result, q.id, q.executor,
                                     q.parents)
    OBVIOUS
  <2>1. CASE \E q \in program.contributions :
                r = RowOf("contribution", q.result, q.id, q.executor, q.parents)
    <3>1. PICK q \in program.contributions :
                r = RowOf("contribution", q.result, q.id, q.executor, q.parents)
      BY <2>1
    <3>2. r.role = "contribution" /\ r.id = q.id /\ r.executor = q.executor
      BY <1>2, <3>1
    <3>3. r.executor # NoExecutor
      BY <1>1, <3>2, NoExecutorAssumption
    <3> QED
      BY <3>1, <3>2, <3>3
  <2>2. CASE \E c \in DOMAIN program.copies :
                r = RowOf("contribution", c, c, NoExecutor, <<program.copies[c]>>)
    BY <1>2, <2>2
  <2> QED
    BY <2>1, <2>2 DEF ContributionRows
<1>7. CASE x.role = "source"
  <2>1. x \in SourceRows /\ y \in SourceRows
    BY <1>3, <1>4, <1>5, <1>6, <1>7 DEF AllRows
  <2> QED
    BY <1>3, <2>1
<1>8. CASE x.role = "finalization"
  <2>1. x \in FinalizationRows /\ y \in FinalizationRows
    BY <1>3, <1>4, <1>5, <1>6, <1>8 DEF AllRows
  <2> QED
    BY <1>4, <2>1
<1>9. CASE x.role = "closure"
  <2>1. x \in ClosureRows /\ y \in ClosureRows
    BY <1>3, <1>4, <1>5, <1>6, <1>9 DEF AllRows
  <2> DEFINE rowOf(t) ==
               [role |-> "closure", stage |-> ClosureStage(program), executor |-> 0,
               id |-> t.id,
                dest |-> t.destination, reads |-> Addresses(t.parents),
                parents |-> t.parents,
                initialize |-> FALSE, domain |-> {program.sector[t.destination]},
                into |-> t.destination]
  <2>2. PICK t \in program.closures : x = rowOf(t)
    BY <2>1 DEF ClosureRows
  <2>3. PICK u \in program.closures : y = rowOf(u)
    BY <2>1 DEF ClosureRows
  <2>4. x.id = t.id /\ y.id = u.id
    BY <2>2, <2>3
  <2>5. t = u
    BY <1>1, <2>4
  <2> QED
    BY <2>2, <2>3, <2>5
<1>10. CASE x.role = "contribution"
  <2>1. x \in ContributionRows /\ y \in ContributionRows
    BY <1>3, <1>4, <1>5, <1>6, <1>10 DEF AllRows
  <2>2. CASE x.executor = NoExecutor
    BY <1>6, <2>1, <2>2
  <2>3. CASE x.executor # NoExecutor
    <3>1. PICK q \in program.contributions :
             q.id = x.id /\ x = RowOf("contribution", q.result, q.id, q.executor, q.parents)
      BY <1>6, <2>1, <2>3
    <3>2. PICK r \in program.contributions :
             r.id = y.id /\ y = RowOf("contribution", r.result, r.id, r.executor, r.parents)
      BY <1>6, <2>1, <2>3
    <3>3. q = r
      BY <1>1, <3>1, <3>2
    <3> QED
      BY <3>1, <3>2, <3>3
  <2> QED
    BY <2>2, <2>3
<1> QED
  BY <1>3, <1>4, <1>5, <1>6, <1>7, <1>8, <1>9, <1>10 DEF AllRows

(***************************************************************************)
(* A lowered plan: its rows are in the order of their groups, each part of *)
(* the program has its row, and the flag is on the first row of a current. *)
(***************************************************************************)
HasRow(f, role, into, id, parents) ==
    \E i \in DOMAIN f :
       f[i].role = role /\ f[i].into = into /\ f[i].id = id /\ f[i].parents = parents

InOrder(f) ==
    /\ \E n \in Nat : DOMAIN f = 1..n
    /\ \A i \in DOMAIN f : IsRow(f[i])
    /\ \A i, j \in DOMAIN f : i < j => Precedes(f[i], f[j])

Complete(f) ==
    /\ \A c \in program.sources : HasRow(f, "source", c, c, <<>>)
    /\ \A c \in Values \ program.sources : HasRow(f, "finalization", c, c, <<>>)
    /\ \A r \in program.contributions :
          ~IsCopy(r.result) => HasRow(f, "contribution", r.result, r.id, r.parents)
    /\ \A c \in DOMAIN program.copies :
          HasRow(f, "contribution", c, c, <<program.copies[c]>>)
    /\ \A t \in program.closures : HasRow(f, "closure", t.destination, t.id, t.parents)

FlagsFirst(f) ==
    \A i \in DOMAIN f : f[i].role = "contribution" =>
        (f[i].initialize <=> ~\E j \in DOMAIN f :
            j < i /\ f[j].role = "contribution" /\ f[j].into = f[i].into)

IsPlan(f) == InOrder(f) /\ Complete(f) /\ FlagsFirst(f)

LEMMA LoweredIsPlan == program \in Programs => IsPlan(Lowered)
<1> SUFFICES ASSUME program \in Programs
             PROVE  IsPlan(Lowered)
  OBVIOUS
<1> DEFINE S == AllRows
           below == [r \in S |-> {q \in S : Precedes(q, r)}]
           rank == [r \in S |-> Cardinality({q \in S : Precedes(q, r)})]
           n == Cardinality(S)
           row(i) == CHOOSE r \in S : rank[r] = i - 1
           f == Lowered
<1>1. IsFiniteSet(S) /\ \A r \in S : IsRow(r)
  BY RowsFinite, RowsAre
<1>2. /\ below \in [S -> SUBSET S] /\ \A r \in S : rank[r] = Cardinality(below[r])
      /\ \A q, r \in S : q \in below[r] <=> Precedes(q, r)
  OBVIOUS
<1>3. f = [i \in 1..n |-> [row(i) EXCEPT !.initialize = Initializes(S, row(i))]]
  BY DEF Lowered
<1> HIDE DEF below, rank, S, f
<1>4. /\ n \in Nat
      /\ \A r \in S : Cardinality(below[r]) \in 0..(n - 1)
      /\ \A q, r \in S : q \in below[r] <=> Cardinality(below[q]) < Cardinality(below[r])
      /\ \A i \in 1..n : \E r \in S : Cardinality(below[r]) = i - 1
  <2>1. \A x, y \in S : x # y => x \in below[y] \/ y \in below[x]
    BY <1>1, <1>2, PrecedesIs, RowsDiffer DEF S
  <2>2. \A x, y \in S : x \in below[y] => y \notin below[x]
    BY <1>1, <1>2, PrecedesIs
  <2>3. \A x, y, z \in S : x \in below[y] /\ y \in below[z] => x \in below[z]
    BY <1>1, <1>2, PrecedesIs
  <2> QED
    BY <1>1, <1>2, <2>1, <2>2, <2>3, RankIs
<1>5. /\ \A r \in S : rank[r] \in 0..(n - 1)
      /\ \A q, r \in S : Precedes(q, r) <=> rank[q] < rank[r]
      /\ \A i \in 1..n : \E r \in S : rank[r] = i - 1
  BY <1>2, <1>4
<1>6. \A i \in 1..n : row(i) \in S /\ rank[row(i)] = i - 1
  BY <1>5
<1>7. \A r \in S : rank[r] + 1 \in 1..n /\ row(rank[r] + 1) = r
  <2> TAKE r \in S
  <2>1. rank[r] + 1 \in 1..n /\ (rank[r] + 1) - 1 = rank[r]
    BY <1>4, <1>5
  <2> DEFINE q == row(rank[r] + 1)
  <2>2. q \in S /\ rank[q] = rank[r]
    BY <1>6, <2>1
  <2> HIDE DEF q
  <2>3. ~Precedes(q, r) /\ ~Precedes(r, q)
    BY <1>5, <2>1, <2>2
  <2>4. q = r
    BY <1>1, <2>2, <2>3, PrecedesIs, RowsDiffer DEF S
  <2> QED
    BY <2>1, <2>4 DEF q
<1>8. DOMAIN f = 1..n
  BY <1>3
<1>9. \A i \in 1..n : SameRow(f[i], row(i)) /\ f[i].initialize = Initializes(S, row(i))
  <2> TAKE i \in 1..n
  <2>1. f[i] = [row(i) EXCEPT !.initialize = Initializes(S, row(i))]
    BY <1>3
  <2>2. row(i) \in AllRows
    BY <1>6 DEF S
  <2> HIDE DEF row
  <2> QED
    BY <2>1, <2>2, FlagKeepsRow
<1> HIDE DEF row
<1>10. InOrder(f)
  <2>1. \A i \in 1..n : IsRow(f[i])
    BY <1>1, <1>6, <1>9, SameRowIs
  <2>2. \A i, j \in 1..n : i < j => Precedes(row(i), row(j))
    BY <1>4, <1>5, <1>6
  <2>3. \A i, j \in 1..n : i < j => Precedes(f[i], f[j])
    <3> TAKE i, j \in 1..n
    <3>1. SameRow(f[i], row(i)) /\ SameRow(f[j], row(j))
      BY <1>9
    <3> QED
      BY <2>2, <3>1, SameRowIs
  <2> QED
    BY <1>4, <1>8, <2>1, <2>3 DEF InOrder
<1>11. \A r \in S : \E i \in 1..n : SameRow(f[i], r)
  BY <1>7, <1>9
<1>12. Complete(f)
  <2>1. ASSUME NEW role, NEW c, NEW id, NEW executor, NEW parents,
               RowOf(role, c, id, executor, parents) \in S
        PROVE  HasRow(f, role, c, id, parents)
    <3>1. PICK i \in 1..n : SameRow(f[i], RowOf(role, c, id, executor, parents))
      BY <1>11, <2>1
    <3> QED
      BY <1>8, <3>1 DEF SameRow, RowOf, HasRow
  <2>2. \A c \in program.sources : HasRow(f, "source", c, c, <<>>)
    <3> TAKE c \in program.sources
    <3>1. RowOf("source", c, c, 0, <<>>) \in S
      BY DEF S, AllRows, SourceRows
    <3> QED
      BY <2>1, <3>1
  <2>3. \A c \in Values \ program.sources : HasRow(f, "finalization", c, c, <<>>)
    <3> TAKE c \in Values \ program.sources
    <3>1. RowOf("finalization", c, c, 0, <<>>) \in S
      BY DEF S, AllRows, FinalizationRows
    <3> QED
      BY <2>1, <3>1
  <2>4. ASSUME NEW r \in program.contributions, ~IsCopy(r.result)
        PROVE  HasRow(f, "contribution", r.result, r.id, r.parents)
    <3>1. RowOf("contribution", r.result, r.id, r.executor, r.parents) \in S
      BY <2>4 DEF S, AllRows, ContributionRows
    <3> QED
      BY <2>1, <3>1
  <2>5. \A c \in DOMAIN program.copies :
           HasRow(f, "contribution", c, c, <<program.copies[c]>>)
    <3> TAKE c \in DOMAIN program.copies
    <3>1. RowOf("contribution", c, c, NoExecutor, <<program.copies[c]>>) \in S
      BY DEF S, AllRows, ContributionRows
    <3> QED
      BY <2>1, <3>1
  <2>6. \A t \in program.closures : HasRow(f, "closure", t.destination, t.id, t.parents)
    <3> TAKE t \in program.closures
    <3> DEFINE r ==
         [role |-> "closure", stage |-> ClosureStage(program), executor |-> 0, id |-> t.id,
          dest |-> t.destination, reads |-> Addresses(t.parents), parents |-> t.parents,
          initialize |-> FALSE, domain |-> {program.sector[t.destination]},
          into |-> t.destination]
    <3>1. r \in S
      BY DEF S, AllRows, ClosureRows
    <3>2. r.role = "closure" /\ r.into = t.destination /\ r.id = t.id
              /\ r.parents = t.parents
      OBVIOUS
    <3> HIDE DEF r
    <3>3. PICK i \in 1..n : SameRow(f[i], r)
      BY <1>11, <3>1
    <3> QED
      BY <1>8, <3>2, <3>3 DEF SameRow, HasRow
  <2> QED
    BY <2>2, <2>3, <2>4, <2>5, <2>6 DEF Complete
<1>13. FlagsFirst(f)
  <2> SUFFICES ASSUME NEW i \in 1..n, f[i].role = "contribution"
               PROVE  f[i].initialize <=> ~\E j \in 1..n :
                         j < i /\ f[j].role = "contribution" /\ f[j].into = f[i].into
    BY <1>8 DEF FlagsFirst
  <2>1. row(i).role = "contribution"
    BY <1>9 DEF SameRow
  <2>2. f[i].initialize <=> ~\E r \in Siblings(S, row(i)) : Precedes(r, row(i))
    BY <1>9, <2>1 DEF Initializes
  <2>3. ASSUME NEW r \in Siblings(S, row(i)), Precedes(r, row(i))
        PROVE  \E j \in 1..n : j < i /\ f[j].role = "contribution" /\ f[j].into = f[i].into
    <3> DEFINE j == rank[r] + 1
    <3>1. r \in S /\ r.role = "contribution" /\ r.into = row(i).into
      BY DEF Siblings
    <3>2. j \in 1..n /\ row(j) = r /\ row(i) \in S /\ rank[row(i)] = i - 1
      BY <1>6, <1>7, <3>1
    <3>3. j < i
      BY <1>4, <1>5, <2>3, <3>1, <3>2
    <3> HIDE DEF j
    <3>4. f[j].role = "contribution" /\ f[j].into = f[i].into
      BY <1>9, <3>1, <3>2 DEF SameRow
    <3> QED
      BY <3>2, <3>3, <3>4
  <2>4. ASSUME NEW j \in 1..n, j < i, f[j].role = "contribution", f[j].into = f[i].into
        PROVE  \E r \in Siblings(S, row(i)) : Precedes(r, row(i))
    <3>1. row(j) \in Siblings(S, row(i))
      BY <1>6, <1>9, <2>4 DEF Siblings, SameRow
    <3>2. Precedes(row(j), row(i))
      BY <1>4, <1>5, <1>6, <2>4
    <3> QED
      BY <3>1, <3>2
  <2> QED
    BY <2>2, <2>3, <2>4
<1> QED
  BY <1>10, <1>12, <1>13 DEF IsPlan, f

-----------------------------------------------------------------------------
(* A program whose currents all have their planes. *)

Laid ==
    /\ program \in Programs /\ span = Lifetimes(program) /\ placed = Values
    /\ base \in [Values -> Nat] /\ stop \in Nat /\ LiveNeverShare

AliveAt(c, s) == program.stage[c] <= s /\ s <= LastUse(program, c)

LEMMA LaidIs ==
    ASSUME Laid, NEW c \in Values
    PROVE  /\ base[c] \in Nat /\ span[c].width \in Nat \ {0}
                  /\ span[c].width = program.width[c]
           /\ span[c].first = program.stage[c] /\ span[c].last = LastUse(program, c)
           /\ program.stage[c] \in Nat /\ LastUse(program, c) \in Nat
           /\ program.stage[c] <= LastUse(program, c)
           /\ PlanesOf(c) = [base |-> base[c], count |-> span[c].width]
           /\ Of(PlanesOf(c)) = base[c]..(base[c] + span[c].width - 1)
           /\ Of(PlanesOf(c)) \subseteq 0..(stop - 1)
<1>1. /\ span[c].width = program.width[c] /\ span[c].first = program.stage[c]
      /\ span[c].last = LastUse(program, c)
  BY DEF Laid, Lifetimes
<1>2. program.width[c] \in Nat \ {0} /\ program.stage[c] \in Nat /\ base[c] \in Nat
          /\ stop \in Nat
  BY StagesFinite DEF Laid
<1>3. LastUse(program, c) \in Nat /\ program.stage[c] <= LastUse(program, c)
  BY LifetimesAre DEF Laid
<1>4. PlanesOf(c) = [base |-> base[c], count |-> span[c].width]
  BY DEF PlanesOf
<1>5. Stop(PlanesOf(c)) = base[c] + span[c].width /\ PlanesOf(c).base = base[c]
  BY <1>4 DEF Stop
<1>6. Of(PlanesOf(c)) = base[c]..(base[c] + span[c].width - 1)
  BY <1>1, <1>2, <1>5 DEF Of
<1>7. base[c] + span[c].width <= stop
  BY <1>5 DEF Laid, LiveNeverShare
<1>8. Of(PlanesOf(c)) \subseteq 0..(stop - 1)
  BY <1>1, <1>2, <1>6, <1>7
<1> QED
  BY <1>1, <1>2, <1>3, <1>4, <1>6, <1>8

LEMMA Apart ==
    ASSUME Laid, NEW c \in Values, NEW d \in Values, c # d,
           span[c].first <= span[d].last, span[d].first <= span[c].last
    PROVE  /\ base[c] # base[d]
           /\ \A p \in Of(PlanesOf(c)) : p \notin Of(PlanesOf(d))
<1>1. /\ base[c] \in Nat /\ span[c].width \in Nat \ {0}
      /\ base[d] \in Nat /\ span[d].width \in Nat \ {0}
      /\ Of(PlanesOf(c)) = base[c]..(base[c] + span[c].width - 1)
      /\ Of(PlanesOf(d)) = base[d]..(base[d] + span[d].width - 1)
  BY LaidIs
<1>2. ~Meets(PlanesOf(c), PlanesOf(d))
  BY DEF Laid, LiveNeverShare, Overlap
<1>3. base[c] + span[c].width <= base[d] \/ base[d] + span[d].width <= base[c]
  BY <1>1, <1>2 DEF Meets, Stop, PlanesOf
<1>4. base[c] # base[d]
  BY <1>1, <1>3
<1>5. ASSUME NEW p \in Of(PlanesOf(c)), p \in Of(PlanesOf(d))
      PROVE  FALSE
  <2>1. p \in base[c]..(base[c] + span[c].width - 1)
            /\ p \in base[d]..(base[d] + span[d].width - 1)
    BY <1>1, <1>5
  <2> QED
    BY <1>1, <1>3, <2>1
<1> QED
  BY <1>4, <1>5

LEMMA AliveApart ==
    ASSUME Laid, NEW c \in Values, NEW d \in Values, c # d, NEW s \in Nat,
           AliveAt(c, s), AliveAt(d, s)
    PROVE  /\ base[c] # base[d]
           /\ \A p \in Of(PlanesOf(c)) : p \notin Of(PlanesOf(d))
<1>1. span[c].first <= span[d].last /\ span[d].first <= span[c].last
  <2>1. /\ span[c].first \in Nat /\ span[c].last \in Nat /\ span[d].first \in Nat
        /\ span[d].last \in Nat
        /\ span[c].first <= s /\ s <= span[c].last /\ span[d].first <= s
               /\ s <= span[d].last
    BY LaidIs DEF AliveAt
  <2> QED
    BY <2>1
<1> QED
  BY <1>1, Apart

(***************************************************************************)
(* ReplayCurrentIndex: an address and a stage name one current.            *)
(***************************************************************************)
LEMMA AtIs ==
    ASSUME Laid, NEW c \in Values
    PROVE  At(program.stage[c], base[c]) = {c}
<1>1. ASSUME NEW d \in Values, d # c, program.stage[d] = program.stage[c]
      PROVE  base[d] # base[c]
  <2>1. AliveAt(c, program.stage[c]) /\ AliveAt(d, program.stage[c])
            /\ program.stage[c] \in Nat
    BY <1>1, LaidIs DEF AliveAt
  <2> QED
    BY <1>1, <2>1, AliveApart
<1> QED
  BY <1>1 DEF At

LEMMA LivingIs ==
    ASSUME Laid, NEW c \in Values, NEW s \in Nat, AliveAt(c, s)
    PROVE  LivingAt(s, base[c]) = {c}
<1> DEFINE started == {d \in Values : base[d] = base[c] /\ span[d].first <= s}
<1>1. \A d \in Values :
         /\ d \in Nat /\ span[d].first \in Nat /\ span[d].last \in Nat
         /\ span[d].first <= span[d].last
  BY LaidIs, ValuesAssumption
<1>2. c \in started /\ span[c].first <= s /\ s <= span[c].last
  BY LaidIs DEF AliveAt
<1>3. ASSUME NEW d \in started, d # c
      PROVE  span[d].first < span[c].first
  <2>1. ~(span[c].first <= span[d].last) \/ ~(span[d].first <= span[c].last)
    BY <1>3, Apart
  <2>2. span[d].first <= s
    OBVIOUS
  <2>3. d \in Values
    OBVIOUS
  <2> QED
    BY <1>1, <1>2, <2>1, <2>2, <2>3
<1> DEFINE latest == {d \in started : \A e \in started :
                         \/ span[e].first < span[d].first
                         \/ span[e].first = span[d].first /\ e <= d}
<1>4. c \in latest
  BY <1>1, <1>2, <1>3
<1>5. \A d \in latest : d = c
  <2> SUFFICES ASSUME NEW d \in latest, d # c
               PROVE  FALSE
    OBVIOUS
  <2>1. d \in started /\ span[d].first < span[c].first
    BY <1>3
  <2>2. span[c].first < span[d].first \/ span[c].first = span[d].first
    BY <1>2
  <2>3. d \in Values
    OBVIOUS
  <2> QED
    BY <1>1, <2>1, <2>2, <2>3
<1>6. LivingAt(s, base[c]) = {d \in latest : span[d].last >= s}
  BY DEF LivingAt
<1> HIDE DEF latest
<1> QED
  BY <1>1, <1>2, <1>4, <1>5, <1>6

(***************************************************************************)
(* A row reads the planes of its parents while they are alive.             *)
(***************************************************************************)
LEMMA ParentsAlive ==
    ASSUME program \in Programs, NEW r, IsRow(r), NEW c \in ToSet(r.parents)
    PROVE  /\ c \in Values /\ AliveAt(c, r.stage)
           /\ \/ program.stage[c] < r.stage
              \/ /\ r.role = "contribution" /\ IsCopy(r.into) /\ c = program.copies[r.into]
                 /\ program.stage[c] = r.stage
<1>1. c \in Values
  BY ParentsAre DEF IsRow
<1>2. CASE r.role = "closure"
  <2>1. PICK t \in program.closures : r.parents = t.parents
    BY <1>2 DEF IsRow
  <2>2. r.stage = ClosureStage(program)
    BY <1>2 DEF IsRow
  <2>3. /\ ClosureStage(program) \in Nat /\ program.stage[c] < ClosureStage(program)
        /\ LastUse(program, c) = ClosureStage(program)
    BY <1>1, <2>1, LifetimesAre
  <2>4. program.stage[c] \in Nat
    BY <1>1, StagesFinite
  <2> QED
    BY <1>1, <2>2, <2>3, <2>4 DEF AliveAt
<1>3. CASE r.role = "contribution" /\ ~IsCopy(r.into)
  <2>1. PICK q \in program.contributions : r.into = q.result /\ r.parents = q.parents
    BY <1>3 DEF IsRow
  <2>2. r.stage = program.stage[r.into] /\ r.into \in Values
    BY <1>3 DEF IsRow
  <2>3. program.stage[c] < program.stage[q.result]
    <3> DEFINE earlier == {d \in Values : program.stage[d] < program.stage[q.result]}
    <3>1. q.parents \in Seq(earlier)
      BY ProgramsAssumption DEF WellFormed
    <3>2. c \in earlier
      <4> HIDE DEF earlier
      <4> QED
        BY <2>1, <3>1, ParentsAre
    <3> QED
      BY <3>2
  <2>4. program.stage[q.result] <= LastUse(program, c)
    BY <1>1, <2>1, LifetimesAre
  <2>5. program.stage[c] \in Nat /\ program.stage[q.result] \in Nat
    BY <1>1, <2>1, <2>2, StagesFinite
  <2> QED
    BY <1>1, <2>1, <2>2, <2>3, <2>4, <2>5 DEF AliveAt
<1>4. CASE r.role = "contribution" /\ IsCopy(r.into)
  <2>1. r.parents = <<program.copies[r.into]>> /\ r.stage = program.stage[r.into]
    BY <1>4 DEF IsRow
  <2>2. c = program.copies[r.into]
    BY <2>1 DEF ToSet
  <2>3. program.stage[c] = r.stage
    BY <1>4, <2>1, <2>2, ProgramsAssumption DEF WellFormed, IsCopy
  <2>4. program.stage[c] \in Nat /\ program.stage[c] <= LastUse(program, c)
    BY <1>1, StagesFinite, LifetimesAre
  <2> QED
    BY <1>1, <1>4, <2>2, <2>3, <2>4 DEF AliveAt
<1>5. CASE r.role \in {"source", "finalization"}
  <2>1. r.parents = <<>>
    BY <1>5 DEF IsRow
  <2> QED
    BY <2>1 DEF ToSet
<1> QED
  BY <1>2, <1>3, <1>4, <1>5 DEF IsRow

LEMMA ReadsAre ==
    ASSUME Laid, NEW r, IsRow(r)
    PROVE  /\ DOMAIN r.reads = DOMAIN r.parents
           /\ \A k \in DOMAIN r.reads :
                 /\ r.parents[k] \in ToSet(r.parents) /\ r.parents[k] \in Values
                 /\ AliveAt(r.parents[k], r.stage) /\ r.reads[k] = PlanesOf(r.parents[k])
                 /\ LivingAt(r.stage, r.reads[k].base) = {r.parents[k]}
           /\ UNION {LivingAt(r.stage, r.reads[k].base) : k \in DOMAIN r.reads}
                  = ToSet(r.parents)
<1>1. r.reads = [k \in DOMAIN r.parents |-> PlanesOf(r.parents[k])] /\ r.stage \in Nat
  BY DEF IsRow, Addresses
<1>2. DOMAIN r.reads = DOMAIN r.parents
  BY <1>1
<1>3. ASSUME NEW k \in DOMAIN r.reads
      PROVE  /\ r.parents[k] \in ToSet(r.parents) /\ r.parents[k] \in Values
             /\ AliveAt(r.parents[k], r.stage) /\ r.reads[k] = PlanesOf(r.parents[k])
             /\ LivingAt(r.stage, r.reads[k].base) = {r.parents[k]}
  <2>1. r.parents[k] \in ToSet(r.parents)
    BY <1>2 DEF ToSet
  <2>2. r.parents[k] \in Values /\ AliveAt(r.parents[k], r.stage)
    BY <2>1, ParentsAlive DEF Laid
  <2>3. r.reads[k] = PlanesOf(r.parents[k]) /\ r.reads[k].base = base[r.parents[k]]
    BY <1>1, <1>2 DEF PlanesOf
  <2>4. LivingAt(r.stage, r.reads[k].base) = {r.parents[k]}
    BY <1>1, <2>2, <2>3, LivingIs
  <2> QED
    BY <2>1, <2>2, <2>3, <2>4
<1>4. UNION {LivingAt(r.stage, r.reads[k].base) : k \in DOMAIN r.reads}
         = UNION {{r.parents[k]} : k \in DOMAIN r.parents}
  BY <1>2, <1>3
<1>5. ToSet(r.parents) = UNION {{r.parents[k]} : k \in DOMAIN r.parents}
  BY DEF ToSet
<1> QED
  BY <1>2, <1>3, <1>4, <1>5

-----------------------------------------------------------------------------
(* The rows of a tile: all those of a current or none, those of the        *)
(* parents of each of them, and every closure into a wanted destination.   *)

Makes(i, c) == plan[i].role # "closure" /\ plan[i].into = c

Closes(i, d) == plan[i].role = "closure" /\ plan[i].into = d

IsTile(S, wanted) ==
    /\ S \subseteq DOMAIN plan /\ wanted \subseteq DOMAIN program.sector
    /\ \A c \in Values : (\E i \in S : Makes(i, c)) => \A j \in DOMAIN plan :
           Makes(j, c) => j \in S
    /\ \A i \in S : \A c \in ToSet(plan[i].parents) : \E j \in S : Makes(j, c)
    /\ \A d \in wanted : \A i \in DOMAIN plan : Closes(i, d) => i \in S

LEMMA OwnRow ==
    ASSUME program \in Programs, IsPlan(plan), NEW c \in Values
    PROVE  \E i \in DOMAIN plan : Makes(i, c)
<1>1. CASE c \in program.sources
  BY <1>1 DEF IsPlan, Complete, HasRow, Makes
<1>2. CASE c \notin program.sources
  BY <1>2 DEF IsPlan, Complete, HasRow, Makes
<1> QED
  BY <1>1, <1>2

LEMMA PlanRow ==
    ASSUME program \in Programs, IsPlan(plan), NEW i \in DOMAIN plan
    PROVE  /\ IsRow(plan[i])
           /\ ToSet(plan[i].parents) \subseteq Values
           /\ \A c : Makes(i, c) => c \in Values
<1>1. IsRow(plan[i])
  BY DEF IsPlan, InOrder
<1> QED
  BY <1>1, ParentsAre DEF IsRow, Makes

LEMMA AllIsTile ==
    ASSUME program \in Programs, IsPlan(plan)
    PROVE  IsTile(DOMAIN plan, DOMAIN program.sector)
<1>1. \A i \in DOMAIN plan : ToSet(plan[i].parents) \subseteq Values
  BY PlanRow
<1> QED
  BY <1>1, OwnRow DEF IsTile

(***************************************************************************)
(* The rows of a sector are those of the currents in its domain, and the   *)
(* parents of a current of the sector belong to it.                        *)
(***************************************************************************)
LEMMA FlowIs ==
    ASSUME program \in Programs, IsPlan(plan), NEW i \in DOMAIN plan, NEW sector
    PROVE  /\ plan[i].role # "closure" =>
                (i \in Flow(sector) <=> sector \in DomainOf(program)[plan[i].into])
           /\ plan[i].role = "closure" =>
                (i \in Flow(sector) <=> sector = program.sector[plan[i].into])
           /\ i \in Flow(sector) =>
                \A c \in ToSet(plan[i].parents) : sector \in DomainOf(program)[c]
<1>1. IsRow(plan[i])
  BY PlanRow
<1>2. plan[i].role # "closure" =>
        (i \in Flow(sector) <=> sector \in DomainOf(program)[plan[i].into])
  BY <1>1 DEF IsRow, Flow
<1>3. plan[i].role = "closure" =>
        (i \in Flow(sector) <=> sector = program.sector[plan[i].into])
  BY <1>1 DEF IsRow, Flow
<1>4. ASSUME i \in Flow(sector), NEW c \in ToSet(plan[i].parents)
      PROVE  sector \in DomainOf(program)[c]
  <2>0. c \in Values
    BY PlanRow
  <2> DEFINE closing == {u \in program.closures : c \in ToSet(u.parents)}
             reading == {q \in program.contributions : c \in ToSet(q.parents)}
  <2>1. DomainOf(program)[c] = {program.sector[t.destination] : t \in closing}
                               \cup UNION {DomainOf(program)[r.result] : r \in reading}
    BY <2>0, DomainIs
  <2>2. CASE plan[i].role = "closure"
    <3>1. PICK t \in program.closures :
             plan[i].parents = t.parents /\ plan[i].into = t.destination
      BY <1>1, <2>2 DEF IsRow
    <3>2. t \in closing /\ program.sector[t.destination] = sector
      BY <1>3, <1>4, <2>2, <3>1
    <3> HIDE DEF closing, reading
    <3> QED
      BY <2>1, <3>2
  <2>3. CASE plan[i].role = "contribution" /\ ~IsCopy(plan[i].into)
    <3>1. PICK r \in program.contributions :
             plan[i].parents = r.parents /\ plan[i].into = r.result
      BY <1>1, <2>3 DEF IsRow
    <3>2. r \in reading /\ sector \in DomainOf(program)[r.result]
      BY <1>2, <1>4, <2>3, <3>1
    <3> HIDE DEF closing, reading
    <3> QED
      BY <2>1, <3>2
  <2>4. CASE plan[i].role = "contribution" /\ IsCopy(plan[i].into)
    <3>1. plan[i].parents = <<program.copies[plan[i].into]>>
      BY <1>1, <2>4 DEF IsRow
    <3>2. c = program.copies[plan[i].into]
      BY <3>1 DEF ToSet
    <3>3. DomainOf(program)[c] = DomainOf(program)[plan[i].into]
      BY <2>4, <3>2, ProgramsAssumption DEF WellFormed, IsCopy
    <3> QED
      BY <1>2, <1>4, <2>4, <3>3
  <2>5. CASE plan[i].role \in {"source", "finalization"}
    <3>1. plan[i].parents = <<>>
      BY <1>1, <2>5 DEF IsRow
    <3> QED
      BY <1>4, <3>1 DEF ToSet
  <2> QED
    BY <1>1, <2>2, <2>3, <2>4, <2>5 DEF IsRow
<1> QED
  BY <1>2, <1>3, <1>4

LEMMA FlowIsTile ==
    ASSUME program \in Programs, IsPlan(plan), NEW sector
    PROVE  IsTile(Flow(sector), TargetsOf(sector))
<1>1. Flow(sector) \subseteq DOMAIN plan
          /\ TargetsOf(sector) \subseteq DOMAIN program.sector
  BY DEF Flow, TargetsOf
<1>2. ASSUME NEW c \in Values, NEW i \in Flow(sector), Makes(i, c), NEW j \in DOMAIN plan,
             Makes(j, c)
      PROVE  j \in Flow(sector)
  BY <1>1, <1>2, FlowIs DEF Makes
<1>3. ASSUME NEW i \in Flow(sector), NEW c \in ToSet(plan[i].parents)
      PROVE  \E j \in Flow(sector) : Makes(j, c)
  <2>1. i \in DOMAIN plan /\ c \in Values /\ sector \in DomainOf(program)[c]
    BY <1>1, FlowIs, PlanRow
  <2>2. PICK j \in DOMAIN plan : Makes(j, c)
    BY <2>1, OwnRow
  <2> QED
    BY <2>1, <2>2, FlowIs DEF Makes
<1>4. ASSUME NEW d \in TargetsOf(sector), NEW i \in DOMAIN plan, Closes(i, d)
      PROVE  i \in Flow(sector)
  BY <1>4, FlowIs DEF Closes, TargetsOf
<1> QED
  BY <1>1, <1>2, <1>3, <1>4 DEF IsTile

-----------------------------------------------------------------------------
(* Destination selections. *)

LEMMA ResolvedIs ==
    ASSUME Laid, IsPlan(plan), NEW S \in SUBSET DOMAIN plan
    PROVE  Resolved(S)
<1>1. ASSUME NEW c \in Values, NEW d \in Values, c # d,
             program.stage[c] = program.stage[d], base[c] = base[d]
      PROVE  FALSE
  <2>1. c \in At(program.stage[d], base[d])
    BY <1>1 DEF At
  <2> QED
    BY <1>1, <2>1, AtIs
<1>2. ASSUME NEW i \in S, NEW k \in DOMAIN plan[i].reads
      PROVE  LivingAt(plan[i].stage, plan[i].reads[k].base) # {}
  <2>1. IsRow(plan[i])
    BY PlanRow DEF Laid
  <2>2. LivingAt(plan[i].stage, plan[i].reads[k].base) = {plan[i].parents[k]}
    BY <2>1, ReadsAre
  <2> QED
    BY <2>2
<1> QED
  BY <1>1, <1>2 DEF Resolved

LEMMA ReadByIs ==
    ASSUME Laid, IsPlan(plan), NEW S \in SUBSET DOMAIN plan
    PROVE  /\ ReadBy(S) = UNION {ToSet(plan[i].parents) : i \in S}
           /\ ReadBy(S) \subseteq Values
<1>1. ASSUME NEW i \in S
      PROVE  UNION {LivingAt(plan[i].stage, plan[i].reads[k].base) :
                       k \in DOMAIN plan[i].reads} = ToSet(plan[i].parents)
  BY PlanRow, ReadsAre DEF Laid
<1>2. ReadBy(S) = UNION {ToSet(plan[i].parents) : i \in S}
  BY <1>1 DEF ReadBy
<1>3. \A i \in S : ToSet(plan[i].parents) \subseteq Values
  BY PlanRow DEF Laid
<1> QED
  BY <1>2, <1>3

LEMMA DestIs ==
    ASSUME Laid, IsPlan(plan), NEW i \in DOMAIN plan
    PROVE  /\ plan[i].role = "closure" => plan[i].dest = plan[i].into
           /\ plan[i].role # "closure" =>
                /\ plan[i].into \in Values /\ plan[i].dest = PlanesOf(plan[i].into)
                /\ At(plan[i].stage, plan[i].dest.base) = {plan[i].into}
<1>1. IsRow(plan[i])
  BY PlanRow DEF Laid
<1>2. plan[i].role # "closure" =>
        /\ plan[i].into \in Values /\ plan[i].dest.base = base[plan[i].into]
        /\ plan[i].stage = program.stage[plan[i].into]
        /\ plan[i].dest = PlanesOf(plan[i].into)
  BY <1>1 DEF IsRow, PlanesOf
<1> QED
  BY <1>1, <1>2, AtIs DEF IsRow

ParentsIn(S) == UNION {ToSet(plan[i].parents) : i \in S}
ClosingIn(S, wanted) == {i \in S : plan[i].role = "closure" /\ plan[i].into \in wanted}
FeedingIn(S, known) == {i \in S : plan[i].role = "contribution" /\ plan[i].into \in known}

LEMMA MarkedIs ==
    ASSUME Laid, IsPlan(plan), NEW S \in SUBSET DOMAIN plan, NEW wanted
    PROVE  LET marked == Marked(S, wanted)
           IN  /\ marked \in SUBSET Values
               /\ ParentsIn(ClosingIn(S, wanted)) \subseteq marked
               /\ ParentsIn(FeedingIn(S, marked)) \subseteq marked
               /\ \A C \in SUBSET Values :
                     /\ ParentsIn(ClosingIn(S, wanted)) \subseteq C
                     /\ ParentsIn(FeedingIn(S, C)) \subseteq C
                     => marked \subseteq C
<1> DEFINE N == Cardinality(Values)
           a == ReadBy({i \in OfRole(S, "closure") : plan[i].dest \in wanted})
           G == [X \in SUBSET Values |-> ReadBy(Feeding(S, X))]
           IsReach(h) == h = [n \in 0..N |->
                                IF n = 0 THEN a
                                    ELSE h[n - 1] \cup ReadBy(Feeding(S, h[n - 1]))]
<1>1. N \in Nat
  BY ValuesAssumption, FS_CardinalityType
<1>2. a = ParentsIn(ClosingIn(S, wanted)) /\ a \in SUBSET Values
  <2>1. {i \in OfRole(S, "closure") : plan[i].dest \in wanted} = ClosingIn(S, wanted)
    BY DestIs DEF OfRole, ClosingIn
  <2>2. ClosingIn(S, wanted) \in SUBSET DOMAIN plan
    BY DEF ClosingIn
  <2> QED
    BY <2>1, <2>2, ReadByIs DEF ParentsIn
<1>3. ASSUME NEW X
      PROVE  ReadBy(Feeding(S, X)) = ParentsIn(FeedingIn(S, X))
                 /\ ReadBy(Feeding(S, X)) \in SUBSET Values
  <2>1. Feeding(S, X) = FeedingIn(S, X)
    BY DestIs DEF Feeding, OfRole, FeedingIn
  <2>2. FeedingIn(S, X) \in SUBSET DOMAIN plan
    BY DEF FeedingIn
  <2> QED
    BY <2>1, <2>2, ReadByIs DEF ParentsIn
<1> HIDE DEF a, N
<1>4. G \in [SUBSET Values -> SUBSET Values]
  BY <1>3
<1>5. \E h : IsReach(h)
  <2>1. PICK h : Iterates(h, a, G, N) /\ h \in [0..N -> SUBSET Values]
    <3> HIDE DEF G
    <3>1. a \in SUBSET Values
      BY <1>2
    <3> QED
      BY <1>1, <1>4, <3>1, IterationIs
  <2>2. \A n \in 0..N : n # 0 => G[h[n - 1]] = ReadBy(Feeding(S, h[n - 1]))
    <3>1. \A n \in 0..N : n # 0 => h[n - 1] \in SUBSET Values
      BY <1>1, <2>1
    <3> QED
      BY <3>1
  <2> HIDE DEF G
  <2>3. IsReach(h)
    BY <2>1, <2>2 DEF Iterates
  <2> HIDE DEF IsReach
  <2> QED
    BY <2>3
<1> DEFINE reach == CHOOSE h : IsReach(h)
<1>6. Marked(S, wanted) = reach[N]
  BY DEF Marked, a, N
<1>7. IsReach(reach)
  <2> HIDE DEF IsReach
  <2> QED
    BY <1>5
<1> HIDE DEF reach
<1>8. /\ reach[0] = a
      /\ \A n \in 1..N : reach[n - 1] \in SUBSET Values
             => reach[n] = reach[n - 1] \cup G[reach[n - 1]]
  <2>1. 0 \in 0..N /\ \A n \in 1..N : n \in 0..N /\ n # 0
    BY <1>1
  <2> QED
    BY <1>7, <2>1
<1> HIDE DEF IsReach
<1>9. /\ reach[N] \in SUBSET Values /\ a \subseteq reach[N]
             /\ G[reach[N]] \subseteq reach[N]
      /\ \A C \in SUBSET Values :
            a \subseteq C /\ (\A X \in SUBSET C : G[X] \subseteq C) => reach[N] \subseteq C
  <2> HIDE DEF G
  <2>1. a \in SUBSET Values /\ IsFiniteSet(Values)
    BY <1>2, ValuesAssumption
  <2>2. Grows(reach, Values, a, G, Cardinality(Values))
    BY <1>8 DEF Grows, N
  <2>3. IsLeast(reach[Cardinality(Values)], Values, a, G)
    BY <1>4, <2>1, <2>2, FixedPoint
  <2> QED
    BY <2>3 DEF IsLeast, N
<1>10. ParentsIn(FeedingIn(S, reach[N])) \subseteq reach[N]
  BY <1>3, <1>9
<1>11. ASSUME NEW C \in SUBSET Values, a \subseteq C, ParentsIn(FeedingIn(S, C)) \subseteq C
       PROVE  reach[N] \subseteq C
  <2>1. ASSUME NEW X \in SUBSET C
        PROVE  G[X] \subseteq C
    <3>1. FeedingIn(S, X) \subseteq FeedingIn(S, C)
      BY DEF FeedingIn
    <3>2. ParentsIn(FeedingIn(S, X)) \subseteq ParentsIn(FeedingIn(S, C))
      BY <3>1 DEF ParentsIn
    <3>3. G[X] = ParentsIn(FeedingIn(S, X))
      BY <1>3
    <3> HIDE DEF G
    <3> QED
      BY <1>11, <3>2, <3>3
  <2> HIDE DEF G
  <2> QED
    BY <1>9, <1>11, <2>1
<1> HIDE DEF G
<1> QED
  BY <1>2, <1>6, <1>9, <1>10, <1>11

(***************************************************************************)
(* What the amplitudes depend on, by the terms of the program.             *)
(***************************************************************************)
ClosedBy(wanted) == UNION {ToSet(t.parents) : t \in {u \in program.closures : u.destination \in wanted}}

ParentsOf(c) == IF IsCopy(c) THEN {program.copies[c]}
    ELSE UNION {ToSet(r.parents) : r \in Into(c)}

LEMMA ParentsOfIs ==
    ASSUME program \in Programs, NEW c
    PROVE  ParentsOf(c) \subseteq Values
<1>1. CASE IsCopy(c)
  BY <1>1, ProgramsAssumption DEF ParentsOf, IsCopy, WellFormed
<1>2. CASE ~IsCopy(c)
  <2>1. ASSUME NEW r \in Into(c)
        PROVE  ToSet(r.parents) \subseteq Values
    <3> DEFINE earlier == {d \in Values : program.stage[d] < program.stage[r.result]}
    <3>1. r.parents \in Seq(earlier) /\ earlier \subseteq Values
      BY ProgramsAssumption DEF WellFormed, Into
    <3> HIDE DEF earlier
    <3> QED
      BY <3>1, ParentsAre
  <2> QED
    BY <1>2, <2>1 DEF ParentsOf
<1> QED
  BY <1>1, <1>2

LEMMA DependsOnIs ==
    ASSUME program \in Programs, NEW wanted
    PROVE  LET dep == DependsOn(wanted)
           IN  /\ dep \in SUBSET Values
               /\ ClosedBy(wanted) \subseteq dep
               /\ \A c \in dep : ParentsOf(c) \subseteq dep
               /\ \A C \in SUBSET Values :
                     ClosedBy(wanted) \subseteq C /\ (\A c \in C : ParentsOf(c) \subseteq C)
                     => dep \subseteq C
<1> DEFINE N == Cardinality(Values)
           a == ClosedBy(wanted)
           step(X) == UNION {IF IsCopy(c) THEN {program.copies[c]}
                             ELSE UNION {ToSet(r.parents) : r \in Into(c)} : c \in X}
           G == [X \in SUBSET Values |-> UNION {ParentsOf(c) : c \in X}]
           IsReach(h) == h = [n \in 0..N |->
              IF n = 0
              THEN UNION {ToSet(t.parents) : t \in {u \in program.closures : u.destination \in wanted}}
              ELSE h[n - 1] \cup UNION {IF IsCopy(c) THEN {program.copies[c]}
                                        ELSE UNION {ToSet(r.parents) : r \in Into(c)} :
                                          c \in h[n - 1]}]
<1>1. N \in Nat
  BY ValuesAssumption, FS_CardinalityType
<1>2. a \in SUBSET Values
  BY ParentsAre, ProgramsAssumption DEF WellFormed, ClosedBy
<1>3. G \in [SUBSET Values -> SUBSET Values]
  BY ParentsOfIs
<1>4. \A X \in SUBSET Values : G[X] = step(X)
  BY DEF ParentsOf
<1>5. a = UNION {ToSet(t.parents) : t \in {u \in program.closures : u.destination \in wanted}}
  BY DEF ClosedBy
<1> HIDE DEF a, N
<1>6. \E h : IsReach(h)
  <2>1. PICK h : Iterates(h, a, G, N) /\ h \in [0..N -> SUBSET Values]
    <3> HIDE DEF G
    <3> QED
      BY <1>1, <1>2, <1>3, IterationIs
  <2>2. \A n \in 0..N : n # 0 => G[h[n - 1]] = step(h[n - 1])
    <3>1. \A n \in 0..N : n # 0 => h[n - 1] \in SUBSET Values
      BY <1>1, <2>1
    <3> HIDE DEF G, step
    <3> QED
      BY <1>4, <3>1
  <2>3. h = [n \in 0..N |-> IF n = 0 THEN a ELSE h[n - 1] \cup step(h[n - 1])]
    <3> HIDE DEF G, step
    <3> QED
      BY <2>1, <2>2 DEF Iterates
  <2>4. IsReach(h)
    BY <1>5, <2>3
  <2> HIDE DEF IsReach
  <2> QED
    BY <2>4
<1> DEFINE reach == CHOOSE h : IsReach(h)
<1>7. DependsOn(wanted) = reach[N]
  BY DEF DependsOn, N
<1>8. IsReach(reach)
  <2> HIDE DEF IsReach
  <2> QED
    BY <1>6
<1> HIDE DEF reach
<1>9. reach = [n \in 0..N |-> IF n = 0 THEN a ELSE reach[n - 1] \cup step(reach[n - 1])]
  BY <1>5, <1>8
<1> HIDE DEF IsReach, step, G
<1>10. Grows(reach, Values, a, G, N)
  <2>1. 0 \in 0..N /\ \A n \in 1..N : n \in 0..N /\ n # 0
    BY <1>1
  <2> QED
    BY <1>4, <1>9, <2>1 DEF Grows
<1>11. IsLeast(reach[N], Values, a, G)
  BY <1>2, <1>3, <1>10, ValuesAssumption, FixedPoint DEF N
<1>12. \A X \in SUBSET Values : G[X] = UNION {ParentsOf(c) : c \in X}
  BY DEF G
<1>13. \A c \in reach[N] : ParentsOf(c) \subseteq reach[N]
  BY <1>11, <1>12 DEF IsLeast
<1>14. ASSUME NEW C \in SUBSET Values, a \subseteq C, \A c \in C : ParentsOf(c) \subseteq C
       PROVE  reach[N] \subseteq C
  <2>1. \A X \in SUBSET C : G[X] \subseteq C
    BY <1>12, <1>14
  <2> QED
    BY <1>11, <1>14, <2>1 DEF IsLeast
<1> QED
  BY <1>7, <1>11, <1>13, <1>14 DEF IsLeast, a

(***************************************************************************)
(* The worklist over addresses marks the currents the program depends on.  *)
(***************************************************************************)
LEMMA MarkedIsDependency ==
    ASSUME Laid, IsPlan(plan), NEW sector, NEW wanted \in SUBSET TargetsOf(sector)
    PROVE  /\ Marked(Flow(sector), wanted) = DependsOn(wanted)
           /\ Marked(Flow(sector), wanted)
                  \subseteq {c \in Values : sector \in DomainOf(program)[c]}
<1> DEFINE F == Flow(sector)
           M == Marked(F, wanted)
           D == DependsOn(wanted)
           C == {c \in Values : sector \in DomainOf(program)[c]}
<1>0. program \in Programs /\ F \in SUBSET DOMAIN plan
  BY DEF Laid, Flow
<1>1. /\ M \in SUBSET Values
      /\ ParentsIn(ClosingIn(F, wanted)) \subseteq M
      /\ ParentsIn(FeedingIn(F, M)) \subseteq M
      /\ \A X \in SUBSET Values :
            /\ ParentsIn(ClosingIn(F, wanted)) \subseteq X
            /\ ParentsIn(FeedingIn(F, X)) \subseteq X
            => M \subseteq X
  <2> HIDE DEF F
  <2> QED
    BY <1>0, MarkedIs
<1>2. /\ D \in SUBSET Values /\ ClosedBy(wanted) \subseteq D
      /\ \A c \in D : ParentsOf(c) \subseteq D
      /\ \A X \in SUBSET Values :
            ClosedBy(wanted) \subseteq X /\ (\A c \in X : ParentsOf(c) \subseteq X)
                => D \subseteq X
  BY <1>0, DependsOnIs
<1> HIDE DEF F, M, D
<1>3. ParentsIn(ClosingIn(F, wanted)) = ClosedBy(wanted)
  <2>1. ASSUME NEW i \in ClosingIn(F, wanted)
        PROVE  ToSet(plan[i].parents) \subseteq ClosedBy(wanted)
    <3>1. i \in DOMAIN plan /\ plan[i].role = "closure" /\ plan[i].into \in wanted
      BY <1>0 DEF ClosingIn
    <3>2. PICK t \in program.closures :
              plan[i].parents = t.parents /\ plan[i].into = t.destination
      BY <1>0, <3>1, PlanRow DEF IsRow
    <3> QED
      BY <3>1, <3>2 DEF ClosedBy
  <2>2. ASSUME NEW t \in program.closures, t.destination \in wanted
        PROVE  \E i \in ClosingIn(F, wanted) : plan[i].parents = t.parents
    <3>1. PICK i \in DOMAIN plan :
             /\ plan[i].role = "closure" /\ plan[i].into = t.destination
             /\ plan[i].parents = t.parents
      BY DEF IsPlan, Complete, HasRow
    <3>2. program.sector[plan[i].into] = sector
      BY <2>2, <3>1 DEF TargetsOf
    <3>3. i \in F
      BY <1>0, <3>1, <3>2, FlowIs DEF F
    <3> QED
      BY <2>2, <3>1, <3>3 DEF ClosingIn
  <2>3. ClosedBy(wanted) \subseteq ParentsIn(ClosingIn(F, wanted))
    BY <2>2 DEF ClosedBy, ParentsIn
  <2> QED
    BY <2>1, <2>3 DEF ParentsIn
<1>4. ASSUME NEW i \in F, plan[i].role = "contribution"
      PROVE  ToSet(plan[i].parents) \subseteq ParentsOf(plan[i].into)
  <2>1. IsRow(plan[i])
    BY <1>0, PlanRow
  <2>2. CASE IsCopy(plan[i].into)
    <3>1. plan[i].parents = <<program.copies[plan[i].into]>>
      BY <1>4, <2>1, <2>2 DEF IsRow
    <3> QED
      BY <2>2, <3>1 DEF ToSet, ParentsOf
  <2>3. CASE ~IsCopy(plan[i].into)
    <3>1. PICK r \in program.contributions :
              plan[i].into = r.result /\ plan[i].parents = r.parents
      BY <1>4, <2>1, <2>3 DEF IsRow
    <3>2. r \in Into(plan[i].into)
      BY <3>1 DEF Into
    <3> QED
      BY <2>3, <3>1, <3>2 DEF ParentsOf
  <2> QED
    BY <2>2, <2>3
<1>5. ASSUME NEW X \in SUBSET C, NEW c \in X
      PROVE  ParentsOf(c) \subseteq ParentsIn(FeedingIn(F, X))
  <2>0. c \in Values /\ sector \in DomainOf(program)[c]
    OBVIOUS
  <2>1. \A i \in DOMAIN plan :
           plan[i].role = "contribution" /\ plan[i].into = c => i \in FeedingIn(F, X)
    BY <1>0, <2>0, FlowIs DEF FeedingIn, F
  <2>2. CASE IsCopy(c)
    <3>1. PICK i \in DOMAIN plan :
             /\ plan[i].role = "contribution" /\ plan[i].into = c
             /\ plan[i].parents = <<program.copies[c]>>
      BY <2>2 DEF IsPlan, Complete, HasRow, IsCopy
    <3>2. program.copies[c] \in ToSet(plan[i].parents)
      BY <3>1 DEF ToSet
    <3> QED
      BY <2>1, <2>2, <3>1, <3>2 DEF ParentsOf, ParentsIn
  <2>3. CASE ~IsCopy(c)
    <3>1. ASSUME NEW r \in Into(c)
          PROVE  ToSet(r.parents) \subseteq ParentsIn(FeedingIn(F, X))
      <4>1. r \in program.contributions /\ r.result = c
        BY DEF Into
      <4>2. PICK i \in DOMAIN plan :
               /\ plan[i].role = "contribution" /\ plan[i].into = c
               /\ plan[i].parents = r.parents
        BY <2>3, <4>1 DEF IsPlan, Complete, HasRow
      <4> QED
        BY <2>1, <4>2 DEF ParentsIn
    <3> QED
      BY <2>3, <3>1 DEF ParentsOf
  <2> QED
    BY <2>2, <2>3
<1>6. M \subseteq C
  <2>1. \A i \in F : ToSet(plan[i].parents) \subseteq C
    BY <1>0, FlowIs, PlanRow DEF F
  <2>2. \A X \in SUBSET F : ParentsIn(X) \subseteq C
    BY <2>1 DEF ParentsIn
  <2>3. ClosingIn(F, wanted) \in SUBSET F /\ FeedingIn(F, C) \in SUBSET F
    BY DEF ClosingIn, FeedingIn
  <2>4. C \in SUBSET Values
    OBVIOUS
  <2> HIDE DEF C
  <2> QED
    BY <1>1, <2>2, <2>3, <2>4
<1>7. M \subseteq D
  <2>1. ASSUME NEW i \in FeedingIn(F, D)
        PROVE  ToSet(plan[i].parents) \subseteq D
    <3>1. i \in F /\ plan[i].role = "contribution" /\ plan[i].into \in D
      BY DEF FeedingIn
    <3> QED
      BY <1>2, <1>4, <3>1
  <2>2. ParentsIn(FeedingIn(F, D)) \subseteq D
    BY <2>1 DEF ParentsIn
  <2> QED
    BY <1>1, <1>2, <1>3, <2>2
<1>8. D \subseteq M
  <2>1. \A c \in M : ParentsOf(c) \subseteq M
    BY <1>1, <1>5, <1>6
  <2> QED
    BY <1>1, <1>2, <1>3, <2>1
<1> QED
  BY <1>6, <1>7, <1>8 DEF M, D, F

LEMMA RetainedIsTile ==
    ASSUME Laid, IsPlan(plan), NEW sector, NEW wanted \in SUBSET TargetsOf(sector)
    PROVE  LET S == Retained(Flow(sector), wanted)
           IN  /\ IsTile(S, wanted)
               /\ {plan[i].into : i \in {j \in S : plan[j].role # "closure"}}
                      = DependsOn(wanted)
<1> DEFINE F == Flow(sector)
           M == Marked(F, wanted)
           S == Retained(F, wanted)
<1>0. program \in Programs /\ F \in SUBSET DOMAIN plan
  BY DEF Laid, Flow
<1>1. /\ M \in SUBSET Values
      /\ ParentsIn(ClosingIn(F, wanted)) \subseteq M
      /\ ParentsIn(FeedingIn(F, M)) \subseteq M
  <2> HIDE DEF F
  <2> QED
    BY <1>0, MarkedIs
<1>2. M = DependsOn(wanted) /\ \A c \in M : sector \in DomainOf(program)[c]
  BY MarkedIsDependency
<1>3. S = {i \in F : IF plan[i].role = "closure" THEN plan[i].into \in wanted
                     ELSE plan[i].into \in M}
  <2> HIDE DEF F
  <2> QED
    BY <1>0, DestIs DEF Retained
<1>4. \A c \in M : \A i \in DOMAIN plan : Makes(i, c) => i \in S
  <2> SUFFICES ASSUME NEW c \in M, NEW i \in DOMAIN plan, Makes(i, c)
               PROVE  i \in S
    OBVIOUS
  <2>1. i \in F
    BY <1>0, <1>2, FlowIs DEF Makes
  <2> QED
    BY <1>3, <2>1 DEF Makes
<1>5. \A c \in M : \E i \in S : Makes(i, c)
  BY <1>0, <1>1, <1>4, OwnRow
<1>6. \A i \in S : i \in F /\ (plan[i].role # "closure" => plan[i].into \in M)
  BY <1>3
<1>7. \A i \in S : ToSet(plan[i].parents) \subseteq M
  <2> SUFFICES ASSUME NEW i \in S
               PROVE  ToSet(plan[i].parents) \subseteq M
    OBVIOUS
  <2>1. CASE plan[i].role = "closure"
    BY <1>1, <1>3, <2>1 DEF ParentsIn, ClosingIn
  <2>2. CASE plan[i].role = "contribution"
    BY <1>1, <1>3, <2>2 DEF ParentsIn, FeedingIn
  <2>3. CASE plan[i].role \notin {"closure", "contribution"}
    <3>1. IsRow(plan[i])
      BY <1>0, <1>6, PlanRow
    <3>2. plan[i].parents = <<>>
      BY <2>3, <3>1 DEF IsRow
    <3> QED
      BY <3>2 DEF ToSet
  <2> QED
    BY <2>1, <2>2, <2>3
<1>8. IsTile(S, wanted)
  <2>1. S \subseteq DOMAIN plan /\ wanted \subseteq DOMAIN program.sector
    BY <1>0, <1>6 DEF TargetsOf
  <2>2. ASSUME NEW c \in Values, NEW i \in S, Makes(i, c)
        PROVE  \A j \in DOMAIN plan : Makes(j, c) => j \in S
    <3>1. c \in M
      BY <1>6, <2>2 DEF Makes
    <3> QED
      BY <1>4, <3>1
  <2>3. \A i \in S : \A c \in ToSet(plan[i].parents) : \E j \in S : Makes(j, c)
    BY <1>5, <1>7
  <2>4. ASSUME NEW d \in wanted, NEW i \in DOMAIN plan, Closes(i, d)
        PROVE  i \in S
    <3>1. program.sector[plan[i].into] = sector
      BY <2>4 DEF Closes, TargetsOf
    <3>2. i \in F
      BY <1>0, <2>4, <3>1, FlowIs DEF Closes
    <3> QED
      BY <1>3, <2>4, <3>2 DEF Closes
  <2> HIDE DEF S
  <2> QED
    BY <2>1, <2>2, <2>3, <2>4 DEF IsTile
<1>9. {plan[i].into : i \in {j \in S : plan[j].role # "closure"}} = M
  <2>1. \A c \in M : \E i \in S : plan[i].role # "closure" /\ plan[i].into = c
    BY <1>5 DEF Makes
  <2> HIDE DEF S
  <2> QED
    BY <1>6, <2>1
<1> QED
  BY <1>2, <1>8, <1>9

-----------------------------------------------------------------------------
(* The rows that have run, and what their currents hold. *)

Chosen == {rows[j] : j \in DOMAIN rows}

RunTo(n) == {rows[j] : j \in 1..(n - 1)}

Made(n, c) == {i \in RunTo(n) : Makes(i, c)}

Expected(n, c) ==
    IF \E i \in Made(n, c) : plan[i].role # "contribution" THEN Finished(c)
    ELSE IF IsCopy(c) THEN Unfinished(c)
    ELSE [terms |-> {plan[i].id : i \in Made(n, c)}, final |-> FALSE]

\* A current some row still has to read holds what its rows summed.
Keeps(h, n) ==
    n \in DOMAIN rows =>
        \A c \in Values : Made(n, c) # {} /\ AliveAt(c, plan[rows[n]].stage) =>
            \A p \in Of(PlanesOf(c)) : h[p] = Expected(n, c)

Sums(a, n) ==
    \A d \in selection.wanted :
        a[d] = [terms |-> {plan[i].id : i \in {j \in RunTo(n) : Closes(j, d)}},
        final |-> FALSE]

\* A stage clears nothing but its own currents.
ClearsOwn ==
    \A s \in Stages : \A range \in clears[s] :
        \E c \in Values \ program.sources : program.stage[c] = s /\ range = PlanesOf(c)

Running ==
    /\ rows \in Seq(DOMAIN plan)
    /\ \A j, k \in DOMAIN rows : j < k => rows[j] < rows[k]
    /\ IsTile(Chosen, selection.wanted)
    /\ ClearsOwn
    /\ DOMAIN planes = 0..(stop - 1) /\ DOMAIN amplitude = DOMAIN program.sector

Going == Laid /\ IsPlan(plan) /\ Running

LEMMA OrderIs ==
    ASSUME program \in Programs, IsPlan(plan), NEW i \in DOMAIN plan, NEW j \in DOMAIN plan
    PROVE  /\ i \in Nat /\ j \in Nat
           /\ Precedes(plan[i], plan[j]) <=> i < j
           /\ i <= j => plan[i].stage <= plan[j].stage
           /\ plan[i].stage \in Nat
<1>1. i \in Nat /\ j \in Nat
  BY DEF IsPlan, InOrder
<1>2. IsRow(plan[i]) /\ IsRow(plan[j])
  BY PlanRow
<1>3. /\ i < j => Precedes(plan[i], plan[j])
      /\ j < i => Precedes(plan[j], plan[i])
  BY DEF IsPlan, InOrder
<1>4. Precedes(plan[i], plan[j]) => i < j
  <2>1. i = j => ~Precedes(plan[i], plan[j])
    BY <1>2, PrecedesIs
  <2>2. j < i => ~Precedes(plan[i], plan[j])
    BY <1>2, <1>3, PrecedesIs
  <2> QED
    BY <1>1, <2>1, <2>2
<1>5. i <= j => plan[i].stage <= plan[j].stage
  <2>1. i < j => plan[i].stage < plan[j].stage \/ plan[i].stage = plan[j].stage
    BY <1>3 DEF Precedes
  <2>2. plan[i].stage \in Nat /\ plan[j].stage \in Nat
    BY <1>2 DEF IsRow
  <2> QED
    BY <1>1, <2>1, <2>2
<1> QED
  BY <1>1, <1>2, <1>3, <1>4, <1>5 DEF IsRow

LEMMA RunToIs ==
    ASSUME Going, NEW n \in DOMAIN rows
    PROVE  /\ n \in Nat /\ rows[n] \in Chosen /\ rows[n] \in DOMAIN plan
           /\ Chosen \subseteq DOMAIN plan
           /\ RunTo(n) = {j \in Chosen : j < rows[n]}
           /\ RunTo(n + 1) = RunTo(n) \cup {rows[n]}
           /\ n + 1 \notin DOMAIN rows => RunTo(n + 1) = Chosen
<1>1. PICK m \in Nat : rows \in [1..m -> DOMAIN plan]
  BY DEF Going, Running
<1>2. DOMAIN rows = 1..m /\ n \in 1..m
  BY <1>1
<1>3. rows[n] \in Chosen /\ rows[n] \in DOMAIN plan /\ Chosen \subseteq DOMAIN plan
  BY <1>1 DEF Chosen
<1>4. DOMAIN plan \subseteq Nat
  BY DEF Going, IsPlan, InOrder
<1>5. \A j, k \in 1..m : j < k => rows[j] < rows[k]
  BY <1>2 DEF Going, Running
<1>6. \A j \in 1..m : rows[j] < rows[n] <=> j < n
  <2> TAKE j \in 1..m
  <2>1. rows[j] \in Nat /\ rows[n] \in Nat
    BY <1>1, <1>2, <1>4
  <2>2. j < n => rows[j] < rows[n]
    BY <1>2, <1>5
  <2>3. n < j => rows[n] < rows[j]
    BY <1>2, <1>5
  <2>4. j = n \/ j < n \/ n < j
    BY <1>2
  <2> QED
    BY <2>1, <2>2, <2>3, <2>4
<1>7. RunTo(n) = {j \in Chosen : j < rows[n]}
  <2>1. \A j \in 1..(n - 1) : j \in 1..m /\ j < n
    BY <1>2
  <2>2. \A j \in 1..m : j < n => j \in 1..(n - 1)
    BY <1>2
  <2> QED
    BY <1>2, <1>6, <2>1, <2>2 DEF RunTo, Chosen
<1>8. RunTo(n + 1) = RunTo(n) \cup {rows[n]}
  <2>1. 1..((n + 1) - 1) = (1..(n - 1)) \cup {n}
    BY <1>2
  <2> QED
    BY <2>1 DEF RunTo
<1>9. n + 1 \notin DOMAIN rows => RunTo(n + 1) = Chosen
  <2>1. n + 1 \notin 1..m => 1..((n + 1) - 1) = 1..m
    BY <1>2
  <2> QED
    BY <1>2, <2>1 DEF RunTo, Chosen
<1> QED
  BY <1>2, <1>3, <1>7, <1>8, <1>9

LEMMA MadeIs ==
    ASSUME Going, NEW n \in DOMAIN rows, NEW c \in Values, NEW i \in Made(n, c)
    PROVE  /\ i \in DOMAIN plan /\ i \in Chosen /\ i < rows[n] /\ Makes(i, c)
           /\ plan[i].stage = program.stage[c] /\ IsRow(plan[i])
           /\ program.stage[c] <= plan[rows[n]].stage
<1>1. i \in RunTo(n) /\ Makes(i, c)
  BY DEF Made
<1>2. i \in DOMAIN plan /\ i \in Chosen /\ i < rows[n] /\ rows[n] \in DOMAIN plan
  BY <1>1, RunToIs
<1>3. IsRow(plan[i]) /\ plan[i].stage = program.stage[c]
  BY <1>1, <1>2, PlanRow DEF Going, Laid, IsRow, Makes
<1>4. plan[i].stage <= plan[rows[n]].stage
  BY <1>2, OrderIs DEF Going, Laid
<1> QED
  BY <1>1, <1>2, <1>3, <1>4

(***************************************************************************)
(* A row keeps what the living currents hold when it leaves the others     *)
(* alone and its own current holds what is expected after it.              *)
(***************************************************************************)
LEMMA KeepsNext ==
    ASSUME Going, NEW n \in DOMAIN rows, NEW g, NEW h, Keeps(g, n),
           \A c \in Values :
              Made(n, c) # {} /\ AliveAt(c, plan[rows[n]].stage) /\ ~Makes(rows[n], c) =>
                 \A p \in Of(PlanesOf(c)) : h[p] = g[p],
           \A c \in Values :
              Makes(rows[n], c) => \A p \in Of(PlanesOf(c)) : h[p] = Expected(n + 1, c)
    PROVE  Keeps(h, n + 1)
<1> SUFFICES ASSUME n + 1 \in DOMAIN rows, NEW c \in Values, Made(n + 1, c) # {},
                    AliveAt(c, plan[rows[n + 1]].stage), NEW p \in Of(PlanesOf(c))
             PROVE  h[p] = Expected(n + 1, c)
  BY DEF Keeps
<1>1. CASE Makes(rows[n], c)
  BY <1>1
<1>2. CASE ~Makes(rows[n], c)
  <2>1. Made(n + 1, c) = Made(n, c)
    BY <1>2, RunToIs DEF Made
  <2>2. Expected(n + 1, c) = Expected(n, c)
    BY <2>1 DEF Expected
  <2>3. AliveAt(c, plan[rows[n]].stage)
    <3>1. PICK i \in Made(n, c) : TRUE
      BY <2>1
    <3>2. program.stage[c] <= plan[rows[n]].stage
      BY <3>1, MadeIs
    <3>3. rows[n] <= rows[n + 1] /\ rows[n] \in DOMAIN plan /\ rows[n + 1] \in DOMAIN plan
      <4>1. n < n + 1 /\ rows[n] \in Nat /\ rows[n + 1] \in Nat
        BY RunToIs, OrderIs DEF Going, Laid
      <4>2. rows[n] < rows[n + 1]
        BY <4>1 DEF Going, Running
      <4> QED
        BY <4>1, <4>2, RunToIs
    <3>4. /\ plan[rows[n]].stage <= plan[rows[n + 1]].stage
          /\ plan[rows[n]].stage \in Nat /\ plan[rows[n + 1]].stage \in Nat
      BY <3>3, OrderIs DEF Going, Laid
    <3>5. plan[rows[n + 1]].stage <= LastUse(program, c) /\ LastUse(program, c) \in Nat
      BY LaidIs DEF AliveAt, Going
    <3> QED
      BY <3>2, <3>4, <3>5 DEF AliveAt
  <2>4. h[p] = g[p]
    BY <1>2, <2>1, <2>3
  <2>5. g[p] = Expected(n, c)
    BY <2>1, <2>3 DEF Keeps
  <2> QED
    BY <2>2, <2>4, <2>5
<1> QED
  BY <1>1, <1>2

(***************************************************************************)
(* When a row runs, every row before it of a current of the tile has run,  *)
(* and the currents it sums are finished.                                  *)
(***************************************************************************)
LEMMA RunBefore ==
    ASSUME Going, NEW n \in DOMAIN rows, NEW c \in Values, NEW k \in Chosen, Makes(k, c),
           NEW j \in DOMAIN plan, Makes(j, c), Precedes(plan[j], plan[rows[n]])
    PROVE  j \in Made(n, c)
<1>1. j \in Chosen
  BY DEF Going, Running, IsTile
<1>2. j < rows[n]
  BY RunToIs, OrderIs DEF Going, Laid
<1> QED
  BY <1>1, <1>2, RunToIs DEF Made

LEMMA FinishedBefore ==
    ASSUME Going, NEW n \in DOMAIN rows, Keeps(planes, n),
           NEW c \in ToSet(plan[rows[n]].parents), program.stage[c] < plan[rows[n]].stage
    PROVE  \A p \in Of(PlanesOf(c)) : planes[p] = Finished(c)
<1>1. rows[n] \in Chosen /\ rows[n] \in DOMAIN plan
  BY RunToIs
<1>2. c \in Values /\ AliveAt(c, plan[rows[n]].stage)
  BY <1>1, PlanRow, ParentsAlive DEF Going, Laid
<1>3. PICK k \in Chosen : Makes(k, c)
  BY <1>1 DEF Going, Running, IsTile
<1>4. PICK j \in DOMAIN plan : Makes(j, c) /\ plan[j].role # "contribution"
  <2>1. CASE c \in program.sources
    BY <2>1 DEF Going, IsPlan, Complete, HasRow, Makes
  <2>2. CASE c \notin program.sources
    BY <1>2, <2>2 DEF Going, IsPlan, Complete, HasRow, Makes
  <2> QED
    BY <2>1, <2>2
<1>5. plan[j].stage = program.stage[c]
  BY <1>4, PlanRow DEF Going, Laid, IsRow, Makes
<1>6. Precedes(plan[j], plan[rows[n]])
  BY <1>5 DEF Precedes
<1>7. j \in Made(n, c)
  BY <1>2, <1>3, <1>4, <1>6, RunBefore
<1>8. Expected(n, c) = Finished(c)
  BY <1>4, <1>7 DEF Expected
<1> QED
  BY <1>2, <1>7, <1>8 DEF Keeps

LEMMA TermIs ==
    ASSUME Going, NEW n \in DOMAIN rows, Keeps(planes, n),
           ~(plan[rows[n]].role = "contribution" /\ IsCopy(plan[rows[n]].into))
    PROVE  TermOf(plan[rows[n]]) = plan[rows[n]].id
<1> DEFINE r == plan[rows[n]]
<1>1. IsRow(r)
  BY RunToIs, PlanRow DEF Going, Laid
<1>2. ASSUME NEW k \in DOMAIN r.reads, NEW p \in Of(r.reads[k])
      PROVE  planes[p] = Finished(r.parents[k])
  <2>1. r.parents[k] \in ToSet(r.parents) /\ r.reads[k] = PlanesOf(r.parents[k])
    BY <1>1, ReadsAre DEF Going
  <2>2. program.stage[r.parents[k]] < r.stage
    BY <1>1, <2>1, ParentsAlive DEF Going, Laid
  <2> QED
    BY <2>1, <2>2, FinishedBefore
<1> HIDE DEF r
<1>3. ReadsAreFinished(r)
  BY <1>2 DEF ReadsAreFinished
<1> QED
  BY <1>3 DEF TermOf, r

LEMMA RoleOrder ==
    ASSUME NEW r, NEW q, IsRow(r), IsRow(q), Precedes(r, q), r.stage = q.stage
    PROVE  /\ q.role = "contribution" => r.role \in {"source", "contribution"}
           /\ q.role = "finalization" => r.role # "closure"
           /\ r.role = q.role
                  => r.executor < q.executor \/ (r.executor = q.executor /\ r.id < q.id)
BY DEF Precedes, IsRow, Roles

LEMMA EarlierAre ==
    ASSUME Going, NEW n \in DOMAIN rows, plan[rows[n]].role = "contribution",
           NEW c \in Values \ program.sources, program.stage[c] = plan[rows[n]].stage,
           NEW i \in Made(n, c)
    PROVE  plan[i].role = "contribution"
<1>1. /\ i \in DOMAIN plan /\ i < rows[n] /\ Makes(i, c) /\ IsRow(plan[i])
      /\ plan[i].stage = plan[rows[n]].stage
  BY MadeIs
<1>2. rows[n] \in DOMAIN plan /\ IsRow(plan[rows[n]])
  BY RunToIs, PlanRow DEF Going, Laid
<1>3. Precedes(plan[i], plan[rows[n]])
  BY <1>1, <1>2, OrderIs DEF Going, Laid
<1>4. plan[i].role \in {"source", "contribution"}
  BY <1>1, <1>2, <1>3, RoleOrder
<1> QED
  BY <1>1, <1>4 DEF IsRow, Makes

(***************************************************************************)
(* A stage's first contribution clears no current that was already made.   *)
(***************************************************************************)
LEMMA ClearedIs ==
    ASSUME Going, pc \in DOMAIN rows, Row.role = "contribution"
    PROVE  /\ DOMAIN Cleared = 0..(stop - 1)
           /\ \A c \in Values : Made(pc, c) # {} /\ AliveAt(c, Row.stage) =>
                 \A p \in Of(PlanesOf(c)) : Cleared[p] = planes[p]
<1>1. DOMAIN planes = 0..(stop - 1)
  BY DEF Going, Running
<1>2. /\ rows[pc] \in DOMAIN plan /\ IsRow(Row) /\ Row.stage \in Nat
      /\ Row.into \in Values /\ Row.stage = program.stage[Row.into]
  <2>1. rows[pc] \in DOMAIN plan
    BY RunToIs
  <2>2. IsRow(Row)
    BY <2>1, PlanRow DEF Going, Laid, Row
  <2> QED
    BY <2>1, <2>2 DEF IsRow
<1>3. Row.stage \in Stages
  <2>1. Lifetimes(program) \in [Values -> Spans]
    BY ProgramsAssumption, RequestsAssumption DEF WellFormed, Going, Laid
  <2>2. Lifetimes(program)[Row.into] \in Spans
    BY <1>2, <2>1
  <2>3. Lifetimes(program)[Row.into].first = program.stage[Row.into]
    BY <1>2 DEF Lifetimes
  <2> QED
    BY <1>2, <2>2, <2>3 DEF Spans
<1>4. ASSUME NEW c \in Values, Made(pc, c) # {}, AliveAt(c, Row.stage), StartsStage(pc),
             NEW range \in clears[Row.stage], NEW p \in Of(PlanesOf(c)), p \in Of(range)
      PROVE  FALSE
  <2>1. PICK d \in Values \ program.sources :
           program.stage[d] = Row.stage /\ range = PlanesOf(d)
    BY <1>3 DEF Going, Running, ClearsOwn
  <2>2. AliveAt(d, Row.stage)
    BY <2>1, LaidIs DEF AliveAt, Going
  <2>3. d = c
    BY <1>2, <1>4, <2>1, <2>2, AliveApart DEF Going
  <2>4. PICK i \in Made(pc, c) : TRUE
    BY <1>4
  <2>5. plan[i].role = "contribution"
    BY <2>1, <2>3, EarlierAre DEF Row
  <2>6. plan[i].stage = Row.stage /\ i \in RunTo(pc)
    BY <2>1, <2>3, MadeIs DEF Made
  <2>7. PICK j \in 1..(pc - 1) : rows[j] = i
    BY <2>6 DEF RunTo
  <2> QED
    BY <1>4, <2>5, <2>6, <2>7 DEF StartsStage, Row
<1>5. CASE StartsStage(pc)
  <2>1. Cleared = [p \in DOMAIN planes |->
           IF \E range \in clears[Row.stage] : p \in Of(range) THEN Zero ELSE planes[p]]
    BY <1>5 DEF Cleared
  <2>2. \A c \in Values : Of(PlanesOf(c)) \subseteq DOMAIN planes
    BY <1>1, LaidIs DEF Going
  <2> QED
    BY <1>1, <1>4, <1>5, <2>1, <2>2
<1>6. CASE ~StartsStage(pc)
  BY <1>1, <1>6 DEF Cleared
<1> QED
  BY <1>5, <1>6

\* Writing the planes of one current leaves the other living ones alone.
LEMMA OverwriteApart ==
    ASSUME Going, NEW n \in DOMAIN rows, plan[rows[n]].role # "closure",
           NEW c \in Values, AliveAt(c, plan[rows[n]].stage), ~Makes(rows[n], c),
           NEW p \in Of(PlanesOf(c))
    PROVE  p \notin Of(plan[rows[n]].dest)
<1> DEFINE d == plan[rows[n]].into
<1>1. rows[n] \in DOMAIN plan /\ IsRow(plan[rows[n]])
  BY RunToIs, PlanRow DEF Going, Laid
<1>2. /\ d \in Values /\ plan[rows[n]].dest = PlanesOf(d)
      /\ plan[rows[n]].stage = program.stage[d] /\ d # c /\ plan[rows[n]].stage \in Nat
  BY <1>1 DEF IsRow, Makes
<1>3. AliveAt(d, plan[rows[n]].stage)
  BY <1>2, LaidIs DEF AliveAt, Going
<1> QED
  BY <1>2, <1>3, AliveApart DEF Going

LEMMA CurrentRow ==
    ASSUME Going, NEW n \in DOMAIN rows, plan[rows[n]].role # "closure"
    PROVE  LET r == plan[rows[n]]
           IN  /\ IsRow(r) /\ rows[n] \in DOMAIN plan /\ rows[n] \in Chosen
               /\ r.into \in Values /\ Makes(rows[n], r.into)
               /\ r.stage = program.stage[r.into] /\ AliveAt(r.into, r.stage)
               /\ r.dest = PlanesOf(r.into)
               /\ Of(PlanesOf(r.into)) \subseteq DOMAIN planes
               /\ Made(n + 1, r.into) = Made(n, r.into) \cup {rows[n]}
               /\ \A c \in Values : Makes(rows[n], c) => c = r.into
<1> DEFINE r == plan[rows[n]]
<1>1. rows[n] \in DOMAIN plan /\ rows[n] \in Chosen /\ IsRow(r)
  BY RunToIs, PlanRow DEF Going, Laid
<1>2. /\ r.into \in Values /\ Makes(rows[n], r.into)
      /\ r.stage = program.stage[r.into] /\ r.dest = PlanesOf(r.into)
      /\ \A c \in Values : Makes(rows[n], c) => c = r.into
  BY <1>1 DEF IsRow, Makes
<1>3. AliveAt(r.into, r.stage) /\ Of(PlanesOf(r.into)) \subseteq DOMAIN planes
  <2>1. DOMAIN planes = 0..(stop - 1)
    BY DEF Going, Running
  <2> HIDE DEF r
  <2> QED
    BY <1>2, <2>1, LaidIs DEF AliveAt, Going
<1>4. Made(n + 1, r.into) = Made(n, r.into) \cup {rows[n]}
  BY <1>2, RunToIs DEF Made
<1> QED
  BY <1>1, <1>2, <1>3, <1>4

LEMMA FillKeeps ==
    ASSUME Going, pc \in DOMAIN rows, Keeps(planes, pc), Row.role = "source", NEW h,
           h = [p \in DOMAIN planes |-> IF p \in Of(Row.dest) THEN Finished(Row.into) ELSE planes[p]]
    PROVE  Keeps(h, pc + 1)
<1>1. ASSUME NEW c \in Values, AliveAt(c, plan[rows[pc]].stage), ~Makes(rows[pc], c),
             NEW p \in Of(PlanesOf(c))
      PROVE  h[p] = planes[p]
  <2>1. p \notin Of(Row.dest)
    BY <1>1, OverwriteApart DEF Row
  <2>2. p \in DOMAIN planes
    BY LaidIs DEF Going, Running
  <2> QED
    BY <2>1, <2>2
<1>2. ASSUME NEW c \in Values, Makes(rows[pc], c), NEW p \in Of(PlanesOf(c))
      PROVE  h[p] = Expected(pc + 1, c)
  <2>1. /\ c = Row.into /\ Row.dest = PlanesOf(c) /\ p \in DOMAIN planes
        /\ rows[pc] \in Made(pc + 1, c)
    BY <1>2, CurrentRow DEF Row
  <2>2. Expected(pc + 1, c) = Finished(c)
    BY <2>1 DEF Expected, Row
  <2> QED
    BY <2>1, <2>2
<1> QED
  BY <1>1, <1>2, KeepsNext

LEMMA OneMoreTerm ==
    ASSUME NEW ids, NEW flag, NEW id
    PROVE  [[terms |-> ids, final |-> flag] EXCEPT !.terms = @ \cup {id}]
              = [terms |-> ids \cup {id}, final |-> flag]
<1> DEFINE f == [terms |-> ids, final |-> flag]
           g == [terms |-> ids \cup {id}, final |-> flag]
           h == [f EXCEPT !.terms = @ \cup {id}]
<1>1. DOMAIN h = {"terms", "final"} /\ DOMAIN g = {"terms", "final"}
  OBVIOUS
<1>2. h.terms = g.terms /\ h.final = g.final
  OBVIOUS
<1>3. h = [x \in DOMAIN h |-> h[x]] /\ g = [x \in DOMAIN g |-> g[x]]
  OBVIOUS
<1> HIDE DEF h, g
<1>4. h = g
  BY <1>1, <1>2, <1>3
<1> QED
  BY <1>4 DEF h, g

\* A sum over distinct terms.
LEMMA AddedIs ==
    ASSUME NEW ids \in SUBSET Nat, NEW id \in Nat, id \notin ids
    PROVE  Added([terms |-> ids, final |-> FALSE], id)
               = [terms |-> ids \cup {id}, final |-> FALSE]
<1> DEFINE value == [terms |-> ids, final |-> FALSE]
<1>1. value.terms = ids /\ ~value.final
  OBVIOUS
<1>2. -1 \notin ids /\ id \notin ids /\ id # -1
  OBVIOUS
<1>3. [value EXCEPT !.terms = @ \cup {id}] = [terms |-> ids \cup {id}, final |-> FALSE]
  BY OneMoreTerm
<1> HIDE DEF value
<1>4. Added(value, id) = [value EXCEPT !.terms = @ \cup {id}]
  BY <1>1, <1>2 DEF Added
<1> QED
  BY <1>3, <1>4 DEF value

LEMMA ContributeKeeps ==
    ASSUME Going, pc \in DOMAIN rows, Keeps(planes, pc), Row.role = "contribution",
           Row.executor # NoExecutor, NEW h,
           h = [p \in DOMAIN Cleared |->
                  IF p \in Of(Row.dest)
                  THEN Added(IF Row.initialize THEN Zero ELSE Cleared[p], TermOf(Row))
                  ELSE Cleared[p]]
    PROVE  Keeps(h, pc + 1)
<1> DEFINE c == Row.into
           i == rows[pc]
           ids == {plan[j].id : j \in Made(pc, c)}
<1>1. /\ IsRow(Row) /\ i \in DOMAIN plan /\ i \in Chosen /\ c \in Values /\ Makes(i, c)
      /\ Row.stage = program.stage[c] /\ AliveAt(c, Row.stage) /\ Row.dest = PlanesOf(c)
      /\ Of(PlanesOf(c)) \subseteq DOMAIN planes
      /\ Made(pc + 1, c) = Made(pc, c) \cup {i}
      /\ \A d \in Values : Makes(i, d) => d = c
  BY CurrentRow DEF Row
<1>2. ~IsCopy(c) /\ c \in Values \ program.sources /\ Row.id \in Nat
  BY <1>1 DEF IsRow
<1>3. TermOf(Row) = Row.id
  BY <1>2, TermIs DEF Row
<1>4. /\ DOMAIN Cleared = DOMAIN planes
      /\ \A d \in Values : Made(pc, d) # {} /\ AliveAt(d, Row.stage) =>
            \A p \in Of(PlanesOf(d)) : Cleared[p] = planes[p]
  BY ClearedIs DEF Going, Running
<1>5. \A j \in Made(pc, c) :
         /\ plan[j].role = "contribution" /\ plan[j].into = c /\ IsRow(plan[j])
         /\ j \in DOMAIN plan /\ j < i /\ plan[j].stage = Row.stage
  BY <1>1, <1>2, EarlierAre, MadeIs DEF Makes, Row
<1>6. ids \in SUBSET Nat /\ Row.id \notin ids
  <2>1. \A j \in Made(pc, c) : plan[j].id \in Nat
    BY <1>5 DEF IsRow
  <2>2. ASSUME NEW j \in Made(pc, c), plan[j].id = Row.id
        PROVE  FALSE
    <3>1. PICK r \in program.contributions : Row.id = r.id /\ Row.executor = r.executor
      BY <1>1, <1>2 DEF IsRow
    <3>2. PICK q \in program.contributions :
              plan[j].id = q.id /\ plan[j].executor = q.executor
      BY <1>2, <1>5 DEF IsRow
    <3>3. r = q
      BY <2>2, <3>1, <3>2, ProgramsAssumption DEF WellFormed, Identified, Going, Laid
    <3>4. Precedes(plan[j], Row)
      BY <1>1, <1>5, OrderIs DEF Going, Laid, Row
    <3>5. \/ plan[j].executor < Row.executor
          \/ plan[j].executor = Row.executor /\ plan[j].id < Row.id
      BY <1>1, <1>5, <3>4, RoleOrder
    <3>6. Row.executor \in Nat
      BY <1>1, NoExecutorAssumption DEF IsRow
    <3> QED
      BY <1>2, <2>2, <3>1, <3>2, <3>3, <3>5, <3>6
  <2> QED
    BY <2>1, <2>2
<1>7. Expected(pc + 1, c) = [terms |-> ids \cup {Row.id}, final |-> FALSE]
  <2>1. \A j \in Made(pc + 1, c) : plan[j].role = "contribution"
    BY <1>1, <1>5 DEF Row
  <2>2. {plan[j].id : j \in Made(pc + 1, c)} = ids \cup {Row.id}
    BY <1>1 DEF Row
  <2>3. Expected(pc + 1, c)
            = [terms |-> {plan[j].id : j \in Made(pc + 1, c)}, final |-> FALSE]
    BY <1>2, <2>1 DEF Expected
  <2> QED
    BY <2>2, <2>3
<1>8. ASSUME NEW p \in Of(PlanesOf(c))
      PROVE  Added(IF Row.initialize THEN Zero ELSE Cleared[p], TermOf(Row))
                = [terms |-> ids \cup {Row.id}, final |-> FALSE]
  <2>0. Row.initialize <=> ~\E j \in DOMAIN plan :
           j < i /\ plan[j].role = "contribution" /\ plan[j].into = c
    BY <1>1 DEF Going, IsPlan, FlagsFirst, Row
  <2>1. CASE Row.initialize
    <3>1. Made(pc, c) = {}
      BY <1>5, <2>0, <2>1
    <3>2. ids = {}
      BY <3>1
    <3>3. Added(Zero, Row.id) = [terms |-> {} \cup {Row.id}, final |-> FALSE]
      <4>1. Zero = [terms |-> {}, final |-> FALSE] /\ {} \in SUBSET Nat /\ Row.id \notin {}
        BY DEF Zero
      <4> QED
        BY <1>2, <4>1, AddedIs
    <3> QED
      BY <1>3, <2>1, <3>2, <3>3
  <2>2. CASE ~Row.initialize
    <3>1. PICK j \in DOMAIN plan :
             j < i /\ plan[j].role = "contribution" /\ plan[j].into = c
      BY <2>0, <2>2
    <3>2. Precedes(plan[j], plan[i]) /\ Makes(j, c)
      BY <1>1, <3>1, OrderIs DEF Going, Laid, Makes
    <3>3. j \in Made(pc, c)
      BY <1>1, <3>2, RunBefore
    <3>4. Cleared[p] = planes[p]
      BY <1>1, <1>4, <3>3
    <3>5. planes[p] = Expected(pc, c)
      BY <1>1, <3>3 DEF Keeps, Row
    <3>6. Expected(pc, c) = [terms |-> ids, final |-> FALSE]
      BY <1>2, <1>5 DEF Expected
    <3> HIDE DEF ids, c
    <3>7. Added(Cleared[p], Row.id) = [terms |-> ids \cup {Row.id}, final |-> FALSE]
      BY <1>2, <1>6, <3>4, <3>5, <3>6, AddedIs
    <3> QED
      BY <1>3, <2>2, <3>7
  <2> QED
    BY <2>1, <2>2
<1> HIDE DEF ids
<1>9. ASSUME NEW d \in Values, Made(pc, d) # {}, AliveAt(d, plan[rows[pc]].stage),
             ~Makes(rows[pc], d), NEW p \in Of(PlanesOf(d))
      PROVE  h[p] = planes[p]
  <2>1. p \notin Of(Row.dest)
    BY <1>9, OverwriteApart DEF Row
  <2>2. p \in DOMAIN Cleared
    BY <1>4, LaidIs DEF Going, Running
  <2>3. Cleared[p] = planes[p]
    BY <1>4, <1>9 DEF Row
  <2> QED
    BY <2>1, <2>2, <2>3
<1>10. ASSUME NEW d \in Values, Makes(rows[pc], d), NEW p \in Of(PlanesOf(d))
       PROVE  h[p] = Expected(pc + 1, d)
  <2>1. d = c /\ p \in Of(Row.dest) /\ p \in DOMAIN Cleared
    BY <1>1, <1>4, <1>10
  <2> QED
    BY <1>7, <1>8, <1>10, <2>1
<1> QED
  BY <1>9, <1>10, KeepsNext

(***************************************************************************)
(* No sum of terms holds the mark of a stale plane: a certified current    *)
(* ends, over its representatives, at a current with rows of its own.      *)
(***************************************************************************)
LEMMA TermsNat ==
    ASSUME program \in Programs, NEW c \in Values \ program.sources
    PROVE  -1 \notin TermsOf(program)[c]
<1> DEFINE B == {k \in Values \ program.sources : -1 \in TermsOf(program)[k]}
           R == {s \in Nat \X Nat : s[1] < s[2]}
<1> SUFFICES ASSUME B # {}
             PROVE  FALSE
  OBVIOUS
<1>1. B \subseteq Nat
  BY ValuesAssumption
<1>2. IsWellFoundedOn(R, Nat)
  BY NatLessThanWellFounded DEF OpToRel
<1>3. PICK x \in B : \A y \in B : ~(<<y, x>> \in R)
  <2> HIDE DEF R, B
  <2> QED
    BY <1>1, <1>2, WFMin
<1>4. \A y \in B : ~(y < x)
  BY <1>1, <1>3
<1>5. x \in Values \ program.sources /\ -1 \in TermsOf(program)[x] /\ x \in Nat
  BY <1>1
<1>6. IsCopy(x)
  <2>1. \A r \in Into(x) : r.id \in Nat
    BY ProgramsAssumption DEF WellFormed, Identified, Into
  <2>2. ~IsCopy(x) => TermsOf(program)[x] = {r.id : r \in Into(x)}
    BY <1>5, TermsAre
  <2> QED
    BY <1>5, <2>1, <2>2
<1> DEFINE of == program.copies[x]
<1>7. of \in Values \ program.sources /\ of <= x /\ of \in Nat
  BY <1>6, ProgramsAssumption, ValuesAssumption DEF WellFormed, IsCopy
<1>8. of # x /\ -1 \in TermsOf(program)[of]
  BY <1>5, <1>6, TermsAre
<1> QED
  BY <1>4, <1>5, <1>7, <1>8

(***************************************************************************)
(* When every contribution row of a current has run and none after it, the *)
(* current holds all its terms.                                            *)
(***************************************************************************)
LEMMA SummedIs ==
    ASSUME Going, NEW n \in DOMAIN rows, NEW c \in Values \ program.sources,
           NEW k \in Chosen, Makes(k, c),
           \A j \in DOMAIN plan :
              Makes(j, c) /\ plan[j].role = "contribution"
                  => Precedes(plan[j], plan[rows[n]]),
           \A i \in Made(n, c) : plan[i].role = "contribution"
    PROVE  Made(n, c) # {} /\ Expected(n, c) = Unfinished(c)
<1>1. \A j \in DOMAIN plan :
          plan[j].role = "contribution" /\ plan[j].into = c => j \in Made(n, c)
  BY RunBefore DEF Makes
<1>2. CASE IsCopy(c)
  <2>1. \E j \in DOMAIN plan : plan[j].role = "contribution" /\ plan[j].into = c
    BY <1>2 DEF Going, IsPlan, Complete, HasRow, IsCopy
  <2> QED
    BY <1>1, <1>2, <2>1 DEF Expected
<1>3. CASE ~IsCopy(c)
  <2>1. PICK r \in program.contributions : r.result = c
    BY ProgramsAssumption DEF WellFormed, Going, Laid
  <2>2. \A q \in program.contributions : q.result = c =>
           \E j \in Made(n, c) : plan[j].id = q.id
    <3> SUFFICES ASSUME NEW q \in program.contributions, q.result = c
                 PROVE  \E j \in Made(n, c) : plan[j].id = q.id
      OBVIOUS
    <3>1. PICK j \in DOMAIN plan :
             plan[j].role = "contribution" /\ plan[j].into = c /\ plan[j].id = q.id
      BY <1>3 DEF Going, IsPlan, Complete, HasRow
    <3> QED
      BY <1>1, <3>1
  <2>3. \A j \in Made(n, c) : \E q \in program.contributions :
            q.result = c /\ plan[j].id = q.id
    <3> SUFFICES ASSUME NEW j \in Made(n, c)
                 PROVE  \E q \in program.contributions : q.result = c /\ plan[j].id = q.id
      OBVIOUS
    <3>1. IsRow(plan[j]) /\ plan[j].role = "contribution" /\ plan[j].into = c
      BY MadeIs DEF Makes
    <3> QED
      BY <1>3, <3>1 DEF IsRow
  <2>4. {plan[j].id : j \in Made(n, c)} = {q.id : q \in Into(c)}
    BY <2>2, <2>3 DEF Into
  <2>5. TermsOf(program)[c] = {q.id : q \in Into(c)}
    BY <1>3, TermsAre DEF Going, Laid
  <2> QED
    BY <1>3, <2>1, <2>2, <2>4, <2>5 DEF Expected, Unfinished
<1> QED
  BY <1>2, <1>3

LEMMA CopyKeeps ==
    ASSUME Going, pc \in DOMAIN rows, Keeps(planes, pc), Row.role = "contribution",
           Row.executor = NoExecutor, NEW h,
           h = [p \in DOMAIN Cleared |->
                  IF p \in Of(Row.dest)
                  THEN IF program.copies[Row.into] = Row.into THEN Zero
                       ELSE Cleared[Row.reads[1].base + (p - Row.dest.base)]
                  ELSE Cleared[p]]
    PROVE  Keeps(h, pc + 1)
<1> DEFINE c == Row.into
           i == rows[pc]
           of == program.copies[c]
<1>1. /\ IsRow(Row) /\ i \in DOMAIN plan /\ i \in Chosen /\ c \in Values /\ Makes(i, c)
      /\ Row.stage = program.stage[c] /\ AliveAt(c, Row.stage) /\ Row.dest = PlanesOf(c)
      /\ Of(PlanesOf(c)) \subseteq DOMAIN planes
      /\ Made(pc + 1, c) = Made(pc, c) \cup {i}
      /\ \A d \in Values : Makes(i, d) => d = c
  BY CurrentRow DEF Row
<1>2. IsCopy(c) /\ c \in Values \ program.sources /\ Row.parents = <<of>> /\ Row.id = c
  BY <1>1, NoExecutorAssumption DEF IsRow
<1>3. /\ of \in Values \ program.sources /\ of <= c /\ program.stage[c] = program.stage[of]
      /\ program.width[c] = program.width[of]
  BY <1>2, ProgramsAssumption DEF WellFormed, IsCopy, Going, Laid
<1>4. /\ DOMAIN Cleared = DOMAIN planes
      /\ \A d \in Values : Made(pc, d) # {} /\ AliveAt(d, Row.stage) =>
            \A p \in Of(PlanesOf(d)) : Cleared[p] = planes[p]
  BY ClearedIs DEF Going, Running
<1>5. Expected(pc + 1, c) = Unfinished(c)
  <2>1. \A j \in Made(pc, c) : plan[j].role = "contribution"
    BY <1>1, <1>2, EarlierAre DEF Row
  <2> QED
    BY <1>1, <1>2, <2>1 DEF Expected, Row
<1>6. ASSUME of = c
      PROVE  \A p \in Of(PlanesOf(c)) : h[p] = Expected(pc + 1, c)
  <2>1. Unfinished(c) = Zero
    BY <1>2, <1>6, TermsAre DEF Unfinished, Zero, Going, Laid
  <2>2. \A p \in Of(PlanesOf(c)) : h[p] = Zero
    BY <1>1, <1>4, <1>6
  <2> QED
    BY <1>5, <2>1, <2>2
<1>7. ASSUME of # c
      PROVE  \A p \in Of(PlanesOf(c)) : h[p] = Expected(pc + 1, c)
  <2>1. PICK k \in Chosen : Makes(k, of)
    <3>1. of \in ToSet(plan[i].parents)
      BY <1>2 DEF ToSet, Row
    <3> QED
      BY <1>1, <3>1 DEF Going, Running, IsTile
  <2>2. ASSUME NEW j \in DOMAIN plan, Makes(j, of), plan[j].role = "contribution"
        PROVE  Precedes(plan[j], plan[i])
    <3>1. IsRow(plan[j]) /\ plan[j].into = of
      BY <2>2, PlanRow DEF Going, Laid, Makes
    <3>2. plan[j].stage = Row.stage
      BY <1>1, <1>3, <2>2, <3>1 DEF IsRow
    <3>3. CASE IsCopy(of)
      <4>1. plan[j].executor = NoExecutor /\ plan[j].id = of
        BY <2>2, <3>1, <3>3 DEF IsRow
      <4>2. of < c
        <5>1. of \in Nat /\ c \in Nat
          BY <1>2, <1>3, ValuesAssumption
        <5> QED
          BY <1>3, <1>7, <5>1
      <4> QED
        BY <1>2, <2>2, <3>2, <4>1, <4>2 DEF Precedes, Row
    <3>4. CASE ~IsCopy(of)
      <4>1. plan[j].executor < NoExecutor
        BY <2>2, <3>1, <3>4 DEF IsRow
      <4> QED
        BY <2>2, <3>2, <4>1 DEF Precedes, Row
    <3> QED
      BY <3>3, <3>4
  <2>3. \A j \in Made(pc, of) : plan[j].role = "contribution"
    BY <1>1, <1>3, EarlierAre DEF Row
  <2>4. Made(pc, of) # {} /\ Expected(pc, of) = Unfinished(of)
    <3> HIDE DEF of, c
    <3> QED
      BY <1>3, <2>1, <2>2, <2>3, SummedIs
  <2>5. AliveAt(of, Row.stage)
    BY <1>1, <1>3, LaidIs DEF AliveAt, Going
  <2>6. \A p \in Of(PlanesOf(of)) : Cleared[p] = Unfinished(of)
    BY <1>3, <1>4, <2>4, <2>5 DEF Keeps, Row
  <2>7. Unfinished(of) = Unfinished(c)
    BY <1>2, <1>7, TermsAre DEF Unfinished, Going, Laid
  <2>8. Row.reads[1] = PlanesOf(of)
    <3>1. 1 \in DOMAIN Row.parents /\ Row.parents[1] = of
      BY <1>2
    <3> QED
      BY <1>1, <3>1, ReadsAre DEF Going
  <2>9. ASSUME NEW p \in Of(PlanesOf(c))
        PROVE  Row.reads[1].base + (p - Row.dest.base) \in Of(PlanesOf(of))
    <3>1. /\ Row.reads[1].base = base[of] /\ Row.dest.base = base[c]
          /\ base[of] \in Nat /\ base[c] \in Nat
      BY <1>1, <1>3, <2>8, LaidIs DEF PlanesOf, Going
    <3>2. /\ Of(PlanesOf(c)) = base[c]..(base[c] + span[c].width - 1)
          /\ Of(PlanesOf(of)) = base[of]..(base[of] + span[of].width - 1)
          /\ span[c].width = span[of].width /\ span[c].width \in Nat
      BY <1>1, <1>3, LaidIs DEF Going
    <3> HIDE DEF c, of
    <3> DEFINE w == span[c].width
    <3>3. p \in base[c]..(base[c] + w - 1) /\ w \in Nat
      BY <3>2
    <3>4. base[of] + (p - base[c]) \in base[of]..(base[of] + w - 1)
      <4> HIDE DEF w
      <4> QED
        BY <3>1, <3>3
    <3> QED
      BY <3>1, <3>2, <3>4
  <2>10. \A p \in Of(PlanesOf(c)) : h[p] = Cleared[Row.reads[1].base + (p - Row.dest.base)]
    BY <1>1, <1>4, <1>7
  <2> QED
    BY <1>5, <2>6, <2>7, <2>9, <2>10
<1>8. \A p \in Of(PlanesOf(c)) : h[p] = Expected(pc + 1, c)
  BY <1>6, <1>7
<1>9. ASSUME NEW d \in Values, Made(pc, d) # {}, AliveAt(d, plan[rows[pc]].stage),
             ~Makes(rows[pc], d), NEW p \in Of(PlanesOf(d))
      PROVE  h[p] = planes[p]
  <2>1. p \notin Of(Row.dest)
    BY <1>9, OverwriteApart DEF Row
  <2>2. p \in DOMAIN Cleared
    BY <1>4, LaidIs DEF Going, Running
  <2>3. Cleared[p] = planes[p]
    BY <1>4, <1>9 DEF Row
  <2> QED
    BY <2>1, <2>2, <2>3
<1>10. \A d \in Values : Makes(rows[pc], d) => \A p \in Of(PlanesOf(d)) :
           h[p] = Expected(pc + 1, d)
  BY <1>1, <1>8
<1> HIDE DEF c, of
<1> QED
  BY <1>9, <1>10, KeepsNext

LEMMA FinalizeKeeps ==
    ASSUME Going, pc \in DOMAIN rows, Keeps(planes, pc), Row.role = "finalization", NEW h,
           h = [p \in DOMAIN planes |->
                  IF p \in Of(Row.dest)
                  THEN IF planes[p].final \/ -1 \in planes[p].terms THEN Stale
                       ELSE [planes[p] EXCEPT !.final = TRUE]
                  ELSE planes[p]]
    PROVE  Keeps(h, pc + 1)
<1> DEFINE c == Row.into
           i == rows[pc]
<1>1. /\ IsRow(Row) /\ i \in DOMAIN plan /\ i \in Chosen /\ c \in Values /\ Makes(i, c)
      /\ Row.stage = program.stage[c] /\ AliveAt(c, Row.stage) /\ Row.dest = PlanesOf(c)
      /\ Of(PlanesOf(c)) \subseteq DOMAIN planes
      /\ Made(pc + 1, c) = Made(pc, c) \cup {i}
      /\ \A d \in Values : Makes(i, d) => d = c
  BY CurrentRow DEF Row
<1>2. c \in Values \ program.sources
  BY <1>1 DEF IsRow
<1>3. ASSUME NEW j \in DOMAIN plan, Makes(j, c), plan[j].role = "contribution"
      PROVE  Precedes(plan[j], plan[i])
  <2>1. plan[j].stage = Row.stage
    BY <1>1, <1>3, PlanRow DEF Going, Laid, IsRow, Makes
  <2> QED
    BY <1>3, <2>1 DEF Precedes, Roles, Row
<1>4. ASSUME NEW j \in Made(pc, c)
      PROVE  plan[j].role = "contribution"
  <2>1. /\ j \in DOMAIN plan /\ j < i /\ Makes(j, c) /\ IsRow(plan[j])
        /\ plan[j].stage = Row.stage
    BY <1>1, MadeIs
  <2>2. Precedes(plan[j], Row)
    BY <1>1, <2>1, OrderIs DEF Going, Laid, Row
  <2>3. plan[j].role # "finalization"
    <3> SUFFICES ASSUME plan[j].role = "finalization"
                 PROVE  FALSE
      OBVIOUS
    <3>1. plan[j].executor = 0 /\ Row.executor = 0 /\ plan[j].id = c /\ Row.id = c
              /\ c \in Nat
      BY <1>1, <2>1, ValuesAssumption DEF IsRow, Makes
    <3>2. plan[j].executor < Row.executor \/ plan[j].id < Row.id
      BY <1>1, <2>1, <2>2, RoleOrder
    <3> QED
      BY <3>1, <3>2
  <2> QED
    BY <1>2, <2>1, <2>3 DEF IsRow, Makes
<1>5. Made(pc, c) # {} /\ Expected(pc, c) = Unfinished(c)
  <2> HIDE DEF c
  <2> QED
    BY <1>1, <1>2, <1>3, <1>4, SummedIs
<1>6. \A p \in Of(PlanesOf(c)) : planes[p] = Unfinished(c)
  BY <1>1, <1>5 DEF Keeps, Row
<1>7. Expected(pc + 1, c) = Finished(c)
  BY <1>1 DEF Expected, Row
<1>8. ~Unfinished(c).final /\ -1 \notin Unfinished(c).terms
  BY <1>2, TermsNat DEF Unfinished, Going, Laid
<1>9. ASSUME NEW p \in Of(PlanesOf(c))
      PROVE  h[p] = Expected(pc + 1, c)
  <2>1. h[p] = [Unfinished(c) EXCEPT !.final = TRUE]
    BY <1>1, <1>6, <1>8
  <2> QED
    BY <1>7, <2>1 DEF Finished
<1>10. ASSUME NEW d \in Values, AliveAt(d, plan[rows[pc]].stage), ~Makes(rows[pc], d),
              NEW p \in Of(PlanesOf(d))
       PROVE  h[p] = planes[p]
  <2>1. p \notin Of(Row.dest)
    BY <1>10, OverwriteApart DEF Row
  <2>2. p \in DOMAIN planes
    BY LaidIs DEF Going, Running
  <2> QED
    BY <2>1, <2>2
<1>11. \A d \in Values : Makes(rows[pc], d) => \A p \in Of(PlanesOf(d)) :
           h[p] = Expected(pc + 1, d)
  BY <1>1, <1>9
<1> HIDE DEF c
<1> QED
  BY <1>10, <1>11, KeepsNext

(***************************************************************************)
(* A closure row adds its term to its destination, every other row leaves  *)
(* the amplitudes alone.                                                   *)
(***************************************************************************)
LEMMA CloseKeeps ==
    ASSUME Going, pc \in DOMAIN rows, Keeps(planes, pc), Sums(amplitude, pc),
           Row.role = "closure", NEW b,
           b = [amplitude EXCEPT ![Row.dest] = Added(@, TermOf(Row))]
    PROVE  Keeps(planes, pc + 1) /\ Sums(b, pc + 1)
<1> DEFINE i == rows[pc]
           ids(d) == {plan[j].id : j \in {k \in RunTo(pc) : Closes(k, d)}}
<1>1. /\ i \in DOMAIN plan /\ IsRow(Row) /\ i \in Chosen
      /\ RunTo(pc + 1) = RunTo(pc) \cup {i}
      /\ \A j \in RunTo(pc) : j \in DOMAIN plan /\ j < i
  <2>1. i \in DOMAIN plan
    BY RunToIs
  <2>2. IsRow(Row)
    BY <2>1, PlanRow DEF Going, Laid, Row
  <2> QED
    BY <2>1, <2>2, RunToIs
<1>2. Keeps(planes, pc + 1)
  <2>1. \A c \in Values : ~Makes(rows[pc], c)
    BY DEF Makes, Row
  <2> QED
    BY <2>1, KeepsNext
<1>3. TermOf(Row) = Row.id
  BY TermIs DEF Row
<1>4. Row.dest = Row.into /\ Row.id \in Nat
  BY <1>1 DEF IsRow
<1>5. ASSUME NEW d \in selection.wanted
      PROVE  b[d] = [terms |-> {plan[j].id : j \in {k \in RunTo(pc + 1) : Closes(k, d)}},
                     final |-> FALSE]
  <2>1. amplitude[d] = [terms |-> ids(d), final |-> FALSE]
    BY DEF Sums
  <2>2. d \in DOMAIN amplitude
    BY DEF Going, Running, IsTile
  <2>3. CASE d = Row.dest
    <3>1. \A j \in {k \in RunTo(pc) : Closes(k, d)} :
             plan[j].id \in Nat /\ plan[j].id # Row.id
      <4> SUFFICES ASSUME NEW j \in RunTo(pc), Closes(j, d)
                   PROVE  plan[j].id \in Nat /\ plan[j].id # Row.id
        OBVIOUS
      <4>1. IsRow(plan[j]) /\ plan[j].role = "closure" /\ j \in DOMAIN plan /\ j < i
        BY <1>1, PlanRow DEF Closes, Going, Laid
      <4>2. Precedes(plan[j], Row)
        BY <1>1, <4>1, OrderIs DEF Going, Laid, Row
      <4>3. /\ plan[j].stage = Row.stage /\ plan[j].executor = 0 /\ Row.executor = 0
            /\ plan[j].id \in Nat
        BY <1>1, <4>1 DEF IsRow
      <4>4. plan[j].executor < Row.executor \/ plan[j].id < Row.id
        BY <1>1, <4>1, <4>2, <4>3, RoleOrder
      <4> QED
        BY <1>4, <4>3, <4>4
    <3>2. ids(d) \in SUBSET Nat /\ Row.id \notin ids(d)
      BY <3>1
    <3>3. {k \in RunTo(pc + 1) : Closes(k, d)} = {k \in RunTo(pc) : Closes(k, d)} \cup {i}
      BY <1>1, <1>4, <2>3 DEF Closes, Row
    <3>4. {plan[j].id : j \in {k \in RunTo(pc + 1) : Closes(k, d)}} = ids(d) \cup {Row.id}
      BY <3>3 DEF Row
    <3>5. b[d] = Added(amplitude[d], Row.id)
      BY <1>3, <2>2, <2>3
    <3> HIDE DEF ids
    <3>6. b[d] = [terms |-> ids(d) \cup {Row.id}, final |-> FALSE]
      BY <1>4, <2>1, <3>2, <3>5, AddedIs
    <3> QED
      BY <3>4, <3>6
  <2>4. CASE d # Row.dest
    <3>1. {k \in RunTo(pc + 1) : Closes(k, d)} = {k \in RunTo(pc) : Closes(k, d)}
      BY <1>1, <1>4, <2>4 DEF Closes, Row
    <3>2. b[d] = amplitude[d]
      BY <2>2, <2>4
    <3> QED
      BY <2>1, <3>1, <3>2
  <2> QED
    BY <2>3, <2>4
<1> QED
  BY <1>2, <1>5 DEF Sums

LEMMA SumsUnchanged ==
    ASSUME Going, pc \in DOMAIN rows, Sums(amplitude, pc), Row.role # "closure"
    PROVE  Sums(amplitude, pc + 1)
<1>1. \A d : {k \in RunTo(pc + 1) : Closes(k, d)} = {k \in RunTo(pc) : Closes(k, d)}
  BY RunToIs DEF Closes, Row
<1> QED
  BY <1>1 DEF Sums

-----------------------------------------------------------------------------
(***************************************************************************)
(* The inductive invariant of a program on its arena.                      *)
(***************************************************************************)
Laying ==
    /\ program \in Programs /\ span = Lifetimes(program) /\ IInv
    /\ outcome = "done" => placed = Values

Waiting ==
    /\ pc = 0 /\ selection = Unselected /\ rows = <<>>
    /\ plan # <<>> => outcome = "done" /\ IsPlan(plan)

\* What the tile was asked for, and the currents it resolved.
DependencyRows ==
    selection.kind = "destinations" =>
        {plan[i].into : i \in {j \in Chosen : plan[j].role # "closure"}}
            = DependsOn(selection.wanted)

Executing ==
    /\ outcome = "done" /\ plan # <<>> /\ IsPlan(plan)
    /\ Running /\ DependencyRows
    /\ pc \in 1..(Len(rows) + 1)
    /\ Keeps(planes, pc) /\ Sums(amplitude, pc)

ArenaInv == Laying /\ (Waiting \/ Executing)

LEMMA LaidWhenDone == Laying /\ outcome = "done" => Laid
BY DEF Laying, Laid, IInv, TypeOK

LEMMA InitArenaInv == ExecInit => ArenaInv
<1> SUFFICES ASSUME ExecInit
             PROVE  ArenaInv
  OBVIOUS
<1>1. Init
  BY ProgramsAssumption DEF ExecInit, Init, WellFormed
<1>2. IInv
  BY <1>1, InitIInv
<1>3. Laying
  BY <1>2 DEF ExecInit, InitLayout, Laying
<1> QED
  BY <1>3 DEF ExecInit, Waiting, ArenaInv

-----------------------------------------------------------------------------
(* What a step that leaves the program and its planes alone keeps. *)

LayoutKept == UNCHANGED <<layoutVars, program>>

LEMMA LayingKept == Laying /\ LayoutKept => Laying'
<1> SUFFICES ASSUME Laying, LayoutKept
             PROVE  Laying'
  OBVIOUS
<1>1. IInv'
  BY NextIInv DEF Laying, LayoutKept
<1> QED
  BY <1>1 DEF Laying, LayoutKept, layoutVars

LEMMA RowKept ==
    ASSUME LayoutKept, NEW r, IsRow(r)
    PROVE  IsRow(r)'
<1>0. program' = program /\ base' = base /\ span' = span
  BY DEF LayoutKept, layoutVars
<1>1. \A s : Addresses(s)' = Addresses(s)
  BY <1>0 DEF Addresses, PlanesOf
<1>2. \A c : PlanesOf(c)' = PlanesOf(c)
  BY <1>0 DEF PlanesOf
<1>3. \A c : IsCopy(c)' = IsCopy(c)
  BY <1>0 DEF IsCopy
<1> QED
  BY <1>0, <1>1, <1>2, <1>3 DEF IsRow

LEMMA PlanKept ==
    ASSUME LayoutKept, NEW f, IsPlan(f)
    PROVE  IsPlan(f)'
<1>0. program' = program /\ base' = base /\ span' = span
  BY DEF LayoutKept, layoutVars
<1>1. InOrder(f)'
  <2>1. \A i \in DOMAIN f : IsRow(f[i])'
    BY RowKept DEF IsPlan, InOrder
  <2> QED
    BY <2>1 DEF IsPlan, InOrder
<1>2. Complete(f)'
  <2>1. \A c : IsCopy(c)' = IsCopy(c)
    BY <1>0 DEF IsCopy
  <2> QED
    BY <1>0, <2>1 DEF IsPlan, Complete
<1>3. FlagsFirst(f)'
  BY DEF IsPlan, FlagsFirst
<1> QED
  BY <1>1, <1>2, <1>3 DEF IsPlan

LEMMA TileKept ==
    ASSUME LayoutKept, plan' = plan, NEW S, NEW wanted, IsTile(S, wanted)
    PROVE  IsTile(S, wanted)'
<1>0. program' = program
  BY DEF LayoutKept
<1> QED
  BY <1>0 DEF IsTile, Makes, Closes

LEMMA ExpectedKept ==
    ASSUME LayoutKept, plan' = plan, rows' = rows, NEW n, NEW c
    PROVE  Made(n, c)' = Made(n, c) /\ Expected(n, c)' = Expected(n, c)
<1>0. program' = program
  BY DEF LayoutKept
<1>1. RunTo(n)' = RunTo(n)
  BY DEF RunTo
<1>2. Made(n, c)' = Made(n, c)
  BY <1>1 DEF Made, Makes
<1>3. Finished(c)' = Finished(c) /\ Unfinished(c)' = Unfinished(c)
  BY <1>0 DEF Finished, Unfinished
<1>4. IsCopy(c)' = IsCopy(c)
  BY <1>0 DEF IsCopy
<1>5. {plan[i].id : i \in Made(n, c)}' = {plan[i].id : i \in Made(n, c)}
  BY <1>2
<1>6. (\E i \in Made(n, c) : plan[i].role # "contribution")'
         <=> \E i \in Made(n, c) : plan[i].role # "contribution"
  BY <1>2
<1> QED
  BY <1>2, <1>3, <1>4, <1>5, <1>6 DEF Expected

LEMMA KeepsKept ==
    ASSUME LayoutKept, plan' = plan, rows' = rows, NEW h, NEW n, Keeps(h, n)
    PROVE  Keeps(h, n)'
<1>0. program' = program /\ base' = base /\ span' = span
  BY DEF LayoutKept, layoutVars
<1>1. \A c : PlanesOf(c)' = PlanesOf(c)
  BY <1>0 DEF PlanesOf
<1>2. \A c, s : AliveAt(c, s)' = AliveAt(c, s)
  BY <1>0 DEF AliveAt
<1> QED
  BY <1>0, <1>1, <1>2, ExpectedKept DEF Keeps

LEMMA SumsKept ==
    ASSUME plan' = plan, rows' = rows, selection' = selection, NEW a, NEW n, Sums(a, n)
    PROVE  Sums(a, n)'
BY DEF Sums, RunTo, Closes

LEMMA LayoutStepInv ==
    ASSUME ArenaInv, LayoutNext, UNCHANGED <<program, execVars>>
    PROVE  ArenaInv'
<1>1. outcome = "placing" /\ span' = span /\ (outcome' = "done" => placed' = Values)
  BY DEF LayoutNext, Place, Extend, Release, Finish
<1>2. IInv'
  BY NextIInv DEF ArenaInv, Laying
<1>3. Laying'
  BY <1>1, <1>2 DEF ArenaInv, Laying
<1>4. Waiting /\ plan = <<>>
  BY <1>1 DEF ArenaInv, Waiting, Executing
<1> QED
  BY <1>3, <1>4 DEF ArenaInv, Waiting, execVars

LEMMA LowerInv ==
    ASSUME ArenaInv, Lower
    PROVE  ArenaInv'
<1>1. LayoutKept
  BY DEF Lower, LayoutKept
<1>2. Laying'
  BY <1>1, LayingKept DEF ArenaInv
<1>3. Waiting
  BY DEF ArenaInv, Executing, Lower
<1>4. IsPlan(Lowered)
  BY LoweredIsPlan DEF ArenaInv, Laying
<1>5. IsPlan(plan)'
  <2>1. IsPlan(plan')
    BY <1>4 DEF Lower
  <2> QED
    BY <1>1, <2>1, PlanKept
<1>6. Waiting'
  BY <1>3, <1>5 DEF Waiting, Lower, layoutVars
<1> QED
  BY <1>2, <1>6 DEF ArenaInv

(***************************************************************************)
(* A tile may start on any arena: nothing in it is expected yet.           *)
(***************************************************************************)
LEMMA BeginInv ==
    ASSUME ArenaInv, Ready, NEW what, NEW S, NEW cleared, NEW zeroed,
           Begin(what, S, cleared, zeroed), IsTile(S, what.wanted),
           what.wanted \subseteq zeroed,
           \A s \in Stages : \A range \in cleared[s] :
              \E c \in Values \ program.sources :
                  program.stage[c] = s /\ range = PlanesOf(c),
           what.kind = "destinations" =>
              {plan[i].into : i \in {j \in S : plan[j].role # "closure"}}
                  = DependsOn(what.wanted)
    PROVE  ArenaInv'
<1>1. LayoutKept /\ plan' = plan
  BY DEF Begin, LayoutKept
<1>2. program' = program /\ base' = base /\ span' = span /\ stop' = stop
          /\ outcome' = outcome
  BY <1>1 DEF LayoutKept, layoutVars
<1>3. Laying'
  BY <1>1, LayingKept DEF ArenaInv
<1>4. plan # <<>> /\ outcome = "done" /\ IsPlan(plan)
  BY DEF Ready, ArenaInv, Waiting, Executing
<1>5. IsPlan(plan)'
  BY <1>1, <1>4, PlanKept
<1> DEFINE n == Cardinality(S)
<1>6. /\ n \in Nat /\ rows' \in [1..n -> S]
      /\ \A i, j \in 1..n : i < j => rows'[i] < rows'[j]
      /\ \A x \in S : \E i \in 1..n : rows'[i] = x
  <2>1. S \in SUBSET Nat /\ IsFiniteSet(S)
    <3>1. PICK m \in Nat : DOMAIN plan = 1..m
      BY <1>4 DEF IsPlan, InOrder
    <3>2. S \in SUBSET (1..m)
      BY <3>1 DEF IsTile
    <3>3. IsFiniteSet(1..m)
      BY FS_Interval
    <3>4. IsFiniteSet(S)
      BY <3>2, <3>3, FS_Subset
    <3> QED
      BY <3>2, <3>4
  <2> QED
    BY <2>1, SortedIs DEF Begin
<1>7. S \subseteq DOMAIN plan
  BY DEF IsTile
<1>8. rows' \in Seq(DOMAIN plan) /\ DOMAIN rows' = 1..n /\ Len(rows') = n
  <2>1. rows' \in [1..n -> DOMAIN plan]
    BY <1>6, <1>7
  <2> HIDE DEF n
  <2> QED
    BY <1>6, <2>1
<1>9. Chosen' = S
  BY <1>6, <1>8 DEF Chosen
<1>10. IsTile(Chosen, selection.wanted)'
  <2>1. IsTile(S, what.wanted)'
    BY <1>1, TileKept
  <2> QED
    BY <1>9, <2>1 DEF Begin
<1>11. ClearsOwn'
  <2>1. \A c : PlanesOf(c)' = PlanesOf(c)
    BY <1>2 DEF PlanesOf
  <2> QED
    BY <1>2, <2>1 DEF ClearsOwn, Begin
<1>12. DOMAIN planes' = 0..(stop' - 1) /\ DOMAIN amplitude' = DOMAIN program'.sector
  BY <1>2 DEF Begin
<1>13. Running'
  BY <1>1, <1>6, <1>8, <1>10, <1>11, <1>12 DEF Running
<1>14. DependencyRows'
  <2>1. DependsOn(selection.wanted)' = DependsOn(what.wanted)
    BY <1>2 DEF DependsOn, IsCopy, Into, Begin
  <2>2. selection' = what
    BY DEF Begin
  <2> HIDE DEF n
  <2> QED
    BY <1>1, <1>9, <2>1, <2>2 DEF DependencyRows
<1>15. pc' = 1 /\ RunTo(1)' = {}
  BY DEF Begin, RunTo
<1>16. Keeps(planes, pc)'
  BY <1>15 DEF Keeps, Made
<1>17. Sums(amplitude, pc)'
  <2>1. ASSUME NEW d \in selection'.wanted
        PROVE  amplitude'[d] = Zero
    <3>1. d \in DOMAIN program.sector /\ d \in zeroed
      BY <2>1 DEF Begin, IsTile
    <3> QED
      BY <3>1 DEF Begin
  <2>2. \A d : {plan'[i].id : i \in {j \in RunTo(1)' : Closes(j, d)'}} = {}
    BY <1>15
  <2> QED
    BY <1>15, <2>1, <2>2 DEF Sums, Zero
<1>18. pc' \in 1..(Len(rows') + 1)
  BY <1>6, <1>8, <1>15
<1>19. Executing'
  BY <1>1, <1>2, <1>4, <1>5, <1>13, <1>14, <1>16, <1>17, <1>18 DEF Executing
<1> QED
  BY <1>3, <1>19 DEF ArenaInv

LEMMA StepInv ==
    ASSUME ArenaInv, pc \in DOMAIN rows, Step,
           Keeps(planes', pc + 1), Sums(amplitude', pc + 1),
           DOMAIN planes' = DOMAIN planes, DOMAIN amplitude' = DOMAIN amplitude
    PROVE  ArenaInv'
<1>1. LayoutKept /\ plan' = plan /\ rows' = rows /\ selection' = selection
          /\ clears' = clears
  BY DEF Step, LayoutKept
<1>2. program' = program /\ base' = base /\ span' = span /\ stop' = stop
          /\ outcome' = outcome
  BY <1>1 DEF LayoutKept, layoutVars
<1>3. Laying'
  BY <1>1, LayingKept DEF ArenaInv
<1>4. Executing
  BY DEF ArenaInv, Waiting
<1>5. IsPlan(plan)'
  BY <1>1, <1>4, PlanKept DEF Executing
<1>6. Chosen' = Chosen
  BY <1>1 DEF Chosen
<1>7. Running'
  <2>1. IsTile(Chosen, selection.wanted)'
    <3>1. IsTile(Chosen, selection.wanted)
      BY <1>4 DEF Executing, Running
    <3>2. IsTile(Chosen', selection'.wanted)
      BY <1>1, <1>6, <3>1
    <3> QED
      BY <1>1, <3>2, TileKept
  <2>2. \A c : PlanesOf(c)' = PlanesOf(c)
    BY <1>2 DEF PlanesOf
  <2>3. ClearsOwn'
    BY <1>1, <1>2, <1>4, <2>2 DEF ClearsOwn, Executing, Running
  <2> QED
    BY <1>1, <1>2, <1>4, <2>1, <2>3 DEF Running, Executing
<1>8. DependencyRows'
  <2>1. DependsOn(selection.wanted)' = DependsOn(selection.wanted)
    BY <1>1, <1>2 DEF DependsOn, IsCopy, Into
  <2> QED
    BY <1>1, <1>4, <1>6, <2>1 DEF DependencyRows, Executing
<1>9. pc' = pc + 1
  BY DEF Step
<1>10. Keeps(planes, pc)'
  <2>1. Keeps(planes', pc')
    BY <1>9
  <2> QED
    BY <1>1, <2>1, KeepsKept
<1>11. Sums(amplitude, pc)'
  <2>1. Sums(amplitude', pc')
    BY <1>9
  <2> QED
    BY <1>1, <2>1, SumsKept
<1>12. pc' \in 1..(Len(rows') + 1)
  <2>1. rows \in Seq(DOMAIN plan)
    BY <1>4 DEF Executing, Running
  <2>2. pc \in 1..Len(rows)
    BY <2>1
  <2> QED
    BY <1>1, <1>9, <2>1, <2>2
<1>13. Executing'
  BY <1>1, <1>2, <1>4, <1>5, <1>7, <1>8, <1>10, <1>11, <1>12 DEF Executing
<1> QED
  BY <1>3, <1>13 DEF ArenaInv

LEMMA TilesInv ==
    ASSUME ArenaInv,
           \/ TileOfAll
           \/ \E sector \in SectorsUsed :
                 \/ TileOfSector(sector)
                 \/ \E wanted \in SUBSET TargetsOf(sector) :
                        TileOfDestinations(sector, wanted)
    PROVE  ArenaInv'
<1>1. Ready /\ plan # <<>> /\ outcome = "done"
  BY DEF TileOfAll, TileOfSector, TileOfDestinations, Ready
<1>2. Laid /\ program \in Programs
  BY <1>1, LaidWhenDone DEF ArenaInv, Laying
<1>3. IsPlan(plan)
  BY <1>1 DEF ArenaInv, Waiting, Executing
<1>4. CASE TileOfAll
  <2> DEFINE what == [kind |-> "all", wanted |-> DOMAIN program.sector]
             cleared == [stage \in Stages |-> {}]
             zeroed == {t.destination : t \in program.closures}
  <2>1. Begin(what, DOMAIN plan, cleared, zeroed)
    BY <1>4 DEF TileOfAll
  <2>2. IsTile(DOMAIN plan, what.wanted)
    BY <1>2, <1>3, AllIsTile
  <2>3. what.wanted \subseteq zeroed /\ what.kind # "destinations"
    BY <1>2, ProgramsAssumption DEF WellFormed
  <2>4. \A s \in Stages : cleared[s] = {}
    OBVIOUS
  <2> HIDE DEF what, cleared, zeroed
  <2> QED
    BY <1>1, <2>1, <2>2, <2>3, <2>4, BeginInv
<1>5. ASSUME NEW sector \in SectorsUsed, TileOfSector(sector)
      PROVE  ArenaInv'
  <2> DEFINE what == [kind |-> "sector", wanted |-> TargetsOf(sector)]
             cleared == [stage \in Stages |->
                           {PlanesOf(c) : c \in {d \in Values \ program.sources :
                               program.stage[d] = stage
                                   /\ sector \in DomainOf(program)[d]}}]
  <2>1. Begin(what, Flow(sector), cleared, TargetsOf(sector))
    BY <1>5 DEF TileOfSector
  <2>2. IsTile(Flow(sector), what.wanted)
    BY <1>2, <1>3, FlowIsTile
  <2>3. what.wanted \subseteq TargetsOf(sector) /\ what.kind # "destinations"
    OBVIOUS
  <2>4. \A s \in Stages : \A range \in cleared[s] :
           \E c \in Values \ program.sources : program.stage[c] = s /\ range = PlanesOf(c)
    OBVIOUS
  <2> HIDE DEF what, cleared
  <2> QED
    BY <1>1, <2>1, <2>2, <2>3, <2>4, BeginInv
<1>6. ASSUME NEW sector \in SectorsUsed, NEW wanted \in SUBSET TargetsOf(sector),
             TileOfDestinations(sector, wanted)
      PROVE  ArenaInv'
  <2> DEFINE what == [kind |-> "destinations", wanted |-> wanted]
             F == Flow(sector)
             S == Retained(F, wanted)
             cleared == ClearsAt(F, wanted)
  <2>1. Resolved(F)
    <3>1. F \in SUBSET DOMAIN plan
      BY DEF Flow
    <3> QED
      BY <1>2, <1>3, <3>1, ResolvedIs
  <2>2. Begin(what, S, cleared, wanted)
    BY <1>6, <2>1 DEF TileOfDestinations
  <2>3. /\ IsTile(S, wanted)
        /\ {plan[i].into : i \in {j \in S : plan[j].role # "closure"}} = DependsOn(wanted)
    BY <1>2, <1>3, RetainedIsTile
  <2>4. \A s \in Stages : \A range \in cleared[s] :
           \E c \in Values \ program.sources : program.stage[c] = s /\ range = PlanesOf(c)
    <3>1. Marked(F, wanted) \subseteq Values
      BY <1>2, <1>3, MarkedIsDependency
    <3> HIDE DEF F
    <3> QED
      BY <3>1 DEF ClearsAt
  <2>5. what.wanted = wanted
    OBVIOUS
  <2> HIDE DEF what, S, cleared, F
  <2> QED
    BY <1>1, <2>2, <2>3, <2>4, <2>5, BeginInv
<1> QED
  BY <1>4, <1>5, <1>6

(***************************************************************************)
(* The rows.                                                               *)
(***************************************************************************)
LEMMA RowsInv ==
    ASSUME ArenaInv, FillSource \/ Contribute \/ CopyCertified \/ Finalize \/ Close
    PROVE  ArenaInv'
<1>1. pc \in DOMAIN rows /\ Step
  BY DEF FillSource, Contribute, CopyCertified, Finalize, Close, Runs
<1>2. Executing
  BY <1>1 DEF ArenaInv, Waiting
<1>3. Going /\ Keeps(planes, pc) /\ Sums(amplitude, pc)
  BY <1>2, LaidWhenDone DEF ArenaInv, Executing, Going
<1>4. CASE FillSource
  <2>1. /\ Row.role = "source" /\ amplitude' = amplitude
        /\ planes' = [p \in DOMAIN planes |->
                        IF p \in Of(Row.dest) THEN Finished(Row.into) ELSE planes[p]]
    BY <1>4 DEF FillSource, Runs, Overwrite
  <2>2. Keeps(planes', pc + 1) /\ DOMAIN planes' = DOMAIN planes
    BY <1>1, <1>3, <2>1, FillKeeps
  <2>3. Sums(amplitude', pc + 1)
    BY <1>1, <1>3, <2>1, SumsUnchanged
  <2> QED
    BY <1>1, <2>1, <2>2, <2>3, StepInv
<1>5. CASE Contribute
  <2>1. /\ Row.role = "contribution" /\ Row.executor # NoExecutor /\ amplitude' = amplitude
        /\ planes' = [p \in DOMAIN Cleared |->
                        IF p \in Of(Row.dest)
                        THEN Added(IF Row.initialize THEN Zero ELSE Cleared[p], TermOf(Row))
                        ELSE Cleared[p]]
    BY <1>5 DEF Contribute, Runs, Overwrite
  <2>2. DOMAIN Cleared = DOMAIN planes
    BY <1>1, <1>3, <2>1, ClearedIs DEF Going, Running
  <2>3. Keeps(planes', pc + 1) /\ DOMAIN planes' = DOMAIN planes
    BY <1>1, <1>3, <2>1, <2>2, ContributeKeeps
  <2>4. Sums(amplitude', pc + 1)
    BY <1>1, <1>3, <2>1, SumsUnchanged
  <2> QED
    BY <1>1, <2>1, <2>3, <2>4, StepInv
<1>6. CASE CopyCertified
  <2>1. /\ Row.role = "contribution" /\ Row.executor = NoExecutor /\ amplitude' = amplitude
        /\ planes' = [p \in DOMAIN Cleared |->
                        IF p \in Of(Row.dest)
                        THEN IF program.copies[Row.into] = Row.into THEN Zero
                             ELSE Cleared[Row.reads[1].base + (p - Row.dest.base)]
                        ELSE Cleared[p]]
    BY <1>6 DEF CopyCertified, Runs, Overwrite
  <2>2. DOMAIN Cleared = DOMAIN planes
    BY <1>1, <1>3, <2>1, ClearedIs DEF Going, Running
  <2>3. Keeps(planes', pc + 1) /\ DOMAIN planes' = DOMAIN planes
    BY <1>1, <1>3, <2>1, <2>2, CopyKeeps
  <2>4. Sums(amplitude', pc + 1)
    BY <1>1, <1>3, <2>1, SumsUnchanged
  <2> QED
    BY <1>1, <2>1, <2>3, <2>4, StepInv
<1>7. CASE Finalize
  <2>1. /\ Row.role = "finalization" /\ amplitude' = amplitude
        /\ planes' = [p \in DOMAIN planes |->
                        IF p \in Of(Row.dest)
                        THEN IF planes[p].final \/ -1 \in planes[p].terms THEN Stale
                             ELSE [planes[p] EXCEPT !.final = TRUE]
                        ELSE planes[p]]
    BY <1>7 DEF Finalize, Runs, Overwrite
  <2>2. Keeps(planes', pc + 1) /\ DOMAIN planes' = DOMAIN planes
    BY <1>1, <1>3, <2>1, FinalizeKeeps
  <2>3. Sums(amplitude', pc + 1)
    BY <1>1, <1>3, <2>1, SumsUnchanged
  <2> QED
    BY <1>1, <2>1, <2>2, <2>3, StepInv
<1>8. CASE Close
  <2>1. /\ Row.role = "closure" /\ planes' = planes
        /\ amplitude' = [amplitude EXCEPT ![Row.dest] = Added(@, TermOf(Row))]
    BY <1>8 DEF Close, Runs
  <2>2. Keeps(planes', pc + 1) /\ Sums(amplitude', pc + 1)
    BY <1>1, <1>3, <2>1, CloseKeeps
  <2> QED
    BY <1>1, <2>1, <2>2, StepInv
<1> QED
  BY <1>4, <1>5, <1>6, <1>7, <1>8

LEMMA NextArenaInv == ArenaInv /\ [ExecNext]_vars => ArenaInv'
<1> SUFFICES ASSUME ArenaInv, [ExecNext]_vars
             PROVE  ArenaInv'
  OBVIOUS
<1>1. CASE UNCHANGED vars
  <2>0. LayoutKept /\ UNCHANGED execVars
    BY <1>1 DEF vars, LayoutKept
  <2>1. Laying'
    BY <2>0, LayingKept DEF ArenaInv
  <2>2. /\ program' = program /\ base' = base /\ span' = span /\ stop' = stop
        /\ outcome' = outcome /\ plan' = plan /\ selection' = selection /\ rows' = rows
        /\ clears' = clears /\ pc' = pc /\ planes' = planes /\ amplitude' = amplitude
    BY <2>0 DEF LayoutKept, layoutVars, execVars
  <2>3. IsPlan(plan) => IsPlan(plan)'
    BY <2>0, <2>2, PlanKept
  <2>4. CASE Waiting
    BY <2>1, <2>2, <2>3, <2>4 DEF Waiting, ArenaInv
  <2>5. CASE Executing
    <3>1. Chosen' = Chosen /\ \A c : PlanesOf(c)' = PlanesOf(c)
      BY <2>2 DEF Chosen, PlanesOf
    <3>2. IsTile(Chosen, selection.wanted)'
      <4>1. IsTile(Chosen', selection'.wanted)
        BY <2>2, <2>5, <3>1 DEF Executing, Running
      <4> QED
        BY <2>0, <2>2, <4>1, TileKept
    <3>3. Running'
      BY <2>2, <2>5, <3>1, <3>2 DEF Running, ClearsOwn, Executing
    <3>4. DependsOn(selection.wanted)' = DependsOn(selection.wanted)
      BY <2>2 DEF DependsOn, IsCopy, Into
    <3>5. DependencyRows'
      BY <2>2, <2>5, <3>1, <3>4 DEF DependencyRows, Executing
    <3>6. Keeps(planes, pc)' /\ Sums(amplitude, pc)'
      BY <2>0, <2>2, <2>5, KeepsKept, SumsKept DEF Executing
    <3> QED
      BY <2>1, <2>2, <2>3, <2>5, <3>3, <3>5, <3>6 DEF Executing, ArenaInv
  <2> QED
    BY <2>4, <2>5 DEF ArenaInv
<1> QED
  BY <1>1, LayoutStepInv, LowerInv, TilesInv, RowsInv DEF ExecNext

(***************************************************************************)
(* From the allocation to the last row of any tile, the living currents of *)
(* every program hold what their rows have summed so far.                  *)
(***************************************************************************)
THEOREM ArenaInvHolds == ExecSpec => []ArenaInv
BY InitArenaInv, NextArenaInv, PTL DEF ExecSpec

-----------------------------------------------------------------------------
LEMMA InvAmplitudes == ArenaInv => AmplitudesAreReference
<1> SUFFICES ASSUME ArenaInv, pc > Len(rows), NEW d \in selection.wanted
             PROVE  amplitude[d].terms
                        = {t.id : t \in {u \in program.closures : u.destination = d}}
  BY DEF AmplitudesAreReference
<1>1. Executing
  <2>1. Waiting => Len(rows) = 0 /\ pc = 0
    BY DEF Waiting
  <2> QED
    BY <2>1 DEF ArenaInv
<1>2. program \in Programs /\ IsPlan(plan)
  BY <1>1 DEF ArenaInv, Laying, Executing
<1>3. RunTo(pc) = Chosen
  <2>1. rows \in Seq(DOMAIN plan) /\ pc \in 1..(Len(rows) + 1)
    BY <1>1 DEF Executing, Running
  <2>2. 1..(pc - 1) = DOMAIN rows
    BY <2>1
  <2> QED
    BY <2>2 DEF RunTo, Chosen
<1>4. amplitude[d].terms = {plan[i].id : i \in {j \in Chosen : Closes(j, d)}}
  <2>1. amplitude[d] = [terms |-> {plan[i].id : i \in {j \in RunTo(pc) : Closes(j, d)}},
                        final |-> FALSE]
    <3>1. Sums(amplitude, pc)
      BY <1>1 DEF Executing
    <3> QED
      BY <3>1, Zenon DEF Sums
  <2>2. amplitude[d].terms = {plan[i].id : i \in {j \in RunTo(pc) : Closes(j, d)}}
    BY <2>1
  <2> QED
    BY <2>2, <1>3, Zenon
<1>5. ASSUME NEW i \in Chosen, Closes(i, d)
      PROVE  \E t \in program.closures : t.destination = d /\ t.id = plan[i].id
  <2>1. i \in DOMAIN plan
    BY <1>1 DEF Executing, Running, IsTile
  <2>2. IsRow(plan[i])
    BY <1>2, <2>1, PlanRow
  <2> QED
    BY <1>5, <2>2 DEF IsRow, Closes
<1>6. ASSUME NEW t \in program.closures, t.destination = d
      PROVE  \E i \in Chosen : Closes(i, d) /\ plan[i].id = t.id
  <2>1. PICK i \in DOMAIN plan : Closes(i, d) /\ plan[i].id = t.id
    BY <1>2, <1>6 DEF IsPlan, Complete, HasRow, Closes
  <2>2. i \in Chosen
    BY <1>1, <2>1 DEF Executing, Running, IsTile
  <2> QED
    BY <2>1, <2>2
<1> QED
  BY <1>4, <1>5, <1>6

(***************************************************************************)
(* Whatever the program, the layout the allocator gives it and the tiles   *)
(* that ran before, the amplitudes of a tile are the sums of their closure *)
(* terms.                                                                  *)
(***************************************************************************)
THEOREM AmplitudesHold == ExecSpec => []AmplitudesAreReference
BY ArenaInvHolds, InvAmplitudes, PTL

LEMMA InvSelection == ArenaInv => SelectionIsTheDependency
<1> SUFFICES ASSUME ArenaInv
             PROVE  SelectionIsTheDependency
  OBVIOUS
<1>1. outcome # "corrupt"
  BY DEF ArenaInv, Laying, IInv, NeverCorrupt
<1>2. CASE Waiting
  BY <1>1, <1>2 DEF Waiting, Unselected, SelectionIsTheDependency
<1>3. CASE Executing
  <2>1. {plan[rows[i]].into : i \in {j \in DOMAIN rows : plan[rows[j]].role # "closure"}}
           = {plan[i].into : i \in {j \in Chosen : plan[j].role # "closure"}}
    BY DEF Chosen
  <2> QED
    BY <1>1, <1>3, <2>1 DEF Executing, DependencyRows, SelectionIsTheDependency
<1> QED
  BY <1>2, <1>3 DEF ArenaInv

(***************************************************************************)
(* A selection resolved from addresses is the dependency closure of what   *)
(* it was asked for, and no lowered plan fails to resolve.                 *)
(***************************************************************************)
THEOREM SelectionHolds == ExecSpec => []SelectionIsTheDependency
BY ArenaInvHolds, InvSelection, PTL
=============================================================================
