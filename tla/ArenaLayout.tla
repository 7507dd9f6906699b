---------------------------- MODULE ArenaLayout ----------------------------
(***************************************************************************)
(* The allocator of the direct-execution arena (direct_arena/layout.rs):   *)
(* every current of a recurrence gets a range of component planes for the  *)
(* stages in which it lives, and a plane whose current is dead is handed   *)
(* to a later one.  One action per iteration of assign_direct_arena's two  *)
(* loops: Release returns the next dead range to the coalescing free       *)
(* list, Place takes the best fit for the next value or extends the arena. *)
(***************************************************************************)
EXTENDS Integers, FiniteSets

CONSTANTS Values,      \* semantic value ids, a finite set of naturals
          Stages,      \* the events a lifetime may start or end at
          Widths,      \* the component counts a value may have
          Requests,    \* the interval lists the allocator is called with
          MaxPlanes    \* the capacity of the plane counter (u32 in the code)

ASSUME ValuesAssumption == Values \subseteq Nat /\ IsFiniteSet(Values)
ASSUME StagesAssumption == Stages \subseteq Nat
ASSUME WidthsAssumption == Widths \subseteq Nat \ {0}

\* The lists DirectArenaInterval::new lets through.
Spans == {s \in [first : Stages, last : Stages, width : Widths] : s.first <= s.last}

ASSUME RequestsAssumption == Requests \subseteq [Values -> Spans]
ASSUME MaxPlanesAssumption == MaxPlanes \in Nat

VARIABLES span,      \* of each value: first and last use (inclusive), width
          placed,    \* the values that have an assignment
          base,      \* the first plane of each placed value
          released,  \* the values before next_release in the release order
          free,      \* the free ranges (by_base and by_size)
          stop,      \* arena_stop
          outcome    \* "placing", "done", "overflow" or "corrupt" (an integrity error)

layoutVars == <<span, placed, base, released, free, stop, outcome>>

Ranges == [base : Nat, count : Nat \ {0}]

-----------------------------------------------------------------------------
(* The free list. *)

Stop(r) == r.base + r.count

Meets(r, q) == r.base < Stop(q) /\ q.base < Stop(r)

PlanesOf(v) == [base |-> base[v], count |-> span[v].width]

\* FreeRanges::insert: a range that touches a neighbour is merged with it.
Before(F, r) == {q \in F : Stop(q) = r.base}
After(F, r)  == {q \in F : q.base = Stop(r)}

Merged(F, r) ==
    LET low  == IF Before(F, r) = {} THEN r.base
                                     ELSE (CHOOSE q \in Before(F, r) : TRUE).base
        high == IF After(F, r) = {} THEN Stop(r)
                                    ELSE Stop(CHOOSE q \in After(F, r) : TRUE)
    IN  [base |-> low, count |-> high - low]

\* Mutant: a neighbour that was merged stays in the list.
InsertedTwice(F, r) == F \cup {Merged(F, r)}

Inserted(F, r) == (F \ (Before(F, r) \cup After(F, r))) \cup {Merged(F, r)}

Fits(F, width) == {r \in F : r.count >= width}

\* take_best_fit: the smallest fitting range, the lowest base among equals.
IsBestFit(F, width, r) ==
    /\ r \in Fits(F, width)
    /\ \A q \in Fits(F, width) :
          r.count < q.count \/ (r.count = q.count /\ r.base <= q.base)

Remainder(F, width, r) ==
    IF r.count = width THEN F \ {r}
    ELSE Inserted(F \ {r}, [base |-> r.base + width, count |-> r.count - width])

-----------------------------------------------------------------------------
InitLayout(spans) ==
    /\ span = spans
    /\ placed = {}
    /\ base = [v \in Values |-> 0]
    /\ released = {}
    /\ free = {}
    /\ stop = 0
    /\ outcome = "placing"

Init == \E spans \in Requests : InitLayout(spans)

\* The order of the two sorted lists: (first_use, id) and (last_use, id).
StartsNoLater(v, w) ==
    span[v].first < span[w].first \/ (span[v].first = span[w].first /\ v <= w)

EndsNoLater(v, w) ==
    span[v].last < span[w].last \/ (span[v].last = span[w].last /\ v <= w)

IsNext(v) == v \in Values \ placed /\ \A w \in Values \ placed : StartsNoLater(v, w)

\* Mutant: a range is due at the stage of its last use.
IsDueEarly(u, v) ==
    /\ u \in Values \ released
    /\ \A w \in Values \ released : EndsNoLater(u, w)
    /\ span[u].last <= span[v].first

\* The lifetime is inclusive: a range whose last use is the start stays.
IsDue(u, v) ==
    /\ u \in Values \ released
    /\ \A w \in Values \ released : EndsNoLater(u, w)
    /\ span[u].last < span[v].first

\* One iteration of the release loop, before value v is placed.
Release(u, v) ==
    /\ outcome = "placing" /\ IsNext(v) /\ IsDue(u, v)
    /\ IF u \notin placed \/ \E r \in free : Meets(r, PlanesOf(u))
       THEN outcome' = "corrupt" /\ UNCHANGED <<released, free>>
       ELSE /\ free' = Inserted(free, PlanesOf(u))
            /\ released' = released \cup {u}
            /\ UNCHANGED outcome
    /\ UNCHANGED <<span, placed, base, stop>>

Place(v) ==
    /\ outcome = "placing" /\ IsNext(v)
    /\ ~\E u \in Values : IsDue(u, v)
    /\ placed' = placed \cup {v}
    /\ \E r \in free :
          /\ IsBestFit(free, span[v].width, r)
          /\ base' = [base EXCEPT ![v] = r.base]
          /\ free' = Remainder(free, span[v].width, r)
    /\ UNCHANGED <<span, released, stop, outcome>>

Extend(v) ==
    /\ outcome = "placing" /\ IsNext(v)
    /\ ~\E u \in Values : IsDue(u, v)
    /\ Fits(free, span[v].width) = {}
    /\ IF stop + span[v].width > MaxPlanes
       THEN outcome' = "overflow" /\ UNCHANGED <<placed, base, stop>>
       ELSE /\ placed' = placed \cup {v}
            /\ base' = [base EXCEPT ![v] = stop]
            /\ stop' = stop + span[v].width
            /\ UNCHANGED outcome
    /\ UNCHANGED <<span, released, free>>

Finish ==
    /\ outcome = "placing" /\ placed = Values
    /\ outcome' = "done"
    /\ UNCHANGED <<span, placed, base, released, free, stop>>

LayoutNext ==
    \/ \E v \in Values : Place(v) \/ Extend(v) \/ \E u \in Values : Release(u, v)
    \/ Finish

Spec == Init /\ [][LayoutNext]_layoutVars

-----------------------------------------------------------------------------
TypeOK ==
    /\ span \in [Values -> Spans]
    /\ placed \subseteq Values
    /\ base \in [Values -> Nat]
    /\ released \subseteq Values
    /\ free \subseteq Ranges
    /\ stop \in 0..MaxPlanes
    /\ outcome \in {"placing", "done", "overflow", "corrupt"}

Overlap(u, v) == span[u].first <= span[v].last /\ span[v].first <= span[u].last

(***************************************************************************)
(* Two currents that are alive at the same stage never share a component   *)
(* plane, and every current lies inside the arena (what                    *)
(* DirectArenaLayout::validate checks after the fact).                     *)
(***************************************************************************)
LiveNeverShare ==
    /\ \A v \in placed : Stop(PlanesOf(v)) <= stop
    /\ \A u, v \in placed : u # v /\ Overlap(u, v) => ~Meets(PlanesOf(u), PlanesOf(v))

(***************************************************************************)
(* The free list holds disjoint ranges, no two of which touch, inside the  *)
(* arena, and none of them a plane of a value that was not released.       *)
(***************************************************************************)
FreeListSound ==
    /\ \A r \in free : Stop(r) <= stop
    /\ \A r, q \in free : r # q => ~Meets(r, q) /\ Stop(r) # q.base
    /\ \A r \in free, v \in placed \ released : ~Meets(r, PlanesOf(v))

(***************************************************************************)
(* No call of the allocator reaches one of its integrity errors: a release *)
(* before its assignment, or a released range that meets a free one.       *)
(***************************************************************************)
NeverCorrupt == outcome # "corrupt"

(***************************************************************************)
(* The arena loses no plane: each one below arena_stop is free or belongs  *)
(* to a value that was placed and not yet released.                        *)
(***************************************************************************)
Holds(r, p) == r.base <= p /\ p < Stop(r)

NoPlaneLost ==
    \A p \in 0..(stop - 1) :
        (\E r \in free : Holds(r, p)) \/ (\E v \in placed \ released : Holds(PlanesOf(v), p))
=============================================================================
