-------------------------- MODULE OtfRuntime_proofs --------------------------
(***************************************************************************)
(* Proofs about OtfRuntime, for any selections, families and parameters    *)
(* and any number of calls: its three layers agree between calls, kernels  *)
(* never keep rows that were dropped, and the caller sees OtfPromise.      *)
(***************************************************************************)
EXTENDS OtfRuntime, TLAPS

----------------------------------------------------------------------------
(* The inductive invariant                                                 *)

\* A table of rows is only kept for a family that is marked as exposed, so what
\* is invalidated before a drop is all there is.
Marked(x) ==
    /\ ~x.dangling
    /\ "retained" \in x.rowTables => Exposed(x.retained)
    /\ "pending" \in x.rowTables => Exposed(x.pending)

\* Parameters of the current version in a workspace are the current ones.
UpToDate(x, bound) ==
    bound # None => /\ bound.applied # None => bound.applied <= x.version
                    /\ bound.applied = x.version => bound.values = x.parameters

Sound(x) ==
    /\ x \in Executor /\ Marked(x)
    /\ UpToDate(x, x.retained) /\ UpToDate(x, x.pending)

\* The lane's last family is the one the executor retains, whatever the call in
\* progress has prepared next to it.
LaneAgrees(x, l) ==
    /\ l.last = None => x.retained = None
    /\ l.last # None =>
         /\ l.prepared
         /\ x.bindings = FamilyOf[l.last.requests]
         /\ IF Executable(l.last)
            THEN /\ x.retained # None
                 /\ x.retained.identity.family = FamilyOf[l.last.requests]
                 /\ l.last.capacity <= x.retained.capacity
                 /\ l.last.handle = x.generation
            ELSE x.retained = None /\ l.last.handle = None

NoCandidate(x, l) == l.pending = None /\ x.pending = None /\ x.pendingBindings = None

\* The lane's candidate is bound, and what the executor would run is its family.
CandidateHeld(x, l) ==
    /\ l.prepared /\ l.pending.handle = None
    /\ x.pendingBindings = FamilyOf[l.pending.requests]
    /\ IF Executable(l.pending)
       THEN /\ Active(x) # None
            /\ Active(x).identity.family = FamilyOf[l.pending.requests]
            /\ l.pending.capacity <= Active(x).capacity
       ELSE x.pending = None

WrapperAgrees ==
    /\ wrapper.last = None => lane.last = None
    /\ wrapper.last # None =>
         lane.last # None /\ lane.last.requests = Requests[wrapper.last]

\* Before a call has selected.
AtRest ==
    /\ wrapper.pending = None /\ NoCandidate(executor, lane) /\ WrapperAgrees
    /\ computed = {}
    /\ call.phase = "select" => call.left > 0

\* The wrapper's candidate is the selection of the call; without one the call
\* reuses what the wrapper has.  Only a contracted call, which fails by clearing
\* everything, may have committed its family with tiles to go.
Selecting ==
    /\ wrapper.pending \in {None, call.selection}
    /\ wrapper.pending = None => wrapper.last = call.selection /\ lane.pending = None
    /\ (wrapper.pending = None \/ (~contracted /\ call.phase = "execute")) => WrapperAgrees

Executing ==
    /\ Selecting
    /\ call.left > 0
    /\ Current # None /\ Current.requests = Requests[call.selection]
    /\ TileOf(call.left) <= Current.capacity
    /\ IF lane.pending = None THEN NoCandidate(executor, lane)
       ELSE CandidateHeld(executor, lane)
    /\ computed \subseteq {Result(call.selection, parameters)}

Committing ==
    /\ Selecting
    /\ NoCandidate(executor, lane)
    /\ lane.last # None /\ lane.last.requests = Requests[call.selection]
    /\ computed = {Result(call.selection, parameters)}

InPhase ==
    /\ call.phase \in {"idle", "select"} => AtRest
    /\ call.phase = "execute" => Executing
    /\ call.phase = "commit" => Committing

\* The inductive invariant: TypeOK, the executor's own soundness, the lane's
\* agreement with it at every step, and what each phase of a call knows.
IInv ==
    /\ TypeOK
    /\ Sound(executor)
    /\ executor.parameters = Projection[lane.runtimeValues]
    /\ LaneAgrees(executor, lane)
    /\ SavedIsLoadable
    /\ InPhase

----------------------------------------------------------------------------
(* The executor                                                            *)

\* One family, whatever its workspace holds.
SameFamily(b, c) ==
    /\ b = None <=> c = None
    /\ c # None => b.identity = c.identity /\ b.capacity = c.capacity

SameBindings(x, y) ==
    y.bindings = x.bindings /\ y.pendingBindings = x.pendingBindings

\* Invalidation leaves no row table and changes no family.
LEMMA Invalidated ==
    ASSUME NEW x, Sound(x),
           NEW y, y = Invalidate(x)
    PROVE  /\ Sound(y) /\ y.rowTables = {} /\ SameBindings(x, y)
           /\ SameFamily(y.retained, x.retained) /\ SameFamily(y.pending, x.pending)
           /\ y.generation = x.generation /\ y.version = x.version
           /\ y.parameters = x.parameters
           /\ ~Exposed(y.retained) /\ ~Exposed(y.pending)
<1> USE SentinelAssumption DEF Sound, Marked, Exposed
<1>1. CASE ~Exposed(x.retained) /\ ~Exposed(x.pending)
  BY <1>1 DEF Invalidate, SameFamily, SameBindings, Executor
<1>2. CASE Exposed(x.retained) \/ Exposed(x.pending)
  <2>1. y = [x EXCEPT !.rowTables = {}, !.retained = Hide(@), !.pending = Hide(@)]
    BY <1>2 DEF Invalidate
  <2>2. /\ y.rowTables = {} /\ y.retained = Hide(x.retained) /\ y.pending = Hide(x.pending)
        /\ y.generation = x.generation /\ y.version = x.version /\ ~y.dangling
        /\ y.parameters = x.parameters
        /\ SameBindings(x, y)
    BY <2>1 DEF Executor, SameBindings
  <2>3. ASSUME NEW b \in Bound \cup {None}
        PROVE  /\ Hide(b) \in Bound \cup {None} /\ SameFamily(Hide(b), b) /\ ~Exposed(Hide(b))
               /\ UpToDate(x, b) => UpToDate(x, Hide(b))
    BY DEF Hide, Bound, SameFamily, UpToDate
  <2>4. y \in Executor
    BY <2>1, <2>3 DEF Executor
  <2>5. UpToDate(y, y.retained) /\ UpToDate(y, y.pending)
    BY <2>2, <2>3 DEF UpToDate, Executor
  <2> QED
    BY <2>2, <2>3, <2>4, <2>5 DEF Executor
<1> QED
  BY <1>1, <1>2

\* A drop after an invalidation, or of rows no table points into, leaves nothing
\* dangling: it changes nothing else.
LEMMA DropsNothing ==
    ASSUME NEW x, Sound(x), NEW slots, x.rowTables \cap slots = {}
    PROVE  Drop(x, slots) = x
<1>1. /\ x \in Executor
      /\ x.dangling \/ x.rowTables \cap slots # {} <=> x.dangling
      /\ x.rowTables \ slots = x.rowTables
  BY DEF Sound
<1> QED
  BY <1>1 DEF Drop, Executor

\* An executor stays sound when its row tables point only into what it still
\* exposes, and its workspaces still hold parameters of its version.
LEMMA StaysSound ==
    ASSUME NEW x, Sound(x), NEW y \in Executor,
           y.version = x.version, y.parameters = x.parameters, Marked(y),
           UpToDate(x, y.retained), UpToDate(x, y.pending)
    PROVE  Sound(y)
BY DEF Sound, UpToDate

\* clear_families and the bindings: nothing is left, and nothing dangles.
LEMMA Cleared ==
    ASSUME NEW x, Sound(x),
           NEW y, y = ClearBindings(ClearFamilies(x))
    PROVE  /\ Sound(y) /\ y.parameters = x.parameters
           /\ y.retained = None /\ y.pending = None
           /\ y.bindings = None /\ y.pendingBindings = None
<1> DEFINE w == Invalidate(x)
           z == ClearFamilies(x)
<1>1. Sound(w) /\ w.rowTables = {} /\ w.parameters = x.parameters
  BY Invalidated
<1>2. Drop(w, {"retained", "pending"}) = w
  BY <1>1, DropsNothing
<1>3. z = [w EXCEPT !.retained = None, !.pending = None, !.generation = w.generation + 1]
  BY <1>2 DEF ClearFamilies
<1>4. w.generation + 1 \in Nat /\ w \in Executor /\ UpToDate(w, None)
  BY <1>1 DEF Sound, Executor, UpToDate
<1>5. y = [z EXCEPT !.bindings = None, !.pendingBindings = None]
  BY DEF ClearBindings
<1> HIDE DEF w, z
<1>6. /\ z \in Executor /\ z.retained = None /\ z.pending = None
      /\ z.parameters = w.parameters /\ z.version = w.version /\ Marked(z)
  BY <1>1, <1>3, <1>4 DEF Sound, Executor, Marked
<1>7. /\ y \in Executor /\ y.retained = None /\ y.pending = None
      /\ y.bindings = None /\ y.pendingBindings = None
      /\ y.parameters = w.parameters /\ y.version = w.version /\ Marked(y)
  BY <1>5, <1>6 DEF Executor, Marked
<1> QED
  BY <1>1, <1>4, <1>7, StaysSound

\* discard_pending_family keeps the retained family.
LEMMA CandidateDropped ==
    ASSUME NEW x, Sound(x),
           NEW y, y = DiscardPendingFamily(x)
    PROVE  /\ Sound(y) /\ SameBindings(x, y) /\ y.parameters = x.parameters
           /\ y.pending = None /\ SameFamily(y.retained, x.retained)
           /\ y.generation = x.generation
<1> DEFINE w == Invalidate(x)
<1>1. CASE x.pending = None
  BY <1>1 DEF DiscardPendingFamily, SameBindings, SameFamily
<1>2. CASE x.pending # None
  <2>1. /\ Sound(w) /\ w.rowTables = {} /\ w.parameters = x.parameters
        /\ SameBindings(x, w) /\ SameFamily(w.retained, x.retained)
        /\ w.generation = x.generation
    BY Invalidated
  <2>2. Drop(w, {"pending"}) = w
    BY <2>1, DropsNothing
  <2>3. /\ w \in Executor /\ UpToDate(w, None) /\ UpToDate(w, w.retained)
        /\ w.retained \in Bound \cup {None} /\ w.generation \in Nat
    BY <2>1 DEF Sound, Executor, UpToDate
  <2>4. y = [w EXCEPT !.pending = None]
    BY <1>2, <2>2, <2>3 DEF DiscardPendingFamily, Executor
  <2> HIDE DEF w
  <2>5. /\ y \in Executor /\ y.retained = w.retained /\ y.pending = None
        /\ y.generation = w.generation /\ y.parameters = w.parameters
        /\ y.version = w.version /\ SameBindings(w, y) /\ Marked(y)
    BY <2>1, <2>3, <2>4 DEF Sound, Executor, SameBindings, Marked
  <2>6. Sound(y)
    BY <2>1, <2>3, <2>5, StaysSound
  <2> QED
    BY <2>1, <2>5, <2>6 DEF SameBindings
<1> QED
  BY <1>1, <1>2

\* A failing selection or input leaves the retained family and its handle.
LEMMA Discarded ==
    ASSUME NEW x, Sound(x),
           NEW y, y = DiscardCandidate(x)
    PROVE  /\ Sound(y) /\ y.parameters = x.parameters
           /\ y.bindings = x.bindings /\ y.pendingBindings = None
           /\ y.pending = None /\ SameFamily(y.retained, x.retained)
           /\ y.generation = x.generation
<1> DEFINE w == DiscardPendingFamily(x)
<1>1. /\ Sound(w) /\ SameBindings(x, w) /\ w.parameters = x.parameters
      /\ w.pending = None /\ SameFamily(w.retained, x.retained)
      /\ w.generation = x.generation
  BY CandidateDropped
<1>2. w.bindings \in Family \cup {None} /\ w \in Executor
  BY <1>1 DEF Sound, Executor
<1>3. y = [w EXCEPT !.pendingBindings = None]
  BY <1>2 DEF DiscardCandidate, DiscardPendingBindings, Executor
<1> HIDE DEF w
<1>4. /\ y \in Executor /\ y.retained = w.retained /\ y.pending = w.pending
      /\ y.generation = w.generation /\ y.parameters = w.parameters
      /\ y.version = w.version /\ y.bindings = w.bindings /\ y.pendingBindings = None
      /\ y.rowTables = w.rowTables /\ y.dangling = w.dangling
  BY <1>2, <1>3 DEF Executor
<1>5. Sound(y)
  BY <1>1, <1>4, StaysSound DEF Sound, Marked
<1> QED
  BY <1>1, <1>4, <1>5 DEF SameBindings

\* activate_retained_index: the retained family serves the larger capacity, and a
\* new workspace has no parameters yet.
LEMMA Activated ==
    ASSUME NEW x, Sound(x), x.retained # None, NEW capacity \in 1..MaxPoints,
           NEW y, y = ActivateRetained(x, capacity)
    PROVE  /\ Sound(y) /\ SameBindings(x, y) /\ y.parameters = x.parameters
           /\ y.pending = None /\ y.generation = x.generation
           /\ y.retained # None /\ y.retained.identity = x.retained.identity
           /\ capacity <= y.retained.capacity
           /\ x.retained.capacity <= y.retained.capacity
<1> DEFINE grow == x.retained.capacity < capacity
           w == IF \/ Exposed(x.pending)
                   \/ grow /\ Exposed(x.retained)
                THEN Invalidate(x) ELSE x
           v == Enlarge(w.retained, capacity)
<1>1. /\ Sound(w) /\ SameBindings(x, w) /\ w.parameters = x.parameters
      /\ w.generation = x.generation /\ SameFamily(w.retained, x.retained)
  BY Invalidated DEF SameBindings, SameFamily
<1>2. /\ "pending" \notin w.rowTables
      /\ grow => "retained" \notin w.rowTables
  BY Invalidated DEF Sound, Marked
<1>3. Drop(w, {"pending"}) = w
  BY <1>1, <1>2, DropsNothing
<1>4. /\ w \in Executor /\ UpToDate(w, None) /\ UpToDate(w, w.retained)
      /\ w.retained \in Bound /\ w.generation \in Nat
      /\ w.retained.identity = x.retained.identity
      /\ w.retained.capacity = x.retained.capacity
      /\ x.retained.capacity \in 1..MaxPoints
  BY <1>1 DEF Sound, Executor, UpToDate, SameFamily, Bound
<1>5. /\ v \in Bound /\ v.identity = w.retained.identity /\ v.capacity = capacity
      /\ v.values = None /\ v.applied = None
  BY <1>4 DEF Enlarge, Bound
<1>6. y = IF grow
          THEN [Drop([w EXCEPT !.pending = None], {"retained"})
                  EXCEPT !.retained = Enlarge([w EXCEPT !.pending = None].retained, capacity)]
          ELSE [w EXCEPT !.pending = None]
  BY <1>3 DEF ActivateRetained
<1> HIDE DEF w
<1>7. PICK z : z = [w EXCEPT !.pending = None]
  OBVIOUS
<1>8. /\ Sound(z) /\ z.retained = w.retained /\ z.pending = None
      /\ z.parameters = w.parameters /\ z.generation = w.generation /\ SameBindings(w, z)
      /\ z.rowTables = w.rowTables /\ z.version = w.version /\ z \in Executor
  <2>1. /\ z \in Executor /\ z.retained = w.retained /\ z.pending = None
        /\ z.parameters = w.parameters /\ z.generation = w.generation
        /\ z.version = w.version /\ SameBindings(w, z)
        /\ z.rowTables = w.rowTables /\ z.dangling = w.dangling
    BY <1>4, <1>7 DEF Executor, SameBindings
  <2> QED
    BY <1>1, <1>2, <2>1 DEF Sound, Marked, UpToDate
<1>9. CASE ~grow
  <2>1. y = z
    BY <1>6, <1>7, <1>9
  <2> HIDE DEF grow
  <2>2. capacity <= x.retained.capacity
    BY <1>4, <1>9, BoundAssumption DEF grow
  <2> QED
    BY <1>1, <1>4, <1>8, <2>1, <2>2, SentinelAssumption DEF SameBindings
<1>10. CASE grow
  <2>1. Drop(z, {"retained"}) = z
    BY <1>2, <1>8, <1>10, DropsNothing
  <2>2. y = [z EXCEPT !.retained = v]
    BY <1>6, <1>7, <1>8, <1>10, <2>1
  <2>3. /\ y \in Executor /\ y.retained = v /\ y.pending = None
        /\ y.parameters = z.parameters /\ y.generation = z.generation
        /\ y.version = z.version /\ SameBindings(z, y)
        /\ y.rowTables = z.rowTables /\ y.dangling = z.dangling
    BY <1>5, <1>8, <2>2 DEF Executor, SameBindings
  <2>4. UpToDate(y, v)
    <3>1. y.version \in Nat
      BY <2>3 DEF Executor
    <3> QED
      BY <1>5, <3>1, SentinelAssumption DEF UpToDate
  <2>5. Sound(y)
    BY <1>2, <1>8, <1>10, <2>3, <2>4 DEF Sound, Marked, UpToDate
  <2> QED
    BY <1>1, <1>4, <1>5, <1>8, <1>10, <2>3, <2>5, SentinelAssumption DEF SameBindings
<1> QED
  BY <1>9, <1>10

\* prepare and prepare_streamed_candidate with their bindings begun: a candidate
\* of the family, or the retained family again, can hold the capacity.
LEMMA Prepared ==
    ASSUME NEW x, Sound(x), x.pending = None,
           NEW identity \in Identity, NEW capacity \in 1..MaxPoints, NEW f \in Family,
           NEW y, y = Prepare(BindPending(x, f), identity, capacity)
    PROVE  /\ Sound(y) /\ y.parameters = x.parameters
           /\ y.bindings = x.bindings /\ y.pendingBindings = f
           /\ y.generation = x.generation
           /\ y.retained = None <=> x.retained = None
           /\ x.retained # None =>
                /\ y.retained.identity = x.retained.identity
                /\ x.retained.capacity <= y.retained.capacity
           /\ Active(y) # None /\ Active(y).identity = identity
           /\ capacity <= Active(y).capacity
<1> DEFINE u == BindPending(x, f)
           c == [identity |-> identity, capacity |-> capacity,
                 values |-> None, applied |-> None, exposed |-> FALSE]
<1>1. /\ u \in Executor /\ u.retained = x.retained /\ u.pending = None
      /\ u.generation = x.generation /\ u.parameters = x.parameters
      /\ u.version = x.version /\ u.bindings = x.bindings /\ u.pendingBindings = f
      /\ u.rowTables = x.rowTables /\ u.dangling = x.dangling
  BY DEF BindPending, Sound, Executor
<1>2. Sound(u)
  BY <1>1, StaysSound DEF Sound, Marked
<1>3. y = Prepare(u, identity, capacity)
  OBVIOUS
<1> HIDE DEF u
<1>4. CASE u.retained # None /\ u.retained.identity = identity
  <2>1. y = ActivateRetained(u, capacity)
    BY <1>3, <1>4 DEF Prepare
  <2>2. /\ Sound(y) /\ SameBindings(u, y) /\ y.parameters = u.parameters
        /\ y.pending = None /\ y.generation = u.generation
        /\ y.retained # None /\ y.retained.identity = u.retained.identity
        /\ capacity <= y.retained.capacity
        /\ u.retained.capacity <= y.retained.capacity
    BY <1>2, <1>4, <2>1, Activated
  <2> QED
    BY <1>1, <1>4, <2>2 DEF SameBindings, Active
<1>5. CASE ~(u.retained # None /\ u.retained.identity = identity)
  <2> DEFINE w == Invalidate(u)
  <2>1. /\ Sound(w) /\ w.rowTables = {} /\ SameBindings(u, w)
        /\ SameFamily(w.retained, u.retained)
        /\ w.generation = u.generation /\ w.parameters = u.parameters
    BY <1>2, Invalidated
  <2>2. y = [w EXCEPT !.pending = c]
    BY <1>1, <1>3, <1>5 DEF Prepare, DiscardPendingFamily
  <2> HIDE DEF w
  <2>3. c \in Bound /\ c.applied = None /\ c.identity = identity /\ c.capacity = capacity
    BY DEF Bound
  <2>4. w \in Executor
    BY <2>1 DEF Sound
  <2> HIDE DEF c
  <2>5. /\ y \in Executor /\ y.retained = w.retained /\ y.pending = c
        /\ y.generation = w.generation /\ y.parameters = w.parameters
        /\ y.version = w.version /\ y.rowTables = {} /\ y.dangling = w.dangling
        /\ SameBindings(w, y)
    BY <2>1, <2>2, <2>3, <2>4 DEF Executor, SameBindings
  <2>6. UpToDate(w, c)
    <3>1. w.version \in Nat
      BY <2>4 DEF Executor
    <3> QED
      BY <2>3, <3>1, SentinelAssumption DEF UpToDate
  <2>7. Sound(y)
    BY <2>1, <2>5, <2>6, StaysSound DEF Sound, Marked
  <2>8. c # None /\ c.capacity \in 1..MaxPoints
    BY <2>3, SentinelAssumption
  <2>9. x.retained # None => x.retained.capacity \in 1..MaxPoints
    BY DEF Sound, Executor, Bound
  <2> QED
    BY <1>1, <2>1, <2>3, <2>5, <2>7, <2>8, <2>9 DEF SameBindings, SameFamily, Active
<1> QED
  BY <1>4, <1>5

\* set_parameters gives parameters that differ a version of their own, so no
\* workspace takes the old ones for current.
LEMMA ParametersChanged ==
    ASSUME NEW x, Sound(x), NEW v \in Value,
           NEW y, y = SetParameters(x, v)
    PROVE  /\ Sound(y) /\ y.parameters = v /\ SameBindings(x, y)
           /\ y.retained = x.retained /\ y.pending = x.pending
           /\ y.generation = x.generation
<1>1. CASE x.parameters = v
  BY <1>1 DEF SetParameters, SameBindings
<1>2. CASE x.parameters # v
  <2> DEFINE n == x.version + 1
  <2>0. x.version \in Nat
    BY DEF Sound, Executor
  <2>1. x \in Executor /\ n \in Nat /\ y = [x EXCEPT !.parameters = v, !.version = n]
    BY <1>2, <2>0 DEF Sound, SetParameters
  <2> HIDE DEF n
  <2>2. /\ y \in Executor /\ y.retained = x.retained /\ y.pending = x.pending
        /\ y.generation = x.generation /\ y.parameters = v
        /\ y.version = n /\ y.rowTables = x.rowTables
        /\ y.dangling = x.dangling /\ SameBindings(x, y)
    BY <2>1 DEF Executor, SameBindings
  <2>3. ASSUME NEW b \in Bound \cup {None}, UpToDate(x, b)
        PROVE  UpToDate(y, b)
    <3>1. x.version \in Nat /\ (b # None => b.applied \in Nat \cup {None})
      BY <2>1 DEF Executor, Bound
    <3>2. x.version + 1 # None
      BY <3>1, SentinelAssumption
    <3> QED
      BY <2>2, <2>3, <3>1, <3>2 DEF UpToDate, n
  <2>4. UpToDate(y, y.retained) /\ UpToDate(y, y.pending)
    BY <2>1, <2>2, <2>3 DEF Sound, Executor
  <2> QED
    BY <2>2, <2>4 DEF Sound, Marked
<1> QED
  BY <1>1, <1>2

\* A workspace is refreshed with the current parameters, whatever was in it.
LEMMA Refreshed ==
    ASSUME NEW x, x \in Executor, NEW b \in Bound, UpToDate(x, b),
           NEW c, c = [Refresh(x, b) EXCEPT !.exposed = TRUE]
    PROVE  /\ c \in Bound /\ c.identity = b.identity /\ c.capacity = b.capacity
           /\ c.exposed /\ UpToDate(x, c)
           /\ Refresh(x, b).values = x.parameters
<1>1. /\ x.parameters \in Value /\ x.version \in Nat /\ b # None
  BY SentinelAssumption DEF Executor
<1>2. CASE b.applied = x.version
  BY <1>1, <1>2 DEF Refresh, Bound, UpToDate
<1>3. CASE b.applied # x.version
  <2>1. /\ Refresh(x, b) \in Bound /\ Refresh(x, b).values = x.parameters
        /\ Refresh(x, b).applied = x.version /\ Refresh(x, b).identity = b.identity
        /\ Refresh(x, b).capacity = b.capacity
    BY <1>1, <1>3 DEF Refresh, Bound
  <2>2. /\ c \in Bound /\ c.values = x.parameters /\ c.applied = x.version
        /\ c.identity = b.identity /\ c.capacity = b.capacity /\ c.exposed
    BY <2>1 DEF Bound
  <2> QED
    BY <1>1, <2>1, <2>2 DEF UpToDate
<1> QED
  BY <1>2, <1>3

\* What is about to run is exposed and computes with the current parameters.
LEMMA Exposing ==
    ASSUME NEW x, Sound(x), Active(x) # None,
           NEW y, y = Expose(x)
    PROVE  /\ Sound(y) /\ SameBindings(x, y) /\ y.parameters = x.parameters
           /\ y.generation = x.generation
           /\ SameFamily(y.retained, x.retained) /\ SameFamily(y.pending, x.pending)
           /\ ExecutedValues(x) = x.parameters
<1>0. /\ x \in Executor /\ x.parameters \in Value
  BY DEF Sound, Executor
<1>1. CASE x.pending # None
  <2> DEFINE c == [Refresh(x, x.pending) EXCEPT !.exposed = TRUE]
  <2>1. x.pending \in Bound /\ UpToDate(x, x.pending)
    BY <1>1 DEF Sound, Executor
  <2>2. /\ c \in Bound /\ c.identity = x.pending.identity /\ c.capacity = x.pending.capacity
        /\ c.exposed /\ UpToDate(x, c) /\ Refresh(x, x.pending).values = x.parameters
    BY <1>0, <2>1, Refreshed
  <2>3. y = [x EXCEPT !.pending = c, !.rowTables = x.rowTables \cup {"pending"}]
    BY <1>0, <1>1 DEF Expose, Executor
  <2> HIDE DEF c
  <2>4. /\ y \in Executor /\ y.retained = x.retained /\ y.pending = c
        /\ y.generation = x.generation /\ y.parameters = x.parameters
        /\ y.version = x.version /\ y.rowTables = x.rowTables \cup {"pending"}
        /\ y.dangling = x.dangling /\ SameBindings(x, y)
    BY <1>0, <2>2, <2>3 DEF Executor, SameBindings
  <2>5. Marked(y)
    BY <2>2, <2>4, SentinelAssumption DEF Sound, Marked, Exposed
  <2>6. Sound(y)
    BY <2>2, <2>4, <2>5, StaysSound DEF Sound
  <2> QED
    BY <1>1, <2>2, <2>4, <2>6, SentinelAssumption DEF SameFamily, ExecutedValues, Active
<1>2. CASE x.pending = None
  <2>0. PICK b : b = x.retained
    OBVIOUS
  <2> DEFINE c == [Refresh(x, b) EXCEPT !.exposed = TRUE]
  <2>1. b \in Bound /\ UpToDate(x, b)
    BY <1>2, <2>0 DEF Sound, Executor, Active
  <2>2. /\ c \in Bound /\ c.identity = b.identity /\ c.capacity = b.capacity
        /\ c.exposed /\ UpToDate(x, c) /\ Refresh(x, b).values = x.parameters
    BY <1>0, <2>1, Refreshed
  <2>3. y = [x EXCEPT !.retained = c, !.rowTables = x.rowTables \cup {"retained"}]
    BY <1>0, <1>2, <2>0 DEF Expose, Executor
  <2> HIDE DEF c
  <2>4. /\ y \in Executor /\ y.retained = c /\ y.pending = x.pending
        /\ y.generation = x.generation /\ y.parameters = x.parameters
        /\ y.version = x.version /\ y.rowTables = x.rowTables \cup {"retained"}
        /\ y.dangling = x.dangling /\ SameBindings(x, y)
    BY <1>0, <2>2, <2>3 DEF Executor, SameBindings
  <2>5. Marked(y)
    BY <2>2, <2>4, SentinelAssumption DEF Sound, Marked, Exposed
  <2>6. Sound(y)
    BY <2>2, <2>4, <2>5, StaysSound DEF Sound
  <2> QED
    BY <1>2, <2>0, <2>1, <2>2, <2>4, <2>6, SentinelAssumption
       DEF SameFamily, ExecutedValues, Active
<1> QED
  BY <1>1, <1>2

\* commit_pending_family: the candidate is retained under a new handle.
LEMMA CandidateCommitted ==
    ASSUME NEW x, Sound(x), x.pending # None,
           NEW y, y = CommitPendingFamily(x)
    PROVE  /\ Sound(y) /\ SameBindings(x, y) /\ y.parameters = x.parameters
           /\ y.pending = None /\ SameFamily(y.retained, x.pending)
<1> DEFINE w == IF Exposed(x.retained) THEN Invalidate(x) ELSE x
<1>1. /\ Sound(w) /\ SameBindings(x, w) /\ w.parameters = x.parameters
      /\ SameFamily(w.pending, x.pending)
  BY Invalidated DEF SameBindings, SameFamily
<1>2. "retained" \notin w.rowTables
  BY Invalidated DEF Sound, Marked
<1>3. Drop(w, {"retained"}) = w
  BY <1>1, <1>2, DropsNothing
<1> DEFINE tables == IF "pending" \in w.rowTables THEN {"retained"} ELSE {}
           n == w.generation + 1
<1>4. y = [w EXCEPT !.retained = w.pending, !.pending = None,
                    !.generation = n, !.rowTables = tables]
  BY <1>3 DEF CommitPendingFamily
<1>5. w \in Executor /\ n \in Nat /\ tables \in SUBSET {"retained", "pending"}
  BY <1>1 DEF Sound, Executor
<1> HIDE DEF w, n, tables
<1>6. /\ y \in Executor /\ y.retained = w.pending /\ y.pending = None
      /\ y.parameters = w.parameters /\ y.version = w.version
      /\ y.rowTables = tables
      /\ y.dangling = w.dangling /\ SameBindings(w, y)
  BY <1>4, <1>5 DEF Executor, SameBindings
<1>7. UpToDate(w, None) /\ UpToDate(w, w.pending)
  BY <1>1 DEF Sound, UpToDate
<1>8. Sound(y)
  BY <1>1, <1>6, <1>7, StaysSound DEF Sound, Marked, tables
<1> QED
  BY <1>1, <1>6, <1>8 DEF SameBindings

\* execute_into retains the family it ran.
LEMMA Succeeded ==
    ASSUME NEW x, Sound(x), Active(x) # None,
           NEW y, y = ExecuteSucceeds(x)
    PROVE  /\ Sound(y) /\ SameBindings(x, y) /\ y.parameters = x.parameters
           /\ y.pending = None /\ SameFamily(y.retained, Active(x))
           /\ x.pending = None => y.generation = x.generation
<1> DEFINE w == Expose(x)
<1>1. /\ Sound(w) /\ SameBindings(x, w) /\ w.parameters = x.parameters
      /\ w.generation = x.generation
      /\ SameFamily(w.retained, x.retained) /\ SameFamily(w.pending, x.pending)
  BY Exposing
<1>2. y = IF x.pending # None THEN CommitPendingFamily(w) ELSE w
  BY DEF ExecuteSucceeds
<1> HIDE DEF w
<1>3. CASE x.pending # None
  <2>1. w.pending # None
    BY <1>1, <1>3 DEF SameFamily
  <2>2. /\ Sound(y) /\ SameBindings(w, y) /\ y.parameters = w.parameters
        /\ y.pending = None /\ SameFamily(y.retained, w.pending)
    BY <1>1, <1>2, <1>3, <2>1, CandidateCommitted
  <2> QED
    BY <1>1, <1>3, <2>2 DEF SameBindings, SameFamily, Active
<1>4. CASE x.pending = None
  BY <1>1, <1>2, <1>4 DEF SameFamily, Active
<1> QED
  BY <1>3, <1>4

\* A kernel that fails costs the candidate only.
LEMMA Failed ==
    ASSUME NEW x, Sound(x), Active(x) # None,
           NEW y, y = ExecuteFails(x)
    PROVE  /\ Sound(y) /\ SameBindings(x, y) /\ y.parameters = x.parameters
           /\ y.pending = None /\ SameFamily(y.retained, x.retained)
           /\ y.generation = x.generation
<1> DEFINE w == Expose(x)
<1>1. /\ Sound(w) /\ SameBindings(x, w) /\ w.parameters = x.parameters
      /\ w.generation = x.generation /\ SameFamily(w.retained, x.retained)
  BY Exposing
<1>2. y = DiscardPendingFamily(w)
  BY DEF ExecuteFails
<1> HIDE DEF w
<1>3. /\ Sound(y) /\ SameBindings(w, y) /\ y.parameters = w.parameters
      /\ y.pending = None /\ SameFamily(y.retained, w.retained)
      /\ y.generation = w.generation
  BY <1>1, <1>2, CandidateDropped
<1> QED
  BY <1>1, <1>3 DEF SameBindings, SameFamily

\* restore_snapshot: the saved family is retained and bound.
LEMMA Restored ==
    ASSUME NEW x, Sound(x), NEW f \in Family, NEW capacity \in 1..MaxPoints,
           NEW y, y = RestoreSnapshot(x, f, capacity)
    PROVE  /\ Sound(y) /\ y.parameters = x.parameters
           /\ y.bindings = f /\ y.pendingBindings = None
           /\ y.pending = None
           /\ y.retained # None /\ y.retained.identity.family = f
           /\ y.retained.capacity = capacity
<1> DEFINE c == [identity |-> [kind |-> "restored", family |-> f],
                 capacity |-> capacity, values |-> None,
                 applied |-> None, exposed |-> FALSE]
           u == BindPending(x, f)
           w == Invalidate(u)
           z == [w EXCEPT !.pending = c]
           v == CommitPendingFamily(z)
<1>1. /\ u \in Executor /\ u.retained = x.retained /\ u.pending = x.pending
      /\ u.parameters = x.parameters /\ u.version = x.version
      /\ u.pendingBindings = f /\ u.rowTables = x.rowTables /\ u.dangling = x.dangling
  BY DEF BindPending, Sound, Executor
<1>2. Sound(u)
  BY <1>1, StaysSound DEF Sound, Marked
<1>3. y = [v EXCEPT !.bindings = v.pendingBindings, !.pendingBindings = None]
  BY DEF RestoreSnapshot, CommitPendingBindings
<1>4. c \in Bound /\ c.applied = None /\ c.identity.family = f /\ c.capacity = capacity
  BY DEF Bound, Identity, Kind
<1> HIDE DEF u, c
<1>5. /\ Sound(w) /\ w.rowTables = {} /\ SameBindings(u, w)
      /\ w.parameters = u.parameters
  BY <1>2, Invalidated
<1>6. w \in Executor
  BY <1>5 DEF Sound
<1> HIDE DEF w
<1>7. /\ z \in Executor /\ z.retained = w.retained /\ z.pending = c
      /\ z.parameters = w.parameters /\ z.version = w.version
      /\ z.rowTables = {} /\ z.dangling = w.dangling /\ SameBindings(w, z)
  BY <1>4, <1>5, <1>6 DEF Executor, SameBindings
<1>8. UpToDate(w, c)
  <2>1. w.version \in Nat
    BY <1>6 DEF Executor
  <2> QED
    BY <1>4, <2>1, SentinelAssumption DEF UpToDate
<1>9. Sound(z) /\ z.pending # None
  BY <1>4, <1>5, <1>7, <1>8, StaysSound, SentinelAssumption DEF Sound, Marked
<1> HIDE DEF z
<1>10. /\ Sound(v) /\ SameBindings(z, v) /\ v.parameters = z.parameters
       /\ v.pending = None /\ SameFamily(v.retained, z.pending)
  BY <1>9, CandidateCommitted
<1>11. v \in Executor /\ v.pendingBindings = f
  BY <1>1, <1>5, <1>7, <1>10 DEF Sound, SameBindings
<1> HIDE DEF v
<1>12. /\ y \in Executor /\ y.retained = v.retained /\ y.pending = v.pending
       /\ y.parameters = v.parameters /\ y.version = v.version
       /\ y.rowTables = v.rowTables /\ y.dangling = v.dangling
       /\ y.bindings = f /\ y.pendingBindings = None
  BY <1>3, <1>11 DEF Executor
<1>13. Sound(y)
  BY <1>10, <1>12, StaysSound DEF Sound, Marked
<1> QED
  BY <1>1, <1>4, <1>5, <1>7, <1>9, <1>10, <1>12, <1>13 DEF SameFamily

----------------------------------------------------------------------------
(* Facts about a state                                                     *)

LaneState == [last : LaneFamily \cup {None}, pending : LaneFamily \cup {None},
              prepared : BOOLEAN, runtimeValues : Parameter]

WrapperState == [last : Selection \cup {None}, pending : Selection \cup {None}]

LEMMA NoneIsNoValue ==
    /\ None \notin LaneFamily /\ None \notin Snapshot /\ None \notin Selection
    /\ None \notin Query /\ None \notin Family /\ None \notin Nat
BY SentinelAssumption, RecordAssumption

\* The phases of a call, and what its fields are.
LEMMA CallTypes ==
    ASSUME TypeOK
    PROVE  /\ call.phase \in {"idle", "select", "execute", "commit"}
           /\ call.phase = "idle" <=> call = Idle
           /\ call.phase # "idle" =>
                /\ call \in Call /\ call.selection \in Selection
                /\ call.left \in 0..MaxPoints /\ call.op \in {"evaluate", "warm_up"}
BY DEF TypeOK, Call, Idle

\* A tile of a call that has points left has some, and no more than it has left.
LEMMA TileIsPart ==
    ASSUME NEW points \in 1..MaxPoints
    PROVE  TileOf(points) \in 1..points /\ TileOf(points) \in 1..MaxPoints
BY BoundAssumption DEF TileOf, Smaller

\* The tiles of a call do not grow.
LEMMA TilesShrink ==
    ASSUME NEW m \in Nat, NEW n \in Nat, m <= n
    PROVE  TileOf(m) <= TileOf(n)
BY BoundAssumption DEF TileOf, Smaller

\* Another executor with the same families and bindings agrees with the lane too.
LEMMA StillAgrees ==
    ASSUME NEW x, NEW l, LaneAgrees(x, l), NEW y, NEW m,
           x \in Executor, y \in Executor, l \in LaneState,
           m.last = l.last, m.prepared = l.prepared,
           SameFamily(y.retained, x.retained), y.bindings = x.bindings,
           y.generation = x.generation
    PROVE  LaneAgrees(y, m)
BY DEF LaneAgrees, SameFamily, Executable

----------------------------------------------------------------------------
(* Steps that leave every layer without a candidate                        *)

\* A step to the rest state: what it has to show.
LEMMA Rests ==
    ASSUME IInv, contracted' = contracted, call' = Idle, computed' = {},
           answer' = {} \/ answer' = answer \/ answer' = computed,
           Sound(executor'), lane' \in LaneState,
           wrapper' \in WrapperState,
           parameters' \in Parameter, file' \in Snapshot \cup {None},
           calls' \in 0..MaxCalls, updates' \in 0..MaxUpdates,
           executor'.parameters = Projection[lane'.runtimeValues],
           LaneAgrees(executor', lane'), NoCandidate(executor', lane'),
           SavedIsLoadable', WrapperAgrees', wrapper'.pending = None
    PROVE  IInv'
<1>1. TypeOK'
  <2>1. \A c \in computed' \cup answer' :
           c \in [requests : Query, family : Family \cup {None}, values : Value \cup {None}]
    BY DEF IInv, TypeOK
  <2> QED
    BY <2>1 DEF IInv, TypeOK, Sound, LaneState, WrapperState
<1>2. InPhase'
  BY DEF InPhase, AtRest, Idle
<1> QED
  BY <1>1, <1>2 DEF IInv

\* WrapperDiscards, from any executor and lane the failure may leave behind: with
\* leading colour nothing is lost but the candidates.
LEMMA Abandoned ==
    ASSUME IInv, contracted' = contracted, call.phase \in {"select", "execute"},
           NEW x, NEW l, Sound(x), l \in LaneState,
           x.parameters = Projection[l.runtimeValues],
           (contracted /\ wrapper.pending # None) \/ LaneAgrees(x, l),
           l.last = lane.last,
           WrapperDiscards(x, l), EndWithError
    PROVE  /\ IInv'
           /\ ~contracted => /\ wrapper'.last = wrapper.last /\ lane'.last = lane.last
                             /\ SameFamily(executor'.retained, x.retained)
           /\ wrapper'.last = wrapper.last \/ (contracted /\ wrapper'.last = None)
<1>0. /\ wrapper \in WrapperState /\ UNCHANGED <<parameters, file, calls, updates>>
      /\ call' = Idle /\ computed' = {} /\ answer' = {}
      /\ parameters \in Parameter /\ file \in Snapshot \cup {None}
      /\ calls \in 0..MaxCalls /\ updates \in 0..MaxUpdates /\ SavedIsLoadable
  BY DEF IInv, TypeOK, EndWithError, WrapperState
<1>1. SavedIsLoadable'
  BY <1>0 DEF SavedIsLoadable, Loadable
<1>2. SUFFICES /\ Sound(executor') /\ lane' \in LaneState /\ wrapper' \in WrapperState
               /\ executor'.parameters = Projection[lane'.runtimeValues]
               /\ LaneAgrees(executor', lane') /\ NoCandidate(executor', lane')
               /\ WrapperAgrees' /\ wrapper'.pending = None
               /\ ~contracted => /\ wrapper'.last = wrapper.last /\ lane'.last = lane.last
                                 /\ SameFamily(executor'.retained, x.retained)
               /\ wrapper'.last = wrapper.last \/ (contracted /\ wrapper'.last = None)
  BY <1>0, <1>1, Rests
<1>3. CASE contracted /\ wrapper.pending # None
  <2>1. /\ executor' = ClearBindings(ClearFamilies(x))
        /\ lane' = [l EXCEPT !.pending = None, !.last = None]
        /\ wrapper' = [last |-> None, pending |-> None]
    BY <1>3 DEF WrapperDiscards
  <2>2. /\ Sound(executor') /\ executor'.parameters = x.parameters
        /\ executor'.retained = None /\ executor'.pending = None
        /\ executor'.bindings = None /\ executor'.pendingBindings = None
    BY <2>1, Cleared
  <2>3. /\ lane' \in LaneState /\ lane'.last = None /\ lane'.pending = None
        /\ lane'.runtimeValues = l.runtimeValues
    BY <2>1 DEF LaneState
  <2>4. wrapper' \in WrapperState
    BY <2>1 DEF WrapperState
  <2> QED
    BY <1>3, <2>1, <2>2, <2>3, <2>4 DEF LaneAgrees, NoCandidate, WrapperAgrees
<1>4. CASE ~(contracted /\ wrapper.pending # None)
  <2>1. /\ executor' = DiscardCandidate(x)
        /\ lane' = [l EXCEPT !.pending = None]
        /\ wrapper' = [wrapper EXCEPT !.pending = None]
    BY <1>4 DEF WrapperDiscards
  <2>2. /\ Sound(executor') /\ executor'.parameters = x.parameters
        /\ executor'.bindings = x.bindings /\ executor'.pendingBindings = None
        /\ executor'.pending = None /\ SameFamily(executor'.retained, x.retained)
        /\ executor'.generation = x.generation
    BY <2>1, Discarded
  <2>3. /\ lane' \in LaneState /\ lane'.last = lane.last /\ lane'.pending = None
        /\ lane'.prepared = l.prepared /\ lane'.runtimeValues = l.runtimeValues
    BY <2>1 DEF LaneState
  <2>4. /\ wrapper' \in WrapperState
        /\ wrapper'.last = wrapper.last /\ wrapper'.pending = None
    BY <1>0, <2>1 DEF WrapperState
  <2>5. LaneAgrees(executor', lane')
    <3>1. x \in Executor /\ executor' \in Executor
      BY <2>2 DEF Sound
    <3> QED
      BY <1>4, <2>2, <2>3, <3>1, StillAgrees
  <2>6. WrapperAgrees
    BY <1>4 DEF IInv, InPhase, AtRest, Executing, Selecting
  <2>7. WrapperAgrees'
    BY <2>3, <2>4, <2>6 DEF WrapperAgrees
  <2>8. NoCandidate(executor', lane')
    BY <2>2, <2>3 DEF NoCandidate
  <2>9. executor'.parameters = Projection[lane'.runtimeValues]
    BY <2>2, <2>3
  <2> QED
    BY <2>2, <2>3, <2>4, <2>5, <2>7, <2>8, <2>9
<1> QED
  BY <1>3, <1>4

----------------------------------------------------------------------------
(* Selecting                                                               *)

\* The types a step needs of the state it starts from.
LEMMA StateTypes ==
    ASSUME IInv
    PROVE  /\ executor \in Executor /\ lane \in LaneState /\ wrapper \in WrapperState
           /\ parameters \in Parameter /\ file \in Snapshot \cup {None}
           /\ calls \in 0..MaxCalls /\ updates \in 0..MaxUpdates
           /\ contracted \in Modes
BY DEF IInv, TypeOK, LaneState, WrapperState

\* What a call that selects starts from.
LEMMA AtSelect ==
    ASSUME IInv, call.phase = "select"
    PROVE  /\ call \in Call /\ call.selection \in Selection
           /\ Requests[call.selection] \in Query
           /\ FamilyOf[Requests[call.selection]] \in Family \cup {None}
           /\ call.left \in 1..MaxPoints /\ TileOf(call.left) \in 1..MaxPoints
           /\ wrapper.pending = None /\ NoCandidate(executor, lane) /\ WrapperAgrees
           /\ computed = {}
<1>1. call.phase # "idle" /\ TypeOK
  BY DEF IInv
<1>2. call \in Call /\ call.selection \in Selection /\ call.left \in 0..MaxPoints
  BY <1>1, CallTypes
<1>3. AtRest
  BY DEF IInv, InPhase
<1>4. call.left \in 1..MaxPoints
  BY <1>2, <1>3 DEF AtRest
<1> QED
  BY <1>2, <1>3, <1>4, TileIsPart, DataAssumption DEF AtRest

\* A step that selects: what it has to show.
LEMMA Selects ==
    ASSUME IInv, contracted' = contracted, call.phase = "select", Selected,
           Sound(executor'), lane' \in LaneState, wrapper' \in WrapperState,
           executor'.parameters = Projection[lane'.runtimeValues],
           LaneAgrees(executor', lane'), WrapperAgrees',
           wrapper'.pending \in {None, call.selection},
           wrapper'.pending = None => wrapper'.last = call.selection /\ lane'.pending = None,
           Current' # None, Current'.requests = Requests[call.selection],
           TileOf(call.left) <= Current'.capacity,
           IF lane'.pending = None THEN NoCandidate(executor', lane')
           ELSE CandidateHeld(executor', lane')
    PROVE  IInv'
<1>1. /\ call' = [call EXCEPT !.phase = "execute"]
      /\ UNCHANGED <<parameters, computed, answer, file, calls, updates>>
  BY DEF Selected
<1>2. /\ call \in Call /\ call.left \in 1..MaxPoints /\ computed = {}
  BY AtSelect
<1>3. /\ call' \in Call /\ call'.phase = "execute"
      /\ call'.selection = call.selection /\ call'.left = call.left
  BY <1>1, <1>2 DEF Call
<1>4. TypeOK'
  BY <1>1, <1>3 DEF IInv, TypeOK, Sound, LaneState, WrapperState
<1>5. SavedIsLoadable'
  BY <1>1 DEF IInv, SavedIsLoadable, Loadable
<1>6. TileOf(call.left)' = TileOf(call.left)
  BY <1>3 DEF TileOf
<1>7. Executing'
  BY <1>1, <1>2, <1>3, <1>6 DEF Executing, Selecting
<1>8. InPhase'
  BY <1>3, <1>7 DEF InPhase
<1> QED
  BY <1>4, <1>5, <1>8 DEF IInv

\* The lane's last family serves the call again, with the workspace it needs.
LEMMA Reused ==
    ASSUME IInv, call.phase = "select", ReusedLast(TileOf(call.left))
    PROVE  /\ Sound(executor') /\ lane' \in LaneState
           /\ executor'.parameters = Projection[lane'.runtimeValues]
           /\ LaneAgrees(executor', lane') /\ NoCandidate(executor', lane')
           /\ lane'.last # None /\ lane'.last.requests = lane.last.requests
           /\ TileOf(call.left) <= lane'.last.capacity
<1> DEFINE capacity == TileOf(call.left)
<1>1. /\ capacity \in 1..MaxPoints /\ NoCandidate(executor, lane)
      /\ lane \in LaneState /\ executor \in Executor /\ Sound(executor)
      /\ LaneAgrees(executor, lane)
      /\ executor.parameters = Projection[lane.runtimeValues]
  BY AtSelect, StateTypes DEF IInv
<1> HIDE DEF capacity
<1>2. /\ lane.last # None
      /\ executor' = IF capacity > lane.last.capacity /\ lane.last.handle # None
                     THEN ActivateRetained(executor, capacity) ELSE executor
      /\ lane' = [lane EXCEPT !.last.capacity = Larger(@, capacity),
                              !.prepared = ProcessPrepared]
  BY DEF ReusedLast, capacity
<1>3. /\ lane.last \in LaneFamily /\ lane.last.capacity \in 1..MaxPoints
      /\ lane.last.requests \in Query /\ lane.last.handle \in Nat \cup {None}
      /\ lane.prepared
  BY <1>1, <1>2 DEF LaneState, LaneFamily, LaneAgrees
<1>4. PICK n \in 1..MaxPoints : /\ n = Larger(lane.last.capacity, capacity)
                                /\ capacity <= n
                                /\ n = lane.last.capacity \/ capacity > lane.last.capacity
                                /\ capacity <= lane.last.capacity => n = lane.last.capacity
                                /\ capacity > lane.last.capacity => n = capacity
  BY <1>1, <1>3, BoundAssumption DEF Larger
<1>5. /\ lane' \in LaneState /\ lane'.last # None /\ lane'.last.capacity = n
      /\ lane'.last.requests = lane.last.requests /\ lane'.last.handle = lane.last.handle
      /\ lane'.prepared /\ lane'.runtimeValues = lane.runtimeValues
      /\ lane'.pending = lane.pending
  <2>1. PICK last : last = [lane.last EXCEPT !.capacity = n]
    OBVIOUS
  <2>2. /\ last \in LaneFamily /\ last.capacity = n
        /\ last.requests = lane.last.requests /\ last.handle = lane.last.handle
    BY <1>3, <2>1 DEF LaneFamily
  <2>3. ProcessPrepared = TRUE
    BY <1>1, <1>3 DEF ProcessPrepared, LaneState
  <2>4. lane' = [lane EXCEPT !.last = last, !.prepared = TRUE]
    BY <1>2, <1>4, <2>1, <2>3
  <2> QED
    BY <1>1, <1>3, <2>2, <2>4, NoneIsNoValue DEF LaneState
<1>6. CASE ~(capacity > lane.last.capacity /\ lane.last.handle # None)
  <2>1. executor' = executor
    BY <1>2, <1>6
  <2>2. Executable(lane.last) => n = lane.last.capacity
    BY <1>1, <1>2, <1>3, <1>4, <1>6, NoneIsNoValue DEF LaneAgrees, Executor
  <2>3. LaneAgrees(executor', lane')
    BY <1>1, <1>2, <1>5, <2>1, <2>2 DEF LaneAgrees, Executable
  <2> QED
    BY <1>1, <1>4, <1>5, <2>1, <2>3 DEF NoCandidate, capacity
<1>7. CASE capacity > lane.last.capacity /\ lane.last.handle # None
  <2>1. executor' = ActivateRetained(executor, capacity) /\ n = capacity
    BY <1>2, <1>4, <1>7
  <2>2. Executable(lane.last) /\ executor.retained # None
    BY <1>1, <1>2, <1>7 DEF LaneAgrees
  <2>3. /\ Sound(executor') /\ SameBindings(executor, executor')
        /\ executor'.parameters = executor.parameters
        /\ executor'.pending = None /\ executor'.generation = executor.generation
        /\ executor'.retained # None
        /\ executor'.retained.identity = executor.retained.identity
        /\ capacity <= executor'.retained.capacity
    BY <1>1, <2>1, <2>2, Activated
  <2>4. LaneAgrees(executor', lane')
    BY <1>1, <1>2, <1>5, <2>1, <2>2, <2>3 DEF LaneAgrees, Executable, SameBindings
  <2> QED
    BY <1>1, <1>4, <1>5, <2>3, <2>4 DEF NoCandidate, SameBindings, capacity
<1> QED
  BY <1>6, <1>7

LEMMA ReuseSelectionStep ==
    ASSUME IInv, contracted' = contracted, ReuseSelection
    PROVE  IInv'
<1>1. /\ call.phase = "select" /\ wrapper.last = call.selection
      /\ ReusedLast(TileOf(call.left)) /\ wrapper' = wrapper /\ Selected
  BY DEF ReuseSelection
<1>2. /\ call.selection \in Selection /\ wrapper.pending = None /\ WrapperAgrees
      /\ wrapper \in WrapperState
  BY <1>1, AtSelect, StateTypes
<1>3. /\ Sound(executor') /\ lane' \in LaneState
      /\ executor'.parameters = Projection[lane'.runtimeValues]
      /\ LaneAgrees(executor', lane') /\ NoCandidate(executor', lane')
      /\ lane'.last # None /\ lane'.last.requests = lane.last.requests
      /\ TileOf(call.left) <= lane'.last.capacity
  BY <1>1, Reused
<1>4. lane'.last.requests = Requests[call.selection] /\ WrapperAgrees'
  BY <1>1, <1>2, <1>3, NoneIsNoValue DEF WrapperAgrees
<1>5. lane'.pending = None /\ Current' = lane'.last
  BY <1>3 DEF NoCandidate, Current
<1> QED
  BY <1>1, <1>2, <1>3, <1>4, <1>5, Selects

LEMMA ReuseQueriesStep ==
    ASSUME IInv, contracted' = contracted, ReuseQueries
    PROVE  IInv'
<1>1. /\ call.phase = "select" /\ lane.last.requests = Requests[call.selection]
      /\ ReusedLast(TileOf(call.left)) /\ Selected
      /\ wrapper' = [wrapper EXCEPT !.pending = call.selection]
  BY DEF ReuseQueries
<1>2. /\ call.selection \in Selection /\ WrapperAgrees /\ wrapper \in WrapperState
  BY <1>1, AtSelect, StateTypes
<1>3. /\ wrapper' \in WrapperState /\ wrapper'.last = wrapper.last
      /\ wrapper'.pending = call.selection /\ wrapper'.pending # None
  BY <1>1, <1>2, NoneIsNoValue DEF WrapperState
<1>4. /\ Sound(executor') /\ lane' \in LaneState
      /\ executor'.parameters = Projection[lane'.runtimeValues]
      /\ LaneAgrees(executor', lane') /\ NoCandidate(executor', lane')
      /\ lane'.last # None /\ lane'.last.requests = lane.last.requests
      /\ TileOf(call.left) <= lane'.last.capacity
  BY <1>1, Reused
<1>5. lane.last # None
  BY DEF ReuseQueries
<1>6. WrapperAgrees'
  BY <1>2, <1>3, <1>4, <1>5 DEF WrapperAgrees
<1>7. lane'.pending = None /\ Current' = lane'.last
  BY <1>4 DEF NoCandidate, Current
<1> QED
  BY <1>1, <1>3, <1>4, <1>6, <1>7, Selects

\* CandidateExecutor: the queries are bound next to the lane's last family.
LEMMA CandidateBound ==
    ASSUME IInv, call.phase = "select", NEW r \in Query,
           NEW x, x = CandidateExecutor(r)
    PROVE  /\ Sound(x) /\ x.parameters = executor.parameters /\ LaneAgrees(x, lane)
           /\ x.pendingBindings = FamilyOf[r]
           /\ IF FamilyOf[r] # None
              THEN /\ Active(x) # None /\ Active(x).identity.family = FamilyOf[r]
                   /\ TileOf(call.left) <= Active(x).capacity
              ELSE x.pending = None
           /\ executor.retained # None =>
                x.retained # None /\ x.retained.identity = executor.retained.identity
<1>1. /\ TileOf(call.left) \in 1..MaxPoints /\ NoCandidate(executor, lane)
      /\ lane \in LaneState /\ executor \in Executor /\ Sound(executor)
      /\ LaneAgrees(executor, lane)
  BY AtSelect, StateTypes DEF IInv
<1>2. CASE FamilyOf[r] = None
  BY <1>1, <1>2 DEF CandidateExecutor, NoCandidate
<1>3. CASE FamilyOf[r] # None
  <2> DEFINE identity == [kind |-> IF contracted \/ call.op = "warm_up"
                                   THEN "streamed" ELSE "exact",
                          family |-> FamilyOf[r]]
  <2>1. FamilyOf[r] \in Family
    BY <1>3, DataAssumption
  <2>2. identity \in Identity /\ identity.family = FamilyOf[r]
    BY <2>1 DEF Identity, Kind
  <2>3. x = Prepare(BindPending(executor, FamilyOf[r]), identity, TileOf(call.left))
    BY <1>3 DEF CandidateExecutor
  <2> HIDE DEF identity
  <2>4. /\ Sound(x) /\ x.parameters = executor.parameters
        /\ x.bindings = executor.bindings /\ x.pendingBindings = FamilyOf[r]
        /\ x.generation = executor.generation
        /\ x.retained = None <=> executor.retained = None
        /\ executor.retained # None =>
             /\ x.retained.identity = executor.retained.identity
             /\ executor.retained.capacity <= x.retained.capacity
        /\ Active(x) # None /\ Active(x).identity = identity
        /\ TileOf(call.left) <= Active(x).capacity
    BY <1>1, <2>1, <2>2, <2>3, Prepared DEF NoCandidate
  <2>5. LaneAgrees(x, lane)
    <3>1. /\ executor.retained # None =>
               executor.retained.capacity \in 1..MaxPoints /\ x.retained.capacity \in 1..MaxPoints
          /\ lane.last # None => lane.last.capacity \in 1..MaxPoints
      BY <1>1, <2>4 DEF Sound, Executor, Bound, LaneState, LaneFamily
    <3> QED
      BY <1>1, <2>4, <3>1 DEF LaneAgrees
  <2> QED
    BY <1>3, <2>2, <2>4, <2>5
<1> QED
  BY <1>2, <1>3

LEMMA PrepareCandidateStep ==
    ASSUME IInv, contracted' = contracted, PrepareCandidate
    PROVE  IInv'
<1> DEFINE r == Requests[call.selection]
           l == [requests |-> r, handle |-> None, capacity |-> TileOf(call.left)]
<1>1. /\ call.phase = "select" /\ executor' = CandidateExecutor(r) /\ Selected
      /\ lane' = [lane EXCEPT !.pending = l, !.prepared = TRUE]
      /\ wrapper' = [wrapper EXCEPT !.pending = call.selection]
  BY DEF PrepareCandidate, NeedsCandidate
<1>2. /\ call.selection \in Selection /\ WrapperAgrees /\ wrapper \in WrapperState
      /\ lane \in LaneState /\ r \in Query /\ TileOf(call.left) \in 1..MaxPoints
  BY <1>1, AtSelect, StateTypes
<1>3. /\ wrapper' \in WrapperState /\ wrapper'.last = wrapper.last
      /\ wrapper'.pending = call.selection /\ wrapper'.pending # None
  BY <1>1, <1>2, NoneIsNoValue DEF WrapperState
<1>4. /\ l \in LaneFamily /\ l # None /\ l.requests = r /\ l.handle = None
      /\ l.capacity = TileOf(call.left)
  BY <1>2, NoneIsNoValue DEF LaneFamily
<1>5. /\ Sound(executor') /\ executor'.parameters = executor.parameters
      /\ LaneAgrees(executor', lane)
      /\ executor'.pendingBindings = FamilyOf[r]
      /\ IF FamilyOf[r] # None
         THEN /\ Active(executor') # None /\ Active(executor').identity.family = FamilyOf[r]
              /\ TileOf(call.left) <= Active(executor').capacity
         ELSE executor'.pending = None
  BY <1>1, <1>2, CandidateBound
<1> HIDE DEF l
<1>6. /\ lane' \in LaneState /\ lane'.last = lane.last /\ lane'.pending = l
      /\ lane'.prepared /\ lane'.runtimeValues = lane.runtimeValues
  BY <1>1, <1>2, <1>4 DEF LaneState
<1>7. LaneAgrees(executor', lane')
  BY <1>5, <1>6 DEF LaneAgrees
<1>8. WrapperAgrees'
  BY <1>2, <1>3, <1>6 DEF WrapperAgrees
<1>9. Current' = l
  BY <1>4, <1>6 DEF Current
<1>10. CandidateHeld(executor', lane')
  BY <1>4, <1>5, <1>6 DEF CandidateHeld, Executable
<1>11. executor'.parameters = Projection[lane'.runtimeValues]
  BY <1>5, <1>6 DEF IInv
<1>12. TileOf(call.left) <= Current'.capacity
  BY <1>2, <1>4, <1>9
<1> QED
  BY <1>1, <1>3, <1>4, <1>5, <1>6, <1>7, <1>8, <1>9, <1>10, <1>11, <1>12, Selects

----------------------------------------------------------------------------
(* Failing                                                                 *)

\* What a failing call may do: nothing is lost with leading colour, and what is
\* lost with contracted colour is everything.
Kept ==
    /\ ~contracted => /\ wrapper'.last = wrapper.last /\ lane'.last = lane.last
                      /\ executor.retained # None =>
                           /\ executor'.retained # None
                           /\ executor'.retained.identity = executor.retained.identity
    /\ wrapper'.last = wrapper.last \/ (contracted /\ wrapper'.last = None)

LEMMA SelectFailsStep ==
    ASSUME IInv, contracted' = contracted, SelectFails
    PROVE  IInv' /\ Kept
<1>1. PICK prepared \in {lane.prepared, TRUE} :
        WrapperDiscards(executor, [lane EXCEPT !.prepared = prepared])
  BY DEF SelectFails
<1>2. PICK l : l = [lane EXCEPT !.prepared = prepared]
  OBVIOUS
<1>3. /\ call.phase = "select" /\ EndWithError /\ Sound(executor)
      /\ lane \in LaneState /\ executor \in Executor /\ LaneAgrees(executor, lane)
      /\ executor.parameters = Projection[lane.runtimeValues]
  BY StateTypes DEF SelectFails, IInv
<1>4. /\ l \in LaneState /\ l.last = lane.last /\ l.runtimeValues = lane.runtimeValues
      /\ lane.prepared => l.prepared
  BY <1>1, <1>2, <1>3 DEF LaneState
<1>5. LaneAgrees(executor, l)
  BY <1>3, <1>4 DEF LaneAgrees
<1>6. /\ IInv'
      /\ ~contracted => /\ wrapper'.last = wrapper.last /\ lane'.last = lane.last
                        /\ SameFamily(executor'.retained, executor.retained)
      /\ wrapper'.last = wrapper.last \/ (contracted /\ wrapper'.last = None)
  BY <1>1, <1>2, <1>3, <1>4, <1>5, Abandoned
<1> QED
  BY <1>6 DEF Kept, SameFamily

LEMMA WarmUpCancelledStep ==
    ASSUME IInv, contracted' = contracted, WarmUpCancelled
    PROVE  IInv' /\ Kept
<1>1. PICK l : l = [lane EXCEPT !.prepared = TRUE]
  OBVIOUS
<1>2. PICK x : x = CandidateExecutor(Requests[call.selection])
  OBVIOUS
<1>3. /\ call.phase = "select" /\ EndWithError /\ WrapperDiscards(x, l)
      /\ lane \in LaneState
      /\ executor.parameters = Projection[lane.runtimeValues]
  BY <1>1, <1>2, StateTypes DEF WarmUpCancelled, NeedsCandidate, IInv
<1>4. Requests[call.selection] \in Query
  BY <1>3, AtSelect
<1>5. /\ Sound(x) /\ x.parameters = executor.parameters /\ LaneAgrees(x, lane)
      /\ executor.retained # None =>
           x.retained # None /\ x.retained.identity = executor.retained.identity
  BY <1>2, <1>3, <1>4, CandidateBound
<1>6. /\ l \in LaneState /\ l.last = lane.last /\ l.runtimeValues = lane.runtimeValues
      /\ l.prepared
  BY <1>1, <1>3 DEF LaneState
<1>7. LaneAgrees(x, l)
  BY <1>5, <1>6 DEF LaneAgrees
<1>8. /\ IInv'
      /\ ~contracted => /\ wrapper'.last = wrapper.last /\ lane'.last = lane.last
                        /\ SameFamily(executor'.retained, x.retained)
      /\ wrapper'.last = wrapper.last \/ (contracted /\ wrapper'.last = None)
  BY <1>3, <1>5, <1>6, <1>7, Abandoned
<1> QED
  BY <1>5, <1>8 DEF Kept, SameFamily

\* prepare_runtime_parameters: the executor and the lane change together.
LEMMA ParametersFollow ==
    ASSUME IInv, NEW x, x = ParametersSet(executor, lane),
           NEW l, l = LaneParametersSet(lane)
    PROVE  /\ Sound(x) /\ l \in LaneState
           /\ x.parameters = Projection[parameters] /\ l.runtimeValues = parameters
           /\ SameBindings(executor, x) /\ x.retained = executor.retained
           /\ x.pending = executor.pending /\ x.generation = executor.generation
           /\ l.last = lane.last /\ l.pending = lane.pending /\ l.prepared = lane.prepared
           /\ LaneAgrees(x, l)
<1>1. /\ Sound(executor) /\ lane \in LaneState /\ parameters \in Parameter
      /\ executor.parameters = Projection[lane.runtimeValues]
      /\ LaneAgrees(executor, lane) /\ Projection[parameters] \in Value
  BY StateTypes, DataAssumption DEF IInv
<1>2. /\ l \in LaneState /\ l.runtimeValues = parameters
      /\ l.last = lane.last /\ l.pending = lane.pending /\ l.prepared = lane.prepared
  BY <1>1 DEF LaneParametersSet, LaneState
<1>3. /\ Sound(x) /\ x.parameters = Projection[parameters]
      /\ SameBindings(executor, x) /\ x.retained = executor.retained
      /\ x.pending = executor.pending /\ x.generation = executor.generation
  <2>1. CASE lane.runtimeValues = parameters
    BY <1>1, <2>1 DEF ParametersSet, SameBindings
  <2>2. CASE lane.runtimeValues # parameters
    <3>1. x = SetParameters(executor, Projection[parameters])
      BY <2>2 DEF ParametersSet
    <3> QED
      BY <1>1, <3>1, ParametersChanged
  <2> QED
    BY <2>1, <2>2
<1>4. LaneAgrees(x, l)
  BY <1>1, <1>2, <1>3 DEF LaneAgrees, SameBindings
<1> QED
  BY <1>2, <1>3, <1>4

LEMMA InputFailsStep ==
    ASSUME IInv, contracted' = contracted, InputFails
    PROVE  IInv' /\ Kept
<1>1. /\ call.phase = "execute" /\ EndWithError
  BY DEF InputFails
<1>2. PICK x, l : /\ WrapperDiscards(x, l)
                  /\ \/ x = executor /\ l = lane
                     \/ x = ParametersSet(executor, lane) /\ l = LaneParametersSet(lane)
  BY DEF InputFails
<1>3. /\ Sound(x) /\ l \in LaneState /\ x.parameters = Projection[l.runtimeValues]
      /\ LaneAgrees(x, l) /\ l.last = lane.last /\ x.retained = executor.retained
  BY <1>2, StateTypes, ParametersFollow DEF IInv
<1>4. /\ IInv'
      /\ ~contracted => /\ wrapper'.last = wrapper.last /\ lane'.last = lane.last
                        /\ SameFamily(executor'.retained, x.retained)
      /\ wrapper'.last = wrapper.last \/ (contracted /\ wrapper'.last = None)
  BY <1>1, <1>2, <1>3, Abandoned
<1> QED
  BY <1>3, <1>4 DEF Kept, SameFamily

LEMMA KernelFailsStep ==
    ASSUME IInv, contracted' = contracted, KernelFails
    PROVE  IInv' /\ Kept
<1>1. PICK x, l : x = ParametersSet(executor, lane) /\ l = LaneParametersSet(lane)
  OBVIOUS
<1>2. PICK y, m : y = ExecuteFails(x) /\ m = [l EXCEPT !.pending = None]
  OBVIOUS
<1>3. PICK z : z = DiscardCandidate(y)
  OBVIOUS
<1>4. /\ call.phase = "execute" /\ EndWithError /\ Active(x) # None
      /\ WrapperDiscards(z, m)
  BY <1>1, <1>2, <1>3 DEF KernelFails
<1>5. /\ Sound(x) /\ l \in LaneState
      /\ x.parameters = Projection[parameters] /\ l.runtimeValues = parameters
      /\ x.retained = executor.retained /\ l.last = lane.last /\ LaneAgrees(x, l)
  BY <1>1, ParametersFollow
<1>6. /\ Sound(y) /\ SameBindings(x, y) /\ y.parameters = x.parameters
      /\ SameFamily(y.retained, x.retained) /\ y.generation = x.generation
  BY <1>2, <1>4, <1>5, Failed
<1>7. /\ Sound(z) /\ z.parameters = y.parameters /\ z.bindings = y.bindings
      /\ SameFamily(z.retained, y.retained) /\ z.generation = y.generation
  BY <1>3, <1>6, Discarded
<1>8. /\ m \in LaneState /\ m.last = l.last /\ m.runtimeValues = l.runtimeValues
      /\ m.prepared = l.prepared
  BY <1>2, <1>5 DEF LaneState
<1>9. SameFamily(z.retained, x.retained)
  BY <1>6, <1>7 DEF SameFamily
<1>10. LaneAgrees(z, m)
  BY <1>5, <1>6, <1>7, <1>8, <1>9, StillAgrees DEF Sound, SameBindings
<1>11. /\ IInv'
       /\ ~contracted => /\ wrapper'.last = wrapper.last /\ lane'.last = lane.last
                         /\ SameFamily(executor'.retained, z.retained)
       /\ wrapper'.last = wrapper.last \/ (contracted /\ wrapper'.last = None)
  BY <1>4, <1>5, <1>6, <1>7, <1>8, <1>10, Abandoned
<1> QED
  BY <1>5, <1>9, <1>11 DEF Kept, SameFamily

----------------------------------------------------------------------------
(* Executing and committing                                                *)

\* What a call that executes starts from, with the parameters in place.
LEMMA AtExecute ==
    ASSUME IInv, call.phase = "execute"
    PROVE  /\ call \in Call /\ call.selection \in Selection
           /\ call.left \in 1..MaxPoints /\ Executing /\ Current \in LaneFamily
           /\ Requests[call.selection] \in Query
<1>1. call.phase # "idle" /\ TypeOK
  BY DEF IInv
<1>2. call \in Call /\ call.selection \in Selection /\ call.left \in 0..MaxPoints
  BY <1>1, CallTypes
<1>3. Executing
  BY DEF IInv, InPhase
<1>4. call.left \in 1..MaxPoints
  BY <1>2, <1>3 DEF Executing
<1>5. Current \in LaneFamily
  BY <1>3, StateTypes DEF Executing, Current, LaneState
<1> QED
  BY <1>2, <1>3, <1>4, <1>5, DataAssumption

\* The executor runs the family of the call's selection, with capacity for a tile.
LEMMA RunsTheSelection ==
    ASSUME IInv, call.phase = "execute", Executable(Current),
           NEW x, x.retained = executor.retained, x.pending = executor.pending
    PROVE  /\ Active(x) # None
           /\ Active(x).identity.family = FamilyOf[Requests[call.selection]]
           /\ Current.capacity <= Active(x).capacity
<1>1. Executing /\ LaneAgrees(executor, lane)
  BY AtExecute DEF IInv
<1>2. Active(x) = Active(executor)
  BY DEF Active
<1>3. CASE lane.pending = None
  BY <1>1, <1>2, <1>3 DEF Executing, Current, NoCandidate, LaneAgrees, Active
<1>4. CASE lane.pending # None
  BY <1>1, <1>2, <1>4 DEF Executing, Current, CandidateHeld
<1> QED
  BY <1>3, <1>4

\* The lane and the executor after a tile: what was prepared is what both keep.
LEMMA Promoted ==
    ASSUME IInv, call.phase = "execute",
           NEW x, Sound(x), SameBindings(executor, x), x.retained = executor.retained,
           x.pending = executor.pending,
           NEW l, l \in LaneState, l.last = lane.last, l.pending = lane.pending,
           l.prepared = lane.prepared, LaneAgrees(x, l),
           NEW y, y = IF Executable(Current) THEN ExecuteSucceeds(x) ELSE x,
           NEW p, p = Promote(y, l)
    PROVE  /\ Sound(p.executor) /\ p.executor.parameters = x.parameters
           /\ p.lane \in LaneState /\ p.lane.runtimeValues = l.runtimeValues
           /\ LaneAgrees(p.executor, p.lane) /\ NoCandidate(p.executor, p.lane)
           /\ p.lane.last = Current \/ lane.pending # None
           /\ p.lane.last # None /\ p.lane.last.requests = Requests[call.selection]
           /\ p.lane.last.capacity = Current.capacity
<1>1. /\ Executing /\ Current \in LaneFamily /\ Current # None
      /\ Current.requests = Requests[call.selection]
  BY AtExecute DEF Executing
<1>2. CASE lane.pending = None
  <2>1. /\ NoCandidate(executor, lane) /\ Current = lane.last
        /\ p = [executor |-> y, lane |-> l]
    BY <1>1, <1>2 DEF Executing, Current, Promote
  <2>2. /\ Sound(y) /\ SameBindings(x, y) /\ y.parameters = x.parameters
        /\ y.pending = None /\ SameFamily(y.retained, x.retained)
        /\ y.generation = x.generation
    <3>1. CASE Executable(Current)
      <4>1. Active(x) # None
        BY <3>1, RunsTheSelection
      <4>2. x.pending = None /\ Active(x) = x.retained
        BY <2>1 DEF NoCandidate, Active
      <4> QED
        BY <3>1, <4>1, <4>2, Succeeded
    <3>2. CASE ~Executable(Current)
      BY <2>1, <3>2 DEF NoCandidate, SameBindings, SameFamily
    <3> QED
      BY <3>1, <3>2
  <2>3. LaneAgrees(y, l)
    BY <2>2, StillAgrees DEF Sound, SameBindings
  <2>4. NoCandidate(y, l)
    BY <1>2, <2>1, <2>2 DEF NoCandidate, SameBindings
  <2> QED
    BY <1>1, <2>1, <2>2, <2>3, <2>4
<1>3. CASE lane.pending # None
  <2>1. /\ CandidateHeld(executor, lane) /\ Current = lane.pending
        /\ lane.pending = l.pending /\ lane.pending \in LaneFamily
    BY <1>1, <1>3 DEF Executing, Current
  <2>2. /\ x.pendingBindings = FamilyOf[l.pending.requests]
        /\ l.prepared /\ l.pending.handle = None
    BY <2>1 DEF CandidateHeld, SameBindings
  <2>3. CASE Executable(Current)
    <3>1. /\ Active(x) # None /\ Current.capacity <= Active(x).capacity
          /\ Active(x).identity.family = FamilyOf[Current.requests]
      BY <1>1, <2>3, RunsTheSelection
    <3>2. /\ Sound(y) /\ SameBindings(x, y) /\ y.parameters = x.parameters
          /\ y.pending = None /\ SameFamily(y.retained, Active(x))
      BY <2>3, <3>1, Succeeded
    <3>3. y \in Executor /\ y.generation \in Nat
      BY <3>2 DEF Sound, Executor
    <3>4. PICK last : last = [l.pending EXCEPT !.handle = y.generation]
      OBVIOUS
    <3>5. /\ last \in LaneFamily /\ last.requests = Current.requests
          /\ last.capacity = Current.capacity /\ last.handle = y.generation
      BY <2>1, <3>3, <3>4 DEF LaneFamily
    <3>6. PICK m : m = [l EXCEPT !.pending = None, !.last = last]
      OBVIOUS
    <3>7. PICK z : z = CommitPendingBindings(y)
      OBVIOUS
    <3>8. p = [executor |-> z, lane |-> m]
      BY <1>3, <2>1, <2>3, <3>4, <3>6, <3>7 DEF Promote
    <3>9. /\ z \in Executor /\ z.retained = y.retained /\ z.pending = y.pending
          /\ z.generation = y.generation /\ z.parameters = y.parameters
          /\ z.version = y.version /\ z.bindings = y.pendingBindings
          /\ z.pendingBindings = None /\ z.rowTables = y.rowTables
          /\ z.dangling = y.dangling
      BY <3>3, <3>7 DEF CommitPendingBindings, Executor
    <3>10. Sound(z)
      BY <3>2, <3>9, StaysSound DEF Sound, Marked
    <3>11. /\ m \in LaneState /\ m.last = last /\ m.pending = None
           /\ m.prepared = l.prepared /\ m.runtimeValues = l.runtimeValues
      BY <3>5, <3>6 DEF LaneState
    <3>12. last # None
      BY <3>5, NoneIsNoValue
    <3>13. z.bindings = FamilyOf[last.requests]
      BY <2>1, <2>2, <3>2, <3>5, <3>9 DEF SameBindings
    <3>14. LaneAgrees(z, m)
      BY <2>2, <2>3, <3>1, <3>2, <3>5, <3>9, <3>11, <3>12, <3>13
         DEF LaneAgrees, SameFamily, Executable
    <3>15. NoCandidate(z, m)
      BY <3>2, <3>9, <3>11 DEF NoCandidate
    <3> QED
      BY <1>1, <1>3, <3>2, <3>5, <3>8, <3>9, <3>10, <3>11, <3>12, <3>14, <3>15
  <2>4. CASE ~Executable(Current)
    <3>1. PICK z : z = ClearBindings(ClearFamilies(y))
      OBVIOUS
    <3>2. PICK m : m = [l EXCEPT !.pending = None, !.last = l.pending]
      OBVIOUS
    <3>3. p = [executor |-> z, lane |-> m] /\ y = x
      BY <1>3, <2>1, <2>4, <3>1, <3>2 DEF Promote
    <3>4. /\ Sound(z) /\ z.parameters = x.parameters
          /\ z.retained = None /\ z.pending = None
          /\ z.bindings = None /\ z.pendingBindings = None
      BY <3>1, <3>3, Cleared
    <3>5. /\ m \in LaneState /\ m.last = l.pending /\ m.pending = None
          /\ m.prepared = l.prepared /\ m.runtimeValues = l.runtimeValues
      BY <3>2, <2>1 DEF LaneState
    <3>6. LaneAgrees(z, m)
      BY <1>3, <2>1, <2>2, <2>4, <3>4, <3>5 DEF LaneAgrees, Executable
    <3>7. NoCandidate(z, m)
      BY <3>4, <3>5 DEF NoCandidate
    <3> QED
      BY <1>1, <1>3, <2>1, <3>3, <3>4, <3>5, <3>6, <3>7
  <2> QED
    BY <2>3, <2>4
<1> QED
  BY <1>2, <1>3

LEMMA ExecuteTileStep ==
    ASSUME IInv, contracted' = contracted, ExecuteTile
    PROVE  IInv'
<1> DEFINE points == TileOf(call.left)
           R == Result(call.selection, parameters)
<1>1. PICK x, l : x = ParametersSet(executor, lane) /\ l = LaneParametersSet(lane)
  OBVIOUS
<1>2. PICK y : y = IF Executable(Current) THEN ExecuteSucceeds(x) ELSE x
  OBVIOUS
<1>3. PICK p : p = Promote(y, l)
  OBVIOUS
<1>4. PICK c : c = [requests |-> Current.requests,
                    family |-> IF Executable(Current) THEN Active(x).identity.family
                               ELSE None,
                    values |-> IF Executable(Current) THEN ExecutedValues(x) ELSE None]
  OBVIOUS
<1>5. /\ call.phase = "execute"
      /\ executor' = p.executor /\ lane' = p.lane /\ computed' = computed \cup {c}
      /\ call' = [call EXCEPT !.left = call.left - points,
                              !.phase = IF call.left = points THEN "commit" ELSE call.phase]
      /\ UNCHANGED <<wrapper, parameters, answer, file, calls, updates>>
  BY <1>1, <1>2, <1>3, <1>4 DEF ExecuteTile
<1>6. /\ call \in Call /\ call.selection \in Selection /\ call.left \in 1..MaxPoints
      /\ Executing /\ points \in 1..call.left /\ Requests[call.selection] \in Query
  BY <1>5, AtExecute, TileIsPart
<1>7. /\ Sound(x) /\ l \in LaneState
      /\ x.parameters = Projection[parameters] /\ l.runtimeValues = parameters
      /\ SameBindings(executor, x) /\ x.retained = executor.retained
      /\ x.pending = executor.pending
      /\ l.last = lane.last /\ l.pending = lane.pending /\ l.prepared = lane.prepared
      /\ LaneAgrees(x, l)
  BY <1>1, ParametersFollow
<1>8. /\ Sound(executor') /\ executor'.parameters = x.parameters
      /\ lane' \in LaneState /\ lane'.runtimeValues = l.runtimeValues
      /\ LaneAgrees(executor', lane') /\ NoCandidate(executor', lane')
      /\ lane'.last = Current \/ lane.pending # None
      /\ lane'.last # None /\ lane'.last.requests = Requests[call.selection]
      /\ lane'.last.capacity = Current.capacity
  BY <1>2, <1>3, <1>5, <1>7, Promoted
<1>9. c = R
  <2>1. Current.requests = Requests[call.selection]
    BY <1>6 DEF Executing
  <2>2. CASE Executable(Current)
    <3>1. /\ Active(x) # None
          /\ Active(x).identity.family = FamilyOf[Requests[call.selection]]
      BY <1>5, <1>7, <2>2, RunsTheSelection
    <3>2. PICK z : z = Expose(x)
      OBVIOUS
    <3>3. ExecutedValues(x) = Projection[parameters]
      BY <1>7, <3>1, <3>2, Exposing
    <3> QED
      BY <1>4, <2>1, <2>2, <3>1, <3>3 DEF Result, Executable
  <2>3. CASE ~Executable(Current)
    BY <1>4, <2>1, <2>3 DEF Result, Executable
  <2> QED
    BY <2>2, <2>3
<1>10. computed' = {R} /\ R' = R
  <2>1. call'.selection = call.selection
    BY <1>5, <1>6 DEF Call
  <2> QED
    BY <1>5, <1>6, <1>9, <2>1 DEF Executing, Result
<1>11. /\ call' \in Call /\ call'.selection = call.selection
       /\ call'.left = call.left - points
       /\ call'.phase = IF call.left = points THEN "commit" ELSE "execute"
  <2>1. PICK phase \in {"commit", "execute"} :
          phase = IF call.left = points THEN "commit" ELSE call.phase
    BY <1>5
  <2>2. PICK left \in 0..MaxPoints : left = call.left - points
    BY <1>6, BoundAssumption
  <2>3. call' = [call EXCEPT !.left = left, !.phase = phase]
    BY <1>5, <2>1, <2>2
  <2> QED
    BY <1>5, <1>6, <2>1, <2>2, <2>3 DEF Call
<1>12. TypeOK'
  <2>1. R \in [requests : Query, family : Family \cup {None}, values : Value \cup {None}]
    <3>1. /\ FamilyOf[Requests[call.selection]] \in Family \cup {None}
          /\ Projection[parameters] \in Value
      BY <1>6, StateTypes, DataAssumption
    <3> QED
      BY <1>6, <3>1 DEF Result
  <2>2. \A d \in computed' \cup answer' :
          d \in [requests : Query, family : Family \cup {None}, values : Value \cup {None}]
    BY <1>5, <1>10, <2>1 DEF IInv, TypeOK
  <2> QED
    BY <1>5, <1>8, <1>11, <2>2 DEF IInv, TypeOK, Sound, LaneState, WrapperState
<1>13. SavedIsLoadable'
  BY <1>5 DEF IInv, SavedIsLoadable, Loadable
<1>14. Selecting'
  <2>1. /\ wrapper.pending \in {None, call.selection}
        /\ wrapper.pending = None => wrapper.last = call.selection
    BY <1>6 DEF Executing, Selecting
  <2>2. wrapper' = wrapper /\ lane'.pending = None
    BY <1>5, <1>8 DEF NoCandidate
  <2>3. wrapper.pending = None => WrapperAgrees'
    BY <1>6, <1>8, <2>1, <2>2, NoneIsNoValue DEF WrapperAgrees
  <2>4. ~contracted => points = call.left
    BY DEF TileOf
  <2>5. ~contracted' => call'.phase = "commit"
    BY <1>11, <2>4
  <2> QED
    BY <1>11, <2>1, <2>2, <2>3, <2>5 DEF Selecting
<1>15. executor'.parameters = Projection[lane'.runtimeValues]
  BY <1>7, <1>8
<1>16. CASE call.left = points
  <2>1. Committing'
    BY <1>8, <1>10, <1>11, <1>14 DEF Committing
  <2>2. call'.phase = "commit"
    BY <1>11, <1>16
  <2>3. InPhase'
    BY <2>1, <2>2 DEF InPhase
  <2> QED
    BY <1>8, <1>12, <1>13, <1>15, <2>3 DEF IInv
<1>17. CASE call.left # points
  <2>1. /\ call'.phase = "execute" /\ call'.left > 0
        /\ call'.left \in Nat /\ call'.left <= call.left
    BY <1>6, <1>11, <1>17
  <2>2. lane'.pending = None /\ Current' = lane'.last
    BY <1>8 DEF NoCandidate, Current
  <2>3. TileOf(call'.left) <= Current.capacity
    <3>1. TileOf(call'.left) <= TileOf(call.left)
      BY <1>6, <2>1, TilesShrink
    <3>2. TileOf(call.left) <= Current.capacity /\ Current.capacity \in Nat
      BY <1>5, <1>6, AtExecute DEF Executing, LaneFamily
    <3>3. TileOf(call'.left) \in Nat
      BY <2>1, BoundAssumption DEF TileOf, Smaller
    <3> QED
      BY <1>6, <3>1, <3>2, <3>3
  <2>4. (TileOf(call.left))' = TileOf(call'.left)
    BY DEF TileOf
  <2>5. Executing'
    BY <1>8, <1>10, <1>11, <1>14, <2>1, <2>2, <2>3, <2>4 DEF Executing
  <2>6. InPhase'
    BY <2>1, <2>5 DEF InPhase
  <2> QED
    BY <1>8, <1>12, <1>13, <1>15, <2>6 DEF IInv
<1> QED
  BY <1>16, <1>17

LEMMA CommitStep ==
    ASSUME IInv, contracted' = contracted, Commit
    PROVE  /\ IInv'
           /\ call.selection \in Selection
           /\ wrapper'.last = call.selection
           /\ answer' = {Result(call.selection, parameters)}
<1>1. /\ call.phase = "commit"
      /\ wrapper' = [last |-> IF wrapper.pending = None THEN wrapper.last
                              ELSE wrapper.pending,
                     pending |-> None]
      /\ answer' = computed /\ computed' = {} /\ call' = Idle
      /\ UNCHANGED <<executor, lane, parameters, file, calls, updates>>
  BY DEF Commit
<1>2. Committing /\ call.selection \in Selection
  BY <1>1, CallTypes DEF IInv, InPhase
<1>3. wrapper'.last = call.selection /\ wrapper'.pending = None
  BY <1>1, <1>2 DEF Committing, Selecting
<1>4. wrapper' \in WrapperState
  BY <1>1, <1>2, <1>3 DEF WrapperState
<1>5. WrapperAgrees'
  BY <1>1, <1>2, <1>3, NoneIsNoValue DEF WrapperAgrees, Committing
<1>6. SavedIsLoadable'
  BY <1>1 DEF IInv, SavedIsLoadable, Loadable
<1>7. NoCandidate(executor', lane') /\ LaneAgrees(executor', lane')
  BY <1>1, <1>2 DEF IInv, Committing
<1>8. /\ Sound(executor') /\ lane' \in LaneState
      /\ executor'.parameters = Projection[lane'.runtimeValues]
  BY <1>1, StateTypes DEF IInv
<1>9. IInv'
  BY <1>1, <1>3, <1>4, <1>5, <1>6, <1>7, <1>8, StateTypes, Rests
<1> QED
  BY <1>1, <1>2, <1>3, <1>9 DEF Committing

----------------------------------------------------------------------------
(* Between calls                                                           *)

\* What an operation between calls starts from.
LEMMA AtIdle ==
    ASSUME IInv, call = Idle
    PROVE  /\ wrapper.pending = None /\ NoCandidate(executor, lane) /\ WrapperAgrees
           /\ computed = {}
           /\ Sound(executor) /\ LaneAgrees(executor, lane) /\ SavedIsLoadable
           /\ executor.parameters = Projection[lane.runtimeValues]
<1>1. call.phase = "idle"
  BY DEF Idle
<1> QED
  BY <1>1 DEF IInv, InPhase, AtRest

LEMMA BeginStep ==
    ASSUME IInv, contracted' = contracted,
           NEW s \in Selection, NEW n \in 1..MaxPoints, NEW op \in {"evaluate", "warm_up"},
           Begin(op, s, n)
    PROVE  IInv'
<1>1. /\ call = Idle /\ calls < MaxCalls /\ calls' = calls + 1 /\ answer' = {}
      /\ call' = [phase |-> "select", op |-> op, selection |-> s, left |-> n]
      /\ UNCHANGED <<executor, lane, wrapper, parameters, computed, file, updates>>
  BY DEF Begin, cache
<1>2. /\ wrapper.pending = None /\ NoCandidate(executor, lane) /\ WrapperAgrees
      /\ computed = {}
  BY <1>1, AtIdle
<1>3. call' \in Call /\ call'.phase = "select" /\ call'.left = n
  BY <1>1 DEF Call
<1>4. calls' \in 0..MaxCalls
  BY <1>1, StateTypes, BoundAssumption
<1>5. TypeOK'
  BY <1>1, <1>3, <1>4 DEF IInv, TypeOK
<1>6. WrapperAgrees'
  BY <1>1, <1>2 DEF WrapperAgrees
<1>7. AtRest'
  BY <1>1, <1>2, <1>3, <1>6 DEF AtRest
<1>8. InPhase'
  BY <1>3, <1>7 DEF InPhase
<1>9. SavedIsLoadable'
  BY <1>1 DEF IInv, SavedIsLoadable, Loadable
<1> QED
  BY <1>1, <1>5, <1>8, <1>9 DEF IInv

\* What every operation between calls leaves alone.
LEMMA Updated ==
    ASSUME IInv, Update
    PROVE  /\ call = Idle /\ call' = Idle /\ computed' = {} /\ answer' = answer
           /\ calls' \in 0..MaxCalls /\ updates' \in 0..MaxUpdates
<1>1. /\ call = Idle /\ updates < MaxUpdates /\ updates' = updates + 1
      /\ UNCHANGED <<call, computed, answer, calls>>
  BY DEF Update
<1>2. computed = {}
  BY <1>1, AtIdle
<1> QED
  BY <1>1, <1>2, StateTypes, BoundAssumption

LEMMA SetModelParametersStep ==
    ASSUME IInv, contracted' = contracted, NEW p \in Parameter, SetModelParameters(p)
    PROVE  IInv'
<1>1. /\ Update /\ parameters' = p
      /\ UNCHANGED <<executor, lane, wrapper, file>>
  BY DEF SetModelParameters, cache
<1>2. /\ call = Idle /\ call' = Idle /\ computed' = {} /\ answer' = answer
      /\ calls' \in 0..MaxCalls /\ updates' \in 0..MaxUpdates
  BY <1>1, Updated
<1>3. WrapperAgrees' /\ SavedIsLoadable'
  BY <1>1, <1>2, AtIdle DEF WrapperAgrees, SavedIsLoadable, Loadable
<1>4. NoCandidate(executor', lane') /\ LaneAgrees(executor', lane') /\ Sound(executor')
  BY <1>1, <1>2, AtIdle
<1> QED
  BY <1>1, <1>2, <1>3, <1>4, AtIdle, StateTypes, Rests

LEMMA ClearStep ==
    ASSUME IInv, contracted' = contracted, Clear
    PROVE  IInv'
<1>1. /\ Update /\ executor' = ClearBindings(ClearFamilies(executor))
      /\ lane' = [lane EXCEPT !.pending = None, !.last = None, !.prepared = FALSE]
      /\ wrapper' = [last |-> None, pending |-> None]
      /\ UNCHANGED <<parameters, file>>
  BY DEF Clear
<1>2. /\ call = Idle /\ call' = Idle /\ computed' = {} /\ answer' = answer
      /\ calls' \in 0..MaxCalls /\ updates' \in 0..MaxUpdates
  BY <1>1, Updated
<1>3. /\ Sound(executor') /\ executor'.parameters = executor.parameters
      /\ executor'.retained = None /\ executor'.pending = None
      /\ executor'.pendingBindings = None
  BY <1>1, <1>2, AtIdle, Cleared
<1>4. /\ lane' \in LaneState /\ lane'.last = None /\ lane'.pending = None
      /\ lane'.runtimeValues = lane.runtimeValues
  BY <1>1, StateTypes DEF LaneState
<1>5. LaneAgrees(executor', lane') /\ NoCandidate(executor', lane')
  BY <1>3, <1>4 DEF LaneAgrees, NoCandidate
<1>6. WrapperAgrees' /\ SavedIsLoadable' /\ wrapper' \in WrapperState
  BY <1>1, <1>2, <1>4, AtIdle DEF WrapperAgrees, SavedIsLoadable, Loadable, WrapperState
<1>7. executor'.parameters = Projection[lane'.runtimeValues]
  BY <1>2, <1>3, <1>4, AtIdle
<1> QED
  BY <1>1, <1>2, <1>3, <1>4, <1>5, <1>6, <1>7, StateTypes, Rests

LEMMA SaveStep ==
    ASSUME IInv, contracted' = contracted, Save
    PROVE  IInv' /\ file' # None /\ file'.selection = wrapper.last
<1>1. PICK family : family = IF executor.retained = None THEN None
                             ELSE executor.retained.identity.family
  OBVIOUS
<1>2. /\ Update
      /\ file' = [selection |-> wrapper.last, lane |-> lane.last,
                  policy |-> lane.prepared, family |-> family]
      /\ UNCHANGED <<executor, lane, wrapper, parameters>>
  BY <1>1 DEF Save, cache
<1>3. /\ call = Idle /\ call' = Idle /\ computed' = {} /\ answer' = answer
      /\ calls' \in 0..MaxCalls /\ updates' \in 0..MaxUpdates
  BY <1>2, Updated
<1>4. family \in Family \cup {None}
  BY <1>1, StateTypes DEF Executor, Bound, Identity
<1>5. /\ file' \in Snapshot /\ file' # None /\ file'.selection = wrapper.last
      /\ file'.lane = lane.last /\ file'.policy = lane.prepared /\ file'.family = family
  BY <1>2, <1>4, StateTypes, NoneIsNoValue DEF Snapshot, LaneState, WrapperState
<1>6. /\ WrapperAgrees /\ LaneAgrees(executor, lane)
  BY <1>3, AtIdle
<1>7. lane.last # None => FamilyOf[lane.last.requests] = family
  BY <1>1, <1>6 DEF LaneAgrees, Executable
<1>8. lane.last = None => family = None
  BY <1>1, <1>6 DEF LaneAgrees
<1>9. SavedIsLoadable'
  BY <1>5, <1>6, <1>7, <1>8 DEF SavedIsLoadable, Loadable, WrapperAgrees, LaneAgrees
<1>10. WrapperAgrees' /\ NoCandidate(executor', lane')
  BY <1>2, <1>3, AtIdle DEF WrapperAgrees
<1>11. IInv'
  BY <1>2, <1>3, <1>5, <1>6, <1>9, <1>10, AtIdle, StateTypes, Rests
<1> QED
  BY <1>5, <1>11

LEMMA LoadStep ==
    ASSUME IInv, contracted' = contracted, Load
    PROVE  IInv' /\ file # None /\ wrapper'.last = file.selection
<1>1. /\ Update /\ file # None /\ Loadable(file)
      /\ executor' = IF file.family = None THEN ClearBindings(ClearFamilies(executor))
                     ELSE RestoreSnapshot(executor, file.family, file.lane.capacity)
      /\ wrapper' = [last |-> file.selection, pending |-> None]
      /\ UNCHANGED <<parameters, file>>
  BY DEF Load
<1>2. /\ call = Idle /\ call' = Idle /\ computed' = {} /\ answer' = answer
      /\ calls' \in 0..MaxCalls /\ updates' \in 0..MaxUpdates
  BY <1>1, Updated
<1>3. /\ file \in Snapshot /\ file.selection \in Selection \cup {None}
      /\ file.lane \in LaneFamily \cup {None} /\ file.policy \in BOOLEAN
      /\ file.family \in Family \cup {None}
      /\ file.lane # None => file.lane.capacity \in 1..MaxPoints
      /\ Sound(executor) /\ executor \in Executor /\ lane \in LaneState
  BY <1>1, <1>2, AtIdle, StateTypes DEF Snapshot, LaneFamily
<1>4. /\ Sound(executor') /\ executor'.parameters = executor.parameters
      /\ executor'.pending = None /\ executor'.pendingBindings = None
      /\ executor'.bindings = file.family
      /\ IF file.family = None THEN executor'.retained = None
         ELSE /\ executor'.retained # None
              /\ executor'.retained.identity.family = file.family
              /\ executor'.retained.capacity = file.lane.capacity
  <2>1. CASE file.family = None
    BY <1>1, <1>3, <2>1, Cleared
  <2>2. CASE file.family # None
    <3>1. file.lane.capacity \in 1..MaxPoints /\ file.family \in Family
      BY <1>1, <1>3, <2>2 DEF Loadable
    <3>2. executor' = RestoreSnapshot(executor, file.family, file.lane.capacity)
      BY <1>1, <2>2
    <3> QED
      BY <1>3, <2>2, <3>1, <3>2, Restored
  <2> QED
    BY <2>1, <2>2
<1>5. executor' \in Executor /\ executor'.generation \in Nat
  BY <1>4 DEF Sound, Executor
<1>6. PICK handle : handle = IF file.family = None THEN None ELSE executor'.generation
  OBVIOUS
<1>7. PICK last : last = IF file.lane = None THEN None
                         ELSE [file.lane EXCEPT !.handle = handle]
  OBVIOUS
<1>8. lane' = [lane EXCEPT !.pending = None, !.last = last, !.prepared = file.policy]
  BY <1>6, <1>7 DEF Load
<1>9. /\ last \in LaneFamily \cup {None}
      /\ last = None <=> file.lane = None
      /\ last # None => /\ last.handle = handle /\ last.requests = file.lane.requests
                        /\ last.capacity = file.lane.capacity
  <2>1. handle \in Nat \cup {None}
    BY <1>5, <1>6
  <2>2. CASE file.lane = None
    BY <1>7, <2>2
  <2>3. CASE file.lane # None
    <3>1. /\ last \in LaneFamily /\ last.handle = handle
          /\ last.requests = file.lane.requests /\ last.capacity = file.lane.capacity
      BY <1>3, <1>7, <2>1, <2>3 DEF LaneFamily
    <3> QED
      BY <2>3, <3>1, NoneIsNoValue
  <2> QED
    BY <2>2, <2>3
<1>10. /\ lane' \in LaneState /\ lane'.last = last /\ lane'.pending = None
       /\ lane'.prepared = file.policy /\ lane'.runtimeValues = lane.runtimeValues
  <2>1. PICK policy \in BOOLEAN : policy = file.policy
    BY <1>3
  <2>2. lane' = [lane EXCEPT !.pending = None, !.last = last, !.prepared = policy]
    BY <1>8, <2>1
  <2>3. lane \in LaneState /\ last \in LaneFamily \cup {None}
    BY <1>3, <1>9
  <2> QED
    BY <2>1, <2>2, <2>3 DEF LaneState
<1>11. LaneAgrees(executor', lane')
  <2>1. CASE file.lane = None
    BY <1>1, <1>4, <1>9, <1>10, <2>1 DEF LaneAgrees, Loadable
  <2>2. CASE file.lane # None
    <3>1. /\ file.policy /\ FamilyOf[last.requests] = file.family /\ last # None
      BY <1>1, <1>9, <2>2 DEF Loadable
    <3>2. file.family # None => last.capacity <= executor'.retained.capacity
      BY <1>3, <1>4, <1>9, <2>2
    <3> QED
      BY <1>4, <1>6, <1>9, <1>10, <3>1, <3>2 DEF LaneAgrees, Executable
  <2> QED
    BY <2>1, <2>2
<1>12. WrapperAgrees'
  BY <1>1, <1>9, <1>10 DEF WrapperAgrees, Loadable
<1>13. NoCandidate(executor', lane') /\ SavedIsLoadable'
  BY <1>1, <1>4, <1>10 DEF NoCandidate, SavedIsLoadable, Loadable
<1>14. wrapper' \in WrapperState /\ wrapper'.pending = None /\ wrapper'.last = file.selection
  BY <1>1, <1>3 DEF WrapperState
<1>15. executor'.parameters = Projection[lane'.runtimeValues]
  BY <1>2, <1>4, <1>10, AtIdle
<1>16. IInv'
  BY <1>1, <1>2, <1>4, <1>10, <1>11, <1>12, <1>13, <1>14, <1>15, StateTypes, Rests
<1> QED
  BY <1>1, <1>14, <1>16

LEMMA LoadFailsStep ==
    ASSUME IInv, contracted' = contracted, LoadFails
    PROVE  IInv'
<1>1. /\ Update /\ executor' = [executor EXCEPT !.pendingBindings = None]
      /\ UNCHANGED <<lane, wrapper, parameters, file>>
  BY DEF LoadFails, DiscardPendingBindings
<1>2. /\ call = Idle /\ call' = Idle /\ computed' = {} /\ answer' = answer
      /\ calls' \in 0..MaxCalls /\ updates' \in 0..MaxUpdates
  BY <1>1, Updated
<1>3. /\ NoCandidate(executor, lane) /\ executor \in Executor
  BY <1>2, AtIdle, StateTypes
<1>4. executor' = executor
  BY <1>1, <1>3 DEF NoCandidate, Executor
<1>5. WrapperAgrees' /\ SavedIsLoadable'
  BY <1>1, <1>2, AtIdle DEF WrapperAgrees, SavedIsLoadable, Loadable
<1>6. NoCandidate(executor', lane') /\ LaneAgrees(executor', lane') /\ Sound(executor')
  BY <1>1, <1>2, <1>4, AtIdle
<1> QED
  BY <1>1, <1>2, <1>4, <1>5, <1>6, AtIdle, StateTypes, Rests

LEMMA Start ==
    ASSUME Init
    PROVE  IInv
<1>1. /\ executor = NewExecutor(Projection[Default]) /\ call = Idle /\ computed = {}
      /\ answer = {} /\ file = None /\ parameters = Default
      /\ lane = [last |-> None, pending |-> None, prepared |-> FALSE,
                 runtimeValues |-> Default]
      /\ wrapper = [last |-> None, pending |-> None]
      /\ contracted \in Modes /\ calls = 0 /\ updates = 0
  BY DEF Init
<1>2. Default \in Parameter /\ Projection[Default] \in Value
  BY DataAssumption
<1>3. /\ executor \in Executor /\ executor.parameters = Projection[Default]
      /\ executor.retained = None /\ executor.pending = None
      /\ executor.pendingBindings = None /\ executor.rowTables = {} /\ ~executor.dangling
  BY <1>1, <1>2 DEF NewExecutor, Executor
<1>4. Sound(executor)
  BY <1>3 DEF Sound, Marked, UpToDate
<1>5. /\ lane \in LaneState /\ lane.last = None /\ lane.pending = None
      /\ lane.runtimeValues = Default
  BY <1>1, <1>2 DEF LaneState
<1>6. TypeOK
  BY <1>1, <1>2, <1>3, <1>5, BoundAssumption DEF TypeOK, LaneState
<1>7. AtRest /\ call.phase = "idle"
  BY <1>1, <1>3, <1>5 DEF AtRest, NoCandidate, WrapperAgrees, Idle
<1>8. InPhase
  BY <1>7 DEF InPhase
<1>9. LaneAgrees(executor, lane) /\ SavedIsLoadable
  BY <1>1, <1>3, <1>5 DEF LaneAgrees, SavedIsLoadable
<1> QED
  BY <1>3, <1>4, <1>5, <1>6, <1>8, <1>9 DEF IInv

----------------------------------------------------------------------------
(* Theorems                                                                *)

LEMMA StepKeeps ==
    ASSUME IInv, [Next]_vars
    PROVE  IInv'
<1>1. CASE Next
  <2>1. Operation /\ contracted' = contracted
    BY <1>1 DEF Next
  <2>2. CASE \E s \in Selection, n \in 1..MaxPoints, op \in {"evaluate", "warm_up"} :
               Begin(op, s, n)
    BY <2>1, <2>2, BeginStep
  <2>3. CASE ReuseSelection
    BY <2>1, <2>3, ReuseSelectionStep
  <2>4. CASE ReuseQueries
    BY <2>1, <2>4, ReuseQueriesStep
  <2>5. CASE PrepareCandidate
    BY <2>1, <2>5, PrepareCandidateStep
  <2>6. CASE SelectFails
    BY <2>1, <2>6, SelectFailsStep
  <2>7. CASE WarmUpCancelled
    BY <2>1, <2>7, WarmUpCancelledStep
  <2>8. CASE ExecuteTile
    BY <2>1, <2>8, ExecuteTileStep
  <2>9. CASE InputFails
    BY <2>1, <2>9, InputFailsStep
  <2>10. CASE KernelFails
    BY <2>1, <2>10, KernelFailsStep
  <2>11. CASE Commit
    BY <2>1, <2>11, CommitStep
  <2>12. CASE \E p \in Parameter : SetModelParameters(p)
    BY <2>1, <2>12, SetModelParametersStep
  <2>13. CASE Clear
    BY <2>1, <2>13, ClearStep
  <2>14. CASE Save
    BY <2>1, <2>14, SaveStep
  <2>15. CASE Load
    BY <2>1, <2>15, LoadStep
  <2>16. CASE LoadFails
    BY <2>1, <2>16, LoadFailsStep
  <2> QED
    BY <2>1, <2>2, <2>3, <2>4, <2>5, <2>6, <2>7, <2>8, <2>9, <2>10, <2>11, <2>12,
       <2>13, <2>14, <2>15, <2>16 DEF Operation
<1>2. CASE UNCHANGED vars
  <2>1. /\ UNCHANGED <<contracted, executor, lane, wrapper, parameters, call, computed>>
        /\ UNCHANGED <<answer, file, calls, updates>>
    BY <1>2 DEF vars, cache
  <2>2. TypeOK' /\ SavedIsLoadable'
    BY <2>1 DEF IInv, TypeOK, SavedIsLoadable, Loadable
  <2>3. TileOf(call.left)' = TileOf(call.left)
    BY <2>1 DEF TileOf
  <2>4. InPhase'
    BY <2>1, <2>3 DEF IInv, InPhase, AtRest, Executing, Committing, Selecting,
                      WrapperAgrees, Current
  <2> QED
    BY <2>1, <2>2, <2>4 DEF IInv
<1> QED
  BY <1>1, <1>2

\* In every reachable state the layers hold what IInv says of the phase of the
\* call: engine/native_runtime.rs, on_the_fly_lane.rs and family.rs.
THEOREM Invariant == Spec => []IInv
<1>1. Init => IInv
  BY Start
<1>2. IInv /\ [Next]_vars => IInv'
  BY StepKeeps
<1> QED
  BY <1>1, <1>2, PTL DEF Spec

\* Whatever failed, between calls the wrapper's selection, the lane's family, the
\* executor's family and the bindings are one, the lane's handle is current and
\* nobody holds a candidate (abort_contracted_selection, discard_pending_selection).
THEOREM LayersStayCoherent == Spec => []Coherent
<1>1. IInv => Coherent
  <2> SUFFICES ASSUME IInv, call = Idle
               PROVE  LayersAgree
    BY DEF IInv, Coherent, LayersAgree
  <2>1. /\ wrapper.pending = None /\ NoCandidate(executor, lane) /\ WrapperAgrees
        /\ LaneAgrees(executor, lane)
    BY AtIdle
  <2>2. lane.last # None => lane.last \in LaneFamily
    BY StateTypes DEF LaneState
  <2> QED
    BY <2>1, <2>2 DEF LayersAgree, NoCandidate, WrapperAgrees, LaneAgrees
<1> QED
  BY <1>1, Invariant, PTL

\* The rows a kernel caches pointers into are never dropped under it
\* (invalidate_exposed_row_tables before every drop).
THEOREM RowTablesStayValid == Spec => []NoDanglingRows
<1>1. IInv => NoDanglingRows
  BY DEF IInv, NoDanglingRows, Sound, Marked
<1> QED
  BY <1>1, Invariant, PTL

\* Selection leaves what execution needs: the executor's active family is that of
\* the selection, with the capacity of every tile still to come.
THEOREM SelectedCanExecute == Spec => []ReadyToExecute
<1>1. IInv => ReadyToExecute
  <2> SUFFICES ASSUME IInv, call.phase = "execute"
               PROVE  /\ Current # None
                      /\ Current.requests = Requests[call.selection]
                      /\ TileOf(call.left) <= Current.capacity
                      /\ Executable(Current) => Ready(executor, TileOf(call.left))
    BY DEF ReadyToExecute
  <2>1. /\ Executing /\ Current \in LaneFamily /\ call.left \in 1..MaxPoints
    BY AtExecute
  <2>2. ASSUME Executable(Current)
        PROVE  Ready(executor, TileOf(call.left))
    <3>1. Active(executor) # None /\ Current.capacity <= Active(executor).capacity
      BY <2>2, RunsTheSelection
    <3>2. /\ Current.capacity \in 1..MaxPoints /\ TileOf(call.left) \in 1..MaxPoints
          /\ Active(executor).capacity \in 1..MaxPoints
      BY <2>1, <3>1, TileIsPart, StateTypes DEF LaneFamily, Active, Executor, Bound
    <3>3. TileOf(call.left) <= Active(executor).capacity
      BY <2>1, <3>1, <3>2, BoundAssumption DEF Executing
    <3> QED
      BY <3>1, <3>3 DEF Ready
  <2> QED
    BY <2>1, <2>2 DEF Executing
<1> QED
  BY <1>1, Invariant, PTL

\* NativeRuntime::save never writes a file load_cache would refuse.
THEOREM SavedCanBeLoaded == Spec => []SavedIsLoadable
<1>1. IInv => SavedIsLoadable
  BY DEF IInv
<1> QED
  BY <1>1, Invariant, PTL

\* The steps that end a call without an answer are the failures; they keep what
\* Kept says.
LEMMA OnlyFailuresAbandon ==
    ASSUME IInv, Next, call.phase \in {"select", "execute"}, call'.phase = "idle"
    PROVE  Kept
<1>1. Operation /\ contracted' = contracted /\ call # Idle
  BY DEF Next, Idle
<1>2. \A s, n, op : ~Begin(op, s, n)
  BY <1>1 DEF Begin
<1>3. ~Update
  BY <1>1 DEF Update
<1>4. ~Commit
  BY DEF Commit
<1>5. ~Selected
  <2> SUFFICES ASSUME Selected PROVE FALSE
    OBVIOUS
  <2>1. call \in Call
    BY <1>1, CallTypes DEF IInv
  <2> QED
    BY <2>1 DEF Selected, Call
<1>6. ~ExecuteTile
  <2> SUFFICES ASSUME ExecuteTile PROVE FALSE
    OBVIOUS
  <2>1. call \in Call
    BY <1>1, CallTypes DEF IInv
  <2>2. call.phase = "execute"
    BY DEF ExecuteTile
  <2>3. PICK left, phase : /\ call' = [call EXCEPT !.left = left, !.phase = phase]
                           /\ phase \in {"commit", "execute"}
    BY <2>2 DEF ExecuteTile
  <2> QED
    BY <2>1, <2>3 DEF Call
<1>7. SelectFails \/ WarmUpCancelled \/ InputFails \/ KernelFails
  BY <1>1, <1>2, <1>3, <1>4, <1>5, <1>6
     DEF Operation, ReuseSelection, ReuseQueries, PrepareCandidate, SetModelParameters,
         Clear, Save, Load, LoadFails
<1> QED
  BY <1>1, <1>7, SelectFailsStep, WarmUpCancelledStep, InputFailsStep, KernelFailsStep

\* With leading colour a failing call gives up its candidate and nothing else: the
\* last selection, its lane family and its executable family stay
\* (discard_pending_selection and its callees).
THEOREM FailureKeepsLeadingFamily == Spec => LeadingKeepsFamily
<1>1. IInv /\ [Next]_vars => [~contracted => FailedCallKeeps]_vars
  <2> SUFFICES ASSUME IInv, Next, ~contracted,
                      call.phase \in {"select", "execute"}, call'.phase = "idle"
               PROVE  /\ wrapper'.last = wrapper.last
                      /\ lane'.last = lane.last
                      /\ executor.retained # None =>
                           /\ executor'.retained # None
                           /\ executor'.retained.identity = executor.retained.identity
    BY DEF FailedCallKeeps
  <2> QED
    BY OnlyFailuresAbandon DEF Kept
<1> QED
  BY <1>1, Invariant, PTL DEF Spec, LeadingKeepsFamily

----------------------------------------------------------------------------
(* The refinement                                                          *)

LEMMA StartOfPromise ==
    ASSUME Init
    PROVE  Promise!Init
<1>1. /\ wrapper.last = None /\ parameters = Default /\ answer = {} /\ file = None
      /\ contracted \in BOOLEAN
  BY ModeAssumption DEF Init
<1> QED
  BY <1>1 DEF Promise!Init

\* Every step shows its caller a step of the promise, or nothing.
LEMMA StepOfPromise ==
    ASSUME IInv, [Next]_vars
    PROVE  [Promise!Next]_Promise!vars
<1>1. CASE Next
  <2>1. Operation /\ contracted' = contracted
    BY <1>1 DEF Next
  <2>2. ASSUME UNCHANGED <<wrapper, parameters, file>>, answer' = {}
        PROVE  Promise!Next
    BY <2>1, <2>2 DEF Promise!Next, Promise!NoAnswer
  <2>3. ASSUME wrapper'.last = wrapper.last, UNCHANGED <<parameters, file, answer>>
        PROVE  UNCHANGED Promise!vars
    BY <2>1, <2>3 DEF Promise!vars
  <2>4. ASSUME EndWithError, Kept
        PROVE  Promise!Next
    BY <2>1, <2>4 DEF EndWithError, Kept, Promise!Next, Promise!NoAnswer
  <2>5. CASE \E s \in Selection, n \in 1..MaxPoints, op \in {"evaluate", "warm_up"} :
               Begin(op, s, n)
    BY <2>2, <2>5 DEF Begin, cache
  <2>6. CASE ReuseSelection
    BY <2>3, <2>6 DEF ReuseSelection, Selected
  <2>7. ASSUME Selected, wrapper' = [wrapper EXCEPT !.pending = call.selection]
        PROVE  UNCHANGED Promise!vars
    BY <2>3, <2>7, StateTypes DEF Selected, WrapperState
  <2>8. CASE ReuseQueries \/ PrepareCandidate
    BY <2>7, <2>8 DEF ReuseQueries, PrepareCandidate
  <2>9. CASE SelectFails \/ WarmUpCancelled \/ InputFails \/ KernelFails
    <3>1. Kept
      BY <2>1, <2>9, SelectFailsStep, WarmUpCancelledStep, InputFailsStep, KernelFailsStep
    <3>2. EndWithError
      BY <2>9 DEF SelectFails, WarmUpCancelled, InputFails, KernelFails
    <3> QED
      BY <2>4, <3>1, <3>2
  <2>10. CASE ExecuteTile
    BY <2>3, <2>10 DEF ExecuteTile
  <2>11. CASE Commit
    <3>1. /\ call.selection \in Selection /\ wrapper'.last = call.selection
          /\ answer' = {Result(call.selection, parameters)}
          /\ UNCHANGED <<parameters, file>>
      BY <2>1, <2>11, CommitStep DEF Commit
    <3>2. Promise!Evaluate(call.selection)
      BY <3>1 DEF Promise!Evaluate
    <3> QED
      BY <2>1, <3>1, <3>2 DEF Promise!Next
  <2>12. ASSUME Promise!Update
         PROVE  Promise!Next
    BY <2>1, <2>12 DEF Promise!Next
  <2>13. CASE \E p \in Parameter : SetModelParameters(p)
    <3>1. PICK p \in Parameter : SetModelParameters(p)
      BY <2>13
    <3>2. parameters' = p /\ UNCHANGED <<wrapper, file, answer>>
      BY <3>1 DEF SetModelParameters, Update, cache
    <3>3. Promise!Update
      BY <3>2 DEF Promise!Update
    <3> QED
      BY <2>12, <3>3
  <2>14. CASE Clear
    <3>1. wrapper'.last = None /\ UNCHANGED <<parameters, file, answer>>
      BY <2>14 DEF Clear, Update
    <3>2. Promise!Update
      BY <3>1 DEF Promise!Update
    <3> QED
      BY <2>12, <3>2
  <2>15. CASE Save
    <3>1. /\ file' # None /\ file'.selection = wrapper.last
          /\ UNCHANGED <<parameters, wrapper, answer>>
      BY <2>1, <2>15, SaveStep DEF Save, Update, cache
    <3>2. Promise!Update
      BY <3>1 DEF Promise!Update
    <3> QED
      BY <2>12, <3>2
  <2>16. CASE Load
    <3>1. /\ file # None /\ wrapper'.last = file.selection
          /\ UNCHANGED <<parameters, file, answer>>
      BY <2>1, <2>16, LoadStep DEF Load, Update
    <3>2. Promise!Update
      BY <3>1 DEF Promise!Update
    <3> QED
      BY <2>12, <3>2
  <2>17. CASE LoadFails
    BY <2>3, <2>17 DEF LoadFails, Update
  <2> QED
    BY <2>1, <2>5, <2>6, <2>8, <2>9, <2>10, <2>11, <2>13, <2>14, <2>15, <2>16, <2>17
       DEF Operation
<1>2. CASE UNCHANGED vars
  <2>1. UNCHANGED <<contracted, wrapper, parameters, file, answer>>
    BY <1>2 DEF vars, cache
  <2> QED
    BY <2>1 DEF Promise!vars
<1> QED
  BY <1>1, <1>2

\* The runtime implements OtfPromise: an answer is what its selection gives with
\* the parameters of the moment, whatever was warm, pending, loaded or failed.
THEOREM RuntimeKeepsPromise == Spec => ImplementsPromise
<1>1. Init => Promise!Init
  BY StartOfPromise
<1>2. IInv /\ [Next]_vars => [Promise!Next]_Promise!vars
  BY StepOfPromise
<1> QED
  BY <1>1, <1>2, Invariant, PTL DEF Spec, ImplementsPromise, Promise!Spec
=============================================================================
