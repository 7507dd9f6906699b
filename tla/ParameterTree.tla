---------------------------- MODULE ParameterTree ----------------------------
(***************************************************************************)
(* The model parameters of a native runtime and of its companions          *)
(* (engine/model_parameters.rs), and the sector selector that an           *)
(* evaluation stores among them for its own time (engine/evaluation.rs).   *)
(*                                                                         *)
(* A runtime has companions for helicity sums, helicity selectors and      *)
(* color selectors, and they have companions.  Each holds the parameters   *)
(* its process uses, what a model evaluator derives from them, a copy of   *)
(* the particle masses and a normalization factor.  An update walks the    *)
(* tree and may fail at any runtime after others have taken it.            *)
(*                                                                         *)
(* Abstraction: runtimes are numbered in the order of the walk, the root   *)
(* is 1.  Derived values are what they were derived from.  Particles take  *)
(* their masses from the parameters Masses and the normalization depends   *)
(* on Coupling.  A model evaluator may fail on any values.                 *)
(***************************************************************************)
EXTENDS Naturals

CONSTANTS
    None,
    Runtimes,   \* number of runtimes in the tree
    Names,      \* the mutable parameters
    Slots,      \* Slots[r]: the parameters that runtime r has slots for
    Fixed,      \* names of derived parameters, in the tree's runtimes
    Masses,     \* the parameters that are masses of particles
    Coupling,   \* the parameter of the normalization factor
    Values,     \* values of a parameter, 0 among them
    Default,    \* Default[n]: the value of n in the artifact
    Invalid,    \* a value that is not finite
    Declared,   \* the lane checks the names against the physics manifest
    Sectors,    \* sectors a call may select on a runtime with the selector
    Selecting   \* runtimes with a slot for the sector selector

Tree == 1..Runtimes

TreeAssumption ==
    /\ Runtimes \in Nat \ {0}
    /\ Slots \in [Tree -> SUBSET Names]
    /\ Default \in [Names -> Values]
    /\ Selecting \subseteq Tree
NameAssumption ==
    /\ Masses \cup {Coupling} \subseteq Names /\ Fixed \cap Names = {}
    /\ 0 \in Values /\ Invalid \notin Values /\ None \notin Values

VARIABLES
    base,       \* base[r]: the values of the parameters of r
    derived,    \* derived[r]: what its derived values were derived from
    mass,       \* mass[r]: particle_masses of r, None without the parameter
    factor,     \* factor[r]: what normalization_factor was computed from
    sector,     \* sector[r]: the sector selector among its values
    phase,      \* "idle", "applying" or "summing"
    overrides,  \* the overrides of the update in progress
    snapshot,   \* parameter_state_snapshot of the tree
    at,         \* the runtime the walk or the evaluation is at
    pending,    \* sectors that the evaluation has not summed yet
    previous,   \* the selector it will restore
    asked       \* the values the accepted updates ask for (history)

state == <<base, derived, mass, factor>>
walk == <<overrides, snapshot>>
summing == <<sector, pending, previous>>
vars == <<state, summing, phase, walk, at, asked>>

Of(n, values) == IF n \in DOMAIN values THEN values[n] ELSE None

\* particle_mass_parameters_for
MassesOf(values) == [m \in Masses |-> Of(m, values)]

Init ==
    /\ asked = Default
    /\ base = [r \in Tree |-> [n \in Slots[r] |-> Default[n]]]
    /\ derived = base
    /\ mass = [r \in Tree |-> MassesOf(base[r])]
    /\ factor = [r \in Tree |-> Of(Coupling, base[r])]
    /\ sector = [r \in Tree |-> None]
    /\ phase = "idle" /\ at = 0
    /\ overrides = None /\ snapshot = None
    /\ pending = {} /\ previous = None

Overrides == UNION {[S -> Values \cup {Invalid}] : S \in (SUBSET (Names \cup Fixed)) \ {{}}}

----------------------------------------------------------------------------
(* Updates.                                                                *)

\* set_model_parameters; the on-the-fly lane leaves the names to the walk.
Update(o) ==
    /\ phase = "idle"
    /\ Declared => DOMAIN o \subseteq Names
    /\ phase' = "applying" /\ at' = 1
    /\ overrides' = o
    /\ snapshot' = state
    /\ UNCHANGED <<state, summing, asked>>

\* What the loop over the overrides refuses at a runtime.
Refused(r) == \E n \in DOMAIN overrides : n \in Fixed \/ n \notin Slots[r] \/ overrides[n] = Invalid

Proposed(r) == [n \in Slots[r] |-> IF n \in DOMAIN overrides THEN overrides[n] ELSE base[r][n]]

\* Mutant: only a massless particle is compared.
ClassChangesMassless(r) == \E m \in Masses : mass[r][m] = 0 /\ Of(m, Proposed(r)) # 0

\* validate_particle_mass_class_stability
ClassChanges(r) ==
    \E m \in Masses : mass[r][m] # None /\ ((mass[r][m] = 0) # (Of(m, Proposed(r)) = 0))

Finished == /\ phase' = "idle" /\ at' = 0
            /\ overrides' = None /\ snapshot' = None

\* Mutant: the derived values are refreshed before the overrides.
TakeUnrefreshed(r) ==
    /\ base' = [base EXCEPT ![r] = Proposed(r)]
    /\ mass' = [mass EXCEPT ![r] = MassesOf(Proposed(r))]
    /\ factor' = [factor EXCEPT ![r] = Of(Coupling, Proposed(r))]
    /\ UNCHANGED derived

\* The end of apply_model_parameter_overrides_local.
Take(r) ==
    /\ base' = [base EXCEPT ![r] = Proposed(r)]
    /\ derived' = [derived EXCEPT ![r] = Proposed(r)]
    /\ mass' = [mass EXCEPT ![r] = MassesOf(Proposed(r))]
    /\ factor' = [factor EXCEPT ![r] = Of(Coupling, Proposed(r))]

\* A runtime accepts the overrides, the walk goes on or ends.
Accept ==
    /\ phase = "applying"
    /\ ~ Refused(at) /\ ~ ClassChanges(at)
    /\ Take(at)
    /\ IF at = Runtimes
       THEN /\ asked' = [n \in Names |->
                            IF n \in DOMAIN overrides THEN overrides[n] ELSE asked[n]]
            /\ Finished
       ELSE /\ at' = at + 1
            /\ UNCHANGED <<phase, walk, asked>>
    /\ UNCHANGED summing

\* Mutant: only the root goes back to its snapshot.
RestoreRoot ==
    /\ base' = [base EXCEPT ![1] = snapshot[1][1]]
    /\ derived' = [derived EXCEPT ![1] = snapshot[2][1]]
    /\ mass' = [mass EXCEPT ![1] = snapshot[3][1]]
    /\ factor' = [factor EXCEPT ![1] = snapshot[4][1]]

\* restore_parameter_state, over the whole tree.
Restore ==
    /\ base' = snapshot[1] /\ derived' = snapshot[2]
    /\ mass' = snapshot[3] /\ factor' = snapshot[4]

\* It refuses them, or its model evaluator fails; the tree is restored.
Reject ==
    /\ phase = "applying"
    /\ Restore
    /\ Finished
    /\ UNCHANGED <<summing, asked>>

----------------------------------------------------------------------------
(* Evaluation of selected sectors.                                         *)

\* run_f64_selected on the root or, through it, on its sum companion.
Evaluate(r, S) ==
    /\ phase = "idle" /\ r \in Selecting
    /\ phase' = "summing" /\ at' = r
    /\ previous' = sector[r]
    /\ sector' = [sector EXCEPT ![r] = None]
    /\ pending' = S
    /\ UNCHANGED <<state, walk, asked>>

\* The next sector, in their order.
SumSector ==
    /\ phase = "summing" /\ pending # {}
    /\ \E s \in pending :
          /\ \A t \in pending : s <= t
          /\ sector' = [sector EXCEPT ![at] = s]
          /\ pending' = pending \ {s}
    /\ UNCHANGED <<state, walk, phase, at, previous, asked>>

\* Mutant: a failing kernel leaves before the selector is restored.
EndSumEarly ==
    /\ phase = "summing"
    /\ phase' = "idle" /\ at' = 0 /\ pending' = {}
    /\ sector' = IF pending = {} THEN [sector EXCEPT ![at] = previous] ELSE sector
    /\ previous' = None
    /\ UNCHANGED <<state, walk, asked>>

\* All sectors are summed, or a kernel failed.
EndSum ==
    /\ phase = "summing"
    /\ phase' = "idle" /\ at' = 0 /\ pending' = {}
    /\ sector' = [sector EXCEPT ![at] = previous]
    /\ previous' = None
    /\ UNCHANGED <<state, walk, asked>>

----------------------------------------------------------------------------
Next ==
    \/ \E o \in Overrides : Update(o)
    \/ Accept \/ Reject
    \/ \E r \in Tree, S \in (SUBSET Sectors) \ {{}} : Evaluate(r, S)
    \/ SumSector \/ EndSum

Spec == Init /\ [][Next]_vars

----------------------------------------------------------------------------
(* Properties.                                                             *)

\* No runtime ever holds a value that is not finite, and the walk stays in
\* the tree (model_parameters.rs:101-117 and 193-203).
TypeOK ==
    /\ base \in [Tree -> UNION {[S -> Values] : S \in SUBSET Names}]
    /\ \A r \in Tree : DOMAIN base[r] = Slots[r]
    /\ phase \in {"idle", "applying", "summing"}
    /\ at \in 0..Runtimes /\ (phase = "idle" <=> at = 0)
    /\ pending \subseteq Sectors

\* Between calls, all runtimes of the tree hold the values of the accepted
\* updates and nothing of a refused one: an update is all or nothing over the
\* companions (model_parameters.rs:89-99, engine_tests.rs:6006-6170).
AllOrNothing ==
    phase = "idle" => \A r \in Tree : \A n \in Slots[r] : base[r][n] = asked[n]

\* Between calls, what a runtime computed from its values is of the values it
\* holds, whichever update or rollback put them there
\* (model_parameters.rs:211-223 and 146-150).
ComputedFromHeld ==
    phase = "idle" => \A r \in Tree :
        /\ derived[r] = base[r]
        /\ mass[r] = MassesOf(base[r])
        /\ factor[r] = Of(Coupling, base[r])

\* Each particle stays in the mass class the artifact was generated for, also
\* over a sequence of updates (model_parameters.rs:328-353).
MassClassKept ==
    \A r \in Tree, m \in Masses :
        mass[r][m] # None => ((mass[r][m] = 0) = (Default[m] = 0))

\* The selector of an evaluation does not outlive it, so that no later call
\* sums a single sector (evaluation.rs:74-100 and 1988-2008).
SelectorRestored == phase # "summing" => \A r \in Tree : sector[r] = None
=============================================================================
