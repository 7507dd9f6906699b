--------------------------- MODULE ArenaExecution ---------------------------
(***************************************************************************)
(* A recurrence program on its arena: the lifetimes of the currents are    *)
(* derived (recurrence/arena.rs) and given planes (ArenaLayout), the       *)
(* program is lowered to rows that name planes instead of currents         *)
(* (direct_lowering.rs), a selection of amplitudes is resolved from those  *)
(* addresses (direct_runtime.rs) and the rows run in their order on an     *)
(* arena that holds whatever earlier tiles left there (direct_backend.rs). *)
(* Numbers are symbolic: a plane holds the set of terms summed into it.    *)
(***************************************************************************)
EXTENDS ArenaLayout, SequencesExt

(***************************************************************************)
(* A program has the stage and width of every current, the sources among   *)
(* them, contributions [id, result, parents, executor], closure terms      *)
(* [id, parents, destination], the sector of each destination and the      *)
(* certified relations: a current in DOMAIN copies is a multiple of the    *)
(* current it maps to, and zero if that is itself.                         *)
(***************************************************************************)
CONSTANTS Programs,
          NoExecutor    \* DIRECT_NONE_U32: certified copies come after every executor

VARIABLES program,
          plan,       \* the lowered rows in the order of their row groups
          selection,  \* what the tile was asked for
          rows,       \* the rows of the plan that run
          clears,     \* of each stage, the ranges zeroed before its first contribution
          pc,         \* the next of rows; 0 before a tile
          planes,     \* the current arena
          amplitude   \* the amplitude arena

execVars == <<plan, selection, rows, clears, pc, planes, amplitude>>
vars == <<layoutVars, program, execVars>>

Unselected == [kind |-> "none"]

\* A finite set of integers in ascending order.
Sorted(S) ==
    [i \in 1..Cardinality(S) |-> CHOOSE x \in S : Cardinality({y \in S : y < x}) = i - 1]

-----------------------------------------------------------------------------
(* What the rows of a current sum to. *)

Stale == [terms |-> {-1}, final |-> FALSE]
Zero  == [terms |-> {}, final |-> FALSE]

IsCopy(c) == c \in DOMAIN program.copies
Into(c)   == {r \in program.contributions : r.result = c}

TermsOf(p) ==
    LET terms[c \in Values] ==
            IF c \in p.sources THEN {c}
            ELSE IF c \notin DOMAIN p.copies
                 THEN {r.id : r \in {q \in p.contributions : q.result = c}}
            ELSE IF p.copies[c] = c THEN {} ELSE terms[p.copies[c]]
    IN  terms

Unfinished(c) == [terms |-> TermsOf(program)[c], final |-> FALSE]

Finished(c) == [Unfinished(c) EXCEPT !.final = TRUE]

Added(value, term) ==
    IF -1 \in value.terms \/ value.final \/ term \in value.terms \/ term = -1 THEN Stale
    ELSE [value EXCEPT !.terms = @ \cup {term}]

-----------------------------------------------------------------------------
(* Lifetimes: recurrence_direct_arena_layout. *)

ClosureStage(p) == 1 + Max({p.stage[c] : c \in Values})

LastUse(p, c) ==
    IF \E t \in p.closures : c \in ToSet(t.parents) THEN ClosureStage(p)
    ELSE Max({p.stage[c]} \cup
             {p.stage[r.result] : r \in {q \in p.contributions : c \in ToSet(q.parents)}})

Lifetimes(p) ==
    [c \in Values |-> [first |-> p.stage[c], last |-> LastUse(p, c), width |-> p.width[c]]]

\* lower_selector_domains: the sectors whose closures depend on a current.
DomainOf(p) ==
    LET domain[c \in Values] ==
            {p.sector[t.destination] : t \in {u \in p.closures : c \in ToSet(u.parents)}}
            \cup UNION {domain[r.result] : r \in {q \in p.contributions : c \in ToSet(q.parents)}}
    IN  domain

(***************************************************************************)
(* What RecurrenceProgram::validate, the construction (earlier stages) and *)
(* the contract of the certified relations ensure of a program.            *)
(***************************************************************************)
Identified(rs) ==
    /\ IsFiniteSet(rs)
    /\ \A r \in rs : r.id \in Nat /\ r.parents # <<>>
    /\ \A r, q \in rs : r.id = q.id => r = q

WellFormed(p) ==
    /\ Lifetimes(p) \in Requests
    /\ p.sources \subseteq Values
    /\ Identified(p.contributions) /\ Identified(p.closures)
    /\ \A t \in p.closures : t.parents \in Seq(Values)
    /\ \A r \in p.contributions :
          /\ r.parents \in Seq({c \in Values : p.stage[c] < p.stage[r.result]})
          /\ r.executor \in 0..(NoExecutor - 1)
    /\ {r.result : r \in p.contributions} = Values \ p.sources
    /\ {t.destination : t \in p.closures} = DOMAIN p.sector
    /\ \A c \in DOMAIN p.copies :
          LET of == p.copies[c]
          IN  /\ {c, of} \subseteq Values \ p.sources
              /\ of <= c
              /\ p.stage[c] = p.stage[of] /\ p.width[c] = p.width[of]
              /\ DomainOf(p)[c] = DomainOf(p)[of]

ASSUME NoExecutorAssumption == NoExecutor \in Nat
ASSUME ProgramsAssumption == \A p \in Programs : WellFormed(p)

-----------------------------------------------------------------------------
(* Lowering: one row per source, contribution, certified relation,         *)
(* finalization and closure.  reads and dest are addresses; parents only   *)
(* records which currents they stood for.                                  *)

Roles == [source |-> 0, contribution |-> 1, finalization |-> 2, closure |-> 3]

Addresses(s) == [i \in DOMAIN s |-> PlanesOf(s[i])]

RowOf(role, c, id, executor, parents) ==
    [role |-> role, stage |-> program.stage[c], executor |-> executor, id |-> id,
     dest |-> PlanesOf(c), reads |-> Addresses(parents), parents |-> parents,
     initialize |-> FALSE, domain |-> DomainOf(program)[c], into |-> c]

SourceRows == {RowOf("source", c, c, 0, <<>>) : c \in program.sources}

\* The rows of a certified current are replaced
\* by one scale-copy of its representative.
ContributionRows ==
    {RowOf("contribution", r.result, r.id, r.executor, r.parents) :
        r \in {q \in program.contributions : ~IsCopy(q.result)}}
    \cup {RowOf("contribution", c, c, NoExecutor, <<program.copies[c]>>) :
        c \in DOMAIN program.copies}

FinalizationRows ==
    {RowOf("finalization", c, c, 0, <<>>) : c \in Values \ program.sources}

ClosureRows ==
    {[role |-> "closure", stage |-> ClosureStage(program), executor |-> 0, id |-> t.id,
      dest |-> t.destination, reads |-> Addresses(t.parents), parents |-> t.parents,
      initialize |-> FALSE, domain |-> {program.sector[t.destination]}, into |-> t.destination] :
        t \in program.closures}

\* The order of the row groups: stage, role, executor.  Within an executor
\* the code sorts by operand, so two rows of a program may run in any order;
\* here their ids decide, and the programs have both orders.
Precedes(r, q) ==
    \/ r.stage < q.stage
    \/ /\ r.stage = q.stage
       /\ \/ Roles[r.role] < Roles[q.role]
          \/ /\ r.role = q.role
             /\ \/ r.executor < q.executor
                \/ r.executor = q.executor /\ r.id < q.id

Siblings(all, row) == {r \in all : r.role = "contribution" /\ r.into = row.into}

\* Mutant: the flag goes to the first row in the order of the contributions' ids.
InitializesById(all, row) ==
    row.role = "contribution" /\ \A r \in Siblings(all, row) : row.id <= r.id

\* The first row of a current in the final order initializes its planes.
Initializes(all, row) ==
    row.role = "contribution" /\ ~\E r \in Siblings(all, row) : Precedes(r, row)

AllRows == SourceRows \cup ContributionRows \cup FinalizationRows \cup ClosureRows

Lowered ==
    LET rank == [r \in AllRows |-> Cardinality({q \in AllRows : Precedes(q, r)})]
    IN  [i \in 1..Cardinality(AllRows) |->
            LET row == CHOOSE r \in AllRows : rank[r] = i - 1
            IN  [row EXCEPT !.initialize = Initializes(AllRows, row)]]

Lower ==
    /\ outcome = "done" /\ plan = <<>>
    /\ plan' = Lowered
    /\ UNCHANGED <<layoutVars, program, selection, rows, clears, pc, planes, amplitude>>

-----------------------------------------------------------------------------
(* Selection: a whole tile, the rows of one sector, or the dependency      *)
(* closure of some destinations, found from the addresses of the rows.     *)

OfRole(S, role) == {i \in S : plan[i].role = role}

\* ReplayCurrentIndex: by stage and base, and by base and lifetime.
At(stage, b) == {c \in Values : program.stage[c] = stage /\ base[c] = b}

\* Mutant: an address names the first current that ever had it.
FirstAt(stage, b) ==
    LET at == {c \in Values : base[c] = b}
    IN  {c \in at : \A d \in at :
            span[c].first < span[d].first \/ (span[c].first = span[d].first /\ c <= d)}

LivingAt(stage, b) ==
    LET started == {c \in Values : base[c] = b /\ span[c].first <= stage}
        latest  == {c \in started : \A d \in started :
                        span[d].first < span[c].first \/ (span[d].first = span[c].first /\ d <= c)}
    IN  {c \in latest : span[c].last >= stage}

Flow(sector) == {i \in DOMAIN plan : sector \in plan[i].domain}

ReadBy(S) == UNION {UNION {LivingAt(plan[i].stage, plan[i].reads[k].base) :
                              k \in DOMAIN plan[i].reads} : i \in S}

Feeding(S, currents) ==
    {i \in OfRole(S, "contribution") : At(plan[i].stage, plan[i].dest.base) \cap currents # {}}

\* The worklist of selected_replay_destination_program, run to its end.
Marked(S, wanted) ==
    LET reach[n \in 0..Cardinality(Values)] ==
            IF n = 0
            THEN ReadBy({i \in OfRole(S, "closure") : plan[i].dest \in wanted})
            ELSE LET known == reach[n - 1] IN known \cup ReadBy(Feeding(S, known))
    IN  reach[Cardinality(Values)]

Resolved(S) ==
    /\ \A c, d \in Values : c # d => ~(program.stage[c] = program.stage[d] /\ base[c] = base[d])
    /\ \A i \in S : \A k \in DOMAIN plan[i].reads :
          LivingAt(plan[i].stage, plan[i].reads[k].base) # {}

Retained(S, wanted) ==
    LET marked == Marked(S, wanted)
    IN  {i \in S : IF plan[i].role = "closure" THEN plan[i].dest \in wanted
                   ELSE At(plan[i].stage, plan[i].dest.base) \cap marked # {}}

\* A current whose first retained row overwrites it needs no clear.
Overwritten(S, c) ==
    LET into == {i \in OfRole(S, "contribution") : c \in At(plan[i].stage, plan[i].dest.base)}
    IN  into # {} /\ LET first == plan[Min(into)]
                     IN  /\ first.initialize
                         /\ \A k \in DOMAIN first.reads : first.reads[k].base # first.dest.base
                         /\ first.executor = NoExecutor => first.reads[1].count = span[c].width

ClearsAt(S, wanted) ==
    LET cleared == {c \in Marked(S, wanted) \ program.sources : ~Overwritten(S, c)}
    IN  [stage \in Stages |-> {PlanesOf(c) : c \in {d \in cleared : program.stage[d] = stage}}]

\* Every tile starts from an arena some earlier tile has used.
Begin(what, S, cleared, zeroed) ==
    /\ selection' = what
    /\ rows' = Sorted(S)
    /\ clears' = cleared
    /\ pc' = 1
    /\ planes' = [p \in 0..(stop - 1) |-> Stale]
    /\ amplitude' = [d \in DOMAIN program.sector |-> IF d \in zeroed THEN Zero ELSE Stale]
    /\ UNCHANGED <<layoutVars, program, plan>>

Ready == plan # <<>> /\ pc = 0 /\ outcome = "done"

SectorsUsed == {program.sector[t.destination] : t \in program.closures}
TargetsOf(sector) == {d \in DOMAIN program.sector : program.sector[d] = sector}

TileOfAll ==
    /\ Ready
    /\ Begin([kind |-> "all", wanted |-> DOMAIN program.sector], DOMAIN plan,
             [stage \in Stages |-> {}], {t.destination : t \in program.closures})

TileOfSector(sector) ==
    /\ Ready /\ sector \in SectorsUsed
    /\ Begin([kind |-> "sector", wanted |-> TargetsOf(sector)], Flow(sector),
             [stage \in Stages |->
                 {PlanesOf(c) : c \in {d \in Values \ program.sources :
                     program.stage[d] = stage /\ sector \in DomainOf(program)[d]}}],
             TargetsOf(sector))

TileOfDestinations(sector, wanted) ==
    /\ Ready /\ sector \in SectorsUsed /\ wanted # {} /\ wanted \subseteq TargetsOf(sector)
    /\ IF Resolved(Flow(sector))
       THEN Begin([kind |-> "destinations", wanted |-> wanted],
                  Retained(Flow(sector), wanted), ClearsAt(Flow(sector), wanted), wanted)
       ELSE /\ outcome' = "corrupt"
            /\ UNCHANGED <<span, placed, base, released, free, stop, program, execVars>>

-----------------------------------------------------------------------------
(* Execution. *)

Of(range) == range.base..(Stop(range) - 1)

Row == plan[rows[pc]]

\* The terms of the parents are all there, in every plane the row reads.
ReadsAreFinished(r) ==
    \A k \in DOMAIN r.reads : \A p \in Of(r.reads[k]) : planes[p] = Finished(r.parents[k])

TermOf(r) == IF ReadsAreFinished(r) THEN r.id ELSE -1

\* The clear of a stage belongs to its first contribution group.
StartsStage(i) ==
    /\ plan[rows[i]].role = "contribution"
    /\ \A j \in 1..(i - 1) :
          plan[rows[j]].role = "contribution" => plan[rows[j]].stage # plan[rows[i]].stage

Cleared ==
    IF StartsStage(pc)
    THEN [p \in DOMAIN planes |->
             IF \E range \in clears[Row.stage] : p \in Of(range) THEN Zero ELSE planes[p]]
    ELSE planes

Overwrite(held, range, value(_)) ==
    [p \in DOMAIN held |-> IF p \in Of(range) THEN value(p) ELSE held[p]]

Step == pc' = pc + 1 /\ UNCHANGED <<layoutVars, program, plan, selection, rows, clears>>

Runs(role) == pc \in DOMAIN rows /\ Row.role = role /\ Step

FillSource ==
    /\ Runs("source")
    /\ LET fill(p) == Finished(Row.into)
       IN  planes' = Overwrite(planes, Row.dest, fill)
    /\ UNCHANGED amplitude

Contribute ==
    /\ Runs("contribution") /\ Row.executor # NoExecutor
    /\ LET sum(p) == Added(IF Row.initialize THEN Zero ELSE Cleared[p], TermOf(Row))
       IN  planes' = Overwrite(Cleared, Row.dest, sum)
    /\ UNCHANGED amplitude

\* execute_certified_reuse_rows: a zero factor writes zeros without reading.
CopyCertified ==
    /\ Runs("contribution") /\ Row.executor = NoExecutor
    /\ LET copied(p) == IF program.copies[Row.into] = Row.into THEN Zero
                        ELSE Cleared[Row.reads[1].base + (p - Row.dest.base)]
       IN  planes' = Overwrite(Cleared, Row.dest, copied)
    /\ UNCHANGED amplitude

Finalize ==
    /\ Runs("finalization")
    /\ LET finish(p) == IF planes[p].final \/ -1 \in planes[p].terms THEN Stale
                        ELSE [planes[p] EXCEPT !.final = TRUE]
       IN  planes' = Overwrite(planes, Row.dest, finish)
    /\ UNCHANGED amplitude

Close ==
    /\ Runs("closure")
    /\ amplitude' = [amplitude EXCEPT ![Row.dest] = Added(@, TermOf(Row))]
    /\ UNCHANGED planes

-----------------------------------------------------------------------------
ExecInit ==
    /\ program \in Programs
    /\ InitLayout(Lifetimes(program))
    /\ plan = <<>> /\ selection = Unselected /\ rows = <<>>
    /\ clears = <<>> /\ pc = 0 /\ planes = <<>> /\ amplitude = <<>>

ExecNext ==
    \/ LayoutNext /\ UNCHANGED <<program, execVars>>
    \/ Lower
    \/ TileOfAll
    \/ \E sector \in SectorsUsed :
          \/ TileOfSector(sector)
          \/ \E wanted \in SUBSET TargetsOf(sector) : TileOfDestinations(sector, wanted)
    \/ FillSource \/ Contribute \/ CopyCertified \/ Finalize \/ Close

ExecSpec == ExecInit /\ [][ExecNext]_vars

-----------------------------------------------------------------------------
(***************************************************************************)
(* Every amplitude a tile was asked for is the sum of exactly its closure  *)
(* terms, and nothing an earlier tile left in the arena reaches it.        *)
(***************************************************************************)
AmplitudesAreReference ==
    pc > Len(rows) =>
        \A d \in selection.wanted :
            amplitude[d].terms = {t.id : t \in {u \in program.closures : u.destination = d}}

(***************************************************************************)
(* The currents a destination selection resolves from addresses are those  *)
(* the program's terms and certified relations depend on, and resolving    *)
(* never fails on a lowered plan.                                          *)
(***************************************************************************)
DependsOn(wanted) ==
    LET parents(c) == IF IsCopy(c) THEN {program.copies[c]}
                      ELSE UNION {ToSet(r.parents) : r \in Into(c)}
        reach[n \in 0..Cardinality(Values)] ==
            IF n = 0
            THEN UNION {ToSet(t.parents) : t \in {u \in program.closures : u.destination \in wanted}}
            ELSE LET known == reach[n - 1] IN known \cup UNION {parents(c) : c \in known}
    IN  reach[Cardinality(Values)]

SelectionIsTheDependency ==
    /\ outcome # "corrupt"
    /\ selection.kind = "destinations" =>
          {plan[rows[i]].into : i \in {j \in DOMAIN rows : plan[rows[j]].role # "closure"}}
              = DependsOn(selection.wanted)
=============================================================================
