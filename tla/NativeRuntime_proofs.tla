------------------------ MODULE NativeRuntime_proofs ------------------------
(***************************************************************************)
(* Proofs about three parts of a native runtime (NativeRuntime).           *)
(*                                                                         *)
(* Selectors (Points).  For any artifact, any requests and any number of   *)
(* calls, a finished plan groups the rows of its call by their keys, in    *)
(* the order of first rows, and every call keeps PointPromise.  The        *)
(* invariant has one part for each loop of the planner: what it has of the *)
(* rows it has passed.                                                     *)
(*                                                                         *)
(* Parameters (Params).  For any tree of runtimes, any parameters and any  *)
(* number of updates and evaluations, an update reaches all runtimes or    *)
(* none, what was computed is of the values held, the mass classes are     *)
(* kept, and no sector selector outlives its evaluation.                   *)
(*                                                                         *)
(* Companion.  For any helicities, addresses, tiles and batches, the       *)
(* tables of the kernels are of the retained family, and a call answers    *)
(* its own request.                                                        *)
(***************************************************************************)
EXTENDS NativeRuntime, SequenceTheorems, FiniteSetTheorems, TLAPS

----------------------------------------------------------------------------
(* The per-point selectors: their inductive invariant                      *)

PointsAssumption == Points!SizeAssumption /\ Points!ListAssumption

Rows == 1..request.points

\* The rows are grouped by these keys.
Keys == [i \in Rows |-> Points!Key(i)]

\* Of the first n rows, those with a key.
With(keys, key, n) == {i \in 1..n : keys[i] = key}

\* The runs found so far are apart, of different keys, and cover the first n rows.
Runs(keys, parts, n) ==
    /\ \A j \in DOMAIN parts :
          /\ parts[j].gathered = FALSE /\ parts[j].start < parts[j].end /\ parts[j].end <= n
          /\ \A i \in (parts[j].start + 1)..parts[j].end : keys[i] = parts[j].key
    /\ \A j, k \in DOMAIN parts :
          j < k => parts[j].end <= parts[k].start /\ parts[j].key # parts[k].key
    /\ \A i \in 1..n : \E j \in DOMAIN parts : i \in (parts[j].start + 1)..parts[j].end

\* There is one group for each key of the first n rows, in the order of their
\* first rows.
Groups(keys, parts, n) ==
    /\ \A j \in DOMAIN parts : parts[j].gathered = TRUE /\ With(keys, parts[j].key, n) # {}
    /\ \A j, k \in DOMAIN parts : j < k =>
          /\ parts[j].key # parts[k].key
          /\ \A i \in With(keys, parts[k].key, n) : \E h \in With(keys, parts[j].key, n) :
                 h < i
    /\ \A i \in 1..n : \E j \in DOMAIN parts : keys[i] = parts[j].key

\* The rows of the groups before group j.
Before(keys, parts, j, n) == {i \in 1..n : \E k \in 1..(j - 1) : keys[i] = parts[k].key}

\* Each group has a number for each row.
Counted(keys, parts, numbers, n) ==
    /\ DOMAIN numbers = DOMAIN parts
    /\ \A j \in DOMAIN parts : numbers[j] = Cardinality(With(keys, parts[j].key, n))

\* The first m groups have places of their own for all their rows.
Laid(keys, parts, m, n) ==
    /\ \A j \in 1..m : /\ parts[j].end =
                              parts[j].start + Cardinality(With(keys, parts[j].key, n))
                       /\ parts[j].end <= n
    /\ \A j, k \in 1..m : j < k => parts[j].end <= parts[k].start

\* The places of a group up to its cursor hold those of its rows that are among
\* the first n, in order.
Placed(keys, group, cursor, placed, n) ==
    /\ cursor = group.start + Cardinality(With(keys, group.key, n))
    /\ \A p \in (group.start + 1)..cursor : placed[p] \in With(keys, group.key, n)
    /\ \A p, q \in (group.start + 1)..cursor : p < q => placed[p] < placed[q]
    /\ \A i \in With(keys, group.key, n) : \E p \in (group.start + 1)..cursor :
           placed[p] = i

RowsIn(placed, p) == IF p.gathered THEN SubSeq(placed, p.start + 1, p.end)
                     ELSE [i \in 1..(p.end - p.start) |-> p.start + i]

\* The plan groups n rows, as StablePartitions has it.
Stable(keys, parts, placed, n) ==
    /\ \A j \in DOMAIN parts :
          LET rows == RowsIn(placed, parts[j]) IN
          /\ rows # << >> /\ parts[j].end <= n
          /\ Points!Range(rows) = With(keys, parts[j].key, n)
          /\ \A p, q \in DOMAIN rows : p < q => rows[p] < rows[q]
    /\ \A i \in 1..n : \E j \in DOMAIN parts : parts[j].key = keys[i]
    /\ \A j, k \in DOMAIN parts :
          j < k => RowsIn(placed, parts[j])[1] < RowsIn(placed, parts[k])[1]

Entry == [ids : Seq(Nat), selected : SUBSET Nat]
PartitionType == [key : [Points!Axis -> Nat \cup {None}], gathered : BOOLEAN,
         start : Nat, end : Nat]

Outside == {"idle", "admit"}
Planning == {"runs", "count", "layout", "place"}

\* A cached set is that of its list.
CacheTyped ==
    /\ sets \in [Points!Axis -> Seq(Entry)]
    /\ \A a \in Points!Axis :
          /\ Len(sets[a]) <= CacheSize
          /\ \A e \in DOMAIN sets[a] : sets[a][e].selected = Points!Range(sets[a][e].ids)

PlannerTyped ==
    /\ partitions \in Seq(PartitionType) /\ counts \in Seq(Nat)
    /\ \A j \in DOMAIN partitions :
          partitions[j].start <= MaxPoints /\ partitions[j].end <= MaxPoints
    /\ gatheredRows \in Seq(0..MaxPoints) /\ Len(gatheredRows) <= MaxPoints

\* The lists of at most as many items as a batch may have points.
Bounded(list) == \E n \in 0..MaxPoints : list = [i \in 1..n |-> list[i]]

Typed ==
    /\ phase \in Outside \cup Planning \cup {"build", "execute"}
    /\ calls \in 0..MaxCalls
    /\ phase \in Outside => crossing = TRUE /\ lookup = FALSE
    /\ phase \notin Outside => crossing = FALSE /\ lookup = TRUE
    /\ CacheTyped /\ PlannerTyped /\ Bounded(gatheredBatch) /\ Bounded(totals)

\* Nothing has been written to the output before a call ends.
Asked == phase # "idle" => request \in Points!Request /\ output = [i \in Rows |-> Unset]

\* The global selections that were resolved are those of the request.
Admitted ==
    phase \notin Outside =>
        /\ request.points # 0
        /\ \A a \in Points!Axis :
              IF request.ids[a] = None THEN chosen[a] = None
              ELSE /\ request.by[a] = None
                   /\ request.ids[a] # << >> /\ Points!IsInjective(request.ids[a])
                   /\ chosen[a] = Points!Range(request.ids[a])

\* Past the look at the selectors: they are one for each row, and the plan is of
\* their kind.
Planned ==
    phase \in Planning \cup {"execute"} =>
        /\ \A a \in Points!Axis :
              request.by[a] # None => request.by[a] \in [Rows -> 0..(Components[a] - 1)]
        /\ plan \in {"none", "homogeneous", "partitioned"}
        /\ plan = "none" <=> ~Points!PerPoint
        /\ plan = "homogeneous" => Points!Homogeneous
        /\ plan = "partitioned" \/ (plan = "homogeneous" /\ LaneOf[scene] # "generic")
              => DOMAIN totals = Rows
        /\ phase \in Planning => plan = "partitioned"

\* What is known in each loop of the planner.
Running ==
    phase = "runs" =>
        /\ index \in Rows /\ from \in 0..(index - 1) /\ Runs(Keys, partitions, from)
        /\ \A i \in (from + 1)..index : Keys[i] = Keys[from + 1]

Counting ==
    phase = "count" =>
        /\ index \in Rows /\ from = 0
        /\ Groups(Keys, partitions, index - 1)
               /\ Counted(Keys, partitions, counts, index - 1)

LayingOut ==
    phase = "layout" =>
        /\ index \in DOMAIN partitions /\ from \in 0..request.points
        /\ DOMAIN cursors = DOMAIN partitions
        /\ Groups(Keys, partitions, request.points)
        /\ Counted(Keys, partitions, counts, request.points)
        /\ Laid(Keys, partitions, index - 1, request.points)
        /\ from = Cardinality(Before(Keys, partitions, index, request.points))
        /\ \A j \in 1..(index - 1) :
               partitions[j].end <= from /\ cursors[j] = partitions[j].start

Placing ==
    phase = "place" =>
        /\ index \in Rows /\ DOMAIN gatheredRows = Rows
               /\ DOMAIN cursors = DOMAIN partitions
        /\ Groups(Keys, partitions, request.points)
        /\ Laid(Keys, partitions, Len(partitions), request.points)
        /\ \A j \in DOMAIN partitions :
              Placed(Keys, partitions[j], cursors[j], gatheredRows, index - 1)

\* A finished plan is a good one, and the rows of the partitions before the
\* present one have their values.
Executing ==
    phase = "execute" /\ plan = "partitioned" =>
        /\ Stable(Keys, partitions, gatheredRows, request.points)
        /\ index \in 1..(Len(partitions) + 1)
        /\ \A j \in 1..(index - 1) : \A i \in Rows :
              Keys[i] = partitions[j].key => totals[i] = Points!Wanted(request, calls, i)

PointsIInv ==
    /\ Typed /\ Asked /\ Admitted /\ Planned
    /\ Running /\ Counting /\ LayingOut /\ Placing /\ Executing

----------------------------------------------------------------------------
(* What the loops of the planner do to their data.                         *)

\* One more row.
LEMMA OneMoreRow ==
    ASSUME NEW keys, NEW n \in Nat
    PROVE  \A key : With(keys, key, n + 1) =
                      IF keys[n + 1] = key THEN With(keys, key, n) \cup {n + 1}
                      ELSE With(keys, key, n)
  <1>1. 1..(n + 1) = 1..n \cup {n + 1}
    OBVIOUS
  <1> QED
    BY <1>1 DEF With

LEMMA RowsOfAKey ==
    ASSUME NEW keys, NEW key, NEW n \in Nat
    PROVE  /\ IsFiniteSet(With(keys, key, n)) /\ Cardinality(With(keys, key, n)) \in 0..n
           /\ With(keys, key, n) \subseteq 1..n
  <1>1. With(keys, key, n) \subseteq 1..n /\ IsFiniteSet(1..n) /\ Cardinality(1..n) = n
    BY FS_Interval DEF With
  <1> QED
    BY <1>1, FS_Subset, FS_CardinalityType

LEMMA CountOneMore ==
    ASSUME NEW keys, NEW n \in Nat
    PROVE  \A key : Cardinality(With(keys, key, n + 1)) =
                      Cardinality(With(keys, key, n)) + IF keys[n + 1] = key THEN 1 ELSE 0
  <1> SUFFICES ASSUME NEW key
               PROVE  Cardinality(With(keys, key, n + 1)) =
                        Cardinality(With(keys, key, n)) + IF keys[n + 1] = key THEN 1 ELSE 0
    OBVIOUS
  <1>1. /\ IsFiniteSet(With(keys, key, n)) /\ n + 1 \notin With(keys, key, n)
        /\ Cardinality(With(keys, key, n)) \in Nat
    BY RowsOfAKey
  <1>2. CASE keys[n + 1] = key
    <2>1. With(keys, key, n + 1) = With(keys, key, n) \cup {n + 1}
      BY <1>2, OneMoreRow
    <2> QED
      BY <1>1, <1>2, <2>1, FS_AddElement
  <1>3. CASE keys[n + 1] # key
    <2>1. With(keys, key, n + 1) = With(keys, key, n)
      BY <1>3, OneMoreRow
    <2> QED
      BY <1>1, <1>3, <2>1
  <1> QED
    BY <1>2, <1>3

\* More rows only add to the rows with a key.
LEMMA MoreRows ==
    ASSUME NEW keys, NEW key, NEW m \in Nat, NEW n \in Nat, m <= n
    PROVE  /\ With(keys, key, m) \subseteq With(keys, key, n)
           /\ Cardinality(With(keys, key, m)) <= Cardinality(With(keys, key, n))
  <1>1. With(keys, key, m) \subseteq With(keys, key, n)
    BY DEF With
  <1> QED
    BY <1>1, RowsOfAKey, FS_Subset

\* A run whose key no run had before it.
LEMMA OneMoreRun ==
    ASSUME NEW keys, NEW parts \in Seq(PartitionType), NEW from_ \in Nat, NEW to \in Nat,
           from_ < to,
           Runs(keys, parts, from_), NEW g \in PartitionType,
           g.gathered = FALSE, g.start = from_, g.end = to,
           \A i \in (from_ + 1)..to : keys[i] = g.key,
           \A j \in DOMAIN parts : parts[j].key # g.key
    PROVE  Runs(keys, Append(parts, g), to)
  <1> DEFINE more == Append(parts, g)
  <1>1. /\ DOMAIN more = DOMAIN parts \cup {Len(parts) + 1} /\ more[Len(parts) + 1] = g
        /\ \A j \in DOMAIN parts : more[j] = parts[j] /\ j < Len(parts) + 1 /\ j \in Nat
        /\ DOMAIN parts = 1..Len(parts) /\ Len(parts) \in Nat
    OBVIOUS
  <1>2. \A j \in DOMAIN parts : parts[j].start \in Nat /\ parts[j].end \in Nat
    <2>1. \A j \in DOMAIN parts : parts[j] \in PartitionType
      OBVIOUS
    <2> QED
      BY <2>1 DEF PartitionType
  <1> HIDE DEF more
  <1>3. \A j \in DOMAIN more :
          /\ more[j].gathered = FALSE /\ more[j].start < more[j].end /\ more[j].end <= to
          /\ \A i \in (more[j].start + 1)..more[j].end : keys[i] = more[j].key
    BY <1>1, <1>2 DEF Runs
  <1>4. \A j, k \in DOMAIN more :
          j < k => more[j].end <= more[k].start /\ more[j].key # more[k].key
    BY <1>1, <1>2 DEF Runs
  <1>5. ASSUME NEW i \in 1..to
        PROVE \E j \in DOMAIN more : i \in (more[j].start + 1)..more[j].end
    <2>1. CASE i <= from_
      <3>1. PICK j \in DOMAIN parts : i \in (parts[j].start + 1)..parts[j].end
        BY <2>1 DEF Runs
      <3> QED
        BY <1>1, <3>1
    <2>2. CASE ~(i <= from_)
      BY <1>1, <2>2
    <2> QED
      BY <2>1, <2>2
  <1> QED
    BY <1>3, <1>4, <1>5 DEF Runs, more

LEMMA NoRows ==
    ASSUME NEW keys
    PROVE  /\ Runs(keys, << >>, 0) /\ Groups(keys, << >>, 0)
                  /\ Counted(keys, << >>, << >>, 0)
  BY DEF Runs, Groups, Counted

\* A row of a group that there is.
LEMMA OneMoreOfGroup ==
    ASSUME NEW keys, NEW parts \in Seq(PartitionType), NEW numbers \in Seq(Nat),
           NEW n \in Nat,
           Groups(keys, parts, n), Counted(keys, parts, numbers, n),
           NEW j \in DOMAIN parts, keys[n + 1] = parts[j].key
    PROVE  /\ Groups(keys, parts, n + 1)
           /\ Counted(keys, parts, [numbers EXCEPT ![j] = @ + 1], n + 1)
  <1>1. DOMAIN parts = 1..Len(parts) /\ Len(parts) \in Nat
    OBVIOUS
  <1>2. \A k \in DOMAIN parts : k # j => parts[k].key # parts[j].key
    <2> SUFFICES ASSUME NEW k \in DOMAIN parts, k # j PROVE parts[k].key # parts[j].key
      OBVIOUS
    <2>1. \A g, h \in DOMAIN parts : g < h => parts[g].key # parts[h].key
      BY DEF Groups
    <2>2. k < j \/ j < k
      BY <1>1
    <2> QED
      BY <2>1, <2>2
  <1>3. \A k \in DOMAIN parts :
          With(keys, parts[k].key, n + 1) =
            IF k = j THEN With(keys, parts[k].key, n) \cup {n + 1}
                ELSE With(keys, parts[k].key, n)
    <2> SUFFICES ASSUME NEW k \in DOMAIN parts
                 PROVE  With(keys, parts[k].key, n + 1) =
                          IF k = j THEN With(keys, parts[k].key, n) \cup {n + 1}
                          ELSE With(keys, parts[k].key, n)
      OBVIOUS
    <2>1. k = j <=> keys[n + 1] = parts[k].key
      BY <1>2
    <2> QED
      BY <2>1, OneMoreRow
  <1>4. \A k \in DOMAIN parts :
          Cardinality(With(keys, parts[k].key, n + 1)) =
            Cardinality(With(keys, parts[k].key, n)) + IF k = j THEN 1 ELSE 0
    <2> SUFFICES ASSUME NEW k \in DOMAIN parts
                 PROVE  Cardinality(With(keys, parts[k].key, n + 1)) =
                          Cardinality(With(keys, parts[k].key, n)) + IF k = j THEN 1 ELSE 0
      OBVIOUS
    <2>1. k = j <=> keys[n + 1] = parts[k].key
      BY <1>2
    <2> QED
      BY <2>1, CountOneMore
  <1>5. \A k \in DOMAIN parts : \A i \in With(keys, parts[k].key, n) : i \in 1..n
    BY DEF With
  <1>6. Counted(keys, parts, [numbers EXCEPT ![j] = @ + 1], n + 1)
    BY <1>4 DEF Counted
  <1>7. ASSUME NEW h \in DOMAIN parts, NEW k \in DOMAIN parts, h < k,
               NEW i \in With(keys, parts[k].key, n + 1)
        PROVE  \E g \in With(keys, parts[h].key, n + 1) : g < i
    <2>1. PICK x \in With(keys, parts[k].key, n) : x <= i
      <3>1. CASE i \in With(keys, parts[k].key, n)
        <4>1. i \in Int
          BY <1>5, <3>1
        <4> QED
          BY <4>1, <3>1
      <3>2. CASE i = n + 1
        <4>1. PICK x \in With(keys, parts[k].key, n) : TRUE
          BY DEF Groups
        <4> QED
          BY <1>5, <4>1, <3>2
      <3> QED
        BY <1>3, <3>1, <3>2
    <2>2. PICK g \in With(keys, parts[h].key, n) : g < x
      BY <1>7, <2>1 DEF Groups
    <2>3. g \in 1..n /\ x \in 1..n /\ i \in Int
      BY <1>5, <2>1, <2>2 DEF With
    <2>4. g \in With(keys, parts[h].key, n + 1)
      BY <1>3, <2>2
    <2> QED
      BY <2>1, <2>2, <2>3, <2>4
  <1>8. \A k \in DOMAIN parts :
            parts[k].gathered = TRUE /\ With(keys, parts[k].key, n + 1) # {}
    BY <1>3 DEF Groups
  <1>9. \A i \in 1..(n + 1) : \E k \in DOMAIN parts : keys[i] = parts[k].key
    BY DEF Groups
  <1> QED
    BY <1>6, <1>7, <1>8, <1>9 DEF Groups

\* A row with a new key opens a group.
LEMMA OneMoreGroup ==
    ASSUME NEW keys, NEW parts \in Seq(PartitionType), NEW numbers \in Seq(Nat),
           NEW n \in Nat,
           Groups(keys, parts, n), Counted(keys, parts, numbers, n),
           NEW g \in PartitionType, g.gathered = TRUE, g.key = keys[n + 1],
           \A j \in DOMAIN parts : parts[j].key # g.key
    PROVE  /\ Groups(keys, Append(parts, g), n + 1)
           /\ Counted(keys, Append(parts, g), Append(numbers, 1), n + 1)
  <1> DEFINE more == Append(parts, g)
             last == Len(parts) + 1
  <1>1. /\ DOMAIN more = DOMAIN parts \cup {last} /\ more[last] = g
        /\ \A j \in DOMAIN parts : more[j] = parts[j] /\ j < last /\ j \in Nat
        /\ DOMAIN parts = 1..Len(parts) /\ Len(parts) \in Nat /\ last \in Nat
    OBVIOUS
  <1>2. /\ DOMAIN Append(numbers, 1) = DOMAIN more /\ Append(numbers, 1)[last] = 1
        /\ \A j \in DOMAIN parts : Append(numbers, 1)[j] = numbers[j]
    <2>1. Len(numbers) = Len(parts) /\ DOMAIN numbers = DOMAIN parts
      BY DEF Counted
    <2> QED
      BY <1>1, <2>1
  <1> HIDE DEF more, last
  <1>3. With(keys, g.key, n) = {}
    BY DEF With, Groups
  <1>4. With(keys, g.key, n + 1) = {n + 1} /\ Cardinality(With(keys, g.key, n + 1)) = 1
    <2>1. With(keys, g.key, n + 1) = {n + 1}
      BY <1>3, OneMoreRow
    <2> QED
      BY <2>1, FS_Singleton
  <1>5. \A j \in DOMAIN parts :
            With(keys, parts[j].key, n + 1) = With(keys, parts[j].key, n)
    BY OneMoreRow
  <1>6. Counted(keys, more, Append(numbers, 1), n + 1)
    BY <1>1, <1>2, <1>4, <1>5 DEF Counted
  <1>7. \A j \in DOMAIN parts :
            With(keys, parts[j].key, n) # {} /\ With(keys, parts[j].key, n) \subseteq 1..n
    BY DEF Groups, With
  <1>8. ASSUME NEW h \in DOMAIN more, NEW k \in DOMAIN more, h < k
        PROVE  /\ more[h].key # more[k].key
               /\ \A i \in With(keys, more[k].key, n + 1) :
                    \E x \in With(keys, more[h].key, n + 1) : x < i
    <2>1. h \in DOMAIN parts
      BY <1>1, <1>8
    <2>2. CASE k \in DOMAIN parts
      <3>1. /\ parts[h].key # parts[k].key
            /\ \A i \in With(keys, parts[k].key, n) :
                 \E x \in With(keys, parts[h].key, n) : x < i
        BY <1>8, <2>1, <2>2 DEF Groups
      <3> QED
        BY <1>1, <1>5, <2>1, <2>2, <3>1
    <2>3. CASE k = last
      <3>1. \A x \in With(keys, parts[h].key, n) : x < n + 1
        BY <2>1 DEF With
      <3> QED
        BY <1>1, <1>4, <1>5, <1>7, <2>1, <2>3, <3>1
    <2> QED
      BY <1>1, <2>2, <2>3
  <1>9. \A j \in DOMAIN more :
            more[j].gathered = TRUE /\ With(keys, more[j].key, n + 1) # {}
    <2>1. \A j \in DOMAIN parts :
              parts[j].gathered = TRUE /\ With(keys, parts[j].key, n) # {}
      BY DEF Groups
    <2>2. more[last].gathered = TRUE /\ With(keys, more[last].key, n + 1) # {}
      BY <1>1, <1>4
    <2>3. ASSUME NEW j \in DOMAIN parts
          PROVE  more[j].gathered = TRUE /\ With(keys, more[j].key, n + 1) # {}
      BY <1>1, <1>5, <2>1
    <2> QED
      BY <1>1, <2>2, <2>3
  <1>10. \A i \in 1..(n + 1) : \E j \in DOMAIN more : keys[i] = more[j].key
    BY <1>1 DEF Groups
  <1> QED
    BY <1>6, <1>8, <1>9, <1>10 DEF Groups, more

----------------------------------------------------------------------------
(* The layout of the groups and the places of their rows.                  *)

\* The rows before a group, with its own, are those before the next.
LEMMA BeforeTheNext ==
    ASSUME NEW keys, NEW parts \in Seq(PartitionType), NEW n \in Nat,
           NEW m \in DOMAIN parts,
           \A j, k \in DOMAIN parts : j < k => parts[j].key # parts[k].key
    PROVE  /\ Cardinality(Before(keys, parts, m, n)) \in 0..n
           /\ Cardinality(Before(keys, parts, m + 1, n)) \in 0..n
           /\ Cardinality(Before(keys, parts, m + 1, n)) =
                Cardinality(Before(keys, parts, m, n)) +
                Cardinality(With(keys, parts[m].key, n))
  <1> DEFINE old == Before(keys, parts, m, n)
             own == With(keys, parts[m].key, n)
             new == Before(keys, parts, m + 1, n)
  <1>1. m \in Nat /\ DOMAIN parts = 1..Len(parts) /\ Len(parts) \in Nat
    OBVIOUS
  <1>2. old \subseteq 1..n /\ own \subseteq 1..n /\ new \subseteq 1..n
    BY DEF Before, With
  <1>3. new = old \cup own
    <2>1. 1..((m + 1) - 1) = 1..(m - 1) \cup {m}
      BY <1>1
    <2> QED
      BY <2>1 DEF Before, With
  <1>4. old \cap own = {}
    <2> SUFFICES ASSUME NEW i \in old, i \in own PROVE FALSE
      OBVIOUS
    <2>1. PICK k \in 1..(m - 1) : keys[i] = parts[k].key
      BY DEF Before
    <2>2. keys[i] = parts[m].key
      BY DEF With
    <2>3. k \in DOMAIN parts /\ k < m
      BY <1>1, <2>1
    <2> QED
      BY <2>1, <2>2, <2>3
  <1>5. IsFiniteSet(1..n) /\ Cardinality(1..n) = n
    BY FS_Interval
  <1>6. /\ IsFiniteSet(old) /\ IsFiniteSet(own) /\ IsFiniteSet(new)
        /\ Cardinality(old) \in Nat /\ Cardinality(own) \in Nat /\ Cardinality(new) \in Nat
        /\ Cardinality(old) <= n /\ Cardinality(new) <= n
    BY <1>2, <1>5, FS_Subset, FS_CardinalityType
  <1> HIDE DEF old, own, new
  <1>7. Cardinality(new) = Cardinality(old) + Cardinality(own)
    <2>1. Cardinality(old \cup own) =
            Cardinality(old) + Cardinality(own) - Cardinality(old \cap own)
      BY <1>6, FS_Union
    <2>2. Cardinality(old \cap own) = 0
      BY <1>4, FS_EmptySet
    <2> QED
      BY <1>3, <1>6, <2>1, <2>2
  <1> QED
    BY <1>6, <1>7 DEF old, own, new

\* A group gets its place.
LaidOut(parts, m, start, end) ==
    [parts EXCEPT ![m] = Points!Partition(@.key, @.gathered, start, end)]

Moved(parts, more, m, start, end) ==
    /\ DOMAIN more = DOMAIN parts /\ \A j \in DOMAIN parts : j # m => more[j] = parts[j]
    /\ more[m].start = start /\ more[m].end = end
    /\ more[m].key = parts[m].key /\ more[m].gathered = parts[m].gathered

LEMMA LaidOutIs ==
    ASSUME NEW parts \in Seq(PartitionType), NEW m \in DOMAIN parts, NEW a \in Nat,
           NEW b \in Nat
    PROVE  LET more == LaidOut(parts, m, a, b) IN
           more \in Seq(PartitionType) /\ Moved(parts, more, m, a, b)
  <1> DEFINE g == Points!Partition(parts[m].key, parts[m].gathered, a, b)
             more == LaidOut(parts, m, a, b)
  <1>1. parts[m] \in PartitionType /\ m \in 1..Len(parts)
    OBVIOUS
  <1>2. g \in PartitionType
    BY <1>1 DEF PartitionType, Points!Partition
  <1>3. /\ g.start = a /\ g.end = b /\ g.key = parts[m].key
        /\ g.gathered = parts[m].gathered
    BY DEF Points!Partition
  <1>4. more = [parts EXCEPT ![m] = g]
    BY DEF LaidOut
  <1> HIDE DEF g, more
  <1>5. [parts EXCEPT ![m] = g] \in Seq(PartitionType)
    BY <1>1, <1>2, ExceptSeq
  <1>6. /\ DOMAIN more = DOMAIN parts /\ more[m] = g
        /\ \A j \in DOMAIN parts : j # m => more[j] = parts[j]
    BY <1>4
  <1> QED
    BY <1>3, <1>4, <1>5, <1>6 DEF Moved, more

\* The first m groups are laid out, and the next one starts after them.
LaidNext(keys, numbers, parts, m, next, n) ==
    /\ Groups(keys, parts, n) /\ Counted(keys, parts, numbers, n)
    /\ Laid(keys, parts, m, n)
    /\ next \in 0..n /\ next = Cardinality(Before(keys, parts, m + 1, n))
    /\ \A j \in 1..m : parts[j].end <= next

\* One more group is laid out.
LEMMA OneMoreLaid ==
    ASSUME NEW keys, NEW parts \in Seq(PartitionType), NEW numbers \in Seq(Nat),
           NEW n \in Nat,
           NEW m \in DOMAIN parts, NEW from_ \in Nat,
           Groups(keys, parts, n), Counted(keys, parts, numbers, n),
           Laid(keys, parts, m - 1, n), from_ = Cardinality(Before(keys, parts, m, n)),
           \A j \in 1..(m - 1) : parts[j].end <= from_,
           NEW next, next = from_ + numbers[m], NEW more, Moved(parts, more, m, from_, next)
    PROVE  LaidNext(keys, numbers, more, m, next, n)
  <1>0. next = from_ + numbers[m]
    OBVIOUS
  <1>1. /\ m \in Nat /\ m >= 1 /\ (m + 1) - 1 = m
        /\ \A k \in 1..m : k \in DOMAIN parts /\ k \in Nat /\ k <= m
        /\ \A k \in 1..(m - 1) : k \in DOMAIN parts /\ k < m
    <2>1. DOMAIN parts = 1..Len(parts) /\ Len(parts) \in Nat
      OBVIOUS
    <2> QED
      BY <2>1
  <1>2. numbers[m] = Cardinality(With(keys, parts[m].key, n)) /\ numbers[m] \in Nat
    BY RowsOfAKey DEF Counted
  <1>3. \A j \in DOMAIN parts : parts[j] \in PartitionType
    OBVIOUS
  <1>8. \A j \in DOMAIN parts :
          more[j].key = parts[j].key /\ more[j].gathered = parts[j].gathered
    BY DEF Moved
  <1>7. /\ DOMAIN more = DOMAIN parts /\ more[m].start = from_ /\ more[m].end = next
        /\ \A j \in DOMAIN parts : j # m => more[j] = parts[j]
    BY DEF Moved
  <1>9. Groups(keys, more, n) /\ Counted(keys, more, numbers, n)
    <2>1. \A j \in DOMAIN parts :
              parts[j].gathered = TRUE /\ With(keys, parts[j].key, n) # {}
      BY DEF Groups
    <2>2. \A j \in DOMAIN parts : more[j].gathered = TRUE /\ With(keys, more[j].key, n) # {}
      BY <1>8, <2>1
    <2>3. \A j, k \in DOMAIN parts : j < k =>
            /\ more[j].key # more[k].key
            /\ \A i \in With(keys, more[k].key, n) : \E h \in With(keys, more[j].key, n) :
                   h < i
      <3> SUFFICES ASSUME NEW j \in DOMAIN parts, NEW k \in DOMAIN parts, j < k
                   PROVE  /\ more[j].key # more[k].key
                          /\ \A i \in With(keys, more[k].key, n) :
                               \E h \in With(keys, more[j].key, n) : h < i
        OBVIOUS
      <3>1. /\ parts[j].key # parts[k].key
            /\ \A i \in With(keys, parts[k].key, n) :
                   \E h \in With(keys, parts[j].key, n) : h < i
        BY DEF Groups
      <3>2. more[j].key = parts[j].key /\ more[k].key = parts[k].key
        BY <1>8
      <3> QED
        BY <3>1, <3>2
    <2>4. \A i \in 1..n : \E j \in DOMAIN parts : keys[i] = more[j].key
      BY <1>8 DEF Groups
    <2>5. Groups(keys, more, n)
      BY <1>7, <2>2, <2>3, <2>4 DEF Groups
    <2>6. Counted(keys, more, numbers, n)
      BY <1>7, <1>8 DEF Counted
    <2> QED
      BY <2>5, <2>6
  <1>10. Before(keys, more, m + 1, n) = Before(keys, parts, m + 1, n)
    <2>1. \A k \in 1..((m + 1) - 1) : more[k].key = parts[k].key
      BY <1>1, <1>8
    <2> QED
      BY <2>1 DEF Before
  <1>11. \A j, k \in DOMAIN parts : j < k => parts[j].key # parts[k].key
    BY DEF Groups
  <1>12. /\ next \in 0..n
         /\ next = Cardinality(Before(keys, more, m + 1, n))
    <2>1. /\ Cardinality(Before(keys, parts, m + 1, n)) \in 0..n
          /\ Cardinality(Before(keys, parts, m + 1, n)) =
               Cardinality(Before(keys, parts, m, n)) +
               Cardinality(With(keys, parts[m].key, n))
      BY <1>11, BeforeTheNext
    <2> QED
      BY <1>2, <1>10, <2>1
  <1>13. \A j \in 1..m : j = m \/ j \in 1..(m - 1)
    BY <1>1
  <1>14. \A j \in 1..(m - 1) : more[j] = parts[j] /\ j < m /\ j \in DOMAIN parts
    BY <1>1, <1>7
  <1>15. \A j \in DOMAIN parts : parts[j].start \in Nat /\ parts[j].end \in Nat
    BY <1>3 DEF PartitionType
  <1>16. \A j \in 1..m : more[j].end <= next
    <2>1. \A j \in 1..(m - 1) : more[j].end <= next
      BY <1>2, <1>14, <1>15
    <2> QED
      BY <1>2, <1>7, <1>13, <2>1
  <1>17. Laid(keys, more, m, n)
    <2>1. ASSUME NEW j \in 1..m
          PROVE  /\ more[j].end = more[j].start + Cardinality(With(keys, more[j].key, n))
                 /\ more[j].end <= n
      <3>1. CASE j = m
        <4>1. more[m].key = parts[m].key
          BY <1>8
        <4>2. next <= n
          BY <1>12
        <4> QED
          BY <1>2, <1>7, <3>1, <4>1, <4>2
      <3>2. CASE j \in 1..(m - 1)
        BY <1>14, <3>2 DEF Laid
      <3> QED
        BY <1>13, <3>1, <3>2
    <2>2. ASSUME NEW j \in 1..m, NEW k \in 1..m, j < k
          PROVE  more[j].end <= more[k].start
      <3>1. j \in 1..(m - 1)
        BY <1>1, <2>2
      <3>2. CASE k = m
        BY <1>7, <1>14, <3>1, <3>2
      <3>3. CASE k \in 1..(m - 1)
        BY <1>14, <2>2, <3>1, <3>3 DEF Laid
      <3> QED
        BY <1>13, <3>2, <3>3
    <2> QED
      BY <2>1, <2>2 DEF Laid
  <1> QED
    BY <1>9, <1>12, <1>16, <1>17 DEF LaidNext

\* One more row is placed.
LEMMA OneMorePlaced ==
    ASSUME NEW keys, NEW parts \in Seq(PartitionType), NEW n \in Nat, NEW i \in 1..n,
           Groups(keys, parts, n), Laid(keys, parts, Len(parts), n),
           NEW ends, DOMAIN ends = DOMAIN parts, NEW placed, DOMAIN placed = 1..n,
           \A j \in DOMAIN parts : Placed(keys, parts[j], ends[j], placed, i - 1),
           NEW g \in DOMAIN parts, parts[g].key = keys[i]
    PROVE  /\ ends[g] + 1 \in 1..n
           /\ \A j \in DOMAIN parts :
                Placed(keys, parts[j], [ends EXCEPT ![g] = @ + 1][j],
                       [placed EXCEPT ![ends[g] + 1] = i], i)
  <1>1. /\ i - 1 \in Nat /\ i \in Nat /\ (i - 1) + 1 = i
        /\ DOMAIN parts = 1..Len(parts) /\ Len(parts) \in Nat
    OBVIOUS
  <1>2. \A j \in DOMAIN parts : parts[j] \in PartitionType
    OBVIOUS
  <1>3. \A j \in DOMAIN parts : parts[j].start \in Nat /\ parts[j].end \in Nat
    BY <1>2 DEF PartitionType
  <1>4. \A j \in DOMAIN parts : j # g => parts[j].key # keys[i]
    BY <1>1 DEF Groups
  <1>5. \A key : /\ Cardinality(With(keys, key, i - 1)) \in 0..(i - 1)
                 /\ Cardinality(With(keys, key, i)) \in 0..i
                 /\ Cardinality(With(keys, key, i)) <= Cardinality(With(keys, key, n))
                 /\ Cardinality(With(keys, key, n)) \in Nat
    BY <1>1, RowsOfAKey, MoreRows
  <1>6. \A key :
          /\ With(keys, key, i) =
               IF keys[i] = key THEN With(keys, key, i - 1) \cup {i}
                   ELSE With(keys, key, i - 1)
          /\ Cardinality(With(keys, key, i)) =
               Cardinality(With(keys, key, i - 1)) + IF keys[i] = key THEN 1 ELSE 0
    <2> DEFINE b == i - 1
    <2>1. b \in Nat /\ i = b + 1
      BY <1>1
    <2> HIDE DEF b
    <2>2. \A key :
            /\ With(keys, key, b + 1) =
                 IF keys[b + 1] = key THEN With(keys, key, b) \cup {b + 1}
                     ELSE With(keys, key, b)
            /\ Cardinality(With(keys, key, b + 1)) =
                 Cardinality(With(keys, key, b)) + IF keys[b + 1] = key THEN 1 ELSE 0
      BY <2>1, OneMoreRow, CountOneMore
    <2> QED
      BY <2>1, <2>2 DEF b
  <1>7. \A j \in DOMAIN parts :
          /\ ends[j] = parts[j].start + Cardinality(With(keys, parts[j].key, i - 1))
          /\ parts[j].end = parts[j].start + Cardinality(With(keys, parts[j].key, n))
          /\ parts[j].end <= n
    BY <1>1 DEF Placed, Laid
  <1>8. \A j \in DOMAIN parts : ends[j] \in Nat /\ parts[j].start <= ends[j]
    BY <1>3, <1>5, <1>7
  <1>9. \A j \in DOMAIN parts : ends[j] + (IF j = g THEN 1 ELSE 0) <= parts[j].end
    <2> SUFFICES ASSUME NEW j \in DOMAIN parts
                 PROVE  ends[j] + (IF j = g THEN 1 ELSE 0) <= parts[j].end
      OBVIOUS
    <2>1. keys[i] = parts[j].key <=> j = g
      BY <1>4
    <2>2. Cardinality(With(keys, parts[j].key, i - 1)) + (IF j = g THEN 1 ELSE 0)
            <= Cardinality(With(keys, parts[j].key, n))
      BY <1>5, <1>6, <2>1
    <2> QED
      BY <1>3, <1>5, <1>7, <2>2
  <1>10. ends[g] + 1 \in 1..n
    BY <1>3, <1>7, <1>8, <1>9
  <1> DEFINE spot == ends[g] + 1
             after == [placed EXCEPT ![spot] = i]
             later == [ends EXCEPT ![g] = @ + 1]
  <1>11. /\ after[spot] = i /\ \A p \in 1..n : p # spot => after[p] = placed[p]
         /\ later[g] = ends[g] + 1 /\ \A j \in DOMAIN parts : j # g => later[j] = ends[j]
    BY <1>10
  <1> HIDE DEF after, later
  <1>12. ASSUME NEW j \in DOMAIN parts, j # g
         PROVE Placed(keys, parts[j], later[j], after, i)
    <2>1. spot \notin (parts[j].start + 1)..ends[j]
      <3>1. j < g \/ g < j
        BY <1>1, <1>12
      <3>2. parts[j].end <= parts[g].start \/ parts[g].end <= parts[j].start
        BY <1>1, <3>1 DEF Laid
      <3>3. ends[j] <= parts[j].end /\ parts[g].start <= ends[g]
                /\ ends[g] + 1 <= parts[g].end
        BY <1>3, <1>8, <1>9, <1>12
      <3> QED
        BY <1>3, <1>8, <3>2, <3>3
    <2>2. \A p \in (parts[j].start + 1)..ends[j] : p \in 1..n /\ p # spot
      BY <1>3, <1>7, <1>8, <1>9, <1>12, <2>1
    <2>3. \A p \in (parts[j].start + 1)..ends[j] : after[p] = placed[p]
      BY <1>11, <2>2
    <2>4. With(keys, parts[j].key, i) = With(keys, parts[j].key, i - 1)
      BY <1>4, <1>6, <1>12
    <2>5. later[j] = ends[j]
      BY <1>11, <1>12
    <2>6. Placed(keys, parts[j], ends[j], placed, i - 1)
      OBVIOUS
    <2> QED
      BY <2>3, <2>4, <2>5, <2>6 DEF Placed
  <1>13. Placed(keys, parts[g], later[g], after, i)
    <2> DEFINE lo == parts[g].start + 1
               key == parts[g].key
    <2>1. With(keys, key, i) = With(keys, key, i - 1) \cup {i}
      BY <1>6
    <2>2. later[g] = parts[g].start + Cardinality(With(keys, key, i))
      BY <1>3, <1>5, <1>6, <1>7, <1>11
    <2>3. Placed(keys, parts[g], ends[g], placed, i - 1)
      OBVIOUS
    <2>4. \A p \in lo..later[g] : p = spot \/ (p \in lo..ends[g] /\ p < spot /\ p \in 1..n)
      BY <1>3, <1>8, <1>10, <1>11
    <2>5. spot \in lo..later[g]
      BY <1>3, <1>8, <1>11
    <2>6. \A p \in lo..ends[g] : p \in lo..later[g] /\ p # spot /\ p \in 1..n
      BY <1>3, <1>8, <1>10, <1>11
    <2>7. \A p \in lo..ends[g] :
              after[p] = placed[p] /\ placed[p] \in With(keys, key, i - 1)
      BY <1>11, <2>3, <2>6 DEF Placed
    <2>8. \A x \in With(keys, key, i - 1) : x \in Int /\ x < i
      BY <1>1 DEF With
    <2>9. \A p \in lo..later[g] : after[p] \in With(keys, key, i)
      BY <1>11, <2>1, <2>4, <2>7
    <2>10. ASSUME NEW p \in lo..later[g], NEW q \in lo..later[g], p < q
           PROVE  after[p] < after[q]
      <3>1. p \in lo..ends[g]
        BY <1>8, <1>3, <2>4, <2>10
      <3>2. CASE q = spot
        BY <1>11, <2>7, <2>8, <3>1, <3>2
      <3>3. CASE q \in lo..ends[g]
        BY <2>3, <2>7, <2>10, <3>1, <3>3 DEF Placed
      <3> QED
        BY <2>4, <3>2, <3>3
    <2>11. ASSUME NEW x \in With(keys, key, i) PROVE \E p \in lo..later[g] : after[p] = x
      <3>1. CASE x = i
        BY <1>11, <2>5, <3>1
      <3>2. CASE x \in With(keys, key, i - 1)
        <4>1. PICK p \in lo..ends[g] : placed[p] = x
          BY <2>3, <3>2 DEF Placed
        <4> QED
          BY <2>6, <2>7, <4>1
      <3> QED
        BY <2>1, <3>1, <3>2
    <2> HIDE DEF lo
    <2> QED
      BY <2>2, <2>9, <2>10, <2>11 DEF Placed, lo
  <1> QED
    BY <1>10, <1>12, <1>13 DEF after, later

----------------------------------------------------------------------------
(* What a finished plan is.                                                *)

\* The rows of a partition, one by one.
LEMMA RowsOfARun ==
    ASSUME NEW p \in PartitionType, NEW placed, p.gathered = FALSE
    PROVE  RowsIn(placed, p) = [i \in 1..(p.end - p.start) |-> p.start + i]
  BY DEF RowsIn

LEMMA RowsOfAGroup ==
    ASSUME NEW p \in PartitionType, NEW S, NEW placed \in Seq(S), p.gathered = TRUE
    PROVE  RowsIn(placed, p) = [i \in 1..(p.end - p.start) |-> placed[p.start + i]]
  <1>1. p.start \in Nat /\ p.end \in Nat
    BY DEF PartitionType
  <1>2. SubSeq(placed, p.start + 1, p.end)
            = [i \in 1..(p.end - p.start) |-> placed[p.start + i]]
    <2> DEFINE a == p.start
               b == p.end
    <2>1. a \in Nat /\ b \in Nat
      BY <1>1
    <2> HIDE DEF a, b
    <2>2. SubSeq(placed, a + 1, b) = [i \in 1..(b - a) |-> placed[a + i]]
      BY <2>1
    <2> QED
      BY <2>2 DEF a, b
  <1> QED
    BY <1>2 DEF RowsIn

\* The runs make a plan when they cover every row.
LEMMA RunsAreStable ==
    ASSUME NEW keys, NEW parts \in Seq(PartitionType), NEW placed \in Seq(0..MaxPoints),
           NEW n \in Nat,
           Runs(keys, parts, n)
    PROVE  Stable(keys, parts, placed, n)
  <1> DEFINE rows(j) == RowsIn(placed, parts[j])
  <1>1. \A j \in DOMAIN parts : parts[j] \in PartitionType /\ j \in Nat
    OBVIOUS
  <1>2. \A j \in DOMAIN parts : parts[j].start \in Nat /\ parts[j].end \in Nat
    BY <1>1 DEF PartitionType
  <1>3. \A j \in DOMAIN parts :
          rows(j) = [i \in 1..(parts[j].end - parts[j].start) |-> parts[j].start + i]
    <2> SUFFICES ASSUME NEW j \in DOMAIN parts
                 PROVE  rows(j) = [i \in 1..(parts[j].end - parts[j].start) |-> parts[j].start + i]
      OBVIOUS
    <2>1. parts[j].gathered = FALSE /\ parts[j] \in PartitionType
      BY <1>1 DEF Runs
    <2> QED
      BY <2>1, RowsOfARun
  <1>4. \A j \in DOMAIN parts : parts[j].start < parts[j].end /\ parts[j].end <= n
    BY DEF Runs
  <1>5. \A j \in DOMAIN parts : 1 \in DOMAIN rows(j) /\ rows(j)[1] = parts[j].start + 1
    BY <1>2, <1>3, <1>4
  <1>6. ASSUME NEW j \in DOMAIN parts
        PROVE  Points!Range(rows(j)) = (parts[j].start + 1)..parts[j].end
    <2>1. \A i \in 1..(parts[j].end - parts[j].start) :
            parts[j].start + i \in (parts[j].start + 1)..parts[j].end
      BY <1>2
    <2>2. \A x \in (parts[j].start + 1)..parts[j].end :
            /\ x - parts[j].start \in 1..(parts[j].end - parts[j].start)
            /\ parts[j].start + (x - parts[j].start) = x
      BY <1>2
    <2>3. /\ DOMAIN rows(j) = 1..(parts[j].end - parts[j].start)
          /\ \A i \in DOMAIN rows(j) : rows(j)[i] = parts[j].start + i
      BY <1>3
    <2> HIDE DEF rows
    <2>4. \A i \in DOMAIN rows(j) : rows(j)[i] \in (parts[j].start + 1)..parts[j].end
      BY <2>1, <2>3
    <2>5. \A x \in (parts[j].start + 1)..parts[j].end : \E i \in DOMAIN rows(j) :
              rows(j)[i] = x
      BY <2>2, <2>3
    <2> QED
      BY <2>4, <2>5 DEF Points!Range
  <1>7. ASSUME NEW j \in DOMAIN parts
        PROVE  (parts[j].start + 1)..parts[j].end = With(keys, parts[j].key, n)
    <2>1. \A x \in (parts[j].start + 1)..parts[j].end : x \in 1..n /\ keys[x] = parts[j].key
      BY <1>2, <1>4 DEF Runs
    <2>2. ASSUME NEW x \in With(keys, parts[j].key, n)
          PROVE  x \in (parts[j].start + 1)..parts[j].end
      <3>1. x \in 1..n /\ keys[x] = parts[j].key
        BY DEF With
      <3>2. PICK k \in DOMAIN parts : x \in (parts[k].start + 1)..parts[k].end
        BY <3>1 DEF Runs
      <3>3. parts[k].key = parts[j].key
        BY <3>1, <3>2 DEF Runs
      <3>4. k = j
        BY <1>1, <3>3 DEF Runs
      <3> QED
        BY <3>2, <3>4
    <2> QED
      BY <2>1, <2>2 DEF With
  <1>8. \A j \in DOMAIN parts : \A p,
        q \in DOMAIN rows(j) : p < q => rows(j)[p] < rows(j)[q]
    <2> SUFFICES ASSUME NEW j \in DOMAIN parts, NEW p \in DOMAIN rows(j),
                        NEW q \in DOMAIN rows(j),
                        p < q
                 PROVE  rows(j)[p] < rows(j)[q]
      OBVIOUS
    <2>1. /\ DOMAIN rows(j) = 1..(parts[j].end - parts[j].start)
          /\ rows(j)[p] = parts[j].start + p /\ rows(j)[q] = parts[j].start + q
      BY <1>3
    <2> QED
      BY <1>2, <2>1
  <1>9. \A i \in 1..n : \E j \in DOMAIN parts : parts[j].key = keys[i]
    BY DEF Runs
  <1>10. \A j, k \in DOMAIN parts : j < k => rows(j)[1] < rows(k)[1]
    <2>1. \A j, k \in DOMAIN parts : j < k => parts[j].end <= parts[k].start
      BY DEF Runs
    <2> QED
      BY <1>2, <1>4, <1>5, <2>1
  <1>11. \A j \in DOMAIN parts : rows(j) # << >>
    BY <1>5
  <1> QED
    BY <1>4, <1>6, <1>7, <1>8, <1>9, <1>10, <1>11 DEF Stable

\* The groups make a plan when every row is placed.
LEMMA GroupsAreStable ==
    ASSUME NEW keys, NEW parts \in Seq(PartitionType), NEW placed \in Seq(0..MaxPoints),
           NEW n \in Nat,
           Groups(keys, parts, n), Laid(keys, parts, Len(parts), n), NEW ends,
           \A j \in DOMAIN parts : Placed(keys, parts[j], ends[j], placed, n)
    PROVE  Stable(keys, parts, placed, n)
  <1> DEFINE rows(j) == RowsIn(placed, parts[j])
             own(j) == With(keys, parts[j].key, n)
  <1>1. \A j \in DOMAIN parts :
            parts[j] \in PartitionType /\ j \in Nat /\ j \in 1..Len(parts)
    OBVIOUS
  <1>2. \A j \in DOMAIN parts : parts[j].start \in Nat /\ parts[j].end \in Nat
    BY <1>1 DEF PartitionType
  <1>3. \A j \in DOMAIN parts :
          rows(j) = [i \in 1..(parts[j].end - parts[j].start) |-> placed[parts[j].start + i]]
    <2> SUFFICES ASSUME NEW j \in DOMAIN parts
                 PROVE  rows(j) = [i \in 1..(parts[j].end - parts[j].start) |->
                                      placed[parts[j].start + i]]
      OBVIOUS
    <2>1. parts[j].gathered = TRUE /\ parts[j] \in PartitionType
      BY <1>1 DEF Groups
    <2> QED
      BY <2>1, RowsOfAGroup
  <1>4. \A j \in DOMAIN parts :
          parts[j].end = parts[j].start + Cardinality(own(j)) /\ parts[j].end <= n
    BY <1>1 DEF Laid
  <1>5. \A j \in DOMAIN parts : Cardinality(own(j)) \in Nat \ {0} /\ own(j) \subseteq 1..n
    <2>1. \A j \in DOMAIN parts : own(j) # {}
      BY DEF Groups
    <2>2. \A j \in DOMAIN parts :
            IsFiniteSet(own(j)) /\ Cardinality(own(j)) \in 0..n /\ own(j) \subseteq 1..n
      BY RowsOfAKey
    <2> HIDE DEF own
    <2> QED
      BY <2>1, <2>2, FS_EmptySet
  <1>6. \A j \in DOMAIN parts :
          /\ \A p \in (parts[j].start + 1)..parts[j].end : placed[p] \in own(j)
          /\ \A p, q \in (parts[j].start + 1)..parts[j].end : p < q => placed[p] < placed[q]
          /\ \A i \in own(j) : \E p \in (parts[j].start + 1)..parts[j].end : placed[p] = i
    <2> SUFFICES ASSUME NEW j \in DOMAIN parts
                 PROVE  /\ \A p \in (parts[j].start + 1)..parts[j].end :
                               placed[p] \in own(j)
                        /\ \A p, q \in (parts[j].start + 1)..parts[j].end :
                              p < q => placed[p] < placed[q]
                        /\ \A i \in own(j) :
                              \E p \in (parts[j].start + 1)..parts[j].end : placed[p] = i
      OBVIOUS
    <2>1. Placed(keys, parts[j], ends[j], placed, n)
      OBVIOUS
    <2>2. ends[j] = parts[j].end
      BY <1>4, <2>1 DEF Placed
    <2> QED
      BY <2>1, <2>2 DEF Placed
  <1> HIDE DEF own
  <1>7. \A j \in DOMAIN parts :
          /\ DOMAIN rows(j) = 1..(parts[j].end - parts[j].start) /\ 1 \in DOMAIN rows(j)
          /\ \A p \in DOMAIN rows(j) :
                /\ parts[j].start + p \in (parts[j].start + 1)..parts[j].end
                /\ rows(j)[p] = placed[parts[j].start + p]
          /\ \A x \in (parts[j].start + 1)..parts[j].end :
                /\ x - parts[j].start \in DOMAIN rows(j)
                /\ rows(j)[x - parts[j].start] = placed[x]
    <2> SUFFICES ASSUME NEW j \in DOMAIN parts
                 PROVE  /\ DOMAIN rows(j) = 1..(parts[j].end - parts[j].start)
                               /\ 1 \in DOMAIN rows(j)
                        /\ \A p \in DOMAIN rows(j) :
                             /\ parts[j].start + p \in (parts[j].start + 1)..parts[j].end
                             /\ rows(j)[p] = placed[parts[j].start + p]
                        /\ \A x \in (parts[j].start + 1)..parts[j].end :
                             /\ x - parts[j].start \in DOMAIN rows(j)
                             /\ rows(j)[x - parts[j].start] = placed[x]
      OBVIOUS
    <2>1. /\ DOMAIN rows(j) = 1..(parts[j].end - parts[j].start)
          /\ \A p \in DOMAIN rows(j) : rows(j)[p] = placed[parts[j].start + p]
      BY <1>3
    <2> HIDE DEF rows
    <2>2. parts[j].start \in Nat /\ parts[j].end \in Nat
              /\ parts[j].end - parts[j].start >= 1
      BY <1>2, <1>4, <1>5
    <2>3. 1 \in DOMAIN rows(j)
      BY <2>1, <2>2
    <2>4. \A p \in DOMAIN rows(j) :
              parts[j].start + p \in (parts[j].start + 1)..parts[j].end
      BY <2>1, <2>2
    <2>5. ASSUME NEW x \in (parts[j].start + 1)..parts[j].end
          PROVE  /\ x - parts[j].start \in DOMAIN rows(j)
                 /\ rows(j)[x - parts[j].start] = placed[x]
      <3>1. /\ x - parts[j].start \in 1..(parts[j].end - parts[j].start)
            /\ parts[j].start + (x - parts[j].start) = x
        BY <2>2
      <3> QED
        BY <2>1, <3>1
    <2> QED
      BY <2>1, <2>3, <2>4, <2>5
  <1> HIDE DEF rows
  <1>8. ASSUME NEW j \in DOMAIN parts PROVE Points!Range(rows(j)) = own(j)
    <2>1. \A p \in DOMAIN rows(j) : rows(j)[p] \in own(j)
      BY <1>6, <1>7
    <2>2. \A i \in own(j) : \E p \in DOMAIN rows(j) : rows(j)[p] = i
      BY <1>6, <1>7
    <2> QED
      BY <2>1, <2>2 DEF Points!Range
  <1>9. ASSUME NEW j \in DOMAIN parts, NEW p \in DOMAIN rows(j), NEW q \in DOMAIN rows(j),
               p < q
        PROVE  rows(j)[p] < rows(j)[q]
    <2>1. p \in Nat /\ q \in Nat /\ parts[j].start \in Nat
      <3>1. /\ DOMAIN rows(j) = 1..(parts[j].end - parts[j].start)
            /\ parts[j].start \in Nat /\ parts[j].end \in Nat
        BY <1>2, <1>7
      <3> QED
        BY <3>1
    <2>2. parts[j].start + p < parts[j].start + q
      BY <1>9, <2>1
    <2> QED
      BY <1>6, <1>7, <2>2
  <1>10. \A i \in 1..n : \E j \in DOMAIN parts : parts[j].key = keys[i]
    BY DEF Groups
  <1>11. ASSUME NEW j \in DOMAIN parts, NEW k \in DOMAIN parts, j < k
         PROVE  rows(j)[1] < rows(k)[1]
    <2>1. rows(k)[1] \in own(k)
      BY <1>6, <1>7
    <2>2. PICK h \in own(j) : h < rows(k)[1]
      BY <1>11, <2>1 DEF Groups, own
    <2>3. PICK p \in DOMAIN rows(j) : rows(j)[p] = h
      BY <1>6, <1>7
    <2>4. p = 1 \/ 1 < p
      BY <1>2, <1>7
    <2>5. rows(j)[1] = h \/ rows(j)[1] < h
      BY <1>7, <1>9, <2>3, <2>4
    <2>6. rows(j)[1] \in own(j)
      BY <1>6, <1>7
    <2>7. rows(j)[1] \in Int /\ h \in Int /\ rows(k)[1] \in Int
      BY <1>5, <2>1, <2>6
    <2> QED
      BY <2>2, <2>5, <2>7
  <1>12. \A j \in DOMAIN parts : rows(j) # << >>
    BY <1>7
  <1> QED
    BY <1>4, <1>8, <1>9, <1>10, <1>11, <1>12 DEF Stable, rows, own

----------------------------------------------------------------------------
(* What the invariant says at each point of a call.                        *)

\* The arguments of a call.
LEMMA RequestIs ==
    ASSUME PointsAssumption, NEW r \in Points!Request
    PROVE  /\ r.points \in 0..MaxPoints /\ r.points \in Nat
           /\ \A a \in Points!Axis : /\ r.ids[a] \in Ids[a] /\ r.ids[a] \in Seq(Nat) \cup {None}
                                     /\ r.by[a] \in ByPoint[a]
                                            /\ r.by[a] \in Seq(Nat) \cup {None}
  <1>1. \A a \in Points!Axis : r.ids[a] \in Ids[a] /\ r.by[a] \in ByPoint[a]
    BY DEF Points!Request, Points!OnAxes, Points!Axis
  <1>2. \A a \in Points!Axis : Ids[a] \subseteq Seq(Nat) \cup {None}
    BY DEF PointsAssumption, Points!ListAssumption
  <1>3. \A a \in Points!Axis : ByPoint[a] \subseteq Seq(Nat) \cup {None}
    BY DEF PointsAssumption, Points!ListAssumption
  <1>4. r.points \in 0..MaxPoints /\ MaxPoints \in Nat
    BY DEF Points!Request, PointsAssumption, Points!SizeAssumption
  <1> QED
    BY <1>1, <1>2, <1>3, <1>4

LEMMA RowsKept ==
    ASSUME UNCHANGED request PROVE Keys' = Keys /\ Rows' = Rows
  BY DEF Keys, Rows, Points!Key

\* The keys of the rows, once their selectors are valid.
LEMMA KeysAre ==
    ASSUME PointsAssumption, request.points \in Nat,
           \A a \in Points!Axis :
              request.by[a] # None => request.by[a] \in [Rows -> 0..(Components[a] - 1)]
    PROVE  /\ Keys \in [Rows -> [Points!Axis -> Nat \cup {None}]] /\ DOMAIN Keys = Rows
           /\ \A i \in Rows : Keys[i] = Points!Key(i)
  <1>1. \A i \in Rows : Points!Key(i) \in [Points!Axis -> Nat \cup {None}]
    <2> SUFFICES ASSUME NEW i \in Rows, NEW a \in Points!Axis
                 PROVE  (IF request.by[a] = None THEN None ELSE request.by[a][i]) \in Nat
                            \cup {None}
      BY DEF Points!Key
    <2>1. CASE request.by[a] = None
      BY <2>1
    <2>2. CASE request.by[a] # None
      <3>1. request.by[a][i] \in 0..(Components[a] - 1) /\ Components[a] \in Nat
        BY <2>2 DEF PointsAssumption, Points!SizeAssumption
      <3> QED
        BY <2>2, <3>1
    <2> QED
      BY <2>1, <2>2
  <1> QED
    BY <1>1 DEF Keys

\* Where a call is, the state is one of a runtime between calls or of one that
\* lent its crossing map to the call.
LEMMA BoundedIs ==
    ASSUME PointsAssumption, NEW list, Bounded(list)
    PROVE  /\ Len(list) \in 0..MaxPoints /\ DOMAIN list = 1..Len(list)
           /\ list = [i \in 1..Len(list) |-> list[i]]
  <1>1. PICK n \in 0..MaxPoints : list = [i \in 1..n |-> list[i]]
    BY DEF Bounded
  <1>2. n \in Nat /\ MaxPoints \in Nat
    BY DEF PointsAssumption, Points!SizeAssumption
  <1>3. Len([i \in 1..n |-> list[i]]) = n
    BY <1>2
  <1>4. Len(list) = n
    BY <1>1, <1>3
  <1> QED
    BY <1>1, <1>2, <1>4

LEMMA BoundedFunction ==
    ASSUME NEW n \in 0..MaxPoints, NEW f, f = [i \in 1..n |-> f[i]] PROVE Bounded(f)
  BY DEF Bounded

----------------------------------------------------------------------------
(* The start and the end of a call.                                        *)

LEMMA PointsInit == ASSUME PointsAssumption, Points!Init PROVE PointsIInv
  <1> USE DEF Points!Init
  <1>1. CacheTyped
    BY DEF CacheTyped, PointsAssumption, Points!SizeAssumption
  <1>2. PlannerTyped /\ 0 \in 0..MaxPoints
    BY DEF PlannerTyped, PointsAssumption, Points!SizeAssumption
  <1>3. Bounded(<< >>)
    BY <1>2 DEF Bounded
  <1>4. Typed
    BY <1>1, <1>2, <1>3 DEF Typed, Outside, PointsAssumption, Points!SizeAssumption
  <1> QED
    BY <1>4
      DEF PointsIInv, Asked, Admitted, Planned, Running, Counting, LayingOut, Placing,
          Executing, Outside, Planning

\* A call ends: the runtime has its crossing map back.
LEMMA GivenBack ==
    ASSUME PointsAssumption, PointsIInv, Points!GiveBack,
           CacheTyped', PlannerTyped', Bounded(gatheredBatch)', Bounded(totals)'
    PROVE  PointsIInv'
  <1>1. phase' = "idle" /\ calls' = calls /\ lookup' = FALSE
    BY DEF Points!GiveBack
  <1>2. crossing' = TRUE
    BY DEF Points!GiveBack, PointsIInv, Typed
  <1>3. Typed'
    BY <1>1, <1>2 DEF Typed, Outside, PointsIInv
  <1> QED
    BY <1>1, <1>3
      DEF PointsIInv, Asked, Admitted, Planned, Running, Counting, LayingOut, Placing,
          Executing, Outside, Planning

LEMMA CallIInv ==
    ASSUME PointsAssumption, PointsIInv, NEW r \in Points!Request, Points!Call(r)
    PROVE  PointsIInv'
  <1>1. Typed'
    BY DEF Points!Call, PointsIInv, Typed, Outside, CacheTyped, PlannerTyped, Bounded,
           Points!selection, Points!planner, PointsAssumption, Points!SizeAssumption
  <1>2. Asked'
    BY DEF Points!Call, Asked, Rows
  <1> QED
    BY <1>1, <1>2
      DEF Points!Call, PointsIInv, Admitted, Planned, Running, Counting, LayingOut,
          Placing, Executing, Outside, Planning

LEMMA RefuseIInv ==
  ASSUME PointsAssumption, PointsIInv, Points!Refuse
  PROVE  PointsIInv'
  <1>1. CacheTyped' /\ PlannerTyped' /\ Bounded(gatheredBatch)' /\ Bounded(totals)'
    BY DEF Points!Refuse, PointsIInv, Typed, CacheTyped, PlannerTyped, Bounded,
           Points!planner
  <1> QED
    BY <1>1, GivenBack DEF Points!Refuse, Points!Fail

\* The cache keeps to its bound, and what it holds for a list is its set.
LEMMA ResolveIs ==
    ASSUME PointsAssumption, NEW entries \in Seq(Entry), Len(entries) <= CacheSize,
           \A e \in DOMAIN entries : entries[e].selected = Points!Range(entries[e].ids),
           NEW ids \in Seq(Nat), NEW after, after = Points!Resolve(entries, ids)
    PROVE  /\ after \in Seq(Entry) /\ Len(after) <= CacheSize
           /\ \A e \in DOMAIN after : after[e].selected = Points!Range(after[e].ids)
           /\ Points!Resolved(after, ids) = Points!Range(ids)
  <1> DEFINE room == IF Len(entries) = CacheSize THEN Tail(entries) ELSE entries
             new == [ids |-> ids, selected |-> Points!Range(ids)]
  <1>1. new \in Entry
    BY DEF Entry, Points!Range
  <1>2. CacheSize \in Nat \ {0} /\ Len(entries) \in Nat /\ DOMAIN entries = 1..Len(entries)
    BY DEF PointsAssumption, Points!SizeAssumption
  <1>3. /\ room \in Seq(Entry) /\ Len(room) < CacheSize
        /\ \A e \in DOMAIN room : room[e].selected = Points!Range(room[e].ids)
    <2>1. CASE Len(entries) = CacheSize
      <3>1. /\ Tail(entries) \in Seq(Entry) /\ Len(Tail(entries)) = Len(entries) - 1
            /\ \A e \in 1..Len(Tail(entries)) : Tail(entries)[e] = entries[e + 1]
                                                /\ e + 1 \in DOMAIN entries
        BY <1>2, <2>1
      <3> QED
        BY <1>2, <2>1, <3>1
    <2>2. CASE Len(entries) # CacheSize
      <3>1. room = entries
        BY <2>2
      <3>2. Len(entries) < CacheSize
        <4>1. \A m, n \in Int : m <= n /\ m # n => m < n
          OBVIOUS
        <4>2. Len(entries) \in Int /\ CacheSize \in Int /\ Len(entries) <= CacheSize
          BY <1>2
        <4> HIDE DEF room, new
        <4> QED
          BY <2>2, <4>1, <4>2, Zenon
      <3> HIDE DEF room
      <3> QED
        BY <3>1, <3>2, Zenon
    <2> QED
      BY <2>1, <2>2
  <1> HIDE DEF room
  <1>4. /\ after \in Seq(Entry) /\ Len(after) <= CacheSize
        /\ \A e \in DOMAIN after : after[e].selected = Points!Range(after[e].ids)
        /\ \E e \in DOMAIN after : after[e].ids = ids
    <2>1. CASE \E e \in Points!Range(entries) : e.ids = ids
      <3>1. after = entries
        BY <2>1 DEF Points!Resolve
      <3>2. \E e \in DOMAIN entries : entries[e].ids = ids
        BY <2>1 DEF Points!Range
      <3> QED
        BY <3>1, <3>2
    <2>2. CASE ~ \E e \in Points!Range(entries) : e.ids = ids
      <3>1. after = Append(room, new)
        BY <2>2 DEF Points!Resolve, room
      <3>2. /\ Append(room, new) \in Seq(Entry) /\ Len(Append(room, new)) = Len(room) + 1
            /\ DOMAIN Append(room, new) = DOMAIN room \cup {Len(room) + 1}
            /\ \A e \in DOMAIN room : Append(room, new)[e] = room[e]
            /\ Append(room, new)[Len(room) + 1] = new
        <4> HIDE DEF new
        <4> QED
          BY <1>1, <1>3
      <3>3. new.ids = ids /\ new.selected = Points!Range(ids)
        OBVIOUS
      <3> HIDE DEF new
      <3> QED
        BY <1>2, <1>3, <3>1, <3>2, <3>3
    <2> QED
      BY <2>1, <2>2
  <1>5. Points!Resolved(after, ids) = Points!Range(ids)
    <2>1. \A e \in Points!Range(after) : e.ids = ids => e.selected = Points!Range(ids)
      BY <1>4 DEF Points!Range
    <2>2. \E e \in Points!Range(after) : e.ids = ids
      BY <1>4 DEF Points!Range
    <2> DEFINE found == CHOOSE e \in Points!Range(after) : e.ids = ids
    <2>3. found \in Points!Range(after) /\ found.ids = ids
      BY <2>2
    <2> QED
      BY <2>1, <2>3 DEF Points!Resolved
  <1> QED
    BY <1>4, <1>5

LEMMA AdmitIInv == ASSUME PointsAssumption, PointsIInv, Points!Admit PROVE PointsIInv'
  <1> DEFINE bad(a) == request.ids[a] # None /\ Points!Refused(request.ids[a])
             kept == {a \in Points!Axis : request.ids[a] # None /\ ~bad(a)
                                          /\ (a = "color" => ~bad("helicity"))}
             after == [a \in Points!Axis |-> IF a \in kept
                          THEN Points!Resolve(sets[a], request.ids[a]) ELSE sets[a]]
  <1>1. /\ phase = "admit" /\ ~Points!Excluded /\ sets' = after
        /\ IF \E a \in Points!Axis : bad(a)
           THEN Points!Fail
               /\ UNCHANGED <<plan, Points!planner, gatheredBatch, totals, Points!local>>
           ELSE /\ chosen' = [a \in Points!Axis |-> IF a \in kept
                                 THEN Points!Resolved(after[a], request.ids[a]) ELSE None]
                /\ phase' = "build"
                /\ crossing' = FALSE /\ lookup' = crossing
                /\ UNCHANGED <<Points!arguments, output, plan, Points!planner,
                   gatheredBatch,
                               totals, Points!local>>
    BY DEF Points!Admit
  <1>2. request \in Points!Request /\ CacheTyped /\ PlannerTyped
    BY <1>1 DEF PointsIInv, Asked, Typed
  <1>3. ASSUME NEW a \in Points!Axis
        PROVE  /\ after[a] \in Seq(Entry) /\ Len(after[a]) <= CacheSize
               /\ \A e \in DOMAIN after[a] :
                      after[a][e].selected = Points!Range(after[a][e].ids)
               /\ a \in kept
                      => Points!Resolved(after[a], request.ids[a])
                          = Points!Range(request.ids[a])
    <2>1. /\ sets[a] \in Seq(Entry) /\ Len(sets[a]) <= CacheSize
          /\ \A e \in DOMAIN sets[a] : sets[a][e].selected = Points!Range(sets[a][e].ids)
      BY <1>2 DEF CacheTyped
    <2>2. CASE a \in kept
      <3>1. request.ids[a] \in Seq(Nat)
        BY <1>2, <2>2, RequestIs
      <3>2. after[a] = Points!Resolve(sets[a], request.ids[a])
        BY <2>2
      <3> DEFINE new == Points!Resolve(sets[a], request.ids[a])
      <3>3. /\ new \in Seq(Entry) /\ Len(new) <= CacheSize
            /\ \A e \in DOMAIN new : new[e].selected = Points!Range(new[e].ids)
            /\ Points!Resolved(new, request.ids[a]) = Points!Range(request.ids[a])
        BY <2>1, <3>1, ResolveIs
      <3> HIDE DEF after, new
      <3> QED
        BY <3>2, <3>3 DEF new
    <2>3. CASE a \notin kept
      BY <2>1, <2>3
    <2> QED
      BY <2>2, <2>3
  <1>4. CacheTyped'
    <2>1. sets' = after /\ after = [a \in Points!Axis |-> after[a]]
      BY <1>1
    <2> HIDE DEF after
    <2> QED
      BY <1>3, <2>1 DEF CacheTyped
  <1>5. CASE \E a \in Points!Axis : bad(a)
    <2>1. Points!Fail
              /\ UNCHANGED <<plan, Points!planner, gatheredBatch, totals, Points!local>>
      BY <1>1, <1>5
    <2>2. PlannerTyped' /\ Bounded(gatheredBatch)' /\ Bounded(totals)'
      BY <2>1 DEF PointsIInv, Typed, PlannerTyped, Bounded, Points!planner
    <2> QED
      BY <1>4, <2>1, <2>2, GivenBack DEF Points!Fail
  <1>6. CASE ~ \E a \in Points!Axis : bad(a)
    <2>1. /\ chosen' = [a \in Points!Axis |-> IF a \in kept
                           THEN Points!Resolved(after[a], request.ids[a]) ELSE None]
          /\ phase' = "build" /\ crossing' = FALSE /\ lookup' = crossing
          /\ UNCHANGED <<Points!arguments, output, plan, Points!planner, gatheredBatch,
                         totals, Points!local>>
      BY <1>1, <1>6
    <2>2. PlannerTyped' /\ Bounded(gatheredBatch)' /\ Bounded(totals)'
      BY <2>1 DEF PointsIInv, Typed, PlannerTyped, Bounded, Points!planner
    <2>3. lookup' = TRUE /\ calls' = calls /\ request' = request /\ output' = output
      BY <1>1, <2>1 DEF PointsIInv, Typed, Outside, Points!arguments
    <2>4. Typed'
      BY <1>4, <2>1, <2>2, <2>3 DEF PointsIInv, Typed, Outside
    <2>5. Asked'
      BY <1>1, <2>1, <2>3, RowsKept DEF PointsIInv, Asked
    <2>6. Admitted'
      <3>1. ASSUME NEW a \in Points!Axis, request.ids[a] = None PROVE chosen'[a] = None
        BY <2>1, <3>1
      <3>2. ASSUME NEW a \in Points!Axis, request.ids[a] # None
            PROVE  /\ request.by[a] = None
                   /\ request.ids[a] # << >> /\ Points!IsInjective(request.ids[a])
                   /\ chosen'[a] = Points!Range(request.ids[a])
        <4>1. a \in kept
          BY <1>6, <3>2 DEF Points!Axis
        <4>2. chosen'[a] = Points!Range(request.ids[a])
          BY <1>3, <2>1, <4>1
        <4>3. ~Points!Refused(request.ids[a]) /\ request.by[a] = None
          BY <1>1, <1>6, <3>2 DEF Points!Excluded
        <4> QED
          BY <4>2, <4>3 DEF Points!Refused
      <3>3. request.points # 0
        BY <1>1 DEF Points!Excluded
      <3> QED
        BY <2>3, <3>1, <3>2, <3>3 DEF Admitted
    <2> QED
      BY <2>1, <2>4, <2>5, <2>6 DEF PointsIInv, Planned, Running, Counting, LayingOut,
                                     Placing, Executing, Outside, Planning
  <1> QED
    BY <1>5, <1>6

----------------------------------------------------------------------------
(* The planner.                                                            *)

\* What a step within a call leaves alone.
Within == /\ phase \notin Outside /\ phase' \notin Outside
          /\ UNCHANGED <<request, calls, output, chosen, sets, crossing, lookup, scene>>

LEMMA WithinKeeps ==
    ASSUME PointsAssumption, PointsIInv, Within,
           phase' \in Planning \cup {"build", "execute"},
           PlannerTyped', Bounded(gatheredBatch)', Bounded(totals)'
    PROVE  Typed' /\ Asked' /\ Admitted' /\ Keys' = Keys /\ Rows' = Rows
  <1>1. Typed'
    BY DEF Within, PointsIInv, Typed, Outside, CacheTyped
  <1>2. Keys' = Keys /\ Rows' = Rows
    BY RowsKept DEF Within
  <1>3. Asked'
    BY <1>2 DEF Within, PointsIInv, Asked, Outside
  <1>4. Admitted'
    BY DEF Within, PointsIInv, Admitted
  <1> QED
    BY <1>1, <1>2, <1>3, <1>4

LEMMA BuildIInv ==
    ASSUME PointsAssumption, PointsIInv, Points!Build, UNCHANGED scene PROVE PointsIInv'
  <1> DEFINE invalid == \E a \in Points!Axis : Points!InvalidAxis(a)
             totals_ == IF plan' = "none"
                 \/ (plan' = "homogeneous" /\ LaneOf[scene] = "generic")
                        THEN totals ELSE [i \in 1..request.points |-> Unset]
  <1>1. /\ phase = "build" /\ Points!Cleared /\ UNCHANGED <<sets, gatheredBatch>>
        /\ invalid => Points!Fail /\ UNCHANGED <<plan, totals, Points!local>>
        /\ ~invalid =>
             /\ plan' = (IF ~ Points!PerPoint THEN "none"
                         ELSE IF Points!Homogeneous THEN "homogeneous" ELSE "partitioned")
             /\ phase' = (IF plan' = "partitioned" THEN "runs" ELSE "execute")
             /\ index' = 1 /\ from' = 0 /\ totals' = totals_
             /\ UNCHANGED <<Points!arguments, output, chosen, crossing, lookup>>
    BY DEF Points!Build
  <1>2. request \in Points!Request /\ request.points # 0
    BY <1>1 DEF PointsIInv, Asked, Admitted, Outside
  <1>3. /\ request.points \in 0..MaxPoints /\ request.points \in Nat
        /\ \A a \in Points!Axis : request.by[a] \in Seq(Nat) \cup {None}
    BY <1>2, RequestIs
  <1>4. PlannerTyped' /\ Bounded(gatheredBatch)' /\ CacheTyped'
    <2>1. CacheTyped' /\ Bounded(gatheredBatch)'
      BY <1>1 DEF PointsIInv, Typed, CacheTyped, Bounded
    <2>2. CASE UNCHANGED Points!planner
      BY <2>1, <2>2 DEF PointsIInv, Typed, PlannerTyped, Points!planner
    <2>3. CASE /\ partitions' = << >> /\ counts' = << >> /\ cursors' = << >>
               /\ gatheredRows' = << >>
      BY <2>1, <2>3 DEF PlannerTyped, PointsAssumption, Points!SizeAssumption
    <2> QED
      BY <1>1, <2>1, <2>2, <2>3 DEF Points!Cleared
  <1>5. CASE invalid
    <2>1. Points!GiveBack /\ Bounded(totals)'
      BY <1>1, <1>5 DEF Points!Fail, PointsIInv, Typed, Bounded
    <2> QED
      BY <1>4, <2>1, GivenBack
  <1>6. CASE ~invalid
    <2>1. /\ plan' = (IF ~ Points!PerPoint THEN "none"
                      ELSE IF Points!Homogeneous THEN "homogeneous" ELSE "partitioned")
          /\ phase' = (IF plan' = "partitioned" THEN "runs" ELSE "execute")
          /\ index' = 1 /\ from' = 0 /\ totals' = totals_
          /\ UNCHANGED <<request, calls, output, chosen, crossing, lookup>>
      BY <1>1, <1>6 DEF Points!arguments
    <2>2. Bounded(totals)'
      <3>1. CASE totals' = totals
        BY <3>1 DEF PointsIInv, Typed, Bounded
      <3>2. CASE totals' = [i \in 1..request.points |-> Unset]
        BY <1>3, <3>2 DEF Bounded
      <3> QED
        BY <2>1, <3>1, <3>2
    <2>3. Within /\ phase' \in Planning \cup {"build", "execute"}
      BY <1>1, <2>1 DEF Within, Outside, Planning
    <2>4. Typed' /\ Asked' /\ Admitted' /\ Keys' = Keys /\ Rows' = Rows
      BY <1>4, <2>2, <2>3, WithinKeeps
    <2>5. ASSUME NEW a \in Points!Axis, request.by[a] # None
          PROVE  request.by[a] \in [Rows -> 0..(Components[a] - 1)]
      <3>1. /\ Len(request.by[a]) = request.points /\ request.by[a] \in Seq(Nat)
            /\ \A i \in DOMAIN request.by[a] : ~(request.by[a][i] >= Components[a])
        BY <1>3, <1>6, <2>5 DEF Points!InvalidAxis
      <3>2. Components[a] \in Nat
        BY DEF PointsAssumption, Points!SizeAssumption
      <3>3. DOMAIN request.by[a] = Rows /\ request.by[a] \in [Rows -> Nat]
        BY <1>3, <3>1 DEF Rows
      <3>4. \A i \in Rows : request.by[a][i] \in 0..(Components[a] - 1)
        BY <3>1, <3>2, <3>3
      <3> QED
        BY <3>3, <3>4
    <2>6. Points!PerPoint' = Points!PerPoint /\ Points!Homogeneous' = Points!Homogeneous
      BY <2>1 DEF Points!PerPoint, Points!Homogeneous, Points!Key
    <2>7. Planned'
      <3>1. /\ plan' \in {"none", "homogeneous", "partitioned"}
            /\ plan' = "none" <=> ~Points!PerPoint
            /\ plan' = "homogeneous" => Points!Homogeneous
        BY <2>1
      <3>2. phase' \in Planning => plan' = "partitioned"
        BY <2>1 DEF Planning
      <3>3. plan' = "partitioned" \/ (plan' = "homogeneous" /\ LaneOf[scene] # "generic")
               => DOMAIN totals' = Rows
        BY <2>1 DEF Rows
      <3> QED
        BY <2>1, <2>4, <2>5, <2>6, <3>1, <3>2, <3>3 DEF Planned
    <2>8. Running'
      <3> SUFFICES ASSUME phase' = "runs"
                   PROVE  /\ 1 \in Rows /\ 0 \in 0..(1 - 1) /\ Runs(Keys, partitions', 0)
                          /\ \A i \in (0 + 1)..1 : Keys[i] = Keys[0 + 1]
        BY <2>1, <2>4 DEF Running
      <3>1. plan' = "partitioned" /\ Points!PerPoint
        BY <2>1
      <3>2. partitions' = << >>
        BY <1>1, <3>1 DEF Points!Cleared
      <3> QED
        BY <1>2, <1>3, <3>2, NoRows DEF Rows
    <2>9. Counting' /\ LayingOut' /\ Placing' /\ Executing'
      BY <2>1 DEF Counting, LayingOut, Placing, Executing
    <2> QED
      BY <2>4, <2>7, <2>8, <2>9 DEF PointsIInv
  <1> QED
    BY <1>5, <1>6

LEMMA PlanningIs ==
    ASSUME PointsAssumption, PointsIInv, phase \in Planning \cup {"execute"}
    PROVE  /\ request \in Points!Request /\ request.points \in Nat \ {0}
           /\ request.points <= MaxPoints /\ MaxPoints \in Nat /\ Rows = 1..request.points
           /\ DOMAIN Keys = Rows /\ \A i \in Rows : /\ Keys[i] = Points!Key(i)
                                                   /\ Keys[i] \in [Points!Axis -> Nat \cup {None}]
  <1>1. request \in Points!Request /\ request.points # 0 /\ MaxPoints \in Nat
    BY DEF PointsIInv, Asked, Admitted, Outside, Planning, PointsAssumption,
           Points!SizeAssumption
  <1>2. request.points \in 0..MaxPoints /\ request.points \in Nat
    BY <1>1, RequestIs
  <1>3. /\ Keys \in [Rows -> [Points!Axis -> Nat \cup {None}]] /\ DOMAIN Keys = Rows
        /\ \A i \in Rows : Keys[i] = Points!Key(i)
    BY <1>2, KeysAre DEF PointsIInv, Planned
  <1> QED
    BY <1>1, <1>2, <1>3 DEF Rows

\* A turn of a loop of the planner.
LEMMA TurnKeeps ==
    ASSUME PointsAssumption, PointsIInv, phase \in Planning,
           phase' \in Planning \cup {"execute"},
           UNCHANGED <<Points!arguments, output, Points!selection, crossing, lookup, plan,
                       gatheredBatch, totals, scene>>,
           PlannerTyped'
    PROVE  /\ Typed' /\ Asked' /\ Admitted' /\ Planned' /\ Keys' = Keys /\ Rows' = Rows
           /\ plan' = "partitioned" /\ request' = request
  <1>1. Within
    BY DEF Within, Outside, Planning, Points!arguments, Points!selection
  <1>2. Bounded(gatheredBatch)' /\ Bounded(totals)'
    BY DEF PointsIInv, Typed, Bounded
  <1>3. Typed' /\ Asked' /\ Admitted' /\ Keys' = Keys /\ Rows' = Rows
    BY <1>1, <1>2, WithinKeeps
  <1>4. plan' = "partitioned" /\ request' = request
    BY <1>1 DEF Within, PointsIInv, Planned
  <1>5. Planned'
    BY <1>1, <1>3, <1>4
      DEF Within, PointsIInv, Planned, Points!PerPoint, Points!Homogeneous, Points!Key
  <1> QED
    BY <1>3, <1>4, <1>5

\* The partition of a key, when there is one.
LEMMA PartitionIs ==
    ASSUME NEW key, Points!Known(key)
    PROVE  /\ Points!PartitionOf(key) \in DOMAIN partitions
           /\ partitions[Points!PartitionOf(key)].key = key
  BY DEF Points!Known, Points!PartitionOf

LEMMA RunStepIInv ==
    ASSUME PointsAssumption, PointsIInv, Points!RunStep, UNCHANGED scene PROVE PointsIInv'
  <1> USE DEF Planning
  <1>1. /\ phase = "runs"
        /\ UNCHANGED <<Points!arguments, output, Points!selection, crossing, lookup, plan,
                       gatheredBatch, totals, cursors, gatheredRows, scene>>
    BY DEF Points!RunStep
  <1>2. /\ request.points \in Nat \ {0} /\ request.points <= MaxPoints /\ MaxPoints \in Nat
        /\ Rows = 1..request.points
        /\ \A i \in Rows : /\ Keys[i] = Points!Key(i)
                           /\ Keys[i] \in [Points!Axis -> Nat \cup {None}]
    BY <1>1, PlanningIs
  <1>3. /\ index \in Rows /\ from \in 0..(index - 1) /\ Runs(Keys, partitions, from)
        /\ \A i \in (from + 1)..index : Keys[i] = Keys[from + 1]
    BY <1>1 DEF PointsIInv, Running
  <1>4. /\ index \in Nat /\ from \in Nat /\ from + 1 \in Rows /\ from < index
               /\ index <= request.points
    BY <1>2, <1>3
  <1>5. PlannerTyped
    BY DEF PointsIInv, Typed
  <1>6. CASE /\ Points!Continues /\ index' = index + 1
             /\ UNCHANGED <<phase, partitions, counts, from>>
    <2>1. PlannerTyped'
      BY <1>1, <1>5, <1>6 DEF PlannerTyped
    <2>2. /\ Typed' /\ Asked' /\ Admitted' /\ Planned' /\ Keys' = Keys /\ Rows' = Rows
          /\ plan' = "partitioned" /\ request' = request
      BY <1>1, <1>6, <2>1, TurnKeeps
    <2>3. index + 1 \in Rows /\ Keys[index + 1] = Keys[from + 1]
      BY <1>2, <1>4, <1>6 DEF Points!Continues
    <2>4. \A i \in (from + 1)..(index + 1) : i \in (from + 1)..index \/ i = index + 1
      BY <1>4
    <2>5. Running'
      BY <1>1, <1>3, <1>4, <1>6, <2>2, <2>3, <2>4 DEF Running
    <2> QED
      BY <1>1, <1>6, <2>2, <2>5
        DEF PointsIInv, Counting, LayingOut, Placing, Executing
  <1>7. CASE /\ ~ Points!Continues /\ ~ Points!GivesUp
             /\ partitions' = Append(partitions,
                                Points!Partition(Points!Key(from + 1), FALSE, from, index))
             /\ from' = index
             /\ IF index = request.points THEN index' = 1 /\ phase' = "execute"
                                          ELSE index' = index + 1 /\ UNCHANGED phase
             /\ UNCHANGED counts
    <2> DEFINE g == Points!Partition(Points!Key(from + 1), FALSE, from, index)
    <2>1. /\ g \in PartitionType /\ g.gathered = FALSE /\ g.start = from /\ g.end = index
          /\ g.key = Keys[from + 1]
      BY <1>2, <1>4 DEF Points!Partition, PartitionType
    <2>2. partitions' = Append(partitions, g) /\ partitions \in Seq(PartitionType)
      BY <1>5, <1>7 DEF PlannerTyped
    <2>3. \A j \in DOMAIN partitions : partitions[j].key # g.key
      BY <1>2, <1>4, <1>7, <2>1 DEF Points!GivesUp, Points!Known
    <2> HIDE DEF g
    <2>4. \A i \in (from + 1)..index : Keys[i] = g.key
      BY <1>3, <2>1
    <2>5. Runs(Keys, partitions', index)
      BY <1>3, <1>4, <2>1, <2>2, <2>3, <2>4, OneMoreRun
    <2>6. PlannerTyped'
      <3>1. partitions' \in Seq(PartitionType) /\ \A j \in DOMAIN partitions' :
               (j \in DOMAIN partitions /\ partitions'[j] = partitions[j])
                   \/ partitions'[j] = g
        BY <2>1, <2>2
      <3>2. g.start <= MaxPoints /\ g.end <= MaxPoints
        BY <1>2, <1>4, <2>1
      <3> QED
        BY <1>1, <1>5, <1>7, <3>1, <3>2 DEF PlannerTyped
    <2>7. /\ Typed' /\ Asked' /\ Admitted' /\ Planned' /\ Keys' = Keys /\ Rows' = Rows
          /\ plan' = "partitioned" /\ request' = request
      BY <1>1, <1>7, <2>6, TurnKeeps
    <2>8. CASE index = request.points
      <3>1. index' = 1 /\ phase' = "execute"
        BY <1>7, <2>8
      <3>2. partitions' \in Seq(PartitionType) /\ gatheredRows \in Seq(0..MaxPoints)
        BY <1>5, <2>6 DEF PlannerTyped
      <3>3. Stable(Keys, partitions', gatheredRows, request.points)
        BY <1>2, <2>5, <2>8, <3>2, RunsAreStable
      <3>4. Executing'
        BY <1>1, <2>7, <3>1, <3>2, <3>3 DEF Executing
      <3> QED
        BY <2>7, <3>1, <3>4 DEF PointsIInv, Running, Counting, LayingOut, Placing
    <2>9. CASE index # request.points
      <3>1. index' = index + 1 /\ phase' = "runs"
        BY <1>1, <1>7, <2>9
      <3>2. index + 1 \in Rows /\ index \in 0..((index + 1) - 1)
        BY <1>2, <1>4, <2>9
      <3>3. Running'
        <4>1. \A i \in (index + 1)..(index + 1) : i = index + 1
          BY <1>4
        <4>2. index' = index + 1 /\ from' = index /\ Keys' = Keys /\ Rows' = Rows
          BY <1>7, <2>7, <3>1
        <4>3. \A i \in (from' + 1)..index' : Keys'[i] = Keys'[from' + 1]
          BY <4>1, <4>2
        <4> QED
          BY <2>5, <3>2, <4>2, <4>3 DEF Running
      <3> QED
        BY <2>7, <3>1, <3>3 DEF PointsIInv, Counting, LayingOut, Placing, Executing
    <2> QED
      BY <2>8, <2>9
  <1>8. CASE /\ ~ Points!Continues /\ Points!GivesUp
             /\ partitions' = << >> /\ counts' = << >>
             /\ index' = 1 /\ from' = 0 /\ phase' = "count"
    <2>1. PlannerTyped'
      BY <1>1, <1>5, <1>8 DEF PlannerTyped
    <2>2. /\ Typed' /\ Asked' /\ Admitted' /\ Planned' /\ Keys' = Keys /\ Rows' = Rows
          /\ plan' = "partitioned" /\ request' = request
      BY <1>1, <1>8, <2>1, TurnKeeps
    <2>3. Groups(Keys, << >>, 0) /\ Counted(Keys, << >>, << >>, 0)
      BY NoRows
    <2>4. Counting'
      BY <1>2, <1>8, <2>2, <2>3 DEF Counting
    <2> QED
      BY <1>8, <2>2, <2>4 DEF PointsIInv, Running, LayingOut, Placing, Executing
  <1> QED
    BY <1>6, <1>7, <1>8 DEF Points!RunStep

LEMMA CountStepIInv ==
    ASSUME PointsAssumption, PointsIInv, Points!CountStep, UNCHANGED scene PROVE PointsIInv'
  <1> USE DEF Planning
  <1> DEFINE key == Points!Key(index)
             last == index = request.points
  <1>1. /\ phase = "count" /\ index <= request.points
        /\ IF Points!Known(key)
           THEN /\ counts' = [counts EXCEPT ![Points!PartitionOf(key)] = @ + 1]
                /\ UNCHANGED partitions
           ELSE /\ counts' = Append(counts, 1)
                /\ partitions' = Append(partitions, Points!Partition(key, TRUE, 0, 0))
        /\ index' = (IF last THEN 1 ELSE index + 1)
        /\ phase' = (IF last THEN "layout" ELSE phase)
        /\ cursors' = (IF last THEN [j \in DOMAIN partitions' |-> 0] ELSE cursors)
        /\ UNCHANGED <<Points!arguments, output, Points!selection, crossing, lookup, plan,
                       gatheredRows, gatheredBatch, totals, from, scene>>
    BY DEF Points!CountStep
  <1>2. /\ request.points \in Nat \ {0} /\ request.points <= MaxPoints /\ MaxPoints \in Nat
        /\ Rows = 1..request.points
        /\ \A i \in Rows : /\ Keys[i] = Points!Key(i)
                           /\ Keys[i] \in [Points!Axis -> Nat \cup {None}]
    BY <1>1, PlanningIs
  <1>3. /\ index \in Rows /\ from = 0 /\ Groups(Keys, partitions, index - 1)
        /\ Counted(Keys, partitions, counts, index - 1)
    BY <1>1 DEF PointsIInv, Counting
  <1> DEFINE n == index - 1
  <1>4. n \in Nat /\ n + 1 = index /\ index \in Nat /\ key = Keys[n + 1]
        /\ key \in [Points!Axis -> Nat \cup {None}]
    BY <1>2, <1>3
  <1>5. PlannerTyped /\ partitions \in Seq(PartitionType) /\ counts \in Seq(Nat)
    BY DEF PointsIInv, Typed, PlannerTyped
  <1> HIDE DEF n, key
  <1>6. /\ PlannerTyped' /\ Groups(Keys, partitions', n + 1)
        /\ Counted(Keys, partitions', counts', n + 1)
    <2>1. CASE Points!Known(key)
      <3> DEFINE j == Points!PartitionOf(key)
      <3>1. j \in DOMAIN partitions /\ partitions[j].key = key
        BY <2>1, PartitionIs
      <3>2. counts' = [counts EXCEPT ![j] = @ + 1] /\ partitions' = partitions
        BY <1>1, <2>1
      <3> HIDE DEF j
      <3>3. Groups(Keys, partitions, n) /\ Counted(Keys, partitions, counts, n)
        BY <1>3 DEF n
      <3>4. /\ Groups(Keys, partitions, n + 1)
            /\ Counted(Keys, partitions, [counts EXCEPT ![j] = @ + 1], n + 1)
        BY <1>4, <1>5, <3>1, <3>3, OneMoreOfGroup
      <3>5. counts' \in Seq(Nat)
        <4>1. j \in 1..Len(counts) /\ counts[j] + 1 \in Nat
          BY <1>5, <3>1, <3>3 DEF Counted
        <4> QED
          BY <1>5, <3>2, <4>1, ExceptSeq
      <3>6. PlannerTyped'
        BY <1>1, <1>5, <3>2, <3>5 DEF PlannerTyped
      <3> QED
        BY <3>2, <3>4, <3>6
    <2>2. CASE ~Points!Known(key)
      <3> DEFINE g == Points!Partition(key, TRUE, 0, 0)
      <3>1. g \in PartitionType /\ g.gathered = TRUE /\ g.key = key /\ g.start = 0
                /\ g.end = 0
        BY <1>4 DEF Points!Partition, PartitionType
      <3>2. counts' = Append(counts, 1) /\ partitions' = Append(partitions, g)
        BY <1>1, <2>2
      <3>3. Groups(Keys, partitions, n) /\ Counted(Keys, partitions, counts, n)
        BY <1>3 DEF n
      <3>4. \A j \in DOMAIN partitions : partitions[j].key # g.key
        BY <2>2, <3>1 DEF Points!Known
      <3> HIDE DEF g
      <3>5. /\ Groups(Keys, Append(partitions, g), n + 1)
            /\ Counted(Keys, Append(partitions, g), Append(counts, 1), n + 1)
        BY <1>4, <1>5, <3>1, <3>3, <3>4, OneMoreGroup
      <3>6. PlannerTyped'
        <4>1. counts' \in Seq(Nat)
          BY <1>5, <3>2
        <4>2. partitions' \in Seq(PartitionType) /\ \A j \in DOMAIN partitions' :
                 (j \in DOMAIN partitions /\ partitions'[j] = partitions[j])
                     \/ partitions'[j] = g
          BY <1>5, <3>1, <3>2
        <4>3. g.start <= MaxPoints /\ g.end <= MaxPoints
          BY <1>2, <3>1
        <4> QED
          BY <1>1, <1>5, <4>1, <4>2, <4>3 DEF PlannerTyped
      <3> QED
        BY <3>2, <3>5, <3>6
    <2> QED
      BY <2>1, <2>2
  <1>7. /\ Typed' /\ Asked' /\ Admitted' /\ Planned' /\ Keys' = Keys /\ Rows' = Rows
        /\ plan' = "partitioned" /\ request' = request
    BY <1>1, <1>6, TurnKeeps
  <1>8. CASE last
    <2>1. /\ index' = 1 /\ phase' = "layout" /\ from' = 0
          /\ cursors' = [j \in DOMAIN partitions' |-> 0]
      BY <1>1, <1>3, <1>8
    <2>2. /\ Groups(Keys, partitions', request.points)
          /\ Counted(Keys, partitions', counts', request.points)
      BY <1>4, <1>6, <1>8
    <2>3. partitions' \in Seq(PartitionType)
      BY <1>6 DEF PlannerTyped
    <2>4. 1 \in DOMAIN partitions'
      <3>1. \E j \in DOMAIN partitions' : Keys[1] = partitions'[j].key
        BY <1>2, <2>2 DEF Groups
      <3> QED
        BY <2>3, <3>1
    <2>5. Before(Keys, partitions', 1, request.points) = {}
      BY DEF Before
    <2>6. 0 = Cardinality(Before(Keys, partitions', 1, request.points))
      BY <2>5, FS_EmptySet
    <2>7. Laid(Keys, partitions', 1 - 1, request.points)
      BY DEF Laid
    <2>8. LayingOut'
      BY <1>2, <1>7, <2>1, <2>2, <2>4, <2>6, <2>7 DEF LayingOut
    <2> QED
      BY <1>7, <2>1, <2>8 DEF PointsIInv, Running, Counting, Placing, Executing
  <1>9. CASE ~last
    <2>1. index' = index + 1 /\ phase' = "count" /\ from' = 0
      BY <1>1, <1>3, <1>9
    <2>2. index + 1 \in Rows /\ (index + 1) - 1 = n + 1
      BY <1>1, <1>2, <1>4, <1>9
    <2>3. Counting'
      BY <1>6, <1>7, <2>1, <2>2 DEF Counting
    <2> QED
      BY <1>7, <2>1, <2>3 DEF PointsIInv, Running, LayingOut, Placing, Executing
  <1> QED
    BY <1>8, <1>9

LEMMA LayoutStepIInv ==
    ASSUME PointsAssumption, PointsIInv, Points!LayoutStep, UNCHANGED scene
    PROVE PointsIInv'
  <1> USE DEF Planning
  <1> DEFINE last == index = Len(partitions)
             total == request.points
  <1>1. /\ phase = "layout"
        /\ partitions' = [partitions EXCEPT ![index] =
                            Points!Partition(@.key, @.gathered, from, from + counts[index])]
        /\ cursors' = [cursors EXCEPT ![index] = from]
        /\ from' = from + counts[index]
        /\ index' = (IF last THEN 1 ELSE index + 1)
        /\ phase' = (IF last THEN "place" ELSE phase)
        /\ gatheredRows' = (IF last THEN [i \in 1..total |-> 0] ELSE gatheredRows)
        /\ UNCHANGED <<Points!arguments, output, Points!selection, crossing, lookup, plan,
           counts,
                       gatheredBatch, totals, scene>>
    BY DEF Points!LayoutStep, Points!End
  <1>2. /\ total \in Nat \ {0} /\ total <= MaxPoints /\ MaxPoints \in Nat
        /\ Rows = 1..total
    BY <1>1, PlanningIs
  <1>3. /\ index \in DOMAIN partitions /\ from \in 0..total
        /\ DOMAIN cursors = DOMAIN partitions
        /\ Groups(Keys, partitions, total)
        /\ Counted(Keys, partitions, counts, total)
        /\ Laid(Keys, partitions, index - 1, total)
        /\ from = Cardinality(Before(Keys, partitions, index, total))
        /\ \A j \in 1..(index - 1) :
               partitions[j].end <= from /\ cursors[j] = partitions[j].start
    BY <1>1 DEF PointsIInv, LayingOut
  <1>4. PlannerTyped /\ partitions \in Seq(PartitionType) /\ counts \in Seq(Nat)
    BY DEF PointsIInv, Typed, PlannerTyped
  <1>5. from \in Nat /\ index \in Nat /\ index >= 1
            /\ DOMAIN partitions = 1..Len(partitions)
        /\ Len(partitions) \in Nat /\ index <= Len(partitions)
    BY <1>2, <1>3, <1>4
  <1>6. /\ partitions' \in Seq(PartitionType) /\ DOMAIN partitions' = DOMAIN partitions
        /\ \A j \in DOMAIN partitions : partitions'[j].key = partitions[j].key
        /\ \A j \in DOMAIN partitions : j # index => partitions'[j] = partitions[j]
        /\ partitions'[index].start = from /\ partitions'[index].end = from + counts[index]
        /\ Groups(Keys, partitions', total) /\ Counted(Keys, partitions', counts, total)
        /\ Laid(Keys, partitions', index, total)
        /\ from + counts[index] \in 0..total
        /\ from + counts[index] = Cardinality(Before(Keys, partitions', index + 1, total))
        /\ \A j \in 1..index : partitions'[j].end <= from + counts[index]
    <2> DEFINE new == partitions'
               next == from + counts[index]
    <2>1. new = LaidOut(partitions, index, from, next)
      BY <1>1 DEF LaidOut
    <2>2. \A j \in 1..(index - 1) : partitions[j].end <= from
      BY <1>3
    <2>3. next \in Nat
      BY <1>3, <1>4, <1>5 DEF Counted
    <2>0. next = from + counts[index]
      OBVIOUS
    <2> HIDE DEF new, next, total
    <2>4. new \in Seq(PartitionType) /\ Moved(partitions, new, index, from, next)
      BY <1>3, <1>4, <1>5, <2>1, <2>3, LaidOutIs
    <2>5. LaidNext(Keys, counts, new, index, next, total)
      <3>1. /\ partitions \in Seq(PartitionType) /\ counts \in Seq(Nat) /\ total \in Nat
            /\ index \in DOMAIN partitions /\ from \in Nat
            /\ Groups(Keys, partitions, total) /\ Counted(Keys, partitions, counts, total)
            /\ Laid(Keys, partitions, index - 1, total)
            /\ from = Cardinality(Before(Keys, partitions, index, total))
        BY <1>2, <1>3, <1>4, <1>5 DEF total
      <3> QED
        BY <2>0, <2>2, <2>4, <3>1, OneMoreLaid
    <2>6. \A j \in DOMAIN partitions : new[j].key = partitions[j].key
      BY <2>4 DEF Moved
    <2> QED
      BY <2>4, <2>5, <2>6 DEF LaidNext, Moved, new, next
  <1> HIDE DEF total
  <1>7. PlannerTyped'
    <2>1. \A j \in DOMAIN partitions' :
             partitions'[j].start <= MaxPoints /\ partitions'[j].end <= MaxPoints
      <3>1. from <= MaxPoints /\ from + counts[index] <= MaxPoints
        BY <1>2, <1>3, <1>6
      <3> QED
        BY <1>4, <1>6, <3>1 DEF PlannerTyped
    <2>2. gatheredRows' \in Seq(0..MaxPoints) /\ Len(gatheredRows') <= MaxPoints
      <3>1. CASE last
        BY <1>1, <1>2, <3>1
      <3>2. CASE ~last
        BY <1>1, <1>4, <3>2 DEF PlannerTyped
      <3> QED
        BY <3>1, <3>2
    <2> QED
      BY <1>1, <1>4, <1>6, <2>1, <2>2 DEF PlannerTyped
  <1>8. /\ Typed' /\ Asked' /\ Admitted' /\ Planned' /\ Keys' = Keys /\ Rows' = Rows
        /\ plan' = "partitioned" /\ request' = request
    BY <1>1, <1>7, TurnKeeps
  <1>9. /\ DOMAIN cursors' = DOMAIN partitions'
        /\ \A j \in 1..index : cursors'[j] = partitions'[j].start
    <2>1. \A j \in 1..index : j \in DOMAIN partitions /\ (j = index \/ j \in 1..(index - 1))
      BY <1>5
    <2>2. cursors'[index] = from /\ \A j \in DOMAIN partitions :
              j # index => cursors'[j] = cursors[j]
      BY <1>1, <1>3
    <2>3. \A j \in 1..(index - 1) : j # index
      BY <1>5
    <2> QED
      BY <1>1, <1>3, <1>6, <2>1, <2>2, <2>3
  <1>10. CASE last
    <2>1. /\ index' = 1 /\ phase' = "place" /\ gatheredRows' = [i \in 1..total |-> 0]
          /\ index = Len(partitions')
      BY <1>1, <1>4, <1>6, <1>10
    <2>2. ASSUME NEW j \in DOMAIN partitions'
          PROVE  Placed(Keys, partitions'[j], cursors'[j], gatheredRows', 0)
      <3>1. With(Keys, partitions'[j].key, 0) = {} /\ Cardinality({}) = 0
        BY FS_EmptySet DEF With
      <3>2. partitions'[j] \in PartitionType
        BY <1>6
      <3>3. partitions'[j].start \in Nat
        BY <3>2 DEF PartitionType
      <3>4. cursors'[j] = partitions'[j].start
        BY <1>5, <1>6, <1>9, <1>10
      <3>5. (partitions'[j].start + 1)..partitions'[j].start = {}
        BY <3>3
      <3> QED
        BY <3>1, <3>3, <3>4, <3>5 DEF Placed
    <2>3. Laid(Keys, partitions', Len(partitions'), total)
      BY <1>6, <2>1
    <2>4. Placing'
      <3>1. 1 \in Rows /\ DOMAIN gatheredRows' = Rows
        BY <1>2, <2>1
      <3>2. \A j \in DOMAIN partitions' :
              Placed(Keys, partitions'[j], cursors'[j], gatheredRows', 1 - 1)
        BY <2>2
      <3> QED
        BY <1>6, <1>8, <1>9, <2>1, <2>3, <3>1, <3>2 DEF Placing, total
    <2> QED
      BY <1>8, <2>1, <2>4 DEF PointsIInv, Running, Counting, LayingOut, Executing
  <1>11. CASE ~last
    <2>1. index' = index + 1 /\ phase' = "layout" /\ from' = from + counts[index]
      BY <1>1, <1>11
    <2>2. index + 1 \in DOMAIN partitions' /\ (index + 1) - 1 = index
      <3> DEFINE size == Len(partitions)
      <3>1. index \in Nat /\ size \in Nat /\ index <= size /\ index # size
        BY <1>5, <1>11
      <3>2. DOMAIN partitions' = 1..size
        BY <1>5, <1>6
      <3> HIDE DEF size
      <3> QED
        BY <3>1, <3>2
    <2>3. LayingOut'
      BY <1>1, <1>6, <1>8, <1>9, <2>1, <2>2 DEF LayingOut, total
    <2> QED
      BY <1>8, <2>1, <2>3 DEF PointsIInv, Running, Counting, Placing, Executing
  <1> QED
    BY <1>10, <1>11

LEMMA PlaceStepIInv ==
    ASSUME PointsAssumption, PointsIInv, Points!PlaceStep, UNCHANGED scene PROVE PointsIInv'
  <1> USE DEF Planning
  <1> DEFINE g == Points!PartitionOf(Points!Key(index))
             last == index = request.points
             total == request.points
  <1>1. /\ phase = "place" /\ index <= total
        /\ gatheredRows' = [gatheredRows EXCEPT ![cursors[g] + 1] = index]
        /\ cursors' = [cursors EXCEPT ![g] = @ + 1]
        /\ index' = (IF last THEN 1 ELSE index + 1)
        /\ phase' = (IF last THEN "execute" ELSE phase)
        /\ UNCHANGED <<Points!arguments, output, Points!selection, crossing, lookup, plan,
                       partitions, counts, gatheredBatch, totals, from, scene>>
    BY DEF Points!PlaceStep
  <1>2. /\ total \in Nat \ {0} /\ total <= MaxPoints /\ MaxPoints \in Nat
        /\ Rows = 1..total /\ \A i \in Rows : Keys[i] = Points!Key(i)
    BY <1>1, PlanningIs
  <1>3. /\ index \in Rows /\ DOMAIN gatheredRows = Rows
               /\ DOMAIN cursors = DOMAIN partitions
        /\ Groups(Keys, partitions, total)
        /\ Laid(Keys, partitions, Len(partitions), total)
        /\ \A j \in DOMAIN partitions :
              Placed(Keys, partitions[j], cursors[j], gatheredRows, index - 1)
    BY <1>1 DEF PointsIInv, Placing
  <1>4. PlannerTyped /\ partitions \in Seq(PartitionType)
            /\ gatheredRows \in Seq(0..MaxPoints)
    BY DEF PointsIInv, Typed, PlannerTyped
  <1>5. g \in DOMAIN partitions /\ partitions[g].key = Keys[index]
    <2>1. Points!Known(Points!Key(index))
      BY <1>2, <1>3 DEF Groups, Points!Known
    <2> QED
      BY <1>2, <1>3, <2>1, PartitionIs
  <1> HIDE DEF g, total
  <1>6. /\ cursors[g] + 1 \in 1..total
        /\ \A j \in DOMAIN partitions :
              Placed(Keys, partitions[j], cursors'[j], gatheredRows', index)
    <2>1. /\ cursors[g] + 1 \in 1..total
          /\ \A j \in DOMAIN partitions :
                Placed(Keys, partitions[j], [cursors EXCEPT ![g] = @ + 1][j],
                       [gatheredRows EXCEPT ![cursors[g] + 1] = index], index)
      BY <1>2, <1>3, <1>4, <1>5, OneMorePlaced
    <2> QED
      BY <1>1, <2>1
  <1>7. /\ gatheredRows' \in Seq(0..MaxPoints) /\ DOMAIN gatheredRows' = Rows
        /\ Len(gatheredRows') = Len(gatheredRows)
    <2>1. index \in 0..MaxPoints /\ cursors[g] + 1 \in 1..Len(gatheredRows)
      BY <1>2, <1>3, <1>4, <1>6
    <2> QED
      BY <1>1, <1>3, <1>4, <2>1, ExceptSeq
  <1>8. PlannerTyped'
    BY <1>1, <1>4, <1>7 DEF PlannerTyped
  <1>9. /\ Typed' /\ Asked' /\ Admitted' /\ Planned' /\ Keys' = Keys /\ Rows' = Rows
        /\ plan' = "partitioned" /\ request' = request
    BY <1>1, <1>8, TurnKeeps
  <1>10. CASE last
    <2>1. index' = 1 /\ phase' = "execute" /\ partitions' = partitions
      BY <1>1, <1>10
    <2>2. \A j \in DOMAIN partitions :
             Placed(Keys, partitions[j], cursors'[j], gatheredRows', total)
      BY <1>6, <1>10 DEF total
    <2>3. Stable(Keys, partitions, gatheredRows', total)
      BY <1>2, <1>3, <1>4, <1>7, <2>2, GroupsAreStable
    <2>4. Executing'
      BY <1>4, <1>9, <2>1, <2>3 DEF Executing, total
    <2> QED
      BY <1>9, <2>1, <2>4 DEF PointsIInv, Running, Counting, LayingOut, Placing
  <1>11. CASE ~last
    <2>1. index' = index + 1 /\ phase' = "place" /\ partitions' = partitions
      BY <1>1, <1>11
    <2>2. index + 1 \in Rows /\ (index + 1) - 1 = index
      BY <1>1, <1>2, <1>3, <1>11 DEF total
    <2>3. DOMAIN cursors' = DOMAIN partitions
      BY <1>1, <1>3
    <2>4. Placing'
      BY <1>3, <1>6, <1>7, <1>9, <2>1, <2>2, <2>3 DEF Placing, total
    <2> QED
      BY <1>9, <2>1, <2>4 DEF PointsIInv, Running, Counting, LayingOut, Executing
  <1> QED
    BY <1>10, <1>11

----------------------------------------------------------------------------
(* Execution.                                                              *)

ValueOf(point, key) ==
    [point |-> point, helicities |-> Points!Effective("helicity", key),
     colors |-> Points!Effective("color", key), crossed |-> lookup, scaled |-> FALSE]

LEMMA ExecutingIs ==
    ASSUME PointsAssumption, PointsIInv, phase = "execute"
    PROVE  /\ request \in Points!Request /\ request.points \in Nat \ {0}
           /\ request.points <= MaxPoints /\ MaxPoints \in Nat /\ Rows = 1..request.points
           /\ DOMAIN Keys = Rows /\ \A i \in Rows : Keys[i] = Points!Key(i)
           /\ CacheTyped /\ PlannerTyped /\ Bounded(gatheredBatch) /\ Bounded(totals)
           /\ Points!Batch = [i \in Rows |-> Points!Row(i)]
  <1>1. CacheTyped /\ PlannerTyped /\ Bounded(gatheredBatch) /\ Bounded(totals)
    BY DEF PointsIInv, Typed
  <1> QED
    BY <1>1, PlanningIs DEF Points!Batch, Rows

\* The selections that a kernel sees are those the request asks for.
LEMMA ValueIs ==
    ASSUME PointsAssumption, PointsIInv, phase = "execute", NEW i \in Rows
    PROVE  ValueOf(Points!Row(i), Keys[i]) = Points!Wanted(request, calls, i)
  <1> DEFINE asked_(a) == IF request.by[a] # None THEN {request.by[a][i]}
                          ELSE IF request.ids[a] # None THEN Points!Range(request.ids[a])
                          ELSE 0..(Components[a] - 1)
  <1>1. ASSUME NEW a \in Points!Axis PROVE Points!Effective(a, Keys[i]) = asked_(a)
    <2>1. Keys[i][a] = IF request.by[a] = None THEN None ELSE request.by[a][i]
      BY ExecutingIs DEF Points!Key
    <2>2. CASE request.by[a] # None
      <3>1. request.by[a][i] \in 0..(Components[a] - 1)
        BY <2>2 DEF PointsIInv, Planned
      <3>2. request.by[a][i] # None
        BY <3>1 DEF PointsAssumption, Points!ListAssumption
      <3> QED
        BY <2>1, <2>2, <3>2 DEF Points!Effective
    <2>3. CASE request.by[a] = None /\ request.ids[a] # None
      <3>1. chosen[a] = Points!Range(request.ids[a])
        BY <2>3 DEF PointsIInv, Admitted, Outside
      <3>2. request.ids[a] \in Ids[a] \ {None}
        BY <2>3, ExecutingIs, RequestIs
      <3>3. Points!Range(request.ids[a]) # None
        BY <3>2 DEF PointsAssumption, Points!ListAssumption
      <3> QED
        BY <2>1, <2>3, <3>1, <3>3 DEF Points!Effective
    <2>4. CASE request.by[a] = None /\ request.ids[a] = None
      <3>1. chosen[a] = None
        BY <2>4 DEF PointsIInv, Admitted, Outside
      <3> QED
        BY <2>1, <2>4, <3>1 DEF Points!Effective
    <2> QED
      BY <2>2, <2>3, <2>4
  <1>2. /\ Points!Effective("helicity", Keys[i]) = asked_("helicity")
        /\ Points!Effective("color", Keys[i]) = asked_("color")
    BY <1>1 DEF Points!Axis
  <1>3. lookup = TRUE
    BY DEF PointsIInv, Typed, Outside
  <1>4. Points!Wanted(request, calls, i) =
          [point |-> <<calls, i>>, helicities |-> asked_("helicity"),
          colors |-> asked_("color"),
           crossed |-> TRUE, scaled |-> FALSE]
    BY DEF Points!Wanted
  <1> HIDE DEF asked_
  <1> QED
    BY <1>2, <1>3, <1>4 DEF ValueOf, Points!Row

\* A list with its items replaced.
LEMMA BoundedSame ==
    ASSUME PointsAssumption, NEW dest, Bounded(dest), NEW list,
           list = [i \in DOMAIN dest |-> list[i]]
    PROVE  Bounded(list)
  <1>1. Len(dest) \in 0..MaxPoints /\ DOMAIN dest = 1..Len(dest)
    BY BoundedIs
  <1> QED
    BY <1>1, BoundedFunction

\* Some rows of the buffer have been overwritten.
LEMMA WrittenIs ==
    ASSUME PointsAssumption, NEW dest, Bounded(dest), NEW start, NEW values, NEW k
    PROVE  Bounded(Points!Written(dest, start, values, k))
  BY BoundedSame DEF Points!Written

\* The values of a batch of one selection.
LEMMA WholeIs ==
    ASSUME PointsAssumption, PointsIInv, phase = "execute", plan # "partitioned"
    PROVE  Points!Values(Points!Batch,
           IF plan = "none" THEN Points!NoKey ELSE Points!Key(1)) =
             [i \in Rows |-> Points!Wanted(request, calls, i)]
  <1> DEFINE key == IF plan = "none" THEN Points!NoKey ELSE Points!Key(1)
  <1>1. ASSUME NEW i \in Rows PROVE key = Keys[i]
    <2>1. Keys[i] = Points!Key(i) /\ Rows = 1..request.points /\ request.points \in Nat
      BY ExecutingIs
    <2>2. CASE plan = "none"
      <3>1. \A a \in Points!Axis : request.by[a] = None
        BY <2>2 DEF PointsIInv, Planned, Points!PerPoint
      <3> QED
        BY <2>1, <2>2, <3>1 DEF Points!Key, Points!NoKey
    <2>3. CASE plan # "none"
      <3>1. Points!Homogeneous
        BY <2>3 DEF PointsIInv, Planned
      <3>2. i = 1 \/ i \in 2..request.points
        BY <2>1
      <3> QED
        BY <2>1, <2>3, <3>1, <3>2 DEF Points!Homogeneous
    <2> QED
      BY <2>2, <2>3
  <1>2. Points!Values(Points!Batch, key) = [i \in Rows |-> ValueOf(Points!Row(i), key)]
    <2> HIDE DEF key
    <2>1. Points!Batch = [i \in Rows |-> Points!Row(i)]
      BY ExecutingIs
    <2> QED
      BY <2>1 DEF Points!Values, ValueOf
  <1> HIDE DEF key
  <1>3. [i \in Rows |-> ValueOf(Points!Row(i), key)]
            = [i \in Rows |-> Points!Wanted(request, calls, i)]
    <2>1. \A i \in Rows : ValueOf(Points!Row(i), key) = Points!Wanted(request, calls, i)
      BY <1>1, ValueIs
    <2> QED
      BY <2>1
  <1> QED
    BY <1>2, <1>3 DEF key

LEMMA ExecuteWholeIInv ==
    ASSUME PointsAssumption, PointsIInv, Points!ExecuteWhole PROVE PointsIInv'
  <1> DEFINE direct == plan = "none" \/ LaneOf[scene] = "generic"
             values_ == Points!Values(Points!Batch,
             IF plan = "none" THEN Points!NoKey ELSE Points!Key(1))
  <1>1. /\ phase = "execute" /\ plan # "partitioned" /\ Points!GiveBack
        /\ \/ totals' = IF direct THEN totals ELSE values_
           \/ \E k \in 0..request.points :
                totals' = IF direct THEN totals ELSE Points!Written(totals, 0, values_, k)
        /\ UNCHANGED <<sets, Points!planner, gatheredBatch>>
    BY DEF Points!ExecuteWhole
  <1>2. CacheTyped /\ PlannerTyped /\ Bounded(gatheredBatch) /\ Bounded(totals)
    BY <1>1, ExecutingIs
  <1>3. CacheTyped' /\ PlannerTyped' /\ Bounded(gatheredBatch)'
    BY <1>1, <1>2 DEF CacheTyped, PlannerTyped, Bounded, Points!planner
  <1>4. Bounded(values_)
    <2>1. values_ = [i \in Rows |-> Points!Wanted(request, calls, i)]
      BY <1>1, WholeIs
    <2>2. request.points \in 0..MaxPoints /\ Rows = 1..request.points
      BY <1>1, ExecutingIs
    <2> HIDE DEF values_
    <2> QED
      BY <2>1, <2>2, BoundedFunction
  <1> HIDE DEF values_
  <1>5. Bounded(totals')
    <2>1. \A k : Bounded(Points!Written(totals, 0, values_, k))
      BY <1>2, WrittenIs
    <2> QED
      BY <1>1, <1>2, <1>4, <2>1
  <1>6. Bounded(totals)'
    BY <1>5 DEF Bounded
  <1> QED
    BY <1>1, <1>3, <1>6, GivenBack

\* A group has failed.
LEMMA GroupFailed ==
    ASSUME PointsAssumption, PointsIInv, Points!Executing, Points!Fail,
           UNCHANGED <<sets, plan, Points!planner, from>>, Bounded(gatheredBatch'),
           Bounded(totals')
    PROVE  PointsIInv'
  <1>1. CacheTyped /\ PlannerTyped
    BY ExecutingIs DEF Points!Executing
  <1>2. CacheTyped' /\ PlannerTyped' /\ Bounded(gatheredBatch)' /\ Bounded(totals)'
    BY <1>1 DEF CacheTyped, PlannerTyped, Bounded, Points!planner
  <1> QED
    BY <1>2, GivenBack DEF Points!Fail

\* The rows of a group have their values.
LEMMA GroupDone ==
    ASSUME PointsAssumption, PointsIInv, Points!Executing, index' = index + 1,
           UNCHANGED <<phase, Points!arguments, output, chosen, crossing, lookup, scene>>,
           UNCHANGED <<sets, plan, Points!planner, from>>, Bounded(gatheredBatch'),
           totals' = [i \in DOMAIN totals |-> totals'[i]],
           \A i \in Rows : totals'[i] = IF Keys[i] = Points!Current.key
                                        THEN Points!Wanted(request, calls, i) ELSE totals[i]
    PROVE  PointsIInv'
  <1>1. /\ phase = "execute" /\ plan = "partitioned" /\ index <= Len(partitions)
    BY DEF Points!Executing
  <1>2. PlannerTyped /\ Bounded(totals)
    BY <1>1, ExecutingIs
  <1>3. PlannerTyped' /\ Bounded(gatheredBatch)' /\ Bounded(totals)'
    <2>1. Bounded(totals')
      BY <1>2, BoundedSame
    <2> QED
      BY <1>2, <2>1 DEF PlannerTyped, Bounded, Points!planner
  <1>4. Within /\ phase' \in Planning \cup {"build", "execute"}
    BY <1>1 DEF Within, Outside, Points!arguments
  <1>5. Typed' /\ Asked' /\ Admitted' /\ Keys' = Keys /\ Rows' = Rows
    BY <1>3, <1>4, WithinKeeps
  <1>6. request' = request /\ calls' = calls /\ partitions' = partitions
            /\ phase' = "execute"
        /\ gatheredRows' = gatheredRows /\ plan' = "partitioned"
    BY <1>1 DEF Points!arguments, Points!planner
  <1>7. Planned'
    <2>1. DOMAIN totals' = DOMAIN totals
      OBVIOUS
    <2> QED
      BY <1>1, <1>5, <1>6, <2>1 DEF PointsIInv, Planned, Points!PerPoint, Planning
  <1>8. /\ Stable(Keys, partitions, gatheredRows, request.points)
        /\ index \in 1..(Len(partitions) + 1)
        /\ \A j \in 1..(index - 1) : \A i \in Rows :
              Keys[i] = partitions[j].key => totals[i] = Points!Wanted(request, calls, i)
    BY <1>1 DEF PointsIInv, Executing
  <1>9. index \in Nat /\ Len(partitions) \in Nat
    BY <1>2, <1>8 DEF PlannerTyped
  <1>10. \A j \in 1..index : \A i \in Rows :
            Keys[i] = partitions[j].key => totals'[i] = Points!Wanted(request, calls, i)
    <2>1. \A j \in 1..index : j = index \/ j \in 1..(index - 1)
      BY <1>9
    <2> QED
      BY <1>8, <2>1 DEF Points!Current
  <1>11. (index + 1) - 1 = index /\ index + 1 \in 1..(Len(partitions) + 1)
    BY <1>1, <1>8, <1>9
  <1>12. \A i : Points!Wanted(request, calls, i)' = Points!Wanted(request, calls, i)
    BY <1>6 DEF Points!Wanted
  <1>13. Executing'
    BY <1>5, <1>6, <1>8, <1>10, <1>11, <1>12 DEF Executing
  <1> QED
    BY <1>5, <1>6, <1>7, <1>13 DEF PointsIInv, Running, Counting, LayingOut, Placing


\* The current group: its rows and its places in the batch.
LEMMA CurrentIs ==
    ASSUME PointsAssumption, PointsIInv, Points!Executing
    PROVE  /\ Points!Current \in PartitionType /\ Points!Current.end <= request.points
           /\ Points!Current.start \in Nat /\ Points!Current.end \in Nat
           /\ Points!Current.end - Points!Current.start \in Nat \ {0}
           /\ Points!Range(RowsIn(gatheredRows, Points!Current))
                = {i \in Rows : Keys[i] = Points!Current.key}
           /\ DOMAIN totals = Rows
  <1>1. /\ phase = "execute" /\ plan = "partitioned" /\ index <= Len(partitions)
    BY DEF Points!Executing
  <1>2. /\ Stable(Keys, partitions, gatheredRows, request.points)
        /\ index \in 1..(Len(partitions) + 1) /\ partitions \in Seq(PartitionType)
    BY <1>1 DEF PointsIInv, Executing, Typed, PlannerTyped
  <1>3. index \in DOMAIN partitions /\ partitions[index] \in PartitionType
    BY <1>1, <1>2
  <1>4. /\ partitions[index].end <= request.points
        /\ Points!Range(RowsIn(gatheredRows, partitions[index]))
             = With(Keys, partitions[index].key, request.points)
    BY <1>2, <1>3 DEF Stable
  <1>5. partitions[index].start \in Nat /\ partitions[index].end \in Nat
    BY <1>3 DEF PartitionType
  <1>6. DOMAIN totals = Rows
    BY <1>1 DEF PointsIInv, Planned
  <1>7. partitions[index].end - partitions[index].start \in Nat \ {0}
    <2> DEFINE g == partitions[index]
               size == g.end - g.start
    <2>1. RowsIn(gatheredRows, g) # << >>
      BY <1>2, <1>3 DEF Stable
    <2>2. size \in Int /\ g \in PartitionType /\ gatheredRows \in Seq(0..MaxPoints)
      BY <1>1, <1>3, <1>5 DEF PointsIInv, Typed, PlannerTyped
    <2> DEFINE run == [k \in 1..size |-> g.start + k]
               group == [k \in 1..size |-> gatheredRows[g.start + k]]
    <2>3. RowsIn(gatheredRows, g) = run \/ RowsIn(gatheredRows, g) = group
      BY <2>2, RowsOfARun, RowsOfAGroup DEF PartitionType
    <2> HIDE DEF g, size
    <2>4. 1..size = {} => run = << >> /\ group = << >>
      OBVIOUS
    <2> HIDE DEF run, group
    <2>5. 1..size # {}
      BY <2>1, <2>3, <2>4
    <2> QED
      BY <2>2, <2>5 DEF g, size
  <1> QED
    BY <1>3, <1>4, <1>5, <1>6, <1>7 DEF Points!Current, With, Rows

LEMMA ContiguousIs ==
    ASSUME PointsAssumption, PointsIInv, Points!Executing, Points!Current.gathered = FALSE,
           NEW points,
           points = SubSeq(Points!Batch, Points!Current.start + 1, Points!Current.end),
           NEW i \in Rows
    PROVE  Points!Written(totals, Points!Current.start,
                          Points!Values(points, Points!Current.key), Len(points))[i] =
             IF Keys[i] = Points!Current.key
             THEN Points!Wanted(request, calls, i) ELSE totals[i]
  <1> DEFINE g == Points!Current
             values_ == Points!Values(points, g.key)
             s == g.start
             e == g.end
  <1>1. /\ g \in PartitionType /\ e <= request.points /\ s \in Nat /\ e \in Nat
        /\ Points!Range(RowsIn(gatheredRows, g)) = {k \in Rows : Keys[k] = g.key}
        /\ DOMAIN totals = Rows /\ e - s \in Nat \ {0}
    BY CurrentIs
  <1>2. /\ request.points \in Nat /\ Rows = 1..request.points
        /\ Points!Batch = [k \in Rows |-> Points!Row(k)] /\ phase = "execute"
    BY ExecutingIs DEF Points!Executing
  <1>3. RowsIn(gatheredRows, g) = [k \in 1..(e - s) |-> s + k]
    BY <1>1, RowsOfARun
  <1> HIDE DEF g, s, e
  <1>4. Points!Range([k \in 1..(e - s) |-> s + k]) = {k \in Rows : Keys[k] = g.key}
    BY <1>1, <1>3
  <1>5. points = [k \in 1..(e - s) |-> Points!Row(s + k)]
    <2> DEFINE batch == Points!Batch
    <2>1. points = [k \in 1..(e - s) |-> batch[s + k]]
      <3> HIDE DEF batch
      <3>1. points = SubSeq(batch, s + 1, e)
        BY DEF batch, g, s, e
      <3>2. batch \in Seq({Points!Row(k) : k \in Rows})
        BY <1>2 DEF batch
      <3>3. SubSeq(batch, s + 1, e) = [k \in 1..(e - s) |-> batch[s + k]]
        BY <1>1, <3>2
      <3> QED
        BY <3>1, <3>3
    <2>2. \A k \in 1..(e - s) : s + k \in Rows
      BY <1>1, <1>2
    <2>3. \A k \in 1..(e - s) : batch[s + k] = Points!Row(s + k)
      BY <1>2, <2>2
    <2> HIDE DEF batch
    <2> QED
      BY <2>1, <2>3
  <1>6. i \in (s + 1)..e <=> Keys[i] = g.key
    <2>1. ASSUME i \in (s + 1)..e PROVE Keys[i] = g.key
      <3>1. i - s \in 1..(e - s) /\ s + (i - s) = i
        BY <1>1, <2>1
      <3>2. i \in Points!Range([k \in 1..(e - s) |-> s + k])
        BY <3>1 DEF Points!Range
      <3> QED
        BY <1>4, <3>2
    <2>2. ASSUME Keys[i] = g.key PROVE i \in (s + 1)..e
      <3>1. i \in Points!Range([k \in 1..(e - s) |-> s + k])
        BY <1>4, <2>2
      <3>2. PICK k \in 1..(e - s) : i = s + k
        BY <3>1 DEF Points!Range
      <3> QED
        BY <1>1, <3>2
    <2> QED
      BY <2>1, <2>2
  <1>7. values_ = [k \in 1..(e - s) |-> ValueOf(Points!Row(s + k), g.key)]
    <2>1. values_ = [k \in DOMAIN points |-> ValueOf(points[k], g.key)]
      BY DEF Points!Values, ValueOf
    <2> HIDE DEF values_
    <2> QED
      BY <1>5, <2>1
  <1> HIDE DEF values_
  <1>8. Len(points) = e - s
    <2> DEFINE size == e - s
    <2>1. size \in Nat
      BY <1>1
    <2>2. points = [k \in 1..size |-> points[k]]
      BY <1>5
    <2> HIDE DEF size
    <2>3. Len([k \in 1..size |-> points[k]]) = size
      BY <2>1
    <2> QED
      BY <2>2, <2>3 DEF size
  <1>9. CASE Keys[i] = g.key
    <2>1. i - s \in 1..(e - s) /\ s + (i - s) = i
      BY <1>1, <1>6, <1>9
    <2>2. Len(points) = e - s
      BY <1>8
    <2>3. i \in (s + 1)..(s + Len(points))
      <3>1. s + (e - s) = e
        BY <1>1
      <3> QED
        BY <1>6, <1>9, <2>2, <3>1
    <2>4. values_[i - s] = ValueOf(Points!Row(i), Keys[i])
      BY <1>7, <1>9, <2>1
    <2>5. values_[i - s] = Points!Wanted(request, calls, i)
      BY <1>2, <2>4, ValueIs
    <2>6. Points!Written(totals, s, values_, Len(points))[i] = values_[i - s]
      BY <1>1, <2>3 DEF Points!Written
    <2> QED
      BY <1>9, <2>5, <2>6 DEF s, g, values_
  <1>10. CASE Keys[i] # g.key
    <2>1. i \notin (s + 1)..(s + Len(points))
      <3>1. s + (e - s) = e
        BY <1>1
      <3> QED
        BY <1>6, <1>10, <1>8, <3>1
    <2>2. Points!Written(totals, s, values_, Len(points))[i] = totals[i]
      BY <1>1, <2>1 DEF Points!Written
    <2> QED
      BY <1>10, <2>2 DEF s, g, values_
  <1> QED
    BY <1>9, <1>10 DEF g

LEMMA ExecuteContiguousIInv ==
    ASSUME PointsAssumption, PointsIInv, Points!ExecuteContiguous, UNCHANGED scene
    PROVE PointsIInv'
  <1> DEFINE points == SubSeq(Points!Batch, Points!Current.start + 1, Points!Current.end)
             values_ == Points!Values(points, Points!Current.key)
             written(k) == Points!Written(totals, Points!Current.start, values_, k)
  <1>1. /\ Points!Executing /\ ~Points!Current.gathered
        /\ UNCHANGED <<sets, plan, Points!planner, gatheredBatch, from>>
        /\ \/ /\ totals' = written(Len(points)) /\ index' = index + 1
              /\ UNCHANGED <<phase, Points!arguments, output, chosen, crossing, lookup>>
           \/ /\ \E k \in 0..Len(points) : totals' = written(k)
              /\ Points!Fail /\ UNCHANGED index
    BY DEF Points!ExecuteContiguous
  <1>2. Bounded(gatheredBatch') /\ Bounded(totals)
    BY <1>1, ExecutingIs DEF Points!Executing
  <1>3. ASSUME NEW k PROVE Bounded(written(k))
                   /\ written(k) = [i \in DOMAIN totals |-> written(k)[i]]
    BY <1>2, WrittenIs DEF Points!Written
  <1>4. Points!Current.gathered = FALSE
    <2>1. Points!Current \in PartitionType
      BY <1>1, CurrentIs
    <2> QED
      BY <1>1, <2>1 DEF PartitionType
  <1>5. CASE /\ totals' = written(Len(points)) /\ index' = index + 1
             /\ UNCHANGED <<phase, Points!arguments, output, chosen, crossing, lookup>>
    <2>1. \A i \in Rows : totals'[i] = IF Keys[i] = Points!Current.key
                                      THEN Points!Wanted(request, calls, i) ELSE totals[i]
      BY <1>1, <1>4, <1>5, ContiguousIs
    <2>2. totals' = [i \in DOMAIN totals |-> totals'[i]]
      <3> HIDE DEF written
      <3> QED
        BY <1>3, <1>5
    <2> QED
      BY <1>1, <1>2, <1>5, <2>1, <2>2, GroupDone
  <1>6. CASE /\ \E k \in 0..Len(points) : totals' = written(k)
             /\ Points!Fail
    <2>1. Bounded(totals')
      <3> HIDE DEF written
      <3> QED
        BY <1>3, <1>6
    <2> QED
      BY <1>1, <1>2, <1>6, <2>1, GroupFailed
  <1> QED
    BY <1>1, <1>5, <1>6

Listed(list, n) == list = [i \in 1..n |-> list[i]]

\* The batch of a group holds the points of its rows.
LEMMA FilledIs ==
    ASSUME PointsAssumption, Bounded(gatheredBatch), NEW size \in 0..MaxPoints, NEW rows,
           Listed(rows, size),
           NEW batch, batch = Points!Filled(gatheredBatch, rows)
    PROVE  /\ Bounded(batch) /\ Len(rows) = size
           /\ DOMAIN SubSeq(batch, 1, Len(rows)) = 1..size
           /\ \A k \in 1..size : SubSeq(batch, 1, Len(rows))[k] = Points!Row(rows[k])
  <1> DEFINE most == IF Len(gatheredBatch) < Len(rows) THEN Len(rows)
          ELSE Len(gatheredBatch)
  <1>1. MaxPoints \in Nat /\ size \in Nat
    BY DEF PointsAssumption, Points!SizeAssumption
  <1>2. Len(rows) = size /\ Len(gatheredBatch) \in 0..MaxPoints
    BY <1>1, BoundedIs DEF Listed
  <1>3. most \in 0..MaxPoints /\ most >= size
    <2> DEFINE m == Len(gatheredBatch)
    <2>1. m \in 0..MaxPoints /\ most = IF m < size THEN size ELSE m
      BY <1>2
    <2> HIDE DEF m, most
    <2> QED
      BY <1>1, <2>1
  <1>4. batch = [k \in 1..most |-> IF k <= Len(rows) THEN Points!Row(rows[k]) ELSE gatheredBatch[k]]
    BY DEF Points!Filled
  <1> HIDE DEF most
  <1>5. Bounded(batch)
    <2>1. batch = [k \in 1..most |-> batch[k]]
      BY <1>4
    <2> QED
      BY <1>3, <2>1, BoundedFunction
  <1>6. SubSeq(batch, 1, size) = [k \in 1..size |-> batch[k]]
    <2>1. \A n \in Nat : SubSeq(batch, 1, n) = [k \in 1..n |-> batch[k]]
      OBVIOUS
    <2> QED
      BY <1>1, <2>1
  <1>7. \A k \in 1..size : batch[k] = Points!Row(rows[k])
    BY <1>1, <1>2, <1>3, <1>4
  <1> QED
    BY <1>2, <1>5, <1>6, <1>7


LEMMA GatheredIs ==
    ASSUME PointsAssumption, PointsIInv, Points!Executing, Points!Current.gathered = TRUE,
           NEW rows, rows
               = SubSeq(gatheredRows, Points!Current.start + 1, Points!Current.end),
           NEW batch, batch = Points!Filled(gatheredBatch, rows),
           NEW values_,
           values_ = Points!Values(SubSeq(batch, 1, Len(rows)), Points!Current.key)
    PROVE  /\ Bounded(batch)
           /\ \A i \in Rows : Points!Scattered(totals, rows, values_)[i] =
                 IF Keys[i] = Points!Current.key
                 THEN Points!Wanted(request, calls, i) ELSE totals[i]
  <1> DEFINE g == Points!Current
             size == g.end - g.start
  <1>1. /\ g \in PartitionType /\ g.end <= request.points /\ g.start \in Nat
               /\ g.end \in Nat
        /\ size \in Nat \ {0}
        /\ Points!Range(RowsIn(gatheredRows, g)) = {k \in Rows : Keys[k] = g.key}
        /\ DOMAIN totals = Rows
    BY CurrentIs
  <1>2. /\ request.points \in Nat /\ request.points <= MaxPoints /\ MaxPoints \in Nat
        /\ phase = "execute" /\ Bounded(gatheredBatch) /\ gatheredRows \in Seq(0..MaxPoints)
    BY ExecutingIs DEF Points!Executing, PlannerTyped
  <1>3. rows = RowsIn(gatheredRows, g)
    BY DEF RowsIn
  <1>4. rows = [k \in 1..size |-> rows[k]]
    <2>1. RowsIn(gatheredRows, g) = [k \in 1..size |-> gatheredRows[g.start + k]]
      BY <1>1, <1>2, RowsOfAGroup
    <2> QED
      BY <1>3, <2>1
  <1>5. size \in 0..MaxPoints
    BY <1>1, <1>2
  <1> HIDE DEF size
  <1>6. /\ Bounded(batch) /\ Len(rows) = size
        /\ DOMAIN SubSeq(batch, 1, Len(rows)) = 1..size
        /\ \A k \in 1..size : SubSeq(batch, 1, Len(rows))[k] = Points!Row(rows[k])
    <2>1. Listed(rows, size)
      BY <1>4 DEF Listed
    <2> QED
      BY <1>2, <1>5, <2>1, FilledIs
  <1>7. values_ = [k \in 1..size |-> ValueOf(Points!Row(rows[k]), g.key)]
    <2> DEFINE points == SubSeq(batch, 1, Len(rows))
    <2>1. values_ = [k \in DOMAIN points |-> ValueOf(points[k], g.key)]
      BY DEF Points!Values, ValueOf
    <2>2. DOMAIN points = 1..size /\ \A k \in 1..size : points[k] = Points!Row(rows[k])
      BY <1>6
    <2> HIDE DEF points, g
    <2> QED
      BY <2>1, <2>2
  <1> HIDE DEF g
  <1>8. DOMAIN rows = 1..size
    BY <1>4
  <1>9. Points!Range(rows) = {k \in Rows : Keys[k] = g.key}
    BY <1>1, <1>3
  <1>10. ASSUME NEW i \in Rows
         PROVE  Points!Scattered(totals, rows, values_)[i] =
                  IF Keys[i] = g.key THEN Points!Wanted(request, calls, i) ELSE totals[i]
    <2>1. Points!Scattered(totals, rows, values_)[i] =
            IF i \in Points!Range(rows) THEN values_[CHOOSE j \in DOMAIN rows : rows[j] = i]
            ELSE totals[i]
      BY <1>1 DEF Points!Scattered
    <2>2. CASE Keys[i] = g.key
      <3> DEFINE j == CHOOSE j \in DOMAIN rows : rows[j] = i
      <3>1. i \in Points!Range(rows)
        BY <1>9, <2>2
      <3>2. \E k \in DOMAIN rows : rows[k] = i
        BY <3>1 DEF Points!Range
      <3>3. j \in DOMAIN rows /\ rows[j] = i
        BY <3>2
      <3>4. Points!Scattered(totals, rows, values_)[i] = values_[j]
        BY <2>1, <3>1
      <3> HIDE DEF j
      <3>5. values_[j] = ValueOf(Points!Row(i), Keys[i])
        BY <1>7, <1>8, <2>2, <3>3
      <3>6. ValueOf(Points!Row(i), Keys[i]) = Points!Wanted(request, calls, i)
        BY <1>2, ValueIs
      <3> QED
        BY <2>2, <3>4, <3>5, <3>6
    <2>3. CASE Keys[i] # g.key
      <3>1. i \notin Points!Range(rows)
        BY <1>9, <2>3
      <3> QED
        BY <2>1, <2>3, <3>1
    <2> QED
      BY <2>2, <2>3
  <1> QED
    BY <1>6, <1>10 DEF g

LEMMA ExecuteGatheredIInv ==
    ASSUME PointsAssumption, PointsIInv, Points!ExecuteGathered, UNCHANGED scene
    PROVE PointsIInv'
  <1> DEFINE rows == SubSeq(gatheredRows, Points!Current.start + 1, Points!Current.end)
             batch == Points!Filled(gatheredBatch, rows)
             values_ == Points!Values(SubSeq(batch, 1, Len(rows)), Points!Current.key)
             scattered == Points!Scattered(totals, rows, values_)
  <1>1. /\ Points!Executing /\ Points!Current.gathered
        /\ UNCHANGED <<sets, plan, Points!planner, from>> /\ gatheredBatch' = batch
        /\ \/ /\ totals' = scattered /\ index' = index + 1
              /\ UNCHANGED <<phase, Points!arguments, output, chosen, crossing, lookup>>
           \/ Points!Fail /\ UNCHANGED <<totals, index>>
    BY DEF Points!ExecuteGathered
  <1>2. Points!Current.gathered = TRUE /\ Bounded(totals)
    <2>1. Points!Current \in PartitionType /\ Bounded(totals)
      BY <1>1, CurrentIs, ExecutingIs DEF Points!Executing
    <2> QED
      BY <1>1, <2>1 DEF PartitionType
  <1>3. scattered = [i \in DOMAIN totals |-> scattered[i]]
    <2> HIDE DEF rows, values_
    <2> QED
      BY DEF Points!Scattered
  <1>4. /\ Bounded(batch)
        /\ \A i \in Rows : scattered[i] = IF Keys[i] = Points!Current.key
                                         THEN Points!Wanted(request, calls, i)
                                             ELSE totals[i]
    <2> HIDE DEF batch, rows, values_
    <2>1. /\ rows = SubSeq(gatheredRows, Points!Current.start + 1, Points!Current.end)
          /\ batch = Points!Filled(gatheredBatch, rows)
          /\ values_ = Points!Values(SubSeq(batch, 1, Len(rows)), Points!Current.key)
      BY DEF rows, batch, values_
    <2> QED
      BY <1>1, <1>2, <2>1, GatheredIs
  <1> HIDE DEF batch, scattered
  <1>5. CASE /\ totals' = scattered /\ index' = index + 1
             /\ UNCHANGED <<phase, Points!arguments, output, chosen, crossing, lookup>>
    <2>1. \A i \in Rows : totals'[i] = IF Keys[i] = Points!Current.key
                                      THEN Points!Wanted(request, calls, i) ELSE totals[i]
      BY <1>4, <1>5
    <2>2. totals' = [i \in DOMAIN totals |-> totals'[i]] /\ Bounded(gatheredBatch')
      BY <1>1, <1>3, <1>4, <1>5
    <2> QED
      BY <1>1, <1>5, <2>1, <2>2, GroupDone
  <1>6. CASE Points!Fail /\ UNCHANGED <<totals, index>>
    BY <1>1, <1>2, <1>4, <1>6, GroupFailed
  <1> QED
    BY <1>1, <1>5, <1>6

LEMMA FinishIInv ==
  ASSUME PointsAssumption, PointsIInv, Points!Finish
  PROVE  PointsIInv'
  <1>1. /\ phase = "execute" /\ Points!GiveBack
        /\ UNCHANGED <<sets, plan, Points!planner, gatheredBatch, totals>>
    BY DEF Points!Finish
  <1>2. CacheTyped /\ PlannerTyped /\ Bounded(gatheredBatch) /\ Bounded(totals)
    BY <1>1, ExecutingIs
  <1>3. CacheTyped' /\ PlannerTyped' /\ Bounded(gatheredBatch)' /\ Bounded(totals)'
    BY <1>1, <1>2 DEF CacheTyped, PlannerTyped, Bounded, Points!planner
  <1> QED
    BY <1>1, <1>3, GivenBack

LEMMA ClearIInv == ASSUME PointsAssumption, PointsIInv, Points!Clear PROVE PointsIInv'
  <1>1. /\ phase = "idle" /\ phase' = "idle" /\ sets' = [a \in Points!Axis |-> << >>]
        /\ partitions' = << >> /\ counts' = << >> /\ gatheredRows' = << >>
        /\ gatheredBatch' = << >> /\ totals' = << >>
        /\ calls' = calls /\ crossing' = crossing /\ lookup' = lookup
    BY DEF Points!Clear, Points!arguments
  <1>2. CacheTyped'
    BY <1>1 DEF CacheTyped, PointsAssumption, Points!SizeAssumption
  <1>3. PlannerTyped' /\ 0 \in 0..MaxPoints
    BY <1>1 DEF PlannerTyped, PointsAssumption, Points!SizeAssumption
  <1>4. Bounded(<< >>)
    BY <1>3 DEF Bounded
  <1>5. Bounded(gatheredBatch') /\ Bounded(totals')
    BY <1>1, <1>4
  <1>6. Typed'
    BY <1>1, <1>2, <1>3, <1>5 DEF Typed, Outside, PointsIInv, Bounded
  <1> QED
    BY <1>1, <1>6
      DEF PointsIInv, Asked, Admitted, Planned, Running, Counting, LayingOut, Placing,
          Executing, Outside, Planning

LEMMA PointsUnchanged ==
    ASSUME PointsAssumption, PointsIInv, UNCHANGED <<scene, selectors>> PROVE PointsIInv'
  <1> USE DEF selectors
  <1>1. Typed' /\ Asked' /\ Admitted' /\ Keys' = Keys /\ Rows' = Rows
    BY RowsKept
      DEF PointsIInv, Typed, Asked, Admitted, CacheTyped, PlannerTyped, Bounded
  <1>2. Planned'
    BY <1>1 DEF PointsIInv, Planned, Points!PerPoint, Points!Homogeneous, Points!Key
  <1>3. Running' /\ Counting' /\ LayingOut' /\ Placing'
    BY <1>1 DEF PointsIInv, Running, Counting, LayingOut, Placing
  <1>4. Executing'
    <2>1. \A i : Points!Wanted(request, calls, i)' = Points!Wanted(request, calls, i)
      BY DEF Points!Wanted
    <2> QED
      BY <1>1, <2>1 DEF PointsIInv, Executing
  <1> QED
    BY <1>1, <1>2, <1>3, <1>4 DEF PointsIInv

LEMMA PointsStep ==
    ASSUME PointsAssumption, PointsIInv,
           \A c \in Scenes : Requests[c] \subseteq Points!Request,
           scene \in Scenes, PointsNext, UNCHANGED scene
    PROVE  PointsIInv'
  <1>1. ASSUME NEW r \in Requests[scene], Points!Call(r) PROVE PointsIInv'
    BY <1>1, CallIInv
  <1>2. ASSUME Points!Step PROVE PointsIInv'
    BY <1>2, RefuseIInv, AdmitIInv, BuildIInv, RunStepIInv, CountStepIInv,
       LayoutStepIInv, PlaceStepIInv, ExecuteWholeIInv, ExecuteContiguousIInv,
       ExecuteGatheredIInv, FinishIInv
      DEF Points!Step
  <1> QED
    BY <1>1, <1>2, ClearIInv DEF PointsNext

----------------------------------------------------------------------------
(* What the invariant gives.                                               *)

LEMMA PointsTyped == ASSUME PointsAssumption, PointsIInv PROVE Points!TypeOK
  <1>1. phase \in {"idle", "admit", "build", "runs", "count", "layout", "place", "execute"}
    BY DEF PointsIInv, Typed, Outside, Planning
  <1>2. \A a \in Points!Axis : Len(sets[a]) <= CacheSize
    BY DEF PointsIInv, Typed, CacheTyped
  <1>3. crossing # lookup
    BY DEF PointsIInv, Typed
  <1>4. \A j \in DOMAIN partitions : /\ partitions[j].start \in 0..MaxPoints
                                    /\ partitions[j].end \in 0..MaxPoints
    <2> SUFFICES ASSUME NEW j \in DOMAIN partitions
                 PROVE  partitions[j].start \in 0..MaxPoints
                            /\ partitions[j].end \in 0..MaxPoints
      OBVIOUS
    <2>1. partitions[j] \in PartitionType /\ partitions[j].start <= MaxPoints
              /\ partitions[j].end <= MaxPoints
      BY DEF PointsIInv, Typed, PlannerTyped
    <2>2. partitions[j].start \in Nat /\ partitions[j].end \in Nat /\ MaxPoints \in Nat
      BY <2>1 DEF PartitionType, PointsAssumption, Points!SizeAssumption
    <2> QED
      BY <2>1, <2>2
  <1>5. MaxPoints \in Nat /\ Len(gatheredRows) <= MaxPoints
    BY DEF PointsIInv, Typed, PlannerTyped, PointsAssumption, Points!SizeAssumption
  <1>6. Len(gatheredBatch) <= MaxPoints /\ Len(totals) <= MaxPoints
    <2>1. Len(gatheredBatch) \in 0..MaxPoints /\ Len(totals) \in 0..MaxPoints
      BY BoundedIs DEF PointsIInv, Typed
    <2> QED
      BY <1>5, <2>1
  <1>7. calls \in 0..MaxCalls
    BY DEF PointsIInv, Typed
  <1> QED
    BY <1>1, <1>2, <1>3, <1>4, <1>5, <1>6, <1>7 DEF Points!TypeOK

LEMMA PlanIsStable ==
  ASSUME PointsAssumption, PointsIInv
  PROVE  Points!StablePartitions
  <1> SUFFICES ASSUME phase = "execute", plan = "partitioned" PROVE Points!StablePartitions
    BY DEF Points!StablePartitions
  <1>1. Stable(Keys, partitions, gatheredRows, request.points)
    BY DEF PointsIInv, Executing
  <1>2. \A j : Points!RowsOf(partitions[j]) = RowsIn(gatheredRows, partitions[j])
    BY DEF Points!RowsOf, RowsIn
  <1>3. Rows = 1..request.points /\ \A i \in Rows : Keys[i] = Points!Key(i)
    BY ExecutingIs
  <1>4. ASSUME NEW j \in DOMAIN partitions
        PROVE  LET rows == Points!RowsOf(partitions[j]) IN
               /\ rows # << >>
               /\ Points!Range(rows)
                      = {i \in 1..request.points : Points!Key(i) = partitions[j].key}
               /\ \A m, n \in DOMAIN rows : m < n => rows[m] < rows[n]
    <2> DEFINE rows == RowsIn(gatheredRows, partitions[j])
    <2>1. /\ rows # << >>
          /\ Points!Range(rows) = With(Keys, partitions[j].key, request.points)
          /\ \A m, n \in DOMAIN rows : m < n => rows[m] < rows[n]
      BY <1>1 DEF Stable
    <2>2. With(Keys, partitions[j].key, request.points)
             = {i \in 1..request.points : Points!Key(i) = partitions[j].key}
      BY <1>3 DEF With
    <2> QED
      BY <1>2, <2>1, <2>2
  <1>5. \A i \in 1..request.points : Points!Known(Points!Key(i))
    BY <1>1, <1>3 DEF Stable, Points!Known
  <1>6. \A j, k \in DOMAIN partitions :
          j < k => Points!RowsOf(partitions[j])[1] < Points!RowsOf(partitions[k])[1]
    BY <1>1, <1>2 DEF Stable
  <1> QED
    BY <1>4, <1>5, <1>6 DEF Points!StablePartitions

----------------------------------------------------------------------------
(* The promise to the caller.                                              *)

Asking == <<request, calls>>

Promise == [Points!Promised!Next]_Points!Promised!vars

\* A call in progress, for the promise.
LEMMA AskingIs ==
    ASSUME PointsAssumption, PointsIInv, phase # "idle"
    PROVE  /\ Asking # << >> /\ Asking[1] = request /\ Asking[2] = calls
           /\ output = Points!Untouched(Asking) /\ output = [i \in Rows |-> Unset]
           /\ Rows = 1..request.points
  BY DEF Asking, PointsIInv, Asked, Points!Untouched, Rows

\* A call whose request passed both looks at it.
LEMMA AcceptableIs ==
    ASSUME PointsAssumption, PointsIInv, phase = "execute"
    PROVE  /\ Points!Acceptable(Asking)
           /\ plan # "partitioned" => ~Points!Mixed(Asking)
  <1>1. /\ Asking[1] = request /\ request.points \in Nat \ {0} /\ Rows = 1..request.points
        /\ \A i \in Rows : Keys[i] = Points!Key(i)
    BY AskingIs, ExecutingIs
  <1>2. /\ \A a \in Points!Axis :
              IF request.ids[a] = None THEN chosen[a] = None
              ELSE /\ request.by[a] = None
                   /\ request.ids[a] # << >> /\ Points!IsInjective(request.ids[a])
        /\ \A a \in Points!Axis :
              request.by[a] # None => request.by[a] \in [Rows -> 0..(Components[a] - 1)]
    BY DEF PointsIInv, Admitted, Planned, Outside
  <1>3. Points!Acceptable(Asking)
    BY <1>1, <1>2 DEF Points!Acceptable
  <1>4. ASSUME plan # "partitioned", NEW a \in Points!Axis, request.by[a] # None
        PROVE  Points!IsConstant(request.by[a])
    <2>1. DOMAIN request.by[a] = 1..request.points
      BY <1>1, <1>2, <1>4
    <2>2. Points!Homogeneous
      BY <1>4 DEF PointsIInv, Planned, Points!PerPoint
    <2>3. ASSUME NEW i \in 1..request.points PROVE request.by[a][i] = request.by[a][1]
      <3>1. i = 1 \/ i \in 2..request.points
        BY <1>1
      <3>2. Points!Key(i) = Points!Key(1)
        BY <2>2, <3>1 DEF Points!Homogeneous
      <3>3. Points!Key(i)[a] = request.by[a][i] /\ Points!Key(1)[a] = request.by[a][1]
        BY <1>4 DEF Points!Key
      <3> QED
        BY <3>2, <3>3
    <2> QED
      BY <2>1, <2>3 DEF Points!IsConstant
  <1> QED
    BY <1>1, <1>3, <1>4 DEF Points!Mixed

LEMMA PromiseInit == ASSUME Points!Init PROVE Points!Promised!Init
  BY DEF Points!Init, Points!Promised!Init

LEMMA PromiseStart ==
    ASSUME PointsAssumption, PointsIInv, NEW r \in Points!Request, Points!Call(r)
    PROVE  Points!Promised!Start
  <1>1. phase = "idle" /\ phase' = "admit" /\ calls' = calls + 1 /\ request' = r
    BY DEF Points!Call
  <1>2. calls + 1 \in Nat
    BY DEF PointsIInv, Typed, PointsAssumption, Points!SizeAssumption
  <1> QED
    BY <1>1, <1>2 DEF Points!Promised!Start

\* A call fails and has written nothing.
LEMMA PromiseFail ==
    ASSUME PointsAssumption, PointsIInv, phase # "idle", Points!Fail
    PROVE  Points!Promised!Fail
  <1>1. phase' = "idle" /\ output' = output
    BY DEF Points!Fail, Points!GiveBack
  <1>2. Asking # << >> /\ output = Points!Untouched(Asking)
    BY AskingIs
  <1> QED
    BY <1>1, <1>2 DEF Points!Promised!Fail, Asking

\* A call goes on.
LEMMA PromiseWaits ==
    ASSUME phase # "idle", phase' # "idle", UNCHANGED Points!arguments
    PROVE  UNCHANGED Points!Promised!vars
  BY DEF Points!Promised!vars, Points!arguments

LEMMA PromiseSucceed ==
    ASSUME PointsAssumption, PointsIInv, phase = "execute", Points!GiveBack,
           NEW values_, values_ = [i \in Rows |-> Points!Wanted(request, calls, i)],
           output' = Points!Scaled(values_)
    PROVE  Points!Promised!Succeed
  <1>1. phase' = "idle"
    BY DEF Points!GiveBack
  <1>2. /\ Asking # << >> /\ Asking[1] = request /\ Asking[2] = calls
        /\ Points!Acceptable(Asking)
    BY AskingIs, AcceptableIs
  <1>3. values_ = Points!Unfinished(Asking)
    BY <1>2 DEF Points!Unfinished, Rows
  <1>4. output' = Points!Answers(Asking)
    BY <1>3 DEF Points!Answers
  <1> QED
    BY <1>1, <1>2, <1>4 DEF Points!Promised!Succeed, Asking

LEMMA PromiseWhole ==
    ASSUME PointsAssumption, PointsIInv, Points!ExecuteWhole PROVE Promise
  <1> DEFINE direct == plan = "none" \/ LaneOf[scene] = "generic"
             values_ == Points!Values(Points!Batch,
             IF plan = "none" THEN Points!NoKey ELSE Points!Key(1))
  <1>1. /\ phase = "execute" /\ plan # "partitioned" /\ Points!GiveBack
        /\ \/ output' = Points!Scaled(values_)
           \/ \E k \in 0..request.points :
                output' = IF direct THEN Points!Written(output, 0, values_, k) ELSE output
    BY DEF Points!ExecuteWhole
  <1>2. values_ = [i \in Rows |-> Points!Wanted(request, calls, i)]
    BY <1>1, WholeIs
  <1> HIDE DEF values_
  <1>3. CASE output' = Points!Scaled(values_)
    BY <1>1, <1>2, <1>3, PromiseSucceed DEF Promise, Points!Promised!Next
  <1>4. CASE \E k \in 0..request.points :
                output' = IF direct THEN Points!Written(output, 0, values_, k) ELSE output
    <2>1. PICK k \in 0..request.points :
            output' = IF direct THEN Points!Written(output, 0, values_, k) ELSE output
      BY <1>4
    <2>2. /\ Asking # << >> /\ Asking[1] = request /\ Asking[2] = calls
          /\ output = Points!Untouched(Asking) /\ output = [i \in Rows |-> Unset]
          /\ Points!Acceptable(Asking) /\ ~Points!Mixed(Asking)
          /\ Rows = 1..request.points /\ request.points \in Nat
      BY <1>1, AskingIs, AcceptableIs, ExecutingIs
    <2>3. values_ = Points!Unfinished(Asking)
      BY <1>2, <2>2 DEF Points!Unfinished
    <2>4. DOMAIN output' = Rows
      BY <2>1, <2>2 DEF Points!Written
    <2>5. \A i \in Rows : \/ output'[i] = Points!Untouched(Asking)[i]
                          \/ output'[i] = Points!Unfinished(Asking)[i]
      <3> SUFFICES ASSUME NEW i \in Rows
                   PROVE  output'[i] = output[i] \/ output'[i] = values_[i]
        BY <2>2, <2>3
      <3>1. i - 0 = i
        BY <2>2
      <3> QED
        BY <2>1, <2>2, <3>1 DEF Points!Written
    <2>6. phase' = "idle"
      BY <1>1 DEF Points!GiveBack
    <2>7. DOMAIN Points!Untouched(Asking) = Rows
      BY <2>2
    <2>8. Points!Promised!Fail
      BY <1>1, <2>2, <2>4, <2>5, <2>6, <2>7 DEF Points!Promised!Fail, Asking
    <2> QED
      BY <2>8 DEF Promise, Points!Promised!Next
  <1> QED
    BY <1>1, <1>3, <1>4

LEMMA PromiseFinish ==
    ASSUME PointsAssumption, PointsIInv, Points!Finish PROVE Points!Promised!Succeed
  <1>1. /\ phase = "execute" /\ plan = "partitioned" /\ index > Len(partitions)
        /\ output' = Points!Scaled(totals) /\ Points!GiveBack
    BY DEF Points!Finish
  <1>2. /\ Stable(Keys, partitions, gatheredRows, request.points)
        /\ index \in 1..(Len(partitions) + 1)
        /\ \A j \in 1..(index - 1) : \A i \in Rows :
              Keys[i] = partitions[j].key => totals[i] = Points!Wanted(request, calls, i)
        /\ DOMAIN totals = Rows /\ partitions \in Seq(PartitionType) /\ Bounded(totals)
    BY <1>1 DEF PointsIInv, Executing, Planned, Typed, PlannerTyped
  <1>3. \A j \in DOMAIN partitions : j \in 1..(index - 1)
    <2>1. DOMAIN partitions = 1..Len(partitions) /\ Len(partitions) \in Nat
      BY <1>2
    <2> QED
      BY <1>1, <1>2, <2>1
  <1>4. ASSUME NEW i \in Rows PROVE totals[i] = Points!Wanted(request, calls, i)
    <2>1. PICK j \in DOMAIN partitions : partitions[j].key = Keys[i]
      BY <1>2 DEF Stable, Rows
    <2> QED
      BY <1>2, <1>3, <2>1
  <1>5. totals = [i \in Rows |-> totals[i]]
    BY <1>2, BoundedIs
  <1>6. totals = [i \in Rows |-> Points!Wanted(request, calls, i)]
    BY <1>4, <1>5
  <1> QED
    BY <1>1, <1>6, PromiseSucceed

\* The other steps of a call wait or fail.
LEMMA PromiseTurn ==
    ASSUME PointsAssumption, PointsIInv,
           \/ Points!Refuse \/ Points!Admit \/ Points!Build \/ Points!RunStep
                  \/ Points!CountStep
           \/ Points!LayoutStep \/ Points!PlaceStep \/ Points!ExecuteContiguous
           \/ Points!ExecuteGathered
    PROVE  Promise
  <1>1. ASSUME phase # "idle", Points!Fail PROVE Promise
    BY <1>1, PromiseFail DEF Promise, Points!Promised!Next
  <1>2. ASSUME phase # "idle", phase' # "idle", UNCHANGED Points!arguments PROVE Promise
    BY <1>2, PromiseWaits DEF Promise
  <1>3. CASE Points!Refuse
    BY <1>1, <1>3 DEF Points!Refuse
  <1>4. CASE Points!Admit
    <2>1. phase = "admit"
              /\ (Points!Fail \/ (phase' = "build" /\ UNCHANGED Points!arguments))
      BY <1>4 DEF Points!Admit
    <2> QED
      BY <1>1, <1>2, <2>1
  <1>5. CASE Points!Build
    <2>1. /\ phase = "build"
          /\ Points!Fail \/ (phase' \in {"runs", "execute"} /\ UNCHANGED Points!arguments)
      BY <1>5 DEF Points!Build
    <2> QED
      BY <1>1, <1>2, <2>1
  <1>6. CASE Points!RunStep
    <2>1. /\ phase = "runs" /\ phase' \in {"runs", "execute", "count"}
          /\ UNCHANGED Points!arguments
      BY <1>6 DEF Points!RunStep
    <2> QED
      BY <1>2, <2>1
  <1>7. CASE Points!CountStep
    <2>1. phase = "count" /\ phase' \in {"count", "layout"} /\ UNCHANGED Points!arguments
      BY <1>7 DEF Points!CountStep
    <2> QED
      BY <1>2, <2>1
  <1>8. CASE Points!LayoutStep
    <2>1. phase = "layout" /\ phase' \in {"layout", "place"} /\ UNCHANGED Points!arguments
      BY <1>8 DEF Points!LayoutStep
    <2> QED
      BY <1>2, <2>1
  <1>9. CASE Points!PlaceStep
    <2>1. phase = "place" /\ phase' \in {"place", "execute"} /\ UNCHANGED Points!arguments
      BY <1>9 DEF Points!PlaceStep
    <2> QED
      BY <1>2, <2>1
  <1>10. CASE Points!ExecuteContiguous
    <2>1. /\ phase = "execute"
          /\ Points!Fail \/ (UNCHANGED phase /\ UNCHANGED Points!arguments)
      BY <1>10 DEF Points!ExecuteContiguous, Points!Executing
    <2> QED
      BY <1>1, <1>2, <2>1
  <1>11. CASE Points!ExecuteGathered
    <2>1. /\ phase = "execute"
          /\ Points!Fail \/ (UNCHANGED phase /\ UNCHANGED Points!arguments)
      BY <1>11 DEF Points!ExecuteGathered, Points!Executing
    <2> QED
      BY <1>1, <1>2, <2>1
  <1> QED
    BY <1>3, <1>4, <1>5, <1>6, <1>7, <1>8, <1>9, <1>10, <1>11

\* Every step of this part is a step of the promise, or none.
LEMMA PromiseStep ==
    ASSUME PointsAssumption, PointsIInv,
           \A c \in Scenes : Requests[c] \subseteq Points!Request,
           scene \in Scenes, PointsNext \/ UNCHANGED selectors
    PROVE  Promise
  <1>1. ASSUME NEW r \in Requests[scene], Points!Call(r) PROVE Promise
    BY <1>1, PromiseStart DEF Promise, Points!Promised!Next
  <1>2. ASSUME Points!Clear PROVE Promise
    <2>1. UNCHANGED <<phase, request, calls, output>>
      BY <1>2 DEF Points!Clear, Points!arguments
    <2> QED
      BY <2>1 DEF Promise, Points!Promised!vars
  <1>3. ASSUME Points!Step PROVE Promise
    BY <1>3, PromiseTurn, PromiseWhole, PromiseFinish
      DEF Points!Step, Promise, Points!Promised!Next
  <1>4. ASSUME UNCHANGED selectors PROVE Promise
    BY <1>4 DEF Promise, Points!Promised!vars, selectors
  <1> QED
    BY <1>1, <1>2, <1>3, <1>4 DEF PointsNext

----------------------------------------------------------------------------
(* The companion: its inductive invariant                                  *)

\* The amplitudes of one point.
Amplitudes(h, values, point) ==
    [d \in Destination |->
        IF d \in Live[h] THEN <<[helicity |-> h, values |-> values, point |-> point]>>
            ELSE << >>]

\* Of a call in progress: the parameters are those of the runtime, and the points
\* of the tiles before this one have their amplitudes, the others nothing.
CallInv ==
    call # None =>
        /\ call = [helicity |-> call.helicity, batch |-> call.batch, from |-> call.from,
                   phase |-> call.phase, output |-> call.output]
        /\ call.helicity \in Helicity \ StructuralZero
        /\ call.batch \in Companion!Batch /\ call.from \in Nat
               /\ call.from < Len(call.batch)
        /\ held = model
        /\ call.output =
              [p \in DOMAIN call.batch |->
                  IF p <= call.from THEN <<Amplitudes(call.helicity, model, call.batch[p])>>
                                    ELSE << >>]

\* The family is bound to the helicity of the call and has room for the tile.
Bound ==
    call # None /\ call.phase \in {"execute", "contract"} =>
        family \in Companion!Family /\ family.helicity = call.helicity
            /\ Companion!Count <= family.capacity

\* The workspace holds the amplitudes of the tile.
Computed ==
    call # None /\ call.phase = "contract" =>
        \A d \in Destination : \A p \in 1..Companion!Count :
            amplitude[d][p] = Amplitudes(call.helicity, model, call.batch[call.from + p])[d]

\* Parameters are never of a version to come.
Older == family # None => family.applied = None \/ family.applied <= version

CompanionIInv ==
    /\ Companion!TypeOK /\ Older /\ tables = [lane \in Companion!Lane |-> tables[lane]]
    /\ Companion!TablesAreOfRetained /\ Companion!AnswersItsRequest
    /\ CallInv /\ Bound /\ Computed

----------------------------------------------------------------------------
LEMMA BatchIs ==
    ASSUME Companion!CompanionAssumption, NEW b \in Companion!Batch
    PROVE  Len(b) \in Nat \ {0} /\ DOMAIN b = 1..Len(b)
  <1>1. PICK n \in 1..MaxBatch : b \in [1..n -> Point]
    BY DEF Companion!Batch
  <1>2. n \in Nat \ {0}
    BY DEF Companion!CompanionAssumption
  <1> QED
    BY <1>1, <1>2

\* A tile is not empty, not larger than a tile, and within the batch.
LEMMA CountIs ==
    ASSUME Companion!CompanionAssumption, CallInv, call # None
    PROVE  Companion!Count \in 1..TileSize /\ call.from + Companion!Count <= Len(call.batch)
  BY BatchIs DEF CallInv, Companion!Count, Companion!CompanionAssumption

LEMMA AppendToNone == \A x : Append(<< >>, x) = <<x>>
  OBVIOUS

LEMMA CompanionInit ==
  ASSUME Companion!CompanionAssumption, Companion!Init
  PROVE  CompanionIInv
  BY DEF Companion!CompanionAssumption, Companion!Init, CompanionIInv,
         Companion!TypeOK, Companion!TablesAreOfRetained, Companion!AnswersItsRequest,
         CallInv, Bound, Computed, Companion!NoTables, Older

\* Dropping what an exposed family left leaves no tables at all.
LEMMA InvalidatedIs ==
    ASSUME CompanionIInv
    PROVE  /\ DOMAIN Companion!Invalidated = Companion!Lane
                  /\ Companion!Invalidated
                         = [lane \in Companion!Lane |-> Companion!Invalidated[lane]]
           /\ \A lane \in Companion!Lane : Companion!Invalidated[lane].groups = {}
  <1>1. CASE family # None /\ family.exposed
    BY <1>1 DEF Companion!Invalidated, Companion!NoTables
  <1>2. CASE ~(family # None /\ family.exposed)
    BY <1>2
      DEF Companion!Invalidated, CompanionIInv, Companion!TypeOK,
          Companion!TablesAreOfRetained
  <1> QED
    BY <1>1, <1>2

----------------------------------------------------------------------------
(* Between calls                                                           *)

LEMMA CompanionClear ==
  ASSUME Companion!CompanionAssumption, CompanionIInv, UNCHANGED packed, Companion!Clear
  PROVE  CompanionIInv'
  <1>1. Companion!TypeOK' /\ tables' = [lane \in Companion!Lane |-> tables'[lane]]
    BY InvalidatedIs DEF CompanionIInv, Companion!Clear, Companion!TypeOK
  <1>2. Companion!TablesAreOfRetained'
    BY InvalidatedIs DEF Companion!Clear, Companion!TablesAreOfRetained
  <1> QED
    BY <1>1, <1>2
      DEF CompanionIInv, Companion!Clear, Companion!AnswersItsRequest, CallInv, Bound,
          Computed, Older

LEMMA SetModelParametersIInv ==
    ASSUME Companion!CompanionAssumption, CompanionIInv, UNCHANGED packed, NEW v \in Value,
           Companion!SetModelParameters(v) PROVE CompanionIInv'
  <1> USE DEF Companion!SetModelParameters, Companion!executor
  <1>1. Companion!TypeOK' /\ Companion!TablesAreOfRetained'
    BY DEF CompanionIInv, Companion!TypeOK, Companion!TablesAreOfRetained,
           Companion!Storage, Companion!Stride
  <1> QED
    BY <1>1
      DEF CompanionIInv, Companion!AnswersItsRequest, CallInv, Bound, Computed, Older

LEMMA CompanionStart ==
    ASSUME Companion!CompanionAssumption, CompanionIInv, UNCHANGED packed,
           NEW h \in Helicity, NEW b \in Companion!Batch, Companion!Start(h, b)
    PROVE  CompanionIInv'
  <1> USE DEF Companion!Start, Companion!SetParameterPlanes
  <1>1. /\ version \in 0..MaxVersion /\ MaxVersion \in Nat /\ Older /\ Companion!TypeOK
        /\ None \notin 0..MaxVersion
    BY DEF CompanionIInv, Companion!TypeOK, Companion!CompanionAssumption
  <1>2. version' \in 0..MaxVersion /\ version' \in {version, version + 1} /\ held' = model
    BY <1>1
  <1>3. Older'
    BY <1>1, <1>2 DEF Older, Companion!TypeOK, Companion!Family
  <1>4. family # None /\ family.applied = version' => family.values = held'
    <2>1. CASE held = model
      BY <1>1, <2>1 DEF Companion!TypeOK
    <2>2. CASE held # model
      BY <1>1, <2>2 DEF Older, Companion!TypeOK, Companion!Family
    <2> QED
      BY <2>1, <2>2
  <1>5. Len(b) \in Nat \ {0} /\ DOMAIN b = 1..Len(b)
    BY BatchIs
  <1>6. Companion!TypeOK'
    BY <1>1, <1>2, <1>4, <1>5 DEF Companion!TypeOK
  <1>7. Companion!TablesAreOfRetained'
            /\ tables' = [lane \in Companion!Lane |-> tables'[lane]]
    BY DEF CompanionIInv, Companion!TablesAreOfRetained, Companion!Storage,
           Companion!Stride
  <1>8. CallInv'
    BY <1>2, <1>5 DEF CallInv
  <1> QED
    BY <1>3, <1>6, <1>7, <1>8
      DEF CompanionIInv, Companion!AnswersItsRequest, Bound, Computed

LEMMA CompanionStartZero ==
    ASSUME Companion!CompanionAssumption, CompanionIInv, UNCHANGED packed,
           NEW h \in Helicity, NEW b \in Companion!Batch, Companion!StartZero(h, b)
    PROVE  CompanionIInv'
  <1> USE DEF Companion!StartZero, Companion!executor
  <1>1. Companion!TypeOK' /\ Companion!TablesAreOfRetained'
    BY DEF CompanionIInv, Companion!TypeOK, Companion!TablesAreOfRetained,
           Companion!Storage, Companion!Stride
  <1>2. Companion!AnswersItsRequest'
    BY DEF Companion!AnswersItsRequest
  <1> QED
    BY <1>1, <1>2 DEF CompanionIInv, CallInv, Bound, Computed, Older

----------------------------------------------------------------------------
(* The steps of a call                                                     *)

LEMMA CompanionFail ==
  ASSUME Companion!CompanionAssumption, CompanionIInv, UNCHANGED packed, Companion!Fail
  PROVE  CompanionIInv'
  <1> USE DEF Companion!Fail, Companion!executor
  <1>1. Companion!TypeOK' /\ Companion!TablesAreOfRetained'
    BY DEF CompanionIInv, Companion!TypeOK, Companion!TablesAreOfRetained,
           Companion!Storage, Companion!Stride
  <1> QED
    BY <1>1
      DEF CompanionIInv, Companion!AnswersItsRequest, CallInv, Bound, Computed, Older

\* The phase of the call is all that changes of it.
LEMMA GoIs ==
    ASSUME CallInv, call # None, NEW to, Companion!Go(to), UNCHANGED held,
           Companion!AnswersItsRequest
    PROVE  /\ CallInv' /\ Companion!AnswersItsRequest' /\ Companion!Count' = Companion!Count
           /\ call'.helicity = call.helicity /\ call'.phase = to
           /\ call'.from = call.from /\ call'.batch = call.batch
  <1>0. call' = [call EXCEPT !.phase = to] /\ UNCHANGED <<model, answer>>
    BY DEF Companion!Go
  <1>1. /\ call'.helicity = call.helicity /\ call'.from = call.from
        /\ call'.batch = call.batch /\ call'.output = call.output
    BY <1>0
  <1> QED
    BY <1>0, <1>1
      DEF CallInv, Companion!AnswersItsRequest, Amplitudes, Companion!Count

LEMMA PrepareRetainedIInv ==
  ASSUME Companion!CompanionAssumption, CompanionIInv, UNCHANGED packed,
         Companion!PrepareRetained
  PROVE  CompanionIInv'
  <1>1. /\ UNCHANGED <<held, version, family, amplitude, active, tables, model, answer>>
        /\ call # None /\ Companion!Go("execute") /\ Companion!Retained
               /\ Companion!Count <= family.capacity
    BY DEF Companion!PrepareRetained, Companion!executor, Companion!At, Companion!Go
  <1>2. /\ CallInv' /\ Companion!AnswersItsRequest' /\ Companion!Count' = Companion!Count
        /\ call'.helicity = call.helicity /\ call'.phase = "execute"
        /\ call'.from = call.from /\ call'.batch = call.batch
    BY <1>1, GoIs DEF CompanionIInv
  <1>3. Companion!TypeOK' /\ Older' /\ Companion!TablesAreOfRetained'
            /\ tables' = [lane \in Companion!Lane |-> tables'[lane]]
    BY <1>1, <1>2
      DEF CompanionIInv, Companion!TypeOK, Older, Companion!TablesAreOfRetained,
          Companion!Storage, Companion!Stride
  <1>4. Bound' /\ Computed'
    BY <1>1, <1>2
      DEF CompanionIInv, Companion!TypeOK, Bound, Computed, Companion!Retained
  <1> QED
    BY <1>2, <1>3, <1>4 DEF CompanionIInv

\* A workspace is allocated: nothing is known of it, and no table is left.
LEMMA PreparedIInv ==
    ASSUME Companion!CompanionAssumption, CompanionIInv, UNCHANGED packed, call # None,
           Companion!Go("execute"),
           tables' = Companion!Invalidated, active' = 0, UNCHANGED <<held, version>>,
           family' \in Companion!Family, family'.rows # family'.work,
           family'.applied = None,
           family'.helicity = call.helicity, family'.capacity = Companion!Count
    PROVE  CompanionIInv'
  <1>1. /\ CallInv' /\ Companion!AnswersItsRequest' /\ Companion!Count' = Companion!Count
        /\ call'.helicity = call.helicity /\ call'.phase = "execute"
        /\ call'.from = call.from /\ call'.batch = call.batch
    BY GoIs DEF CompanionIInv
  <1>2. model' = model /\ None \notin 0..MaxVersion /\ Companion!Count \in 1..TileSize
            /\ TileSize \in Nat
    BY CountIs DEF Companion!Go, Companion!CompanionAssumption, CompanionIInv
  <1>3. Companion!TypeOK' /\ Older'
    BY <1>1, <1>2, InvalidatedIs DEF CompanionIInv, Companion!TypeOK, Older, CallInv
  <1>4. Companion!TablesAreOfRetained'
            /\ tables' = [lane \in Companion!Lane |-> tables'[lane]]
    BY InvalidatedIs DEF Companion!TablesAreOfRetained
  <1>5. Bound' /\ Computed'
    BY <1>1, <1>2 DEF Bound, Computed
  <1> QED
    BY <1>1, <1>3, <1>4, <1>5 DEF CompanionIInv

LEMMA PrepareIInv ==
    ASSUME Companion!CompanionAssumption, CompanionIInv, UNCHANGED packed,
           Companion!PrepareLarger \/ Companion!PrepareNew PROVE CompanionIInv'
  <1>1. call # None /\ Companion!Count \in 1..TileSize /\ call.helicity \in Helicity
    BY CountIs
      DEF CompanionIInv, CallInv, Companion!PrepareLarger, Companion!PrepareNew,
          Companion!At
  <1>2. CASE Companion!PrepareLarger
    <2>1. family \in Companion!Family /\ family # None /\ family.helicity = call.helicity
      BY <1>2
        DEF Companion!PrepareLarger, Companion!Retained, CompanionIInv,
            Companion!TypeOK
    <2>2. PICK w \in Address \ Companion!Used : family' = Companion!Grown(w)
      BY <1>2 DEF Companion!PrepareLarger
    <2>3. /\ family'.rows = family.rows /\ family'.work = w /\ family'.applied = None
          /\ family'.helicity = family.helicity /\ family'.capacity = Companion!Count
          /\ family' \in Companion!Family
      BY <1>1, <2>1, <2>2 DEF Companion!Grown, Companion!Family
    <2> QED
      BY <1>1, <1>2, <2>1, <2>2, <2>3, PreparedIInv
        DEF Companion!PrepareLarger, Companion!Used
  <1>3. CASE Companion!PrepareNew
    <2>1. PICK r \in Address \ Companion!Used, w \in Address \ Companion!Used :
             /\ r # w
             /\ family' = [helicity |-> call.helicity, rows |-> r, work |-> w,
                capacity |-> Companion!Count,
                           values |-> None, applied |-> None, exposed |-> FALSE]
      BY <1>3 DEF Companion!PrepareNew
    <2>2. family' \in Companion!Family
      BY <1>1, <2>1 DEF Companion!Family
    <2> QED
      BY <1>1, <1>3, <2>1, <2>2, PreparedIInv DEF Companion!PrepareNew
  <1> QED
    BY <1>2, <1>3

----------------------------------------------------------------------------
(* The tile                                                                *)

\* The table that a kernel finds or makes for the address of the rows is of the
\* rows that are there now, and its storage is the workspace that is there now.
LEMMA ExecutedIs ==
    ASSUME Companion!CompanionAssumption, CompanionIInv, Companion!At("execute")
    PROVE  /\ Companion!Group = [rows |-> family.rows, helicity |-> family.helicity]
           /\ family \in Companion!Family /\ family # None
                  /\ family.helicity = call.helicity
           /\ Companion!Refreshed \in Companion!Family
                  /\ Companion!Refreshed.values = model
                         /\ Companion!Refreshed.applied = version
           /\ Companion!Refreshed.rows = family.rows
                  /\ Companion!Refreshed.work = family.work
           /\ Companion!Refreshed.capacity = family.capacity
                  /\ Companion!Refreshed.helicity = family.helicity
           /\ Companion!Refreshed.exposed
           /\ Companion!Cached = [lane \in Companion!Lane |-> IF lane = Companion!KernelLane
                          THEN [storage |-> Companion!Storage,
                          groups |-> {Companion!Group}] ELSE tables[lane]]
  <1>1. /\ family \in Companion!Family /\ family # None /\ family.helicity = call.helicity
        /\ held = model /\ held \in Value /\ version \in 0..MaxVersion
    BY DEF CompanionIInv, Companion!At, Bound, CallInv, Companion!TypeOK,
           Companion!CompanionAssumption
  <1>2. Companion!KernelLane \in Companion!Lane
    BY DEF Companion!KernelLane, Companion!Lane
  <1>3. Companion!Known(tables[Companion!KernelLane])
            \subseteq {[rows |-> family.rows, helicity |-> family.helicity]}
    BY <1>2 DEF Companion!Known, CompanionIInv, Companion!TablesAreOfRetained
  <1>4. Companion!Group = [rows |-> family.rows, helicity |-> family.helicity]
    BY <1>3 DEF Companion!Group
  <1>5. /\ Companion!Refreshed \in Companion!Family /\ Companion!Refreshed.values = model
               /\ Companion!Refreshed.applied = version
        /\ Companion!Refreshed.rows = family.rows /\ Companion!Refreshed.work = family.work
        /\ Companion!Refreshed.capacity = family.capacity
               /\ Companion!Refreshed.helicity = family.helicity
        /\ Companion!Refreshed.exposed
    BY <1>1 DEF Companion!Refreshed, Companion!Family, CompanionIInv, Companion!TypeOK
  <1>6. Companion!Known(tables[Companion!KernelLane]) \cup {Companion!Group}
            = {Companion!Group}
    BY <1>3, <1>4
  <1>7. Companion!Cached = [lane \in Companion!Lane |-> IF lane = Companion!KernelLane
                    THEN [storage |-> Companion!Storage, groups |-> {Companion!Group}]
                        ELSE tables[lane]]
    BY <1>2, <1>6 DEF Companion!Cached, CompanionIInv
  <1> QED
    BY <1>1, <1>4, <1>5, <1>7

\* What a tile leaves but for its amplitudes, whether its last kernel failed or not.
LEMMA ExecutedKeeps ==
    ASSUME Companion!CompanionAssumption, CompanionIInv, UNCHANGED packed,
           Companion!At("execute"), family' = Companion!Refreshed,
           tables' \in {tables, Companion!Cached}, UNCHANGED <<held, version, model>>,
           active' \in {0, Companion!Count},
           call' = None \/ (call'.from = call.from /\ call'.batch = call.batch)
    PROVE  Companion!TypeOK' /\ Older' /\ Companion!TablesAreOfRetained'
               /\ tables' = [lane \in Companion!Lane |-> tables'[lane]]
  <1>1. /\ family' \in Companion!Family /\ family' # None /\ family'.exposed
        /\ family'.applied = version /\ family'.values = model
        /\ family'.rows = family.rows /\ family'.work = family.work
        /\ family'.capacity = family.capacity /\ family'.helicity = family.helicity
        /\ Companion!Group = [rows |-> family.rows, helicity |-> family.helicity]
    BY ExecutedIs DEF Companion!CompanionAssumption
  <1>2. Companion!TypeOK /\ family # None /\ call # None /\ held = model
        /\ call.from < Len(call.batch) /\ Companion!Count <= family.capacity
        /\ Companion!Count \in Nat /\ version \in Nat /\ family.capacity \in Nat
    BY ExecutedIs, CountIs
      DEF CompanionIInv, Companion!At, CallInv, Bound, Companion!TypeOK,
          Companion!CompanionAssumption, Companion!Family
  <1>3. Companion!Storage' = Companion!Storage
    BY <1>1 DEF Companion!Storage, Companion!Stride
  <1>4. \A lane \in Companion!Lane : \/ tables'[lane] = tables[lane]
                           \/ tables'[lane]
                                  = [storage |-> Companion!Storage,
                                  groups |-> {Companion!Group}]
    BY ExecutedIs
  <1>5. DOMAIN tables' = Companion!Lane
            /\ tables' = [lane \in Companion!Lane |-> tables'[lane]]
    BY ExecutedIs DEF CompanionIInv
  <1>6. Companion!TablesAreOfRetained'
    <2> SUFFICES ASSUME NEW lane \in Companion!Lane, tables'[lane].groups # {}
                 PROVE  /\ tables'[lane].storage = Companion!Storage
                        /\ tables'[lane].groups =
                              {[rows |-> family.rows, helicity |-> family.helicity]}
      BY <1>1, <1>3 DEF Companion!TablesAreOfRetained
    <2> QED
      BY <1>1, <1>4 DEF CompanionIInv, Companion!TablesAreOfRetained
  <1>7. Companion!TypeOK'
    BY <1>1, <1>2, <1>5 DEF Companion!TypeOK
  <1>8. Older'
    BY <1>1, <1>2 DEF Older
  <1> QED
    BY <1>5, <1>6, <1>7, <1>8

LEMMA ExecuteFailsIInv ==
  ASSUME Companion!CompanionAssumption, CompanionIInv, UNCHANGED packed,
         Companion!ExecuteFails
  PROVE  CompanionIInv'
  <1>1. tables' \in {tables, Companion!Cached}
    BY DEF Companion!ExecuteFails
  <1>2. Companion!TypeOK' /\ Older' /\ Companion!TablesAreOfRetained'
            /\ tables' = [lane \in Companion!Lane |-> tables'[lane]]
    BY <1>1, ExecutedKeeps DEF Companion!ExecuteFails
  <1> QED
    BY <1>2
      DEF Companion!ExecuteFails, CompanionIInv, Companion!AnswersItsRequest, CallInv,
          Bound, Computed

LEMMA ExecuteIInv ==
  ASSUME Companion!CompanionAssumption, CompanionIInv, UNCHANGED packed, Companion!Execute
  PROVE  CompanionIInv'
  <1>1. /\ call # None /\ Companion!Go("contract") /\ Companion!At("execute")
               /\ UNCHANGED <<held, version, model>>
        /\ family' = Companion!Refreshed
               /\ amplitude' = Companion!Written(Live[Companion!Group.helicity])
    BY DEF Companion!Execute, Companion!At, Companion!Go
  <1>2. /\ CallInv' /\ Companion!AnswersItsRequest' /\ Companion!Count' = Companion!Count
        /\ call'.helicity = call.helicity /\ call'.phase = "contract"
        /\ call'.from = call.from /\ call'.batch = call.batch
    BY <1>1, GoIs DEF CompanionIInv
  <1>3. Companion!TypeOK' /\ Older' /\ Companion!TablesAreOfRetained'
            /\ tables' = [lane \in Companion!Lane |-> tables'[lane]]
    BY <1>1, <1>2, ExecutedKeeps DEF Companion!Execute
  <1>4. Bound'
    BY <1>1, <1>2, ExecutedIs DEF Bound, CompanionIInv, Companion!At
  <1>5. Computed'
    <2> SUFFICES ASSUME NEW d \in Destination, NEW p \in 1..Companion!Count
                 PROVE  amplitude'[d][p]
                          = Amplitudes(call.helicity, model, call.batch[call.from + p])[d]
      BY <1>1, <1>2 DEF Computed, Amplitudes
    <2>1. p \in 1..TileSize /\ p <= Companion!Count
      BY <1>1, CountIs DEF CompanionIInv, Companion!CompanionAssumption
    <2>2. Companion!Cleared[d][p] = << >>
      BY <2>1 DEF Companion!Cleared
    <2>3. Companion!Group.helicity = call.helicity /\ Companion!Refreshed.values = model
      BY <1>1, ExecutedIs
    <2>4. amplitude'[d][p] =
            IF d \in Live[call.helicity]
            THEN Append(<< >>, [helicity |-> call.helicity, values |-> model,
                                point |-> call.batch[call.from + p]])
            ELSE << >>
      BY <1>1, <2>1, <2>2, <2>3 DEF Companion!Written
    <2> QED
      BY <2>4, AppendToNone DEF Amplitudes
  <1> QED
    BY <1>2, <1>3, <1>4, <1>5 DEF CompanionIInv

\* The points of the tile get their amplitudes, and each gets them once.
LEMMA AccumulatedIs ==
    ASSUME Companion!CompanionAssumption, CompanionIInv, Companion!At("contract")
    PROVE  Companion!Accumulated = [p \in DOMAIN call.batch |->
               IF p <= Companion!Advance
                   THEN <<Amplitudes(call.helicity, model, call.batch[p])>>
                               ELSE << >>]
  <1>1. /\ CallInv /\ call # None /\ Companion!Count \in Nat /\ call.from \in Nat
               /\ Computed
        /\ call.phase = "contract"
        /\ DOMAIN call.batch = 1..Len(call.batch) /\ Len(call.batch) \in Nat
    BY CountIs, BatchIs
      DEF CompanionIInv, Companion!At, CallInv, Companion!CompanionAssumption
  <1>2. ASSUME NEW p \in DOMAIN call.batch
        PROVE  (IF p \in (call.from + 1)..(call.from + Companion!Count)
                THEN Append(call.output[p],
                [d \in Destination |-> amplitude[d][p - call.from]])
                ELSE call.output[p])
               = IF p <= Companion!Advance
                   THEN <<Amplitudes(call.helicity, model, call.batch[p])>> ELSE << >>
    <2>1. /\ p \in Nat
          /\ call.output[p] = IF p <= call.from
                THEN <<Amplitudes(call.helicity, model, call.batch[p])>> ELSE << >>
      BY <1>1, <1>2 DEF CallInv
    <2>2. CASE p \in (call.from + 1)..(call.from + Companion!Count)
      <3>1. p - call.from \in 1..Companion!Count /\ call.from + (p - call.from) = p
            /\ p <= Companion!Advance /\ ~(p <= call.from)
        BY <1>1, <2>1, <2>2 DEF Companion!Advance
      <3>2. [d \in Destination |-> amplitude[d][p - call.from]]
               = Amplitudes(call.helicity, model, call.batch[p])
        <4>1. \A d \in Destination : amplitude[d][p - call.from]
                 = Amplitudes(call.helicity, model, call.batch[p])[d]
          BY <1>1, <3>1 DEF Computed
        <4> QED
          BY <4>1 DEF Amplitudes
      <3> QED
        BY <2>1, <2>2, <3>1, <3>2, AppendToNone
    <2>3. CASE p \notin (call.from + 1)..(call.from + Companion!Count)
      BY <1>1, <2>1, <2>3 DEF Companion!Advance
    <2> QED
      BY <2>2, <2>3
  <1> QED
    BY <1>2 DEF Companion!Accumulated

LEMMA ContractIInv ==
  ASSUME Companion!CompanionAssumption, CompanionIInv, UNCHANGED packed, Companion!Contract
  PROVE  CompanionIInv'
  <1>1. /\ Companion!At("contract") /\ CallInv /\ call # None
        /\ UNCHANGED <<held, version, family, amplitude, active, tables, model>>
    BY DEF Companion!Contract, Companion!At, Companion!executor, CompanionIInv
  <1>2. /\ Companion!Count \in 1..TileSize /\ call.from \in Nat /\ Companion!Advance \in Nat
        /\ call.from + Companion!Count <= Len(call.batch) /\ Len(call.batch) \in Nat
        /\ DOMAIN call.batch = 1..Len(call.batch)
    BY <1>1, CountIs, BatchIs
      DEF CallInv, Companion!Advance, Companion!CompanionAssumption
  <1>3. Companion!Accumulated = [p \in DOMAIN call.batch |->
               IF p <= Companion!Advance
                   THEN <<Amplitudes(call.helicity, model, call.batch[p])>>
                               ELSE << >>]
    BY <1>1, AccumulatedIs
  <1>4. Companion!TablesAreOfRetained' /\ Older'
            /\ tables' = [lane \in Companion!Lane |-> tables'[lane]]
    BY <1>1
      DEF CompanionIInv, Companion!TablesAreOfRetained, Companion!Storage,
          Companion!Stride, Older
  <1>5. CASE Companion!Advance < Len(call.batch)
    <2>1. /\ call' = [call EXCEPT !.output = Companion!Accumulated,
             !.from = Companion!Advance, !.phase = "prepare"]
          /\ answer' = answer
      BY <1>5 DEF Companion!Contract
    <2>2. call' = [helicity |-> call.helicity, batch |-> call.batch,
          from |-> Companion!Advance,
                   phase |-> "prepare", output |-> Companion!Accumulated]
      BY <1>1, <2>1 DEF CallInv
    <2>3. CallInv'
      BY <1>1, <1>2, <1>3, <1>5, <2>2 DEF CallInv, Amplitudes
    <2>4. Companion!TypeOK'
      BY <1>1, <1>5, <2>2 DEF CompanionIInv, Companion!TypeOK
    <2>5. Companion!AnswersItsRequest'
      BY <2>1 DEF CompanionIInv, Companion!AnswersItsRequest
    <2> QED
      BY <1>4, <2>2, <2>3, <2>4, <2>5 DEF CompanionIInv, Bound, Computed
  <1>6. CASE ~(Companion!Advance < Len(call.batch))
    <2>1. /\ answer' = [helicity |-> call.helicity, batch |-> call.batch, values |-> model,
                        output |-> Companion!Accumulated]
          /\ call' = None
      BY <1>6 DEF Companion!Contract
    <2>2. Companion!AnswersItsRequest'
      BY <1>1, <1>2, <1>3, <1>6, <2>1
        DEF Companion!AnswersItsRequest, CallInv, Amplitudes, Companion!Advance
    <2>3. Companion!TypeOK'
      BY <1>1, <2>1 DEF CompanionIInv, Companion!TypeOK
    <2> QED
      BY <1>4, <2>1, <2>2, <2>3 DEF CompanionIInv, CallInv, Bound, Computed
  <1> QED
    BY <1>5, <1>6

\* Every step of the companion keeps its invariant.
LEMMA CompanionStep ==
    ASSUME Companion!CompanionAssumption, CompanionIInv, [Companion!Next]_Companion!vars
    PROVE  CompanionIInv'
  <1>0. UNCHANGED packed
    BY DEF Companion!Next, Companion!vars
  <1>1. CASE Companion!Step
    BY <1>0, <1>1, PrepareRetainedIInv, PrepareIInv, CompanionFail, ExecuteIInv,
       ExecuteFailsIInv, ContractIInv
      DEF Companion!Step, Companion!PrepareFails
  <1>2. CASE \E h \in Helicity, b \in Companion!Batch :
                Companion!Start(h, b) \/ Companion!StartZero(h, b)
    BY <1>0, <1>2, CompanionStart, CompanionStartZero
  <1>3. CASE Companion!Clear \/ \E v \in Value : Companion!SetModelParameters(v)
    BY <1>0, <1>3, CompanionClear, SetModelParametersIInv
  <1>4. CASE UNCHANGED Companion!vars
    <2>1. UNCHANGED <<held, version, family, amplitude, active, tables, model, call, answer,
          packed>>
      BY <1>4 DEF Companion!vars, Companion!executor
    <2>2. Companion!TypeOK' /\ Companion!TablesAreOfRetained'
              /\ Companion!AnswersItsRequest'
      BY <2>1
        DEF CompanionIInv, Companion!TypeOK, Companion!TablesAreOfRetained,
            Companion!Storage, Companion!Stride, Companion!AnswersItsRequest
    <2> QED
      BY <2>1, <2>2
        DEF CompanionIInv, CallInv, Bound, Computed, Older, Amplitudes,
            Companion!Count
  <1> QED
    BY <1>1, <1>2, <1>3, <1>4 DEF Companion!Next

----------------------------------------------------------------------------
TreeAssumptions == Params!TreeAssumption /\ Params!NameAssumption

----------------------------------------------------------------------------
(* The parameters: their inductive invariant                               *)

\* The slots of all runtimes hold these values of the parameters.
Hold(values) == [r \in Params!Tree |-> [n \in Slots[r] |-> values[n]]]

\* What the tree holds once it has accepted the update in progress.
Told == [n \in Names |-> IF n \in DOMAIN overrides THEN overrides[n] ELSE asked[n]]

\* What runtimes that hold b have computed.
TreeComputed(b) ==
    <<b, b, [r \in Params!Tree |-> Params!MassesOf(b[r])],
      [r \in Params!Tree |-> Params!Of(Coupling, b[r])]>>

\* The masses that a runtime has are in the class of the artifact.
InClass(values, r) ==
    \A m \in Masses \cap Slots[r] : (values[m] = 0) = (DefaultValues[m] = 0)

Settled == walkPhase # "applying" => base = Hold(asked)

\* The walk has a prefix behind it: the runtimes before it hold the new values,
\* which are good if there is one, the others the old values, and the snapshot
\* is the tree as it was.
Walking ==
    walkPhase = "applying" =>
        /\ at \in Params!Tree /\ overrides \in Params!Overrides
        /\ base = [r \in Params!Tree |-> IF r < at THEN Hold(Told)[r] ELSE Hold(asked)[r]]
        /\ snapshot = TreeComputed(Hold(asked))
        /\ at > 1 => Told \in [Names -> ParameterValues]
        /\ \A r \in Params!Tree : r < at => InClass(Told, r)

Selector ==
    /\ sector =
         [r \in Params!Tree |-> IF walkPhase = "summing" /\ r = at THEN sector[r] ELSE None]
    /\ walkPhase = "summing" => at \in Params!Tree /\ previous = None

TreeIInv ==
    /\ Params!TypeOK
    /\ asked \in [Names -> ParameterValues]
    /\ Params!state = TreeComputed(base)
    /\ \A r \in Params!Tree : InClass(asked, r)
    /\ Settled /\ Walking /\ Selector

----------------------------------------------------------------------------
(* What a tree that holds one assignment to the parameters is.             *)

LEMMA HoldIs ==
    ASSUME TreeAssumptions, NEW v \in [Names -> ParameterValues]
    PROVE  /\ Hold(v) \in [Params!Tree -> UNION {[S -> ParameterValues] : S \in SUBSET Names}]
           /\ \A r \in Params!Tree : DOMAIN Hold(v)[r] = Slots[r]
           /\ \A r \in Params!Tree : \A n \in Slots[r] : Hold(v)[r][n] = v[n]
           /\ \A r \in Params!Tree : \A m :
                Params!Of(m, Hold(v)[r]) = IF m \in Slots[r] THEN v[m] ELSE None
  <1>1. ASSUME NEW r \in Params!Tree
        PROVE  /\ Hold(v)[r] = [n \in Slots[r] |-> v[n]]
               /\ Slots[r] \in SUBSET Names /\ Hold(v)[r] \in [Slots[r] -> ParameterValues]
    BY DEF Hold, TreeAssumptions, Params!TreeAssumption
  <1>2. \A r \in Params!Tree : Hold(v)[r] \in UNION {[S -> ParameterValues] : S \in SUBSET Names}
    BY <1>1
  <1> QED
    BY <1>1, <1>2 DEF Hold, Params!Of, Params!MassesOf

LEMMA TreeInitIInv == ASSUME TreeAssumptions, Params!Init PROVE TreeIInv
  <1>1. DefaultValues \in [Names -> ParameterValues]
    BY DEF TreeAssumptions, Params!TreeAssumption
  <1>2. base = Hold(DefaultValues) /\ asked = DefaultValues
    BY DEF Params!Init, Hold
  <1>3. Params!TypeOK
    BY <1>1, <1>2, HoldIs
      DEF Params!Init, Params!TypeOK, TreeAssumptions, Params!TreeAssumption
  <1> QED
    BY <1>1, <1>2, <1>3
      DEF Params!Init, TreeIInv, Params!state, TreeComputed, InClass, Settled,
          Walking, Selector

----------------------------------------------------------------------------
(* One lemma per action                                                    *)

LEMMA UpdateIInv ==
    ASSUME TreeAssumptions, TreeIInv, NEW o \in Params!Overrides, Params!Update(o)
    PROVE  TreeIInv'
  <1> USE DEF Params!Update, Params!state, Params!summing
  <1>1. 1 \in Params!Tree
    BY DEF TreeAssumptions, Params!TreeAssumption, Params!Tree
  <1>2. Params!TypeOK'
    BY <1>1 DEF TreeIInv, Params!TypeOK, Params!Tree
  <1>3. base = Hold(asked) /\ Hold(asked)' = Hold(asked)
            /\ Params!state = TreeComputed(base)
    BY DEF TreeIInv, Settled, Hold
  <1>4. ~ \E r \in Params!Tree : r < 1
    BY DEF Params!Tree
  <1>5. base = [r \in Params!Tree |-> IF r < 1 THEN Hold(Told')[r] ELSE Hold(asked)[r]]
    BY <1>3, <1>4 DEF Hold
  <1>6. Walking'
    BY <1>1, <1>3, <1>4, <1>5 DEF Walking, TreeComputed, Hold
  <1>7. Selector'
    BY DEF TreeIInv, Selector
  <1> QED
    BY <1>2, <1>6, <1>7 DEF TreeIInv, Settled, TreeComputed, InClass

\* A runtime that takes the overrides holds what was told; before and after it
\* the tree is as the walk has it.
LEMMA AcceptIs ==
    ASSUME TreeAssumptions, TreeIInv, Params!Accept
    PROVE  /\ at \in Params!Tree
           /\ Params!Proposed(at) = Hold(Told)[at]
           /\ Told \in [Names -> ParameterValues]
           /\ base' = [r \in Params!Tree |-> IF r <= at THEN Hold(Told)[r] ELSE Hold(asked)[r]]
           /\ <<base', derived', mass', factor'>> = TreeComputed(base')
           /\ \A r \in Params!Tree : r <= at => InClass(Told, r)
  <1>1. /\ at \in Params!Tree /\ walkPhase = "applying" /\ asked \in [Names -> ParameterValues]
        /\ base = [r \in Params!Tree |-> IF r < at THEN Hold(Told)[r] ELSE Hold(asked)[r]]
        /\ \A r \in Params!Tree : r < at => InClass(Told, r)
        /\ \A r \in Params!Tree : InClass(asked, r)
        /\ Params!state = TreeComputed(base)
        /\ overrides \in Params!Overrides
    BY DEF TreeIInv, Params!Accept, Walking
  <1>2. base[at] = Hold(asked)[at] /\ Slots[at] \subseteq Names /\ Params!Tree \subseteq Nat
    BY <1>1 DEF Params!Tree, TreeAssumptions, Params!TreeAssumption
  <1>3. Params!Proposed(at) = Hold(Told)[at]
    BY <1>1, <1>2 DEF Params!Proposed, Told, Hold
  <1>4. \A n \in DOMAIN overrides : n \in Names /\ overrides[n] \in ParameterValues
    <2>1. \A n \in DOMAIN overrides : n \in Slots[at] /\ overrides[n] # Invalid
      BY DEF Params!Accept, Params!Refused
    <2>2. PICK S \in SUBSET (Names \cup Fixed) : overrides \in [S -> ParameterValues \cup {Invalid}]
      BY <1>1 DEF Params!Overrides
    <2> QED
      BY <1>2, <2>1, <2>2
  <1>5. Told \in [Names -> ParameterValues]
    BY <1>1, <1>4 DEF Told
  <1>6. base' = [r \in Params!Tree |-> IF r <= at THEN Hold(Told)[r] ELSE Hold(asked)[r]]
    <2>1. base' = [base EXCEPT ![at] = Hold(Told)[at]]
      BY <1>3 DEF Params!Accept, Params!Take
    <2>2. \A r \in Params!Tree : r <= at <=> (r < at \/ r = at)
      BY <1>1, <1>2
    <2> QED
      BY <1>1, <2>1, <2>2
  <1>7. <<base', derived', mass', factor'>> = TreeComputed(base')
    <2>1. /\ base \in [Params!Tree -> {base[r] : r \in Params!Tree}] /\ derived = base
          /\ mass = [r \in Params!Tree |-> Params!MassesOf(base[r])]
          /\ factor = [r \in Params!Tree |-> Params!Of(Coupling, base[r])]
      BY <1>1 DEF Params!state, TreeComputed
    <2>2. /\ base' = [base EXCEPT ![at] = Params!Proposed(at)]
          /\ derived' = [base EXCEPT ![at] = Params!Proposed(at)]
          /\ mass' = [mass EXCEPT ![at] = Params!MassesOf(Params!Proposed(at))]
          /\ factor' = [factor EXCEPT ![at] = Params!Of(Coupling, Params!Proposed(at))]
      BY <2>1 DEF Params!Accept, Params!Take
    <2>3. /\ mass' = [r \in Params!Tree |-> Params!MassesOf(base'[r])]
          /\ factor' = [r \in Params!Tree |-> Params!Of(Coupling, base'[r])]
      BY <1>1, <2>1, <2>2
    <2> QED
      BY <2>2, <2>3 DEF TreeComputed
  <1>8. InClass(Told, at)
    <2> SUFFICES ASSUME NEW m \in Masses, m \in Slots[at]
                 PROVE  (Told[m] = 0) = (DefaultValues[m] = 0)
      BY DEF InClass
    <2>1. m \in Names /\ None \notin ParameterValues
      BY DEF TreeAssumptions, Params!NameAssumption
    <2>2. mass[at][m] = asked[m] /\ Params!Of(m, Params!Proposed(at)) = Told[m]
      <3>1. mass[at] = Params!MassesOf(base[at])
        BY <1>1 DEF Params!state, TreeComputed
      <3>2. mass[at][m] = Params!Of(m, base[at])
        BY <3>1 DEF Params!MassesOf
      <3> QED
        BY <1>1, <1>2, <1>3, <1>5, <3>2, HoldIs
    <2>3. mass[at][m] # None
      BY <1>1, <2>1, <2>2
    <2>4. (mass[at][m] = 0) = (Told[m] = 0)
      BY <2>2, <2>3 DEF Params!Accept, Params!ClassChanges
    <2> QED
      BY <1>1, <2>2, <2>4 DEF InClass
  <1>9. \A r \in Params!Tree : r <= at => r < at \/ r = at
    BY <1>1, <1>2
  <1> QED
    BY <1>1, <1>3, <1>5, <1>6, <1>7, <1>8, <1>9

\* Accepting keeps the invariant: the walk goes on, or all hold what was told.
LEMMA AcceptIInv == ASSUME TreeAssumptions, TreeIInv, Params!Accept PROVE TreeIInv'
  <1>1. /\ at \in Params!Tree
        /\ Told \in [Names -> ParameterValues]
        /\ base' = [r \in Params!Tree |-> IF r <= at THEN Hold(Told)[r] ELSE Hold(asked)[r]]
        /\ <<base', derived', mass', factor'>> = TreeComputed(base')
        /\ \A r \in Params!Tree : r <= at => InClass(Told, r)
    BY AcceptIs
  <1>2. /\ asked \in [Names -> ParameterValues] /\ Params!TypeOK /\ walkPhase = "applying"
        /\ \A r \in Params!Tree : InClass(asked, r)
        /\ overrides \in Params!Overrides /\ snapshot = TreeComputed(Hold(asked))
        /\ Runtimes \in Nat \ {0} /\ Params!Tree \subseteq Nat
    BY DEF TreeIInv, Walking, Params!Accept, TreeAssumptions, Params!TreeAssumption,
           Params!Tree
  <1>3. UNCHANGED <<sector, pending, previous>>
    BY DEF Params!Accept, Params!summing
  <1>4. /\ base' \in [Params!Tree -> UNION {[S -> ParameterValues] : S \in SUBSET Names}]
        /\ \A r \in Params!Tree : DOMAIN base'[r] = Slots[r]
    BY <1>1, <1>2, HoldIs
  <1>5. Params!state' = TreeComputed(base)'
    BY <1>1 DEF Params!state, TreeComputed, Params!Of, Params!MassesOf
  <1>6. CASE at = Runtimes
    <2>1. asked' = Told /\ walkPhase' = "idle" /\ at' = 0
      BY <1>6 DEF Params!Accept, Params!Finished, Told
    <2>2. \A r \in Params!Tree : r <= at
      BY <1>6 DEF Params!Tree
    <2>3. base' = Hold(asked)'
      BY <1>1, <2>1, <2>2 DEF Hold
    <2>4. Params!TypeOK'
      BY <1>2, <1>3, <1>4, <2>1 DEF Params!TypeOK
    <2>5. Selector'
      BY <1>2, <1>3, <2>1 DEF TreeIInv, Selector
    <2> QED
      BY <1>1, <1>5, <2>1, <2>2, <2>3, <2>4, <2>5
        DEF TreeIInv, Settled, Walking, InClass
  <1>7. CASE at # Runtimes
    <2>1. at' = at + 1 /\ UNCHANGED <<walkPhase, overrides, snapshot, asked>>
      BY <1>7 DEF Params!Accept, Params!walk
    <2>2. at + 1 \in Params!Tree /\ \A r \in Params!Tree : r < at + 1 <=> r <= at
      BY <1>1, <1>2, <1>7 DEF Params!Tree
    <2>3. Told' = Told /\ Hold(Told)' = Hold(Told) /\ Hold(asked)' = Hold(asked)
          /\ TreeComputed(Hold(asked))' = TreeComputed(Hold(asked))
      BY <2>1 DEF Told, Hold, TreeComputed, Params!Of, Params!MassesOf
    <2>4. Walking'
      BY <1>1, <1>2, <2>1, <2>2, <2>3 DEF Walking, InClass
    <2>5. Params!TypeOK'
      BY <1>2, <1>3, <1>4, <2>1, <2>2 DEF Params!TypeOK, Params!Tree
    <2>6. Selector'
      BY <1>2, <1>3, <2>1 DEF TreeIInv, Selector
    <2> QED
      BY <1>2, <1>5, <2>1, <2>4, <2>5, <2>6 DEF TreeIInv, Settled, InClass
  <1> QED
    BY <1>6, <1>7

LEMMA RejectIInv == ASSUME TreeAssumptions, TreeIInv, Params!Reject PROVE TreeIInv'
  <1>1. /\ snapshot = TreeComputed(Hold(asked)) /\ asked \in [Names -> ParameterValues]
        /\ walkPhase = "applying" /\ Params!TypeOK /\ \A r \in Params!Tree :
               InClass(asked, r)
    BY DEF TreeIInv, Params!Reject, Walking
  <1>2. <<base', derived', mass', factor'>> = TreeComputed(Hold(asked))
    BY <1>1 DEF Params!Reject, Params!Restore, TreeComputed
  <1>3. /\ base' = Hold(asked) /\ asked' = asked /\ Hold(asked)' = Hold(asked)
        /\ walkPhase' = "idle" /\ at' = 0 /\ UNCHANGED <<sector, pending, previous>>
    BY <1>2 DEF Params!Reject, Params!Finished, Params!summing, TreeComputed, Hold
  <1>4. Params!state' = TreeComputed(base)'
    BY <1>2, <1>3 DEF Params!state, TreeComputed, Params!Of, Params!MassesOf
  <1>5. Params!TypeOK'
    <2>1. /\ base' \in [Params!Tree -> UNION {[S -> ParameterValues] : S \in SUBSET Names}]
          /\ \A r \in Params!Tree : DOMAIN base'[r] = Slots[r]
      BY <1>1, <1>3, HoldIs
    <2>2. 0 \in 0..Runtimes
      BY DEF TreeAssumptions, Params!TreeAssumption
    <2> QED
      BY <1>1, <1>3, <2>1, <2>2 DEF Params!TypeOK
  <1>6. Selector'
    BY <1>1, <1>3 DEF TreeIInv, Selector
  <1> QED
    BY <1>1, <1>3, <1>4, <1>5, <1>6 DEF TreeIInv, Settled, Walking, InClass

\* An evaluation touches the selector alone.
LEMMA SumIInv ==
    ASSUME TreeAssumptions, TreeIInv,
           \/ \E r \in Params!Tree, S \in (SUBSET Sectors) \ {{}} : Params!Evaluate(r, S)
           \/ Params!SumSector \/ Params!EndSum
    PROVE  TreeIInv'
  <1>1. UNCHANGED <<base, derived, mass, factor, overrides, snapshot, asked>>
    BY DEF Params!Evaluate, Params!SumSector, Params!EndSum, Params!state, Params!walk
  <1>2. walkPhase # "applying" /\ walkPhase' # "applying"
    BY DEF Params!Evaluate, Params!SumSector, Params!EndSum
  <1>3. Params!state' = TreeComputed(base)' /\ Settled' /\ asked' \in [Names -> ParameterValues]
        /\ \A r \in Params!Tree : InClass(asked, r)'
    BY <1>1, <1>2
      DEF TreeIInv, Params!state, TreeComputed, Params!Of, Params!MassesOf, Settled,
          Hold, InClass
  <1>4. Params!TypeOK'
    <2>1. 0 \in 0..Runtimes /\ Params!Tree \subseteq 0..Runtimes /\ 0 \notin Params!Tree
      BY DEF TreeAssumptions, Params!TreeAssumption, Params!Tree
    <2>2. Params!TypeOK /\ (walkPhase = "summing" => at \in Params!Tree)
      BY DEF TreeIInv, Selector
    <2>3. ASSUME NEW r \in Params!Tree, NEW S \in (SUBSET Sectors) \ {{}},
                 Params!Evaluate(r, S)
          PROVE  Params!TypeOK'
      BY <1>1, <2>1, <2>2, <2>3 DEF Params!TypeOK, Params!Evaluate
    <2>4. ASSUME Params!SumSector PROVE Params!TypeOK'
      BY <1>1, <2>1, <2>2, <2>4 DEF Params!TypeOK, Params!SumSector
    <2>5. ASSUME Params!EndSum PROVE Params!TypeOK'
      BY <1>1, <2>1, <2>2, <2>5 DEF Params!TypeOK, Params!EndSum
    <2> QED
      BY <2>3, <2>4, <2>5
  <1>5. Selector'
    <2>1. ASSUME NEW r \in Params!Tree, NEW S, Params!Evaluate(r, S) PROVE Selector'
      BY <2>1 DEF TreeIInv, Selector, Params!Evaluate
    <2>2. ASSUME Params!SumSector PROVE Selector'
      BY <2>2 DEF TreeIInv, Selector, Params!SumSector
    <2>3. ASSUME Params!EndSum PROVE Selector'
      BY <2>3 DEF TreeIInv, Selector, Params!EndSum
    <2> QED
      BY <2>1, <2>2, <2>3
  <1> QED
    BY <1>2, <1>3, <1>4, <1>5 DEF TreeIInv, Walking

\* Every step of the tree keeps its invariant.
LEMMA TreeStep ==
    ASSUME TreeAssumptions, TreeIInv, [Params!Next]_Params!vars PROVE TreeIInv'
  <1>1. CASE Params!Next
    BY <1>1, UpdateIInv, AcceptIInv, RejectIInv, SumIInv DEF Params!Next
  <1>2. CASE UNCHANGED Params!vars
    <2>1. /\ UNCHANGED <<base, derived, mass, factor, sector, pending, previous, walkPhase>>
          /\ UNCHANGED <<overrides, snapshot, at, asked>>
      BY <1>2 DEF Params!vars, Params!state, Params!walk, Params!summing
    <2>2. Params!TypeOK' /\ asked' \in [Names -> ParameterValues]
              /\ Params!state' = TreeComputed(base)'
      BY <2>1
        DEF TreeIInv, Params!TypeOK, Params!state, TreeComputed, Params!Of,
            Params!MassesOf
    <2>3. /\ Hold(asked)' = Hold(asked) /\ Told' = Told /\ Hold(Told)' = Hold(Told)
          /\ TreeComputed(Hold(asked))' = TreeComputed(Hold(asked))
          /\ \A r : InClass(Told, r)' = InClass(Told, r)
                 /\ InClass(asked, r)' = InClass(asked, r)
      BY <2>1 DEF Hold, Told, TreeComputed, Params!Of, Params!MassesOf, InClass
    <2>5. Settled' /\ Walking' /\ \A r \in Params!Tree : InClass(asked, r)'
      BY <2>1, <2>3 DEF TreeIInv, Settled, Walking
    <2>4. Selector'
      BY <2>1 DEF TreeIInv, Selector
    <2> QED
      BY <2>2, <2>4, <2>5 DEF TreeIInv
  <1> QED
    BY <1>1, <1>2

\* Between calls all runtimes hold the values of the accepted updates and nothing
\* of a refused one; what a runtime computed is of the values it holds, always;
\* no selector outlives its evaluation.
LEMMA TreeIsCurrent ==
    ASSUME TreeAssumptions, TreeIInv
    PROVE  Params!AllOrNothing /\ Params!ComputedFromHeld /\ Params!SelectorRestored
  <1>1. Params!AllOrNothing
    BY HoldIs DEF TreeIInv, Settled, Params!AllOrNothing
  <1>2. Params!ComputedFromHeld
    BY DEF TreeIInv, Params!state, TreeComputed, Params!ComputedFromHeld
  <1>3. Params!SelectorRestored
    BY DEF TreeIInv, Selector, Params!SelectorRestored
  <1> QED
    BY <1>1, <1>2, <1>3

\* No sequence of updates moves a particle to another mass class, nor does an
\* update that is rolled back while it is under way.
LEMMA MassClassIsKept == ASSUME TreeAssumptions, TreeIInv PROVE Params!MassClassKept
  <1> SUFFICES ASSUME NEW r \in Params!Tree, NEW m \in Masses, mass[r][m] # None
               PROVE  (mass[r][m] = 0) = (DefaultValues[m] = 0)
    BY DEF Params!MassClassKept
  <1>1. mass[r][m] = Params!Of(m, base[r]) /\ asked \in [Names -> ParameterValues]
            /\ InClass(asked, r)
    BY DEF TreeIInv, Params!state, TreeComputed, Params!MassesOf
  <1>2. CASE walkPhase # "applying" \/ ~(r < at)
    <2>1. base[r] = Hold(asked)[r]
      BY <1>2 DEF TreeIInv, Settled, Walking
    <2> QED
      BY <1>1, <2>1, HoldIs DEF InClass
  <1>3. CASE walkPhase = "applying" /\ r < at
    <2>1. base[r] = Hold(Told)[r] /\ Told \in [Names -> ParameterValues] /\ InClass(Told, r)
      BY <1>3 DEF TreeIInv, Walking, Params!Tree
    <2> QED
      BY <1>1, <2>1, HoldIs DEF InClass
  <1> QED
    BY <1>2, <1>3

----------------------------------------------------------------------------
(* The three parts together                                                *)

IInv == scene \in Scenes /\ PointsIInv /\ TreeIInv /\ CompanionIInv

LEMMA EachIsAssumed ==
    ASSUME PartsAssumption
    PROVE  /\ PointsAssumption /\ TreeAssumptions /\ Companion!CompanionAssumption
           /\ \A c \in Scenes : Requests[c] \subseteq Points!Request
  BY DEF PartsAssumption, PointsAssumption, TreeAssumptions

\* A step of one part is none of the others.
LEMMA StepsAreSteps ==
    ASSUME [Next]_vars
    PROVE  /\ scene' = scene
           /\ PointsNext \/ UNCHANGED selectors
           /\ [Params!Next]_Params!vars
           /\ [Companion!Next]_Companion!vars
  <1>1. UNCHANGED parameters => UNCHANGED Params!vars
    BY DEF parameters, Params!vars, Params!state, Params!walk, Params!summing
  <1>2. UNCHANGED companion => UNCHANGED Companion!vars
    BY DEF companion, Companion!vars, Companion!executor
  <1> QED
    BY <1>1, <1>2 DEF Next, vars

LEMMA StepIInv == ASSUME PartsAssumption, IInv, [Next]_vars PROVE IInv'
  <1>1. /\ PointsAssumption /\ TreeAssumptions /\ Companion!CompanionAssumption
        /\ \A c \in Scenes : Requests[c] \subseteq Points!Request
    BY EachIsAssumed
  <1>2. /\ scene' = scene /\ scene \in Scenes
        /\ PointsNext \/ UNCHANGED selectors
        /\ [Params!Next]_Params!vars
        /\ [Companion!Next]_Companion!vars
    BY StepsAreSteps DEF IInv
  <1>3. PointsIInv'
    BY <1>1, <1>2, PointsStep, PointsUnchanged DEF IInv
  <1>4. TreeIInv' /\ CompanionIInv'
    BY <1>1, <1>2, TreeStep, CompanionStep DEF IInv
  <1> QED
    BY <1>2, <1>3, <1>4 DEF IInv

\* The invariant of the three parts.
THEOREM Invariant == ASSUME PartsAssumption PROVE Spec => []IInv
  <1>1. Init => IInv
    BY EachIsAssumed, PointsInit, TreeInitIInv, CompanionInit DEF Init, IInv
  <1> QED
    BY <1>1, StepIInv, PTL DEF Spec

\* The planner and its scratch never exceed the largest batch nor the cache its
\* bound, the crossing map is in one place, the tree and the companion have their
\* types.
THEOREM TypeCorrect == ASSUME PartsAssumption PROVE Spec => []TypeOK
  <1>1. IInv => TypeOK
    BY EachIsAssumed, PointsTyped DEF IInv, TypeOK, TreeIInv, CompanionIInv
  <1> QED
    BY <1>1, Invariant, PTL

\* What a runtime keeps or computes ahead is never of another state: parameters
\* and what is derived from them are those of the accepted updates at every
\* runtime or at none (model_parameters.rs:91), kernels keep no table of a
\* dropped family, and a plan groups the rows of its own call as documented
\* (point_selectors.rs:52).
THEOREM NothingIsStale == ASSUME PartsAssumption PROVE Spec => []NothingStale
  <1>1. IInv => NothingStale
    BY EachIsAssumed, TreeIsCurrent, MassClassIsKept, PlanIsStable
      DEF IInv, NothingStale, CompanionIInv
  <1> QED
    BY <1>1, Invariant, PTL

\* Every call answers its own request.  The calls with selectors implement
\* PointPromise: a value of its own point and selection for each row, or a
\* failure that leaves the output of a mixed batch alone
\* (native_runtime.rs:3018); the companion returns the amplitudes of its helicity
\* at the parameters of the runtime.
THEOREM CallsAreAnswered == ASSUME PartsAssumption PROVE Spec => EveryCallAnswers
  <1>1. Init => Points!Promised!Init
    BY PromiseInit DEF Init
  <1>2. IInv /\ [Next]_vars => [Points!Promised!Next]_Points!Promised!vars
    BY EachIsAssumed, StepsAreSteps, PromiseStep DEF IInv, Promise
  <1>3. IInv' => [Companion!AnswersItsRequest']_companion
    BY DEF IInv, CompanionIInv
  <1> QED
    BY <1>1, <1>2, <1>3, Invariant, PTL
      DEF Spec, EveryCallAnswers, Points!AnswersItsRequest, Points!Promised!Spec
=============================================================================
