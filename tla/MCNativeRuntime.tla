-------------------------- MODULE MCNativeRuntime --------------------------
(***************************************************************************)
(* A small instance of NativeRuntime: three kinds of calls with selectors; *)
(* a root with three companions, one of which lacks a parameter; and two   *)
(* helicities with different live destinations, with a structural zero.    *)
(***************************************************************************)
EXTENDS NativeRuntime, Sequences, TLC

CONSTANTS heavy, light, coupling, width, h1, h2, h3, d1, d2, a1, a2, a3, a4, x, y

Axis == {"helicity", "color"}
Lists(components, n) == UNION {[1..k -> components] : k \in 0..n}
Calls(n, ids, by) ==
    [points : 0..n,
     ids : [helicity : ids["helicity"], color : ids["color"]],
     by : [helicity : by["helicity"], color : by["color"]]]

MCCount == [a \in Axis |-> IF a = "color" THEN 3 ELSE 2]
NoIds == [a \in Axis |-> {None}]
ByColors == [a \in Axis |->
    IF a = "color" THEN Lists(0..2, 5) \cup {<<3>>, <<0, 3, 1>>} ELSE {None}]
ByBoth == [a \in Axis |-> {None, <<0>>} \cup [1..3 -> 0..1]]
IdsGlobal == [a \in Axis |-> IF a = "color" THEN {None, <<0>>, <<1, 0>>}
                             ELSE {None, <<0>>, <<1>>, <<0, 0>>, <<>>}]
ByGlobal == [a \in Axis |-> IF a = "color" THEN {None, <<0, 1>>, <<0, 1, 0>>, <<1, 1>>}
                            ELSE {None, <<0, 0, 1>>}]

MCIds == IdsGlobal
MCByPoint == [a \in Axis |-> ByColors[a] \cup ByBoth[a] \cup ByGlobal[a]]

\* All groupings of up to five points by one of three colors, and selectors
\* that are refused; both axes, two calls on one runtime; the on-the-fly lane
\* with global selections and a cache of one entry.
MCScenes == {"colors", "both", "global"}
MCLaneOf == [c \in MCScenes |-> IF c = "global" THEN "on-the-fly" ELSE "generic"]
MCRequests == [c \in MCScenes |->
    CASE c = "colors" -> Calls(5, NoIds, ByColors)
      [] c = "both" -> Calls(3, NoIds, ByBoth)
      [] c = "global" -> Calls(3, IdsGlobal, ByGlobal)]
MCCallsOf == [c \in MCScenes |-> IF c = "colors" THEN 1 ELSE 2]

MCNames == {heavy, light, coupling}
\* A companion without the massless particle.
MCSlots == [r \in 1..4 |-> IF r = 3 THEN MCNames \ {light} ELSE MCNames]
MCValues == [n \in MCNames |-> IF n = light THEN 0 ELSE 1]

MCLive == h1 :> {d1, d2} @@ h2 :> {d2} @@ h3 :> {}

\* Addresses and points are only compared.
Symmetry == Permutations({a1, a2, a3, a4}) \cup Permutations({x, y})

ASSUME MCAssumption == PartsAssumption
=============================================================================
