-------------------------- MODULE MCArenaExecution --------------------------
EXTENDS ArenaExecution

\* Four sources, two currents of two sources, one of three.
MCValues == 0..6
MCStage  == [c \in MCValues |-> IF c <= 3 THEN 1 ELSE IF c <= 5 THEN 2 ELSE 3]
MCStages == 1..4
MCWidths == 1..2
MCMaxPlanes == 10

MCDestinations == {"d1", "d2"}

Contribution(id, result, parents, executor) ==
    [id |-> id, result |-> result, parents |-> parents, executor |-> executor]
Closing(id, parents, destination) ==
    [id |-> id, parents |-> parents, destination |-> destination]

\* The executors decide the order of two rows into one current.
Fours(e) == {{Contribution(10, 4, <<0, 1>>, 1)},
             {Contribution(10, 4, <<0, 1>>, e), Contribution(11, 4, <<1, 0>>, 3 - e)}}
Fives == {{Contribution(12, 5, <<1, 2>>, 1)}, {Contribution(12, 5, <<0, 1>>, 2)}}
Sixes(e) == {{Contribution(13, 6, <<4, 2>>, 1)}, {Contribution(14, 6, <<5, 2>>, 1)},
             {Contribution(13, 6, <<4, 2>>, e), Contribution(14, 6, <<2, 5>>, 3 - e)}}
Closings == {{Closing(20, <<6, 3>>, "d1"), Closing(21, <<4, 5>>, "d2")},
             {Closing(20, <<6, 3>>, "d1"), Closing(22, <<3, 6>>, "d1"), Closing(21, <<6, 5>>, "d2")}}
Relations == {<<>>, (5 :> 4), (5 :> 5)}

Candidates ==
    {[stage |-> MCStage, sources |-> 0..3,
      width |-> [c \in MCValues |-> IF c \in wide THEN 2 ELSE 1],
      contributions |-> four \cup five \cup six, closures |-> closing,
      sector |-> [d \in MCDestinations |-> IF d = "d1" THEN "A" ELSE second],
      copies |-> copies] :
        wide \in {{}, {0, 6}, {6}, {4, 5}, {4, 5, 6}, {0, 2, 4, 5, 6}},
        four \in Fours(1) \cup Fours(2), five \in Fives, six \in Sixes(1) \cup Sixes(2),
        closing \in Closings, second \in {"A", "B"}, copies \in Relations}

\* A certificate relates currents of one selector domain (their contract).
MCPrograms ==
    {p \in Candidates : \A c \in DOMAIN p.copies : DomainOf(p)[c] = DomainOf(p)[p.copies[c]]}

MCRequests == {Lifetimes(p) : p \in MCPrograms}

\* The allocator on its own: five values in the order of their stages, with
\* every combination of lifetimes and widths, then two that end the arena.
Mixed ==
    {s \in [0..4 -> {i \in [first : 1..3, last : 1..3, width : MCWidths] : i.first <= i.last}] :
        \A v \in 1..4 : s[v - 1].first <= s[v].first}
Alone ==
    {[v \in MCValues |-> IF v <= 4 THEN s[v] ELSE [first |-> 3, last |-> 3, width |-> 1]] :
        s \in Mixed}

NoProgram == [contributions |-> {}]

MCInit ==
    \/ ExecInit
    \/ /\ program = NoProgram /\ \E spans \in Alone : InitLayout(spans)
       /\ plan = <<>> /\ selection = Unselected /\ rows = <<>>
       /\ clears = <<>> /\ pc = 0 /\ planes = <<>> /\ amplitude = <<>>

MCNext ==
    \/ program # NoProgram /\ ExecNext
    \/ program = NoProgram /\ LayoutNext /\ UNCHANGED <<program, execVars>>

MCSpec == MCInit /\ [][MCNext]_vars
=============================================================================
