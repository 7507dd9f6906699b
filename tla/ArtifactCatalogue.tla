-------------------------- MODULE ArtifactCatalogue --------------------------
(***************************************************************************)
(* What the artifact store promises its readers: the public name holds     *)
(* nothing or a complete set of processes, and it changes only by creating *)
(* a set, replacing it as a whole, or extending the current set by one     *)
(* process.                                                                *)
(***************************************************************************)
CONSTANTS Writer, Absent
VARIABLE artifact

Init == artifact = Absent

\* mode "error"
Create(w) == artifact = Absent /\ artifact' = {w}

\* mode "replace"
Replace(w) == artifact' = {w}

\* mode "append"
Append(w) ==
    /\ artifact # Absent
    /\ w \notin artifact
    /\ artifact' = artifact \cup {w}

Next == \E w \in Writer : Create(w) \/ Replace(w) \/ Append(w)

Spec == Init /\ [][Next]_artifact
=============================================================================
