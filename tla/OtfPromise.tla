----------------------------- MODULE OtfPromise -----------------------------
(***************************************************************************)
(* What an on-the-fly runtime promises its caller: an evaluation returns   *)
(* what the requested selection gives with the current parameters, however *)
(* warm the runtime is; only the last successful selection stays warm; a   *)
(* snapshot restores the selection that was warm when it was saved.        *)
(***************************************************************************)
CONSTANTS
    Selection, Parameter, Default, None,
    Result(_, _)   \* Result(s, p): the values of selection s with p

VARIABLES
    evicting,    \* whether a failing evaluation may cool the runtime
    warm,        \* the selection that needs no cold work
    parameters,  \* the current parameters
    saved,       \* the selection in the snapshot file: {} without a file
    answer       \* the values of the last call: {} when it failed

vars == <<evicting, warm, parameters, saved, answer>>

Init ==
    /\ evicting \in BOOLEAN
    /\ warm = None
    /\ parameters = Default
    /\ saved = {}
    /\ answer = {}

\* A call starts, or it fails.
NoAnswer ==
    /\ answer' = {}
    /\ \/ warm' = warm
       \/ evicting /\ warm' = None
    /\ UNCHANGED <<parameters, saved>>

Evaluate(s) ==
    /\ answer' = {Result(s, parameters)}
    /\ warm' = s
    /\ UNCHANGED <<parameters, saved>>

Update ==
    /\ UNCHANGED answer
    /\ \/ \E p \in Parameter : parameters' = p /\ UNCHANGED <<warm, saved>>
       \/ warm' = None /\ UNCHANGED <<parameters, saved>>
       \/ saved' = {warm} /\ UNCHANGED <<warm, parameters>>
       \/ warm' \in saved /\ UNCHANGED <<parameters, saved>>

Next ==
    /\ NoAnswer \/ (\E s \in Selection : Evaluate(s)) \/ Update
    /\ UNCHANGED evicting

Spec == Init /\ [][Next]_vars
=============================================================================
