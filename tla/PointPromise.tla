---------------------------- MODULE PointPromise ----------------------------
(***************************************************************************)
(* What an evaluation with per-point selectors promises its caller,        *)
(* whatever the runtime did before: for a request that makes sense, one    *)
(* value for each row, of that row's point and selection; and, when it     *)
(* fails, nothing in the caller's output of a batch whose rows select      *)
(* differently, or of a request that makes no sense.                       *)
(***************************************************************************)
CONSTANTS
    Request, None,
    Acceptable(_), \* Acceptable(r): the arguments make sense
    Untouched(_),  \* Untouched(r): the output before the call
    Answers(_),    \* Answers(r): the output the request asks for
    Rows(_),       \* Rows(r): the values an unfinished answer may hold
    Mixed(_)       \* Mixed(r): its rows select differently

VARIABLES
    call,    \* the request of the call in progress, None if there is none
    answer   \* the output of the last call

vars == <<call, answer>>

Init == call = None /\ answer = None

Start ==
    /\ call = None
    /\ call' \in Request
    /\ answer' = None

Succeed ==
    /\ call # None /\ call' = None
    /\ Acceptable(call)
    /\ answer' = Answers(call)

Fail ==
    /\ call # None /\ call' = None
    /\ DOMAIN answer' = DOMAIN Untouched(call)
    /\ \A i \in DOMAIN answer' :
          \/ answer'[i] = Untouched(call)[i]
          \/ Acceptable(call) /\ ~ Mixed(call) /\ answer'[i] = Rows(call)[i]

Next == Start \/ Succeed \/ Fail

Spec == Init /\ [][Next]_vars
=============================================================================
