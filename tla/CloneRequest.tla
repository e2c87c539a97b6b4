---------------------------- MODULE CloneRequest ----------------------------
(***************************************************************************)
(* What a clone request promises its caller (internal/cephfs/core          *)
(* clone.go, CreateCloneFromSubvolume and CreateCloneFromSnapshot, driven  *)
(* by a caller that retries the clone-retry errors): the request ends with *)
(* success or a terminal error; success is only answered for a target that *)
(* is ready (a complete clone of the requested size without intermediate   *)
(* snapshot), and it stays ready. Retry answers are not answers.           *)
(***************************************************************************)
VARIABLES
    answer,   \* "none" until the caller has a final answer: "ok" or "terminal"
    ready     \* the target is a ready volume

vars == <<answer, ready>>

TypeOK == answer \in {"none", "ok", "terminal"} /\ ready \in BOOLEAN

Init == answer = "none" /\ ready = FALSE

\* Work on the target without a new answer; after a terminal error a target
\* left behind may still change.
Work ==
    /\ answer \in {"none", "terminal"}
    /\ answer' = answer
    /\ ready' \in BOOLEAN

\* The request answers success, for a ready target.
Succeed ==
    /\ answer = "none"
    /\ answer' = "ok"
    /\ ready' = TRUE

\* The request answers a terminal error.
Fail ==
    /\ answer = "none"
    /\ answer' = "terminal"
    /\ ready' \in BOOLEAN

Next == Work \/ Succeed \/ Fail

SafetySpec == Init /\ [][Next]_vars

\* The request does not go unanswered for ever.
Spec == SafetySpec /\ WF_vars(Succeed \/ Fail)

=============================================================================
