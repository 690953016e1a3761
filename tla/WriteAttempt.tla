---------------------------- MODULE WriteAttempt ----------------------------
(***************************************************************************)
(* What a writer promises to the orchestrator that calls it: one attempt   *)
(* at most, and an outcome that says "not_attempted" only when there was   *)
(* none.  A click on a page that moves under it can go astray; then the    *)
(* outcome promises nothing.                                               *)
(***************************************************************************)
VARIABLES
    running,  \* is there an operation?
    attempt,  \* of the last one: "none", "submitted" or "astray"
    outcome   \* of the last one: "none", "done", "not_attempted", "unknown"

attemptVars == <<running, attempt, outcome>>

Init == running = FALSE /\ attempt = "none" /\ outcome = "none"

Begin ==
    /\ ~running /\ running' = TRUE
    /\ attempt' = "none" /\ outcome' = "none"

\* One submit at most; a click that goes astray ends all promises.
Click ==
    \/ UNCHANGED attempt
    \/ attempt = "none" /\ attempt' = "submitted"
    \/ attempt' = "astray"

Act == running /\ Click /\ UNCHANGED <<running, outcome>>

\* Nothing to do is "done" without an attempt.
End ==
    /\ running /\ running' = FALSE
    /\ Click
    /\ outcome' \in {"done", "unknown", "not_attempted"}
    /\ outcome' = "not_attempted" => attempt' # "submitted"

Next == Begin \/ Act \/ End

Spec == Init /\ [][Next]_attemptVars
=============================================================================
