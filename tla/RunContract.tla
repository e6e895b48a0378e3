----------------------------- MODULE RunContract -----------------------------
(***************************************************************************)
(* What run promises its caller, with the child taken out: it acquires     *)
(* something, it lets go of it, and only then does it answer; and a caller *)
(* that cancelled is not answered with a result.  The promise is that of   *)
(* the docstring of bounded_subprocess_async.run on cancellation.          *)
(***************************************************************************)
VARIABLES
    phase,      \* "idle" before the spawn, "busy", "done" once answered
    held,       \* whether anything acquired is still alive, open or polling
    cancelled,  \* whether the caller has asked for a cancellation
    reply       \* what the caller got

contractVars == <<phase, held, cancelled, reply>>

Reply == {"result", "cancelled", "error"}

Init ==
    /\ phase = "idle"
    /\ held = FALSE
    /\ cancelled = FALSE
    /\ reply = "none"

Acquire ==
    /\ phase = "idle"
    /\ phase' = "busy"
    /\ held' = TRUE
    /\ UNCHANGED <<cancelled, reply>>

\* Nothing was acquired: the spawn failed, or the caller cancelled first.
Refuse ==
    /\ phase = "idle"
    /\ phase' = "done"
    /\ reply' = IF cancelled THEN "cancelled" ELSE "error"
    /\ UNCHANGED <<held, cancelled>>

Cancel ==
    /\ phase # "done"
    /\ cancelled' = TRUE
    /\ UNCHANGED <<phase, held, reply>>

LetGo ==
    /\ phase = "busy"
    /\ held
    /\ held' = FALSE
    /\ UNCHANGED <<phase, cancelled, reply>>

\* An error in flight is re-raised even to a caller that cancelled.
Answer(r) ==
    /\ phase = "busy"
    /\ ~held
    /\ r = "result" => ~cancelled
    /\ r = "cancelled" => cancelled
    /\ phase' = "done"
    /\ reply' = r
    /\ UNCHANGED <<held, cancelled>>

Next ==
    \/ Acquire \/ Refuse \/ Cancel \/ LetGo
    \/ \E r \in Reply : Answer(r)

Spec == Init /\ [][Next]_contractVars

\* Whoever was answered leaves nothing behind, and has no result if it asked
\* for a cancellation.
Promise ==
    phase = "done" => /\ ~held
                      /\ reply = "result" => ~cancelled
=============================================================================
