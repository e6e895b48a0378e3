---------------------------- MODULE ShieldedWait -----------------------------
(***************************************************************************)
(* What uncancellable promises the task that calls it, with the event loop *)
(* taken out: it waits until the work is over, takes in every cancellation *)
(* that comes meanwhile, and says in its answer whether there was one.     *)
(* Uncancellable implements it, and so does the part of AsyncRun that      *)
(* stands for the call of uncancellable: where the two models of one loop  *)
(* would tell their callers different things, one of them fails to.        *)
(***************************************************************************)
VARIABLES
    working,   \* the work is not over
    pending,   \* a cancellation has been asked for, and not been taken in
    absorbed,  \* one has been taken in
    answer     \* "True" and "False" are the boolean that is returned

waitVars == <<working, pending, absorbed, answer>>

Init ==
    /\ working = TRUE
    /\ pending = FALSE
    /\ absorbed = FALSE
    /\ answer = "none"

WorkEnds ==
    /\ working
    /\ working' = FALSE
    /\ UNCHANGED <<pending, absorbed, answer>>

Cancel ==
    /\ answer = "none"
    /\ pending' = TRUE
    /\ UNCHANGED <<working, absorbed, answer>>

\* The cancellation is taken in; nothing is left to wait for if the work is
\* over, and then this ends the wait.
Absorb ==
    /\ answer = "none"
    /\ pending
    /\ pending' = FALSE
    /\ absorbed' = TRUE
    /\ answer' = IF working THEN "none" ELSE "True"
    /\ UNCHANGED working

Return ==
    /\ answer = "none"
    /\ ~working
    /\ ~pending
    /\ answer' \in {IF absorbed THEN "True" ELSE "False", "exception"}
    /\ UNCHANGED <<working, pending, absorbed>>

Next == WorkEnds \/ Cancel \/ Absorb \/ Return

Spec == Init /\ [][Next]_waitVars

\* An answer comes when the work is over, with nothing left to take in, and
\* is "True" if and only if something was, unless it is an exception.
Promise ==
    answer # "none" =>
        /\ ~working
        /\ ~pending
        /\ answer \in {"True", "False"} => (answer = "True" <=> absorbed)
=============================================================================
