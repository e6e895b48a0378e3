---------------------------- MODULE Uncancellable ----------------------------
(***************************************************************************)
(* cancel.uncancellable: a task waits for a piece of work it must not      *)
(* abandon, through asyncio.shield, while others cancel it.                *)
(*                                                                         *)
(* A turn of the loop awaits a future of its own ("outer") that the shield *)
(* puts in front of the work's task.  The work finishes first, and outer   *)
(* is told by a callback later; the waiting task is resumed later still.   *)
(* A cancellation can come between any two of the three.                   *)
(***************************************************************************)
EXTENDS Naturals

CONSTANT WorkSteps    \* the longest work, in awaits

ASSUME WorkAssumption == WorkSteps \in Nat

VARIABLES
    left,        \* how many awaits the work has before its end
    work,        \* the work's task
    workCancel,  \* a cancellation of the work's task is pending
    outer,       \* the future the waiting task awaits
    mustCancel,  \* Task._must_cancel: a request that found outer done
    absorbed,    \* absorbed_cancellation
    requested,   \* the waiting task was cancelled since it came in (history)
    recent,      \* ... since it last went back to wait (history)
    shutdown,    \* the event loop has cancelled every task
    reply        \* what uncancellable has returned or raised

shieldVars == <<left, work, workCancel, outer, mustCancel, absorbed,
                requested, recent, shutdown, reply>>

Ended == {"ok", "exception", "cancelled"}

ShieldTypeOK ==
    /\ left \in 0 .. WorkSteps
    /\ work \in {"running"} \cup Ended
    /\ workCancel \in BOOLEAN
    /\ outer \in {"pending"} \cup Ended
    /\ mustCancel \in BOOLEAN
    /\ absorbed \in BOOLEAN
    /\ requested \in BOOLEAN
    /\ recent \in BOOLEAN
    /\ shutdown \in BOOLEAN
    /\ reply \in {"none", "True", "False", "exception"}

\* The first turn of the loop: the work has just been made a task.
ShieldInit ==
    /\ left \in 0 .. WorkSteps
    /\ work = "running"
    /\ workCancel = FALSE
    /\ outer = "pending"
    /\ mustCancel = FALSE
    /\ absorbed = FALSE
    /\ requested = FALSE
    /\ recent = FALSE
    /\ shutdown = FALSE
    /\ reply = "none"

-----------------------------------------------------------------------------
(* Plausible bugs, each checked to break a property.                       *)

\* There is no loop: the first cancellation ends the wait.
NoLoop ==
    /\ reply = "none"
    /\ outer # "pending"
    /\ mustCancel \/ outer = "cancelled"
    /\ mustCancel' = FALSE
    /\ absorbed' = TRUE
    /\ reply' = "True"
    /\ UNCHANGED <<left, work, workCancel, outer, requested, recent,
                   shutdown>>

\* The loop does not ask whether the work is done: while True.
LoopForever ==
    /\ reply = "none"
    /\ outer # "pending"
    /\ mustCancel \/ outer = "cancelled"
    /\ mustCancel' = FALSE
    /\ absorbed' = TRUE
    /\ outer' = "pending"
    /\ UNCHANGED <<left, work, workCancel, requested, recent, shutdown,
                   reply>>

\* What was absorbed in an earlier turn of the loop is forgotten.
ForgetAbsorbed ==
    /\ reply = "none"
    /\ outer \in {"ok", "exception"}
    /\ ~mustCancel
    /\ reply' = IF outer = "exception" THEN "exception" ELSE "False"
    /\ UNCHANGED <<left, work, workCancel, outer, mustCancel, absorbed,
                   requested, recent, shutdown>>

\* A wait that absorbed a cancellation says so before it asks for the result.
AbsorbedFirst ==
    /\ reply = "none"
    /\ outer \in {"ok", "exception"}
    /\ ~mustCancel
    /\ reply' = IF absorbed THEN "True"
                ELSE IF outer = "exception" THEN "exception" ELSE "False"
    /\ UNCHANGED <<left, work, workCancel, outer, mustCancel, absorbed,
                   requested, recent, shutdown>>

-----------------------------------------------------------------------------
(* The work's task.                                                        *)

WorkStep ==
    /\ work = "running"
    /\ ~workCancel
    /\ left > 0
    /\ left' = left - 1
    /\ UNCHANGED <<work, workCancel, outer, mustCancel, absorbed, requested,
                   recent, shutdown, reply>>

\* What the work does at its end: return, or raise what it did not handle.
WorkEnds(how) ==
    /\ work = "running"
    /\ ~workCancel
    /\ left = 0
    /\ how \in {"ok", "exception"}
    /\ work' = how
    /\ UNCHANGED <<left, workCancel, outer, mustCancel, absorbed, requested,
                   recent, shutdown, reply>>

\* The work is cancelled at one of its awaits.  It ends there, or takes the
\* exception for that of a task it was awaiting, as _release does.
WorkCancelled ==
    /\ work = "running"
    /\ workCancel
    /\ workCancel' = FALSE
    /\ work' \in {"running", "cancelled"}
    /\ UNCHANGED <<left, outer, mustCancel, absorbed, requested, recent,
                   shutdown, reply>>

\* The shield's callback passes the end of the work on, unless outer was
\* cancelled meanwhile.
ShieldCallback ==
    /\ work # "running"
    /\ outer = "pending"
    /\ reply = "none"
    /\ outer' = work
    /\ UNCHANGED <<left, work, workCancel, mustCancel, absorbed, requested,
                   recent, shutdown, reply>>

-----------------------------------------------------------------------------
(* The waiting task.                                                       *)

\* A turn of the loop ends in a CancelledError.  The next one begins, behind
\* a new shield, unless the work is done.
ResumeCancelled ==
    /\ reply = "none"
    /\ outer # "pending"
    /\ mustCancel \/ outer = "cancelled"
    /\ mustCancel' = FALSE
    /\ absorbed' = TRUE
    /\ IF work = "running"
       THEN outer' = "pending" /\ recent' = FALSE /\ UNCHANGED reply
       ELSE reply' = "True" /\ UNCHANGED <<outer, recent>>
    /\ UNCHANGED <<left, work, workCancel, requested, shutdown>>

\* A turn of the loop ends with the end of the work.
ResumeDone ==
    /\ reply = "none"
    /\ outer \in {"ok", "exception"}
    /\ ~mustCancel
    /\ reply' = IF outer = "exception" THEN "exception"
                ELSE IF absorbed THEN "True" ELSE "False"
    /\ UNCHANGED <<left, work, workCancel, outer, mustCancel, absorbed,
                   requested, recent, shutdown>>

-----------------------------------------------------------------------------
(* Those who cancel.                                                       *)

\* Task.cancel: cancel the future awaited, or leave word if it is done.
CancelWaiter ==
    /\ requested' = TRUE
    /\ recent' = TRUE
    /\ IF outer = "pending"
       THEN outer' = "cancelled" /\ UNCHANGED mustCancel
       ELSE mustCancel' = TRUE /\ UNCHANGED outer

CallerCancels ==
    /\ reply = "none"
    /\ CancelWaiter
    /\ UNCHANGED <<left, work, workCancel, absorbed, shutdown, reply>>

\* asyncio.run closes its loop: it cancels every task, the work's too.
Shutdown ==
    /\ ~shutdown
    /\ reply = "none"
    /\ shutdown' = TRUE
    /\ workCancel' = (work = "running")
    /\ CancelWaiter
    /\ UNCHANGED <<left, work, absorbed, reply>>

\* uncancellable has returned.
ShieldOver == reply # "none" /\ UNCHANGED shieldVars

-----------------------------------------------------------------------------
WorkTask ==
    \/ WorkStep
    \/ \E how \in {"ok", "exception"} : WorkEnds(how)
    \/ WorkCancelled

Waiter == ResumeCancelled \/ ResumeDone

ShieldNext ==
    \/ WorkTask \/ ShieldCallback \/ Waiter
    \/ CallerCancels \/ Shutdown
    \/ ShieldOver

ShieldSpec == ShieldInit /\ [][ShieldNext]_shieldVars

\* The event loop runs every task and callback that is ready.
ShieldFairness ==
    /\ WF_shieldVars(WorkTask)
    /\ WF_shieldVars(ShieldCallback)
    /\ WF_shieldVars(Waiter)

FairShieldSpec == ShieldSpec /\ ShieldFairness

-----------------------------------------------------------------------------
(* Properties.                                                             *)

\* uncancellable is not done before its work is, however often its caller is
\* cancelled: only a loop that cancels the work itself cuts it off partway.
RunsToCompletion ==
    reply # "none" => /\ work # "running"
                      /\ work = "cancelled" => shutdown

\* A caller learns of every cancellation that was absorbed on its behalf, and
\* of none that was not.
TellsCancellation ==
    reply \in {"True", "False"} => (reply = "True") = requested

\* "Exceptions from work propagate", says the docstring.  They do, unless a
\* cancellation comes in between the last time the loop went back to wait and
\* its answer: none that was absorbed before that hides an exception.
AbsorbedHidesNothing ==
    reply # "none" /\ work = "exception" => reply = "exception" \/ recent

\* Work that is bounded is waited for no longer than it takes, by a caller
\* that is cancelled over and over too.
Finishes == <>(reply # "none")

\* uncancellable does what is asked of it, and no more: every step of its loop
\* is one of ShieldedWait, or shows nothing to its caller.
Wait == INSTANCE ShieldedWait WITH
    working <- work = "running",
    pending <- reply = "none" /\ (mustCancel \/ outer = "cancelled"),
    answer <- reply

RefinesWait == Wait!Spec
=============================================================================
