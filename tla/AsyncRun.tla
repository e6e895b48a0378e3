------------------------------ MODULE AsyncRun ------------------------------
(***************************************************************************)
(* bounded_subprocess_async.run: the task that runs it, the memory         *)
(* watchdog, the release task that uncancellable shields, the caller that  *)
(* may cancel at any time and as often as it likes, and the processes.     *)
(*                                                                         *)
(* An action of a task is what it does between two awaits, so "pc" says    *)
(* where the task is suspended.  A cancellation is a request first (Cancel)*)
(* and an exception at the await second, as in asyncio.  How much is       *)
(* written and read is left out (StdinFeed has the stdin side): a phase    *)
(* may return once the processes or the clock let it.                      *)
(***************************************************************************)
EXTENDS ProcessGroup

CONSTANT
    WaitForSwallows  \* asyncio.wait_for loses a cancellation that finds its
                     \* inner future done: so up to Python 3.11, not since

ASSUME WaitForAssumption == WaitForSwallows \in BOOLEAN

VARIABLES
    opts,             \* the arguments that matter: what there is to write to
                      \* stdin, and whether there is a memory limit
    pc,               \* where the task of run is
    verdict,          \* how _collect_bounded ended
    writeOk,          \* its write_ok
    timedOut,         \* its is_timeout
    exitCode,         \* its exit_code: "forced" is -1
    watchdog,         \* the memory watchdog's task
    watchdogCancel,   \* a cancellation of that task is pending
    rel,              \* where the release task is
    absorbed,         \* absorbed_cancellation of uncancellable
    pendingCancel,    \* a cancellation of run's task is pending
    cancelRequested,  \* the caller has cancelled (history)
    expired,          \* the deadlines that have passed
    reply             \* what the caller got

collectVars  == <<verdict, writeOk, timedOut, exitCode>>
watchdogVars == <<watchdog, watchdogCancel>>
cancelVars   == <<absorbed, pendingCancel, cancelRequested>>
vars == <<groupVars, opts, pc, collectVars, watchdogVars, rel, cancelVars,
          expired, reply>>

\* "surrogates" is a string that str.encode refuses.
Options == [stdin : {"none", "text", "surrogates"}, limit : BOOLEAN]
Timer == {"deadline", "read", "release"}
ExitCode == {"none", "forced"} \cup Unreaped

TypeOK ==
    /\ GroupTypeOK
    /\ opts \in Options
    /\ pc \in {"start", "write", "read", "exit", "release", "returned"}
    /\ verdict \in {"none", "result", "cancelled", "error"}
    /\ writeOk \in BOOLEAN
    /\ timedOut \in BOOLEAN
    /\ exitCode \in ExitCode
    /\ watchdog \in {"none", "polling", "tripped", "lapsed", "failed",
                     "cancelled"}
    /\ watchdogCancel \in BOOLEAN
    /\ rel \in {"none", "begin", "await", "reap", "done"}
    /\ absorbed \in BOOLEAN
    /\ pendingCancel \in BOOLEAN
    /\ cancelRequested \in BOOLEAN
    /\ expired \subseteq Timer
    /\ reply \in {"none", "result", "cancelled", "error"}

Init ==
    /\ GroupInit
    /\ opts \in Options
    /\ pc = "start"
    /\ verdict = "none"
    /\ writeOk = TRUE
    /\ timedOut = FALSE
    /\ exitCode = "none"
    /\ watchdog = "none"
    /\ watchdogCancel = FALSE
    /\ rel = "none"
    /\ absorbed = FALSE
    /\ pendingCancel = FALSE
    /\ cancelRequested = FALSE
    /\ expired = {}
    /\ reply = "none"

-----------------------------------------------------------------------------
(* Plausible bugs, each checked to break a property.                       *)

\* The verdict of the watchdog is not read.
ConcludeWithoutVerdict(rc, late) ==
    /\ timedOut' = late
    /\ verdict' = "result"
    /\ exitCode' = IF late \/ ~writeOk THEN "forced" ELSE rc
    /\ pc' = "release"
    /\ rel' = "begin"

\* The release is awaited without a shield: a cancellation ends the wait.
AbsorbUnshielded ==
    /\ pc = "release"
    /\ pendingCancel
    /\ pendingCancel' = FALSE
    /\ absorbed' = TRUE
    /\ reply' = "cancelled"
    /\ pc' = "returned"
    /\ UNCHANGED <<groupVars, opts, collectVars, watchdogVars, rel,
                   cancelRequested, expired>>

\* The watchdog is not stopped before the kill.
KillBesideWatchdog ==
    /\ rel \in {"begin", "await"}
    /\ KillGroup
    /\ rel' = "reap"
    /\ UNCHANGED <<returncode, silent, pipes, opts, pc, collectVars,
                   watchdogVars, cancelVars, expired, reply>>

\* The reaping has no deadline.
ReapForever == FALSE /\ UNCHANGED vars

-----------------------------------------------------------------------------
(* The task of run: run and _collect_bounded.                              *)

\* Cancelled before its first step, run raises without having started.
CancelledBeforeStart ==
    /\ pc = "start"
    /\ pendingCancel
    /\ pendingCancel' = FALSE
    /\ reply' = "cancelled"
    /\ pc' = "returned"
    /\ UNCHANGED <<groupVars, opts, collectVars, watchdogVars, rel, absorbed,
                   cancelRequested, expired>>

\* Popen raises: no such program, no more processes.
SpawnFails ==
    /\ pc = "start"
    /\ ~pendingCancel
    /\ reply' = "error"
    /\ pc' = "returned"
    /\ UNCHANGED <<groupVars, opts, collectVars, watchdogVars, rel,
                   cancelVars, expired>>

\* The child is spawned and the watchdog created before anything is awaited.
\* Data that cannot be encoded raises on the way to the first write.
Start ==
    /\ pc = "start"
    /\ ~pendingCancel
    /\ Spawn(IF opts.stdin = "none" THEN {"stdout", "stderr"} ELSE PipeName)
    /\ watchdog' = IF opts.limit THEN "polling" ELSE "none"
    /\ IF opts.stdin = "surrogates"
       THEN /\ verdict' = "error"
            /\ pc' = "release"
            /\ rel' = "begin"
       ELSE /\ pc' = IF opts.stdin = "none" THEN "read" ELSE "write"
            /\ UNCHANGED <<verdict, rel>>
    /\ UNCHANGED <<returncode, silent, stranger, opts, writeOk, timedOut,
                   exitCode, watchdogCancel, cancelVars, expired, reply>>

\* CancelledError is raised at an await of _collect_bounded; the finally
\* clause starts the release.
CancelDelivered ==
    /\ pc \in {"write", "read", "exit"}
    /\ pendingCancel
    /\ pendingCancel' = FALSE
    /\ verdict' = "cancelled"
    /\ pc' = "release"
    /\ rel' = "begin"
    /\ UNCHANGED <<groupVars, opts, writeOk, timedOut, exitCode, watchdogVars,
                   absorbed, cancelRequested, expired, reply>>

\* The pipe became ready as the cancellation came in, and wait_for returned
\* the ready future instead of raising.
CancelSwallowed ==
    /\ WaitForSwallows
    /\ pc \in {"write", "read"}
    /\ pendingCancel
    /\ pendingCancel' = FALSE
    /\ UNCHANGED <<groupVars, opts, pc, collectVars, watchdogVars, rel,
                   absorbed, cancelRequested, expired, reply>>

\* write_nonblocking_async is done, or gave up: a broken pipe or its timeout.
WriteReturns(ok) ==
    /\ pc = "write"
    /\ ~pendingCancel
    /\ writeOk' = ok
    /\ CloseStdin
    /\ pc' = "read"
    /\ UNCHANGED <<proc, returncode, silent, stranger, opts, verdict,
                   timedOut, exitCode, watchdogVars, rel, cancelVars, expired,
                   reply>>

\* read_to_eof_async saw both ends of file, or its own time is up.
ReadReturns ==
    /\ pc = "read"
    /\ ~pendingCancel
    /\ OutputHolders = {} \/ "read" \in expired
    /\ pc' = "exit"
    /\ UNCHANGED <<groupVars, opts, collectVars, watchdogVars, rel,
                   cancelVars, expired, reply>>

\* What _collect_bounded makes of the exit status, the deadline and the
\* verdict the watchdog has already reached, if any.
Conclude(rc, late) ==
    /\ timedOut' = late
    /\ IF watchdog = "failed"
       THEN /\ verdict' = "error"
            /\ UNCHANGED exitCode
       ELSE /\ verdict' = "result"
            /\ exitCode' = IF late \/ ~writeOk \/ watchdog = "tripped"
                           THEN "forced" ELSE rc
    /\ pc' = "release"
    /\ rel' = "begin"

\* An iteration of the loop that polls the child, if it is the last one.
ExitObserved ==
    /\ pc = "exit"
    /\ ~pendingCancel
    /\ proc[Child] \in Unreaped
    /\ Poll
    /\ Conclude(proc[Child], FALSE)
    /\ UNCHANGED <<silent, pipes, stranger, opts, writeOk, watchdogVars,
                   cancelVars, expired, reply>>

DeadlineReached ==
    /\ pc = "exit"
    /\ ~pendingCancel
    /\ proc[Child] \notin Unreaped
    /\ "deadline" \in expired
    /\ Conclude("none", TRUE)
    /\ UNCHANGED <<groupVars, opts, writeOk, watchdogVars, cancelVars,
                   expired, reply>>

\* What run does when uncancellable returns: re-raise what is in flight, or
\* the cancellation it deferred, or return the result.
Outcome(deferred) ==
    IF verdict = "result" /\ deferred THEN "cancelled" ELSE verdict

Return ==
    /\ pc = "release"
    /\ rel = "done"
    /\ ~pendingCancel
    /\ reply' = Outcome(absorbed)
    /\ pc' = "returned"
    /\ UNCHANGED <<groupVars, opts, collectVars, watchdogVars, rel,
                   cancelVars, expired>>

\* uncancellable absorbs a cancellation, and waits on unless the work is done.
AbsorbCancel ==
    /\ pc = "release"
    /\ pendingCancel
    /\ pendingCancel' = FALSE
    /\ absorbed' = TRUE
    /\ IF rel = "done"
       THEN /\ reply' = Outcome(TRUE)
            /\ pc' = "returned"
       ELSE UNCHANGED <<pc, reply>>
    /\ UNCHANGED <<groupVars, opts, collectVars, watchdogVars, rel,
                   cancelRequested, expired>>

-----------------------------------------------------------------------------
(* The release task: _release and Child.release_async.                     *)

\* Cancel the watchdog and await it: a finished one is not worth a wait.
StopWatchdog ==
    /\ rel = "begin"
    /\ watchdog = "polling"
    /\ watchdogCancel' = TRUE
    /\ rel' = "await"
    /\ UNCHANGED <<groupVars, opts, pc, collectVars, watchdog, cancelVars,
                   expired, reply>>

ReleaseKills ==
    /\ rel \in {"begin", "await"}
    /\ watchdog # "polling"
    /\ KillGroup
    /\ rel' = "reap"
    /\ UNCHANGED <<returncode, silent, pipes, opts, pc, collectVars,
                   watchdogVars, cancelVars, expired, reply>>

\* reap_async polls until the child is reaped, or its own time is up; either
\* way the pipes are closed next.
Reaped ==
    /\ rel = "reap"
    /\ Poll
    /\ returncode' # "none"
    /\ ClosePipes
    /\ rel' = "done"
    /\ UNCHANGED <<silent, stranger, opts, pc, collectVars, watchdogVars,
                   cancelVars, expired, reply>>

ReapGivesUp ==
    /\ rel = "reap"
    /\ returncode = "none"
    /\ proc[Child] \notin Unreaped
    /\ "release" \in expired
    /\ ClosePipes
    /\ rel' = "done"
    /\ UNCHANGED <<proc, returncode, silent, stranger, opts, pc, collectVars,
                   watchdogVars, cancelVars, expired, reply>>

-----------------------------------------------------------------------------
(* The watchdog: _memory_watchdog, one action per way out of its loop.     *)

WatchdogRuns == watchdog = "polling" /\ ~watchdogCancel

\* The processes /proc shows in the group are too big.  The scan knows them
\* by the group's id, whoever has it.
WatchdogTrips ==
    /\ WatchdogRuns
    /\ Members # {} \/ stranger = "alive"
    /\ KillGroup
    /\ watchdog' = "tripped"
    /\ UNCHANGED <<returncode, silent, pipes, opts, pc, collectVars,
                   watchdogCancel, rel, cancelVars, expired, reply>>

WatchdogLapses ==
    /\ WatchdogRuns
    /\ "deadline" \in expired
    /\ watchdog' = "lapsed"
    /\ UNCHANGED <<groupVars, opts, pc, collectVars, watchdogCancel, rel,
                   cancelVars, expired, reply>>

\* killpg is not permitted, or /proc cannot be read.
WatchdogFails ==
    /\ WatchdogRuns
    /\ watchdog' = "failed"
    /\ UNCHANGED <<groupVars, opts, pc, collectVars, watchdogCancel, rel,
                   cancelVars, expired, reply>>

WatchdogCancelled ==
    /\ watchdog = "polling"
    /\ watchdogCancel
    /\ watchdog' = "cancelled"
    /\ watchdogCancel' = FALSE
    /\ UNCHANGED <<groupVars, opts, pc, collectVars, rel, cancelVars, expired,
                   reply>>

-----------------------------------------------------------------------------
(* The caller, the clock and the processes.                                *)

Cancel ==
    /\ pc # "returned"
    /\ pendingCancel' = TRUE
    /\ cancelRequested' = TRUE
    /\ UNCHANGED <<groupVars, opts, pc, collectVars, watchdogVars, rel,
                   absorbed, expired, reply>>

\* The reading phase starts after the run and has as much time, so its end
\* never comes before the deadline of the run.
MayExpire(t) ==
    \/ t = "deadline" /\ pc \notin {"start", "returned"}
    \/ t = "read" /\ pc = "read" /\ "deadline" \in expired
    \/ t = "release" /\ rel = "reap"

Expire(t) ==
    /\ MayExpire(t)
    /\ t \notin expired
    /\ expired' = expired \cup {t}
    /\ UNCHANGED <<groupVars, opts, pc, collectVars, watchdogVars, rel,
                   cancelVars, reply>>

KernelStep ==
    /\ Kernel
    /\ UNCHANGED <<opts, pc, collectVars, watchdogVars, rel, cancelVars,
                   expired, reply>>

\* run has answered: only the processes that left the group still move.
Terminating == pc = "returned" /\ UNCHANGED vars

-----------------------------------------------------------------------------
RunTask ==
    \/ CancelledBeforeStart \/ SpawnFails \/ Start
    \/ CancelDelivered \/ CancelSwallowed
    \/ \E ok \in BOOLEAN : WriteReturns(ok)
    \/ ReadReturns \/ ExitObserved \/ DeadlineReached
    \/ Return \/ AbsorbCancel

ReleaseTask == StopWatchdog \/ ReleaseKills \/ Reaped \/ ReapGivesUp

WatchdogTask ==
    WatchdogTrips \/ WatchdogLapses \/ WatchdogFails \/ WatchdogCancelled

Next ==
    \/ RunTask
    \/ ReleaseTask
    \/ WatchdogTask
    \/ Cancel
    \/ \E t \in Timer : Expire(t)
    \/ KernelStep
    \/ Terminating

Spec == Init /\ [][Next]_vars

\* The event loop runs every task that can go on, and time passes.  Nothing
\* makes a process exit, a caller cancel or a watchdog find too much memory.
Fairness ==
    /\ WF_vars(RunTask)
    /\ WF_vars(ReleaseTask)
    /\ WF_vars(WatchdogCancelled)
    /\ \A t \in Timer : WF_vars(Expire(t))

FairSpec == Spec /\ Fairness

\* Not part of it: SIGKILL is carried out.  Only GroupDies supposes it.
KernelFairness == \A p \in Procs : WF_vars(KernelStep /\ Die(p))

-----------------------------------------------------------------------------
(* Properties.                                                             *)

\* Every way out of run that spawned a child lets go of all of it: no member
\* of the group is left running, the pipes are closed, the watchdog has
\* stopped, and the child is reaped unless it outlasted the release timeout.
ReleasedOnReturn ==
    pc = "returned" /\ proc[Child] # "unborn" =>
        /\ Running = {}
        /\ pipes = {}
        /\ watchdog # "polling"
        /\ returncode # "none" \/ "release" \in expired

\* Whatever the moment a cancellation comes in, its caller is never given a
\* result.  It holds from Python 3.12 on (WaitForSwallows = FALSE).
CancelHonoured == reply = "result" => ~cancelRequested

\* No step forgets a cancellation: one that is pending becomes the verdict or
\* the answer, or is absorbed, unless wait_for loses it.
NoneForgotten ==
    [][pendingCancel /\ ~pendingCancel'
         => \/ "cancelled" \in {verdict', reply'}
            \/ absorbed'
            \/ WaitForSwallows /\ pc \in {"write", "read"}]_vars

\* Only a run that has seen its child exit can signal a stranger: one that
\* was cancelled or timed out kills the group before it reaps the child.
KillsBeforeReaping ==
    verdict = "cancelled" \/ timedOut => stranger # "hit"

\* The status SIGKILL leaves is never handed out as the program's own: when
\* the watchdog killed the child its verdict is there to force -1.
KillIsNotAnExitCode == reply = "result" => exitCode # "killed"

\* The comment above the watchdog's creation: a child that balloons past the
\* limit while stalling the stdin write must still be killed.
WatchdogCoversStdin == ~(pc = "write" /\ watchdog = "lapsed")

\* What is true of it: no phase of the run goes unwatched before its deadline,
\* but for a watchdog that has failed, or has killed the group.
WatchedUntilDeadline ==
    /\ opts.limit
    /\ pc \in {"write", "read", "exit"}
    /\ "deadline" \notin expired
    => watchdog \in {"polling", "tripped", "failed"}

\* Child.release_sync and _release: killing precedes reaping and the watchdog
\* stops first, lest a stranger that was given the group's id be signalled.
NeverSignalsStranger == stranger # "hit"

\* However often it is cancelled and whatever the child does, run answers.
Returns == pc # "start" ~> pc = "returned"

\* If SIGKILL is carried out, no process is left in the group for good,
\* neither a running nor a dying one.
GroupDies == KernelFairness => (pc = "release" ~> Members = {})

\* run keeps the contract of its docstring.
Contract == INSTANCE RunContract WITH
    phase <- IF pc = "start" THEN "idle"
             ELSE IF pc = "returned" THEN "done" ELSE "busy",
    held <- Running # {} \/ pipes # {} \/ watchdog = "polling",
    cancelled <- cancelRequested

RefinesContract == Contract!Spec

\* The wait for the release task keeps to what Uncancellable implements: run
\* does not go on before the release is over, and is told of a cancellation
\* if and only if one came in meanwhile.
Wait == INSTANCE ShieldedWait WITH
    working <- rel # "done",
    pending <- pc = "release" /\ pendingCancel,
    answer <- IF pc # "returned" \/ rel = "none" THEN "none"
              ELSE IF absorbed THEN "True" ELSE "False"

RefinesWait == Wait!Spec
=============================================================================
