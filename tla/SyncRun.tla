------------------------------ MODULE SyncRun ------------------------------
(***************************************************************************)
(* bounded_subprocess.run, the synchronous one: it writes stdin, collects  *)
(* the output, waits for the child and lets go of it.  There is no try     *)
(* around any of that, so an exception leaves the child as it is.          *)
(*                                                                         *)
(* Its processes are those of ProcessGroup and its pipes those of          *)
(* OutputDrain.  With kind = "async" the model is that of                  *)
(* read_to_eof_async on the same pipes, and it ends when that returns:     *)
(* AsyncRun has what comes before and after.                               *)
(***************************************************************************)
EXTENDS ProcessGroup, OutputDrain

VARIABLES
    stdin,      \* "none", "text", or "surrogates", which encode refuses
    pc,         \* where run is
    writeOk,    \* its write_ok
    timedOut,   \* its is_timeout
    exitCode,   \* its exit_code: "forced" is -1
    reply       \* how it ended

runVars == <<stdin, pc, writeOk, timedOut, exitCode, reply>>
vars == <<groupVars, drainVars, expired, runVars>>

Timer == {"write", "read", "deadline", "release"}

TypeOK ==
    /\ GroupTypeOK
    /\ DrainTypeOK
    /\ expired \subseteq Timer
    /\ stdin \in {"none", "text", "surrogates"}
    /\ pc \in {"start", "write", "read", "wait", "release", "reap",
               "returned"}
    /\ writeOk \in BOOLEAN
    /\ timedOut \in BOOLEAN
    /\ exitCode \in {"none", "forced"} \cup Unreaped
    /\ reply \in {"none", "result", "error", "interrupted", "collected"}

Init ==
    /\ GroupInit
    /\ DrainInit
    /\ expired = {}
    /\ stdin \in IF kind = "sync" THEN {"none", "text", "surrogates"}
                                  ELSE {"none"}
    /\ pc = "start"
    /\ writeOk = TRUE
    /\ timedOut = FALSE
    /\ exitCode = "none"
    /\ reply = "none"

-----------------------------------------------------------------------------
(* Plausible bugs, each checked to break a property.                       *)

\* The clock is looked at before the child.
WaitLooksAtClock ==
    /\ pc = "wait"
    /\ "deadline" \in expired
    /\ timedOut' = TRUE
    /\ pc' = "release"
    /\ UNCHANGED <<groupVars, drainVars, expired, stdin, writeOk, exitCode,
                   reply>>

\* The write has no time of its own.
WriteEndlessly == FALSE /\ UNCHANGED vars

-----------------------------------------------------------------------------
(* run.                                                                    *)

SpawnFails ==
    /\ pc = "start"
    /\ reply' = "error"
    /\ pc' = "returned"
    /\ UNCHANGED <<groupVars, drainVars, expired, stdin, writeOk, timedOut,
                   exitCode>>

\* Data that cannot be encoded raises here, with the child running.
Start ==
    /\ pc = "start"
    /\ Spawn(IF stdin = "none" THEN {"stdout", "stderr"} ELSE PipeName)
    /\ CASE stdin = "none" ->
              /\ pc' = "read"
              /\ DrainBegins
              /\ UNCHANGED reply
         [] stdin = "text" ->
              /\ pc' = "write"
              /\ UNCHANGED <<drain, avail, reply>>
         [] stdin = "surrogates" ->
              /\ pc' = "returned"
              /\ reply' = "error"
              /\ UNCHANGED <<drain, avail>>
    /\ UNCHANGED <<returncode, silent, stranger, pipeVars, drainGiven, ready,
                   bufs, expired, stdin, writeOk, timedOut, exitCode>>

\* write_nonblocking_sync is done or found the pipe broken ...
WriteReturns(ok) ==
    /\ pc = "write"
    /\ writeOk' = ok
    /\ CloseStdin
    /\ DrainBegins
    /\ pc' = "read"
    /\ UNCHANGED <<proc, returncode, silent, stranger, pipeVars, drainGiven,
                   ready, bufs, expired, stdin, timedOut, exitCode, reply>>

\* ... or ran out of time: a child that waits for us to read its output
\* before it reads on is waited for no longer than that.
WriteTimesOut == "write" \in expired /\ WriteReturns(FALSE)

\* read_to_eof_sync or read_to_eof_async.
Collect ==
    /\ pc = "read"
    /\ Drain
    /\ UNCHANGED <<groupVars, expired, runVars>>

Collected ==
    /\ pc = "read"
    /\ drain = "done"
    /\ IF kind = "sync"
       THEN pc' = "wait" /\ UNCHANGED reply
       ELSE pc' = "returned" /\ reply' = "collected"
    /\ UNCHANGED <<groupVars, drainVars, expired, stdin, writeOk, timedOut,
                   exitCode>>

\* popen.wait looks at the child first, even with no time left.
WaitReaps ==
    /\ pc = "wait"
    /\ proc[Child] \in Unreaped
    /\ Poll
    /\ exitCode' = proc[Child]
    /\ pc' = "release"
    /\ UNCHANGED <<silent, pipes, stranger, drainVars, expired, stdin,
                   writeOk, timedOut, reply>>

WaitExpires ==
    /\ pc = "wait"
    /\ proc[Child] \notin Unreaped
    /\ "deadline" \in expired
    /\ timedOut' = TRUE
    /\ pc' = "release"
    /\ UNCHANGED <<groupVars, drainVars, expired, stdin, writeOk, exitCode,
                   reply>>

\* release_sync.
ReleaseKills ==
    /\ pc = "release"
    /\ KillGroup
    /\ pc' = "reap"
    /\ UNCHANGED <<returncode, silent, pipes, drainVars, expired, stdin,
                   writeOk, timedOut, exitCode, reply>>

Status == IF timedOut \/ ~writeOk THEN "forced" ELSE exitCode

\* reap_sync ends one way or the other, and run closes the pipes and answers.
Reaped ==
    /\ pc = "reap"
    /\ Poll
    /\ returncode' # "none"
    /\ ClosePipes
    /\ exitCode' = Status
    /\ reply' = "result"
    /\ pc' = "returned"
    /\ UNCHANGED <<silent, stranger, drainVars, expired, stdin, writeOk,
                   timedOut>>

ReapGivesUp ==
    /\ pc = "reap"
    /\ returncode = "none"
    /\ proc[Child] \notin Unreaped
    /\ "release" \in expired
    /\ ClosePipes
    /\ exitCode' = Status
    /\ reply' = "result"
    /\ pc' = "returned"
    /\ UNCHANGED <<proc, returncode, silent, stranger, drainVars, expired,
                   stdin, writeOk, timedOut>>

-----------------------------------------------------------------------------
(* The user, the clock and the processes.                                  *)

\* KeyboardInterrupt, wherever run waits: it goes no further.
Interrupt ==
    /\ kind = "sync"
    /\ pc \in {"write", "wait", "reap"} \/ (pc = "read" /\ drain = "select")
    /\ reply' = "interrupted"
    /\ pc' = "returned"
    /\ UNCHANGED <<groupVars, drainVars, expired, stdin, writeOk, timedOut,
                   exitCode>>

\* Collecting starts after run and has as much time, so the deadline of run
\* comes first.
MayExpire(t) ==
    \/ t = "write" /\ pc = "write"
    \/ t = "deadline" /\ pc \notin {"start", "returned"}
    \/ t = "read" /\ pc = "read" /\ "deadline" \in expired
    \/ t = "release" /\ pc = "reap"

Expire(t) ==
    /\ MayExpire(t)
    /\ t \notin expired
    /\ expired' = expired \cup {t}
    /\ UNCHANGED <<groupVars, drainVars, runVars>>

\* What happens to the processes once run has answered is left out.
GroupStep ==
    /\ pc # "returned"
    /\ \/ \E k \in Kin : Fork(k) \/ Escape(k)
       \/ \E p \in Procs : Exit(p) \/ Die(p)
       \/ ReusePgid
    /\ UNCHANGED <<drainVars, expired, runVars>>

\* A live process writes, or the last one to hold a pipe lets go of it, at
\* its end if not before.  Nobody reads any more once collecting is over.
OutputStep ==
    /\ pc \in {"write", "read"}
    /\ \E f \in Fds : (Live # {} /\ Write(f)) \/ Shut(f)
    /\ UNCHANGED <<groupVars, drainGiven, drain, avail, ready, bufs, expired,
                   runVars>>

Terminating == pc = "returned" /\ UNCHANGED vars

-----------------------------------------------------------------------------
Run ==
    \/ SpawnFails \/ Start
    \/ WriteTimesOut \/ Collect \/ Collected
    \/ WaitReaps \/ WaitExpires \/ ReleaseKills \/ Reaped \/ ReapGivesUp

Next ==
    \/ Run
    \/ \E ok \in BOOLEAN : WriteReturns(ok)
    \/ Interrupt
    \/ \E t \in Timer : Expire(t)
    \/ GroupStep \/ OutputStep
    \/ Terminating

Spec == Init /\ [][Next]_vars

\* run goes on when it can, and time passes.  No process has to exit, write
\* or read, and no pipe has to end.
Fairness == WF_vars(Run) /\ \A t \in Timer : WF_vars(Expire(t))

FairSpec == Spec /\ Fairness

-----------------------------------------------------------------------------
(* Properties.                                                             *)

\* A run that collected until both pipes ended has the first or last
\* max_output_size bytes of all that the child and its descendants ever wrote.
OutputComplete ==
    reply \in {"result", "collected"} /\ "read" \notin expired =>
        \A f \in Fds : bufs[f] = Kept(written[f])

\* A run that gives a result has let go of all it had; one that raises, on
\* data it cannot encode or a KeyboardInterrupt, need not have.
ReleasedOnResult ==
    reply = "result" =>
        /\ Running = {}
        /\ pipes = {}
        /\ returncode # "none" \/ "release" \in expired

\* A child that has exited before run waits for it is never reported as timed
\* out, however late it is by then.
ExitIsSeen ==
    [](proc[Child] = "exited" /\ pc \in {"write", "read", "wait"}
         => []~timedOut)

\* Whatever the child does, run answers.
Returns == pc # "start" ~> pc = "returned"
=============================================================================
