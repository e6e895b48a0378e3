--------------------------- MODULE AsyncRunProofs ---------------------------
(***************************************************************************)
(* The safety properties of AsyncRun, for every set of descendants.        *)
(***************************************************************************)
EXTENDS AsyncRun, ProcessGroupProofs, TLAPS

\* Before the spawn there is nothing to let go of.
NotSpawned ==
    proc[Child] = "unborn" =>
        /\ pc \in {"start", "returned"}
        /\ rel = "none"
        /\ watchdog = "none"
        /\ pipes = {}
        /\ \A p \in Procs : proc[p] = "unborn"

\* Where the release task can be, by where the task of run is.
PhaseInv ==
    /\ pc = "start" => proc[Child] = "unborn"
    /\ pc \in {"start", "write", "read", "exit"} =>
         /\ rel = "none"
         /\ verdict = "none"
         /\ exitCode = "none"
         /\ ~timedOut
         /\ ~absorbed
         /\ ~watchdogCancel
         /\ returncode = "none"
    /\ pc = "release" => rel # "none" /\ verdict # "none"
    /\ pc # "returned" => reply = "none"
    /\ pc = "returned" =>
         /\ ~pendingCancel
         /\ proc[Child] # "unborn" =>
              /\ rel = "done"
              /\ reply = Outcome(absorbed)
         /\ proc[Child] = "unborn" => reply \in {"cancelled", "error"}

\* After its kill the release task has only the reaping and the closing left.
ReleaseInv ==
    /\ rel \in {"reap", "done"} => Running = {} /\ watchdog # "polling"
    /\ rel = "done" => /\ pipes = {}
                       /\ returncode # "none" \/ "release" \in expired
    /\ proc[Child] # "unborn" /\ rel # "done" => "stdout" \in pipes

\* A stranger has the group's id only after the child was reaped.  A run that
\* was cancelled or timed out does not reap before it kills.
ReapInv ==
    /\ PidTaken
    /\ (verdict = "cancelled" \/ timedOut) /\ rel \in {"begin", "await"}
         => returncode = "none"

\* Until the release only the watchdog kills, and it is done when it has.
KillInv ==
    /\ pc \in {"write", "read", "exit"} /\ proc[Child] \in {"dying", "killed"}
         => watchdog = "tripped"
    /\ exitCode # "killed"

\* A cancellation is pending, absorbed or passed on, never forgotten.
CancelInv ==
    ~WaitForSwallows /\ cancelRequested =>
        \/ pendingCancel \/ absorbed
        \/ verdict = "cancelled" \/ reply = "cancelled"

\* Nor is one made up.
AskedInv ==
    /\ pendingCancel \/ absorbed \/ verdict = "cancelled" => cancelRequested
    /\ pc = "start" /\ cancelRequested => pendingCancel

IInv ==
    /\ TypeOK
    /\ NotSpawned
    /\ PhaseInv
    /\ ReleaseInv
    /\ ReapInv
    /\ KillsBeforeReaping
    /\ KillInv
    /\ CancelInv
    /\ AskedInv


-----------------------------------------------------------------------------
(* Type correctness.                                                       *)

LEMMA TypeInit == Init => TypeOK
BY KinAssumption
DEF Init, TypeOK, GroupInit, GroupTypeOK, Procs, ProcCondition, Unreaped,
    PipeName, ExitCode, Timer

LEMMA TypeNext == TypeOK /\ [Next]_vars => TypeOK'
<1> SUFFICES ASSUME TypeOK, [Next]_vars
             PROVE  TypeOK'
  OBVIOUS
<1> USE DEF TypeOK
<1>1. CASE CancelledBeforeStart \/ SpawnFails
  BY <1>1 DEF CancelledBeforeStart, SpawnFails, groupVars, GroupTypeOK,
              collectVars, watchdogVars, cancelVars
<1>2. CASE Start
  <2>1. GroupTypeOK'
    <3>1. PICK ends \in SUBSET PipeName : Spawn(ends)
      BY <1>2 DEF Start, PipeName
    <3> QED
      BY <1>2, <3>1, SpawnType DEF Start
  <2>2. QED
    BY <1>2, <2>1 DEF Start, cancelVars
<1>3. CASE CancelDelivered \/ CancelSwallowed
  BY <1>3 DEF CancelDelivered, CancelSwallowed, groupVars, GroupTypeOK,
              collectVars, watchdogVars, cancelVars
<1>4. ASSUME NEW ok \in BOOLEAN, WriteReturns(ok)
      PROVE  TypeOK'
  <2>1. GroupTypeOK'
    BY <1>4 DEF WriteReturns, CloseStdin, GroupTypeOK
  <2>2. QED
    BY <1>4, <2>1 DEF WriteReturns, watchdogVars, cancelVars
<1>5. CASE ReadReturns
  BY <1>5 DEF ReadReturns, groupVars, GroupTypeOK, collectVars, watchdogVars,
              cancelVars
<1>6. CASE ExitObserved
  <2>1. GroupTypeOK'
    BY <1>6, PollType DEF ExitObserved, GroupTypeOK
  <2>2. QED
    BY <1>6, <2>1
    DEF ExitObserved, Conclude, ExitCode, watchdogVars, cancelVars
<1>7. CASE DeadlineReached
  BY <1>7 DEF DeadlineReached, Conclude, ExitCode, groupVars, GroupTypeOK,
              watchdogVars, cancelVars
<1>8. CASE Return \/ AbsorbCancel
  BY <1>8 DEF Return, AbsorbCancel, Outcome, groupVars, GroupTypeOK,
              collectVars, watchdogVars, cancelVars
<1>9. CASE StopWatchdog
  BY <1>9 DEF StopWatchdog, groupVars, GroupTypeOK, collectVars, cancelVars
<1>10. CASE ReleaseKills
  <2>1. GroupTypeOK'
    BY <1>10, KillGroupType, KinAssumption
    DEF ReleaseKills, GroupTypeOK, Procs, Unreaped
  <2>2. QED
    BY <1>10, <2>1 DEF ReleaseKills, collectVars, watchdogVars, cancelVars
<1>11. CASE Reaped
  <2>1. GroupTypeOK'
    BY <1>11, PollType DEF Reaped, ClosePipes, GroupTypeOK
  <2>2. QED
    BY <1>11, <2>1 DEF Reaped, collectVars, watchdogVars, cancelVars
<1>12. CASE ReapGivesUp
  BY <1>12 DEF ReapGivesUp, ClosePipes, GroupTypeOK, collectVars,
               watchdogVars, cancelVars
<1>13. CASE WatchdogTrips
  <2>1. GroupTypeOK'
    BY <1>13, KillGroupType, KinAssumption
    DEF WatchdogTrips, GroupTypeOK, Procs, Unreaped
  <2>2. QED
    BY <1>13, <2>1 DEF WatchdogTrips, collectVars, cancelVars
<1>14. CASE WatchdogLapses \/ WatchdogFails \/ WatchdogCancelled
  <2>1. /\ UNCHANGED <<groupVars, opts, pc, collectVars, rel, cancelVars,
                       expired, reply>>
        /\ watchdog' \in {"lapsed", "failed", "cancelled"}
        /\ watchdogCancel' \in BOOLEAN
    BY <1>14 DEF WatchdogLapses, WatchdogFails, WatchdogCancelled
  <2>2. QED
    BY <2>1 DEF groupVars, GroupTypeOK, collectVars, cancelVars
<1>15. CASE Cancel
  BY <1>15 DEF Cancel, groupVars, GroupTypeOK, collectVars, watchdogVars
<1>16. ASSUME NEW t \in Timer, Expire(t)
       PROVE  TypeOK'
  BY <1>16 DEF Expire, groupVars, GroupTypeOK, collectVars, watchdogVars,
               cancelVars
<1>17. CASE KernelStep
  <2>1. GroupTypeOK'
    BY <1>17, KernelType DEF KernelStep
  <2>2. QED
    BY <1>17, <2>1 DEF KernelStep, collectVars, watchdogVars, cancelVars
<1>18. CASE UNCHANGED vars
  BY <1>18 DEF vars, groupVars, GroupTypeOK, collectVars, watchdogVars,
               cancelVars
<1>19. QED
  BY <1>1, <1>2, <1>3, <1>4, <1>5, <1>6, <1>7, <1>8, <1>9, <1>10, <1>11,
     <1>12, <1>13, <1>14, <1>15, <1>16, <1>17, <1>18
  DEF Next, RunTask, ReleaseTask, WatchdogTask, Terminating

\* Every variable of run keeps to its values, whatever the descendants.
THEOREM TypeCorrect == Spec => []TypeOK
BY TypeInit, TypeNext, PTL DEF Spec

-----------------------------------------------------------------------------
(* The invariant.                                                          *)

LEMMA InvInit == Init => IInv
BY TypeInit
DEF Init, IInv, NotSpawned, PhaseInv, ReleaseInv, ReapInv, PidTaken,
    KillsBeforeReaping, KillInv, CancelInv, AskedInv, GroupInit, Procs, Child

LEMMA InvNext == IInv /\ [Next]_vars => IInv'
<1> SUFFICES ASSUME IInv, [Next]_vars
             PROVE  IInv'
  OBVIOUS
<1>1. TypeOK /\ GroupTypeOK /\ TypeOK'
  BY TypeNext DEF IInv, TypeOK
<1> USE DEF IInv, NotSpawned, PhaseInv, ReleaseInv, ReapInv, PidTaken,
            KillsBeforeReaping, KillInv, CancelInv, AskedInv
\* The task of run.
<1>2. CASE CancelledBeforeStart \/ SpawnFails
  BY <1>1, <1>2
  DEF CancelledBeforeStart, SpawnFails, groupVars, collectVars, watchdogVars,
      cancelVars, Running
<1>3. CASE Start
  <2>1. proc'[Child] = "running" /\ "stdout" \in pipes'
    BY <1>1, <1>3 DEF Start, Spawn, PipeName, GroupTypeOK, Procs
  <2>2. QED
    BY <1>1, <1>3, <2>1 DEF Start, cancelVars
<1>4. CASE CancelDelivered \/ CancelSwallowed
  BY <1>1, <1>4
  DEF CancelDelivered, CancelSwallowed, groupVars, collectVars, watchdogVars,
      Running
<1>5. ASSUME NEW ok \in BOOLEAN, WriteReturns(ok)
      PROVE  IInv'
  BY <1>1, <1>5
  DEF WriteReturns, CloseStdin, watchdogVars, cancelVars, Running
<1>6. CASE ReadReturns
  BY <1>1, <1>6
  DEF ReadReturns, groupVars, collectVars, watchdogVars, cancelVars, Running
<1>7. CASE ExitObserved
  <2>1. /\ returncode' # "none"
        /\ proc'[Child] = "gone"
        /\ exitCode' # "killed"
        /\ verdict' \in {"result", "error"}
    BY <1>1, <1>7
    DEF ExitObserved, Conclude, Poll, GroupTypeOK, Procs, Unreaped
  <2>2. QED
    BY <1>1, <1>7, <2>1 DEF ExitObserved, Conclude, watchdogVars, cancelVars
<1>8. CASE DeadlineReached
  BY <1>1, <1>8
  DEF DeadlineReached, Conclude, groupVars, watchdogVars, cancelVars, Running
<1>9. CASE Return \/ AbsorbCancel
  BY <1>1, <1>9
  DEF Return, AbsorbCancel, Outcome, groupVars, collectVars, watchdogVars,
      cancelVars, Running
\* The release task.  It kills while nobody else can have the group's id,
\* unless the child's exit has been observed.
<1>10. CASE StopWatchdog
  BY <1>1, <1>10
  DEF StopWatchdog, groupVars, collectVars, cancelVars, Running
<1>11. CASE ReleaseKills
  <2>1. Running' = {}
    BY <1>1, <1>11, KillGroupStopsAll DEF ReleaseKills
  <2>2. KillsBeforeReaping'
    BY <1>11 DEF ReleaseKills, KillGroup, collectVars
  <2>3. QED
    BY <1>1, <1>11, <2>1, <2>2, KillGroupType
    DEF ReleaseKills, KillGroup, Procs, collectVars, watchdogVars, cancelVars
<1>12. CASE Reaped
  <2>1. proc'[Child] # "unborn" /\ Running' = {}
    BY <1>1, <1>12, PollType DEF Reaped, Running, Procs
  <2>2. QED
    BY <1>1, <1>12, <2>1
    DEF Reaped, ClosePipes, collectVars, watchdogVars, cancelVars
<1>13. CASE ReapGivesUp
  BY <1>1, <1>13
  DEF ReapGivesUp, ClosePipes, collectVars, watchdogVars, cancelVars, Running
\* The watchdog.  It can kill only before the release task does.
<1>14. CASE WatchdogTrips
  <2>1. Running' = {}
    BY <1>1, <1>14, KillGroupStopsAll DEF WatchdogTrips
  <2>2. KillsBeforeReaping'
    BY <1>1, <1>14 DEF WatchdogTrips, WatchdogRuns, KillGroup, collectVars,
                       TypeOK
  <2>3. QED
    BY <1>1, <1>14, <2>1, <2>2, KillGroupType
    DEF WatchdogTrips, WatchdogRuns, KillGroup, Procs, collectVars, cancelVars
<1>15. CASE WatchdogLapses \/ WatchdogFails \/ WatchdogCancelled
  BY <1>1, <1>15
  DEF WatchdogLapses, WatchdogFails, WatchdogCancelled, WatchdogRuns,
      groupVars, collectVars, cancelVars, Running
\* The caller, the clock and the processes.
<1>16. CASE Cancel
  BY <1>1, <1>16
  DEF Cancel, groupVars, collectVars, watchdogVars, Running
<1>17. ASSUME NEW t \in Timer, Expire(t)
       PROVE  IInv'
  BY <1>1, <1>17
  DEF Expire, Outcome, groupVars, collectVars, watchdogVars, cancelVars,
      Running
<1>18. CASE KernelStep
  <2>1. returncode' = returncode /\ pipes' = pipes
    BY <1>1, <1>18, KernelType DEF KernelStep
  <2>2. PidTaken'
    BY <1>1, <1>18, KernelPidTaken DEF KernelStep
  <2>3. KillsBeforeReaping'
    BY <1>1, <1>18
    DEF KernelStep, Kernel, Fork, Escape, Exit, Die, CloseOutputs, ReusePgid,
        collectVars
  <2>4. Running = {} => Running' = {}
    BY <1>1, <1>18, KernelStartsNothing DEF KernelStep
  <2>5. proc[Child] # "unborn" /\ proc'[Child] # "unborn"
    BY <1>1, <1>18, KernelNeedsAChild, KernelChild DEF KernelStep
  <2>6. QED
    BY <1>1, <1>18, <2>1, <2>2, <2>3, <2>4, <2>5, KernelChild
    DEF KernelStep, Outcome, collectVars, watchdogVars, cancelVars
<1>19. CASE UNCHANGED vars
  BY <1>1, <1>19
  DEF vars, groupVars, collectVars, watchdogVars, cancelVars, Running, Outcome
<1>20. QED
  BY <1>2, <1>3, <1>4, <1>5, <1>6, <1>7, <1>8, <1>9, <1>10, <1>11, <1>12,
     <1>13, <1>14, <1>15, <1>16, <1>17, <1>18, <1>19
  DEF Next, RunTask, ReleaseTask, WatchdogTask, Terminating

LEMMA Invariance == Spec => []IInv
BY InvInit, InvNext, PTL DEF Spec

-----------------------------------------------------------------------------
(* The properties.                                                         *)

\* Every way out of run lets go of all it acquired.
THEOREM Released == Spec => []ReleasedOnReturn
<1>1. IInv => ReleasedOnReturn
  BY DEF IInv, PhaseInv, ReleaseInv, ReleasedOnReturn
<1>2. QED
  BY <1>1, Invariance, PTL

\* With the wait_for of Python 3.12 no cancelled caller is given a result.
THEOREM CancelIsHonoured == ~WaitForSwallows /\ Spec => []CancelHonoured
<1>1. ~WaitForSwallows /\ IInv => CancelHonoured
  BY DEF IInv, TypeOK, PhaseInv, CancelInv, Outcome, CancelHonoured
<1>2. CASE WaitForSwallows
  BY <1>2
<1>3. CASE ~WaitForSwallows
  BY <1>1, <1>3, Invariance, PTL
<1>4. QED
  BY <1>2, <1>3

\* A run that was cancelled or timed out signals nobody but its own group.
THEOREM KillsBeforeReapingAlways == Spec => []KillsBeforeReaping
BY Invariance, PTL DEF IInv

\* The status of a kill is not handed out as an exit code.
THEOREM KillIsNeverAnExitCode == Spec => []KillIsNotAnExitCode
<1>1. IInv => KillIsNotAnExitCode
  BY DEF IInv, KillInv, KillIsNotAnExitCode
<1>2. QED
  BY <1>1, Invariance, PTL

\* Every cancellation is accounted for, by the wait_for of either Python: the
\* only step that drops one is that of wait_for in Python 3.11.
THEOREM NoCancelIsForgotten == Spec => NoneForgotten
<1>1. [Next]_vars =>
        (pendingCancel /\ ~pendingCancel'
           => \/ "cancelled" \in {verdict', reply'}
              \/ absorbed'
              \/ WaitForSwallows /\ pc \in {"write", "read"})
  <2> SUFFICES ASSUME [Next]_vars, pendingCancel, ~pendingCancel'
               PROVE  \/ "cancelled" \in {verdict', reply'}
                      \/ absorbed'
                      \/ WaitForSwallows /\ pc \in {"write", "read"}
    OBVIOUS
  <2>1. CancelledBeforeStart \/ CancelDelivered \/ CancelSwallowed
          \/ AbsorbCancel
    BY DEF Next, RunTask, ReleaseTask, WatchdogTask, Terminating, vars,
           cancelVars, SpawnFails, Start, WriteReturns, ReadReturns,
           ExitObserved, DeadlineReached, Return, StopWatchdog, ReleaseKills,
           Reaped, ReapGivesUp, WatchdogTrips, WatchdogLapses, WatchdogFails,
           WatchdogCancelled, Cancel, Expire, KernelStep
  <2>2. QED
    BY <2>1 DEF CancelledBeforeStart, CancelDelivered, CancelSwallowed,
                AbsorbCancel
<1>2. QED
  BY <1>1, PTL DEF Spec, NoneForgotten

\* Where the watchdog can be before the release begins.
WatchInv ==
    /\ opts.limit /\ pc \in {"write", "read", "exit"}
         => watchdog \in {"polling", "tripped", "failed", "lapsed"}
    /\ watchdog = "lapsed" => "deadline" \in expired

LEMMA WatchNext == IInv /\ WatchInv /\ [Next]_vars => WatchInv'
<1> SUFFICES ASSUME IInv, WatchInv, [Next]_vars
             PROVE  WatchInv'
  OBVIOUS
<1> USE DEF WatchInv
<1>1. CASE Start
  BY <1>1 DEF Start
<1>2. CASE WatchdogTrips \/ WatchdogLapses \/ WatchdogFails
  BY <1>2 DEF WatchdogTrips, WatchdogLapses, WatchdogFails, WatchdogRuns
<1>3. CASE WatchdogCancelled
  BY <1>3 DEF IInv, PhaseInv, WatchdogCancelled
<1>4. ASSUME NEW t \in Timer, Expire(t)
      PROVE  WatchInv'
  BY <1>4 DEF Expire, watchdogVars
\* The rest leave the watchdog alone, or go on to another phase.
<1>5. CASE CancelledBeforeStart \/ SpawnFails \/ CancelDelivered
             \/ CancelSwallowed \/ ReadReturns \/ Return \/ AbsorbCancel
  BY <1>5
  DEF CancelledBeforeStart, SpawnFails, CancelDelivered, CancelSwallowed,
      ReadReturns, Return, AbsorbCancel, watchdogVars
<1>6. ASSUME NEW ok \in BOOLEAN, WriteReturns(ok)
      PROVE  WatchInv'
  BY <1>6 DEF WriteReturns, watchdogVars
<1>7. CASE ExitObserved \/ DeadlineReached
  BY <1>7 DEF ExitObserved, DeadlineReached, Conclude, watchdogVars
<1>8. CASE ReleaseTask
  BY <1>8 DEF ReleaseTask, StopWatchdog, ReleaseKills, Reaped, ReapGivesUp,
              watchdogVars
<1>9. CASE Cancel \/ KernelStep \/ UNCHANGED vars
  BY <1>9 DEF Cancel, KernelStep, vars, watchdogVars
<1>10. QED
  BY <1>1, <1>2, <1>3, <1>4, <1>5, <1>6, <1>7, <1>8, <1>9
  DEF Next, RunTask, WatchdogTask, Terminating

\* Until the deadline no phase goes without a watchdog that can kill; what
\* the comment above its creation promises fails after the deadline only.
THEOREM WatchIsKept == Spec => []WatchedUntilDeadline
<1>1. Init => WatchInv
  BY DEF Init, WatchInv
<1>2. WatchInv => WatchedUntilDeadline
  BY DEF WatchInv, WatchedUntilDeadline
<1>3. QED
  BY <1>1, <1>2, WatchNext, Invariance, PTL DEF Spec

-----------------------------------------------------------------------------
(* The refinement of RunContract.                                          *)

\* What RunContract calls held: it ends with the release and not before.
Held == Running # {} \/ pipes # {} \/ watchdog = "polling"

LEMMA RefinementInit == Init => Contract!Init
BY DEF Init, GroupInit, Running, Contract!Init

LEMMA RefinementNext ==
    ASSUME IInv, IInv', ~WaitForSwallows, [Next]_vars
    PROVE  [Contract!Next]_(Contract!contractVars)
<1> DEFINE Acquired == proc[Child] # "unborn" /\ rel # "done"
<1>1. TypeOK /\ GroupTypeOK
  BY DEF IInv, TypeOK
<1>2. /\ Held <=> Acquired
      /\ Held' <=> Acquired'
  BY DEF IInv, TypeOK, NotSpawned, ReleaseInv, Held, Running, Procs
<1>3. CancelHonoured'
  BY DEF IInv, TypeOK, PhaseInv, CancelInv, Outcome, CancelHonoured
<1> USE DEF Contract!contractVars, Held
\* The steps that show: run spawns, is refused, cancelled, lets go, answers.
<1>4. CASE CancelledBeforeStart \/ SpawnFails
  <2>1. Contract!Refuse
    BY <1>1, <1>4
    DEF IInv, AskedInv, CancelInv, PhaseInv, CancelledBeforeStart, SpawnFails,
        groupVars, collectVars, watchdogVars, cancelVars, Running,
        Contract!Refuse
  <2>2. QED
    BY <2>1 DEF Contract!Next
<1>5. CASE Start
  <2>1. proc'[Child] = "running"
    BY <1>1, <1>5 DEF Start, Spawn, GroupTypeOK, Procs
  <2>2. Contract!Acquire
    BY <1>1, <1>2, <1>5, <2>1
    DEF IInv, PhaseInv, Start, cancelVars, Contract!Acquire
  <2>3. QED
    BY <2>2 DEF Contract!Next
<1>6. CASE Cancel
  <2>1. Contract!Cancel
    BY <1>6 DEF Cancel, groupVars, collectVars, watchdogVars, Running,
                Contract!Cancel
  <2>2. QED
    BY <2>1 DEF Contract!Next
<1>7. CASE Reaped \/ ReapGivesUp
  <2>1. pc = "release" /\ proc[Child] # "unborn" /\ proc'[Child] # "unborn"
    BY <1>1, <1>7 DEF IInv, PhaseInv, NotSpawned, Reaped, ReapGivesUp, TypeOK
  <2>2. Contract!LetGo
    BY <1>2, <1>7, <2>1
    DEF Reaped, ReapGivesUp, cancelVars, Contract!LetGo
  <2>3. QED
    BY <2>2 DEF Contract!Next
<1>8. CASE Return \/ AbsorbCancel
  <2>1. CASE rel = "done"
    <3>1. reply' \in {"result", "cancelled", "error"}
      BY <1>1, <1>8, <2>1
      DEF IInv, PhaseInv, Return, AbsorbCancel, Outcome, TypeOK
    <3>2. Contract!Answer(reply')
      BY <1>1, <1>2, <1>3, <1>8, <2>1
      DEF IInv, AskedInv, PhaseInv, Return, AbsorbCancel, Outcome,
          CancelHonoured, groupVars, collectVars, watchdogVars, cancelVars,
          Running, Contract!Answer
    <3>3. QED
      BY <3>1, <3>2 DEF Contract!Next, Contract!Reply
  <2>2. CASE rel # "done"
    BY <1>8, <2>2
    DEF Return, AbsorbCancel, groupVars, watchdogVars, Running
  <2>3. QED
    BY <2>1, <2>2
\* The steps that do not.
<1>9. CASE CancelDelivered \/ CancelSwallowed \/ ReadReturns \/ StopWatchdog
  BY <1>9
  DEF CancelDelivered, CancelSwallowed, ReadReturns, StopWatchdog, groupVars,
      collectVars, watchdogVars, cancelVars, Running
<1>10. ASSUME NEW ok \in BOOLEAN, WriteReturns(ok)
       PROVE  UNCHANGED Contract!contractVars
  <2>1. proc[Child] # "unborn"
    BY <1>10 DEF IInv, NotSpawned, WriteReturns
  <2>2. QED
    BY <1>2, <1>10, <2>1 DEF WriteReturns, cancelVars
<1>11. CASE ExitObserved \/ DeadlineReached
  <2>1. /\ proc[Child] # "unborn" /\ proc'[Child] # "unborn"
        /\ rel # "done" /\ rel' # "done"
        /\ pc = "exit" /\ pc' = "release"
    BY <1>1, <1>11, PollType
    DEF IInv, NotSpawned, PhaseInv, ExitObserved, DeadlineReached, Conclude,
        groupVars
  <2>2. QED
    BY <1>2, <1>11, <2>1 DEF ExitObserved, DeadlineReached, cancelVars
<1>12. CASE ReleaseKills \/ WatchdogTrips
  <2>1. /\ proc[Child] # "unborn" /\ proc'[Child] # "unborn"
        /\ rel # "done" /\ rel' # "done"
    BY <1>1, <1>12, KillGroupType
    DEF IInv, NotSpawned, ReleaseInv, ReleaseKills, WatchdogTrips,
        WatchdogRuns, Procs
  <2>2. QED
    BY <1>2, <1>12, <2>1
    DEF ReleaseKills, WatchdogTrips, collectVars, cancelVars
<1>13. CASE WatchdogLapses \/ WatchdogFails \/ WatchdogCancelled
  <2>1. /\ proc[Child] # "unborn" /\ rel # "done"
    BY <1>13
    DEF IInv, NotSpawned, ReleaseInv, WatchdogLapses, WatchdogFails,
        WatchdogCancelled, WatchdogRuns
  <2>2. QED
    BY <1>2, <1>13, <2>1
    DEF WatchdogLapses, WatchdogFails, WatchdogCancelled, groupVars,
        collectVars, cancelVars
<1>14. ASSUME NEW t \in Timer, Expire(t)
       PROVE  UNCHANGED Contract!contractVars
  BY <1>14 DEF Expire, groupVars, watchdogVars, cancelVars, Running
<1>15. CASE KernelStep
  <2>1. proc[Child] # "unborn" /\ proc'[Child] # "unborn"
    BY <1>1, <1>15, KernelNeedsAChild, KernelChild
    DEF KernelStep, IInv, NotSpawned
  <2>2. QED
    BY <1>2, <1>15, <2>1 DEF KernelStep, cancelVars
<1>16. CASE UNCHANGED vars
  BY <1>16 DEF vars, groupVars, watchdogVars, cancelVars, Running
<1>17. QED
  BY <1>4, <1>5, <1>6, <1>7, <1>8, <1>9, <1>10, <1>11, <1>12, <1>13, <1>14,
     <1>15, <1>16
  DEF Next, RunTask, ReleaseTask, WatchdogTask, Terminating

\* With the wait_for of Python 3.12 run keeps the contract of its docstring:
\* it answers only when it holds nothing, and never with a result when it was
\* cancelled.
THEOREM Refinement == ~WaitForSwallows /\ Spec => RefinesContract
<1>1. CASE WaitForSwallows
  BY <1>1
<1>2. CASE ~WaitForSwallows
  BY <1>2, RefinementInit, RefinementNext, Invariance, PTL
  DEF Spec, RefinesContract, Contract!Spec
<1>3. QED
  BY <1>1, <1>2

\* The contract is worth refining: it answers with nothing held, and with no
\* result to a caller that cancelled.
THEOREM ContractIsKept == Contract!Spec => []Contract!Promise
<1> DEFINE PromiseInv == /\ Contract!Promise
                         /\ pc = "start" => ~Held
<1>1. Contract!Init => PromiseInv
  BY DEF Contract!Init, Contract!Promise, Held
<1>2. PromiseInv /\ [Contract!Next]_(Contract!contractVars) => PromiseInv'
  BY DEF Contract!Next, Contract!contractVars, Contract!Promise, Held,
         Contract!Acquire, Contract!Refuse, Contract!Cancel, Contract!LetGo,
         Contract!Answer, Contract!Reply
<1>3. QED
  BY <1>1, <1>2, PTL DEF Contract!Spec

-----------------------------------------------------------------------------
(* The refinement of ShieldedWait.                                         *)

LEMMA WaitNext ==
    ASSUME IInv, [Next]_vars
    PROVE  [Wait!Next]_(Wait!waitVars)
<1> USE DEF IInv, PhaseInv, NotSpawned, TypeOK, Wait!waitVars
\* The release ends, or run is cancelled, takes it in, or is answered.
<1>1. CASE Reaped \/ ReapGivesUp
  <2>1. Wait!WorkEnds
    BY <1>1 DEF Reaped, ReapGivesUp, cancelVars, Wait!WorkEnds
  <2>2. QED
    BY <2>1 DEF Wait!Next
<1>2. CASE Cancel
  <2>1. CASE pc = "release"
    BY <1>2, <2>1 DEF Cancel, Wait!Cancel, Wait!Next
  <2>2. CASE pc # "release"
    BY <1>2, <2>2 DEF Cancel
  <2>3. QED
    BY <2>1, <2>2
<1>3. CASE AbsorbCancel
  <2>1. Wait!Absorb
    BY <1>3 DEF AbsorbCancel, Wait!Absorb
  <2>2. QED
    BY <2>1 DEF Wait!Next
<1>4. CASE Return
  <2>1. Wait!Return
    BY <1>4 DEF Return, cancelVars, Wait!Return
  <2>2. QED
    BY <2>1 DEF Wait!Next
\* The steps up to the release show nothing.
<1>5. CASE CancelledBeforeStart \/ SpawnFails
  BY <1>5 DEF CancelledBeforeStart, SpawnFails, cancelVars
<1>6. CASE Start
  BY <1>6 DEF Start, cancelVars
<1>7. CASE CancelDelivered \/ CancelSwallowed \/ ReadReturns
  BY <1>7 DEF CancelDelivered, CancelSwallowed, ReadReturns, cancelVars
<1>8. ASSUME NEW ok \in BOOLEAN, WriteReturns(ok)
      PROVE  UNCHANGED Wait!waitVars
  BY <1>8 DEF WriteReturns, cancelVars
<1>9. CASE ExitObserved \/ DeadlineReached
  BY <1>9 DEF ExitObserved, DeadlineReached, Conclude, cancelVars
\* Nor do those of the others.
<1>10. CASE StopWatchdog \/ ReleaseKills
  BY <1>10 DEF StopWatchdog, ReleaseKills, cancelVars
<1>11. CASE WatchdogTask
  BY <1>11 DEF WatchdogTask, WatchdogTrips, WatchdogLapses, WatchdogFails,
               WatchdogCancelled, cancelVars
<1>12. ASSUME NEW t \in Timer, Expire(t)
       PROVE  UNCHANGED Wait!waitVars
  BY <1>12 DEF Expire, cancelVars
<1>13. CASE KernelStep \/ UNCHANGED vars
  BY <1>13 DEF KernelStep, vars, cancelVars
<1>14. QED
  BY <1>1, <1>2, <1>3, <1>4, <1>5, <1>6, <1>7, <1>8, <1>9, <1>10, <1>11,
     <1>12, <1>13
  DEF Next, RunTask, ReleaseTask, Terminating

\* What AsyncRun has of uncancellable keeps to the specification that the
\* detailed model of its loop implements (CancellationProofs).
THEOREM WaitIsShielded == Spec => RefinesWait
<1>1. Init => Wait!Init
  BY DEF Init, Wait!Init
<1>2. QED
  BY <1>1, WaitNext, Invariance, PTL DEF Spec, RefinesWait, Wait!Spec
=============================================================================
