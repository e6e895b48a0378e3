------------------------ MODULE CancellationProofs -------------------------
(***************************************************************************)
(* What becomes of a cancellation of the caller: where it must not reach   *)
(* the work (uncancellable, for work of any length), and where it reaches  *)
(* a podman call at each of its awaits, those of the cleanup too.          *)
(***************************************************************************)
EXTENDS Uncancellable, PodmanRun, TLAPS

-----------------------------------------------------------------------------
(* uncancellable.                                                          *)

\* What the future awaited says of the work is true, and the waiting task
\* answers only when the work is over.
WorkInv ==
    /\ reply # "none" => work # "running"
    /\ outer \in {"ok", "exception"} => work = outer
    /\ work = "cancelled" \/ workCancel => shutdown
    /\ shutdown => requested
    /\ reply = "False" => work = "ok"

\* A cancellation is left word of, on its way as the end of the future, or
\* absorbed; and none of these comes about without one.
RequestInv ==
    /\ mustCancel \/ absorbed => requested
    /\ outer = "cancelled" => requested
    /\ requested /\ reply = "none" =>
         mustCancel \/ absorbed \/ outer = "cancelled"
    /\ TellsCancellation

\* What the loop is about to take in came since it last went back to wait; only
\* work that was itself cancelled makes a future end so without a request.
RecentInv ==
    /\ mustCancel => recent
    /\ outer = "cancelled" => recent \/ work = "cancelled"
    /\ AbsorbedHidesNothing

AwaitInv == ShieldTypeOK /\ WorkInv /\ RequestInv /\ RecentInv

-----------------------------------------------------------------------------
LEMMA AwaitInvInit == ShieldInit => AwaitInv
  BY DEF ShieldInit, AwaitInv, ShieldTypeOK, WorkInv, RequestInv,
         TellsCancellation, RecentInv, AbsorbedHidesNothing, Ended

\* One step per action; each keeps the four parts together.
LEMMA AwaitInvNext == AwaitInv /\ [ShieldNext]_shieldVars => AwaitInv'
<1> SUFFICES ASSUME AwaitInv, [ShieldNext]_shieldVars PROVE AwaitInv'
  OBVIOUS
<1> USE WorkAssumption
        DEF AwaitInv, ShieldTypeOK, WorkInv, RequestInv, TellsCancellation,
            RecentInv, AbsorbedHidesNothing, Ended
<1>1. CASE WorkStep
  BY <1>1 DEF WorkStep
<1>2. ASSUME NEW how \in {"ok", "exception"}, WorkEnds(how) PROVE AwaitInv'
  BY <1>2 DEF WorkEnds
<1>3. CASE WorkCancelled
  BY <1>3 DEF WorkCancelled
<1>4. CASE ShieldCallback
  BY <1>4 DEF ShieldCallback
<1>5. CASE ResumeCancelled
  BY <1>5 DEF ResumeCancelled
<1>6. CASE ResumeDone
  BY <1>6 DEF ResumeDone
<1>7. CASE CallerCancels
  BY <1>7 DEF CallerCancels, CancelWaiter
<1>8. CASE Shutdown
  BY <1>8 DEF Shutdown, CancelWaiter
<1>9. CASE UNCHANGED shieldVars
  BY <1>9 DEF shieldVars
<1> QED
  BY <1>1, <1>2, <1>3, <1>4, <1>5, <1>6, <1>7, <1>8, <1>9
     DEF ShieldNext, WorkTask, Waiter, ShieldOver

LEMMA AwaitInvAlways == ShieldSpec => []AwaitInv
  BY AwaitInvInit, AwaitInvNext, PTL DEF ShieldSpec

-----------------------------------------------------------------------------
\* Every variable of uncancellable keeps to its values.
THEOREM ShieldTypeCorrect == ShieldSpec => []ShieldTypeOK
<1>1. AwaitInv => ShieldTypeOK
  BY DEF AwaitInv
<1> QED
  BY <1>1, AwaitInvAlways, PTL

\* uncancellable never answers before its work is over, however often its
\* caller is cancelled, and only the shutdown of the loop cuts the work off.
THEOREM WorkIsCompleted == ShieldSpec => []RunsToCompletion
<1>1. AwaitInv => RunsToCompletion
  BY DEF AwaitInv, WorkInv, RunsToCompletion
<1> QED
  BY <1>1, AwaitInvAlways, PTL

\* What uncancellable returns says whether its caller was cancelled: none of
\* the cancellations is lost, at whichever of the three moments it came.
THEOREM CancellationIsTold == ShieldSpec => []TellsCancellation
<1>1. AwaitInv => TellsCancellation
  BY DEF AwaitInv, RequestInv
<1> QED
  BY <1>1, AwaitInvAlways, PTL

\* An exception of the work is raised, unless a cancellation came in since the
\* loop last went back to wait: those absorbed earlier hide none.
THEOREM ExceptionIsRaised == ShieldSpec => []AbsorbedHidesNothing
<1>1. AwaitInv => AbsorbedHidesNothing
  BY DEF AwaitInv, RecentInv
<1> QED
  BY <1>1, AwaitInvAlways, PTL

-----------------------------------------------------------------------------
(* The refinement of ShieldedWait.                                         *)

LEMMA WaitNext ==
    ASSUME AwaitInv, [ShieldNext]_shieldVars
    PROVE  [Wait!Next]_(Wait!waitVars)
<1> USE DEF AwaitInv, ShieldTypeOK, WorkInv, RequestInv, Ended, Wait!waitVars
\* The work ends, the task is cancelled, takes that in, or is answered.
<1>1. ASSUME NEW how \in {"ok", "exception"}, WorkEnds(how)
      PROVE  Wait!WorkEnds
  BY <1>1 DEF WorkEnds, Wait!WorkEnds
<1>2. CASE WorkCancelled
  BY <1>2 DEF WorkCancelled, Wait!WorkEnds, Wait!Next
<1>3. CASE CallerCancels \/ Shutdown
  <2>1. Wait!Cancel
    BY <1>3 DEF CallerCancels, Shutdown, CancelWaiter, Wait!Cancel
  <2> QED
    BY <2>1 DEF Wait!Next
<1>4. CASE ResumeCancelled
  <2>1. Wait!Absorb
    BY <1>4 DEF ResumeCancelled, Wait!Absorb
  <2> QED
    BY <2>1 DEF Wait!Next
<1>5. CASE ResumeDone
  <2>1. Wait!Return
    BY <1>5 DEF ResumeDone, Wait!Return
  <2> QED
    BY <2>1 DEF Wait!Next
\* Work that the shutdown of the loop cut off reaches the waiting task as one
\* more cancellation.
<1>6. CASE ShieldCallback
  <2>1. CASE work = "cancelled" /\ ~mustCancel
    BY <1>6, <2>1 DEF ShieldCallback, Wait!Cancel, Wait!Next
  <2>2. CASE ~(work = "cancelled" /\ ~mustCancel)
    BY <1>6, <2>2 DEF ShieldCallback
  <2> QED
    BY <2>1, <2>2
<1>7. CASE WorkStep \/ UNCHANGED shieldVars
  BY <1>7 DEF WorkStep, shieldVars
<1> QED
  BY <1>1, <1>2, <1>3, <1>4, <1>5, <1>6, <1>7
     DEF ShieldNext, WorkTask, Waiter, ShieldOver, Wait!Next

\* uncancellable implements ShieldedWait, however long its work and however
\* the cancellations fall between the end of the work, the callback that tells
\* of it and the task that hears it.
THEOREM WaitIsImplemented == ShieldSpec => RefinesWait
<1>1. ShieldInit => Wait!Init
  BY DEF ShieldInit, Wait!Init
<1> QED
  BY <1>1, WaitNext, AwaitInvAlways, PTL DEF ShieldSpec, RefinesWait, Wait!Spec

\* What ShieldedWait promises: an answer comes when the work is over, with no
\* cancellation left to take in, and says whether there was one.
THEOREM WaitPromises == Wait!Spec => []Wait!Promise
<1>1. Wait!Init => Wait!Promise
  BY DEF Wait!Init, Wait!Promise
<1>2. Wait!Promise /\ [Wait!Next]_(Wait!waitVars) => Wait!Promise'
  BY DEF Wait!Promise, Wait!Next, Wait!waitVars, Wait!WorkEnds, Wait!Cancel,
         Wait!Absorb, Wait!Return
<1> QED
  BY <1>1, <1>2, PTL DEF Wait!Spec

-----------------------------------------------------------------------------
(* podman_run and podman_run_stream_lines: a module of its own, extended   *)
(* beside Uncancellable, with which it shares no name.                     *)

\* The client runs from the start of the body until the cleanup kills it.
ClientInv ==
    /\ pc \in {"yielded", "stderr"} => mode = "stream"
    /\ pc = "start" => client = "unborn"
    /\ client = "unborn" => pc \in {"start", "returned"}
    /\ client = "unborn" => container = "none" /\ rm = "none"
    /\ client = "running" => pc \in {"body", "yielded", "stderr"}

\* What podman rm can do follows from the cidfile: a running container is
\* named there for as long as the call lasts.
RmInv ==
    /\ container = "running" => cidfile = "id" \/ pc = "returned"
    /\ pc \in {"start", "body", "yielded", "stderr", "wait"} =>
         rm = "none" /\ mishaps = {}
    /\ pc \in {"exec", "rm"} => rm # "none"
    /\ rm = "removed" => container = "gone"
    /\ pc # "returned" /\ rm = "missed" => container # "running"
    /\ pc = "returned" /\ rm \in {"started", "missed"}
         => container # "running" \/ mishaps \cap {"rm", "cancelled"} # {}
    /\ pc = "returned" /\ client # "unborn" /\ mishaps \subseteq {"wait"} =>
         /\ rm \in RmEnded
         /\ container # "running"
         /\ cidfile = "none"
    /\ OnlyCancelSkipsRm

\* In podman_run, with the wait_for of Python 3.12, a cancellation is pending
\* until it is the verdict.
CancelInv ==
    mode = "run" /\ ~oldWaitFor /\ cancelRequested =>
        \/ verdict = "cancelled"
        \/ pendingCancel /\ pc # "returned"
        \/ verdict = "error"

CallInv == TypeOK /\ ClientInv /\ RmInv /\ CancelInv

-----------------------------------------------------------------------------
LEMMA CallInvInit == Init => CallInv
  BY DEF Init, CallInv, TypeOK, ClientInv, RmInv, CancelInv, RmEnded, Timer,
         OnlyCancelSkipsRm, AlwaysRemoves

\* The processes of podman: only a client that runs starts a container.
LEMMA ProcessesKeep == CallInv /\ Podman => CallInv'
<1> SUFFICES ASSUME CallInv, Podman PROVE CallInv'
  OBVIOUS
<1> USE DEF CallInv, TypeOK, ClientInv, RmInv, CancelInv, RmEnded,
            OnlyCancelSkipsRm, AlwaysRemoves
<1>1. UNCHANGED <<mode, oldWaitFor, pc, verdict, mishaps, pendingCancel,
                  cancelRequested, expired>>
  BY DEF Podman, given
<1>2. CASE ClientCreates
  BY <1>1, <1>2 DEF ClientCreates
<1>3. CASE ClientWritesId
  BY <1>1, <1>3 DEF ClientWritesId
<1>4. CASE ClientStarts
  BY <1>1, <1>4 DEF ClientStarts
<1>5. CASE ClientEnds
  BY <1>1, <1>5 DEF ClientEnds
<1>6. CASE ContainerExits
  BY <1>1, <1>6 DEF ContainerExits
<1>7. CASE RmReads
  BY <1>1, <1>7 DEF RmReads
<1>8. CASE RmRemoves
  BY <1>1, <1>8 DEF RmRemoves
<1> QED
  BY <1>2, <1>3, <1>4, <1>5, <1>6, <1>7, <1>8 DEF Podman

\* The steps of the call, the caller and the clock.
LEMMA CallInvNext == CallInv /\ [Next]_vars => CallInv'
<1> SUFFICES ASSUME CallInv, [Next]_vars PROVE CallInv'
  OBVIOUS
<1> USE DEF CallInv, TypeOK, ClientInv, RmInv, CancelInv, RmEnded, given,
            podmanVars, OnlyCancelSkipsRm, AlwaysRemoves
<1>1. CASE CancelledBeforeStart
  <2>1. TypeOK'
    BY <1>1 DEF CancelledBeforeStart
  <2>2. ClientInv'
    BY <1>1 DEF CancelledBeforeStart
  <2>3. RmInv'
    BY <1>1 DEF CancelledBeforeStart
  <2>4. CancelInv'
    BY <1>1 DEF CancelledBeforeStart
  <2> QED
    BY <2>1, <2>2, <2>3, <2>4
<1>2. CASE SpawnFails
  BY <1>2 DEF SpawnFails
<1>3. CASE Start
  BY <1>3 DEF Start
<1>4. CASE BodyEnds
  BY <1>4 DEF BodyEnds, Finally, StopClient
<1>5. CASE BodyFails
  BY <1>5 DEF BodyFails, Finally, StopClient
<1>6. CASE CancelDelivered
  <2>1. TypeOK'
    BY <1>6 DEF CancelDelivered, Finally, StopClient
  <2>2. ClientInv'
    BY <1>6 DEF CancelDelivered, Finally, StopClient
  <2>3. RmInv'
    BY <1>6 DEF CancelDelivered, Finally, StopClient
  <2>4. CancelInv'
    BY <1>6 DEF CancelDelivered, Finally, StopClient
  <2> QED
    BY <2>1, <2>2, <2>3, <2>4
<1>7. CASE CancelSwallowed \/ Yield
  BY <1>7 DEF CancelSwallowed, Yield
<1>8. CASE Resume
  BY <1>8 DEF Resume
<1>9. CASE AClose
  BY <1>9 DEF AClose, Finally, StopClient
<1>10. CASE StderrStops
  <2>1. TypeOK'
    BY <1>10 DEF StderrStops, StopClient
  <2>2. ClientInv'
    BY <1>10 DEF StderrStops, StopClient
  <2>3. RmInv'
    BY <1>10 DEF StderrStops, StopClient
  <2>4. CancelInv'
    BY <1>10 DEF StderrStops, StopClient
  <2> QED
    BY <2>1, <2>2, <2>3, <2>4
<1>11. CASE WaitEnds
  <2>1. TypeOK'
    BY <1>11 DEF WaitEnds, WaitForReturns
  <2>2. ClientInv'
    BY <1>11 DEF WaitEnds, WaitForReturns
  <2>3. RmInv'
    BY <1>11 DEF WaitEnds, WaitForReturns
  <2>4. CancelInv'
    BY <1>11 DEF WaitEnds, WaitForReturns
  <2> QED
    BY <2>1, <2>2, <2>3, <2>4
<1>12. CASE RmSpawned
  BY <1>12 DEF RmSpawned
<1>13. CASE RmDone
  <2>1. TypeOK'
    BY <1>13 DEF RmDone, WaitForReturns
  <2>2. ClientInv'
    BY <1>13 DEF RmDone, WaitForReturns
  <2>3. RmInv'
    BY <1>13 DEF RmDone, WaitForReturns
  <2>4. CancelInv'
    BY <1>13 DEF RmDone, WaitForReturns
  <2> QED
    BY <2>1, <2>2, <2>3, <2>4
<1>14. CASE CleanupCancelled
  <2>1. TypeOK'
    BY <1>14 DEF CleanupCancelled
  <2>2. ClientInv'
    BY <1>14 DEF CleanupCancelled
  <2>3. RmInv'
    BY <1>14 DEF CleanupCancelled
  <2>4. CancelInv'
    BY <1>14 DEF CleanupCancelled
  <2> QED
    BY <2>1, <2>2, <2>3, <2>4
<1>15. CASE ThreadReaps
  BY <1>15 DEF ThreadReaps
<1>16. CASE Cancel
  BY <1>16 DEF Cancel
<1>17. ASSUME NEW t \in Timer, Expire(t) PROVE CallInv'
  BY <1>17 DEF Expire, Timer
<1>18. CASE Podman
  BY <1>18, ProcessesKeep
<1>19. CASE UNCHANGED vars
  BY <1>19 DEF vars
<1> QED
  BY <1>1, <1>2, <1>3, <1>4, <1>5, <1>6, <1>7, <1>8, <1>9, <1>10, <1>11,
     <1>12, <1>13, <1>14, <1>15, <1>16, <1>17, <1>18, <1>19
     DEF Next, Call, Terminating

LEMMA CallInvAlways == Spec => []CallInv
  BY CallInvInit, CallInvNext, PTL DEF Spec

-----------------------------------------------------------------------------
\* Every variable of a podman call keeps to its values.
THEOREM TypeCorrect == Spec => []TypeOK
<1>1. CallInv => TypeOK
  BY DEF CallInv
<1> QED
  BY <1>1, CallInvAlways, PTL

\* A cleanup that nothing interrupts leaves no container running and no
\* cidfile, in time for the client to be reaped or not.
THEOREM Stopped == Spec => []ContainerStopped
<1>1. CallInv => ContainerStopped
  BY DEF CallInv, RmInv, ContainerStopped
<1> QED
  BY <1>1, CallInvAlways, PTL

\* podman rm finds a container that is running unless the cidfile was unlinked
\* for the timeout or for a cancellation.
THEOREM RmFindsIt == Spec => []RmMissesNothing
<1>1. CallInv => RmMissesNothing
  BY DEF CallInv, RmInv, RmMissesNothing
<1> QED
  BY <1>1, CallInvAlways, PTL

\* From Python 3.12 on a podman_run that was cancelled gives no result; and no
\* step of either call drops a cancellation but a stream's wait for its
\* cancelled stderr task and, before 3.12, a wait_for that has what it waited
\* for.
THEOREM CancelIsHonoured == Spec => CancelHonoured
<1>1. CallInv =>
        (mode = "run" /\ ~oldWaitFor /\ pc = "returned" /\ verdict = "result"
           => ~cancelRequested)
  BY DEF CallInv, CancelInv
<1>2. CallInv /\ [Next]_vars =>
        (pendingCancel /\ ~pendingCancel'
           => \/ verdict' = "cancelled"
              \/ mode = "stream" /\ pc = "stderr"
              \/ Swallows)
  <2> SUFFICES ASSUME CallInv, [Next]_vars,
                      pendingCancel, ~pendingCancel'
               PROVE \/ verdict' = "cancelled"
                     \/ mode = "stream" /\ pc = "stderr"
                     \/ Swallows
    OBVIOUS
  <2>1. \/ CancelledBeforeStart
        \/ BodyEnds \/ CancelDelivered \/ CancelSwallowed
        \/ StderrStops
        \/ WaitEnds \/ RmDone \/ CleanupCancelled
    BY DEF Next, Call, Podman, Terminating, vars, podmanVars, SpawnFails,
           Start, BodyFails, Yield, RmSpawned, Resume, AClose, ThreadReaps,
           Cancel, Expire
  <2>2. CASE CancelledBeforeStart \/ CancelDelivered \/ CleanupCancelled
    BY <2>2 DEF CancelledBeforeStart, CancelDelivered, CleanupCancelled
  <2>3. CASE BodyEnds \/ CancelSwallowed
    BY <2>3 DEF BodyEnds, CancelSwallowed, Swallows
  <2>4. CASE StderrStops
    BY <2>4 DEF StderrStops, CallInv, ClientInv
  <2>5. CASE WaitEnds \/ RmDone
    BY <2>5 DEF WaitEnds, RmDone, WaitForReturns, Swallows
  <2> QED
    BY <2>1, <2>2, <2>3, <2>4, <2>5
<1> QED
  BY <1>1, <1>2, CallInvAlways, PTL DEF Spec, CancelHonoured

\* podman rm is passed over for one reason: a cancellation of the cleanup, at
\* its first await as nothing else has gone wrong, that is then the verdict.
THEOREM RmIsSkippedForACancelOnly == Spec => []OnlyCancelSkipsRm
<1>1. CallInv => OnlyCancelSkipsRm
  BY DEF CallInv, RmInv, OnlyCancelSkipsRm
<1> QED
  BY <1>1, CallInvAlways, PTL

\* Only a running client starts a container, and none runs once the cleanup
\* is past the kill: an interrupted one too leaves nothing that could.
THEOREM NothingStartsAfterTheKill == Spec => NothingStartsLate
<1>1. CallInv /\ [Next]_vars =>
        (container # "running" /\ container' = "running"
           => pc \in {"body", "yielded", "stderr"})
  <2> SUFFICES ASSUME CallInv, [Next]_vars,
                      container # "running", container' = "running"
               PROVE pc \in {"body", "yielded", "stderr"}
    OBVIOUS
  <2>1. ClientStarts
    BY DEF Next, Call, Podman, Terminating, vars, podmanVars,
           CancelledBeforeStart, SpawnFails, Start, BodyEnds, BodyFails,
           CancelDelivered, CancelSwallowed, Yield, StderrStops, WaitEnds,
           RmSpawned, RmDone, CleanupCancelled, Resume, AClose, ThreadReaps,
           Cancel, Expire, ClientCreates, ClientWritesId, ClientEnds,
           ContainerExits, RmReads, RmRemoves
  <2> QED
    BY <2>1 DEF ClientStarts, CallInv, ClientInv
<1> QED
  BY <1>1, CallInvAlways, PTL DEF Spec, NothingStartsLate
=============================================================================
