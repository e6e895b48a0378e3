------------------------- MODULE InteractiveProofs -------------------------
(***************************************************************************)
(* The safety properties of Interactive, for every set of descendants and  *)
(* every nice timeout.                                                     *)
(***************************************************************************)
EXTENDS Interactive, ProcessGroupProofs, TLAPS

\* Where close is, and what it has done by then.
CloseInv ==
    /\ proc[Child] # "unborn"
    /\ closer = "open" => closes = 0
    /\ closer # "open" => closes # 0 /\ pipes = {}
    /\ closer \in {"reap", "closed"} => Running = {}
    /\ closer = "closed" => returncode # "none" \/ slow
    /\ closer = "release" => nice = 0 \/ returncode # "none"

\* Only close kills, and a stranger has the group's id only once the child was
\* reaped: in the first close, a child that ended before the kill exited.
ReapInv ==
    /\ PidTaken
    /\ returncode # "none" => proc[Child] = "gone"
    /\ closes # 2 /\ closer \in {"open", "nice", "release"} =>
         proc[Child] \notin {"dying", "killed"} /\ returncode # "killed"

\* While our stdout is open the selector has our key for as long as read_line
\* waits, and the kernel watches.
OursInv ==
    /\ laterOpen => "stdout" \notin pipes
    /\ ~laterOpen => future["later"] = "none"
    /\ "stdout" \in pipes =>
         /\ ~stale
         /\ \/ future["ours"] \in Waiting /\ key = "ours" /\ watched
            \/ future["ours"] \notin Waiting /\ key = "none" /\ ~watched

\* So it is with the later child's once the stale key, if any, is gone.
LaterInv ==
    "stdout" \notin pipes /\ ~stale =>
        \/ future["later"] \in Waiting /\ key = "later" /\ watched
        \/ future["later"] \notin Waiting /\ key = "none" /\ ~watched

IInv ==
    /\ TypeOK
    /\ CloseInv
    /\ ReapInv
    /\ KillsBeforeReaping
    /\ OursInv
    /\ LaterInv

-----------------------------------------------------------------------------
(* Polling, as write and close do it.                                      *)

\* A poll reaps a child that has exited and changes nothing else.
LEMMA PollKeeps ==
    ASSUME GroupTypeOK, CloseInv, ReapInv, Poll,
           UNCHANGED <<silent, pipes, stranger>>
    PROVE  /\ GroupTypeOK'
           /\ proc'[Child] # "unborn"
           /\ PidTaken'
           /\ returncode' # "none" => proc'[Child] = "gone"
           /\ Running = {} => Running' = {}
           /\ returncode # "none" => returncode' = returncode
           /\ proc[Child] \notin {"dying", "killed"} /\ returncode # "killed"
                => /\ proc'[Child] \notin {"dying", "killed"}
                   /\ returncode' # "killed"
<1> USE DEF GroupTypeOK, Procs, Unreaped
<1>1. GroupTypeOK'
  BY PollType
<1>2. Running = {} => Running' = {}
  BY PollType DEF Running
<1>3. /\ proc'[Child] # "unborn"
      /\ PidTaken'
      /\ returncode' # "none" => proc'[Child] = "gone"
      /\ returncode # "none" => returncode' = returncode
      /\ proc[Child] \notin {"dying", "killed"} /\ returncode # "killed"
           => /\ proc'[Child] \notin {"dying", "killed"}
              /\ returncode' # "killed"
  BY DEF Poll, CloseInv, ReapInv, PidTaken
<1> QED
  BY <1>1, <1>2, <1>3

-----------------------------------------------------------------------------
(* The invariant.                                                          *)

LEMMA InvInit == Init => IInv
<1> SUFFICES ASSUME Init PROVE IInv
  OBVIOUS
<1>1. proc[Child] = "running"
  BY DEF Init, Procs
<1>2. TypeOK
  <2>1. GroupTypeOK
    BY KinAssumption
    DEF Init, GroupTypeOK, Procs, ProcCondition, InGroup, Unreaped, PipeName
  <2>2. future \in [Waiters -> FutureState]
    BY DEF Init, FutureState
  <2>3. nice \in 0 .. Nice /\ closes \in 0 .. 2
    BY NiceAssumption DEF Init
  <2> QED
    BY <2>1, <2>2, <2>3, Zenon DEF Init, TypeOK
<1>3. CloseInv /\ ReapInv /\ KillsBeforeReaping /\ OursInv /\ LaterInv
  BY <1>1 DEF Init, CloseInv, ReapInv, PidTaken, KillsBeforeReaping, OursInv,
              LaterInv, Waiters, Waiting
<1> QED
  BY <1>2, <1>3 DEF IInv

LEMMA InvNext == IInv /\ [Next]_vars => IInv'
<1> SUFFICES ASSUME IInv, [Next]_vars PROVE IInv'
  OBVIOUS
<1>1. TypeOK /\ GroupTypeOK
  BY DEF IInv, TypeOK
<1> USE DEF IInv
\* write and close.
<1>2. CASE WritePolls
  <2>1. GroupTypeOK' /\ CloseInv' /\ ReapInv' /\ KillsBeforeReaping'
    BY <1>1, <1>2, PollKeeps
    DEF WritePolls, CloseInv, ReapInv, KillsBeforeReaping, closeVars
  <2>2. TypeOK' /\ OursInv' /\ LaterInv'
    BY <1>1, <1>2, <2>1
    DEF WritePolls, TypeOK, OursInv, LaterInv, closeVars, waitVars
  <2> QED
    BY <2>1, <2>2
<1>3. CASE CloseBegins
  <2>1. TypeOK'
    <3>1. stale' \in BOOLEAN /\ watched' \in BOOLEAN
      <4>1. CASE "stdout" \in pipes
        <5>1. watched' = FALSE /\ stale' = (future["ours"] \in Waiting)
          BY <1>3, <4>1, Zenon DEF CloseBegins
        <5>2. stale' = TRUE \/ stale' = FALSE
          <6>1. CASE future["ours"] \in Waiting
            BY <5>1, <6>1, Zenon
          <6>2. CASE future["ours"] \notin Waiting
            BY <5>1, <6>2, SMT
          <6> QED
            BY <6>1, <6>2
        <5> QED
          BY <5>1, <5>2
      <4>2. CASE "stdout" \notin pipes
        BY <1>1, <1>3, <4>2 DEF CloseBegins, TypeOK
      <4> QED
        BY <4>1, <4>2
    <3>2. nice' \in 0 .. Nice /\ closes' \in 0 .. 2
      BY <1>1, <1>3, NiceAssumption DEF CloseBegins, TypeOK
    <3>3. GroupTypeOK'
      BY <1>1, <1>3 DEF CloseBegins, ClosePipes, GroupTypeOK
    <3> QED
      BY <1>1, <1>3, <3>1, <3>2, <3>3 DEF CloseBegins, TypeOK
  <2>2. CloseInv' /\ ReapInv' /\ KillsBeforeReaping'
    BY <1>1, <1>3
    DEF CloseBegins, ClosePipes, TypeOK, CloseInv, ReapInv, PidTaken,
        KillsBeforeReaping
  <2>3. OursInv' /\ LaterInv'
    BY <1>1, <1>3
    DEF CloseBegins, ClosePipes, TypeOK, OursInv, LaterInv, Waiting
  <2> QED
    BY <2>1, <2>2, <2>3
<1>4. CASE NicePolls \/ NiceEnds
  <2>1. /\ Poll \/ UNCHANGED <<proc, returncode>>
        /\ UNCHANGED <<silent, pipes, stranger>>
    BY <1>4 DEF NicePolls, NiceEnds
  <2>2. GroupTypeOK'
    <3>1. CASE Poll
      BY <1>1, <2>1, <3>1, PollKeeps
    <3> QED
      BY <1>1, <2>1, <3>1 DEF GroupTypeOK
  <2>3. CloseInv' /\ ReapInv' /\ KillsBeforeReaping'
    <3>1. CASE Poll
      BY <1>1, <1>4, <2>1, <3>1, PollKeeps
      DEF NicePolls, NiceEnds, TypeOK, CloseInv, ReapInv, KillsBeforeReaping
    <3>2. CASE UNCHANGED <<proc, returncode>>
      BY <1>1, <1>4, <2>1, <3>2
      DEF NicePolls, NiceEnds, TypeOK, CloseInv, ReapInv, PidTaken,
          KillsBeforeReaping
    <3> QED
      BY <2>1, <3>1, <3>2
  <2>4. TypeOK' /\ OursInv' /\ LaterInv'
    BY <1>1, <1>4, <2>1, <2>2, NiceAssumption
    DEF NicePolls, NiceEnds, TypeOK, OursInv, LaterInv, waitVars
  <2> QED
    BY <2>3, <2>4
<1>5. CASE CloseCancelled
  BY <1>1, <1>5
  DEF CloseCancelled, TypeOK, GroupTypeOK, CloseInv, ReapInv, PidTaken,
      KillsBeforeReaping, OursInv, LaterInv, groupVars, waitVars, Running
<1>6. CASE ReleaseKills
  <2>1. GroupTypeOK' /\ Running' = {}
    BY <1>1, <1>6, KillGroupType, KillGroupStopsAll, KinAssumption
    DEF ReleaseKills, GroupTypeOK, Procs, Unreaped
  <2>2. TypeOK'
    BY <1>1, <1>6, <2>1 DEF ReleaseKills, TypeOK, waitVars
  <2>3. /\ proc'[Child] # "unborn"
        /\ proc[Child] = "gone" <=> proc'[Child] = "gone"
    BY <1>1, <1>6, KillGroupType DEF ReleaseKills, CloseInv, Procs
  <2>4. CloseInv' /\ ReapInv' /\ KillsBeforeReaping'
    BY <1>1, <1>6, <2>1, <2>3
    DEF ReleaseKills, KillGroup, TypeOK, GroupTypeOK, Unreaped, CloseInv,
        ReapInv, PidTaken, KillsBeforeReaping
  <2>5. OursInv' /\ LaterInv'
    BY <1>1, <1>6 DEF ReleaseKills, OursInv, LaterInv, waitVars
  <2> QED
    BY <2>2, <2>4, <2>5
<1>7. CASE Reaped
  <2>1. pipes' = pipes
    BY <1>7 DEF Reaped, ClosePipes, CloseInv
  <2>2. GroupTypeOK' /\ CloseInv' /\ ReapInv' /\ KillsBeforeReaping'
    BY <1>1, <1>7, <2>1, PollKeeps
    DEF Reaped, CloseInv, ReapInv, KillsBeforeReaping
  <2>3. TypeOK' /\ OursInv' /\ LaterInv'
    BY <1>1, <1>7, <2>1, <2>2
    DEF Reaped, TypeOK, OursInv, LaterInv, waitVars
  <2> QED
    BY <2>2, <2>3
<1>8. CASE ReapGivesUp
  <2>1. pipes' = pipes
    BY <1>8 DEF ReapGivesUp, ClosePipes, CloseInv
  <2> QED
    BY <1>1, <1>8, <2>1
    DEF ReapGivesUp, TypeOK, GroupTypeOK, CloseInv, ReapInv, PidTaken,
        KillsBeforeReaping, OursInv, LaterInv, waitVars, Running
\* The tasks that wait.
<1>9. ASSUME NEW w \in Waiters,
             WaitBegins(w) \/ Wake(w) \/ WaitEnds(w) \/ RemoveReader(w)
               \/ ReadResumes(w)
      PROVE  IInv'
  <2>1. UNCHANGED <<groupVars, kind, closeVars, laterOpen>>
    BY <1>9 DEF WaitBegins, Wake, WaitEnds, RemoveReader, ReadResumes
  <2>2. CloseInv' /\ ReapInv' /\ KillsBeforeReaping'
    BY <2>1 DEF CloseInv, ReapInv, PidTaken, KillsBeforeReaping, groupVars,
                closeVars, Running
  <2>3. TypeOK'
    <3>1. watched' \in BOOLEAN /\ stale' \in BOOLEAN /\ unread' \in BOOLEAN
      BY <1>1, <1>9, Zenon
      DEF WaitBegins, Wake, WaitEnds, RemoveReader, ReadResumes, TypeOK
    <3>2. /\ key' \in Waiters \cup {"none"}
          /\ future' \in [Waiters -> FutureState]
      BY <1>1, <1>9
      DEF WaitBegins, Wake, WaitEnds, RemoveReader, ReadResumes, TypeOK,
          Waiting, FutureState
    <3> QED
      BY <1>1, <2>1, <3>1, <3>2
      DEF TypeOK, GroupTypeOK, groupVars, closeVars
  <2>4. OursInv' /\ LaterInv'
    <3> USE DEF TypeOK, OursInv, LaterInv, groupVars, HasFile, Waiters,
                Waiting
    <3>1. CASE WaitBegins(w)
      <4>1. watched \/ key = "none" => watched'
        BY <3>1 DEF WaitBegins
      <4> QED
        BY <1>1, <1>9, <2>1, <3>1, <4>1 DEF WaitBegins
    <3>2. CASE Wake(w) \/ WaitEnds(w)
      BY <1>1, <1>9, <2>1, <3>2 DEF Wake, WaitEnds
    <3>3. CASE RemoveReader(w)
      BY <1>1, <1>9, <2>1, <3>3 DEF RemoveReader
    <3>4. CASE ReadResumes(w)
      BY <1>1, <1>9, <2>1, <3>4 DEF ReadResumes
    <3> QED
      BY <1>9, <3>1, <3>2, <3>3, <3>4
  <2> QED
    BY <2>2, <2>3, <2>4
\* The rest of the program, the clock and the processes.
<1>10. CASE LaterOpens \/ ReapTimePasses \/ WriteOutput
  <2>1. TypeOK'
    BY <1>1, <1>10
    DEF LaterOpens, ReapTimePasses, WriteOutput, TypeOK, GroupTypeOK,
        groupVars, closeVars, waitVars
  <2>2. CloseInv' /\ ReapInv' /\ KillsBeforeReaping'
    BY <1>1, <1>10
    DEF LaterOpens, ReapTimePasses, WriteOutput, CloseInv, ReapInv, PidTaken,
        KillsBeforeReaping, groupVars, closeVars, Running
  <2>3. OursInv' /\ LaterInv'
    BY <1>1, <1>10
    DEF LaterOpens, ReapTimePasses, WriteOutput, OursInv, LaterInv, groupVars,
        waitVars
  <2> QED
    BY <2>1, <2>2, <2>3
<1>11. CASE KernelStep
  <2>1. GroupTypeOK' /\ returncode' = returncode /\ pipes' = pipes
    BY <1>1, <1>11, KernelType DEF KernelStep
  <2>2. PidTaken'
    BY <1>1, <1>11, KernelPidTaken DEF KernelStep, ReapInv
  <2>3. KillsBeforeReaping'
    BY <1>1, <1>11
    DEF KernelStep, Kernel, Fork, Escape, Exit, Die, CloseOutputs, ReusePgid,
        KillsBeforeReaping, closeVars
  <2>4. Running = {} => Running' = {}
    BY <1>1, <1>11, KernelStartsNothing DEF KernelStep
  <2>5. CloseInv' /\ ReapInv'
    BY <1>1, <1>11, <2>1, <2>2, <2>4, KernelChild
    DEF KernelStep, CloseInv, ReapInv, closeVars
  <2>6. TypeOK' /\ OursInv' /\ LaterInv'
    BY <1>1, <1>11, <2>1
    DEF KernelStep, TypeOK, OursInv, LaterInv, closeVars, waitVars
  <2> QED
    BY <2>3, <2>5, <2>6
<1>12. CASE UNCHANGED vars
  BY <1>1, <1>12
  DEF vars, TypeOK, GroupTypeOK, CloseInv, ReapInv, PidTaken,
      KillsBeforeReaping, OursInv, LaterInv, groupVars, closeVars, waitVars,
      Running
<1> QED
  BY <1>2, <1>3, <1>4, <1>5, <1>6, <1>7, <1>8, <1>9, <1>10, <1>11, <1>12
  DEF Next, Close, Terminating

LEMMA Invariance == Spec => []IInv
BY InvInit, InvNext, PTL DEF Spec

-----------------------------------------------------------------------------
(* The properties.                                                         *)

\* Every variable of an Interactive keeps to its values.
THEOREM TypeCorrect == Spec => []TypeOK
<1>1. IInv => TypeOK
  BY DEF IInv
<1> QED
  BY <1>1, Invariance, PTL

\* A close that returns has let go of the child.
THEOREM Released == Spec => []ReleasedOnClose
<1>1. IInv => ReleasedOnClose
  BY DEF IInv, CloseInv, ReleasedOnClose
<1> QED
  BY <1>1, Invariance, PTL

\* The first close signals a stranger only if the child exited of itself.
THEOREM KillsBeforeReapingAlways == Spec => []KillsBeforeReaping
<1>1. IInv => KillsBeforeReaping
  BY DEF IInv
<1> QED
  BY <1>1, Invariance, PTL

\* A task that waits for an open file is watched, but for the stale key.
THEOREM Watched == Spec => []WaitersAreWatched
<1>1. IInv => WaitersAreWatched
  BY DEF IInv, TypeOK, OursInv, LaterInv, WaitersAreWatched, HasFile, Waiters,
         Waiting
<1> QED
  BY <1>1, Invariance, PTL

\* A child that is running is killed only when the nice timeout is over.
THEOREM NiceIsGiven == Spec => KilledLast
<1>1. ASSUME IInv, [Next]_vars, NEW p \in Procs,
             proc[p] = "running", proc'[p] = "dying"
      PROVE  nice = 0 \/ returncode # "none"
  <2>1. GroupTypeOK
    BY <1>1 DEF IInv, TypeOK
  <2>2. CASE ReleaseKills
    BY <1>1, <2>2 DEF IInv, CloseInv, ReleaseKills
  <2>3. CASE KernelStep
    <3>1. Kernel
      BY <2>3 DEF KernelStep
    <3> QED
      BY <1>1, <2>1, <3>1
      DEF Kernel, Fork, Escape, Exit, Die, CloseOutputs, ReusePgid,
          GroupTypeOK
  <2>4. CASE Poll
    BY <1>1, <2>1, <2>4 DEF Poll, GroupTypeOK
  <2>5. CASE proc' = proc
    BY <1>1, <2>5
  <2> QED
    BY <1>1, <2>2, <2>3, <2>4, <2>5
    DEF Next, Close, Terminating, vars, groupVars, WritePolls, CloseBegins,
        NicePolls, NiceEnds, CloseCancelled, Reaped, ReapGivesUp, WaitBegins,
        Wake, WaitEnds, RemoveReader, ReadResumes, LaterOpens,
        ReapTimePasses, WriteOutput
<1>2. IInv /\ [Next]_vars =>
        \A p \in Procs : proc[p] = "running" /\ proc'[p] = "dying" =>
            nice = 0 \/ returncode # "none"
  BY <1>1
<1> QED
  BY <1>2, Invariance, PTL DEF Spec, KilledLast
=============================================================================
