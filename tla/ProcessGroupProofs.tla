-------------------------- MODULE ProcessGroupProofs --------------------------
(***************************************************************************)
(* What Child's operations and the operating system do to the group, for   *)
(* every set of descendants.  The proofs about the modules that extend     *)
(* ProcessGroup cite these lemmas.                                         *)
(***************************************************************************)
EXTENDS ProcessGroup, TLAPS

\* The pid is taken until the child has been waited for: nobody else can have
\* the group's id before that.
PidTaken == returncode = "none" => proc[Child] # "gone" /\ stranger = "none"

-----------------------------------------------------------------------------
(* Each operation, for the variables it changes, keeps GroupTypeOK.        *)

\* Spawning: one new process in the group, and known ends of pipes.
LEMMA SpawnType ==
    ASSUME NEW ends \in SUBSET PipeName, GroupTypeOK, Spawn(ends),
           UNCHANGED <<returncode, silent, stranger>>
    PROVE  GroupTypeOK' /\ proc'[Child] = "running"
BY KinAssumption DEF GroupTypeOK, Spawn, Procs, ProcCondition, InGroup

\* Polling: the child may be reaped, and nobody else is touched.
LEMMA PollType ==
    ASSUME GroupTypeOK, Poll
    PROVE  /\ proc' \in [Procs -> ProcCondition]
           /\ \A k \in Kin : proc'[k] = proc[k]
           /\ proc'[Child] \in {proc[Child], "gone"}
           /\ returncode' \in {"none"} \cup Unreaped
BY KinAssumption DEF GroupTypeOK, Poll, Procs, ProcCondition, Unreaped

\* Killing: who was running is dying, and everybody else is as before.
LEMMA KillGroupType ==
    ASSUME GroupTypeOK, KillGroup
    PROVE  /\ proc' \in [Procs -> ProcCondition]
           /\ \A p \in Procs : /\ proc'[p] # "running"
                               /\ \/ proc'[p] = proc[p]
                                  \/ proc'[p] = "dying" /\ proc[p] = "running"
           /\ stranger' \in {"none", "alive", "hit"}
BY DEF GroupTypeOK, KillGroup, Killed, Procs, ProcCondition, InGroup

\* What happens of itself: no process is killed, reaped, or joins a group
\* that has none running.
LEMMA KernelType ==
    ASSUME GroupTypeOK, Kernel
    PROVE  /\ GroupTypeOK'
           /\ UNCHANGED <<returncode, pipes>>
<1>1. ASSUME NEW k \in Kin, Fork(k)
      PROVE  GroupTypeOK' /\ UNCHANGED <<returncode, pipes>>
  <2>1. PICK p \in Procs :
          /\ proc[p] \in {"running", "escaped"}
          /\ proc' = [proc EXCEPT ![k] = proc[p]]
          /\ silent' = IF p \in silent THEN silent \cup {k} ELSE silent
    BY <1>1 DEF Fork
  <2> QED
    BY <1>1, <2>1, KinAssumption
    DEF Fork, GroupTypeOK, Procs, ProcCondition, InGroup, Unreaped
<1>2. ASSUME NEW k \in Kin, Escape(k)
      PROVE  GroupTypeOK' /\ UNCHANGED <<returncode, pipes>>
  BY <1>2, KinAssumption
  DEF Escape, GroupTypeOK, Procs, ProcCondition, Unreaped
<1>3. ASSUME NEW p \in Procs, Exit(p)
      PROVE  GroupTypeOK' /\ UNCHANGED <<returncode, pipes>>
  BY <1>3, KinAssumption DEF Exit, GroupTypeOK, Procs, ProcCondition, Unreaped
<1>4. ASSUME NEW p \in Procs, Die(p)
      PROVE  GroupTypeOK' /\ UNCHANGED <<returncode, pipes>>
  BY <1>4, KinAssumption DEF Die, GroupTypeOK, Procs, ProcCondition, Unreaped
<1>5. ASSUME NEW p \in Procs, CloseOutputs(p)
      PROVE  GroupTypeOK' /\ UNCHANGED <<returncode, pipes>>
  BY <1>5 DEF CloseOutputs, GroupTypeOK
<1>6. CASE ReusePgid
  BY <1>6 DEF ReusePgid, GroupTypeOK
<1>7. QED
  BY <1>1, <1>2, <1>3, <1>4, <1>5, <1>6 DEF Kernel

-----------------------------------------------------------------------------
(* What the release relies on.                                             *)

\* One killpg leaves no member of the group running.
LEMMA KillGroupStopsAll ==
    ASSUME GroupTypeOK, KillGroup
    PROVE  Running' = {}
BY KillGroupType DEF Running

\* Nothing that happens of itself makes a member run in a group where none
\* does: only a running process can fork into it.
LEMMA KernelStartsNothing ==
    ASSUME GroupTypeOK, Kernel, Running = {}
    PROVE  Running' = {}
<1>0. \A p \in Procs : proc[p] # "running"
  BY DEF Running
<1>1. \A p \in Procs : proc'[p] # "running"
  <2>1. ASSUME NEW k \in Kin, Fork(k)
        PROVE  \A p \in Procs : proc'[p] # "running"
    BY <1>0, <2>1 DEF Fork, GroupTypeOK, Procs
  <2>2. ASSUME NEW k \in Kin, Escape(k)
        PROVE  \A p \in Procs : proc'[p] # "running"
    BY <1>0, <2>2 DEF Escape, GroupTypeOK, Procs
  <2>3. ASSUME NEW p \in Procs, Exit(p) \/ Die(p) \/ CloseOutputs(p)
        PROVE  \A q \in Procs : proc'[q] # "running"
    BY <1>0, <2>3 DEF Exit, Die, CloseOutputs, GroupTypeOK
  <2>4. CASE ReusePgid
    BY <1>0, <2>4 DEF ReusePgid
  <2>5. QED
    BY <2>1, <2>2, <2>3, <2>4 DEF Kernel
<1>2. QED
  BY <1>1 DEF Running

\* The child's own condition, as far as the operating system changes it: it
\* is neither born nor reaped, and only a SIGKILL makes it die.
LEMMA KernelChild ==
    ASSUME GroupTypeOK, Kernel
    PROVE  \/ proc'[Child] = proc[Child]
           \/ proc[Child] = "running" /\ proc'[Child] = "exited"
           \/ proc[Child] = "dying" /\ proc'[Child] = "killed"
<1>1. ASSUME NEW k \in Kin, Fork(k) \/ Escape(k)
      PROVE  proc'[Child] = proc[Child]
  BY <1>1, KinAssumption DEF Fork, Escape, GroupTypeOK, Procs
<1>2. ASSUME NEW p \in Procs, Exit(p)
      PROVE  \/ proc'[Child] = proc[Child]
             \/ proc[Child] = "running" /\ proc'[Child] = "exited"
  BY <1>2 DEF Exit, GroupTypeOK, Procs
<1>3. ASSUME NEW p \in Procs, Die(p)
      PROVE  \/ proc'[Child] = proc[Child]
             \/ proc[Child] = "dying" /\ proc'[Child] = "killed"
  BY <1>3 DEF Die, GroupTypeOK, Procs
<1>4. ASSUME NEW p \in Procs, CloseOutputs(p) PROVE proc' = proc
  BY <1>4 DEF CloseOutputs
<1>5. CASE ReusePgid
  BY <1>5 DEF ReusePgid
<1>6. QED
  BY <1>1, <1>2, <1>3, <1>4, <1>5 DEF Kernel

\* Before the child is spawned there is nothing to happen.
LEMMA KernelNeedsAChild ==
    ASSUME GroupTypeOK, \A p \in Procs : proc[p] = "unborn"
    PROVE  ~Kernel
BY DEF Kernel, Fork, Escape, Exit, Die, CloseOutputs, ReusePgid, Procs

\* The pid stays taken until a poll has reaped the child.
LEMMA KernelPidTaken ==
    ASSUME GroupTypeOK, Kernel, PidTaken
    PROVE  PidTaken'
<1>1. returncode' = returncode
  BY KernelType
<1>2. proc[Child] # "gone" => stranger' = stranger
  BY DEF Kernel, Fork, Escape, Exit, Die, CloseOutputs, ReusePgid
<1>3. proc[Child] # "gone" => proc'[Child] # "gone"
  BY KernelChild
<1>4. QED
  BY <1>1, <1>2, <1>3 DEF PidTaken
=============================================================================
