---------------------------- MODULE ProcessGroup ----------------------------
(***************************************************************************)
(* The child a run starts, its descendants, and what Child (child.py) may  *)
(* do to them.  The child leads a session and a process group of its own,  *)
(* so its pid is the group's id; a descendant is in that group until it    *)
(* makes a session for itself.                                             *)
(*                                                                         *)
(* The first half of the module is class Child, one operator per method.   *)
(* The second half is the operating system: what the processes do of their *)
(* own accord and what the kernel does with pids.  It is modelled from     *)
(* what Child's calls (killpg, waitpid, close) rely on.                    *)
(***************************************************************************)

CONSTANT Kin    \* the descendants the child may fork

Child == "child"
Procs == Kin \cup {Child}

ASSUME KinAssumption == Child \notin Kin

VARIABLES
    proc,        \* the condition of every process
    returncode,  \* Popen.returncode: "none" until poll has reaped the child
    silent,      \* the processes that closed their stdout and stderr
    pipes,       \* our open ends of the child's pipes
    stranger     \* who has the group's id once the whole group is gone

groupVars == <<proc, returncode, silent, pipes, stranger>>

\* "dying" has been sent SIGKILL and still holds its descriptors.  "exited"
\* and "killed" are a child nobody has waited for yet; "gone" is reaped.
InGroup  == {"running", "dying"}
Unreaped == {"exited", "killed"}
ProcCondition == {"unborn", "escaped", "gone"} \cup InGroup \cup Unreaped
PipeName == {"stdin", "stdout", "stderr"}

GroupTypeOK ==
    /\ proc \in [Procs -> ProcCondition]
    /\ \A k \in Kin : proc[k] \notin Unreaped
    /\ proc[Child] # "escaped"
    /\ returncode \in {"none"} \cup Unreaped
    /\ silent \subseteq Procs
    /\ pipes \subseteq PipeName
    /\ stranger \in {"none", "alive", "hit"}

GroupInit ==
    /\ proc = [p \in Procs |-> "unborn"]
    /\ returncode = "none"
    /\ silent = {}
    /\ pipes = {}
    /\ stranger = "none"

Members == {p \in Procs : proc[p] \in InGroup}
Running == {p \in Procs : proc[p] = "running"}
Live    == {p \in Procs : proc[p] \in InGroup \cup {"escaped"}}

\* EOF is seen on our ends only once every one of these let go of the pipes.
OutputHolders == Live \ silent

-----------------------------------------------------------------------------
(* class Child.  An operator primes only the variables its method changes. *)

\* Plausible bugs of Child, each checked to break a property of AsyncRun:
\* poll that takes a child still running for one that has exited,
PollUnchecked ==
    /\ returncode' = proc[Child]
    /\ proc' = [proc EXCEPT ![Child] = "gone"]

\* kill_group that kills the child and forgets its session,
KillChildOnly ==
    /\ proc' = [proc EXCEPT ![Child] =
                  IF proc[Child] = "running" THEN "dying" ELSE proc[Child]]
    /\ stranger' = IF stranger = "alive" THEN "hit" ELSE stranger

\* kill_group that is not worth doing once the child has exited.
KillGroupUnlessExited ==
    /\ proc' = IF proc[Child] = "running"
               THEN [p \in Procs |-> IF proc[p] = "running" THEN "dying"
                                                           ELSE proc[p]]
               ELSE proc
    /\ stranger' = IF stranger = "alive" THEN "hit" ELSE stranger

\* Child.spawn: Popen in a new session, with the pipes the caller asked for.
Spawn(ends) ==
    /\ proc' = [proc EXCEPT ![Child] = "running"]
    /\ pipes' = ends

\* Child.poll: waitpid(WNOHANG).  It reaps the child if it has exited.
Poll ==
    IF proc[Child] \in Unreaped
    THEN /\ returncode' = proc[Child]
         /\ proc' = [proc EXCEPT ![Child] = "gone"]
    ELSE UNCHANGED <<proc, returncode>>

Killed(p) == IF proc[p] = "running" THEN "dying" ELSE proc[p]

\* Child.kill_group: killpg(pgid, SIGKILL).  It reaches whoever has the
\* group id now, and swallows the error when nobody has it.
KillGroup ==
    /\ proc' = [p \in Procs |-> Killed(p)]
    /\ stranger' = IF stranger = "alive" THEN "hit" ELSE stranger

\* Child.close_stdin and Child.close_pipes.
CloseStdin == pipes' = pipes \ {"stdin"}
ClosePipes == pipes' = {}

-----------------------------------------------------------------------------
(* The operating system.                                                   *)

\* A live process forks.  The new one inherits its group and its pipes.
Fork(k) ==
    /\ proc[k] = "unborn"
    /\ \E p \in Procs :
         /\ proc[p] \in {"running", "escaped"}
         /\ proc' = [proc EXCEPT ![k] = proc[p]]
         /\ silent' = IF p \in silent THEN silent \cup {k} ELSE silent
    /\ UNCHANGED <<returncode, pipes, stranger>>

\* A descendant calls setsid; the child, a group leader already, cannot.
Escape(k) ==
    /\ proc[k] = "running"
    /\ proc' = [proc EXCEPT ![k] = "escaped"]
    /\ UNCHANGED <<returncode, silent, pipes, stranger>>

\* A process exits of itself.  Only the child's status waits for a parent.
Exit(p) ==
    /\ proc[p] \in {"running", "escaped"}
    /\ proc' = [proc EXCEPT ![p] = IF p = Child THEN "exited" ELSE "gone"]
    /\ UNCHANGED <<returncode, silent, pipes, stranger>>

\* A process that was sent SIGKILL ends.
Die(p) ==
    /\ proc[p] = "dying"
    /\ proc' = [proc EXCEPT ![p] = IF p = Child THEN "killed" ELSE "gone"]
    /\ UNCHANGED <<returncode, silent, pipes, stranger>>

\* A process closes its stdout and stderr and goes on running.
CloseOutputs(p) ==
    /\ proc[p] \in {"running", "escaped"}
    /\ p \notin silent
    /\ silent' = silent \cup {p}
    /\ UNCHANGED <<proc, returncode, pipes, stranger>>

\* The pid is free once the child is reaped and its group is empty: the
\* kernel gives it to a process group that has nothing to do with the run.
ReusePgid ==
    /\ proc[Child] = "gone"
    /\ Members = {}
    /\ stranger = "none"
    /\ stranger' = "alive"
    /\ UNCHANGED <<proc, returncode, silent, pipes>>

Kernel ==
    \/ \E k \in Kin : Fork(k) \/ Escape(k)
    \/ \E p \in Procs : Exit(p) \/ Die(p) \/ CloseOutputs(p)
    \/ ReusePgid

=============================================================================
