------------------------------ MODULE PodmanRun ------------------------------
(***************************************************************************)
(* podman_run and podman_run_stream_lines: a call ("run" or "stream") that *)
(* starts a podman client, which creates a container, leaves its id in the *)
(* cidfile and starts it; and the finally clause, which kills the client   *)
(* and has another podman process remove the container the cidfile names.  *)
(*                                                                         *)
(* A container does not end with its client.  An action of the call is     *)
(* what it does between two awaits (or yields), and the caller may cancel  *)
(* at each of them, those of the finally clause too.  asyncio.wait_for is  *)
(* that of either Python; podman is external.                              *)
(***************************************************************************)

VARIABLES
    mode,             \* which of the two functions
    oldWaitFor,       \* asyncio.wait_for is that of Python 3.11 or earlier
    pc,               \* where the call is
    verdict,          \* how it ended, or will
    client,           \* the podman client, p
    container,        \* the container of the client
    cidfile,          \* what is in the cidfile; "none" if there is no file
    rm,               \* the process of podman rm
    mishaps,          \* what cut the cleanup short (history)
    pendingCancel,    \* a cancellation of the caller's task is pending
    cancelRequested,  \* the caller has cancelled (history)
    expired           \* the time limits that have passed

given == <<mode, oldWaitFor>>
podmanVars == <<client, container, cidfile, rm>>
vars == <<given, pc, verdict, podmanVars, mishaps, pendingCancel,
          cancelRequested, expired>>

Timer == {"deadline", "wait", "rm"}
RmEnded == {"removed", "missed"}

TypeOK ==
    /\ mode \in {"run", "stream"}
    /\ oldWaitFor \in BOOLEAN
    /\ pc \in {"start", "body", "yielded", "stderr", "wait", "exec", "rm",
               "returned"}
    /\ verdict \in {"none", "result", "cancelled", "error"}
    /\ verdict = "none" <=> pc \in {"start", "body", "yielded"}
    /\ client \in {"unborn", "running", "dying", "dead", "reaped"}
    /\ container \in {"none", "created", "running", "gone"}
    /\ cidfile \in {"none", "empty", "id"}
    /\ rm \in {"none", "failed", "started", "holds", "killed"} \cup RmEnded
    /\ mishaps \subseteq {"cancelled", "wait", "exec", "rm"}
    /\ pendingCancel \in BOOLEAN
    /\ cancelRequested \in BOOLEAN
    /\ expired \subseteq Timer

Init ==
    /\ mode \in {"run", "stream"}
    /\ oldWaitFor \in BOOLEAN
    /\ pc = "start"
    /\ verdict = "none"
    /\ client = "unborn"
    /\ container = "none"
    /\ cidfile = "none"
    /\ rm = "none"
    /\ mishaps = {}
    /\ pendingCancel = FALSE
    /\ cancelRequested = FALSE
    /\ expired = {}

-----------------------------------------------------------------------------
(* Plausible bugs, each checked to break a property.                       *)

\* The client is left to end of itself.
StopClientPolls == client' = IF client = "dead" THEN "reaped" ELSE client

\* A client that is not reaped in time keeps the rest from being done.
LateClientSkipsRm ==
    /\ pc = "wait"
    /\ ~pendingCancel
    /\ client # "reaped" /\ "wait" \in expired
    /\ mishaps' = mishaps \cup {"wait"}
    /\ pc' = "returned"
    /\ UNCHANGED <<given, verdict, podmanVars, pendingCancel, cancelRequested,
                   expired>>

\* The client is waited for without a limit.
WaitUnbounded ==
    /\ pc = "wait"
    /\ ~pendingCancel
    /\ client = "reaped"
    /\ rm' = "started"
    /\ pc' = "exec"
    /\ UNCHANGED <<given, verdict, client, container, cidfile, mishaps,
                   pendingCancel, cancelRequested, expired>>

\* The cidfile is unlinked as soon as podman rm has been started.
UnlinkAtOnce ==
    /\ pc = "exec"
    /\ ~pendingCancel
    /\ cidfile' = "none"
    /\ pc' = "rm"
    /\ UNCHANGED <<given, verdict, client, container, rm, mishaps,
                   pendingCancel, cancelRequested, expired>>

\* _podman_rm logs a cancellation as it does an exception.
CancelLogged ==
    /\ pc \in {"exec", "rm"}
    /\ pendingCancel
    /\ pendingCancel' = FALSE
    /\ mishaps' = mishaps \cup {"cancelled"}
    /\ cidfile' = "none"
    /\ pc' = "returned"
    /\ UNCHANGED <<given, verdict, client, container, rm, cancelRequested,
                   expired>>

-----------------------------------------------------------------------------
(* Up to the finally clause.                                               *)

\* Cancelled before its first step, the call raises without having started.
CancelledBeforeStart ==
    /\ pc = "start"
    /\ pendingCancel
    /\ pendingCancel' = FALSE
    /\ verdict' = "cancelled"
    /\ pc' = "returned"
    /\ UNCHANGED <<given, podmanVars, mishaps, cancelRequested, expired>>

\* Popen raises, outside of the try statement: the cidfile stays behind.
SpawnFails ==
    /\ pc = "start"
    /\ ~pendingCancel
    /\ cidfile' = "empty"
    /\ verdict' = "error"
    /\ pc' = "returned"
    /\ UNCHANGED <<given, client, container, rm, mishaps, pendingCancel,
                   cancelRequested, expired>>

Start ==
    /\ pc = "start"
    /\ ~pendingCancel
    /\ cidfile' = "empty"
    /\ client' = "running"
    /\ pc' = "body"
    /\ UNCHANGED <<given, verdict, container, rm, mishaps, pendingCancel,
                   cancelRequested, expired>>

\* if p.poll() is None: p.kill().  The client only, not its group.
StopClient ==
    client' = CASE client = "running" -> "dying"
                [] client = "dead"    -> "reaped"
                [] OTHER              -> client

\* The finally clause up to its first await.  A stream whose stderr task is
\* still reading awaits that task first.
Finally ==
    \/ /\ mode = "stream"
       /\ pc' = "stderr"
       /\ UNCHANGED client
    \/ /\ StopClient
       /\ pc' = "wait"

\* The client has exited or the deadline has passed; a stream may also see
\* the end of stdout, or give up writing stdin, with its client running.
BodyEnds ==
    /\ pc = "body"
    /\ ~pendingCancel \/ oldWaitFor
    /\ pendingCancel' = FALSE
    /\ mode = "stream" \/ client = "dead" \/ "deadline" \in expired
    /\ verdict' = "result"
    /\ Finally
    /\ UNCHANGED <<given, container, cidfile, rm, mishaps, cancelRequested,
                   expired>>

\* Something in the body raises: stdin data that cannot be encoded.
BodyFails ==
    /\ pc = "body"
    /\ ~pendingCancel
    /\ verdict' = "error"
    /\ Finally
    /\ UNCHANGED <<given, container, cidfile, rm, mishaps, pendingCancel,
                   cancelRequested, expired>>

CancelDelivered ==
    /\ pc = "body"
    /\ pendingCancel
    /\ pendingCancel' = FALSE
    /\ verdict' = "cancelled"
    /\ Finally
    /\ UNCHANGED <<given, container, cidfile, rm, mishaps, cancelRequested,
                   expired>>

\* Before Python 3.12 wait_for gives what it waited for to a caller who was
\* cancelled, if it is there, and the cancellation is lost.  Every wait of the
\* body for a pipe is in a wait_for; the body goes on then, or ends (BodyEnds),
\* as it does when its time is up.
CancelSwallowed ==
    /\ oldWaitFor
    /\ pc = "body"
    /\ "deadline" \notin expired
    /\ pendingCancel
    /\ pendingCancel' = FALSE
    /\ UNCHANGED <<given, pc, verdict, podmanVars, mishaps, cancelRequested,
                   expired>>

\* A line goes to the consumer, who comes back for another when it likes ...
Yield ==
    /\ mode = "stream"
    /\ pc = "body"
    /\ ~pendingCancel
    /\ pc' = "yielded"
    /\ UNCHANGED <<given, verdict, podmanVars, mishaps, pendingCancel,
                   cancelRequested, expired>>

Resume ==
    /\ pc = "yielded"
    /\ pc' = "body"
    /\ UNCHANGED <<given, verdict, podmanVars, mishaps, pendingCancel,
                   cancelRequested, expired>>

\* ... or closes the generator: GeneratorExit at the yield.
AClose ==
    /\ pc = "yielded"
    /\ verdict' = "result"
    /\ Finally
    /\ UNCHANGED <<given, container, cidfile, rm, mishaps, pendingCancel,
                   cancelRequested, expired>>

-----------------------------------------------------------------------------
(* The finally clause.                                                     *)

\* The stderr task has been cancelled and ends.  A cancellation of the caller
\* that comes in here is caught as if it were the task's, and lost.
StderrStops ==
    /\ pc = "stderr"
    /\ pendingCancel' = FALSE
    /\ StopClient
    /\ pc' = "wait"
    /\ UNCHANGED <<given, verdict, container, cidfile, rm, mishaps,
                   cancelRequested, expired>>

\* asyncio.wait_for in the cleanup returns, for the one reason or the other.
WaitForReturns(there, t) ==
    /\ there \/ t \in expired
    /\ ~pendingCancel \/ (oldWaitFor /\ there)
    /\ pendingCancel' = FALSE

\* p.wait, in a thread, has reaped the client, or wait_for had enough of it.
\* _podman_rm starts its process, or logs that it cannot and goes on.
WaitEnds ==
    /\ pc = "wait"
    /\ WaitForReturns(client = "reaped", "wait")
    /\ LET late == IF client = "reaped" THEN {} ELSE {"wait"}
       IN \/ /\ rm' = "started"
             /\ mishaps' = mishaps \cup late
             /\ pc' = "exec"
             /\ UNCHANGED cidfile
          \/ /\ rm' = "failed"
             /\ mishaps' = mishaps \cup late \cup {"exec"}
             /\ cidfile' = "none"
             /\ pc' = "returned"
    /\ UNCHANGED <<given, verdict, client, container, cancelRequested,
                   expired>>

\* create_subprocess_exec returns.
RmSpawned ==
    /\ pc = "exec"
    /\ ~pendingCancel
    /\ pc' = "rm"
    /\ UNCHANGED <<given, verdict, podmanVars, mishaps, pendingCancel,
                   cancelRequested, expired>>

\* podman rm has ended, or is left to itself.  The cidfile is unlinked.
RmDone ==
    /\ pc = "rm"
    /\ WaitForReturns(rm \in RmEnded, "rm")
    /\ mishaps' = IF rm \in RmEnded THEN mishaps ELSE mishaps \cup {"rm"}
    /\ cidfile' = "none"
    /\ pc' = "returned"
    /\ UNCHANGED <<given, verdict, client, container, rm, cancelRequested,
                   expired>>

\* CancelledError at an await of the cleanup takes the place of whatever was
\* in flight.  While the client is waited for, nothing catches it.  asyncio
\* kills a process whose creation is cancelled; _podman_rm unlinks.
CleanupCancelled ==
    /\ pc \in {"wait", "exec", "rm"}
    /\ pendingCancel
    /\ pendingCancel' = FALSE
    /\ verdict' = "cancelled"
    /\ mishaps' = mishaps \cup {"cancelled"}
    /\ rm' = IF pc = "exec" /\ rm \notin RmEnded THEN "killed" ELSE rm
    /\ cidfile' = IF pc = "wait" THEN cidfile ELSE "none"
    /\ pc' = "returned"
    /\ UNCHANGED <<given, client, container, cancelRequested, expired>>

\* The thread that waits for the client goes on after its wait_for has ended.
ThreadReaps ==
    /\ pc \in {"wait", "exec", "rm", "returned"}
    /\ client = "dead"
    /\ client' = "reaped"
    /\ UNCHANGED <<given, pc, verdict, container, cidfile, rm, mishaps,
                   pendingCancel, cancelRequested, expired>>

-----------------------------------------------------------------------------
(* The caller and the clock.                                               *)

\* While it has a line, the caller is not in the call.
Cancel ==
    /\ pc \notin {"yielded", "returned"}
    /\ pendingCancel' = TRUE
    /\ cancelRequested' = TRUE
    /\ UNCHANGED <<given, pc, verdict, podmanVars, mishaps, expired>>

Expire(t) ==
    /\ t \notin expired
    /\ \/ t = "deadline" /\ pc \in {"body", "yielded"}
       \/ t \in {"wait", "rm"} /\ pc = t
    /\ expired' = expired \cup {t}
    /\ UNCHANGED <<given, pc, verdict, podmanVars, mishaps, pendingCancel,
                   cancelRequested>>

-----------------------------------------------------------------------------
(* podman.                                                                 *)

ClientCreates ==
    /\ client = "running"
    /\ container = "none"
    /\ container' = "created"
    /\ UNCHANGED <<client, cidfile, rm>>

ClientWritesId ==
    /\ client = "running"
    /\ container = "created"
    /\ cidfile # "id"
    /\ cidfile' = "id"
    /\ UNCHANGED <<client, container, rm>>

ClientStarts ==
    /\ client = "running"
    /\ container = "created"
    /\ cidfile = "id"
    /\ container' = "running"
    /\ UNCHANGED <<client, cidfile, rm>>

\* The client ends, with its container or before it.
ClientEnds ==
    /\ client \in {"running", "dying"}
    /\ client' = "dead"
    /\ UNCHANGED <<container, cidfile, rm>>

\* The container ends of itself and, for --rm, is removed.
ContainerExits ==
    /\ container = "running"
    /\ container' = "gone"
    /\ UNCHANGED <<client, cidfile, rm>>

\* podman rm --ignore: without an id, or a file, there is nothing to do.
RmReads ==
    /\ rm = "started"
    /\ rm' = IF cidfile = "id" THEN "holds" ELSE "missed"
    /\ UNCHANGED <<client, container, cidfile>>

RmRemoves ==
    /\ rm = "holds"
    /\ rm' = "removed"
    /\ container' = "gone"
    /\ UNCHANGED <<client, cidfile>>

Podman ==
    /\ \/ ClientCreates \/ ClientWritesId \/ ClientStarts \/ ClientEnds
       \/ ContainerExits
       \/ RmReads \/ RmRemoves
    /\ UNCHANGED <<given, pc, verdict, mishaps, pendingCancel,
                   cancelRequested, expired>>

\* The call is over, and podman has no more to do.
Terminating == pc = "returned" /\ UNCHANGED vars

-----------------------------------------------------------------------------
Call ==
    \/ CancelledBeforeStart \/ SpawnFails \/ Start
    \/ BodyEnds \/ BodyFails \/ CancelDelivered \/ CancelSwallowed \/ Yield
    \/ StderrStops \/ WaitEnds \/ RmSpawned \/ RmDone \/ CleanupCancelled

Next ==
    \/ Call \/ Resume \/ AClose \/ ThreadReaps
    \/ Cancel \/ (\E t \in Timer : Expire(t))
    \/ Podman
    \/ Terminating

Spec == Init /\ [][Next]_vars

\* The event loop resumes the call when it can go on, and time passes.
\* Neither podman nor the consumer of the lines ever has to do anything.
Fairness == WF_vars(Call) /\ \A t \in Timer : WF_vars(Expire(t))

FairSpec == Spec /\ Fairness

-----------------------------------------------------------------------------
(* Properties.                                                             *)

\* The comment in the finally clause: had the client outlived the call, it
\* "could create and start the container after the podman rm".  It cannot:
\* nothing starts once the client has been killed, whatever happens next.
NothingStartsLate ==
    [][container # "running" /\ container' = "running"
         => pc \in {"body", "yielded", "stderr"}]_vars

\* When nothing interrupted the cleanup no container is left running and no
\* cidfile left behind, even if the client could not be reaped in time.
ContainerStopped ==
    pc = "returned" /\ client # "unborn" /\ mishaps \subseteq {"wait"} =>
        /\ container # "running"
        /\ cidfile = "none"

\* "podman rm can take time. I think this will eventually complete even if we
\* timeout below."  It does, but by name of a file that is unlinked meanwhile:
\* it misses a running container then, or when the wait for it was cancelled,
\* and in no other case.
RmMissesNothing ==
    rm = "missed" /\ container = "running" =>
        mishaps \cap {"rm", "cancelled"} # {}

\* What a wait_for of the old kind may lose a cancellation to: in the cleanup
\* the end of the client, or of podman rm, and nothing else.
Swallows ==
    /\ oldWaitFor
    /\ \/ pc = "body"
       \/ pc = "wait" /\ client = "reaped"
       \/ pc = "rm" /\ rm \in RmEnded

\* From Python 3.12 on a podman_run that was cancelled gives no result,
\* whichever of its awaits the cancellation came in at.  There is one place
\* only where a stream loses one, the await of its cancelled stderr task; and
\* before 3.12 both lose those that find what they wait for there already.
CancelHonoured ==
    /\ [](mode = "run" /\ ~oldWaitFor /\ pc = "returned" /\ verdict = "result"
            => ~cancelRequested)
    /\ [][pendingCancel /\ ~pendingCancel'
            => \/ verdict' = "cancelled"
               \/ mode = "stream" /\ pc = "stderr"
               \/ Swallows]_vars

\* "We ... force-remove it when the call returns (whether the command
\* succeeded, timed out, or errored)": podman rm is run on every way out.
AlwaysRemoves == pc = "returned" /\ client # "unborn" => rm # "none"

\* It is, but for a cancellation that comes in while the client is waited for:
\* _podman_rm is called behind that await, not in a finally clause of its own.
OnlyCancelSkipsRm ==
    ~AlwaysRemoves => mishaps = {"cancelled"} /\ verdict = "cancelled"

\* podman_run answers, whatever podman does, and so does the cleanup of a
\* stream once it has begun.
Returns ==
    (mode = "run" /\ pc = "body") \/ pc \in {"stderr", "wait", "exec", "rm"}
        ~> pc = "returned"
=============================================================================
