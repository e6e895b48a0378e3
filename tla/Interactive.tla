---------------------------- MODULE Interactive ----------------------------
(***************************************************************************)
(* The life of an Interactive, sync or async: the calls of write, which    *)
(* poll, and close, which closes the pipes, gives the child some time and  *)
(* lets go of it.  Of the async one also read_line as it waits in          *)
(* can_read, which other tasks may outrun: one that closes, or one that    *)
(* opens a pipe under the same descriptor number afterwards.               *)
(*                                                                         *)
(* What is read is in LineReader and what is written in StdinFeed.  The    *)
(* selector of the event loop is external: it keeps, per descriptor        *)
(* number, a key with a callback, and has the kernel watch the file that   *)
(* had the number when the key was made.                                   *)
(***************************************************************************)
EXTENDS ProcessGroup, Naturals

CONSTANT Nice   \* nice_timeout_seconds

ASSUME NiceAssumption == Nice \in Nat

\* Who waits in can_read: our read_line, and that of a later child whose
\* stdout was given the descriptor number of ours.
Waiters == {"ours", "later"}

VARIABLES
    kind,       \* "sync" or "async"
    closer,     \* where close is
    nice,       \* how many more times it polls
    closes,     \* how often it was called
    slow,       \* whether the time to reap has passed
    unread,     \* whether there is anything in the child's stdout
    laterOpen,  \* whether the later child's stdout is open
    key,        \* whose callback the selector has for the number, if any
    watched,    \* whether the kernel watches the file that has the number
    future,     \* the future each one waits for: "pending", then "set" or
                \* "cancelled" until its callback has run, then "ready"
    stale       \* a key outlived the file it was made for (history)

closeVars == <<closer, nice, closes, slow>>
waitVars == <<unread, laterOpen, key, watched, future, stale>>
vars == <<groupVars, kind, closeVars, waitVars>>

Waiting == {"pending", "set", "cancelled"}
FutureState == {"none", "ready"} \cup Waiting

TypeOK ==
    /\ GroupTypeOK
    /\ kind \in {"sync", "async"}
    /\ closer \in {"open", "nice", "release", "reap", "closed", "cancelled"}
    /\ nice \in 0 .. Nice
    /\ closes \in 0 .. 2
    /\ slow \in BOOLEAN
    /\ unread \in BOOLEAN
    /\ laterOpen \in BOOLEAN
    /\ key \in Waiters \cup {"none"}
    /\ watched \in BOOLEAN
    /\ future \in [Waiters -> FutureState]
    /\ stale \in BOOLEAN

\* The child has been spawned, with no pipe for its stderr.
Init ==
    /\ proc = [p \in Procs |-> IF p = Child THEN "running" ELSE "unborn"]
    /\ returncode = "none"
    /\ silent = {}
    /\ pipes = {"stdin", "stdout"}
    /\ stranger = "none"
    /\ kind \in {"sync", "async"}
    /\ closer = "open"
    /\ nice = 0
    /\ closes = 0
    /\ slow = FALSE
    /\ unread = FALSE
    /\ laterOpen = FALSE
    /\ key = "none"
    /\ watched = FALSE
    /\ future = [w \in Waiters |-> "none"]
    /\ stale = FALSE

\* Whether the file that a task waits for is open.
HasFile(w) == IF w = "ours" THEN "stdout" \in pipes ELSE laterOpen

-----------------------------------------------------------------------------
(* Plausible bugs, each checked to break a property.                       *)

\* The last second is not waited for.
NiceEndsOnceLess ==
    /\ closer = "nice"
    /\ nice <= 1 \/ proc[Child] \in Unreaped \/ returncode # "none"
    /\ IF nice > 0 THEN Poll ELSE UNCHANGED <<proc, returncode>>
    /\ closer' = "release"
    /\ UNCHANGED <<silent, pipes, stranger, kind, nice, closes, slow,
                   waitVars>>

\* The group is killed once more when the child has been reaped.
ReapedThenKilled ==
    /\ closer = "reap"
    /\ Poll
    /\ returncode' # "none"
    /\ closer' = "release"
    /\ UNCHANGED <<silent, pipes, stranger, kind, nice, closes, slow,
                   waitVars>>

\* The reaping has no deadline.
ReapForever == FALSE /\ UNCHANGED vars

\* The reader is not removed when the wait was cut short.
RemoveIfSet(w) ==
    /\ future[w] \in Waiting \ {"pending"}
    /\ future' = [future EXCEPT ![w] =
                    IF future[w] = "set" THEN "ready" ELSE "none"]
    /\ IF HasFile(w) /\ future[w] = "set"
       THEN key' = "none" /\ watched' = FALSE /\ stale' = FALSE
       ELSE UNCHANGED <<key, watched, stale>>
    /\ UNCHANGED <<groupVars, kind, closeVars, unread, laterOpen>>

-----------------------------------------------------------------------------
(* write and close.                                                        *)

\* write polls first, and that reaps a child that has exited.  The rest of it
\* changes nothing here.
WritePolls ==
    /\ kind = "async" \/ closer \in {"open", "closed"}
    /\ Poll
    /\ UNCHANGED <<silent, pipes, stranger, kind, closeVars, waitVars>>

\* close_pipes; a key the selector still has is left behind.  The kernel stops
\* watching a file that is closed.
CloseBegins ==
    /\ closer \in {"open", "closed", "cancelled"}
    /\ closes < 2
    /\ ClosePipes
    /\ closer' = "nice"
    /\ nice' = Nice
    /\ closes' = closes + 1
    /\ slow' = FALSE
    /\ IF "stdout" \in pipes
       THEN watched' = FALSE /\ stale' = (future["ours"] \in Waiting)
       ELSE UNCHANGED <<watched, stale>>
    /\ UNCHANGED <<proc, returncode, silent, stranger, kind, unread,
                   laterOpen, key, future>>

\* An iteration of the loop, with its sleep of a second ...
NicePolls ==
    /\ closer = "nice"
    /\ nice > 0
    /\ Poll
    /\ returncode' = "none"
    /\ nice' = nice - 1
    /\ UNCHANGED <<silent, pipes, stranger, kind, closer, closes, slow,
                   waitVars>>

\* ... which ends when there is no time left or the child has exited.
NiceEnds ==
    /\ closer = "nice"
    /\ IF nice > 0
       THEN Poll /\ returncode' # "none"
       ELSE UNCHANGED <<proc, returncode>>
    /\ closer' = "release"
    /\ UNCHANGED <<silent, pipes, stranger, kind, nice, closes, slow,
                   waitVars>>

\* A cancelled close goes no further: it does not let go of the child.
CloseCancelled ==
    /\ kind = "async"
    /\ closer \in {"nice", "reap"}
    /\ closer' = "cancelled"
    /\ UNCHANGED <<groupVars, kind, nice, closes, slow, waitVars>>

ReleaseKills ==
    /\ closer = "release"
    /\ KillGroup
    /\ closer' = "reap"
    /\ UNCHANGED <<returncode, silent, pipes, kind, nice, closes, slow,
                   waitVars>>

Reaped ==
    /\ closer = "reap"
    /\ Poll
    /\ returncode' # "none"
    /\ ClosePipes
    /\ closer' = "closed"
    /\ UNCHANGED <<silent, stranger, kind, nice, closes, slow,
                   waitVars>>

ReapGivesUp ==
    /\ closer = "reap"
    /\ proc[Child] \notin Unreaped
    /\ returncode = "none"
    /\ slow
    /\ ClosePipes
    /\ closer' = "closed"
    /\ UNCHANGED <<proc, returncode, silent, stranger, kind, nice, closes,
                   slow, waitVars>>

-----------------------------------------------------------------------------
(* read_line of the async Interactive, or of the later child's.            *)

\* can_read: add_reader has the kernel watch the file only if it has no key
\* for its number; otherwise it puts its callback in the one it has.
WaitBegins(w) ==
    /\ kind = "async"
    /\ future[w] = "none"
    /\ HasFile(w)
    /\ future' = [future EXCEPT ![w] = "pending"]
    /\ key' = w
    /\ watched' = (watched \/ key = "none")
    /\ UNCHANGED <<groupVars, kind, closeVars, unread, laterOpen, stale>>

\* The file is readable and the callback sets the future.
Wake(w) ==
    /\ watched
    /\ key = w
    /\ w = "ours" => unread \/ OutputHolders = {}
    /\ future[w] = "pending"
    /\ future' = [future EXCEPT ![w] = "set"]
    /\ UNCHANGED <<groupVars, kind, closeVars, unread, laterOpen, key,
                   watched, stale>>

\* wait_for times out, or the caller cancels.
WaitEnds(w) ==
    /\ future[w] = "pending"
    /\ future' = [future EXCEPT ![w] = "cancelled"]
    /\ UNCHANGED <<groupVars, kind, closeVars, unread, laterOpen, key,
                   watched, stale>>

\* The callback of the future: remove_reader drops the key, and raises
\* ValueError, which the loop only logs, if the file has been closed.
RemoveReader(w) ==
    /\ future[w] \in Waiting \ {"pending"}
    /\ future' = [future EXCEPT ![w] =
                    IF future[w] = "set" THEN "ready" ELSE "none"]
    /\ IF HasFile(w)
       THEN key' = "none" /\ watched' = FALSE /\ stale' = FALSE
       ELSE UNCHANGED <<key, watched, stale>>
    /\ UNCHANGED <<groupVars, kind, closeVars, unread, laterOpen>>

\* read_line is resumed and reads; on a closed file that is a ValueError.
ReadResumes(w) ==
    /\ future[w] = "ready"
    /\ future' = [future EXCEPT ![w] = "none"]
    /\ unread' = (unread /\ ~(w = "ours" /\ HasFile(w)))
    /\ UNCHANGED <<groupVars, kind, closeVars, laterOpen, key, watched,
                   stale>>

-----------------------------------------------------------------------------
(* The rest of the program, the clock and the processes.                   *)

\* The number is free once our stdout is closed, and open gives it away.
LaterOpens ==
    /\ kind = "async"
    /\ "stdout" \notin pipes
    /\ ~laterOpen
    /\ laterOpen' = TRUE
    /\ UNCHANGED <<groupVars, kind, closeVars, unread, key, watched, future,
                   stale>>

ReapTimePasses ==
    /\ closer = "reap"
    /\ ~slow
    /\ slow' = TRUE
    /\ UNCHANGED <<groupVars, kind, closer, nice, closes, waitVars>>

WriteOutput ==
    /\ kind = "async"
    /\ OutputHolders # {}
    /\ ~unread
    /\ unread' = TRUE
    /\ UNCHANGED <<groupVars, kind, closeVars, laterOpen, key, watched,
                   future, stale>>

KernelStep ==
    /\ Kernel
    /\ UNCHANGED <<kind, closeVars, waitVars>>

\* Nothing more is called.
Terminating == closer \in {"open", "closed", "cancelled"} /\ UNCHANGED vars

-----------------------------------------------------------------------------
Close == NicePolls \/ NiceEnds \/ ReleaseKills \/ Reaped \/ ReapGivesUp

Next ==
    \/ Close \/ CloseBegins \/ CloseCancelled \/ WritePolls
    \/ \E w \in Waiters :
         WaitBegins(w) \/ Wake(w) \/ WaitEnds(w) \/ RemoveReader(w)
         \/ ReadResumes(w)
    \/ LaterOpens \/ ReapTimePasses \/ WriteOutput \/ KernelStep
    \/ Terminating

Spec == Init /\ [][Next]_vars

\* A close that has begun goes on, and time passes.
Fairness == WF_vars(Close) /\ WF_vars(ReapTimePasses)

FairSpec == Spec /\ Fairness

-----------------------------------------------------------------------------
(* Properties.                                                             *)

\* A close that returns has let go of the child: no member of its group runs,
\* the pipes are closed, and it is reaped unless it outlasted the time for it.
ReleasedOnClose ==
    closer = "closed" =>
        /\ Running = {}
        /\ pipes = {}
        /\ returncode # "none" \/ slow

\* The group is killed before the child is reaped unless the child exited of
\* itself, or close is called again: only then can a stranger be signalled.
KillsBeforeReaping ==
    stranger = "hit" => returncode = "exited" \/ closes = 2

\* A child that is running is given all of the nice timeout.
KilledLast ==
    [][\A p \in Procs : proc[p] = "running" /\ proc'[p] = "dying" =>
         nice = 0 \/ returncode # "none"]_vars

\* A task that waits for a file that is open is woken when it is readable,
\* whatever was closed and opened before, unless our stdout was closed while
\* read_line waited, which leaves the selector with a key for the number; and
\* that costs the later child's read_line one wait and no more.
WaitersAreWatched ==
    \A w \in Waiters :
        future[w] = "pending" /\ HasFile(w) =>
            \/ key = w /\ watched
            \/ w = "later" /\ stale

\* close returns, whatever the child does, unless it is cancelled.
Closes == closer = "nice" ~> closer \in {"closed", "cancelled"}
=============================================================================
