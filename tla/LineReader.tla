----------------------------- MODULE LineReader -----------------------------
(***************************************************************************)
(* Reading stdout line by line, the three ways the package does it:        *)
(*   "sync"    Interactive.read_line of interactive.py                     *)
(*   "async"   Interactive.read_line of interactive_async.py               *)
(*   "podman"  _read_line_from_nonblocking_pipe, which the stream of lines *)
(*             of podman_run_stream_lines calls until it answers None      *)
(* The first two keep stdout_saved_bytes, the third saved_bytes; bytes are *)
(* deleted from the front of it only, so it is the run of those after      *)
(* "dropped" up to the last one that was appended.                         *)
(*                                                                         *)
(* The caller makes one call at a time, of a timeout that may pass at any  *)
(* moment, and cancels where a call waits.                                 *)
(***************************************************************************)
EXTENDS PipeReader, Sequences

CONSTANT Caps   \* bound: the values of read_buffer_size or max_line_size

ASSUME CapsAssumption == Caps \subseteq Nat
ASSUME OutAssumption == "stdout" \in Fds

VARIABLES
    mode,       \* which of the three ways
    cap,        \* read_buffer_size, or max_line_size
    newlines,   \* which bytes of the child's output are newlines
    dropped,    \* how much was deleted from the front of the saved bytes
    pc,         \* "idle" between two calls, "loop" at the head of the loop,
                \* "read" in BufferedReader.read, "over" once a stream ended
    expired,    \* whether the timeout of the call has passed
    closed,     \* whether stdout is closed
    lines       \* the lines returned: the bytes after "from" and before "to"

given == <<mode, cap, newlines>>
vars == <<pipeVars, given, dropped, pc, expired, closed, lines>>

Out == "stdout"

\* The saved bytes end where the bytes of the call of read begin.
Saved == handed[Out] - call.got
SavedLen == Saved - dropped
NewlinesIn(a, b) == {n \in newlines : a < n /\ n <= b}

TypeOK ==
    /\ PipeTypeOK
    /\ mode \in {"sync", "async", "podman"}
    /\ cap \in Caps
    /\ newlines \subseteq 1 .. MaxOut
    /\ dropped \in 0 .. Saved
    /\ pc \in {"idle", "loop", "read", "over"}
    /\ call.on = (IF pc = "read" THEN Out ELSE "none")
    /\ expired \in BOOLEAN
    /\ closed \in BOOLEAN
    /\ lines \in Seq([from : 0 .. MaxOut, to : 1 .. MaxOut + 1])

Init ==
    /\ PipeInit
    /\ mode \in {"sync", "async", "podman"}
    /\ cap \in Caps
    /\ newlines \in SUBSET (1 .. MaxOut)
    /\ dropped = 0
    /\ pc = "idle"
    /\ expired = FALSE
    /\ closed = FALSE
    /\ lines = <<>>

-----------------------------------------------------------------------------
(* What a chunk, the bytes after "Saved" up to "handed", does.             *)

\* Return the bytes after a and before n, and delete them with byte n.
PopLine(a, n) ==
    /\ lines' = Append(lines, [from |-> a, to |-> n])
    /\ dropped' = n
    /\ pc' = "idle"

\* Plausible bugs, each checked to break a property.
\* No line of podman's is cut to the cap.
LineUncapped(n) == dropped

\* The cap is off by one.
CappedOneShort(n) ==
    IF mode = "podman" /\ n - 1 - dropped > cap THEN n - cap ELSE dropped

\* What is deleted before the line that ends at newline n is returned: of
\* podman's, all but the last max_line_size bytes of it.
CappedStart(n) ==
    IF mode = "podman" /\ n - 1 - dropped > cap THEN n - 1 - cap ELSE dropped

\* Without a newline all but the last read_buffer_size bytes are deleted.
Trimmed == IF handed[Out] - dropped > cap THEN handed[Out] - cap ELSE dropped

\* More of them.
\* The search begins with the second of the bytes received.
ChunkWithoutFirstByte ==
    LET found == NewlinesIn(Saved + 1, handed[Out])
    IN IF found # {}
       THEN PopLine(CappedStart(Min(found)), Min(found))
       ELSE /\ dropped' = Trimmed
            /\ pc' = "loop"
            /\ UNCHANGED lines

\* The bytes are trimmed before they are searched.
ChunkTrimmedFirst ==
    LET found == NewlinesIn(Saved, handed[Out]) \cap
                 NewlinesIn(Trimmed, handed[Out])
    IN IF found # {}
       THEN PopLine(Trimmed, Min(found))
       ELSE /\ dropped' = Trimmed
            /\ pc' = "loop"
            /\ UNCHANGED lines

\* The sync read_line waits for the pipe as well.
LookWaits ==
    /\ pc = "loop"
    /\ ~expired /\ ~closed
    /\ Readable(Out)
    /\ BeginRead(Out)
    /\ pc' = "read"
    /\ UNCHANGED <<given, dropped, expired, closed, lines>>

ChunkArrives ==
    LET found == NewlinesIn(Saved, handed[Out])
    IN IF found # {}
       THEN PopLine(CappedStart(Min(found)), Min(found))
       ELSE /\ dropped' = Trimmed
            /\ pc' = "loop"
            /\ UNCHANGED lines

\* The sync Interactive keeps what it has, the async one forgets it, and
\* podman's stream makes a last line of it, if there is any.
EofArrives ==
    CASE mode = "sync" ->
           pc' = "idle" /\ UNCHANGED <<dropped, lines>>
      [] mode = "async" ->
           pc' = "idle" /\ dropped' = Saved /\ UNCHANGED lines
      [] mode = "podman" /\ SavedLen = 0 ->
           pc' = "over" /\ UNCHANGED <<dropped, lines>>
      [] OTHER ->
           /\ lines' = Append(lines, [from |-> dropped, to |-> Saved + 1])
           /\ dropped' = Saved
           /\ pc' = "idle"

-----------------------------------------------------------------------------
(* read_line, one action per step of its own.                              *)

\* A line that was saved already is returned at once, whether stdout is still
\* open or not.  A stream whose deadline has passed does not ask for it.
CallPops ==
    /\ pc = "idle"
    /\ mode = "podman" => ~expired
    /\ NewlinesIn(dropped, Saved) # {}
    /\ PopLine(dropped, Min(NewlinesIn(dropped, Saved)))
    /\ UNCHANGED <<pipeVars, given, expired, closed>>

CallBegins ==
    /\ pc = "idle"
    /\ NewlinesIn(dropped, Saved) = {}
    /\ ~closed
    /\ mode = "podman" => ~expired
    /\ pc' = "loop"
    /\ expired' = FALSE
    /\ UNCHANGED <<pipeVars, given, dropped, closed, lines>>

\* The async ways wait for the pipe to be readable before they read, for the
\* time that is left; the sync one reads, and sleeps when it got no line.
Look ==
    /\ pc = "loop"
    /\ ~expired /\ ~closed
    /\ mode = "sync" \/ Readable(Out)
    /\ BeginRead(Out)
    /\ pc' = "read"
    /\ UNCHANGED <<given, dropped, expired, closed, lines>>

\* The timeout returns None.  What was saved is still there for the next call,
\* of which a stream has none.
TimedOut ==
    /\ expired
    /\ pc = "loop" \/ (mode = "podman" /\ pc = "idle")
    /\ pc' = IF mode = "podman" THEN "over" ELSE "idle"
    /\ UNCHANGED <<pipeVars, given, dropped, expired, closed, lines>>

\* CancelledError at the await.
Cancelled ==
    /\ pc = "loop"
    /\ mode # "sync"
    /\ pc' = IF mode = "podman" THEN "over" ELSE "idle"
    /\ UNCHANGED <<pipeVars, given, dropped, expired, closed, lines>>

RawRead ==
    /\ ReadMore(Out)
    /\ UNCHANGED <<given, dropped, pc, expired, closed, lines>>

ReadReturns ==
    /\ ReadDone(Out)
    /\ \/ call.got > 0 /\ ChunkArrives
       \/ IsEof /\ EofArrives
       \/ IsNone /\ pc' = "loop" /\ UNCHANGED <<dropped, lines>>
    /\ call' = Idle
    /\ UNCHANGED <<written, taken, handed, shut, given, expired, closed>>

-----------------------------------------------------------------------------
(* The rest of the program, the child and the clock.                       *)

\* close_pipes, which another task may call while the async read_line waits.
\* That waits on, or, if it is woken or has yet to add its reader, ends with
\* the ValueError of a closed file.
Close ==
    /\ \/ mode = "sync" /\ pc = "idle"
       \/ mode = "async" /\ pc # "read"
    /\ ~closed
    /\ closed' = TRUE
    /\ pc' \in {pc, "idle"}
    /\ UNCHANGED <<pipeVars, given, dropped, expired, lines>>

Expire ==
    /\ pc \in {"loop", "read"} \/ mode = "podman"
    /\ ~expired
    /\ expired' = TRUE
    /\ UNCHANGED <<pipeVars, given, dropped, pc, closed, lines>>

ChildStep ==
    /\ Write(Out) \/ Shut(Out)
    /\ UNCHANGED <<given, dropped, pc, expired, closed, lines>>

\* Nothing is called any more, or nothing would come of it.
Terminating == pc \in {"idle", "over"} /\ UNCHANGED vars

Reader == CallPops \/ CallBegins \/ RawRead \/ ReadReturns \/ TimedOut

Next ==
    \/ Reader \/ Look \/ Cancelled
    \/ Close \/ Expire \/ ChildStep
    \/ Terminating

Spec == Init /\ [][Next]_vars

\* The caller calls again and again, and the loop runs.  A timeout above zero
\* leaves time for a look at a pipe that is readable, hence SF.
Fairness == WF_vars(Reader) /\ SF_vars(Look) /\ WF_vars(Expire)

FairSpec == Spec /\ Fairness

-----------------------------------------------------------------------------
(* Properties.                                                             *)

\* Where the line before the i-th one ended, and how long the i-th one is.
Before(i) == IF i = 1 THEN 0 ELSE lines[i - 1].to
LineLen(i) == lines[i].to - 1 - lines[i].from
MostSaved == IF cap < ReadSize THEN ReadSize - 1 ELSE cap

\* Whatever the chunks, the timeouts and the cancellations, the lines come in
\* order, each newline ends one of them and none is deleted otherwise; only a
\* stream's last line may end with the file instead.
LinesInOrder ==
    /\ \A i \in 1 .. Len(lines) :
         /\ Before(i) <= lines[i].from /\ lines[i].from < lines[i].to
         /\ NewlinesIn(Before(i), lines[i].to - 1) = {}
         /\ \/ lines[i].to \in newlines
            \/ /\ mode = "podman" /\ Out \in shut
               /\ i = Len(lines) /\ lines[i].to = written[Out] + 1
    /\ NewlinesIn(Before(Len(lines) + 1), dropped) = {}

\* A line loses bytes from the front only, and none if it fits the cap.
LinesWhole ==
    \A i \in 1 .. Len(lines) :
        lines[i].from = Before(i) \/ LineLen(i) >= cap

\* How long a line may be.  Only the first newline of a chunk is checked
\* against max_line_size: a stream's line is longer if it was received behind
\* another, as a whole and in one read, and in no other case.
LineBounded(i) ==
    IF mode = "podman"
    THEN \/ LineLen(i) <= cap
         \/ i > 1 /\ lines[i].from = Before(i) /\ LineLen(i) < ReadSize
    ELSE LineLen(i) <= MostSaved + ReadSize - 1

\* A child that never ends a line cannot make us keep more than the cap, or,
\* if that is more, what is left of one read behind a newline in it; and no
\* line is longer than what may be saved and read, or than the cap.
RetentionBounded ==
    /\ SavedLen <= MostSaved
    /\ \A i \in 1 .. Len(lines) : LineBounded(i)

\* The search for a newline looks at the bytes received only: none is ever
\* overlooked among those that were saved before.
WaitsWithoutLine ==
    pc \in {"loop", "read"} => NewlinesIn(dropped, Saved) = {}

\* The line is in the buffer of the BufferedReader, where the ways that wait
\* for the pipe do not look before there is more in the pipe.
Overlooked(n) ==
    /\ mode # "sync"
    /\ handed[Out] < n /\ n <= taken[Out]
    /\ ~Readable(Out)

\* A line that was written is returned to a caller that goes on calling,
\* unless stdout is closed, the stream is over, or the wait overlooks it.
LinesArrive ==
    \A n \in 1 .. MaxOut :
        n \in newlines /\ n <= written[Out] ~>
            \/ n <= dropped \/ closed \/ pc = "over"
            \/ []Overlooked(n)
=============================================================================
