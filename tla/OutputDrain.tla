---------------------------- MODULE OutputDrain ----------------------------
(***************************************************************************)
(* Collecting the child's output: read_to_eof_sync, which serves every     *)
(* pipe that select reports before it selects again, read_to_eof_async,    *)
(* which serves the one pipe that _wait_for_any_read woke up for, and      *)
(* BoundedOutputBuffer, which keeps the first or the last max_len bytes.   *)
(***************************************************************************)
EXTENDS PipeReader, Sequences

CONSTANT MaxLens    \* bound: the values of max_len

ASSUME MaxLensAssumption == MaxLens \subseteq Nat

VARIABLES
    kind,       \* "sync" or "async": which of the two
    tail,       \* whether to keep the last bytes
    max_len,    \* how many to keep
    drain,      \* where it is: "off", "select", "serve" or "done"
    avail,      \* the pipes that have not ended
    ready,      \* those of them that are still to be served this time
    bufs,       \* what is kept of each
    expired     \* the deadlines that have passed

drainGiven == <<kind, tail, max_len>>
drainVars == <<pipeVars, drainGiven, drain, avail, ready, bufs>>

\* The bytes after a up to b.
Bytes(a, b) == [i \in 1 .. (b - a) |-> a + i]

\* What BoundedOutputBuffer promises to keep of the first n bytes.
Kept(n) == IF tail THEN Bytes(IF n > max_len THEN n - max_len ELSE 0, n)
                   ELSE Bytes(0, AtMost(n, max_len))

DrainTypeOK ==
    /\ PipeTypeOK
    /\ kind \in {"sync", "async"}
    /\ tail \in BOOLEAN
    /\ max_len \in MaxLens
    /\ drain \in {"off", "select", "serve", "done"}
    /\ avail \subseteq Fds
    /\ ready \subseteq avail
    /\ drain = "serve" <=> ready # {}
    /\ call.on \in ready \cup {"none"}
    /\ bufs \in [Fds -> Seq(1 .. MaxOut)]

DrainInit ==
    /\ PipeInit
    /\ kind \in {"sync", "async"}
    /\ tail \in BOOLEAN
    /\ max_len \in MaxLens
    /\ drain = "off"
    /\ avail = {}
    /\ ready = {}
    /\ bufs = [f \in Fds |-> <<>>]

-----------------------------------------------------------------------------
(* BoundedOutputBuffer.extend.                                             *)

\* Plausible bugs, each checked to break a property of SyncRun.
\* The first chunk that does not fit is left out as a whole.
ExtendWhole(buf, chunk) ==
    IF tail
    THEN LET all == buf \o chunk
         IN IF Len(all) > max_len
            THEN SubSeq(all, Len(all) - max_len + 1, Len(all)) ELSE all
    ELSE IF Len(buf) + Len(chunk) <= max_len THEN buf \o chunk ELSE buf

\* One select may report a pipe that another read has emptied by now.
SelectAllAgain ==
    /\ drain = "select"
    /\ "read" \notin expired
    /\ \E f \in avail : Readable(f)
    /\ ready' = avail
    /\ drain' = "serve"
    /\ UNCHANGED <<pipeVars, drainGiven, avail, bufs>>

\* Collecting ends with the first of the pipes.
EndsWithOne ==
    /\ drain = "select"
    /\ avail # Fds \/ "read" \in expired
    /\ drain' = "done"
    /\ UNCHANGED <<pipeVars, drainGiven, avail, ready, bufs>>

extend(buf, chunk) ==
    IF max_len = 0 THEN buf
    ELSE IF tail
    THEN LET all == buf \o chunk
         IN IF Len(all) > max_len
            THEN SubSeq(all, Len(all) - max_len + 1, Len(all)) ELSE all
    ELSE IF Len(buf) < max_len
         THEN buf \o SubSeq(chunk, 1, AtMost(max_len - Len(buf), Len(chunk)))
         ELSE buf

-----------------------------------------------------------------------------
(* The loop.  It may end late, but not before the time is up.              *)

DrainBegins ==
    /\ drain' = "select"
    /\ avail' = Fds

\* select returns every pipe that is readable, _wait_for_any_read the one
\* whose callback ran first.
Select ==
    /\ drain = "select"
    /\ "read" \notin expired
    /\ LET readable == {f \in avail : Readable(f)}
       IN /\ readable # {}
          /\ IF kind = "sync" THEN ready' = readable
                              ELSE \E f \in readable : ready' = {f}
    /\ drain' = "serve"
    /\ UNCHANGED <<pipeVars, drainGiven, avail, bufs>>

Serve(f) ==
    /\ f \in ready
    /\ BeginRead(f)
    /\ UNCHANGED <<drainGiven, drain, avail, ready, bufs>>

RawRead(f) ==
    /\ ReadMore(f)
    /\ UNCHANGED <<drainGiven, drain, avail, ready, bufs>>

\* "if not chunk" is true of b"" and of None alike.
ReadReturns(f) ==
    /\ ReadDone(f)
    /\ IF call.got = 0
       THEN /\ avail' = avail \ {f}
            /\ UNCHANGED bufs
       ELSE /\ bufs' = [bufs EXCEPT ![f] =
                  extend(@, Bytes(handed[f] - call.got, handed[f]))]
            /\ UNCHANGED avail
    /\ ready' = ready \ {f}
    /\ drain' = IF ready = {f} THEN "select" ELSE "serve"
    /\ call' = Idle
    /\ UNCHANGED <<written, taken, handed, shut, drainGiven>>

DrainEnds ==
    /\ drain = "select"
    /\ avail = {} \/ "read" \in expired
    /\ drain' = "done"
    /\ UNCHANGED <<pipeVars, drainGiven, avail, ready, bufs>>

Drain ==
    \/ Select \/ DrainEnds
    \/ \E f \in Fds : Serve(f) \/ RawRead(f) \/ ReadReturns(f)

-----------------------------------------------------------------------------
(* Properties of the two loops, invariants of SyncRun.                     *)

\* However the output is cut into chunks, what is kept is the first max_len
\* bytes that were read of each pipe, or with tail the last: none is missing,
\* doubled or out of order.
KeepsFirstOrLast ==
    \A f \in Fds :
        bufs[f] = Kept(handed[f] - (IF call.on = f THEN call.got ELSE 0))

\* A pipe is given up at its end of file only, with all that was written to
\* it read: a read that would block is never taken for the end.
EndsAtEofOnly ==
    drain # "off" =>
        \A f \in Fds \ avail : f \in shut /\ handed[f] = written[f]
=============================================================================
