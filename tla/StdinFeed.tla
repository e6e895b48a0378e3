------------------------------ MODULE StdinFeed ------------------------------
(***************************************************************************)
(* Writing to the child's stdin, the three ways the package does it:       *)
(*   "buffered"  run, sync and async: write_nonblocking_* on the           *)
(*               BufferedWriter of Popen, then close_stdin                 *)
(*   "raw"       the async Interactive: write_nonblocking_async on the     *)
(*               raw file                                                  *)
(*   "loop"      the sync Interactive: write_loop_sync over write_chunk,   *)
(*               also on the raw file                                      *)
(* The child reads, or stops reading for good, between any two calls of    *)
(* write(2).  The pipe and io.BufferedWriter are external: modelled as a   *)
(* nonblocking pipe of POSIX and as the writer of CPython behave.          *)
(*                                                                         *)
(* The data are the numbers 1 .. size, each standing for a run of bytes.   *)
(***************************************************************************)
EXTENDS Naturals, Sequences

CONSTANTS
    MaxData,     \* bound: the most there is to write
    PipeCap,     \* what the pipe holds
    AtomicSizes, \* PIPE_BUF, here and there: no smaller write is ever split
    BufSize      \* MAX_BYTES_PER_READ, the bufsize given to Popen

ASSUME SizeAssumption ==
    /\ MaxData \in Nat /\ PipeCap \in Nat
    /\ AtomicSizes \subseteq 1 .. PipeCap
    /\ BufSize \in Nat \ {0}

VARIABLES
    mode,        \* which of the three ways
    atomic,      \* PIPE_BUF of this system
    size,        \* how much there is to write
    start,       \* what the writer counts as written
    pc,          \* where the writer is
    buffer,      \* what the BufferedWriter holds back
    pipe,        \* what is in the pipe
    got,         \* what the child has read
    reading,     \* whether anybody still has the read end open
    expired,     \* whether the write timeout has passed
    write_ok     \* what the writer returned or raised

given == <<mode, atomic, size>>
vars == <<given, start, pc, buffer, pipe, got, reading, expired, write_ok>>

\* The data from the one after a up to b.
Data(a, b) == [i \in 1 .. (b - a) |-> a + i]

Free == PipeCap - Len(pipe)
Left == size - start
Sent == got \o pipe

TypeOK ==
    /\ mode \in {"buffered", "raw", "loop"}
    /\ atomic \in AtomicSizes
    /\ size \in 0 .. MaxData
    /\ start \in 0 .. size
    /\ pc \in {"write", "flush", "direct", "blocked", "close", "closed"}
    /\ buffer \in Seq(1 .. size) /\ Len(buffer) <= BufSize
    /\ pipe \in Seq(1 .. size) /\ Len(pipe) <= PipeCap
    /\ got \in Seq(1 .. size)
    /\ reading \in BOOLEAN
    /\ expired \in BOOLEAN
    /\ write_ok \in {"none", "True", "False", "cancelled"}

Init ==
    /\ mode \in {"buffered", "raw", "loop"}
    /\ atomic \in AtomicSizes
    /\ size \in 0 .. MaxData
    /\ start = 0
    /\ pc = "write"
    /\ buffer = <<>>
    /\ pipe = <<>>
    /\ got = <<>>
    /\ reading = TRUE
    /\ expired = FALSE
    /\ write_ok = "none"

-----------------------------------------------------------------------------
(* write(2) on the pipe, for the next n of the data.                       *)

\* How many of n a nonblocking write may take; none at all is EAGAIN.
MayTake(n) ==
    IF n <= atomic
    THEN {m \in {n} : n <= Free}
    ELSE 1 .. (IF n <= Free THEN n ELSE Free)

WouldBlock(n) == reading /\ MayTake(n) = {}

RawWrite(n) ==
    /\ reading
    /\ \E m \in MayTake(n) :
         /\ pipe' = pipe \o Data(start, start + m)
         /\ start' = start + m

\* The BufferedWriter writes from its buffer.
Drain ==
    /\ reading
    /\ buffer # <<>>
    /\ \E m \in MayTake(Len(buffer)) :
         /\ pipe' = pipe \o SubSeq(buffer, 1, m)
         /\ buffer' = SubSeq(buffer, m + 1, Len(buffer))

\* select and add_writer report the pipe writable when there is room for an
\* atomic write, or when writing would raise BrokenPipeError.
Writable == ~reading \/ Free >= atomic

-----------------------------------------------------------------------------
(* The end of the write: its result, and for run the closing of stdin.     *)

Finish(result) ==
    /\ write_ok' = result
    /\ pc' = IF mode = "buffered" THEN "close" ELSE "closed"

\* Plausible bugs, each checked to break a property.
\* The clock is looked at before the count.
GiveUpBeforeCounting ==
    /\ pc \in {"write", "blocked"}
    /\ expired
    /\ Finish("False")
    /\ UNCHANGED <<given, start, buffer, pipe, got, reading, expired>>

\* Only the loop with the sleep has a timeout.
GiveUpOnlyAsleep ==
    /\ pc = "blocked"
    /\ expired
    /\ mode = "loop"
    /\ Finish("False")
    /\ UNCHANGED <<given, start, buffer, pipe, got, reading, expired>>

\* BrokenPipeError is taken for the end of the data.
BreaksQuietly ==
    /\ ~reading
    /\ pc \in {"write", "direct"}
    /\ Left > 0
    /\ Finish("True")
    /\ UNCHANGED <<given, start, buffer, pipe, got, reading, expired>>

\* None is taken for a complete write.
NoneMeansAll ==
    /\ mode # "buffered"
    /\ pc = "write"
    /\ Left > 0
    /\ WouldBlock(Left)
    /\ start' = size
    /\ UNCHANGED <<given, pc, buffer, pipe, got, reading, expired, write_ok>>

\* while start < len(mv): there is nothing, or nothing more, to write.
AllWritten ==
    /\ pc = "write"
    /\ start = size
    /\ Finish("True")
    /\ UNCHANGED <<given, start, buffer, pipe, got, reading, expired>>

-----------------------------------------------------------------------------
(* BufferedWriter.write, called with all that is left.                     *)

Buffered == mode = "buffered" /\ pc = "write" /\ Left > 0
Room == BufSize - Len(buffer)

Taken == IF Left <= Room THEN Left ELSE Room

\* Plausible bugs, each checked to break a property.
\* characters_written is not added to the count.
DirectBlocksUncounted ==
    /\ pc = "direct"
    /\ Left > BufSize
    /\ WouldBlock(Left)
    /\ buffer' = Data(start, start + BufSize)
    /\ pc' = "blocked"
    /\ UNCHANGED <<given, start, pipe, got, reading, expired, write_ok>>

FlushBlocksUncounted ==
    /\ pc = "flush"
    /\ WouldBlock(Len(buffer))
    /\ buffer' = buffer \o Data(start, start + Taken)
    /\ pc' = IF Left <= Room THEN "write" ELSE "blocked"
    /\ UNCHANGED <<given, start, pipe, got, reading, expired, write_ok>>

\* What fits behind the bytes held back already is held back as well.
Absorb ==
    /\ Buffered
    /\ Left <= Room
    /\ buffer' = buffer \o Data(start, size)
    /\ start' = size
    /\ UNCHANGED <<given, pc, pipe, got, reading, expired, write_ok>>

\* Otherwise the bytes held back have to go first ...
FlushBegins ==
    /\ Buffered
    /\ Left > Room
    /\ pc' = "flush"
    /\ UNCHANGED <<given, start, buffer, pipe, got, reading, expired,
                   write_ok>>

Flush ==
    /\ pc = "flush"
    /\ Drain
    /\ UNCHANGED <<given, start, pc, got, reading, expired, write_ok>>

FlushEnds ==
    /\ pc = "flush"
    /\ buffer = <<>>
    /\ pc' = "direct"
    /\ UNCHANGED <<given, start, buffer, pipe, got, reading, expired,
                   write_ok>>

\* ... and when the pipe has no room for them, the buffer is filled up, and
\* BlockingIOError says with how much if that was not all (characters_written).
FlushBlocks ==
    /\ pc = "flush"
    /\ buffer # <<>>
    /\ WouldBlock(Len(buffer))
    /\ buffer' = buffer \o Data(start, start + Taken)
    /\ start' = start + Taken
    /\ pc' = IF Left <= Room THEN "write" ELSE "blocked"
    /\ UNCHANGED <<given, pipe, got, reading, expired, write_ok>>

\* With the buffer empty, write(2) as long as more is left than it can hold.
Direct ==
    /\ pc = "direct"
    /\ Left > BufSize
    /\ RawWrite(Left)
    /\ UNCHANGED <<given, pc, buffer, got, reading, expired, write_ok>>

DirectBlocks ==
    /\ pc = "direct"
    /\ Left > BufSize
    /\ WouldBlock(Left)
    /\ buffer' = Data(start, start + BufSize)
    /\ start' = start + BufSize
    /\ pc' = "blocked"
    /\ UNCHANGED <<given, pipe, got, reading, expired, write_ok>>

\* The last of the data only ever goes into the buffer.
DirectEnds ==
    /\ pc = "direct"
    /\ Left <= BufSize
    /\ buffer' = Data(start, size)
    /\ start' = size
    /\ pc' = "write"
    /\ UNCHANGED <<given, pipe, got, reading, expired, write_ok>>

-----------------------------------------------------------------------------
(* FileIO.write: one write(2), which returns None if it would block.       *)

RawTurn ==
    /\ mode # "buffered"
    /\ pc = "write"
    /\ Left > 0
    /\ RawWrite(Left)
    /\ pc' = IF start' = size THEN "write" ELSE "blocked"
    /\ UNCHANGED <<given, buffer, got, reading, expired, write_ok>>

RawBlocks ==
    /\ mode # "buffered"
    /\ pc = "write"
    /\ Left > 0
    /\ WouldBlock(Left)
    /\ pc' = "blocked"
    /\ UNCHANGED <<given, start, buffer, pipe, got, reading, expired,
                   write_ok>>

-----------------------------------------------------------------------------
(* What the loops do between two calls of write.                           *)

\* Nobody has the read end: BrokenPipeError, unless there is nothing to send.
Breaks ==
    /\ ~reading
    /\ \/ pc = "write" /\ mode # "buffered" /\ Left > 0
       \/ pc = "flush" /\ buffer # <<>>
       \/ pc = "direct" /\ Left > BufSize
    /\ Finish("False")
    /\ UNCHANGED <<given, start, buffer, pipe, got, reading, expired>>

\* The pipe is writable again; write_loop_sync does not ask, it sleeps.
Retry ==
    /\ pc = "blocked"
    /\ mode = "loop" \/ Writable
    /\ pc' = "write"
    /\ UNCHANGED <<given, start, buffer, pipe, got, reading, expired,
                   write_ok>>

GiveUp ==
    /\ pc = "blocked"
    /\ expired
    /\ Finish("False")
    /\ UNCHANGED <<given, start, buffer, pipe, got, reading, expired>>

\* The caller cancels; only the async writers wait where it can.
Cancelled ==
    /\ pc = "blocked"
    /\ mode # "loop"
    /\ Finish("cancelled")
    /\ UNCHANGED <<given, start, buffer, pipe, got, reading, expired>>

\* close_stdin, or close_pipes after a cancellation.  Closing flushes what is
\* held back, and a pipe that has no room for it, or no reader, loses it.
CloseFlushes ==
    /\ pc = "close"
    /\ Drain
    /\ UNCHANGED <<given, start, pc, got, reading, expired, write_ok>>

Close ==
    /\ pc = "close"
    /\ buffer = <<>> \/ ~reading \/ WouldBlock(Len(buffer))
    /\ buffer' = <<>>
    /\ pc' = "closed"
    /\ UNCHANGED <<given, start, pipe, got, reading, expired, write_ok>>

-----------------------------------------------------------------------------
(* The child and the clock.                                                *)

Read ==
    /\ reading
    /\ \E k \in 1 .. Len(pipe) :
         /\ got' = got \o SubSeq(pipe, 1, k)
         /\ pipe' = SubSeq(pipe, k + 1, Len(pipe))
    /\ UNCHANGED <<given, start, pc, buffer, reading, expired, write_ok>>

StopReading ==
    /\ reading
    /\ reading' = FALSE
    /\ UNCHANGED <<given, start, pc, buffer, pipe, got, expired, write_ok>>

Expire ==
    /\ ~expired
    /\ expired' = TRUE
    /\ UNCHANGED <<given, start, pc, buffer, pipe, got, reading, write_ok>>

\* The write is over and stdin closed, or left open for another write.
Terminating == pc = "closed" /\ UNCHANGED vars

-----------------------------------------------------------------------------
Writer ==
    \/ AllWritten
    \/ Absorb \/ FlushBegins \/ Flush \/ FlushEnds \/ FlushBlocks
    \/ Direct \/ DirectBlocks \/ DirectEnds
    \/ RawTurn \/ RawBlocks
    \/ Breaks \/ Retry \/ GiveUp \/ CloseFlushes \/ Close

Next ==
    \/ Writer \/ Cancelled
    \/ Read \/ StopReading \/ Expire
    \/ Terminating

Spec == Init /\ [][Next]_vars

\* The writer goes on when it can, and gives up when its time has passed:
\* the loop of the sync Interactive looks at the clock before every sleep.
Fairness == WF_vars(Writer) /\ SF_vars(GiveUp) /\ WF_vars(Expire)

FairSpec == Spec /\ Fairness

-----------------------------------------------------------------------------
(* Properties.                                                             *)

\* Whatever was retried, split or held back, the child is sent a prefix of
\* the data: nothing twice, nothing skipped, nothing out of order.
SentIsPrefix == Sent = Data(0, Len(Sent))

\* While stdin is open the count the retries start from is exact: it is what
\* was sent and what the BufferedWriter holds back.
CountIsExact == pc # "closed" => start = Len(Sent) + Len(buffer)

\* On the raw file True means delivered to the pipe.
RawTrueMeansSent ==
    mode # "buffered" /\ write_ok = "True" => Len(Sent) = size

\* False is never said of data that reached the pipe as a whole, later flush
\* of the BufferedWriter included.  "False means the payload never entered the
\* pipe", says interactive_async.py: on the raw file, of no more than PIPE_BUF.
FalseMeansShort ==
    write_ok = "False" =>
        /\ Len(Sent) < size
        /\ mode # "buffered" /\ size <= atomic => Sent = <<>>

\* A run that reports a complete write may have lost no more than its buffer.
LossIsBounded ==
    write_ok = "True" /\ pc = "closed" => size - Len(Sent) <= BufSize

\* "Returns True if all the data was written", and run returns -1 "if we
\* failed to write everything to stdin": True means sent to a child that reads.
TrueMeansSent ==
    write_ok = "True" /\ pc = "closed" /\ reading => Len(Sent) = size

\* The writer is bounded whatever the child reads.
Finishes == <>(pc = "closed")
=============================================================================
