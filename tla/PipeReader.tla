----------------------------- MODULE PipeReader -----------------------------
(***************************************************************************)
(* Our end of the child's output: the nonblocking pipes and the            *)
(* io.BufferedReader that Popen puts on each of them.  Both are external:  *)
(* modelled as a pipe of POSIX and as the reader of CPython behave when    *)
(* read(MAX_BYTES_PER_READ) is called, which is all the package does.      *)
(*                                                                         *)
(* A byte is known by its number in its stream, and every buffer on its    *)
(* way to us is a run of consecutive numbers: the pipe holds those after   *)
(* "taken" up to "written", the BufferedReader those after "handed" up to  *)
(* "taken".  The bytes of one call of read are handed on as it gets them,  *)
(* and a read(2) is a step of its own: the child may write between two.    *)
(***************************************************************************)
EXTENDS Naturals, FiniteSetsExt

CONSTANTS
    Fds,        \* the pipes, of "stdout" and "stderr"
    MaxOut,     \* bound: the most the child writes to stdout
    MaxErr,     \* bound: the most it writes to stderr
    ReadSize    \* MAX_BYTES_PER_READ: what read asks for, and the bufsize

ASSUME PipeAssumption ==
    /\ Fds \subseteq {"stdout", "stderr"}
    /\ MaxOut \in Nat /\ MaxErr \in 0 .. MaxOut
    /\ ReadSize \in Nat \ {0}

VARIABLES
    written,    \* how much the child has written
    taken,      \* how much read(2) took from the pipe
    handed,     \* how much BufferedReader.read handed on
    shut,       \* the pipes whose write end nobody holds any more
    call        \* the call of read: its pipe, what it got, and how much of
                \* the buffer it filled

pipeVars == <<written, taken, handed, shut, call>>

Idle == [on |-> "none", got |-> 0, filled |-> 0]

PipeTypeOK ==
    /\ written \in [Fds -> 0 .. MaxOut]
    /\ taken \in [Fds -> 0 .. MaxOut]
    /\ handed \in [Fds -> 0 .. MaxOut]
    /\ \A f \in Fds : handed[f] <= taken[f] /\ taken[f] <= written[f]
    /\ shut \subseteq Fds
    /\ call \in [on : Fds \cup {"none"}, got : 0 .. ReadSize,
                 filled : 0 .. ReadSize]

PipeInit ==
    /\ written = [f \in Fds |-> 0]
    /\ taken = [f \in Fds |-> 0]
    /\ handed = [f \in Fds |-> 0]
    /\ shut = {}
    /\ call = Idle

\* What select, poll and epoll know of: bytes in the pipe, or end of file.
\* They know nothing of the bytes the BufferedReader holds.
Readable(f) == taken[f] < written[f] \/ f \in shut

AtMost(a, b) == IF a <= b THEN a ELSE b

-----------------------------------------------------------------------------
(* BufferedReader.read(ReadSize).                                          *)

\* What the buffer holds is handed on first; there is always room for it.
BeginRead(f) ==
    /\ call.on = "none"
    /\ call' = [on |-> f, got |-> taken[f] - handed[f], filled |-> 0]
    /\ handed' = [handed EXCEPT ![f] = taken[f]]
    /\ UNCHANGED <<written, taken, shut>>

\* One read(2).  A first one with nothing to hand on goes past the buffer;
\* any other fills the buffer as far as it has room, beyond what the call
\* still asks for, and the rest stays there.
ReadMore(f) ==
    /\ call.on = f
    /\ call.got < ReadSize
    /\ taken[f] < written[f]
    /\ LET more == AtMost(written[f] - taken[f], ReadSize - call.filled)
           pass == AtMost(more, ReadSize - call.got)
       IN /\ taken' = [taken EXCEPT ![f] = @ + more]
          /\ handed' = [handed EXCEPT ![f] = @ + pass]
          /\ call' = [call EXCEPT !.got = @ + pass,
                                  !.filled = IF call.got = 0
                                             THEN 0 ELSE @ + more]
    /\ UNCHANGED <<written, shut>>

\* The call returns when it has all it asked for, or read(2) gives nothing.
\* With nothing got it returns b"" at the end of the file, None before.
ReadDone(f) ==
    /\ call.on = f
    /\ call.got = ReadSize \/ taken[f] = written[f]

IsNone == call.got = 0 /\ call.on \notin shut
IsEof  == call.got = 0 /\ call.on \in shut

-----------------------------------------------------------------------------
(* The child and its descendants.                                          *)

Write(f) ==
    /\ f \notin shut
    /\ written[f] < (IF f = "stderr" THEN MaxErr ELSE MaxOut)
    /\ written' = [written EXCEPT ![f] = @ + 1]
    /\ UNCHANGED <<taken, handed, shut, call>>

Shut(f) ==
    /\ f \notin shut
    /\ shut' = shut \cup {f}
    /\ UNCHANGED <<written, taken, handed, call>>
=============================================================================
