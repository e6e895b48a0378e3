-------------------------- MODULE PipeReaderProofs --------------------------
(***************************************************************************)
(* What a read of the BufferedReader and a step of the child do to the     *)
(* bytes on their way, for every size of read.  The proofs about the       *)
(* modules that extend PipeReader cite these lemmas.                       *)
(***************************************************************************)
EXTENDS PipeReader, TLAPS

\* Nothing is in the BufferedReader but what this call, or the last one, put
\* there; a call that has got nothing yet has emptied it.
BufferInv ==
    /\ \A f \in Fds :
         taken[f] <= handed[f] + (IF call.on = f THEN call.filled
                                                 ELSE ReadSize)
    /\ call.on # "none" /\ call.got = 0 =>
         call.filled = 0 /\ handed[call.on] = taken[call.on]

PipeInv == PipeTypeOK /\ BufferInv

LEMMA AtMostIs ==
    ASSUME NEW a \in Nat, NEW b \in Nat
    PROVE  /\ AtMost(a, b) \in Nat
           /\ AtMost(a, b) <= a
           /\ AtMost(a, b) <= b
           /\ AtMost(a, b) \in {a, b}
BY DEF AtMost

LEMMA PipeInvInit == PipeInit => PipeInv
<1> SUFFICES ASSUME PipeInit PROVE PipeInv
  OBVIOUS
<1> USE PipeAssumption DEF PipeInit, Idle
<1>1. call \in [on : Fds \cup {"none"}, got : 0 .. ReadSize,
                filled : 0 .. ReadSize]
  OBVIOUS
<1>2. PipeTypeOK
  BY <1>1 DEF PipeTypeOK
<1>3. BufferInv
  BY DEF BufferInv
<1> QED
  BY <1>2, <1>3 DEF PipeInv

\* What the buffer holds is handed on, and the bytes of the call end there.
LEMMA BeginReadKeeps ==
    ASSUME PipeInv, NEW f \in Fds, BeginRead(f)
    PROVE  /\ PipeInv'
           /\ call'.on = f
           /\ handed'[f] - call'.got = handed[f]
           /\ \A g \in Fds \ {f} : handed'[g] = handed[g]
<1> USE PipeAssumption
<1>1. /\ call'.on = f
      /\ call'.got = taken[f] - handed[f]
      /\ call'.filled = 0
      /\ handed'[f] = taken[f]
      /\ \A g \in Fds \ {f} : handed'[g] = handed[g]
      /\ handed' \in [Fds -> 0 .. MaxOut]
  BY DEF BeginRead, PipeInv, PipeTypeOK
<1>2. call'.got \in 0 .. ReadSize
  BY <1>1 DEF BeginRead, PipeInv, PipeTypeOK, BufferInv
<1>3. call' \in [on : Fds \cup {"none"}, got : 0 .. ReadSize,
                 filled : 0 .. ReadSize]
  BY <1>1, <1>2 DEF BeginRead
<1>4. PipeTypeOK'
  BY <1>1, <1>3 DEF BeginRead, PipeInv, PipeTypeOK
<1>5. BufferInv'
  BY <1>1 DEF BeginRead, PipeInv, PipeTypeOK, BufferInv
<1> QED
  BY <1>1, <1>4, <1>5 DEF PipeInv, PipeTypeOK

\* A read(2) gets at least one byte, and all that it hands on belongs to the
\* call: the bytes of the call begin where they began.
LEMMA ReadMoreKeeps ==
    ASSUME PipeInv, NEW f \in Fds, ReadMore(f)
    PROVE  /\ PipeInv'
           /\ call'.on = f
           /\ call'.got > 0
           /\ handed'[f] - call'.got = handed[f] - call.got
           /\ \A g \in Fds \ {f} : /\ handed'[g] = handed[g]
                                   /\ taken'[g] = taken[g]
<1> USE PipeAssumption
<1> DEFINE more == AtMost(written[f] - taken[f], ReadSize - call.filled)
           pass == AtMost(more, ReadSize - call.got)
           filled == IF call.got = 0 THEN 0 ELSE call.filled + more
<1>1. /\ written[f] \in 0 .. MaxOut /\ taken[f] \in 0 .. MaxOut
      /\ handed[f] \in 0 .. MaxOut
      /\ handed[f] <= taken[f] /\ taken[f] < written[f]
      /\ call.on = f /\ call.got \in 0 .. ReadSize
      /\ call.filled \in 0 .. ReadSize /\ call.got < ReadSize
      /\ taken[f] <= handed[f] + call.filled
      /\ call.got = 0 => call.filled = 0 /\ handed[f] = taken[f]
  BY DEF ReadMore, PipeInv, PipeTypeOK, BufferInv
<1>2. /\ more \in Nat /\ more <= written[f] - taken[f]
      /\ more <= ReadSize - call.filled
      /\ more \in {written[f] - taken[f], ReadSize - call.filled}
  <2>1. /\ written[f] - taken[f] \in Nat /\ written[f] - taken[f] > 0
        /\ ReadSize - call.filled \in Nat
    BY <1>1
  <2> QED
    BY <2>1, AtMostIs
<1>3. /\ pass \in Nat /\ pass <= more /\ pass <= ReadSize - call.got
      /\ pass \in {more, ReadSize - call.got}
  <2>1. ReadSize - call.got \in Nat
    BY <1>1
  <2> QED
    BY <1>2, <2>1, AtMostIs
<1>4. /\ taken' = [taken EXCEPT ![f] = @ + more]
      /\ handed' = [handed EXCEPT ![f] = @ + pass]
      /\ call' = [call EXCEPT !.got = @ + pass, !.filled = filled]
      /\ UNCHANGED <<written, shut>>
  BY DEF ReadMore
<1> HIDE DEF more, pass
<1>5. /\ taken'[f] = taken[f] + more
      /\ handed'[f] = handed[f] + pass
      /\ \A g \in Fds \ {f} : taken'[g] = taken[g] /\ handed'[g] = handed[g]
      /\ call'.on = f /\ call'.got = call.got + pass
      /\ call'.filled = filled
  BY <1>1, <1>4 DEF PipeInv, PipeTypeOK
<1>6. /\ taken[f] + more \in 0 .. MaxOut
      /\ handed[f] + pass \in 0 .. MaxOut
      /\ handed[f] + pass <= taken[f] + more
      /\ taken[f] + more <= written[f]
      /\ call.got + pass \in 0 .. ReadSize
      /\ call.got + pass > 0
      /\ filled \in 0 .. ReadSize
      /\ taken[f] + more <= handed[f] + pass + filled
  <2>1. taken[f] + more \in 0 .. MaxOut /\ taken[f] + more <= written[f]
    BY <1>1, <1>2
  <2>2. handed[f] + pass <= taken[f] + more /\ handed[f] + pass \in 0 .. MaxOut
    BY <1>1, <1>2, <1>3, <2>1
  <2>3. call.got + pass \in 0 .. ReadSize
    BY <1>1, <1>3
  <2>4. call.got + pass > 0
    <3>1. CASE call.got = 0
      BY <1>1, <1>2, <1>3, <3>1
    <3>2. CASE call.got > 0
      BY <1>1, <1>3, <3>2
    <3> QED
      BY <1>1, <3>1, <3>2
  <2>5. filled \in 0 .. ReadSize
    BY <1>1, <1>2
  <2>6. taken[f] + more <= handed[f] + pass + filled
    <3>1. CASE call.got = 0
      BY <1>1, <1>2, <1>3, <3>1
    <3>2. CASE call.got > 0
      BY <1>1, <1>2, <1>3, <3>2
    <3> QED
      BY <1>1, <3>1, <3>2
  <2> QED
    BY <2>1, <2>2, <2>3, <2>4, <2>5, <2>6
<1> HIDE DEF filled
<1>7. PipeTypeOK'
  <2>1. call' \in [on : Fds \cup {"none"}, got : 0 .. ReadSize,
                   filled : 0 .. ReadSize]
    BY <1>4, <1>6 DEF PipeInv, PipeTypeOK
  <2>2. taken' \in [Fds -> 0 .. MaxOut] /\ handed' \in [Fds -> 0 .. MaxOut]
    BY <1>4, <1>6 DEF PipeInv, PipeTypeOK
  <2> QED
    BY <1>4, <1>5, <1>6, <2>1, <2>2 DEF PipeInv, PipeTypeOK
<1>8. BufferInv'
  BY <1>1, <1>5, <1>6 DEF PipeInv, PipeTypeOK, BufferInv
<1> QED
  <2>1. handed'[f] - call'.got = handed[f] - call.got
    BY <1>1, <1>3, <1>5
  <2> QED
    BY <1>5, <1>6, <1>7, <1>8, <2>1 DEF PipeInv

\* A call that has returned leaves no more in the buffer than it has room for.
LEMMA ReadDoneKeeps ==
    ASSUME PipeInv, NEW f \in Fds, ReadDone(f), call' = Idle,
           UNCHANGED <<written, taken, handed, shut>>
    PROVE  PipeInv'
<1> USE PipeAssumption
<1>1. call' \in [on : Fds \cup {"none"}, got : 0 .. ReadSize,
                 filled : 0 .. ReadSize]
  BY DEF Idle
<1>2. PipeTypeOK'
  BY <1>1 DEF PipeInv, PipeTypeOK
<1>3. BufferInv'
  BY DEF ReadDone, Idle, PipeInv, PipeTypeOK, BufferInv
<1> QED
  BY <1>2, <1>3 DEF PipeInv

\* A call that got nothing found the pipe empty, and the buffer too.
LEMMA NothingIsNothing ==
    ASSUME PipeInv, NEW f \in Fds, ReadDone(f), call.got = 0
    PROVE  handed[f] = taken[f] /\ taken[f] = written[f]
BY PipeAssumption DEF ReadDone, PipeInv, PipeTypeOK, BufferInv

\* The child writes, or the last holder of the pipe lets go of it.
LEMMA ChildKeeps ==
    ASSUME PipeInv, NEW f \in Fds, Write(f) \/ Shut(f)
    PROVE  /\ PipeInv'
           /\ UNCHANGED <<taken, handed, call>>
           /\ \A g \in Fds : Readable(g) => Readable(g)'
           /\ \A g \in shut : g \in shut' /\ written'[g] = written[g]
<1> USE PipeAssumption
<1>1. CASE Write(f)
  <2>1. /\ written'[f] = written[f] + 1
        /\ \A g \in Fds \ {f} : written'[g] = written[g]
        /\ written' \in [Fds -> 0 .. MaxOut]
    BY <1>1 DEF Write, PipeInv, PipeTypeOK
  <2>2. PipeTypeOK'
    BY <1>1, <2>1 DEF Write, PipeInv, PipeTypeOK
  <2>3. BufferInv'
    BY <1>1 DEF Write, PipeInv, BufferInv
  <2> QED
    BY <1>1, <2>1, <2>2, <2>3 DEF Write, PipeInv, PipeTypeOK, Readable
<1>2. CASE Shut(f)
  BY <1>2 DEF Shut, PipeInv, PipeTypeOK, BufferInv, Readable
<1> QED
  BY <1>1, <1>2
=============================================================================
