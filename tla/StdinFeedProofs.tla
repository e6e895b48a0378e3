-------------------------- MODULE StdinFeedProofs ---------------------------
(***************************************************************************)
(* What becomes of the data written to stdin, for every amount of it and   *)
(* every size of the pipe, of its atomic writes and of the buffer.         *)
(***************************************************************************)
EXTENDS StdinFeed, SequenceTheorems, TLAPS

\* The data go out in the order of their numbers: what was sent begins with 1,
\* and what is held back follows it.
OrderInv ==
    /\ \A i \in 1 .. Len(Sent) : Sent[i] = i
    /\ pc # "closed" =>
         \A i \in 1 .. Len(buffer) : buffer[i] = Len(Sent) + i

\* What counts as written was sent or is held back, and only closing stdin
\* drops any of it.
CountInv ==
    /\ pc # "closed" \/ mode # "buffered" => start = Len(Sent) + Len(buffer)
    /\ Len(Sent) <= start
    /\ start - Len(Sent) <= BufSize

\* The raw file holds nothing back, and write(2) is called for all that is
\* left only when the BufferedWriter is empty.
ModeInv ==
    /\ mode # "buffered" =>
         /\ buffer = << >>
         /\ pc \in {"write", "blocked", "closed"}
    /\ pc = "direct" => buffer = << >>
    /\ pc \in {"flush", "blocked"} => start < size

\* The answer is about the count, which is then final; and of a payload that
\* the pipe takes as a whole the raw file is given all or nothing.
AnswerInv ==
    /\ write_ok = "none" <=> pc \notin {"close", "closed"}
    /\ write_ok = "True" => start = size
    /\ write_ok = "False" => start < size
    /\ mode # "buffered" /\ size <= atomic => start \in {0, size}

IInv == TypeOK /\ OrderInv /\ CountInv /\ ModeInv /\ AnswerInv

-----------------------------------------------------------------------------
(* The data and the pipe.                                                  *)

LEMMA DataAre ==
    ASSUME NEW a \in Nat, NEW k \in Nat, NEW n \in Nat, a + k <= n
    PROVE  /\ Data(a, a + k) \in Seq(1 .. n)
           /\ Len(Data(a, a + k)) = k
           /\ \A i \in 1 .. k : Data(a, a + k)[i] = a + i
<1>1. Data(a, a + k) = [i \in 1 .. k |-> a + i]
  BY DEF Data
<1>2. \A i \in 1 .. k : a + i \in 1 .. n
  OBVIOUS
<1>3. [i \in 1 .. k |-> a + i] \in Seq(1 .. n) /\
      Len([i \in 1 .. k |-> a + i]) = k
  BY <1>2
<1> QED
  BY <1>1, <1>3

\* write(2) takes some of what it is given, and all of it if that is no more
\* than PIPE_BUF.
LEMMA MayTakeIs ==
    ASSUME TypeOK, NEW n \in Nat \ {0}, NEW m \in MayTake(n)
    PROVE  /\ m \in 1 .. n
           /\ m <= Free
           /\ n <= atomic => m = n
<1>1. Free \in Nat
  BY SizeAssumption DEF TypeOK, Free
<1> QED
  BY <1>1, SizeAssumption DEF MayTake, TypeOK

LEMMA SentIs ==
    ASSUME TypeOK
    PROVE  Sent \in Seq(1 .. size) /\ Len(Sent) = Len(got) + Len(pipe)
BY ConcatProperties DEF TypeOK, Sent

\* Data that follow what was sent go into the pipe.
LEMMA SendKeeps ==
    ASSUME TypeOK, OrderInv, NEW s \in Seq(1 .. size), Len(s) <= Free,
           \A i \in 1 .. Len(s) : s[i] = Len(Sent) + i,
           pipe' = pipe \o s, got' = got
    PROVE  /\ pipe' \in Seq(1 .. size) /\ Len(pipe') <= PipeCap
           /\ Len(Sent)' = Len(Sent) + Len(s)
           /\ \A i \in 1 .. Len(Sent)' : Sent'[i] = i
<1>1. Sent' = Sent \o s
  <2>1. got \in Seq(1 .. size) /\ pipe \in Seq(1 .. size)
    BY DEF TypeOK
  <2>2. (got \o pipe) \o s = got \o (pipe \o s)
    BY <2>1, ConcatAssociative
  <2> QED
    BY <2>2 DEF Sent
<1>2. /\ pipe' \in Seq(1 .. size)
      /\ Len(pipe') = Len(pipe) + Len(s)
  BY ConcatProperties DEF TypeOK
<1>3. Len(pipe') <= PipeCap
  BY <1>2, SizeAssumption DEF TypeOK, Free
<1> DEFINE t == Sent
<1>4. t \in Seq(1 .. size) /\ \A i \in 1 .. Len(t) : t[i] = i
  BY SentIs DEF OrderInv
<1>5. \A i \in 1 .. Len(s) : s[i] = Len(t) + i
  OBVIOUS
<1>6. Sent' = t \o s
  BY <1>1
<1> HIDE DEF t
<1>7. /\ Len(t \o s) = Len(t) + Len(s)
      /\ \A i \in 1 .. Len(t) + Len(s) :
           (t \o s)[i] = IF i <= Len(t) THEN t[i] ELSE s[i - Len(t)]
  BY <1>4, ConcatProperties
<1>8. \A i \in 1 .. Len(t \o s) : (t \o s)[i] = i
  BY <1>4, <1>5, <1>7
<1> QED
  BY <1>2, <1>3, <1>6, <1>7, <1>8 DEF t

\* What the BufferedWriter sends comes off the front of what it holds.
LEMMA DrainKeeps ==
    ASSUME IInv, Drain, pc # "closed",
           UNCHANGED <<given, start, pc, got, reading, expired, write_ok>>
    PROVE  IInv'
<1> USE DEF given
<1>1. PICK m \in MayTake(Len(buffer)) :
         /\ pipe' = pipe \o SubSeq(buffer, 1, m)
         /\ buffer' = SubSeq(buffer, m + 1, Len(buffer))
  BY DEF Drain
<1> DEFINE n == Len(buffer)
           s == SubSeq(buffer, 1, m)
<1>2. n \in Nat \ {0} /\ n <= BufSize /\ buffer \in Seq(1 .. size)
  BY EmptySeq DEF IInv, TypeOK, Drain
<1>3. m \in 1 .. n /\ m <= Free
  BY <1>2, MayTakeIs DEF IInv
<1>4. /\ s \in Seq(1 .. size) /\ Len(s) = m
      /\ \A i \in 1 .. m : s[i] = buffer[i]
  <2>1. \A i \in 1 .. n : buffer[i] \in 1 .. size
    BY <1>2, ElementOfSeq
  <2>2. \A i \in 1 .. m : buffer[i] \in 1 .. size
    BY <1>2, <1>3, <2>1
  <2> QED
    BY <1>2, <1>3, <2>2, SubSeqProperties
<1>5. /\ buffer' \in Seq(1 .. size) /\ Len(buffer') = n - m
      /\ \A i \in 1 .. n - m : buffer'[i] = buffer[m + i]
  <2>1. \A i \in 1 .. n : buffer[i] \in 1 .. size
    BY <1>2, ElementOfSeq
  <2>2. \A i \in m + 1 .. n : buffer[i] \in 1 .. size
    BY <1>2, <1>3, <2>1
  <2> QED
    BY <1>1, <1>2, <1>3, <2>2, SubSeqProperties
<1>6. \A i \in 1 .. n : buffer[i] = Len(Sent) + i
  BY DEF IInv, OrderInv
<1>7. /\ pipe' \in Seq(1 .. size) /\ Len(pipe') <= PipeCap
      /\ Len(Sent)' = Len(Sent) + m
      /\ \A i \in 1 .. Len(Sent)' : Sent'[i] = i
  <2>1. \A i \in 1 .. Len(s) : s[i] = Len(Sent) + i
    BY <1>3, <1>4, <1>6
  <2> QED
    BY <1>1, <1>3, <1>4, <2>1, SendKeeps DEF IInv
<1>8. Len(Sent) \in Nat
  BY SentIs DEF IInv
<1> HIDE DEF n, s
<1>9. TypeOK'
  BY <1>2, <1>3, <1>5, <1>7, SizeAssumption DEF IInv, TypeOK
<1>10. OrderInv'
  <2>1. \A i \in 1 .. Len(buffer') : buffer'[i] = Len(Sent)' + i
    BY <1>2, <1>3, <1>5, <1>6, <1>7, <1>8
  <2> QED
    BY <1>7, <2>1 DEF OrderInv
<1>11. CountInv'
  BY <1>2, <1>3, <1>5, <1>7, <1>8, SizeAssumption
  DEF n, IInv, CountInv, TypeOK
<1>12. ModeInv'
  BY DEF IInv, ModeInv, Drain
<1>13. AnswerInv'
  BY DEF IInv, AnswerInv
<1> QED
  BY <1>9, <1>10, <1>11, <1>12, <1>13 DEF IInv

\* The BufferedWriter holds back the next k of the data.
LEMMA HoldKeeps ==
    ASSUME IInv, mode = "buffered", pc \notin {"close", "closed"},
           NEW k \in Nat, k <= Left, Len(buffer) + k <= BufSize,
           buffer' = buffer \o Data(start, start + k), start' = start + k,
           pc' = "write" \/ (pc' = "blocked" /\ start' < size),
           UNCHANGED <<given, pipe, got, reading, expired, write_ok>>
    PROVE  IInv'
<1> USE DEF given
<1> DEFINE d == Data(start, start + k)
<1>1. /\ start \in Nat /\ size \in Nat /\ start + k <= size
      /\ buffer \in Seq(1 .. size) /\ Len(Sent) \in Nat
      /\ start = Len(Sent) + Len(buffer)
  BY SentIs, SizeAssumption DEF IInv, TypeOK, CountInv, Left
<1>2. /\ d \in Seq(1 .. size) /\ Len(d) = k
      /\ \A i \in 1 .. k : d[i] = start + i
  BY <1>1, DataAre
<1> HIDE DEF d
<1>3. /\ buffer \o d \in Seq(1 .. size)
      /\ Len(buffer \o d) = Len(buffer) + k
      /\ \A i \in 1 .. Len(buffer) + k : (buffer \o d)[i] =
           IF i <= Len(buffer) THEN buffer[i] ELSE d[i - Len(buffer)]
  BY <1>1, <1>2, ConcatProperties
<1>4. Sent' = Sent
  BY DEF Sent
<1>5. \A i \in 1 .. Len(buffer) : buffer[i] = Len(Sent) + i
  BY DEF IInv, OrderInv
<1>6. \A i \in 1 .. Len(buffer) + k : (buffer \o d)[i] = Len(Sent) + i
  BY <1>1, <1>2, <1>3, <1>5
<1>7. \A i \in 1 .. Len(Sent) : Sent[i] = i
  BY DEF IInv, OrderInv
<1>8. buffer' = buffer \o d
  BY DEF d
<1>9. /\ Len(buffer') = Len(buffer) + k /\ Len(Sent)' = Len(Sent)
      /\ Len(buffer) \in Nat /\ size' = size
  <2>1. Len(buffer') = Len(buffer) + k
    BY <1>3, <1>8
  <2>2. Len(Sent)' = Len(Sent)
    BY <1>4
  <2> QED
    BY <1>1, <2>1, <2>2
<1>10. /\ \A i \in 1 .. Len(Sent)' : Sent'[i] = i
       /\ \A i \in 1 .. Len(buffer') : buffer'[i] = Len(Sent)' + i
  BY <1>4, <1>6, <1>7, <1>8, <1>9
<1>11. buffer' \in Seq(1 .. size)
  BY <1>3, <1>8
<1>12. /\ Len(buffer') <= BufSize /\ start' \in 0 .. size
       /\ start' = Len(Sent)' + Len(buffer')
  <2>1. start' = start + k /\ Len(buffer) + k <= BufSize
    OBVIOUS
  <2>2. Len(buffer') <= BufSize
    BY <1>9, <2>1
  <2>3. start' \in 0 .. size
    BY <1>1, <2>1
  <2>4. start' = Len(Sent)' + Len(buffer')
    <3>1. start + k = Len(Sent) + (Len(buffer) + k)
      BY <1>1, <1>9
    <3> QED
      BY <1>9, <2>1, <3>1
  <2> QED
    BY <2>2, <2>3, <2>4
<1>13. Len(Sent)' <= start' /\ start' - Len(Sent)' <= BufSize
  BY <1>1, <1>9, <1>12, SizeAssumption
<1>14. TypeOK'
  BY <1>11, <1>12 DEF IInv, TypeOK
<1>15. OrderInv' /\ CountInv'
  BY <1>10, <1>12, <1>13 DEF OrderInv, CountInv
<1>16. ModeInv' /\ AnswerInv'
  BY DEF IInv, ModeInv, AnswerInv
<1> QED
  BY <1>14, <1>15, <1>16 DEF IInv

\* With nothing held back, write(2) is called for all that is left.
LEMMA RawWriteKeeps ==
    ASSUME IInv, Left > 0, RawWrite(Left), buffer = << >>, pc # "closed",
           UNCHANGED <<given, buffer, got>>
    PROVE  /\ pipe' \in Seq(1 .. size) /\ Len(pipe') <= PipeCap
           /\ start' \in 1 .. size
           /\ \A i \in 1 .. Len(Sent)' : Sent'[i] = i
           /\ start' = Len(Sent)'
           /\ Left <= atomic => start' = size
<1> USE DEF given
<1>1. PICK m \in MayTake(Left) : /\ pipe' = pipe \o Data(start, start + m)
                                 /\ start' = start + m
  BY DEF RawWrite
<1>2. /\ start \in Nat /\ size \in Nat /\ start <= size
      /\ Left \in Nat \ {0} /\ Left = size - start
  BY SizeAssumption DEF IInv, TypeOK, Left
<1>3. m \in 1 .. Left /\ m <= Free /\ (Left <= atomic => m = Left)
  BY <1>2, MayTakeIs DEF IInv
<1> DEFINE d == Data(start, start + m)
<1>4. /\ d \in Seq(1 .. size) /\ Len(d) = m
      /\ \A i \in 1 .. m : d[i] = start + i
  <2>1. m \in Nat /\ start + m <= size
    BY <1>2, <1>3
  <2> QED
    BY <1>2, <2>1, DataAre
<1>5. start = Len(Sent)
  BY SentIs, EmptySeq DEF IInv, CountInv
<1> HIDE DEF d
<1>6. /\ pipe' \in Seq(1 .. size) /\ Len(pipe') <= PipeCap
      /\ Len(Sent)' = Len(Sent) + m
      /\ \A i \in 1 .. Len(Sent)' : Sent'[i] = i
  <2>1. pipe' = pipe \o d
    BY <1>1 DEF d
  <2> QED
    BY <1>3, <1>4, <1>5, <2>1, SendKeeps DEF IInv
<1> QED
  BY <1>1, <1>2, <1>3, <1>5, <1>6

\* Reading moves the data from the pipe to the child.
LEMMA ReadKeeps ==
    ASSUME TypeOK, Read
    PROVE  /\ Sent' = Sent
           /\ got' \in Seq(1 .. size)
           /\ pipe' \in Seq(1 .. size) /\ Len(pipe') <= PipeCap
<1>1. PICK k \in 1 .. Len(pipe) :
         /\ got' = got \o SubSeq(pipe, 1, k)
         /\ pipe' = SubSeq(pipe, k + 1, Len(pipe))
  BY DEF Read
<1> DEFINE a == SubSeq(pipe, 1, k)
           b == SubSeq(pipe, k + 1, Len(pipe))
<1>2. pipe \in Seq(1 .. size) /\ got \in Seq(1 .. size)
  BY DEF TypeOK
<1>3. a \o b = pipe
  <2>1. /\ 1 \in 1 .. Len(pipe) + 1 /\ k \in 1 - 1 .. Len(pipe)
        /\ Len(pipe) \in k .. Len(pipe)
    BY <1>2
  <2>2. a \o b = SubSeq(pipe, 1, Len(pipe))
    BY <1>2, <2>1, ConcatAdjacentSubSeq
  <2> QED
    BY <1>2, <2>2, SubSeqFull
<1>4. /\ a \in Seq(1 .. size)
      /\ b \in Seq(1 .. size) /\ Len(b) <= Len(pipe)
  <2>0. \A i \in 1 .. Len(pipe) : pipe[i] \in 1 .. size
    BY <1>2, ElementOfSeq
  <2>1. /\ \A i \in 1 .. k : pipe[i] \in 1 .. size
        /\ \A i \in k + 1 .. Len(pipe) : pipe[i] \in 1 .. size
    BY <1>2, <2>0
  <2>2. a \in Seq(1 .. size)
    BY <1>2, <2>1, SubSeqProperties
  <2>3. /\ b \in Seq(1 .. size)
        /\ Len(b) = IF k + 1 <= Len(pipe) THEN Len(pipe) - (k + 1) + 1 ELSE 0
    BY <1>2, <2>1, SubSeqProperties
  <2> QED
    BY <1>2, <2>2, <2>3
<1>5. got' = got \o a /\ pipe' = b
  BY <1>1
<1> HIDE DEF a, b
<1>6. Sent' = Sent
  <2>1. got \in Seq(1 .. size) /\ a \in Seq(1 .. size) /\ b \in Seq(1 .. size)
    BY <1>2, <1>4
  <2>2. (got \o a) \o b = got \o (a \o b)
    BY <2>1, ConcatAssociative
  <2> QED
    BY <1>3, <1>5, <2>2 DEF Sent
<1>7. got' \in Seq(1 .. size)
  BY <1>2, <1>4, <1>5, ConcatProperties
<1> QED
  BY <1>2, <1>4, <1>5, <1>6, <1>7, SizeAssumption DEF TypeOK

-----------------------------------------------------------------------------
(* The invariant.                                                          *)

LEMMA InvInit == Init => IInv
<1> SUFFICES ASSUME Init PROVE IInv
  OBVIOUS
<1>1. size \in Nat /\ << >> \in Seq(1 .. size) /\ Len(<< >>) = 0
  BY SizeAssumption DEF Init
<1>2. Sent = << >>
  BY <1>1, ConcatEmptySeq DEF Init, Sent
<1>3. TypeOK
  <2>1. buffer = << >> /\ pipe = << >> /\ got = << >> /\ start \in 0 .. size
    BY <1>1 DEF Init
  <2>2. /\ buffer \in Seq(1 .. size) /\ Len(buffer) <= BufSize
        /\ pipe \in Seq(1 .. size) /\ Len(pipe) <= PipeCap
        /\ got \in Seq(1 .. size)
    BY <1>1, <2>1, SizeAssumption
  <2> QED
    BY <2>1, <2>2 DEF Init, TypeOK
<1> QED
  BY <1>1, <1>2, <1>3, SizeAssumption
  DEF Init, IInv, OrderInv, CountInv, ModeInv, AnswerInv

\* One step per action; those that move data cite the lemma about it.
LEMMA InvNext == IInv /\ [Next]_vars => IInv'
<1> SUFFICES ASSUME IInv, [Next]_vars PROVE IInv'
  OBVIOUS
<1> USE DEF given
<1>1. /\ TypeOK /\ OrderInv /\ CountInv /\ ModeInv /\ AnswerInv
      /\ start \in Nat /\ size \in Nat /\ start <= size
      /\ Len(Sent) \in Nat /\ Len(buffer) \in Nat
      /\ BufSize \in Nat \ {0}
  BY SentIs, SizeAssumption DEF IInv, TypeOK
<1>2. ASSUME UNCHANGED <<given, start, buffer, pipe, got>>
      PROVE  /\ Sent' = Sent
             /\ pc' \in {"write", "flush", "direct", "blocked", "close",
                         "closed"}
                /\ reading' \in BOOLEAN /\ expired' \in BOOLEAN
                /\ write_ok' \in {"none", "True", "False", "cancelled"}
                => TypeOK'
  BY <1>1, <1>2 DEF Sent, TypeOK
<1>3. ASSUME NEW result \in {"True", "False", "cancelled"}, Finish(result),
             UNCHANGED <<given, start, buffer, pipe, got, reading, expired>>,
             pc \notin {"close", "closed"},
             result = "True" => start = size,
             result = "False" => start < size
      PROVE  IInv'
  BY <1>1, <1>2, <1>3
  DEF Finish, IInv, TypeOK, OrderInv, CountInv, ModeInv, AnswerInv
<1>4. CASE AllWritten
  BY <1>3, <1>4 DEF AllWritten
\* BufferedWriter.write.
<1>5. CASE Absorb
  <2>1. /\ Left \in Nat /\ Left = size - start /\ start + Left = size
        /\ Left <= Left /\ Len(buffer) + Left <= BufSize
        /\ pc = "write" /\ mode = "buffered"
    BY <1>1, <1>5 DEF Absorb, Buffered, Left, Room
  <2>2. /\ buffer' = buffer \o Data(start, start + Left)
        /\ start' = start + Left
    BY <1>5, <2>1 DEF Absorb
  <2> QED
    BY <1>5, <2>1, <2>2, HoldKeeps DEF Absorb
<1>6. CASE FlushBegins
  <2>1. start < size
    BY <1>1, <1>6 DEF FlushBegins, Buffered, Left
  <2> QED
    BY <1>1, <1>2, <1>6, <2>1
    DEF FlushBegins, Buffered, IInv, TypeOK, OrderInv, CountInv, ModeInv,
        AnswerInv
<1>7. CASE Flush
  BY <1>7, DrainKeeps DEF Flush
<1>8. CASE FlushEnds
  BY <1>1, <1>2, <1>8
  DEF FlushEnds, IInv, TypeOK, OrderInv, CountInv, ModeInv, AnswerInv
<1>9. CASE FlushBlocks
  <2>1. /\ Left \in Nat /\ Left = size - start
        /\ Room \in Nat /\ Room = BufSize - Len(buffer)
        /\ pc = "flush" /\ mode = "buffered"
    BY <1>1, <1>9 DEF FlushBlocks, Left, Room, TypeOK, ModeInv
  <2>2. /\ Taken \in Nat /\ Taken <= Left /\ Len(buffer) + Taken <= BufSize
        /\ Left > Room => start + Taken < size
    BY <1>1, <2>1 DEF Taken
  <2>3. pc' = "write" \/ (pc' = "blocked" /\ start' < size)
    BY <1>9, <2>1, <2>2 DEF FlushBlocks
  <2> QED
    BY <1>9, <2>1, <2>2, <2>3, HoldKeeps DEF FlushBlocks
<1>10. CASE Direct
  <2>1. /\ pc = "direct" /\ Left > 0 /\ buffer = << >>
        /\ mode = "buffered"
    BY <1>1, <1>10 DEF Direct, ModeInv, Left
  <2>2. /\ pipe' \in Seq(1 .. size) /\ Len(pipe') <= PipeCap
        /\ start' \in 1 .. size
        /\ \A i \in 1 .. Len(Sent)' : Sent'[i] = i
        /\ start' = Len(Sent)'
    BY <1>10, <2>1, RawWriteKeeps DEF Direct
  <2>3. buffer' = << >> /\ Len(buffer') = 0
    BY <1>10, <2>1 DEF Direct
  <2> QED
    BY <1>1, <1>10, <2>1, <2>2, <2>3
    DEF Direct, IInv, TypeOK, OrderInv, CountInv, ModeInv, AnswerInv
<1>11. CASE DirectBlocks
  <2>1. /\ pc = "direct" /\ buffer = << >> /\ Len(buffer) = 0
        /\ mode = "buffered" /\ BufSize <= Left
        /\ start + BufSize < size
    BY <1>1, <1>11 DEF DirectBlocks, ModeInv, Left
  <2>2. buffer' = buffer \o Data(start, start + BufSize)
    <3>0. BufSize \in Nat /\ start + BufSize <= size
      BY <1>1, <2>1
    <3>1. Data(start, start + BufSize) \in Seq(1 .. size)
      BY <1>1, <3>0, DataAre
    <3> QED
      BY <1>11, <2>1, <3>1, ConcatEmptySeq DEF DirectBlocks
  <2>3. BufSize \in Nat /\ Len(buffer) + BufSize <= BufSize
    BY <1>1, <2>1
  <2>4. pc' = "blocked" /\ start' < size
    BY <1>11, <2>1 DEF DirectBlocks
  <2> QED
    BY <1>11, <2>1, <2>2, <2>3, <2>4, HoldKeeps DEF DirectBlocks
<1>12. CASE DirectEnds
  <2>1. /\ pc = "direct" /\ buffer = << >> /\ Len(buffer) = 0
        /\ mode = "buffered" /\ Left \in Nat /\ Left <= BufSize
        /\ start + Left = size
    BY <1>1, <1>12 DEF DirectEnds, ModeInv, Left
  <2>2. /\ buffer' = buffer \o Data(start, start + Left)
        /\ start' = start + Left
    <3>0. start + Left <= size
      BY <1>1, <2>1
    <3>1. Data(start, start + Left) \in Seq(1 .. size)
      BY <1>1, <2>1, <3>0, DataAre
    <3> QED
      BY <1>12, <2>1, <3>1, ConcatEmptySeq DEF DirectEnds
  <2>3. Left <= Left /\ Len(buffer) + Left <= BufSize
    BY <2>1
  <2> QED
    BY <1>12, <2>1, <2>2, <2>3, HoldKeeps DEF DirectEnds
\* FileIO.write.
<1>13. CASE RawTurn
  <2>1. /\ pc = "write" /\ Left > 0 /\ mode # "buffered"
        /\ buffer = << >> /\ buffer' = << >> /\ Len(buffer') = 0
        /\ start < size
    BY <1>1, <1>13 DEF RawTurn, ModeInv, Left
  <2>2. /\ pipe' \in Seq(1 .. size) /\ Len(pipe') <= PipeCap
        /\ start' \in 1 .. size
        /\ \A i \in 1 .. Len(Sent)' : Sent'[i] = i
        /\ start' = Len(Sent)'
        /\ Left <= atomic => start' = size
    BY <1>13, <2>1, RawWriteKeeps DEF RawTurn
  <2>3. size <= atomic => start' = size
    BY <1>1, <2>1, <2>2 DEF AnswerInv, Left
  <2>4. pc' = "write" \/ (pc' = "blocked" /\ start' < size)
    BY <1>1, <1>13, <2>2 DEF RawTurn
  <2> QED
    BY <1>1, <1>13, <2>1, <2>2, <2>3, <2>4
    DEF RawTurn, IInv, TypeOK, OrderInv, CountInv, ModeInv, AnswerInv
<1>14. CASE RawBlocks
  <2>1. start < size
    BY <1>1, <1>14 DEF RawBlocks, Left
  <2> QED
    BY <1>1, <1>2, <1>14, <2>1
    DEF RawBlocks, IInv, TypeOK, OrderInv, CountInv, ModeInv, AnswerInv
\* Between two calls of write.
<1>15. CASE Breaks
  <2>1. start < size /\ pc \notin {"close", "closed"}
    BY <1>1, <1>15 DEF Breaks, Left, ModeInv
  <2> QED
    BY <1>3, <1>15, <2>1 DEF Breaks
<1>16. CASE Retry
  BY <1>1, <1>2, <1>16
  DEF Retry, IInv, TypeOK, OrderInv, CountInv, ModeInv, AnswerInv
<1>17. CASE GiveUp
  BY <1>1, <1>3, <1>17 DEF GiveUp, ModeInv
<1>18. CASE Cancelled
  BY <1>3, <1>18 DEF Cancelled
<1>19. CASE CloseFlushes
  BY <1>19, DrainKeeps DEF CloseFlushes
<1>20. CASE Close
  <2>1. /\ pc = "close" /\ pc' = "closed" /\ buffer' = << >>
        /\ << >> \in Seq(1 .. size) /\ Len(<< >>) = 0
        /\ mode = "buffered"
    BY <1>1, <1>20 DEF Close, ModeInv
  <2>2. Sent' = Sent
    BY <1>20 DEF Close, Sent
  <2> QED
    BY <1>1, <1>20, <2>1, <2>2
    DEF Close, IInv, TypeOK, OrderInv, CountInv, ModeInv, AnswerInv
\* The child and the clock.
<1>21. CASE Read
  <2>1. /\ Sent' = Sent
        /\ got' \in Seq(1 .. size)
        /\ pipe' \in Seq(1 .. size) /\ Len(pipe') <= PipeCap
    BY <1>1, <1>21, ReadKeeps
  <2> QED
    BY <1>1, <1>21, <2>1
    DEF Read, IInv, TypeOK, OrderInv, CountInv, ModeInv, AnswerInv
<1>22. CASE StopReading \/ Expire \/ UNCHANGED vars
  BY <1>1, <1>2, <1>22
  DEF StopReading, Expire, vars, IInv, TypeOK, OrderInv, CountInv, ModeInv,
      AnswerInv
<1> QED
  BY <1>4, <1>5, <1>6, <1>7, <1>8, <1>9, <1>10, <1>11, <1>12, <1>13, <1>14,
     <1>15, <1>16, <1>17, <1>18, <1>19, <1>20, <1>21, <1>22
  DEF Next, Writer, Terminating

LEMMA Invariant == Spec => []IInv
<1> QED
  BY InvInit, InvNext, PTL DEF Spec

-----------------------------------------------------------------------------
(* The theorems.                                                           *)

\* The writer, the pipe and the buffer keep to their values: the buffer never
\* holds more than its size, nor the pipe more than fits.
THEOREM TypeCorrect == Spec => []TypeOK
<1>1. IInv => TypeOK
  BY DEF IInv
<1> QED
  BY <1>1, Invariant, PTL

\* The child is sent the data in order, each once, up to some point.
THEOREM PrefixIsSent == Spec => []SentIsPrefix
<1>1. IInv => SentIsPrefix
  <2> SUFFICES ASSUME IInv PROVE Sent = Data(0, Len(Sent))
    BY DEF SentIsPrefix
  <2> DEFINE s == Sent
             n == Len(Sent)
  <2>1. /\ s \in Seq(1 .. size) /\ Len(s) = n
        /\ n \in Nat /\ 0 \in Nat /\ 0 + n <= n
    BY SentIs DEF IInv, TypeOK
  <2>2. /\ Data(0, 0 + n) \in Seq(1 .. n) /\ Len(Data(0, 0 + n)) = n
        /\ \A i \in 1 .. n : Data(0, 0 + n)[i] = 0 + i
    BY <2>1, DataAre
  <2>3. \A i \in 1 .. n : s[i] = i
    BY DEF IInv, OrderInv
  <2>4. 0 + n = n
    BY <2>1
  <2> HIDE DEF s, n
  <2>5. s = Data(0, n)
    BY <2>1, <2>2, <2>3, <2>4, SeqEqual
  <2> QED
    BY <2>5 DEF s, n
<1> QED
  BY <1>1, Invariant, PTL

\* The count that a retry starts from is what was sent and what is held back:
\* characters_written, which BlockingIOError carries, is added up rightly.
THEOREM CountIsRight == Spec => []CountIsExact
<1>1. IInv => CountIsExact
  BY DEF IInv, CountInv, CountIsExact
<1> QED
  BY <1>1, Invariant, PTL

\* The True of the two Interactives means delivered.
THEOREM TrueIsSent == Spec => []RawTrueMeansSent
<1>1. IInv => RawTrueMeansSent
  BY SentIs, EmptySeq
  DEF IInv, TypeOK, CountInv, ModeInv, AnswerInv, RawTrueMeansSent
<1> QED
  BY <1>1, Invariant, PTL

\* False is said of no payload that reached the pipe as a whole, nor by an
\* Interactive of one of PIPE_BUF or less that reached it in part.
THEOREM FalseIsShort == Spec => []FalseMeansShort
<1>1. IInv => FalseMeansShort
  <2> SUFFICES ASSUME IInv, write_ok = "False"
               PROVE  /\ Len(Sent) < size
                      /\ mode # "buffered" /\ size <= atomic => Sent = << >>
    BY DEF FalseMeansShort
  <2>1. /\ start < size /\ Len(Sent) <= start
        /\ Len(Sent) \in Nat /\ start \in Nat /\ size \in Nat
        /\ Sent \in Seq(1 .. size)
    BY SentIs, SizeAssumption DEF IInv, TypeOK, CountInv, AnswerInv
  <2>2. mode # "buffered" /\ size <= atomic => Len(Sent) = 0
    BY <2>1 DEF IInv, AnswerInv
  <2> QED
    BY <2>1, <2>2, EmptySeq
<1> QED
  BY <1>1, Invariant, PTL

\* A complete write of run loses at its close no more than the buffer holds.
THEOREM LossHasABound == Spec => []LossIsBounded
<1>1. IInv => LossIsBounded
  BY DEF IInv, CountInv, AnswerInv, LossIsBounded
<1> QED
  BY <1>1, Invariant, PTL
=============================================================================
