-------------------------- MODULE LineReaderProofs --------------------------
(***************************************************************************)
(* The safety properties of the three ways to read lines, for every        *)
(* output, every size of read and every cap.                               *)
(***************************************************************************)
EXTENDS LineReader, PipeReaderProofs, SequenceTheorems,
        WellFoundedInduction, TLAPS

\* The first newline there is, is one, and there is none before it.
LEMMA MinIs ==
    ASSUME NEW T \in SUBSET Nat, T # {}
    PROVE  Min(T) \in T /\ \A n \in T : Min(T) <= n
<1> DEFINE Less == {ss \in Nat \X Nat : ss[1] < ss[2]}
<1>1. IsWellFoundedOn(Less, Nat)
  BY NatLessThanWellFounded, Zenon DEF OpToRel
<1>2. PICK m \in T : \A n \in T : ~(<<n, m>> \in Less)
  <2> HIDE DEF Less
  <2> QED
    BY <1>1, WFMin
<1>3. ASSUME NEW n \in T PROVE m <= n
  <2>1. n \in Nat /\ m \in Nat
    OBVIOUS
  <2>2. ~(n < m)
    <3> SUFFICES ASSUME n < m PROVE <<n, m>> \in Less
      BY <1>2
    <3>1. <<n, m>> \in Nat \X Nat /\ <<n, m>>[1] = n /\ <<n, m>>[2] = m
      BY <2>1
    <3> QED
      BY <3>1
  <2> QED
    BY <2>1, <2>2
<1> QED
  BY <1>3 DEF Min

-----------------------------------------------------------------------------
(* The invariant.                                                          *)

Line == [from : 0 .. MaxOut, to : 1 .. MaxOut + 1]

\* Where the last line that was returned ended.
LastEnd == Before(Len(lines) + 1)

NoNewline(a, b) == \A n \in newlines : ~(a < n /\ n <= b)

\* What the properties say of one line.
LineOk(i) ==
    /\ Before(i) <= lines[i].from /\ lines[i].from < lines[i].to
    /\ NoNewline(Before(i), lines[i].to - 1)
    /\ \/ lines[i].to \in newlines
       \/ /\ mode = "podman" /\ Out \in shut
          /\ i = Len(lines) /\ lines[i].to = written[Out] + 1
    /\ lines[i].from = Before(i) \/ LineLen(i) >= cap
    /\ LineBounded(i)

LinesOk == \A i \in 1 .. Len(lines) : LineOk(i)

\* Once a stream has made a line of what was left, or the async Interactive
\* has forgotten it, there is nothing left to read.
Exhausted ==
    /\ Out \in shut
    /\ handed[Out] = written[Out]
    /\ call.got = 0
    /\ dropped = Saved
    /\ LastEnd <= dropped \/ (mode = "podman" /\ LastEnd = written[Out] + 1)

\* What a stream has saved is below the cap, or was received with the newline
\* of the last line, which left less than a read of it.
StreamSaved ==
    \/ SavedLen <= cap
    \/ Len(lines) > 0 /\ LastEnd = dropped /\ SavedLen < ReadSize

\* What was deleted since the last line was returned had no newline in it, and
\* nothing was deleted but to keep the cap.
SavedInv ==
    /\ NoNewline(LastEnd, dropped)
    /\ SavedLen <= MostSaved
    /\ mode = "podman" => StreamSaved
    /\ pc \in {"loop", "read"} => NoNewline(dropped, Saved)
    /\ pc # "read" => call = Idle
    /\ \/ LastEnd = dropped
       \/ LastEnd <= dropped /\ NoNewline(dropped, Saved) /\ SavedLen >= cap
       \/ Exhausted

IInv ==
    /\ PipeInv
    /\ TypeOK
    /\ LinesOk
    /\ SavedInv

\* The numbers in play are naturals.
LEMMA Numbers ==
    ASSUME PipeInv, TypeOK
    PROVE  /\ cap \in Nat /\ MostSaved \in Nat /\ cap <= MostSaved
           /\ ReadSize \in Nat \ {0} /\ ReadSize - 1 <= MostSaved
           /\ MaxOut \in Nat
           /\ handed[Out] \in 0 .. MaxOut /\ taken[Out] \in 0 .. MaxOut
           /\ written[Out] \in 0 .. MaxOut
           /\ handed[Out] <= taken[Out] /\ taken[Out] <= written[Out]
           /\ call.got \in 0 .. ReadSize
           /\ Saved = handed[Out] - call.got
           /\ dropped \in 0 .. Saved /\ Saved \in 0 .. MaxOut
           /\ newlines \subseteq 1 .. MaxOut
           /\ Len(lines) \in Nat
           /\ LastEnd \in 0 .. MaxOut + 1
<1> USE PipeAssumption, CapsAssumption, OutAssumption DEF Out
<1>1. /\ cap \in Nat /\ MostSaved \in Nat /\ cap <= MostSaved
      /\ ReadSize \in Nat \ {0} /\ ReadSize - 1 <= MostSaved
      /\ MaxOut \in Nat
  BY DEF TypeOK, MostSaved
<1>2. /\ handed[Out] \in 0 .. MaxOut /\ taken[Out] \in 0 .. MaxOut
      /\ written[Out] \in 0 .. MaxOut
      /\ handed[Out] <= taken[Out] /\ taken[Out] <= written[Out]
      /\ call.got \in 0 .. ReadSize
  BY DEF TypeOK, PipeTypeOK
<1>3. Saved = handed[Out] - call.got
  BY DEF Saved
<1>4. dropped \in 0 .. Saved /\ newlines \subseteq 1 .. MaxOut
  BY DEF TypeOK
<1>5. Saved \in 0 .. MaxOut
  BY <1>2, <1>3, <1>4
<1>6. lines \in Seq(Line) /\ Len(lines) \in Nat
  BY LenProperties DEF TypeOK, Line
<1>7. LastEnd \in 0 .. MaxOut + 1
  <2>1. CASE Len(lines) = 0
    BY <1>1, <2>1 DEF LastEnd, Before
  <2>2. CASE Len(lines) # 0
    <3>1. Len(lines) \in 1 .. Len(lines)
      BY <1>6, <2>2
    <3>2. lines[Len(lines)] \in Line
      BY <1>6, <3>1, ElementOfSeq
    <3>3. LastEnd = lines[Len(lines)].to
      BY <1>6, <2>2 DEF LastEnd, Before
    <3> QED
      BY <1>1, <3>2, <3>3 DEF Line
  <2> QED
    BY <2>1, <2>2
<1> QED
  BY <1>1, <1>2, <1>3, <1>4, <1>5, <1>6, <1>7

\* While no line is returned, those that were are as they were.
LEMMA LinesStay ==
    ASSUME PipeInv, TypeOK, LinesOk,
           UNCHANGED <<lines, given>>, shut \subseteq shut',
           Out \in shut => written'[Out] = written[Out]
    PROVE  LinesOk' /\ LastEnd' = LastEnd
<1>1. LastEnd' = LastEnd
  BY DEF LastEnd, Before
<1>2. ASSUME NEW i \in 1 .. Len(lines) PROVE LineOk(i)'
  <2>1. LineOk(i)
    BY DEF LinesOk
  <2> QED
    BY <2>1 DEF LineOk, LineBounded, Before, NoNewline, LineLen, MostSaved,
               given
<1>3. LinesOk'
  BY <1>2 DEF LinesOk
<1> QED
  BY <1>1, <1>3

\* What is known of the length of a line that ends at n and begins after a.
LengthOk(a, n) ==
    IF mode = "podman"
    THEN \/ n - 1 - a <= cap
         \/ a = LastEnd /\ n - 1 - a < ReadSize /\ Len(lines) > 0
    ELSE n - 1 - a <= MostSaved + ReadSize - 1

\* A line is returned.
LEMMA LineIsAdded ==
    ASSUME PipeInv, TypeOK, LinesOk, UNCHANGED <<given, written, shut>>,
           NEW a \in Nat, NEW n \in Nat,
           lines' = Append(lines, [from |-> a, to |-> n]),
           LastEnd <= a, a < n, n <= written[Out] + 1,
           NoNewline(LastEnd, n - 1),
           n \in newlines \/ /\ mode = "podman" /\ Out \in shut
                             /\ n = written[Out] + 1,
           a = LastEnd \/ n - 1 - a >= cap,
           LengthOk(a, n)
    PROVE  /\ LinesOk' /\ LastEnd' = n
           /\ lines' \in Seq(Line)
<1> DEFINE l == [from |-> a, to |-> n]
<1>a. PICK k \in Nat : k = Len(lines)
  BY Numbers
<1>0. /\ written[Out] \in 0 .. MaxOut /\ MaxOut \in Nat
      /\ LastEnd \in 0 .. MaxOut + 1
  BY Numbers
<1>1. l \in Line /\ lines \in Seq(Line)
  BY <1>0 DEF Line, TypeOK
<1> HIDE DEF l
<1>2. /\ lines' \in Seq(Line) /\ Len(lines') = k + 1
      /\ \A i \in 1 .. k : lines'[i] = lines[i]
      /\ lines'[k + 1] = l
  BY <1>1, <1>a, AppendProperties DEF l
<1>3. \A i \in 1 .. k + 1 : Before(i)' = Before(i)
  BY <1>0, <1>2 DEF Before
<1>4. LastEnd = Before(k + 1) /\ LastEnd' = n
  <2>1. LastEnd = Before(k + 1)
    BY <1>a DEF LastEnd
  <2>2. LastEnd' = lines'[k + 1].to
    BY <1>0, <1>2 DEF LastEnd, Before
  <2> QED
    BY <1>2, <2>1, <2>2 DEF l
<1>5. ASSUME NEW i \in 1 .. k PROVE LineOk(i)'
  <2>1. LineOk(i)
    BY <1>a DEF LinesOk
  <2>2. lines'[i] = lines[i] /\ Before(i)' = Before(i)
    BY <1>0, <1>2, <1>3
  <2>3. lines[i].to \in newlines
    <3>1. CASE i = k
      <4>1. lines[i].to = LastEnd
        <5>1. k + 1 # 1 /\ (k + 1) - 1 = k
          BY <1>0, <3>1
        <5> QED
          BY <1>4, <3>1, <5>1 DEF Before
      <4>2. lines[i].to # written[Out] + 1
        BY <1>0, <4>1
      <4> QED
        BY <2>1, <4>2 DEF LineOk
    <3>2. CASE i # k
      BY <1>a, <2>1, <3>2 DEF LineOk
    <3> QED
      BY <3>1, <3>2
  <2> QED
    BY <2>1, <2>2, <2>3
    DEF LineOk, LineBounded, NoNewline, LineLen, MostSaved, given
<1>6. LineOk(k + 1)'
  <2>1. PICK j \in Nat : j = k + 1
    OBVIOUS
  <2>2. /\ lines'[j] = l /\ j = Len(lines') /\ j \in 1 .. k + 1
        /\ Before(j) = LastEnd
    BY <1>2, <1>4, <2>1
  <2>3. Before(j)' = LastEnd
    BY <1>3, <2>2
  <2>4. lines'[j].from = a /\ lines'[j].to = n
    BY <2>2 DEF l
  <2>5. LineLen(j)' = n - 1 - a
    BY <2>4 DEF LineLen
  <2>6. LineBounded(j)'
    BY <1>a, <2>1, <2>3, <2>4, <2>5 DEF LengthOk, LineBounded, MostSaved, given
  <2>7. LineOk(j)'
    BY <2>2, <2>3, <2>4, <2>5, <2>6 DEF LineOk, NoNewline, given
  <2> QED
    BY <2>1, <2>7
<1>7. LinesOk'
  <2> SUFFICES ASSUME NEW i \in 1 .. Len(lines') PROVE LineOk(i)'
    BY DEF LinesOk
  <2>1. i \in 1 .. k \/ i = k + 1
    BY <1>0, <1>2
  <2> QED
    BY <1>5, <1>6, <2>1, Zenon
<1> QED
  BY <1>2, <1>4, <1>7

\* The first newline of those after a up to b.
LEMMA FirstIs ==
    ASSUME PipeInv, TypeOK, NEW a \in Nat, NEW b \in Nat,
           NewlinesIn(a, b) # {}
    PROVE  \E n \in newlines : /\ n = Min(NewlinesIn(a, b)) /\ n \in Nat
                               /\ a < n /\ n <= b
                               /\ NoNewline(a, n - 1)
<1>1. newlines \subseteq 1 .. MaxOut /\ MaxOut \in Nat
  BY Numbers
<1>2. NewlinesIn(a, b) \in SUBSET Nat
  <2>1. newlines \subseteq Nat
    BY <1>1
  <2>2. NewlinesIn(a, b) \subseteq newlines
    BY DEF NewlinesIn
  <2> QED
    BY <2>1, <2>2
<1> DEFINE n == Min(NewlinesIn(a, b))
<1>3. n \in NewlinesIn(a, b) /\ \A k \in NewlinesIn(a, b) : n <= k
  BY <1>2, MinIs
<1> HIDE DEF n
<1>4. n \in newlines /\ n \in Nat /\ a < n /\ n <= b
  BY <1>1, <1>3 DEF NewlinesIn
<1>5. NoNewline(a, n - 1)
  BY <1>1, <1>3, <1>4 DEF NewlinesIn, NoNewline
<1> QED
  BY <1>4, <1>5 DEF n

LEMMA NoneIs ==
    ASSUME NEW a, NEW b, NewlinesIn(a, b) = {}
    PROVE  NoNewline(a, b)
BY DEF NewlinesIn, NoNewline

LEMMA Added ==
    ASSUME TypeOK, NEW l, lines' = Append(lines, l)
    PROVE  Len(lines') > 0
BY DEF TypeOK

\* A line in the saved bytes is returned.
LEMMA CallPopsKeeps ==
    ASSUME IInv, CallPops PROVE IInv'
<1>1. /\ PipeInv /\ TypeOK /\ LinesOk /\ SavedInv
      /\ UNCHANGED <<pipeVars, given, expired, closed>>
      /\ PopLine(dropped, Min(NewlinesIn(dropped, Saved)))
      /\ pc = "idle"
  BY DEF IInv, CallPops
<1>2. /\ cap \in Nat /\ MostSaved \in Nat /\ cap <= MostSaved
      /\ ReadSize \in Nat \ {0} /\ MaxOut \in Nat
      /\ written[Out] \in 0 .. MaxOut /\ Saved <= written[Out]
      /\ dropped \in 0 .. Saved /\ Saved \in 0 .. MaxOut
      /\ newlines \subseteq 1 .. MaxOut
      /\ LastEnd \in 0 .. MaxOut + 1
  <2>1. Saved <= written[Out]
    <3>1. /\ handed[Out] \in Nat /\ taken[Out] \in Nat
          /\ written[Out] \in Nat /\ call.got \in Nat
          /\ handed[Out] <= taken[Out] /\ taken[Out] <= written[Out]
          /\ Saved = handed[Out] - call.got
      BY <1>1, Numbers
    <3> QED
      BY <3>1
  <2> QED
    BY <1>1, <2>1, Numbers
<1>3. dropped \in Nat /\ Saved \in Nat /\ NewlinesIn(dropped, Saved) # {}
  BY <1>2 DEF CallPops
<1>4. PICK n \in newlines : /\ n = Min(NewlinesIn(dropped, Saved)) /\ n \in Nat
                            /\ dropped < n /\ n <= Saved
                            /\ NoNewline(dropped, n - 1)
  BY <1>1, <1>3, FirstIs
<1>5. /\ lines' = Append(lines, [from |-> dropped, to |-> n])
      /\ dropped' = n /\ pc' = "idle"
  BY <1>1, <1>4 DEF PopLine
<1>6. LastEnd = dropped
  <2>1. ~NoNewline(dropped, Saved)
    BY <1>4 DEF NoNewline
  <2>2. ~Exhausted
    BY <1>2, <1>4 DEF Exhausted
  <2> QED
    BY <1>1, <2>1, <2>2 DEF SavedInv
<1>7. n - 1 - dropped <= MostSaved
  BY <1>1, <1>2, <1>4 DEF SavedInv, SavedLen
<1>8. LengthOk(dropped, n)
  <2>1. CASE mode = "podman"
    BY <1>1, <1>2, <1>4, <2>1 DEF SavedInv, StreamSaved, SavedLen, LengthOk
  <2>2. CASE mode # "podman"
    BY <1>2, <1>4, <1>7, <2>2 DEF LengthOk
  <2> QED
    BY <2>1, <2>2
<1>9. LinesOk' /\ LastEnd' = n /\ lines' \in Seq(Line)
  <2>1. LastEnd <= dropped /\ n <= written[Out] + 1
    BY <1>2, <1>4, <1>6
  <2>2. NoNewline(LastEnd, n - 1)
    BY <1>4, <1>6
  <2>3. UNCHANGED <<given, written, shut>>
    BY <1>1 DEF pipeVars
  <2> QED
    BY <1>1, <1>3, <1>4, <1>5, <1>6, <1>8, <2>1, <2>2, <2>3, LineIsAdded
<1>10. PipeInv'
  BY <1>1 DEF PipeInv, PipeTypeOK, BufferInv, pipeVars
<1>11. Saved' = Saved /\ MostSaved' = MostSaved
  BY <1>1 DEF Saved, MostSaved, pipeVars, given
<1>12. TypeOK'
  <2>1. dropped' \in 0 .. Saved'
    BY <1>2, <1>4, <1>5, <1>11
  <2>2. call'.on = (IF pc' = "read" THEN Out ELSE "none")
    BY <1>1, <1>5 DEF TypeOK, pipeVars
  <2> QED
    BY <1>1, <1>5, <1>9, <1>10, <2>1, <2>2 DEF TypeOK, PipeInv, given, Line
<1>13. SavedInv'
  <2>1. NoNewline(LastEnd, dropped)'
    <3>1. \A k \in newlines : ~(n < k /\ k <= n)
      BY <1>2, <1>4
    <3> QED
      BY <1>1, <1>5, <1>9, <3>1 DEF NoNewline, given
  <2>2. SavedLen' <= MostSaved'
    BY <1>1, <1>2, <1>4, <1>5, <1>11 DEF SavedInv, SavedLen
  <2>3. call' = Idle
    BY <1>1 DEF SavedInv, pipeVars
  <2>4. ASSUME mode = "podman" PROVE StreamSaved'
    <3>1. Len(lines') > 0
      BY <1>1, <1>5, Added
    <3> QED
      BY <1>1, <1>2, <1>4, <1>5, <1>9, <1>11, <2>4, <3>1
      DEF SavedInv, StreamSaved, SavedLen, given
  <2> QED
    BY <1>1, <1>5, <1>9, <2>1, <2>2, <2>3, <2>4 DEF SavedInv, Idle, given
<1> QED
  BY <1>9, <1>10, <1>12, <1>13 DEF IInv

\* BufferedReader.read has returned: nothing, the end of the file, or a chunk.
LEMMA ReadReturnsKeeps ==
    ASSUME IInv, ReadReturns PROVE IInv'
<1> USE OutAssumption DEF Out
<1>1. /\ PipeInv /\ TypeOK /\ LinesOk /\ SavedInv
      /\ ReadDone(Out) /\ call.on = Out /\ call' = Idle
      /\ UNCHANGED <<written, taken, handed, shut, given, expired, closed>>
  BY DEF IInv, ReadReturns, ReadDone
<1>2. pc = "read" /\ NoNewline(dropped, Saved)
  BY <1>1 DEF TypeOK, SavedInv
<1>3. /\ cap \in Nat /\ MostSaved \in Nat /\ cap <= MostSaved
      /\ ReadSize \in Nat \ {0} /\ ReadSize - 1 <= MostSaved
      /\ MaxOut \in Nat
      /\ handed[Out] \in 0 .. MaxOut /\ written[Out] \in 0 .. MaxOut
      /\ handed[Out] <= written[Out]
      /\ call.got \in 0 .. ReadSize
      /\ Saved = handed[Out] - call.got
      /\ dropped \in 0 .. Saved /\ Saved \in 0 .. MaxOut
      /\ newlines \subseteq 1 .. MaxOut
      /\ LastEnd \in 0 .. MaxOut + 1
  BY <1>1, Numbers
<1>4. PipeInv'
  BY <1>1, ReadDoneKeeps
<1>5. /\ Saved' = handed[Out] /\ MostSaved' = MostSaved
      /\ Exhausted' =>
           /\ Out \in shut /\ handed[Out] = written[Out]
           /\ dropped' = handed[Out]
  BY <1>1, <1>3 DEF Saved, MostSaved, given, Idle, Exhausted
<1>6. ASSUME pc' \in {"idle", "loop", "over"}, dropped' \in 0 .. handed[Out],
             lines' \in Seq(Line)
      PROVE  TypeOK'
  <2>1. call'.on = (IF pc' = "read" THEN Out ELSE "none")
    BY <1>1, <1>6 DEF Idle
  <2> QED
    BY <1>1, <1>4, <1>5, <1>6, <2>1 DEF TypeOK, PipeInv, given, Line
<1>7. lines \in Seq(Line)
  BY <1>1 DEF TypeOK, Line
\* The bytes saved are as they were, and nothing is returned.
<1>8. ASSUME UNCHANGED <<dropped, lines>>, call.got = 0,
             pc' \in {"idle", "loop", "over"}
      PROVE  IInv'
  <2>1. LinesOk' /\ LastEnd' = LastEnd
    BY <1>1, <1>8, LinesStay DEF given
  <2>2. Saved' = Saved
    BY <1>3, <1>5, <1>8
  <2>3. TypeOK'
    BY <1>3, <1>6, <1>7, <1>8
  <2>4. SavedInv'
    BY <1>1, <1>2, <1>5, <1>8, <2>1, <2>2
    DEF SavedInv, StreamSaved, NoNewline, SavedLen, Exhausted, given, Idle
  <2> QED
    BY <1>4, <2>1, <2>3, <2>4 DEF IInv
<1>9. CASE IsNone /\ pc' = "loop" /\ UNCHANGED <<dropped, lines>>
  BY <1>8, <1>9 DEF IsNone
<1>10. CASE IsEof /\ EofArrives
  <2>1. /\ call.got = 0 /\ Out \in shut /\ handed[Out] = written[Out]
        /\ Saved = handed[Out]
    <3>1. call.got = 0 /\ Out \in shut
      BY <1>1, <1>10 DEF IsEof
    <3>2. handed[Out] = written[Out]
      BY <1>1, <3>1, NothingIsNothing
    <3> QED
      BY <1>3, <3>1, <3>2
  <2>2. CASE mode = "sync"
    BY <1>8, <1>10, <2>1, <2>2 DEF EofArrives
  <2>3. CASE mode = "async"
    <3>1. pc' = "idle" /\ dropped' = Saved /\ UNCHANGED lines
      BY <1>10, <2>3 DEF EofArrives
    <3>2. LinesOk' /\ LastEnd' = LastEnd
      BY <1>1, <3>1, LinesStay DEF given
    <3>3. TypeOK'
      BY <1>3, <1>6, <1>7, <2>1, <3>1
    <3>4. LastEnd <= dropped
      BY <1>1, <1>3, <2>3 DEF SavedInv, Exhausted
    <3>5. NoNewline(LastEnd, dropped)'
      BY <1>1, <1>2, <1>3, <3>1, <3>2, <3>4 DEF SavedInv, NoNewline, given
    <3>6. SavedLen' <= MostSaved'
      BY <1>3, <1>5, <2>1, <3>1 DEF SavedLen
    <3>7. Exhausted'
      BY <1>1, <1>3, <1>5, <2>1, <3>1, <3>2, <3>4 DEF Exhausted, Idle
    <3>8. SavedInv'
      BY <1>1, <2>3, <3>1, <3>5, <3>6, <3>7 DEF SavedInv, Idle, given
    <3> QED
      BY <1>4, <3>2, <3>3, <3>8 DEF IInv
  <2>4. CASE mode = "podman" /\ SavedLen = 0
    BY <1>8, <1>10, <2>1, <2>4 DEF EofArrives
  <2>5. CASE mode = "podman" /\ SavedLen # 0
    <3>1. /\ lines' = Append(lines, [from |-> dropped, to |-> Saved + 1])
          /\ dropped' = Saved /\ pc' = "idle"
      BY <1>10, <2>5 DEF EofArrives
    <3>2. /\ LastEnd <= dropped /\ dropped < Saved
          /\ LastEnd = dropped \/ SavedLen >= cap
      BY <1>1, <1>3, <2>5 DEF SavedInv, Exhausted, SavedLen
    <3>3. LinesOk' /\ LastEnd' = Saved + 1 /\ lines' \in Seq(Line)
      <4> DEFINE n == Saved + 1
      <4>1. /\ n \in Nat /\ dropped \in Nat
            /\ dropped < n /\ n <= written[Out] + 1
            /\ n = written[Out] + 1
        BY <1>3, <2>1, <3>2
      <4>2. NoNewline(LastEnd, n - 1)
        BY <1>1, <1>2, <1>3, <3>2 DEF SavedInv, NoNewline
      <4>3. dropped = LastEnd \/ n - 1 - dropped >= cap
        BY <1>3, <3>2 DEF SavedLen
      <4>4. LengthOk(dropped, n)
        BY <1>1, <1>3, <2>5 DEF SavedInv, StreamSaved, SavedLen, LengthOk
      <4>5. lines' = Append(lines, [from |-> dropped, to |-> n])
        BY <3>1
      <4> HIDE DEF n
      <4>6. LinesOk' /\ LastEnd' = n /\ lines' \in Seq(Line)
        BY <1>1, <2>1, <2>5, <3>2, <4>1, <4>2, <4>3, <4>4, <4>5, LineIsAdded
      <4> QED
        BY <4>6 DEF n
    <3>4. TypeOK'
      BY <1>3, <1>6, <2>1, <3>1, <3>3
    <3>5. NoNewline(LastEnd, dropped)'
      BY <1>1, <1>3, <3>1, <3>3 DEF NoNewline, given
    <3>6. SavedLen' <= MostSaved'
      BY <1>3, <1>5, <2>1, <3>1 DEF SavedLen
    <3>7. Exhausted'
      BY <1>1, <1>5, <2>1, <2>5, <3>1, <3>3 DEF Exhausted, given, Idle
    <3>8. StreamSaved'
      BY <1>1, <1>3, <1>5, <2>1, <3>1 DEF StreamSaved, SavedLen, given
    <3>9. SavedInv'
      BY <1>1, <3>1, <3>5, <3>6, <3>7, <3>8 DEF SavedInv, Idle
    <3> QED
      BY <1>4, <3>3, <3>4, <3>9 DEF IInv
  <2> QED
    BY <1>1, <2>2, <2>3, <2>4, <2>5 DEF TypeOK
<1>11. CASE call.got > 0 /\ ChunkArrives
  <2>1. /\ Saved < handed[Out] /\ handed[Out] - Saved <= ReadSize
        /\ LastEnd <= dropped
        /\ LastEnd = dropped \/ SavedLen >= cap
    <3>1. Saved < handed[Out] /\ handed[Out] - Saved <= ReadSize
      BY <1>3, <1>11
    <3>2. ~Exhausted
      BY <1>11 DEF Exhausted
    <3> QED
      BY <1>1, <1>3, <3>1, <3>2 DEF SavedInv
  <2>2. Saved \in Nat /\ handed[Out] \in Nat /\ dropped \in Nat
    BY <1>3
  <2>3. CASE NewlinesIn(Saved, handed[Out]) # {}
    <3>1. PICK n \in newlines :
            /\ n = Min(NewlinesIn(Saved, handed[Out])) /\ n \in Nat
            /\ Saved < n /\ n <= handed[Out]
            /\ NoNewline(Saved, n - 1)
      BY <1>1, <2>2, <2>3, FirstIs
    <3>2. PICK a \in Nat : a = CappedStart(n)
      BY <1>3, <3>1 DEF CappedStart
    <3>3. /\ lines' = Append(lines, [from |-> a, to |-> n])
          /\ dropped' = n /\ pc' = "idle"
      BY <1>11, <2>3, <3>1, <3>2, Zenon DEF ChunkArrives, PopLine
    <3>4. /\ dropped <= a /\ a < n
          /\ a = dropped \/ n - 1 - a = cap
          /\ mode = "podman" => n - 1 - a <= cap
          /\ mode # "podman" => a = dropped
      BY <1>3, <3>1, <3>2 DEF CappedStart
    <3>5. LinesOk' /\ LastEnd' = n /\ lines' \in Seq(Line)
      <4>1. NoNewline(LastEnd, n - 1)
        BY <1>1, <1>2, <1>3, <2>1, <3>1 DEF SavedInv, NoNewline
      <4>2. a = LastEnd \/ n - 1 - a >= cap
        BY <1>3, <2>1, <3>1, <3>4 DEF SavedLen
      <4>3. LengthOk(a, n)
        <5>1. CASE mode = "podman"
          BY <1>3, <3>1, <3>4, <5>1 DEF LengthOk
        <5>2. CASE mode # "podman"
          <6>1. Saved - dropped <= MostSaved
            BY <1>1 DEF SavedInv, SavedLen
          <6> QED
            BY <1>3, <2>1, <3>1, <3>4, <5>2, <6>1 DEF LengthOk
        <5> QED
          BY <5>1, <5>2
      <4>4. LastEnd <= a /\ n <= written[Out] + 1
        BY <1>3, <2>1, <3>1, <3>4
      <4> QED
        BY <1>1, <3>1, <3>2, <3>3, <3>4, <4>1, <4>2, <4>3, <4>4, LineIsAdded
    <3>6. TypeOK'
      BY <1>3, <1>6, <3>1, <3>3, <3>5
    <3>7. NoNewline(LastEnd, dropped)'
      <4>1. \A k \in newlines : ~(n < k /\ k <= n)
        BY <1>3, <3>1
      <4> QED
        BY <1>1, <3>3, <3>5, <4>1 DEF NoNewline, given
    <3>8. SavedLen' <= MostSaved'
      <4>1. SavedLen' = handed[Out] - n
        BY <1>5, <3>3 DEF SavedLen
      <4> QED
        BY <1>3, <1>5, <2>1, <3>1, <4>1
    <3>9. StreamSaved'
      <4>1. SavedLen' = handed[Out] - n
        BY <1>5, <3>3 DEF SavedLen
      <4>2. SavedLen' < ReadSize'
        BY <1>3, <2>1, <3>1, <4>1
      <4>3. Len(lines') > 0
        BY <1>1, <3>3, Added
      <4> QED
        BY <3>3, <3>5, <4>2, <4>3 DEF StreamSaved
    <3>10. SavedInv'
      BY <1>1, <3>3, <3>5, <3>7, <3>8, <3>9 DEF SavedInv, Idle
    <3> QED
      BY <1>4, <3>5, <3>6, <3>10 DEF IInv
  <2>4. CASE NewlinesIn(Saved, handed[Out]) = {}
    <3>1. dropped' = Trimmed /\ pc' = "loop" /\ UNCHANGED lines
      BY <1>11, <2>4 DEF ChunkArrives
    <3>2. LinesOk' /\ LastEnd' = LastEnd
      BY <1>1, <3>1, LinesStay DEF given
    <3>3. NoNewline(Saved, handed[Out]) /\ NoNewline(dropped, handed[Out])
          /\ NoNewline(LastEnd, handed[Out])
      <4>1. NoNewline(Saved, handed[Out])
        BY <2>4, NoneIs
      <4> QED
        BY <1>1, <1>2, <1>3, <4>1 DEF SavedInv, NoNewline
    <3>4. /\ dropped <= dropped' /\ dropped' <= handed[Out]
          /\ dropped' \in 0 .. handed[Out]
          /\ handed[Out] - dropped' <= cap
          /\ dropped' = dropped \/ handed[Out] - dropped' = cap
      BY <1>3, <2>1, <3>1 DEF Trimmed
    <3>5. TypeOK'
      BY <1>6, <1>7, <3>1, <3>4
    <3>6. NoNewline(LastEnd, dropped)' /\ NoNewline(dropped, Saved)'
      BY <1>1, <1>3, <1>5, <3>2, <3>3, <3>4 DEF NoNewline, given
    <3>7. SavedLen' = handed[Out] - dropped'
      BY <1>5 DEF SavedLen
    <3>8. LastEnd' = dropped' \/
          (LastEnd' <= dropped' /\ SavedLen' >= cap')
      BY <1>1, <1>3, <2>1, <3>2, <3>4, <3>7 DEF SavedLen, given
    <3>9. SavedInv'
      <4>1. SavedLen' <= MostSaved'
        BY <1>3, <1>5, <3>4, <3>7
      <4>2. StreamSaved'
        BY <1>1, <3>4, <3>7 DEF StreamSaved, given
      <4> QED
        BY <1>1, <3>1, <3>6, <3>8, <4>1, <4>2 DEF SavedInv, Idle
    <3> QED
      BY <1>4, <3>2, <3>5, <3>9 DEF IInv
  <2> QED
    BY <2>3, <2>4
<1> QED
  BY <1>9, <1>10, <1>11 DEF ReadReturns

\* Every step between them keeps the bytes saved as they are.
LEMMA OthersKeep ==
    ASSUME IInv, UNCHANGED <<given, dropped, lines>>, PipeInv', TypeOK',
           shut \subseteq shut',
           Out \in shut => written'[Out] = written[Out],
           Saved' = Saved,
           pc' \in {"loop", "read"} /\ pc \notin {"loop", "read"} =>
               NoNewline(dropped, Saved),
           pc' # "read" => call' = Idle,
           Exhausted => handed'[Out] = handed[Out] /\ call'.got = call.got
    PROVE  IInv'
<1>1. LinesOk' /\ LastEnd' = LastEnd
  BY LinesStay DEF IInv
<1>2. MostSaved' = MostSaved /\ SavedLen' = SavedLen
  BY DEF MostSaved, SavedLen, given
<1>3. Exhausted => Exhausted'
  BY <1>1 DEF Exhausted, given
<1>4. SavedInv'
  BY <1>1, <1>2, <1>3 DEF IInv, SavedInv, StreamSaved, NoNewline, given
<1> QED
  BY <1>1, <1>4 DEF IInv

LEMMA InvInit == Init => IInv
<1> SUFFICES ASSUME Init PROVE IInv
  OBVIOUS
<1> USE PipeAssumption, CapsAssumption, OutAssumption DEF Out
<1>1. PipeInv
  BY PipeInvInit DEF Init
<1>2. /\ call = Idle /\ Saved = 0 /\ dropped = 0 /\ lines = << >>
      /\ pc = "idle" /\ cap \in Nat
  BY DEF Init, PipeInit, Idle, Saved
<1>3. TypeOK
  <2>1. lines \in Seq([from : 0 .. MaxOut, to : 1 .. MaxOut + 1])
    BY <1>2, EmptySeq
  <2>2. /\ dropped \in 0 .. Saved
        /\ call.on = (IF pc = "read" THEN Out ELSE "none")
    BY <1>2 DEF Idle
  <2>3. newlines \subseteq 1 .. MaxOut
    BY DEF Init
  <2> QED
    BY <1>1, <2>1, <2>2, <2>3, Zenon DEF Init, TypeOK, PipeInv
<1>4. Len(lines) = 0
  BY <1>2, EmptySeq
<1>5. LinesOk
  BY <1>4 DEF LinesOk
<1>6. LastEnd = 0
  BY <1>4 DEF LastEnd, Before
<1>7. SavedInv
  <2>1. NoNewline(LastEnd, dropped)
    BY <1>2, <1>6 DEF Init, NoNewline
  <2>2. SavedLen <= MostSaved
    BY <1>2 DEF SavedLen, MostSaved
  <2>3. StreamSaved
    BY <1>2 DEF StreamSaved, SavedLen
  <2> QED
    BY <1>2, <1>6, <2>1, <2>2, <2>3 DEF SavedInv
<1> QED
  BY <1>1, <1>3, <1>5, <1>7 DEF IInv

LEMMA InvNext == IInv /\ [Next]_vars => IInv'
<1> SUFFICES ASSUME IInv, [Next]_vars PROVE IInv'
  OBVIOUS
<1> USE OutAssumption DEF Out
<1>1. PipeInv /\ TypeOK /\ LinesOk /\ SavedInv
  BY DEF IInv
<1>2. /\ MaxOut \in Nat /\ handed[Out] \in Nat /\ taken[Out] \in Nat
      /\ written[Out] \in Nat /\ call.got \in Nat
      /\ handed[Out] <= taken[Out] /\ taken[Out] <= written[Out]
      /\ Saved = handed[Out] - call.got
  BY <1>1, Numbers
\* The bytes stay where they are.
<1>3. ASSUME UNCHANGED <<pipeVars, given, dropped, lines>>,
             pc' \in {"idle", "loop", "over"} \/ pc' = pc,
             pc = "read" => pc' = "read",
             pc' = "loop" /\ pc # "loop" => NewlinesIn(dropped, Saved) = {},
             expired' \in BOOLEAN, closed' \in BOOLEAN
      PROVE  IInv'
  <2>1. PipeInv'
    BY <1>1, <1>3 DEF PipeInv, PipeTypeOK, BufferInv, pipeVars
  <2>2. Saved' = Saved
    BY <1>3 DEF Saved, pipeVars
  <2>3. TypeOK'
    BY <1>1, <1>3, <2>1, <2>2 DEF TypeOK, PipeInv, pipeVars, given
  <2>4. pc' # "read" => call' = Idle
    BY <1>1, <1>3 DEF SavedInv, pipeVars
  <2>5. pc' \in {"loop", "read"} /\ pc \notin {"loop", "read"} =>
          NoNewline(dropped, Saved)
    BY <1>3, NoneIs
  <2> QED
    BY <1>3, <2>1, <2>2, <2>3, <2>4, <2>5, OthersKeep DEF pipeVars
<1>4. expired \in BOOLEAN /\ closed \in BOOLEAN
  BY <1>1 DEF TypeOK
\* read_line.
<1>5. CASE CallPops
  BY <1>5, CallPopsKeeps
<1>6. CASE CallBegins
  BY <1>3, <1>4, <1>6 DEF CallBegins
<1>7. CASE Look
  <2>1. BeginRead(Out) /\ pc = "loop" /\ pc' = "read"
        /\ UNCHANGED <<given, dropped, expired, closed, lines>>
    BY <1>7 DEF Look
  <2>2. /\ PipeInv' /\ call'.on = Out
        /\ handed'[Out] - call'.got = handed[Out]
        /\ UNCHANGED <<written, taken, shut>>
        /\ handed'[Out] = taken[Out] /\ call'.got = taken[Out] - handed[Out]
    BY <1>1, <2>1, BeginReadKeeps DEF BeginRead, PipeInv, PipeTypeOK
  <2>3. call.got = 0
    BY <1>1, <2>1 DEF SavedInv, Idle
  <2>4. Saved' = Saved
    BY <1>2, <2>2, <2>3 DEF Saved
  <2>5. TypeOK'
    BY <1>1, <2>1, <2>2, <2>4 DEF TypeOK, PipeInv, given
  <2>6. Exhausted => handed'[Out] = handed[Out] /\ call'.got = call.got
    BY <1>2, <2>2, <2>3 DEF Exhausted
  <2> QED
    BY <2>1, <2>2, <2>4, <2>5, <2>6, OthersKeep
<1>8. CASE RawRead
  <2>1. /\ ReadMore(Out)
        /\ UNCHANGED <<given, dropped, pc, expired, closed, lines>>
    BY <1>8 DEF RawRead
  <2>2. /\ PipeInv' /\ call'.on = Out /\ call.on = Out
        /\ handed'[Out] - call'.got = handed[Out] - call.got
        /\ UNCHANGED <<written, shut>> /\ taken[Out] < written[Out]
    BY <1>1, <2>1, ReadMoreKeeps DEF ReadMore
  <2>3. Saved' = Saved
    BY <2>2 DEF Saved
  <2>4. TypeOK'
    BY <1>1, <2>1, <2>2, <2>3 DEF TypeOK, PipeInv, given
  <2>5. pc = "read"
    BY <1>1, <2>2 DEF TypeOK
  <2>6. ~Exhausted
    BY <1>2, <2>2 DEF Exhausted
  <2> QED
    BY <2>1, <2>2, <2>3, <2>4, <2>5, <2>6, OthersKeep
<1>9. CASE ReadReturns
  BY <1>9, ReadReturnsKeeps
<1>10. CASE TimedOut
  BY <1>3, <1>4, <1>10 DEF TimedOut
<1>11. CASE Cancelled
  BY <1>3, <1>4, <1>11 DEF Cancelled
\* The rest of the program, the child and the clock.
<1>12. CASE Close
  BY <1>3, <1>4, <1>12 DEF Close
<1>13. CASE Expire
  BY <1>3, <1>4, <1>13 DEF Expire
<1>14. CASE ChildStep
  <2>1. /\ Write(Out) \/ Shut(Out)
        /\ UNCHANGED <<given, dropped, pc, expired, closed, lines>>
    BY <1>14 DEF ChildStep
  <2>2. /\ PipeInv' /\ UNCHANGED <<taken, handed, call>>
        /\ shut \subseteq shut'
        /\ Out \in shut => written'[Out] = written[Out]
    BY <1>1, <2>1, ChildKeeps
  <2>3. Saved' = Saved
    BY <2>2 DEF Saved
  <2>4. TypeOK'
    BY <1>1, <2>1, <2>2, <2>3 DEF TypeOK, PipeInv, given
  <2>5. pc' # "read" => call' = Idle
    BY <1>1, <2>1, <2>2 DEF SavedInv
  <2> QED
    BY <2>1, <2>2, <2>3, <2>4, <2>5, OthersKeep
<1>15. CASE UNCHANGED vars
  BY <1>3, <1>4, <1>15 DEF vars
<1> QED
  BY <1>5, <1>6, <1>7, <1>8, <1>9, <1>10, <1>11, <1>12, <1>13, <1>14, <1>15
  DEF Next, Reader, Terminating

LEMMA Invariant == Spec => []IInv
<1> QED
  BY InvInit, InvNext, PTL DEF Spec

-----------------------------------------------------------------------------
(* The theorems.                                                           *)

\* Every variable of read_line keeps to its values.
THEOREM TypeCorrect == Spec => []TypeOK
<1>1. IInv => TypeOK
  BY DEF IInv
<1> QED
  BY <1>1, Invariant, PTL

\* The search may begin with the bytes just received: read_line never waits
\* with a newline among those it had saved.
THEOREM NoLineIsOverlooked == Spec => []WaitsWithoutLine
<1>1. IInv => WaitsWithoutLine
  BY DEF IInv, SavedInv, WaitsWithoutLine, NoNewline, NewlinesIn
<1> QED
  BY <1>1, Invariant, PTL

\* Lines come in order, one for each newline, whatever the chunks are and
\* wherever a call times out or is cancelled.
THEOREM OrderIsKept == Spec => []LinesInOrder
<1>1. IInv => LinesInOrder
  <2> SUFFICES ASSUME IInv PROVE LinesInOrder
    OBVIOUS
  <2>1. NewlinesIn(Before(Len(lines) + 1), dropped) = {}
    BY DEF IInv, SavedInv, NoNewline, NewlinesIn, LastEnd
  <2>2. ASSUME NEW i \in 1 .. Len(lines)
        PROVE  /\ Before(i) <= lines[i].from /\ lines[i].from < lines[i].to
               /\ NewlinesIn(Before(i), lines[i].to - 1) = {}
               /\ \/ lines[i].to \in newlines
                  \/ /\ mode = "podman" /\ Out \in shut
                     /\ i = Len(lines) /\ lines[i].to = written[Out] + 1
    <3>1. LineOk(i)
      BY DEF IInv, LinesOk
    <3>2. NewlinesIn(Before(i), lines[i].to - 1) = {}
      BY <3>1 DEF LineOk, NoNewline, NewlinesIn
    <3> QED
      BY <3>1, <3>2 DEF LineOk
  <2> QED
    BY <2>1, <2>2 DEF LinesInOrder
<1> QED
  BY <1>1, Invariant, PTL

\* A line that fits the cap is returned whole.
THEOREM LinesAreWhole == Spec => []LinesWhole
<1>1. IInv => LinesWhole
  BY DEF IInv, LinesOk, LineOk, LinesWhole
<1> QED
  BY <1>1, Invariant, PTL

\* What is kept and what is returned are bounded by the cap and the size of
\* one read, for every cap.
THEOREM RetentionIsBounded == Spec => []RetentionBounded
<1>1. IInv => RetentionBounded
  BY DEF IInv, SavedInv, LinesOk, LineOk, RetentionBounded
<1> QED
  BY <1>1, Invariant, PTL
=============================================================================
