--------------------------- MODULE SyncRunProofs ---------------------------
(***************************************************************************)
(* The safety properties of the two ways of collecting output and of the   *)
(* synchronous run, for every set of descendants, every amount of output,  *)
(* every size of read and every max_output_size.                           *)
(***************************************************************************)
EXTENDS SyncRun, ProcessGroupProofs, PipeReaderProofs, SequenceTheorems,
        TLAPS

-----------------------------------------------------------------------------
(* Runs of consecutive bytes.                                              *)

LEMMA BytesAre ==
    ASSUME NEW a \in Nat, NEW b \in Nat, a <= b
    PROVE  /\ Bytes(a, b) \in Seq(Nat)
           /\ Len(Bytes(a, b)) = b - a
           /\ \A i \in 1 .. (b - a) : Bytes(a, b)[i] = a + i
<1>1. b - a \in Nat
  OBVIOUS
<1> DEFINE n == b - a
<1>2. [i \in 1 .. n |-> a + i] \in [1 .. n -> Nat]
  OBVIOUS
<1>3. n \in Nat
  BY <1>1
<1> HIDE DEF n
<1>4. [i \in 1 .. n |-> a + i] \in Seq(Nat) /\
      Len([i \in 1 .. n |-> a + i]) = n
  BY <1>2, <1>3
<1> QED
  BY <1>2, <1>3, <1>4 DEF n, Bytes

\* Two of them, one behind the other, are one.
LEMMA BytesJoin ==
    ASSUME NEW a \in Nat, NEW b \in Nat, NEW c \in Nat, a <= b, b <= c
    PROVE  Bytes(a, b) \o Bytes(b, c) = Bytes(a, c)
<1> DEFINE s == Bytes(a, b)
           t == Bytes(b, c)
           u == Bytes(a, c)
<1>1. /\ s \in Seq(Nat) /\ Len(s) = b - a
      /\ \A i \in 1 .. (b - a) : s[i] = a + i
      /\ t \in Seq(Nat) /\ Len(t) = c - b
      /\ \A i \in 1 .. (c - b) : t[i] = b + i
      /\ u \in Seq(Nat) /\ Len(u) = c - a
      /\ \A i \in 1 .. (c - a) : u[i] = a + i
  <2>1. /\ s \in Seq(Nat) /\ Len(s) = b - a
        /\ \A i \in 1 .. (b - a) : s[i] = a + i
    BY BytesAre
  <2>2. /\ t \in Seq(Nat) /\ Len(t) = c - b
        /\ \A i \in 1 .. (c - b) : t[i] = b + i
    BY BytesAre
  <2>3. /\ u \in Seq(Nat) /\ Len(u) = c - a
        /\ \A i \in 1 .. (c - a) : u[i] = a + i
    <3>1. a <= c
      OBVIOUS
    <3> QED
      BY <3>1, BytesAre
  <2> QED
    BY <2>1, <2>2, <2>3
<1> HIDE DEF s, t, u
<1>2. /\ s \o t \in Seq(Nat)
      /\ Len(s \o t) = Len(s) + Len(t)
      /\ \A i \in 1 .. Len(s) + Len(t) :
           (s \o t)[i] = IF i <= Len(s) THEN s[i] ELSE t[i - Len(s)]
  BY <1>1, ConcatProperties
<1>3. Len(s \o t) = Len(u)
  BY <1>1, <1>2
<1>4. ASSUME NEW i \in 1 .. Len(s \o t) PROVE (s \o t)[i] = u[i]
  <2>0. /\ i \in 1 .. (c - a) /\ i \in 1 .. Len(s) + Len(t)
        /\ Len(s) = b - a
    BY <1>1, <1>2
  <2>1. u[i] = a + i
    BY <1>1, <2>0
  <2>2. (s \o t)[i] = IF i <= b - a THEN s[i] ELSE t[i - (b - a)]
    BY <1>2, <2>0
  <2>3. CASE i <= b - a
    <3>1. i \in 1 .. (b - a)
      BY <2>0, <2>3
    <3> QED
      BY <1>1, <2>1, <2>2, <2>3, <3>1
  <2>4. CASE i > b - a
    <3>1. i - (b - a) \in 1 .. (c - b)
      BY <2>0, <2>4
    <3>2. t[i - (b - a)] = b + (i - (b - a))
      BY <1>1, <3>1
    <3>3. (s \o t)[i] = t[i - (b - a)]
      BY <2>0, <2>2, <2>4
    <3> QED
      BY <2>0, <2>1, <3>2, <3>3
  <2> QED
    BY <2>0, <2>3, <2>4
<1>5. s \o t = u
  BY <1>1, <1>2, <1>3, <1>4, SeqEqual
<1> QED
  BY <1>5 DEF s, t, u

\* Any part of one is one.
LEMMA BytesPart ==
    ASSUME NEW a \in Nat, NEW b \in Nat, NEW lo \in Nat, NEW hi \in Nat,
           a <= lo, lo <= hi, hi <= b,
           NEW m \in Nat, NEW n \in Nat, m = lo - a + 1, n = hi - a
    PROVE  SubSeq(Bytes(a, b), m, n) = Bytes(lo, hi)
<1> DEFINE s == Bytes(a, b)
           u == Bytes(lo, hi)
<1>1. /\ s \in Seq(Nat) /\ Len(s) = b - a
      /\ \A i \in 1 .. (b - a) : s[i] = a + i
  BY BytesAre
<1>2. hi - lo = n - m + 1 /\ lo = a + m - 1
  OBVIOUS
<1> HIDE DEF s
<1>3. /\ u \in Seq(Nat) /\ Len(u) = hi - lo
      /\ \A i \in 1 .. (hi - lo) : u[i] = lo + i
  BY BytesAre
<1> HIDE DEF u
<1>4. \A i \in m .. n : s[i] \in Nat
  BY <1>1
<1>5. /\ SubSeq(s, m, n) \in Seq(Nat)
      /\ Len(SubSeq(s, m, n)) = IF m <= n THEN n - m + 1 ELSE 0
      /\ \A i \in 1 .. n - m + 1 : SubSeq(s, m, n)[i] = s[m + i - 1]
  BY <1>4, SubSeqProperties
<1>6. Len(SubSeq(s, m, n)) = Len(u)
  BY <1>2, <1>3, <1>5
<1>7. ASSUME NEW i \in 1 .. Len(SubSeq(s, m, n))
      PROVE  SubSeq(s, m, n)[i] = u[i]
  <2>1. i \in 1 .. n - m + 1 /\ m + i - 1 \in 1 .. (b - a)
    BY <1>5
  <2>2. SubSeq(s, m, n)[i] = a + (m + i - 1)
    BY <1>1, <1>5, <2>1
  <2>3. u[i] = lo + i
    BY <1>2, <1>3, <2>1
  <2> QED
    BY <1>2, <2>1, <2>2, <2>3
<1>8. SubSeq(s, m, n) = u
  BY <1>3, <1>5, <1>6, <1>7, SeqEqual
<1> QED
  BY <1>8 DEF s, u

LEMMA NoBytes ==
    ASSUME NEW a \in Nat, NEW b \in Nat
    PROVE  Bytes(a, a) = Bytes(b, b)
<1>1. Bytes(a, a) \in Seq(Nat) /\ Len(Bytes(a, a)) = 0
  <2>1. a <= a
    OBVIOUS
  <2> QED
    BY <2>1, BytesAre
<1>2. Bytes(b, b) \in Seq(Nat) /\ Len(Bytes(b, b)) = 0
  <2>1. b <= b
    OBVIOUS
  <2> QED
    BY <2>1, BytesAre
<1>3. Bytes(a, a) = << >> /\ Bytes(b, b) = << >>
  BY <1>1, <1>2, EmptySeq
<1> QED
  BY <1>3

-----------------------------------------------------------------------------
(* BoundedOutputBuffer and the loop that fills it.                         *)

LEMMA KeptAre ==
    ASSUME NEW n \in 0 .. MaxOut, max_len \in Nat
    PROVE  Kept(n) \in Seq(1 .. MaxOut)
<1> DEFINE lo == IF tail THEN IF n > max_len THEN n - max_len ELSE 0 ELSE 0
           hi == IF tail THEN n ELSE AtMost(n, max_len)
           u == Bytes(lo, hi)
<1>1. lo \in Nat /\ hi \in Nat /\ lo <= hi /\ hi <= MaxOut
  BY PipeAssumption DEF AtMost
<1>2. Kept(n) = u
  BY DEF Kept
<1> HIDE DEF lo, hi
<1>3. /\ u \in Seq(Nat) /\ Len(u) = hi - lo
      /\ \A i \in 1 .. (hi - lo) : u[i] = lo + i
  BY <1>1, BytesAre
<1>4. \A i \in 1 .. Len(u) : u[i] \in 1 .. MaxOut
  BY <1>1, <1>3, PipeAssumption
<1> HIDE DEF u
<1>5. SubSeq(u, 1, Len(u)) \in Seq(1 .. MaxOut)
  <2>1. 1 \in Int /\ Len(u) \in Int
    BY <1>1, <1>3
  <2> QED
    BY <1>4, <2>1, SubSeqProperties, Zenon
<1>6. SubSeq(u, 1, Len(u)) = u
  BY <1>3, SubSeqFull, Zenon
<1> QED
  BY <1>2, <1>5, <1>6, Zenon

\* A chunk is added to what was kept: what is kept then is what the promise
\* says of all the bytes so far.
LEMMA ExtendKeeps ==
    ASSUME NEW a \in Nat, NEW b \in Nat, a < b, max_len \in Nat,
           tail \in BOOLEAN
    PROVE  extend(Kept(a), Bytes(a, b)) = Kept(b)
<1>0. /\ Bytes(a, b) \in Seq(Nat)
      /\ Len(Bytes(a, b)) = b - a
  <2>1. a <= b
    OBVIOUS
  <2> QED
    BY <2>1, BytesAre
<1>1. CASE max_len = 0
  <2>1. extend(Kept(a), Bytes(a, b)) = Kept(a)
    BY <1>1 DEF extend
  <2>2. CASE tail
    <3>1. Kept(a) = Bytes(a, a) /\ Kept(b) = Bytes(b, b)
      BY <1>1, <2>2 DEF Kept
    <3> QED
      BY <2>1, <3>1, NoBytes
  <2>3. CASE ~tail
    <3>1. Kept(a) = Bytes(0, 0) /\ Kept(b) = Bytes(0, 0)
      BY <1>1, <2>3 DEF Kept, AtMost
    <3> QED
      BY <2>1, <3>1
  <2> QED
    BY <2>2, <2>3
<1>2. CASE max_len # 0 /\ tail
  <2> DEFINE lo == IF a > max_len THEN a - max_len ELSE 0
             all == Bytes(lo, b)
  <2>1. lo \in Nat /\ lo <= a /\ lo <= b
    OBVIOUS
  <2>2. Kept(a) = Bytes(lo, a)
    BY <1>2 DEF Kept
  <2>3. lo = IF a > max_len THEN a - max_len ELSE 0
    OBVIOUS
  <2> HIDE DEF lo
  <2>4. Bytes(lo, a) \o Bytes(a, b) = Bytes(lo, b)
    <3>1. a <= b
      OBVIOUS
    <3> QED
      BY <2>1, <3>1, BytesJoin
  <2>5. Len(all) = b - lo
    BY <2>1, BytesAre
  <2>6. extend(Kept(a), Bytes(a, b)) =
          IF b - lo > max_len
          THEN SubSeq(all, b - lo - max_len + 1, b - lo) ELSE all
    BY <1>2, <2>2, <2>4, <2>5, Zenon DEF extend
  <2>7. CASE b - lo > max_len
    <3>1. SubSeq(all, b - lo - max_len + 1, b - lo) = Bytes(b - max_len, b)
      <4> DEFINE m == b - lo - max_len + 1
                 n == b - lo
                 from == b - max_len
      <4>1. /\ m \in Nat /\ n \in Nat /\ from \in Nat
            /\ lo <= from /\ from <= b /\ b <= b
            /\ m = from - lo + 1
        BY <2>1, <2>7
      <4> HIDE DEF m, from
      <4>2. SubSeq(Bytes(lo, b), m, n) = Bytes(from, b)
        BY <2>1, <4>1, BytesPart
      <4> QED
        BY <4>2 DEF m, from
    <3>2. b > max_len
      BY <2>1, <2>7
    <3>3. Kept(b) = Bytes(b - max_len, b)
      BY <1>2, <3>2 DEF Kept
    <3> QED
      BY <2>6, <2>7, <3>1, <3>3
  <2>8. CASE ~(b - lo > max_len)
    <3>1. lo = 0 /\ ~(b > max_len)
      BY <2>1, <2>3, <2>8
    <3>2. Kept(b) = Bytes(0, b)
      BY <1>2, <3>1 DEF Kept
    <3> QED
      BY <2>6, <2>8, <3>1, <3>2
  <2> QED
    BY <2>7, <2>8
<1>3. CASE max_len # 0 /\ ~tail
  <2>1. CASE a < max_len
    <3> DEFINE n == AtMost(max_len - a, b - a)
    <3>1. n \in Nat /\ 1 <= n /\ n <= b - a /\ a + n = AtMost(b, max_len)
      BY <2>1 DEF AtMost
    <3>2. Kept(a) = Bytes(0, a) /\ Kept(b) = Bytes(0, a + n)
      <4>1. AtMost(a, max_len) = a
        BY <2>1 DEF AtMost
      <4> QED
        BY <1>3, <3>1, <4>1, Zenon DEF Kept
    <3>3. Len(Bytes(0, a)) = a
      BY BytesAre
    <3> HIDE DEF n
    <3>4. SubSeq(Bytes(a, b), 1, n) = Bytes(a, a + n)
      <4> DEFINE hi == a + n
                 lo == a
                 m == 1
      <4>1. /\ hi \in Nat /\ lo \in Nat /\ a <= lo /\ lo <= hi /\ hi <= b
            /\ m \in Nat /\ n \in Nat /\ m = lo - a + 1 /\ n = hi - a
        BY <3>1
      <4> HIDE DEF hi, lo, m
      <4>2. SubSeq(Bytes(a, b), m, n) = Bytes(lo, hi)
        BY <4>1, BytesPart
      <4> QED
        BY <4>2 DEF hi, lo, m
    <3>5. extend(Kept(a), Bytes(a, b)) = Bytes(0, a) \o Bytes(a, a + n)
      <4>1. AtMost(max_len - a, b - a) = n
        BY DEF n
      <4> QED
        BY <1>0, <1>3, <2>1, <3>2, <3>3, <3>4, <4>1, Zenon DEF extend
    <3>6. Bytes(0, a) \o Bytes(a, a + n) = Bytes(0, a + n)
      <4>1. 0 <= a /\ a + n \in Nat /\ a <= a + n
        BY <3>1
      <4> QED
        BY <4>1, BytesJoin
    <3> QED
      BY <3>2, <3>5, <3>6
  <2>2. CASE ~(a < max_len)
    <3>1. AtMost(a, max_len) = max_len /\ AtMost(b, max_len) = max_len
      BY <2>2 DEF AtMost
    <3>2. Kept(a) = Bytes(0, max_len) /\ Kept(b) = Bytes(0, max_len)
      BY <1>3, <3>1, Zenon DEF Kept
    <3>3. Len(Bytes(0, max_len)) = max_len
      BY BytesAre
    <3>4. ~(max_len < max_len)
      OBVIOUS
    <3> QED
      BY <1>3, <3>2, <3>3, <3>4, Zenon DEF extend
  <2> QED
    BY <2>1, <2>2
<1> QED
  BY <1>1, <1>2, <1>3

\* A pipe that is still to be served is readable or has been read from, and
\* what a call got is part of what was handed on.
ServedInv ==
    /\ \A f \in ready : Readable(f) \/ (call.on = f /\ call.got > 0)
    /\ call.on # "none" => call.got <= handed[call.on]

DrainInv ==
    /\ DrainTypeOK
    /\ BufferInv
    /\ ServedInv
    /\ KeepsFirstOrLast
    /\ EndsAtEofOnly

\* The bytes of f that are kept, or not kept for being too many.
Counted(f) == handed[f] - (IF call.on = f THEN call.got ELSE 0)

LEMMA CountedIs ==
    ASSUME DrainInv, NEW f \in Fds
    PROVE  /\ Counted(f) \in 0 .. MaxOut
           /\ max_len \in Nat
           /\ bufs[f] = Kept(Counted(f))
<1>1. Counted(f) \in 0 .. MaxOut
  BY PipeAssumption
  DEF Counted, DrainInv, DrainTypeOK, PipeTypeOK, ServedInv
<1>2. max_len \in Nat
  BY MaxLensAssumption DEF DrainInv, DrainTypeOK
<1>3. bufs[f] = Kept(Counted(f))
  BY DEF DrainInv, KeepsFirstOrLast, Counted
<1> QED
  BY <1>1, <1>2, <1>3

LEMMA DrainInvInit == DrainInit => DrainInv
<1> SUFFICES ASSUME DrainInit PROVE DrainInv
  OBVIOUS
<1>1. PipeTypeOK /\ BufferInv
  BY PipeInvInit DEF DrainInit, PipeInv
<1>2. bufs \in [Fds -> Seq(1 .. MaxOut)]
  BY EmptySeq DEF DrainInit
<1>3. DrainTypeOK
  BY <1>1, <1>2, Zenon DEF DrainInit, DrainTypeOK, PipeInit, Idle
<1>4. ServedInv /\ EndsAtEofOnly
  BY DEF DrainInit, ServedInv, EndsAtEofOnly, PipeInit, Idle
<1>5. KeepsFirstOrLast
  <2>1. Bytes(0, 0) = << >>
    BY DEF Bytes
  <2>2. Kept(0) = << >>
    BY <2>1, MaxLensAssumption DEF Kept, DrainInit, AtMost
  <2>3. \A f \in Fds : handed[f] = 0 /\ call.on # f /\ bufs[f] = << >>
    BY PipeAssumption DEF DrainInit, PipeInit, Idle
  <2> QED
    BY <2>2, <2>3 DEF KeepsFirstOrLast
<1> QED
  BY <1>1, <1>3, <1>4, <1>5 DEF DrainInv

\* Nothing but the loop changes what is kept.
LEMMA KeptStays ==
    ASSUME DrainInv, UNCHANGED <<drainGiven, bufs>>,
           \A f \in Fds : Counted(f)' = Counted(f)
    PROVE  KeepsFirstOrLast'
<1>1. \A f \in Fds : bufs[f] = Kept(Counted(f))
  BY CountedIs
<1>2. \A f \in Fds : Kept(Counted(f))' = Kept(Counted(f))
  BY DEF Kept, drainGiven
<1>3. \A f \in Fds : bufs'[f] = Kept(Counted(f))'
  BY <1>1, <1>2
<1> QED
  BY <1>3 DEF KeepsFirstOrLast, Counted

LEMMA DrainKeeps ==
    ASSUME DrainInv, Drain, UNCHANGED expired
    PROVE  /\ DrainInv'
           /\ drain \in {"select", "serve"}
           /\ drain' = "done" => avail' = {} \/ "read" \in expired
<1> USE PipeAssumption
<1>0. PipeInv /\ DrainTypeOK /\ PipeTypeOK /\ ServedInv
  BY DEF DrainInv, PipeInv, DrainTypeOK
<1>1. CASE Select
  <2>1. PICK now \in SUBSET {f \in avail : Readable(f)} :
          now # {} /\ ready' = now
    BY <1>1 DEF Select
  <2>2. DrainTypeOK'
    BY <1>0, <1>1, <2>1
    DEF Select, DrainTypeOK, PipeTypeOK, pipeVars, drainGiven
  <2>3. BufferInv' /\ ServedInv' /\ EndsAtEofOnly'
    BY <1>0, <1>1, <2>1
    DEF Select, DrainInv, BufferInv, ServedInv, EndsAtEofOnly, Readable,
        pipeVars
  <2>4. KeepsFirstOrLast'
    BY <1>1, KeptStays DEF Select, Counted, pipeVars
  <2> QED
    BY <1>1, <2>2, <2>3, <2>4 DEF Select, DrainInv
<1>2. CASE DrainEnds
  <2>1. DrainTypeOK'
    BY <1>0, <1>2
    DEF DrainEnds, DrainTypeOK, PipeTypeOK, pipeVars, drainGiven
  <2>2. BufferInv' /\ ServedInv' /\ EndsAtEofOnly'
    BY <1>0, <1>2
    DEF DrainEnds, DrainInv, BufferInv, ServedInv, EndsAtEofOnly, Readable,
        pipeVars
  <2>3. KeepsFirstOrLast'
    BY <1>2, KeptStays DEF DrainEnds, Counted, pipeVars
  <2> QED
    BY <1>2, <2>1, <2>2, <2>3 DEF DrainEnds, DrainInv
<1>3. ASSUME NEW f \in Fds, Serve(f)
      PROVE  DrainInv' /\ drain \in {"select", "serve"} /\ drain' = drain
  <2>1. /\ PipeInv' /\ call'.on = f /\ call.on = "none"
        /\ handed'[f] - call'.got = handed[f]
        /\ \A g \in Fds \ {f} : handed'[g] = handed[g]
        /\ UNCHANGED <<written, taken, shut>>
        /\ f \in ready
    BY <1>0, <1>3, BeginReadKeeps DEF Serve, BeginRead
  <2>2. DrainTypeOK'
    BY <1>0, <1>3, <2>1 DEF Serve, DrainTypeOK, PipeInv, drainGiven
  <2>3. ServedInv'
    <3>1. \A g \in ready' : Readable(g)'
      BY <1>0, <1>3, <2>1 DEF Serve, ServedInv, Readable, DrainTypeOK
    <3>2. /\ handed[f] \in Nat /\ handed'[f] \in Nat /\ call'.got \in Nat
      BY <1>0, <2>1 DEF PipeInv, PipeTypeOK
    <3>3. call'.got <= handed'[f]
      BY <2>1, <3>2
    <3> QED
      BY <2>1, <3>1, <3>3 DEF ServedInv
  <2>4. EndsAtEofOnly'
    BY <1>0, <1>3, <2>1 DEF Serve, DrainInv, EndsAtEofOnly, DrainTypeOK
  <2>5. \A g \in Fds : Counted(g)' = Counted(g)
    BY <1>0, <2>1 DEF Counted, PipeTypeOK
  <2>6. KeepsFirstOrLast'
    BY <1>3, <2>5, KeptStays DEF Serve
  <2> QED
    BY <1>0, <1>3, <2>1, <2>2, <2>3, <2>4, <2>6
    DEF Serve, DrainInv, PipeInv, DrainTypeOK
<1>4. ASSUME NEW f \in Fds, RawRead(f)
      PROVE  DrainInv' /\ drain \in {"select", "serve"} /\ drain' = drain
  <2>1. /\ PipeInv' /\ call'.on = f /\ call.on = f /\ call'.got > 0
        /\ handed'[f] - call'.got = handed[f] - call.got
        /\ \A g \in Fds \ {f} : handed'[g] = handed[g] /\ taken'[g] = taken[g]
        /\ UNCHANGED <<written, shut>>
        /\ f \in ready
    BY <1>0, <1>4, ReadMoreKeeps DEF RawRead, ReadMore, DrainTypeOK
  <2>2. DrainTypeOK'
    BY <1>0, <1>4, <2>1 DEF RawRead, DrainTypeOK, PipeInv, drainGiven
  <2>3. ServedInv'
    BY <1>0, <1>4, <2>1
    DEF RawRead, ServedInv, Readable, PipeInv, PipeTypeOK, DrainTypeOK
  <2>4. EndsAtEofOnly'
    BY <1>0, <1>4, <2>1 DEF RawRead, DrainInv, EndsAtEofOnly, DrainTypeOK
  <2>5. \A g \in Fds : Counted(g)' = Counted(g)
    BY <1>0, <2>1 DEF Counted, PipeTypeOK
  <2>6. KeepsFirstOrLast'
    BY <1>4, <2>5, KeptStays DEF RawRead
  <2> QED
    BY <1>0, <1>4, <2>1, <2>2, <2>3, <2>4, <2>6
    DEF RawRead, DrainInv, PipeInv, DrainTypeOK
<1>5. ASSUME NEW f \in Fds, ReadReturns(f)
      PROVE  /\ DrainInv' /\ drain \in {"select", "serve"}
             /\ drain' \in {"select", "serve"}
  <2>1. /\ ReadDone(f) /\ call.on = f /\ f \in ready
        /\ ready' = ready \ {f} /\ call' = Idle
        /\ drain' = (IF ready = {f} THEN "select" ELSE "serve")
        /\ UNCHANGED <<written, taken, handed, shut, drainGiven>>
    BY <1>0, <1>5 DEF ReadReturns, ReadDone, DrainTypeOK
  <2>2. PipeInv'
    BY <1>0, <2>1, ReadDoneKeeps
  <2>3. /\ call.got \in 0 .. ReadSize /\ call.got <= handed[f]
        /\ handed[f] \in 0 .. MaxOut
    BY <1>0, <2>1 DEF ServedInv, PipeTypeOK
  <2>4. /\ \A g \in Fds : Counted(g)' = handed[g]
        /\ \A g \in Fds \ {f} : Counted(g) = handed[g]
        /\ Counted(f) = handed[f] - call.got
    BY <1>0, <2>1 DEF Counted, Idle, PipeTypeOK
  <2>5. bufs'[f] = Kept(handed[f]) /\ bufs' \in [Fds -> Seq(1 .. MaxOut)]
        /\ \A g \in Fds \ {f} : bufs'[g] = bufs[g]
    <3>1. CASE call.got = 0
      <4>1. bufs' = bufs
        BY <1>5, <3>1 DEF ReadReturns
      <4>2. Counted(f) = handed[f]
        BY <2>3, <2>4, <3>1
      <4> QED
        BY <1>0, <4>1, <4>2, CountedIs DEF DrainTypeOK
    <3>2. CASE call.got # 0
      <4> DEFINE from == handed[f] - call.got
                 to == handed[f]
      <4>1. bufs' = [bufs EXCEPT ![f] = extend(@, Bytes(from, to))]
        BY <1>5, <3>2 DEF ReadReturns
      <4>2. from \in Nat /\ to \in Nat /\ from < to /\ to \in 0 .. MaxOut
        BY <2>3, <3>2
      <4>3. bufs[f] = Kept(from) /\ max_len \in Nat /\ tail \in BOOLEAN
        BY <1>0, <2>4, CountedIs DEF DrainTypeOK
      <4> HIDE DEF from, to
      <4>4. extend(Kept(from), Bytes(from, to)) = Kept(to)
        BY <4>2, <4>3, ExtendKeeps
      <4>5. Kept(to) \in Seq(1 .. MaxOut)
        BY <4>2, <4>3, KeptAre
      <4>6. bufs' = [bufs EXCEPT ![f] = Kept(to)]
        BY <4>1, <4>3, <4>4
      <4> QED
        BY <1>0, <4>5, <4>6 DEF DrainTypeOK, to
    <3> QED
      BY <3>1, <3>2
  <2>6. KeepsFirstOrLast'
    <3>1. \A g \in Fds : bufs'[g] = Kept(handed[g])
      BY <2>4, <2>5, CountedIs
    <3>2. \A g \in Fds : Kept(Counted(g))' = Kept(handed[g])
      BY <2>1, <2>4 DEF Kept, drainGiven
    <3>3. \A g \in Fds : bufs'[g] = Kept(Counted(g))'
      BY <3>1, <3>2
    <3> QED
      BY <3>3 DEF KeepsFirstOrLast, Counted
  <2>7. avail' \in {avail, avail \ {f}} /\ (call.got # 0 => avail' = avail)
    BY <1>5 DEF ReadReturns
  <2>8. DrainTypeOK'
    BY <1>0, <2>1, <2>2, <2>5, <2>7
    DEF DrainTypeOK, PipeInv, drainGiven, Idle
  <2>9. ServedInv'
    BY <1>0, <2>1 DEF ServedInv, Readable, Idle, DrainTypeOK
  <2>10. EndsAtEofOnly'
    <3>1. drain # "off"
      BY <1>0, <2>1 DEF DrainTypeOK
    <3>2. CASE call.got # 0
      BY <2>1, <2>7, <3>1, <3>2 DEF DrainInv, EndsAtEofOnly
    <3>3. CASE call.got = 0
      <4>1. handed[f] = taken[f] /\ taken[f] = written[f]
        BY <1>0, <2>1, <3>3, NothingIsNothing
      <4>2. Readable(f)
        BY <1>0, <2>1, <3>3 DEF ServedInv
      <4>3. f \in shut
        BY <1>0, <4>1, <4>2 DEF Readable, PipeTypeOK
      <4> QED
        BY <2>1, <2>7, <3>1, <4>1, <4>3 DEF DrainInv, EndsAtEofOnly
    <3> QED
      BY <3>2, <3>3
  <2> QED
    BY <1>0, <2>1, <2>2, <2>6, <2>8, <2>9, <2>10
    DEF DrainInv, PipeInv, DrainTypeOK
<1>6. Drain => Select \/ DrainEnds \/ \E f \in Fds :
                 Serve(f) \/ RawRead(f) \/ ReadReturns(f)
  BY DEF Drain
<1> QED
  BY <1>1, <1>2, <1>3, <1>4, <1>5, <1>6

\* The child writes, or the last holder of a pipe lets go of it.
LEMMA OutputKeeps ==
    ASSUME DrainInv, NEW f \in Fds, Write(f) \/ Shut(f),
           UNCHANGED <<drainGiven, drain, avail, ready, bufs>>
    PROVE  DrainInv'
<1>1. /\ PipeInv'
      /\ UNCHANGED <<taken, handed, call>>
      /\ \A g \in Fds : Readable(g) => Readable(g)'
      /\ \A g \in shut : g \in shut' /\ written'[g] = written[g]
  BY ChildKeeps DEF DrainInv, PipeInv, DrainTypeOK
<1>2. DrainTypeOK'
  BY <1>1 DEF DrainInv, DrainTypeOK, PipeInv, drainGiven
<1>3. ServedInv'
  BY <1>1 DEF DrainInv, ServedInv, DrainTypeOK
<1>4. EndsAtEofOnly'
  BY <1>1 DEF DrainInv, EndsAtEofOnly
<1>5. KeepsFirstOrLast'
  BY <1>1, KeptStays DEF Counted
<1> QED
  BY <1>1, <1>2, <1>3, <1>4, <1>5 DEF DrainInv, PipeInv

-----------------------------------------------------------------------------
(* The synchronous run.                                                    *)

\* What has been done by the time run is where it is.
PhaseInv ==
    /\ pc \in {"start", "write"} => drain = "off"
    /\ pc \in {"wait", "release", "reap"} => drain = "done"
    /\ reply \in {"result", "collected"} => drain = "done"
    /\ pc = "returned" <=> reply # "none"
    /\ drain = "done" => avail = {} \/ "read" \in expired
    /\ pc \in {"start", "write", "read", "wait"} => ~timedOut
    /\ pc = "reap" => Running = {}

IInv ==
    /\ TypeOK
    /\ DrainInv
    /\ PhaseInv
    /\ ReleasedOnResult

LEMMA InvInit == Init => IInv
<1> SUFFICES ASSUME Init PROVE IInv
  OBVIOUS
<1>1. GroupTypeOK
  BY KinAssumption
  DEF Init, GroupInit, GroupTypeOK, Procs, ProcCondition, InGroup, Unreaped
<1>2. DrainInv
  BY DrainInvInit DEF Init
<1>3. TypeOK
  <2>1. DrainTypeOK
    BY <1>2 DEF DrainInv
  <2> QED
    BY <1>1, <2>1, Zenon DEF Init, TypeOK
<1>4. PhaseInv /\ ReleasedOnResult
  BY DEF Init, DrainInit, PhaseInv, ReleasedOnResult
<1> QED
  BY <1>2, <1>3, <1>4 DEF IInv

LEMMA InvNext == IInv /\ [Next]_vars => IInv'
<1> SUFFICES ASSUME IInv, [Next]_vars PROVE IInv'
  OBVIOUS
<1>1. TypeOK /\ GroupTypeOK /\ DrainInv /\ PhaseInv /\ ReleasedOnResult
  BY DEF IInv, TypeOK
<1>2. ASSUME UNCHANGED <<pipeVars, drainGiven, ready, bufs>>,
             \/ UNCHANGED <<drain, avail>>
             \/ drain = "off" /\ DrainBegins
      PROVE  DrainInv'
  <2>1. DrainTypeOK'
    BY <1>1, <1>2
    DEF DrainInv, DrainTypeOK, DrainBegins, PipeTypeOK, pipeVars, drainGiven
  <2>2. BufferInv' /\ ServedInv'
    BY <1>1, <1>2 DEF DrainInv, BufferInv, ServedInv, Readable, pipeVars
  <2>3. EndsAtEofOnly'
    BY <1>1, <1>2 DEF DrainInv, EndsAtEofOnly, DrainBegins, pipeVars
  <2>4. KeepsFirstOrLast'
    BY <1>1, <1>2, KeptStays DEF Counted, pipeVars
  <2> QED
    BY <2>1, <2>2, <2>3, <2>4 DEF DrainInv
<1>3. DrainInv' => DrainTypeOK'
  BY DEF DrainInv
\* run.
<1>4. CASE SpawnFails
  <2>1. DrainInv'
    BY <1>2, <1>4 DEF SpawnFails, drainVars
  <2>2. TypeOK'
    BY <1>1, <1>3, <1>4, <2>1
    DEF SpawnFails, TypeOK, GroupTypeOK, groupVars
  <2>3. PhaseInv' /\ ReleasedOnResult'
    BY <1>1, <1>4 DEF SpawnFails, PhaseInv, ReleasedOnResult, drainVars
  <2> QED
    BY <2>1, <2>2, <2>3 DEF IInv
<1>5. CASE Start
  <2>1. /\ Spawn(IF stdin = "none" THEN {"stdout", "stderr"} ELSE PipeName)
        /\ UNCHANGED <<returncode, silent, stranger, pipeVars, drainGiven,
                       ready, bufs, expired, stdin, writeOk, timedOut,
                       exitCode>>
        /\ pc = "start" /\ stdin \in {"none", "text", "surrogates"}
    BY <1>1, <1>5 DEF Start, TypeOK
  <2>2. \/ /\ pc' = "read" /\ DrainBegins /\ UNCHANGED reply
        \/ /\ pc' = "write" /\ UNCHANGED <<drain, avail, reply>>
        \/ /\ pc' = "returned" /\ reply' = "error"
           /\ UNCHANGED <<drain, avail>>
    BY <1>5, <2>1 DEF Start
  <2>3. GroupTypeOK'
    <3>1. (IF stdin = "none" THEN {"stdout", "stderr"} ELSE PipeName)
            \in SUBSET PipeName
      BY DEF PipeName
    <3> QED
      BY <1>1, <2>1, <3>1, SpawnType
  <2>4. DrainInv'
    BY <1>1, <1>2, <2>1, <2>2 DEF PhaseInv
  <2>5. TypeOK'
    BY <1>1, <1>3, <2>1, <2>2, <2>3, <2>4 DEF TypeOK
  <2>6. PhaseInv' /\ ReleasedOnResult'
    BY <1>1, <2>1, <2>2 DEF PhaseInv, ReleasedOnResult, DrainBegins
  <2> QED
    BY <2>4, <2>5, <2>6 DEF IInv
<1>6. ASSUME NEW ok \in BOOLEAN, WriteReturns(ok) PROVE IInv'
  <2>1. DrainInv'
    BY <1>1, <1>2, <1>6 DEF WriteReturns, PhaseInv
  <2>2. GroupTypeOK'
    BY <1>1, <1>6 DEF WriteReturns, CloseStdin, GroupTypeOK
  <2>3. TypeOK'
    BY <1>1, <1>3, <1>6, <2>1, <2>2 DEF WriteReturns, TypeOK
  <2>4. PhaseInv' /\ ReleasedOnResult'
    BY <1>1, <1>6 DEF WriteReturns, PhaseInv, ReleasedOnResult, DrainBegins
  <2> QED
    BY <2>1, <2>3, <2>4 DEF IInv
<1>7. CASE WriteTimesOut
  BY <1>6, <1>7 DEF WriteTimesOut
<1>8. CASE Collect
  <2>1. /\ DrainInv' /\ drain \in {"select", "serve"}
        /\ drain' = "done" => avail' = {} \/ "read" \in expired
    BY <1>1, <1>8, DrainKeeps DEF Collect
  <2>2. TypeOK'
    BY <1>1, <1>3, <1>8, <2>1
    DEF Collect, TypeOK, GroupTypeOK, groupVars, runVars
  <2>3. PhaseInv' /\ ReleasedOnResult'
    BY <1>1, <1>8, <2>1
    DEF Collect, PhaseInv, ReleasedOnResult, groupVars, runVars
  <2> QED
    BY <2>1, <2>2, <2>3 DEF IInv
<1>9. CASE Collected
  <2>1. DrainInv'
    BY <1>2, <1>9 DEF Collected, drainVars
  <2>2. TypeOK'
    BY <1>1, <1>3, <1>9, <2>1
    DEF Collected, TypeOK, GroupTypeOK, groupVars
  <2>3. PhaseInv' /\ ReleasedOnResult'
    BY <1>1, <1>9
    DEF Collected, PhaseInv, ReleasedOnResult, groupVars, drainVars
  <2> QED
    BY <2>1, <2>2, <2>3 DEF IInv
<1>10. CASE WaitReaps
  <2>1. DrainInv'
    BY <1>2, <1>10 DEF WaitReaps, drainVars
  <2>2. GroupTypeOK'
    BY <1>1, <1>10, PollType DEF WaitReaps, GroupTypeOK, Unreaped
  <2>3. TypeOK'
    BY <1>1, <1>3, <1>10, <2>1, <2>2 DEF WaitReaps, TypeOK
  <2>4. PhaseInv' /\ ReleasedOnResult'
    BY <1>1, <1>10 DEF WaitReaps, PhaseInv, ReleasedOnResult, drainVars
  <2> QED
    BY <2>1, <2>3, <2>4 DEF IInv
<1>11. CASE WaitExpires
  <2>1. DrainInv'
    BY <1>2, <1>11 DEF WaitExpires, drainVars
  <2>2. TypeOK'
    BY <1>1, <1>3, <1>11, <2>1
    DEF WaitExpires, TypeOK, GroupTypeOK, groupVars
  <2>3. PhaseInv' /\ ReleasedOnResult'
    BY <1>1, <1>11
    DEF WaitExpires, PhaseInv, ReleasedOnResult, groupVars, drainVars
  <2> QED
    BY <2>1, <2>2, <2>3 DEF IInv
<1>12. CASE ReleaseKills
  <2>1. DrainInv'
    BY <1>2, <1>12 DEF ReleaseKills, drainVars
  <2>2. GroupTypeOK' /\ Running' = {}
    BY <1>1, <1>12, KillGroupType, KillGroupStopsAll, KinAssumption
    DEF ReleaseKills, GroupTypeOK, Procs, Unreaped
  <2>3. TypeOK'
    BY <1>1, <1>3, <1>12, <2>1, <2>2 DEF ReleaseKills, TypeOK
  <2>4. PhaseInv' /\ ReleasedOnResult'
    BY <1>1, <1>12, <2>2
    DEF ReleaseKills, PhaseInv, ReleasedOnResult, drainVars
  <2> QED
    BY <2>1, <2>3, <2>4 DEF IInv
<1>13. exitCode \in {"none", "forced"} \cup Unreaped =>
         Status \in {"none", "forced"} \cup Unreaped
  BY DEF Status
<1>14. CASE Reaped
  <2>1. DrainInv'
    BY <1>2, <1>14 DEF Reaped, drainVars
  <2>2. GroupTypeOK'
    BY <1>1, <1>14, PollType DEF Reaped, ClosePipes, GroupTypeOK, Unreaped
  <2>3. TypeOK'
    BY <1>1, <1>3, <1>13, <1>14, <2>1, <2>2 DEF Reaped, TypeOK
  <2>4. Running' = {}
    BY <1>1, <1>14, PollType DEF Reaped, PhaseInv, Running, Procs
  <2>5. PhaseInv' /\ ReleasedOnResult'
    BY <1>1, <1>14, <2>4
    DEF Reaped, PhaseInv, ReleasedOnResult, ClosePipes, drainVars
  <2> QED
    BY <2>1, <2>3, <2>5 DEF IInv
<1>15. CASE ReapGivesUp
  <2>1. DrainInv'
    BY <1>2, <1>15 DEF ReapGivesUp, drainVars
  <2>2. GroupTypeOK'
    BY <1>1, <1>15 DEF ReapGivesUp, ClosePipes, GroupTypeOK
  <2>3. TypeOK'
    BY <1>1, <1>3, <1>13, <1>15, <2>1, <2>2 DEF ReapGivesUp, TypeOK
  <2>4. PhaseInv' /\ ReleasedOnResult'
    BY <1>1, <1>15
    DEF ReapGivesUp, PhaseInv, ReleasedOnResult, ClosePipes, Running,
        drainVars
  <2> QED
    BY <2>1, <2>3, <2>4 DEF IInv
\* The user, the clock and the processes.
<1>16. CASE Interrupt
  <2>1. DrainInv'
    BY <1>2, <1>16 DEF Interrupt, drainVars
  <2>2. TypeOK'
    BY <1>1, <1>3, <1>16, <2>1
    DEF Interrupt, TypeOK, GroupTypeOK, groupVars
  <2>3. PhaseInv' /\ ReleasedOnResult'
    BY <1>1, <1>16 DEF Interrupt, PhaseInv, ReleasedOnResult, drainVars
  <2> QED
    BY <2>1, <2>2, <2>3 DEF IInv
<1>17. ASSUME NEW t \in Timer, Expire(t) PROVE IInv'
  <2>1. DrainInv'
    BY <1>2, <1>17 DEF Expire, drainVars
  <2>2. TypeOK'
    BY <1>1, <1>3, <1>17, <2>1
    DEF Expire, TypeOK, GroupTypeOK, groupVars, runVars
  <2>3. PhaseInv' /\ ReleasedOnResult'
    BY <1>1, <1>17
    DEF Expire, PhaseInv, ReleasedOnResult, Running, drainVars, groupVars,
        runVars
  <2> QED
    BY <2>1, <2>2, <2>3 DEF IInv
<1>18. CASE GroupStep
  <2>0. Kernel
    BY <1>18 DEF GroupStep, Kernel
  <2>1. DrainInv'
    BY <1>2, <1>18 DEF GroupStep, drainVars
  <2>2. GroupTypeOK'
    BY <1>1, <2>0, KernelType
  <2>3. TypeOK'
    BY <1>1, <1>3, <1>18, <2>1, <2>2 DEF GroupStep, TypeOK, runVars
  <2>4. Running = {} => Running' = {}
    BY <1>1, <2>0, KernelStartsNothing
  <2>5. PhaseInv' /\ ReleasedOnResult'
    BY <1>1, <1>18, <2>4
    DEF GroupStep, PhaseInv, ReleasedOnResult, drainVars, runVars
  <2> QED
    BY <2>1, <2>3, <2>5 DEF IInv
<1>19. CASE OutputStep
  <2>1. PICK f \in Fds : Write(f) \/ Shut(f)
    BY <1>19 DEF OutputStep
  <2>2. DrainInv'
    BY <1>1, <1>19, <2>1, OutputKeeps DEF OutputStep
  <2>3. TypeOK'
    BY <1>1, <1>3, <1>19, <2>2
    DEF OutputStep, TypeOK, GroupTypeOK, groupVars, runVars
  <2>4. PhaseInv' /\ ReleasedOnResult'
    BY <1>1, <1>19
    DEF OutputStep, PhaseInv, ReleasedOnResult, Running, groupVars, runVars
  <2> QED
    BY <2>2, <2>3, <2>4 DEF IInv
<1>20. CASE UNCHANGED vars
  <2>1. DrainInv'
    BY <1>2, <1>20 DEF vars, drainVars
  <2>2. TypeOK'
    BY <1>1, <1>3, <1>20, <2>1
    DEF vars, TypeOK, GroupTypeOK, groupVars, runVars
  <2>3. PhaseInv' /\ ReleasedOnResult'
    BY <1>1, <1>20
    DEF vars, PhaseInv, ReleasedOnResult, Running, groupVars, runVars,
        drainVars
  <2> QED
    BY <2>1, <2>2, <2>3 DEF IInv
<1> QED
  BY <1>4, <1>5, <1>6, <1>7, <1>8, <1>9, <1>10, <1>11, <1>12, <1>14, <1>15,
     <1>16, <1>17, <1>18, <1>19, <1>20 DEF Next, Run, Terminating

LEMMA Invariant == Spec => []IInv
<1> QED
  BY InvInit, InvNext, PTL DEF Spec

-----------------------------------------------------------------------------
(* The theorems.                                                           *)

\* Every variable of the synchronous run keeps to its values.
THEOREM TypeCorrect == Spec => []TypeOK
<1>1. IInv => TypeOK
  BY DEF IInv
<1> QED
  BY <1>1, Invariant, PTL

\* The buffers hold the first or the last max_output_size bytes read, however
\* the output was cut into chunks (BoundedOutputBuffer.extend).
THEOREM KeptIsExact == Spec => []KeepsFirstOrLast
<1>1. IInv => KeepsFirstOrLast
  BY DEF IInv, DrainInv
<1> QED
  BY <1>1, Invariant, PTL

\* Neither loop takes a read that would block for the end of a pipe.
THEOREM EndsAtEof == Spec => []EndsAtEofOnly
<1>1. IInv => EndsAtEofOnly
  BY DEF IInv, DrainInv
<1> QED
  BY <1>1, Invariant, PTL

\* A run that collected until the pipes ended has all there was to keep.
THEOREM OutputIsComplete == Spec => []OutputComplete
<1>1. IInv => OutputComplete
  <2> SUFFICES ASSUME IInv, reply \in {"result", "collected"},
                      "read" \notin expired, NEW f \in Fds
               PROVE  bufs[f] = Kept(written[f])
    BY DEF OutputComplete
  <2>1. drain = "done" /\ avail = {} /\ DrainInv
    BY DEF IInv, PhaseInv
  <2>2. call.on # f
    BY <2>1, PipeAssumption DEF DrainInv, DrainTypeOK
  <2>3. handed[f] = written[f]
    BY <2>1 DEF DrainInv, EndsAtEofOnly
  <2>4. Counted(f) = handed[f]
    BY <2>1, <2>2 DEF Counted, DrainInv, DrainTypeOK, PipeTypeOK
  <2> QED
    BY <2>1, <2>3, <2>4, CountedIs
<1> QED
  BY <1>1, Invariant, PTL

\* run lets go of the group and of its pipes before it gives a result.
THEOREM Released == Spec => []ReleasedOnResult
<1>1. IInv => ReleasedOnResult
  BY DEF IInv
<1> QED
  BY <1>1, Invariant, PTL

\* Where a child that was seen to have exited in time leads.
SeenInTime ==
    /\ ~timedOut
    /\ \/ pc \in {"release", "reap", "returned"}
       \/ pc \in {"write", "read", "wait"} /\ proc[Child] = "exited"

\* popen.wait looks at the child before it looks at the clock.
THEOREM ExitIsAlwaysSeen == Spec => ExitIsSeen
<1>1. IInv /\ proc[Child] = "exited" /\ pc \in {"write", "read", "wait"}
        => SeenInTime
  BY DEF IInv, PhaseInv, SeenInTime
<1>2. IInv /\ SeenInTime /\ [Next]_vars => SeenInTime'
  <2> SUFFICES ASSUME IInv, SeenInTime, [Next]_vars PROVE SeenInTime'
    OBVIOUS
  <2>1. GroupTypeOK
    BY DEF IInv, TypeOK
  <2>2. CASE SpawnFails \/ Start
    BY <2>2 DEF SpawnFails, Start, SeenInTime
  <2>3. ASSUME NEW ok \in BOOLEAN, WriteReturns(ok) PROVE SeenInTime'
    BY <2>3 DEF WriteReturns, SeenInTime
  <2>4. CASE WriteTimesOut
    BY <2>3, <2>4 DEF WriteTimesOut
  <2>5. CASE Collect \/ Collected
    BY <2>5 DEF Collect, Collected, SeenInTime, groupVars, runVars
  <2>6. CASE WaitReaps \/ WaitExpires
    BY <2>6 DEF WaitReaps, WaitExpires, SeenInTime, Unreaped
  <2>7. CASE ReleaseKills \/ Reaped \/ ReapGivesUp
    BY <2>7 DEF ReleaseKills, Reaped, ReapGivesUp, SeenInTime
  <2>8. CASE Interrupt
    BY <2>8 DEF Interrupt, SeenInTime
  <2>9. CASE (\E t \in Timer : Expire(t)) \/ OutputStep \/ UNCHANGED vars
    BY <2>9 DEF Expire, OutputStep, SeenInTime, vars, groupVars, runVars
  <2>10. CASE GroupStep
    <3>1. Kernel
      BY <2>10 DEF GroupStep, Kernel
    <3>2. proc[Child] = "exited" => proc'[Child] = "exited"
      BY <2>1, <3>1, KernelChild
    <3> QED
      BY <2>10, <3>2 DEF GroupStep, SeenInTime, runVars
  <2> QED
    BY <2>2, <2>3, <2>4, <2>5, <2>6, <2>7, <2>8, <2>9, <2>10
    DEF Next, Run, Terminating
<1>3. SeenInTime => ~timedOut
  BY DEF SeenInTime
<1> QED
  BY <1>1, <1>2, <1>3, Invariant, PTL DEF Spec, ExitIsSeen
=============================================================================
