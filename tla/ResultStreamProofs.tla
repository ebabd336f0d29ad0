-------------------------- MODULE ResultStreamProofs --------------------------
(***************************************************************************)
(* Proofs about ResultStream.  A streamed result uses the feed of          *)
(* Subscriptions and nothing else: every behaviour of ResultStream is one  *)
(* of Subscriptions, so what is proved of the feed holds of a job whose    *)
(* agent streams.  On top of FeedInv comes StreamInv: the chunks are       *)
(* consecutive pieces of the bytes Write accepted, numbered in order, and  *)
(* the reader has taken the first of them; so what CollectChunks returns   *)
(* is what was written.                                                    *)
(***************************************************************************)
EXTENDS ResultStream, SubscriptionsProofs, FiniteSetTheorems, SequenceTheorems,
        WellFoundedInduction, TLAPS

(* A leaf that names no prover is for Zenon; arithmetic is for SMT.        *)
USE ZenonT(60)

-------------------------------------------------------------------------------
(* A streamed result.                                                      *)

(* Each step of the writer and of the reader is a step of the feed or      *)
(* leaves it alone.                                                        *)
LEMMA StreamStep == [StreamNext]_streamVars => [FeedNext]_feedVars
<1> SUFFICES ASSUME [StreamNext]_streamVars PROVE [FeedNext]_feedVars
  OBVIOUS
<1>1. CASE FeedStep
  BY <1>1 DEF FeedStep, FeedNext, JobStep
<1>2. CASE \E e \in {"utf8", "base64"} : StreamResult(e)
  BY <1>2 DEF StreamResult
<1>3. ASSUME NEW g \in Writers,
             (\E p \in Payloads : Write(g, p)) \/ EmitChunk(g) \/ CloseStream(g) \/ Unlock(g)
      PROVE  [FeedNext]_feedVars
  <2>1. CASE (\E p \in Payloads : Write(g, p)) \/ Unlock(g)
    BY <2>1 DEF Write, Unlock
  <2>2. CASE EmitChunk(g) \/ CloseStream(g)
    <3>1. EmitEvent(g)
      BY <2>2 DEF EmitChunk, CloseStream
    <3> QED BY <3>1 DEF FeedNext, Writers
  <2> QED BY <1>3, <2>1, <2>2
<1>4. ASSUME NEW g \in Emitters, SendChunk(g) \/ SendOther(g)
      PROVE  [FeedNext]_feedVars
  <2>1. Send(g)
    BY <1>4 DEF SendChunk, SendOther
  <2> QED BY <2>1 DEF FeedNext
<1>5. CASE FailHandle
  BY <1>5 DEF FailHandle
<1>6. CASE UNCHANGED streamVars
  BY <1>6 DEF streamVars
<1> QED BY <1>1, <1>2, <1>3, <1>4, <1>5, <1>6 DEF StreamNext

(* Streaming a result implements the feed: the chunks of Write and Close   *)
(* are events of the job like any other.                                   *)
THEOREM StreamImplementsFeed == StreamSpec => FeedSpec
<1>1. StreamInit => FeedInit
  BY DEF StreamInit
<1> QED BY <1>1, StreamStep, PTL DEF StreamSpec, FeedSpec

(* So a subscriber of a job that streams misses neither a chunk nor, when  *)
(* run ends the job, the end.                                              *)
THEOREM StreamReachesAll == StreamSpec => [](HistoryComplete /\ EndLearned)
BY StreamImplementsFeed, NothingFallsBetween, EndReachesAll, PTL

-------------------------------------------------------------------------------
(* Assembling chunks.                                                      *)

(* A set that holds 0 and, with each number, the next one, holds them all. *)
LEMMA Induction ==
  ASSUME NEW G, 0 \in G, \A n \in Nat : n \in G => n + 1 \in G
  PROVE  \A n \in Nat : n \in G
<1> DEFINE T == Nat \ G
           R == {s \in Nat \X Nat : s[1] < s[2]}
<1> SUFFICES ASSUME T # {} PROVE FALSE
  OBVIOUS
<1>1. IsWellFoundedOn(R, Nat)
  BY NatLessThanWellFounded DEF OpToRel
<1>2. PICK x \in T : \A y \in T : <<y, x>> \notin R
  <2> HIDE DEF R, T
  <2>1. T \subseteq Nat
    BY DEF T
  <2> QED BY <1>1, <2>1, WFMin
<1>3. x \in Nat /\ x # 0 /\ x - 1 \in Nat /\ (x - 1) + 1 = x /\ x - 1 < x
  BY <1>2, SMTT(30)
<1>4. x - 1 \in T
  BY <1>2, <1>3
<1> QED BY <1>2, <1>3, <1>4

(* The first k elements of a sequence.                                     *)
LEMMA UptoFacts ==
  ASSUME NEW S, NEW acc \in Seq(S), NEW k \in 0..Len(acc)
  PROVE  /\ SubSeq(acc, 1, k) \in Seq(S) /\ Len(SubSeq(acc, 1, k)) = k
         /\ \A j \in 1..k : SubSeq(acc, 1, k)[j] = acc[j]
<1>1. PICK N \in Nat : N = Len(acc)
  BY LenProperties
<1>2. k \in Int /\ k >= 0 /\ \A i \in 1..k : i \in 1..N
  BY <1>1, SMTT(30)
<1>3. \A i \in 1..k : acc[i] \in S
  BY <1>1, <1>2, ElementOfSeq
<1>4. /\ SubSeq(acc, 1, k) \in Seq(S)
      /\ Len(SubSeq(acc, 1, k)) = IF 1 <= k THEN k - 1 + 1 ELSE 0
      /\ \A j \in 1..(k - 1 + 1) : SubSeq(acc, 1, k)[j] = acc[1 + j - 1]
  BY <1>2, <1>3, SubSeqProperties, SMTT(30)
<1>5. (IF 1 <= k THEN k - 1 + 1 ELSE 0) = k /\ k - 1 + 1 = k /\ \A j \in 1..k : 1 + j - 1 = j
  BY <1>2, SMTT(30)
<1> QED BY <1>4, <1>5

(* The first x elements and the l that follow are the first x + l.         *)
LEMMA UptoConcat ==
  ASSUME NEW S, NEW acc \in Seq(S), NEW b \in Seq(S), NEW x \in Nat
  PROVE  (/\ x + Len(b) <= Len(acc)
          /\ \A j \in 1..Len(b) : b[j] = acc[x + j])
           => SubSeq(acc, 1, x) \o b = SubSeq(acc, 1, x + Len(b))
<1>1. PICK l \in Nat, N \in Nat : l = Len(b) /\ N = Len(acc)
  BY LenProperties
<1>2. ASSUME x + l <= N, \A j \in 1..l : b[j] = acc[x + j]
      PROVE  SubSeq(acc, 1, x) \o b = SubSeq(acc, 1, x + l)
  <2>1. x \in 0..N /\ x + l \in 0..N
    BY <1>2, SMTT(30)
  <2>2. PICK u \in Seq(S) : u = SubSeq(acc, 1, x) /\ Len(u) = x /\ \A j \in 1..x : u[j] = acc[j]
    <3>1. /\ SubSeq(acc, 1, x) \in Seq(S) /\ Len(SubSeq(acc, 1, x)) = x
          /\ \A j \in 1..x : SubSeq(acc, 1, x)[j] = acc[j]
      BY <1>1, <2>1, UptoFacts
    <3> QED BY <3>1
  <2>3. PICK v \in Seq(S) : /\ v = SubSeq(acc, 1, x + l) /\ Len(v) = x + l
                            /\ \A j \in 1..(x + l) : v[j] = acc[j]
    <3>1. /\ SubSeq(acc, 1, x + l) \in Seq(S) /\ Len(SubSeq(acc, 1, x + l)) = x + l
          /\ \A j \in 1..(x + l) : SubSeq(acc, 1, x + l)[j] = acc[j]
      BY <1>1, <2>1, UptoFacts
    <3> QED BY <3>1
  <2>4. /\ u \o b \in Seq(S) /\ Len(u \o b) = Len(u) + Len(b)
        /\ \A j \in 1..(Len(u) + Len(b)) :
             (u \o b)[j] = IF j <= Len(u) THEN u[j] ELSE b[j - Len(u)]
    BY ConcatProperties
  <2>5. /\ u \o b \in Seq(S) /\ Len(u \o b) = x + l
        /\ \A j \in 1..(x + l) : (u \o b)[j] = IF j <= x THEN u[j] ELSE b[j - x]
    BY <1>1, <2>2, <2>4
  <2>6. ASSUME NEW j \in 1..(x + l) PROVE (u \o b)[j] = v[j]
    <3>1. CASE j <= x
      <4>1. j \in 1..x
        BY <3>1, SMTT(30)
      <4> QED BY <2>2, <2>3, <2>5, <3>1, <4>1
    <3>2. CASE ~ (j <= x)
      <4>1. j - x \in 1..l /\ x + (j - x) = j
        BY <3>2, SMTT(30)
      <4>2. b[j - x] = acc[x + (j - x)]
        BY <1>2, <4>1
      <4> QED BY <2>3, <2>5, <3>2, <4>1, <4>2
    <3> QED BY <3>1, <3>2
  <2>7. u \o b = v
    BY <2>3, <2>5, <2>6, SeqEqual
  <2> QED BY <2>2, <2>3, <2>7
<1> QED BY <1>1, <1>2

(* What assembleChunks puts together: whatever behaves like its loop is    *)
(* what it returns.                                                        *)
LEMMA JoinedSteps ==
  ASSUME NEW d, NEW n \in Nat, NEW e, e[0] = <<>>,
         \A i \in 1..n : e[i] = e[i - 1] \o d[i]
  PROVE  Joined(d, n) = e[n]
<1> DEFINE Step(f) == [i \in 0..n |-> IF i = 0 THEN <<>> ELSE f[i - 1] \o d[i]]
           joined == CHOOSE f : f = Step(f)
           whole == [i \in 0..n |-> e[i]]
<1>1. Joined(d, n) = joined[n]
  BY DEF Joined
<1>2. whole = Step(whole)
  <2>1. \A i \in 0..n : i # 0 => i \in 1..n /\ i - 1 \in 0..n
    BY SMTT(30)
  <2>2. \A i \in 0..n : whole[i] = e[i] /\ (i # 0 => whole[i - 1] = e[i - 1])
    BY <2>1
  <2>3. \A i \in 0..n : whole[i] = IF i = 0 THEN <<>> ELSE whole[i - 1] \o d[i]
    <3> HIDE DEF whole
    <3> QED BY <2>1, <2>2
  <2>4. whole = [i \in 0..n |-> whole[i]]
    OBVIOUS
  <2> HIDE DEF whole
  <2> QED BY <2>3, <2>4
<1>3. joined = Step(joined)
  <2> HIDE DEF Step, whole
  <2> QED BY <1>2
<1> HIDE DEF joined
<1>4. \A i \in 0..n : joined[i] = IF i = 0 THEN <<>> ELSE joined[i - 1] \o d[i]
  BY <1>3
<1> DEFINE G == {i \in Nat : i \in 0..n => joined[i] = e[i]}
<1>5. 0 \in G
  BY <1>4
<1>6. ASSUME NEW i \in Nat, i \in G PROVE i + 1 \in G
  <2>1. CASE i + 1 \in 0..n
    <3>1. i \in 0..n /\ i + 1 \in 1..n /\ (i + 1) - 1 = i /\ i + 1 # 0
      BY <2>1, SMTT(30)
    <3>2. joined[i] = e[i]
      BY <1>6, <3>1
    <3>3. joined[i + 1] = joined[i] \o d[i + 1]
      BY <1>4, <2>1, <3>1
    <3>4. e[i + 1] = e[i] \o d[i + 1]
      BY <3>1
    <3>5. joined[i + 1] = e[i + 1]
      BY <3>2, <3>3, <3>4
    <3> QED BY <3>5, SMTT(30)
  <2>2. CASE i + 1 \notin 0..n
    BY <2>2, SMTT(30)
  <2> QED BY <2>1, <2>2
<1>7. n \in G
  <2> HIDE DEF G
  <2> QED BY <1>5, <1>6, Induction
<1> QED BY <1>1, <1>7, SMTT(30)

\* d is the pieces of acc between n + 1 cuts, the first of them at 0.
AreCut(S, acc, n, cut, d) ==
  /\ d \in Seq(Seq(S)) /\ Len(d) = n
  /\ cut \in [0..n -> 0..Len(acc)] /\ cut[0] = 0
  /\ \A i \in 1..n : /\ cut[i - 1] + Len(d[i]) = cut[i]
                     /\ \A j \in 1..Len(d[i]) : d[i][j] = acc[cut[i - 1] + j]

(* The pieces of a sequence, put together one after the other, are its     *)
(* beginning up to the last cut.                                           *)
LEMMA Pieces ==
  ASSUME NEW S, NEW acc \in Seq(S), NEW n \in Nat, NEW cut, NEW d
  PROVE  AreCut(S, acc, n, cut, d) => Joined(d, n) = SubSeq(acc, 1, cut[n])
<1>1. PICK N \in Nat : N = Len(acc)
  BY LenProperties
<1>2. ASSUME d \in Seq(Seq(S)), Len(d) = n, cut \in [0..n -> 0..N], cut[0] = 0,
             \A i \in 1..n : /\ cut[i - 1] + Len(d[i]) = cut[i]
                             /\ \A j \in 1..Len(d[i]) : d[i][j] = acc[cut[i - 1] + j]
      PROVE  Joined(d, n) = SubSeq(acc, 1, cut[n])
  <2>1. SubSeq(acc, 1, 0) = <<>>
    BY SubSeqEmpty, SMTT(30)
  <2>2. ASSUME NEW i \in 1..n PROVE SubSeq(acc, 1, cut[i]) = SubSeq(acc, 1, cut[i - 1]) \o d[i]
    <3>1. PICK b \in Seq(S) : b = d[i]
      BY <1>2, ElementOfSeq
    <3>2. i - 1 \in 0..n /\ i \in 0..n
      BY SMTT(30)
    <3>3. PICK x \in 0..N : x = cut[i - 1]
      BY <1>2, <3>2
    <3>4. cut[i] \in 0..N
      BY <1>2, <3>2
    <3>5. x + Len(b) = cut[i] /\ \A j \in 1..Len(b) : b[j] = acc[x + j]
      BY <1>2, <3>1, <3>3
    <3>6. x \in Nat /\ x + Len(b) <= Len(acc)
      BY <1>1, <3>4, <3>5, SMTT(30)
    <3>7. SubSeq(acc, 1, x) \o b = SubSeq(acc, 1, x + Len(b))
      BY <3>5, <3>6, UptoConcat
    <3> QED BY <3>1, <3>3, <3>5, <3>7
  <2> DEFINE e == [i \in 0..n |-> SubSeq(acc, 1, cut[i])]
  <2>3. e[0] = <<>> /\ e[n] = SubSeq(acc, 1, cut[n])
    BY <1>2, <2>1, SMTT(30)
  <2>4. ASSUME NEW i \in 1..n PROVE e[i] = e[i - 1] \o d[i]
    <3>1. i - 1 \in 0..n /\ i \in 0..n
      BY SMTT(30)
    <3> QED BY <2>2, <3>1
  <2> HIDE DEF e
  <2>5. Joined(d, n) = e[n]
    BY <2>3, <2>4, JoinedSteps
  <2> QED BY <2>3, <2>5
<1> QED BY <1>1, <1>2 DEF AreCut

Bytes == {"a", "L", "C"}

\* Whoever is inside Write or Close; Close waits for the Write before it.
WriterInv ==
  /\ chunkSeq \in Nat /\ accepted \in Seq(Bytes) /\ pending \in Seq(Bytes)
  /\ holder = "none" => pending = <<>>
  /\ closedBy # "none" => pending = <<>> /\ \E c \in chunks : ~c.more
  /\ closedBy = "run" => holder \in {"none", "run"}
  /\ holder = "run" => run = "body"

\* Each chunk has an event and a place of its own, and the last is empty.
ChunkInv ==
  /\ \A c \in chunks :
       /\ c.seq \in 0..chunkSeq /\ c.ev \in 1..seq
       /\ ~c.more => c.seq = chunkSeq
       /\ c.seq = chunkSeq => c.data = <<>> /\ closedBy # "none"
  /\ \A c, d \in chunks : c.ev = d.ev => c = d

\* The chunks cut what was accepted into pieces, and what is pending follows
\* the last of them.  Encoding may cost a byte its value, but not its place.
Piece(c, from, to) ==
  /\ c.data \in Seq(Bytes \cup {"?"}) /\ from + Len(c.data) = to
  /\ \A i \in 1..Len(c.data) : c.data[i] \in {accepted[from + i], "?"}

Cuts(cut) ==
  /\ cut[0] = 0 /\ cut[chunkSeq] + Len(pending) = Len(accepted)
  /\ \A i \in 1..Len(pending) : pending[i] = accepted[cut[chunkSeq] + i]
  /\ \A c \in chunks : c.seq < chunkSeq => Piece(c, cut[c.seq], cut[c.seq + 1])

CutInv == \E cut \in [0..chunkSeq -> 0..Len(accepted)] : Cuts(cut)

\* Goroutine g has chunk c to send, which it does before it unlocks the stream.
InFlight(g, c) == At(g, "send") /\ emit[g].ev = c.ev
FlightInv == \A g \in Emitters, c \in chunks : InFlight(g, c) => holder = g

\* CollectChunks has every chunk sent, and returns bytes once the last is among
\* them, or with what there is when the handle ends.
SeenLast == \E c \in by : ~c.more

ReadInv ==
  /\ by \subseteq chunks /\ IsFiniteSet(by)
  /\ Reads => \A c \in chunks : c \in by \/ \E g \in Emitters : InFlight(g, c)
  /\ collect = "bytes" => Contiguous(by)
  /\ handle = "result" => terminal = "run"
  /\ collect = "bytes" /\ (handle = "open" \/ (handle = "result" /\ closedBy = "run"))
       => SeenLast

StreamInv == WriterInv /\ ChunkInv /\ CutInv /\ FlightInv /\ ReadInv

(* What CollectChunks returns is what was accepted up to a cut, and all of *)
(* it when the last chunk has been seen.                                   *)
LEMMA AssembledUpto ==
  ASSUME StreamInv, collect = "bytes", WholeCharacters
  PROVE  \E k \in 0..Len(accepted) : /\ Assembled = SubSeq(accepted, 1, k)
                                     /\ SeenLast => k = Len(accepted)
<1>0. WriterInv /\ ChunkInv /\ CutInv /\ ReadInv
  BY DEF StreamInv
<1>1. PICK N \in Nat, m \in Nat : N = Len(accepted) /\ m = chunkSeq
  BY <1>0, LenProperties DEF WriterInv
<1>2. PICK n \in Nat : n = Cardinality(by)
  BY <1>0, FS_CardinalityType DEF ReadInv
<1>3. {c.seq : c \in by} = 0..(n - 1) /\ by \subseteq chunks
  BY <1>0, <1>2 DEF ReadInv, Contiguous
<1>4. PICK cut \in [0..m -> 0..N] : Cuts(cut)
  BY <1>0, <1>1 DEF CutInv
<1>5. \A c \in by : c.seq \in 0..m
  BY <1>0, <1>1, <1>3 DEF ChunkInv
<1>6. n <= m + 1
  <2>1. CASE n # 0
    <3>1. n - 1 \in 0..(n - 1)
      BY <2>1, SMTT(30)
    <3>2. PICK c \in by : c.seq = n - 1
      BY <1>3, <3>1
    <3> QED BY <1>5, <3>2, SMTT(30)
  <2> QED BY <2>1, SMTT(30)
<1> DEFINE S == Bytes \cup {"?"}
           ch(i) == CHOOSE c \in by : c.seq = i - 1
           d == [i \in 1..n |-> ch(i).data]
           full == [k \in 0..n |-> IF k <= m THEN cut[k] ELSE cut[m]]
<1>7. \A i \in 1..n : ch(i) \in by /\ ch(i) \in chunks /\ ch(i).seq = i - 1
  <2>1. ASSUME NEW i \in 1..n PROVE \E c \in by : c.seq = i - 1
    <3>1. i - 1 \in 0..(n - 1)
      BY SMTT(30)
    <3> QED BY <1>3, <3>1
  <2> QED BY <1>3, <2>1
<1>8. full \in [0..n -> 0..N] /\ full[0] = 0
  BY <1>1, <1>4, SMTT(30) DEF Cuts
<1>9. ASSUME NEW i \in 1..n
      PROVE  /\ d[i] \in Seq(S) /\ full[i - 1] + Len(d[i]) = full[i]
             /\ \A j \in 1..Len(d[i]) : d[i][j] = accepted[full[i - 1] + j]
  <2>1. PICK c \in chunks : c.seq = i - 1 /\ d[i] = c.data
    BY <1>7
  <2>2. i - 1 \in 0..n /\ i \in 0..n /\ i - 1 \in 0..m /\ (i - 1) + 1 = i
    BY <1>6, SMTT(30)
  <2>3. full[i - 1] = cut[i - 1] /\ full[i - 1] \in 0..N
    BY <1>4, <2>2, SMTT(30)
  <2>4. CASE i <= m
    <3>1. Piece(c, cut[i - 1], cut[i])
      <4>1. c.seq < chunkSeq
        BY <1>1, <2>1, <2>4, SMTT(30)
      <4>2. Piece(c, cut[c.seq], cut[c.seq + 1])
        BY <1>4, <4>1 DEF Cuts
      <4> QED BY <2>1, <2>2, <4>2
    <3>2. full[i] = cut[i]
      BY <2>2, <2>4
    <3>3. \A j \in 1..Len(c.data) : c.data[j] # "?"
      BY <3>1, LenProperties DEF WholeCharacters, Piece
    <3> QED BY <2>1, <2>3, <3>1, <3>2, <3>3 DEF Piece
  <2>5. CASE ~ (i <= m)
    <3>1. i - 1 = m /\ full[i] = cut[m]
      BY <2>2, <2>5, SMTT(30)
    <3>2. c.data = <<>>
      BY <1>0, <1>1, <2>1, <3>1 DEF ChunkInv
    <3>3. d[i] = <<>> /\ full[i - 1] = full[i] /\ Len(d[i]) = 0
      BY <2>1, <2>3, <3>1, <3>2, EmptySeq
    <3>4. d[i] \in Seq(S)
      BY <3>3, EmptySeq
    <3>5. 1..0 = {}
      BY SMTT(30)
    <3> HIDE DEF d, full
    <3> QED BY <2>3, <3>3, <3>4, <3>5, SMTT(30)
  <2> QED BY <2>4, <2>5
<1>10. d \in Seq(Seq(S)) /\ Len(d) = n /\ accepted \in Seq(S)
  <2>1. accepted \in Seq(S)
    BY <1>0, SMTT(30) DEF WriterInv
  <2>2. d = [i \in 1..n |-> d[i]]
    BY SMTT(30)
  <2>3. \A i \in 1..n : d[i] \in Seq(S)
    BY <1>9
  <2> HIDE DEF d, S
  <2>4. PICK T : T = Seq(S)
    OBVIOUS
  <2>5. d \in [1..n -> T]
    BY <2>2, <2>3, <2>4
  <2>6. d \in Seq(T) /\ Len(d) = n
    BY <2>5, SeqDef, LenProperties, SMTT(30)
  <2> QED BY <2>1, <2>4, <2>6
<1>11. Assembled = Joined(d, n)
  BY <1>2 DEF Assembled
<1>12. Assembled = SubSeq(accepted, 1, full[n])
  <2>1. \A i \in 1..n : /\ full[i - 1] + Len(d[i]) = full[i]
                        /\ \A j \in 1..Len(d[i]) : d[i][j] = accepted[full[i - 1] + j]
    BY <1>9
  <2>2. full \in [0..n -> 0..Len(accepted)] /\ full[0] = 0
    BY <1>1, <1>8
  <2> HIDE DEF d, full, S
  <2>3. Joined(d, n) = SubSeq(accepted, 1, full[n])
    <3>1. AreCut(S, accepted, n, full, d)
      BY <1>10, <2>1, <2>2 DEF AreCut
    <3> QED BY <1>10, <3>1, Pieces, SMTT(30)
  <2> QED BY <1>11, <2>3
<1>13. ASSUME SeenLast PROVE full[n] = N
  <2>1. PICK c \in by : c.seq = m /\ c \in chunks
    BY <1>0, <1>1, <1>3, <1>13 DEF SeenLast, ChunkInv
  <2>2. n = m + 1
    <3>1. m \in 0..(n - 1)
      BY <1>3, <2>1
    <3> QED BY <1>6, <3>1, SMTT(30)
  <2>3. pending = <<>>
    BY <1>0, <1>1, <2>1 DEF ChunkInv, WriterInv
  <2>4. full[n] = cut[m] /\ cut[m] \in 0..N
    BY <1>4, <2>2, SMTT(30)
  <2>5. cut[m] + 0 = N
    BY <1>1, <1>4, <2>3, EmptySeq DEF Cuts
  <2> QED BY <2>4, <2>5, SMTT(30)
<1>14. full[n] \in 0..N
  BY <1>8, SMTT(30)
<1> HIDE DEF full
<1> QED BY <1>1, <1>12, <1>13, <1>14

(* So the invariant gives the submitter what the agent wrote.              *)
LEMMA ExactFromInv == StreamInv => ChunksExact
<1> SUFFICES ASSUME StreamInv, collect = "bytes", WholeCharacters
             PROVE  /\ \E n \in 0..Len(accepted) : Assembled = SubSeq(accepted, 1, n)
                    /\ ((\E c \in by : ~c.more) \/ (handle = "result" /\ closedBy = "run"))
                         => Assembled = accepted
  BY DEF ChunksExact
<1>1. PICK k \in 0..Len(accepted) : /\ Assembled = SubSeq(accepted, 1, k)
                                    /\ SeenLast => k = Len(accepted)
  BY AssembledUpto
<1>2. accepted \in Seq(Bytes)
  BY DEF StreamInv, WriterInv
<1>3. PICK a \in Seq(Bytes) : a = Assembled /\ Len(a) = k /\ \A j \in 1..k : a[j] = accepted[j]
  <2>1. /\ SubSeq(accepted, 1, k) \in Seq(Bytes) /\ Len(SubSeq(accepted, 1, k)) = k
        /\ \A j \in 1..k : SubSeq(accepted, 1, k)[j] = accepted[j]
    BY <1>2, UptoFacts
  <2> QED BY <1>1, <2>1
<1>4. ASSUME SeenLast PROVE Assembled = accepted
  BY <1>1, <1>2, <1>3, <1>4, SeqEqual
<1>5. handle = "result" /\ closedBy = "run" => SeenLast
  BY DEF StreamInv, ReadInv
<1> QED BY <1>1, <1>4, <1>5 DEF SeenLast

(* The goroutines of the agent are among those that emit, and none of them *)
(* is called "none".                                                       *)
LEMMA WritersEmit == Writers \subseteq Emitters /\ "none" \notin Emitters
BY StreamAssumption DEF Writers, Emitters

(* What a step of the feed that sends nothing does to what the stream      *)
(* reads of it.                                                            *)
LEMMA FeedStepFacts ==
  ASSUME FeedInv, FeedStep
  PROVE  /\ seq' \in {seq, seq + 1}
         /\ \A h \in Emitters : \/ emit'[h] = emit[h]
                                \/ emit[h].at # "send" /\ emit'[h].at # "send"
                                \/ emit[h].at # "send" /\ emit'[h].ev = seq + 1
         /\ terminal = "run" => terminal' = "run"
         /\ (run = "body" /\ holder = "run") => run' = "body"
<1>0. FeedTypes /\ EmitInv
  BY DEF FeedInv
<1> USE DEF jobVars, subVars
<1>1. ASSUME NEW g \in Emitters, EmitTerminal(g)
      PROVE  /\ seq' = seq + 1 /\ terminal' = terminal /\ run' = run
             /\ emit[g].at # "send" /\ emit'[g].ev = seq + 1
             /\ \A h \in Emitters : h # g => emit'[h] = emit[h]
  <2>1. Alloc(g) /\ seq' = seq + 1 /\ terminal' = terminal /\ run' = run
    BY <1>1 DEF EmitTerminal, Alloc
  <2>2. /\ emit'[g] = [at |-> "send", ev |-> seq + 1, rest |-> {}] /\ emit[g].at = "idle"
        /\ \A h \in Emitters : h # g => emit'[h] = emit[h]
    BY <1>0, <2>1, AllocEmit
  <2> QED BY <2>1, <2>2, SMTT(30)
<1>2. ASSUME NEW g \in Emitters,
             FanoutEvent(g) \/ (\E s \in Subscribers : Publish(g, s)) \/ Emitted(g)
      PROVE  /\ seq' = seq /\ terminal' = terminal /\ (run = "body" => run' = "body")
             /\ emit[g].at # "send" /\ emit'[g].at # "send"
             /\ \A h \in Emitters : h # g => emit'[h] = emit[h]
  <2>1. /\ seq' = seq /\ terminal' = terminal /\ (run = "body" => run' = "body")
        /\ emit[g].at # "send"
    BY <1>2 DEF FanoutEvent, Publish, Emitted, At
  <2>2. \A h \in Emitters : h # g => emit'[h] = emit[h]
    BY <1>0, <1>2, StepEmit
  <2>3. CASE FanoutEvent(g)
    <3>1. emit'[g] = [at |-> "publish", ev |-> emit[g].ev, rest |-> subs]
      BY <1>0, <2>3, StepEmit
    <3> QED BY <2>1, <2>2, <3>1, SMTT(30)
  <2>4. ASSUME NEW s \in Subscribers, Publish(g, s) PROVE emit'[g].at # "send"
    <3>1. emit'[g] = [at |-> "publish", ev |-> emit[g].ev, rest |-> emit[g].rest \ {s}]
      BY <1>0, <2>4, StepEmit
    <3> QED BY <3>1, SMTT(30)
  <2>5. CASE Emitted(g)
    <3>1. emit'[g] = [at |-> "idle", ev |-> 0, rest |-> {}]
      BY <1>0, <2>5, StepEmit
    <3> QED BY <2>1, <2>2, <3>1, SMTT(30)
  <2> QED BY <1>2, <2>1, <2>2, <2>3, <2>4, <2>5
<1>3. CASE Start \/ (holder # "run" /\ AgentReturns) \/ TimerFires \/ Unregister
  BY <1>3 DEF Start, AgentReturns, TimerFires, Unregister
<1>4. CASE \E s \in Subscribers : SubscriberStep(s)
  BY <1>4 DEF SubscriberStep, Lookup, AddSubscriber, Subscribed, ReadHistory, Unsubscribe
<1>5. CASE \E g \in Emitters : EmitStep(g)
  <2>1. PICK g \in Emitters : EmitStep(g)
    BY <1>5
  <2>2. CASE EmitTerminal(g)
    BY <1>1, <2>2
  <2>3. CASE FanoutEvent(g) \/ (\E s \in Subscribers : Publish(g, s)) \/ Emitted(g)
    BY <1>2, <2>3
  <2> QED BY <2>1, <2>2, <2>3 DEF EmitStep
<1> QED BY <1>3, <1>4, <1>5 DEF FeedStep

(* What emitting an event does.                                            *)
LEMMA EmitEventFacts ==
  ASSUME FeedInv, NEW g \in Writers, EmitEvent(g)
  PROVE  /\ seq' = seq + 1 /\ run' = run /\ terminal' = terminal
         /\ emit[g].at = "idle" /\ emit'[g].at = "send" /\ emit'[g].ev = seq + 1
         /\ \A h \in Emitters : h # g => emit'[h] = emit[h]
         /\ g = "run" => run = "body"
<1>1. /\ Alloc(g) /\ seq' = seq + 1 /\ run' = run /\ terminal' = terminal
      /\ (g = "run" => run = "body") /\ g \in Emitters /\ FeedTypes
  BY WritersEmit DEF EmitEvent, MayEmit, Alloc, jobVars, FeedInv
<1>2. /\ emit'[g] = [at |-> "send", ev |-> seq + 1, rest |-> {}] /\ emit[g].at = "idle"
      /\ \A h \in Emitters : h # g => emit'[h] = emit[h]
  BY <1>1, AllocEmit
<1> QED BY <1>1, <1>2, SMTT(30)

(* What sending one does.                                                  *)
LEMMA SendFacts ==
  ASSUME FeedInv, NEW g \in Emitters, Send(g)
  PROVE  /\ seq' = seq /\ run' = run /\ terminal' = terminal
         /\ emit[g].at = "send" /\ emit'[g].at = "fanout"
         /\ \A h \in Emitters : h # g => emit'[h] = emit[h]
<1>1. /\ seq' = seq /\ run' = run /\ terminal' = terminal /\ emit[g].at = "send" /\ FeedTypes
  BY DEF Send, At, jobVars, FeedInv
<1>2. /\ emit'[g] = [at |-> "fanout", ev |-> emit[g].ev, rest |-> emit[g].rest]
      /\ \A h \in Emitters : h # g => emit'[h] = emit[h]
  BY <1>1, StepEmit
<1> QED BY <1>1, <1>2, SMTT(30)

(* The feed and the reader leave the writer's state alone.                 *)
LEMMA OthersWrite ==
  ASSUME FeedStep \/ (\E g \in Emitters : SendChunk(g) \/ SendOther(g)) \/ FailHandle
  PROVE  UNCHANGED <<chunkSeq, closedBy, holder, pending, accepted, chunks>>
<1>1. CASE FeedStep
  BY <1>1 DEF FeedStep, writeVars
<1>2. ASSUME NEW g \in Emitters, SendChunk(g)
      PROVE  UNCHANGED <<chunkSeq, closedBy, holder, pending, accepted, chunks>>
  BY <1>2 DEF SendChunk, writeVars
<1>3. ASSUME NEW g \in Emitters, SendOther(g)
      PROVE  UNCHANGED <<chunkSeq, closedBy, holder, pending, accepted, chunks>>
  BY <1>3 DEF SendOther, Finish, writeVars
<1>4. CASE FailHandle
  BY <1>4 DEF FailHandle, Finish, writeVars
<1> QED BY <1>1, <1>2, <1>3, <1>4

(* So does a step of theirs that is no step of the agent's goroutines; and *)
(* event_seqs grow.                                                        *)
LEMMA OthersJob ==
  ASSUME FeedInv,
         FeedStep \/ (\E g \in Emitters : SendChunk(g) \/ SendOther(g)) \/ FailHandle
  PROVE  /\ seq' \in {seq, seq + 1}
         /\ (run = "body" /\ holder = "run") => run' = "body"
<1>1. ASSUME NEW g \in Emitters, SendChunk(g) \/ SendOther(g)
      PROVE  seq' = seq /\ run' = run
  BY <1>1, SendFacts DEF SendChunk, SendOther
<1>2. FailHandle => seq' = seq /\ run' = run
  BY DEF FailHandle, feedVars, jobVars
<1> QED BY <1>1, <1>2, FeedStepFacts

(* Only the goroutine inside Write has something left to emit, and Close   *)
(* leaves nothing.                                                         *)
LEMMA WriterStep ==
  ASSUME FeedInv, WriterInv, StreamNext
  PROVE  WriterInv'
<1> USE DEF WriterInv
<1>0. \A g \in Writers : g # "none"
  BY WritersEmit
<1>1. CASE FeedStep \/ (\E g \in Emitters : SendChunk(g) \/ SendOther(g)) \/ FailHandle
  <2>1. UNCHANGED <<chunkSeq, closedBy, holder, pending, accepted, chunks>>
    BY <1>1, OthersWrite
  <2>2. (run = "body" /\ holder = "run") => run' = "body"
    BY <1>1, OthersJob
  <2> QED BY <2>1, <2>2
<1>2. CASE \E e \in {"utf8", "base64"} : StreamResult(e)
  BY <1>2 DEF StreamResult, feedVars, jobVars
<1>3. ASSUME NEW g \in Writers, NEW p \in Payloads, Write(g, p) PROVE WriterInv'
  <2>1. /\ closedBy = "none" /\ holder' = g /\ pending' = p /\ accepted' = accepted \o p
        /\ UNCHANGED <<chunkSeq, closedBy, chunks, run>> /\ (g = "run" => run = "body")
    BY <1>3 DEF Write, MayEmit, feedVars, jobVars
  <2>2. p \in Seq(Bytes)
    BY StreamAssumption DEF Bytes
  <2>3. accepted \o p \in Seq(Bytes)
    BY <2>2, ConcatProperties
  <2> QED BY <1>0, <2>1, <2>2, <2>3
<1>4. ASSUME NEW g \in Writers, EmitChunk(g) PROVE WriterInv'
  <2>1. PICK L \in Nat : L = Len(pending)
    BY LenProperties
  <2>2. PICK n \in 0..L : pending' = SubSeq(pending, n + 1, L)
    <3>1. (IF L < ChunkSize THEN L ELSE ChunkSize) \in 0..L
      BY StreamAssumption, SMTT(30)
    <3> QED BY <1>4, <2>1, <3>1 DEF EmitChunk
  <2>3. pending' \in Seq(Bytes)
    <3>1. \A i \in (n + 1)..L : pending[i] \in Bytes
      BY <2>1, ElementOfSeq, SMTT(30)
    <3> QED BY <2>1, <2>2, <3>1, SubSeqProperties, SMTT(30)
  <2>4. /\ holder = g /\ closedBy = "none" /\ chunkSeq' = chunkSeq + 1
        /\ UNCHANGED <<closedBy, holder, accepted>>
    BY <1>4 DEF EmitChunk
  <2>5. run' = run
    BY <1>4, EmitEventFacts DEF EmitChunk
  <2> QED BY <1>0, <2>3, <2>4, <2>5, SMTT(30)
<1>5. ASSUME NEW g \in Writers, CloseStream(g) PROVE WriterInv'
  <2>1. /\ pending = <<>> /\ closedBy' = g /\ holder' = g /\ EmitEvent(g)
        /\ UNCHANGED <<chunkSeq, pending, accepted>>
        /\ ResultChunk(<<>>, FALSE) \in chunks'
    BY <1>5 DEF CloseStream
  <2>2. run' = run /\ (g = "run" => run = "body")
    BY <2>1, EmitEventFacts
  <2>3. \E c \in chunks' : ~c.more
    <3>1. ResultChunk(<<>>, FALSE).more = FALSE
      BY DEF ResultChunk
    <3> QED BY <2>1, <3>1
  <2> QED BY <1>0, <2>1, <2>2, <2>3
<1>6. ASSUME NEW g \in Writers, Unlock(g) PROVE WriterInv'
  <2>1. /\ pending = <<>> /\ holder' = "none"
        /\ UNCHANGED <<chunkSeq, closedBy, pending, accepted, chunks>>
    BY <1>6 DEF Unlock
  <2> QED BY <2>1
<1> QED BY <1>1, <1>2, <1>3, <1>4, <1>5, <1>6 DEF StreamNext

(* The chunks are numbered as they are emitted, the last one last.         *)
LEMMA ChunkStep ==
  ASSUME FeedInv, WriterInv, ChunkInv, StreamNext
  PROVE  ChunkInv'
<1>0. seq \in Nat /\ chunkSeq \in Nat
  BY DEF FeedInv, FeedTypes, WriterInv
<1> USE DEF ChunkInv
<1>1. CASE FeedStep \/ (\E g \in Emitters : SendChunk(g) \/ SendOther(g)) \/ FailHandle
  <2>1. UNCHANGED <<chunkSeq, closedBy, chunks>>
    BY <1>1, OthersWrite
  <2>2. seq' \in {seq, seq + 1}
    BY <1>1, OthersJob
  <2> QED BY <1>0, <2>1, <2>2, SMTT(30)
<1>2. CASE \E e \in {"utf8", "base64"} : StreamResult(e)
  BY <1>2 DEF StreamResult, feedVars
<1>3. ASSUME NEW g \in Writers, (\E p \in Payloads : Write(g, p)) \/ Unlock(g)
      PROVE  ChunkInv'
  BY <1>3 DEF Write, Unlock, feedVars
<1>4. ASSUME NEW g \in Writers, EmitChunk(g) PROVE ChunkInv'
  <2>1. /\ closedBy = "none" /\ chunkSeq' = chunkSeq + 1 /\ UNCHANGED closedBy /\ EmitEvent(g)
    BY <1>4 DEF EmitChunk, WriterInv
  <2>2. seq' = seq + 1
    BY <2>1, EmitEventFacts
  <2>3. PICK b : chunks' = chunks \cup {ResultChunk(b, TRUE)}
    BY <1>4 DEF EmitChunk
  <2>4. PICK x : x = ResultChunk(b, TRUE)
    OBVIOUS
  <2>5. x.ev = seq + 1 /\ x.seq = chunkSeq /\ x.more = TRUE
    BY <2>2, <2>4 DEF ResultChunk
  <2>6. \A c \in chunks : c.seq \in 0..chunkSeq /\ c.seq # chunkSeq /\ c.more /\ c.ev \in 1..seq
    BY <2>1
  <2>7. chunks' = chunks \cup {x}
    BY <2>3, <2>4
  <2>8. \A c \in chunks' : /\ c.seq \in 0..chunkSeq' /\ c.ev \in 1..seq'
                           /\ c.more /\ c.seq # chunkSeq'
    BY <1>0, <2>1, <2>2, <2>5, <2>6, <2>7, SMTT(30)
  <2>9. \A c, d \in chunks' : c.ev = d.ev => c = d
    BY <1>0, <2>5, <2>6, <2>7, SMTT(30)
  <2> QED BY <2>8, <2>9
<1>5. ASSUME NEW g \in Writers, CloseStream(g) PROVE ChunkInv'
  <2>1. /\ chunkSeq' = chunkSeq /\ closedBy = "none" /\ closedBy' = g /\ g # "none"
        /\ EmitEvent(g) /\ chunks' = chunks \cup {ResultChunk(<<>>, FALSE)}
    BY <1>5, WritersEmit DEF CloseStream
  <2>2. seq' = seq + 1
    BY <2>1, EmitEventFacts
  <2>3. PICK x : x = ResultChunk(<<>>, FALSE)
    OBVIOUS
  <2>4. x.ev = seq + 1 /\ x.seq = chunkSeq /\ x.data = <<>> /\ chunks' = chunks \cup {x}
    BY <2>1, <2>2, <2>3 DEF ResultChunk
  <2>5. \A c \in chunks : c.ev \in 1..seq /\ c.seq # chunkSeq
    BY <2>1
  <2>6. \A c, d \in chunks' : c.ev = d.ev => c = d
    BY <1>0, <2>4, <2>5, SMTT(30)
  <2>7. \A c \in chunks' : c.seq \in 0..chunkSeq' /\ c.ev \in 1..seq'
    <3>1. \A c \in chunks : c.seq \in 0..chunkSeq /\ c.ev \in 1..(seq + 1)
      BY <1>0, SMTT(30)
    <3>2. x.seq \in 0..chunkSeq /\ x.ev \in 1..(seq + 1)
      BY <1>0, <2>4, SMTT(30)
    <3> QED BY <2>1, <2>2, <2>4, <3>1, <3>2
  <2>8. \A c \in chunks' : ~c.more => c.seq = chunkSeq'
    BY <2>1, <2>4
  <2>9. \A c \in chunks' : c.seq = chunkSeq' => c.data = <<>>
    BY <2>1, <2>4, <2>5
  <2> QED BY <2>1, <2>6, <2>7, <2>8, <2>9
<1> QED BY <1>1, <1>2, <1>3, <1>4, <1>5 DEF StreamNext

(* A chunk's data is as long as the bytes it stands for, and each of them  *)
(* is there or is replaced.                                                *)
LEMMA EncodeFacts ==
  ASSUME NEW b \in Seq(Bytes)
  PROVE  /\ Encode(b) \in Seq(Bytes \cup {"?"}) /\ Len(Encode(b)) = Len(b)
         /\ \A i \in 1..Len(b) : Encode(b)[i] \in {b[i], "?"}
<1>1. PICK l \in Nat : l = Len(b) /\ DOMAIN b = 1..l
  BY LenProperties
<1>2. \A i \in 1..l : b[i] \in Bytes
  BY <1>1, ElementOfSeq
<1>3. CASE enc = "base64"
  <2>1. Encode(b) = b
    BY <1>3 DEF Encode
  <2> QED BY <1>1, <2>1, SMTT(30)
<1>4. CASE enc # "base64"
  <2>1. Encode(b) = JSONString(b)
    BY <1>4 DEF Encode
  <2>2. JSONString(b) \in [1..l -> Bytes \cup {"?"}]
    BY <1>1, <1>2 DEF JSONString
  <2>3. \A i \in 1..l : JSONString(b)[i] \in {b[i], "?"}
    BY <1>1 DEF JSONString
  <2>4. JSONString(b) \in Seq(Bytes \cup {"?"}) /\ Len(JSONString(b)) = l
    BY <2>2, SeqDef, LenProperties, SMTT(30)
  <2> QED BY <1>1, <2>1, <2>3, <2>4
<1> QED BY <1>3, <1>4

(* Accepting more bytes leaves the pieces where they are.                  *)
LEMMA CutWrite ==
  ASSUME WriterInv, ChunkInv, CutInv, NEW g \in Writers, NEW p \in Payloads, Write(g, p)
  PROVE  CutInv'
<1>1. /\ holder = "none" /\ pending' = p /\ accepted' = accepted \o p
      /\ chunkSeq' = chunkSeq /\ chunks' = chunks
  BY DEF Write
<1>2. p \in Seq(Bytes) /\ accepted \in Seq(Bytes) /\ chunkSeq \in Nat /\ pending = <<>>
  BY <1>1, StreamAssumption DEF Bytes, WriterInv
<1>3. PICK N \in Nat, P \in Nat : N = Len(accepted) /\ P = Len(p)
  BY <1>2, LenProperties
<1>4. /\ Len(accepted') = N + P
      /\ \A i \in 1..N : accepted'[i] = accepted[i]
      /\ \A i \in 1..P : accepted'[N + i] = p[i]
  <2>1. /\ Len(accepted \o p) = N + P
        /\ \A i \in 1..(N + P) : (accepted \o p)[i] = IF i <= N THEN accepted[i] ELSE p[i - N]
    BY <1>2, <1>3, ConcatProperties
  <2>2. \A i \in 1..P : N + i \in 1..(N + P) /\ ~ (N + i <= N) /\ (N + i) - N = i
    BY <1>3, SMTT(30)
  <2>3. \A i \in 1..N : i \in 1..(N + P) /\ i <= N
    BY <1>3, SMTT(30)
  <2> QED BY <1>1, <2>1, <2>2, <2>3
<1>5. PICK cut \in [0..chunkSeq -> 0..N] : Cuts(cut)
  BY <1>3 DEF CutInv
<1>6. cut[chunkSeq] = N
  <2>1. cut[chunkSeq] \in 0..N /\ cut[chunkSeq] + 0 = N
    BY <1>2, <1>3, <1>5, EmptySeq, SMTT(30) DEF Cuts
  <2> QED BY <2>1, SMTT(30)
<1>7. ASSUME NEW c \in chunks, c.seq < chunkSeq PROVE Piece(c, cut[c.seq], cut[c.seq + 1])'
  <2>1. Piece(c, cut[c.seq], cut[c.seq + 1])
    BY <1>5, <1>7 DEF Cuts
  <2>2. PICK f \in 0..N, t \in 0..N : f = cut[c.seq] /\ t = cut[c.seq + 1]
    <3>1. c.seq \in 0..chunkSeq
      BY DEF ChunkInv
    <3>2. c.seq + 1 \in 0..chunkSeq
      BY <1>2, <1>7, <3>1, SMTT(30)
    <3> QED BY <1>5, <3>1, <3>2
  <2>3. PICK l \in Nat : l = Len(c.data)
    BY <2>1, LenProperties DEF Piece
  <2>4. f + l = t
    BY <2>1, <2>2, <2>3 DEF Piece
  <2>5. \A i \in 1..l : f + i \in 1..N
    BY <1>3, <2>4, SMTT(30)
  <2>6. \A i \in 1..l : accepted'[f + i] = accepted[f + i]
    BY <1>4, <2>5
  <2> QED BY <2>1, <2>2, <2>3, <2>6 DEF Piece
<1>8. cut \in [0..chunkSeq -> 0..(N + P)]
  BY <1>3, <1>5, SMTT(30)
<1>9. Cuts(cut)'
  <2>1. cut[0] = 0
    BY <1>5 DEF Cuts
  <2>2. cut[chunkSeq'] + Len(pending') = Len(accepted')
    BY <1>1, <1>3, <1>4, <1>6
  <2>3. \A i \in 1..Len(pending') : pending'[i] = accepted'[cut[chunkSeq'] + i]
    BY <1>1, <1>3, <1>4, <1>6
  <2> QED BY <1>1, <1>7, <2>1, <2>2, <2>3 DEF Cuts
<1> QED BY <1>1, <1>4, <1>8, <1>9 DEF CutInv

(* Emitting a chunk makes one more cut.                                    *)
LEMMA CutEmit ==
  ASSUME FeedInv, WriterInv, ChunkInv, CutInv, NEW g \in Writers, EmitChunk(g)
  PROVE  CutInv'
<1>1. /\ closedBy = "none" /\ chunkSeq' = chunkSeq + 1 /\ accepted' = accepted
      /\ pending \in Seq(Bytes) /\ accepted \in Seq(Bytes) /\ chunkSeq \in Nat
  BY DEF EmitChunk, WriterInv
<1>2. PICK m \in Nat, N \in Nat, L \in Nat :
        m = chunkSeq /\ N = Len(accepted) /\ L = Len(pending)
  BY <1>1, LenProperties
<1>3. PICK n \in 0..L : /\ pending' = SubSeq(pending, n + 1, L)
                        /\ chunks' = chunks \cup {ResultChunk(Encode(SubSeq(pending, 1, n)), TRUE)}
  <2>1. (IF L < ChunkSize THEN L ELSE ChunkSize) \in 0..L
    BY StreamAssumption, SMTT(30)
  <2> QED BY <1>2, <2>1 DEF EmitChunk
<1>4. PICK b \in Seq(Bytes) : /\ b = SubSeq(pending, 1, n) /\ Len(b) = n
                              /\ \A j \in 1..n : b[j] = pending[j]
  <2>1. /\ SubSeq(pending, 1, n) \in Seq(Bytes) /\ Len(SubSeq(pending, 1, n)) = n
        /\ \A j \in 1..n : SubSeq(pending, 1, n)[j] = pending[j]
    BY <1>1, <1>2, UptoFacts
  <2> QED BY <2>1
<1>5. PICK x : /\ chunks' = chunks \cup {x} /\ x.seq = m
               /\ x.data \in Seq(Bytes \cup {"?"}) /\ Len(x.data) = n
               /\ \A j \in 1..n : x.data[j] \in {pending[j], "?"}
  <2>1. /\ Encode(b) \in Seq(Bytes \cup {"?"}) /\ Len(Encode(b)) = n
        /\ \A j \in 1..n : Encode(b)[j] \in {b[j], "?"}
    BY <1>4, EncodeFacts
  <2>2. /\ ResultChunk(Encode(b), TRUE).seq = m
        /\ ResultChunk(Encode(b), TRUE).data = Encode(b)
    BY <1>2 DEF ResultChunk
  <2> QED BY <1>3, <1>4, <2>1, <2>2
<1>6. Len(pending') = L - n /\ \A j \in 1..(L - n) : pending'[j] = pending[n + j]
  <2>1. \A i \in (n + 1)..L : pending[i] \in Bytes
    BY <1>1, <1>2, ElementOfSeq, SMTT(30)
  <2>2. /\ Len(SubSeq(pending, n + 1, L)) = IF n + 1 <= L THEN L - (n + 1) + 1 ELSE 0
        /\ \A i \in 1..(L - (n + 1) + 1) : SubSeq(pending, n + 1, L)[i] = pending[n + 1 + i - 1]
    BY <1>2, <1>3, <2>1, SubSeqProperties, SMTT(30)
  <2>3. /\ (IF n + 1 <= L THEN L - (n + 1) + 1 ELSE 0) = L - n
        /\ L - (n + 1) + 1 = L - n
        /\ \A j \in 1..(L - n) : n + 1 + j - 1 = n + j
    BY <1>2, <1>3, SMTT(30)
  <2> QED BY <1>3, <2>2, <2>3
<1>7. PICK cut \in [0..m -> 0..N] : Cuts(cut)
  BY <1>2 DEF CutInv
<1>8. PICK f \in 0..N : f = cut[m] /\ f + L = N
  <2>1. cut[m] \in 0..N
    BY <1>7, SMTT(30)
  <2>2. cut[m] + L = N
    BY <1>2, <1>7 DEF Cuts
  <2> QED BY <2>1, <2>2
<1>9. \A j \in 1..L : pending[j] = accepted[f + j]
  BY <1>2, <1>7, <1>8 DEF Cuts
<1> DEFINE next == [k \in 0..(m + 1) |-> IF k <= m THEN cut[k] ELSE f + n]
<1>10. /\ next \in [0..(m + 1) -> 0..N] /\ next[m + 1] = f + n
       /\ \A k \in 0..m : next[k] = cut[k]
  BY <1>2, <1>3, <1>7, <1>8, SMTT(30)
<1> HIDE DEF next
<1>11. next[0] = 0
  BY <1>2, <1>7, <1>10, SMTT(30) DEF Cuts
<1>12. next[m + 1] + Len(pending') = N
  <2>1. (f + n) + (L - n) = N
    BY <1>2, <1>3, <1>8, SMTT(30)
  <2> QED BY <1>6, <1>10, <2>1
<1>13. \A i \in 1..Len(pending') : pending'[i] = accepted[next[m + 1] + i]
  <2>1. \A i \in 1..(L - n) : n + i \in 1..L /\ f + (n + i) = (f + n) + i
    BY <1>3, SMTT(30)
  <2>2. \A i \in 1..(L - n) : pending'[i] = accepted[(f + n) + i]
    BY <1>6, <1>9, <2>1
  <2> QED BY <1>6, <1>10, <2>2
<1>14. ASSUME NEW c \in chunks', c.seq < m + 1 PROVE Piece(c, next[c.seq], next[c.seq + 1])
  <2>1. CASE c \in chunks
    <3>1. c.seq \in 0..m /\ c.seq # m
      BY <1>1, <1>2, <2>1 DEF ChunkInv
    <3>2. c.seq + 1 \in 0..m /\ c.seq < m
      BY <3>1, SMTT(30)
    <3>3. Piece(c, cut[c.seq], cut[c.seq + 1])
      BY <1>2, <1>7, <2>1, <3>2 DEF Cuts
    <3> QED BY <1>10, <3>1, <3>2, <3>3
  <2>2. CASE c = x
    <3>1. c.seq = m /\ next[m] = f /\ next[m + 1] = f + n
      BY <1>5, <1>8, <1>10, <2>2, SMTT(30)
    <3>2. \A j \in 1..n : j \in 1..L
      BY <1>3, SMTT(30)
    <3>3. \A j \in 1..n : x.data[j] \in {accepted[f + j], "?"}
      BY <1>5, <1>9, <3>2
    <3>4. Piece(x, f, f + n)
      BY <1>5, <3>3 DEF Piece
    <3> QED BY <2>2, <3>1, <3>4
  <2> QED BY <1>5, <2>1, <2>2
<1>15. Cuts(next)'
  <2>1. ASSUME NEW c \in chunks', c.seq < m + 1 PROVE Piece(c, next[c.seq], next[c.seq + 1])'
    BY <1>1, <1>14, <2>1 DEF Piece
  <2> QED BY <1>1, <1>2, <1>11, <1>12, <1>13, <2>1 DEF Cuts
<1> QED BY <1>1, <1>2, <1>10, <1>15 DEF CutInv

(* Every step keeps the chunks pieces of what was accepted.                *)
LEMMA CutStep ==
  ASSUME FeedInv, WriterInv, ChunkInv, CutInv, StreamNext
  PROVE  CutInv'
<1>1. ASSUME UNCHANGED <<chunkSeq, pending, accepted, chunks>> PROVE CutInv'
  <2>1. PICK cut \in [0..chunkSeq -> 0..Len(accepted)] : Cuts(cut)
    BY DEF CutInv
  <2>2. Cuts(cut)'
    BY <1>1, <2>1 DEF Cuts, Piece
  <2> QED BY <1>1, <2>1, <2>2 DEF CutInv
<1>2. CASE FeedStep \/ (\E g \in Emitters : SendChunk(g) \/ SendOther(g)) \/ FailHandle
  <2>1. UNCHANGED <<chunkSeq, pending, accepted, chunks>>
    BY <1>2, OthersWrite
  <2> QED BY <1>1, <2>1
<1>3. CASE \E e \in {"utf8", "base64"} : StreamResult(e)
  BY <1>1, <1>3 DEF StreamResult
<1>4. ASSUME NEW g \in Writers, Unlock(g) PROVE CutInv'
  BY <1>1, <1>4 DEF Unlock
<1>5. ASSUME NEW g \in Writers, CloseStream(g) PROVE CutInv'
  <2>1. /\ UNCHANGED <<chunkSeq, pending, accepted>>
        /\ \A c \in chunks' : c \in chunks \/ c.seq = chunkSeq
    BY <1>5, SMTT(30) DEF CloseStream, ResultChunk
  <2>2. PICK cut \in [0..chunkSeq -> 0..Len(accepted)] : Cuts(cut)
    BY DEF CutInv
  <2>3. chunkSeq \in Nat
    BY DEF WriterInv
  <2>4. \A c \in chunks' : c.seq < chunkSeq => Piece(c, cut[c.seq], cut[c.seq + 1])
    BY <2>1, <2>2, <2>3, SMTT(30) DEF Cuts
  <2>5. \A c \in chunks' : c.seq < chunkSeq => Piece(c, cut[c.seq], cut[c.seq + 1])'
    BY <2>1, <2>4 DEF Piece
  <2>6. Cuts(cut)'
    BY <2>1, <2>2, <2>5 DEF Cuts
  <2> QED BY <2>1, <2>2, <2>6 DEF CutInv
<1> QED BY <1>2, <1>3, <1>4, <1>5, CutWrite, CutEmit DEF StreamNext

(* A chunk is emitted as the event that was allocated for it.              *)
LEMMA NewChunk ==
  ASSUME NEW g \in Writers, EmitChunk(g) \/ CloseStream(g)
  PROVE  \E x : chunks' = chunks \cup {x} /\ x.ev = seq'
<1>1. PICK d, more : chunks' = chunks \cup {ResultChunk(d, more)}
  <2>1. CASE EmitChunk(g)
    BY <2>1 DEF EmitChunk
  <2>2. CASE CloseStream(g)
    BY <2>2 DEF CloseStream
  <2> QED BY <2>1, <2>2
<1>2. ResultChunk(d, more).ev = seq'
  BY DEF ResultChunk
<1> QED BY <1>1, <1>2

(* The goroutine that has a chunk in flight is inside Write or Close.      *)
LEMMA FlightStep ==
  ASSUME FeedInv, ChunkInv, FlightInv, StreamNext
  PROVE  FlightInv'
<1>0. /\ seq \in Nat /\ Writers \subseteq Emitters /\ "none" \notin Emitters
      /\ \A h \in Emitters : emit[h].ev \in Nat /\ emit[h].ev <= seq
      /\ \A c \in chunks : c.ev \in 1..seq
  BY WritersEmit DEF FeedInv, FeedTypes, EmitInv, ChunkInv
<1> USE DEF FlightInv, InFlight, At
<1>1. CASE FeedStep
  <2>1. chunks' = chunks /\ holder' = holder
    BY <1>1 DEF FeedStep, writeVars
  <2>2. ASSUME NEW h \in Emitters, NEW c \in chunks, emit'[h].at = "send", emit'[h].ev = c.ev
        PROVE  emit'[h] = emit[h]
    <3>1. emit'[h].ev # seq + 1
      BY <1>0, <2>2, SMTT(30)
    <3> QED BY <1>1, <2>2, <3>1, FeedStepFacts
  <2> QED BY <2>1, <2>2
<1>2. ASSUME NEW g \in Emitters, SendChunk(g) \/ SendOther(g) PROVE FlightInv'
  <2>1. chunks' = chunks /\ holder' = holder
    BY <1>2, OthersWrite
  <2>2. emit'[g].at = "fanout" /\ \A h \in Emitters : h # g => emit'[h] = emit[h]
    BY <1>2, SendFacts DEF SendChunk, SendOther
  <2> QED BY <2>1, <2>2
<1>3. CASE FailHandle \/ \E e \in {"utf8", "base64"} : StreamResult(e)
  BY <1>3 DEF FailHandle, Finish, StreamResult, feedVars, writeVars
<1>4. ASSUME NEW g \in Writers, NEW p \in Payloads, Write(g, p) PROVE FlightInv'
  <2>1. holder = "none" /\ emit' = emit /\ chunks' = chunks
    BY <1>4 DEF Write, feedVars
  <2> QED BY <1>0, <2>1
<1>5. ASSUME NEW g \in Writers, Unlock(g) PROVE FlightInv'
  <2>1. holder = g /\ emit[g].at = "idle" /\ emit' = emit /\ chunks' = chunks
    BY <1>5 DEF Unlock, feedVars
  <2> QED BY <1>0, <2>1
<1>6. ASSUME NEW g \in Writers, EmitChunk(g) \/ CloseStream(g) PROVE FlightInv'
  <2>1. EmitEvent(g) /\ holder' = g /\ holder \in {g, "none"}
    BY <1>6 DEF EmitChunk, CloseStream
  <2>2. PICK x : chunks' = chunks \cup {x} /\ x.ev = seq'
    BY <1>6, NewChunk
  <2>3. /\ seq' = seq + 1 /\ emit'[g].ev = seq + 1
        /\ \A h \in Emitters : h # g => emit'[h] = emit[h]
    BY <2>1, EmitEventFacts
  <2>4. ASSUME NEW h \in Emitters, h # g, NEW c \in chunks'
        PROVE  ~ (emit'[h].at = "send" /\ emit'[h].ev = c.ev)
    <3>1. emit'[h] = emit[h]
      BY <2>3, <2>4
    <3>2. CASE c = x
      BY <1>0, <2>2, <2>3, <3>1, <3>2, SMTT(30)
    <3>3. CASE c \in chunks
      BY <1>0, <2>1, <2>4, <3>1, <3>3
    <3> QED BY <2>2, <3>2, <3>3
  <2> QED BY <2>1, <2>4
<1> QED BY <1>1, <1>2, <1>3, <1>4, <1>5, <1>6 DEF StreamNext

(* A step that leaves the reader alone keeps what it has read in order.    *)
LEMMA KeepsReading ==
  ASSUME FeedInv, ReadInv, UNCHANGED readVars, chunks \subseteq chunks',
         terminal = "run" => terminal' = "run",
         closedBy' = closedBy \/ (closedBy' = "run" => run = "body"),
         Reads => \A c \in chunks' : c \in by \/ \E g \in Emitters : InFlight(g, c)'
  PROVE  ReadInv'
<1>1. UNCHANGED <<by, collect, handle>>
  BY DEF readVars
<1>2. by' \subseteq chunks' /\ IsFiniteSet(by')
  BY <1>1 DEF ReadInv
<1>3. Reads' => \A c \in chunks' : c \in by' \/ (\E g \in Emitters : InFlight(g, c))'
  BY <1>1 DEF Reads
<1>4. collect' = "bytes" => Contiguous(by)'
  BY <1>1 DEF ReadInv, Contiguous
<1>5. handle' = "result" => terminal' = "run" /\ terminal = "run"
  BY <1>1 DEF ReadInv
<1>6. terminal = "run" => run # "body"
  BY DEF FeedInv, JobInv
<1>7. collect' = "bytes" /\ (handle' = "open" \/ (handle' = "result" /\ closedBy' = "run"))
        => SeenLast'
  BY <1>1, <1>5, <1>6 DEF ReadInv, SeenLast
<1> QED BY <1>2, <1>3, <1>4, <1>5, <1>7 DEF ReadInv

(* When the stream ends for the reader, it has assembled what it has read; *)
(* if run ended the job after its own Close, that is every chunk.          *)
LEMMA FinishStep ==
  ASSUME FeedInv, WriterInv, FlightInv, ReadInv, NEW how \in {"result", "failed"},
         handle = "open", Finish(how), terminal' = terminal, how = "result" => terminal = "run"
  PROVE  ReadInv'
<1>1. /\ handle' = how /\ by' = by /\ chunks' = chunks /\ closedBy' = closedBy
      /\ collect' = IF collect = "reading" THEN Assemble(by) ELSE collect
  BY DEF Finish, writeVars
<1>2. by' \subseteq chunks' /\ IsFiniteSet(by') /\ ~Reads'
  BY <1>1 DEF ReadInv, Reads
<1>3. collect' = "bytes" => Contiguous(by)'
  BY <1>1 DEF ReadInv, Contiguous, Assemble
<1>4. ASSUME collect' = "bytes", how = "result", closedBy = "run" PROVE SeenLast
  <2>1. CASE collect # "reading"
    BY <1>1, <1>4, <2>1 DEF ReadInv
  <2>2. CASE collect = "reading"
    <3>1. run # "body"
      BY <1>4 DEF FeedInv, JobInv
    <3>2. holder = "none"
      BY <1>4, <3>1 DEF WriterInv
    <3>3. \A c \in chunks : c \in by
      <4>1. \A g \in Emitters, c \in chunks : ~InFlight(g, c)
        BY <3>2, WritersEmit DEF FlightInv
      <4> QED BY <2>2, <4>1 DEF ReadInv, Reads
    <3> QED BY <1>4, <3>3 DEF WriterInv, SeenLast
  <2> QED BY <2>1, <2>2
<1>5. SeenLast => SeenLast'
  BY <1>1 DEF SeenLast
<1>6. handle' # "open"
  BY <1>1
<1> QED BY <1>1, <1>2, <1>3, <1>4, <1>5, <1>6 DEF ReadInv

(* A chunk that is sent is the one CollectChunks takes.                    *)
LEMMA CollectStep ==
  ASSUME FeedInv, ChunkInv, ReadInv, NEW g \in Emitters, SendChunk(g), Reads
  PROVE  ReadInv'
<1>1. PICK x \in chunks : x.ev = emit[g].ev /\ Collect(x)
  BY DEF SendChunk
<1>2. /\ by' = by \cup {x} /\ collect = "reading" /\ handle = "open"
      /\ UNCHANGED <<chunks, closedBy, handle>>
  BY <1>1 DEF SendChunk, Collect, Reads, writeVars
<1>3. /\ terminal' = terminal /\ \A h \in Emitters : h # g => emit'[h] = emit[h]
  BY SendFacts DEF SendChunk
<1>4. by' \subseteq chunks' /\ IsFiniteSet(by')
  BY <1>2, FS_AddElement DEF ReadInv
<1>5. ASSUME NEW c \in chunks' PROVE c \in by' \/ \E h \in Emitters : InFlight(h, c)'
  <2>1. CASE c \in by
    BY <1>2, <2>1
  <2>2. ASSUME NEW h \in Emitters, InFlight(h, c)
        PROVE  c \in by' \/ \E k \in Emitters : InFlight(k, c)'
    <3>1. CASE h = g
      BY <1>1, <1>2, <2>2, <3>1 DEF InFlight, ChunkInv
    <3>2. CASE h # g
      BY <1>3, <2>2, <3>2 DEF InFlight, At
    <3> QED BY <3>1, <3>2
  <2> QED BY <1>2, <2>1, <2>2 DEF ReadInv
<1>6. collect' = "bytes" => Contiguous(by') /\ ~x.more
  <2>1. collect' = CASE MapThenSumSet(DataLen, by') > MaxAssembledBytes -> "error"
                     [] ~x.more -> Assemble(by')
                     [] OTHER -> collect
    BY <1>1 DEF Collect
  <2>2. collect' \in {"error", collect} \/ (~x.more /\ collect' = Assemble(by'))
    BY <2>1, SMTT(30)
  <2> QED BY <1>2, <2>2 DEF Assemble
<1>7. collect' = "bytes" => SeenLast'
  BY <1>2, <1>6 DEF SeenLast
<1>8. Contiguous(by') => Contiguous(by)'
  BY DEF Contiguous
<1>9. handle' # "result"
  BY <1>2
<1> QED BY <1>4, <1>5, <1>6, <1>7, <1>8, <1>9 DEF ReadInv

(* Every step keeps what the reader has.                                   *)
LEMMA ReadStep ==
  ASSUME FeedInv, WriterInv, ChunkInv, FlightInv, ReadInv, StreamNext
  PROVE  ReadInv'
<1>0. Reads => \A c \in chunks : c \in by \/ \E g \in Emitters : InFlight(g, c)
  BY DEF ReadInv
<1>1. CASE FeedStep
  <2>1. UNCHANGED readVars /\ UNCHANGED <<chunks, closedBy>>
    BY <1>1 DEF FeedStep, writeVars
  <2>2. \A g \in Emitters, c \in chunks : InFlight(g, c) => InFlight(g, c)'
    BY <1>1, FeedStepFacts DEF InFlight, At
  <2>3. terminal = "run" => terminal' = "run"
    BY <1>1, FeedStepFacts
  <2> QED BY <1>0, <2>1, <2>2, <2>3, KeepsReading
<1>2. CASE \E e \in {"utf8", "base64"} : StreamResult(e)
  <2>1. UNCHANGED readVars /\ UNCHANGED <<chunks, closedBy, emit, terminal>>
    BY <1>2 DEF StreamResult, feedVars, jobVars
  <2>2. \A g, c : InFlight(g, c)' <=> InFlight(g, c)
    BY <2>1 DEF InFlight, At
  <2> QED BY <1>0, <2>1, <2>2, KeepsReading
<1>3. ASSUME NEW g \in Writers, (\E p \in Payloads : Write(g, p)) \/ Unlock(g) PROVE ReadInv'
  <2>1. UNCHANGED readVars /\ UNCHANGED <<chunks, closedBy, emit, terminal>>
    BY <1>3 DEF Write, Unlock, feedVars, jobVars
  <2>2. \A h, c : InFlight(h, c)' <=> InFlight(h, c)
    BY <2>1 DEF InFlight, At
  <2> QED BY <1>0, <2>1, <2>2, KeepsReading
<1>4. ASSUME NEW g \in Writers, EmitChunk(g) \/ CloseStream(g) PROVE ReadInv'
  <2>1. /\ UNCHANGED readVars /\ EmitEvent(g) /\ closedBy' \in {closedBy, g} /\ g \in Emitters
    BY <1>4, WritersEmit DEF EmitChunk, CloseStream
  <2>2. PICK x : chunks' = chunks \cup {x} /\ x.ev = seq'
    BY <1>4, NewChunk
  <2>3. /\ terminal' = terminal /\ (g = "run" => run = "body") /\ seq' = seq + 1
        /\ emit[g].at = "idle" /\ emit'[g].at = "send" /\ emit'[g].ev = seq + 1
        /\ \A h \in Emitters : h # g => emit'[h] = emit[h]
    BY <2>1, EmitEventFacts
  <2>4. InFlight(g, x)'
    BY <2>2, <2>3 DEF InFlight, At
  <2>5. \A h \in Emitters, c \in chunks : InFlight(h, c) => InFlight(h, c)'
    BY <2>3 DEF InFlight, At
  <2>6. Reads => \A c \in chunks' : c \in by \/ \E h \in Emitters : InFlight(h, c)'
    BY <1>0, <2>1, <2>2, <2>4, <2>5
  <2> QED BY <2>1, <2>2, <2>3, <2>6, KeepsReading
<1>5. ASSUME NEW g \in Emitters, SendChunk(g), ~Reads PROVE ReadInv'
  <2>1. UNCHANGED readVars /\ UNCHANGED <<chunks, closedBy>>
    BY <1>5 DEF SendChunk, readVars, writeVars
  <2>2. terminal' = terminal
    BY <1>5, SendFacts DEF SendChunk
  <2> QED BY <1>5, <2>1, <2>2, KeepsReading
<1>6. ASSUME NEW g \in Emitters, SendOther(g) PROVE ReadInv'
  <2>1. /\ terminal' = terminal /\ \A c \in chunks : c.ev # emit[g].ev
        /\ \A h \in Emitters : h # g => emit'[h] = emit[h]
    BY <1>6, SendFacts DEF SendOther
  <2>2. CASE UNCHANGED <<writeVars, readVars>>
    <3>1. UNCHANGED readVars /\ UNCHANGED <<chunks, closedBy>>
      BY <2>2 DEF writeVars
    <3>2. \A h \in Emitters, c \in chunks : InFlight(h, c) => InFlight(h, c)'
      BY <2>1 DEF InFlight, At
    <3> QED BY <1>0, <2>1, <3>1, <3>2, KeepsReading
  <2>3. CASE handle = "open" /\ \E how \in {"failed"} \cup {h \in {"result"} : terminal = "run"} :
               Finish(how)
    <3>1. PICK how \in {"result", "failed"} : Finish(how) /\ (how = "result" => terminal = "run")
      BY <2>3
    <3> QED BY <2>1, <2>3, <3>1, FinishStep
  <2> QED BY <1>6, <2>2, <2>3 DEF SendOther
<1>7. CASE FailHandle
  <2>1. handle = "open" /\ Finish("failed") /\ terminal' = terminal
    BY <1>7 DEF FailHandle, feedVars, jobVars
  <2> QED BY <2>1, FinishStep
<1> QED BY <1>1, <1>2, <1>3, <1>4, <1>5, <1>6, <1>7, CollectStep DEF StreamNext

(* No step of a streamed result breaks the invariant.                      *)
LEMMA StreamInvStep == FeedInv /\ StreamInv /\ [StreamNext]_streamVars => StreamInv'
<1> SUFFICES ASSUME FeedInv, StreamInv, [StreamNext]_streamVars PROVE StreamInv'
  OBVIOUS
<1>1. WriterInv /\ ChunkInv /\ CutInv /\ FlightInv /\ ReadInv
  BY DEF StreamInv
<1>2. CASE StreamNext
  BY <1>1, <1>2, WriterStep, ChunkStep, CutStep, FlightStep, ReadStep DEF StreamInv
<1>3. CASE UNCHANGED streamVars
  <2>1. UNCHANGED <<seq, emit, run, terminal, chunkSeq, closedBy, holder, pending, accepted,
                    chunks, handle, by, collect>>
    BY <1>3 DEF streamVars, feedVars, jobVars, writeVars, readVars
  <2>2. WriterInv' /\ ChunkInv' /\ FlightInv'
    BY <1>1, <2>1 DEF WriterInv, ChunkInv, FlightInv, InFlight, At
  <2>3. CutInv'
    <3>1. PICK cut \in [0..chunkSeq -> 0..Len(accepted)] : Cuts(cut)
      BY <1>1 DEF CutInv
    <3>2. Cuts(cut)'
      BY <2>1, <3>1 DEF Cuts, Piece
    <3> QED BY <2>1, <3>1, <3>2 DEF CutInv
  <2>4. ReadInv'
    BY <1>1, <2>1 DEF ReadInv, Reads, InFlight, At, Contiguous, SeenLast
  <2> QED BY <2>2, <2>3, <2>4 DEF StreamInv
<1> QED BY <1>2, <1>3

(* Nothing is accepted, emitted or read at first.                          *)
LEMMA InitStream == StreamInit => StreamInv
<1> SUFFICES ASSUME StreamInit PROVE StreamInv
  OBVIOUS
<1>1. /\ chunkSeq = 0 /\ closedBy = "none" /\ holder = "none" /\ pending = <<>>
      /\ accepted = <<>> /\ chunks = {} /\ handle = "open" /\ by = {} /\ collect = "reading"
  BY DEF StreamInit
<1>2. WriterInv
  BY <1>1, EmptySeq DEF WriterInv
<1>3. CutInv
  <2>1. Len(accepted) = 0 /\ Len(pending) = 0 /\ 1..0 = {} /\ 0..0 = {0}
    BY <1>1, EmptySeq, SMTT(30)
  <2>2. [k \in 0..0 |-> 0] \in [0..chunkSeq -> 0..Len(accepted)]
    BY <1>1, <2>1
  <2>3. Cuts([k \in 0..0 |-> 0])
    BY <1>1, <2>1, SMTT(30) DEF Cuts
  <2> QED BY <2>2, <2>3 DEF CutInv
<1>4. ChunkInv /\ FlightInv
  BY <1>1 DEF ChunkInv, FlightInv
<1>5. ReadInv
  BY <1>1, FS_EmptySet DEF ReadInv
<1> QED BY <1>2, <1>3, <1>4, <1>5 DEF StreamInv

(* The invariant of a streamed result: the chunks are consecutive pieces   *)
(* of what Write accepted, one goroutine at a time has one in flight, and  *)
(* CollectChunks has every chunk that is not.                              *)
THEOREM Streaming == StreamSpec => []StreamInv
<1>1. StreamSpec => []FeedInv
  BY StreamImplementsFeed, Feed, PTL
<1> QED BY <1>1, InitStream, StreamInvStep, PTL DEF StreamSpec

(* CollectChunks returns a prefix of the bytes Write accepted, and all of  *)
(* them once the last chunk was seen or the job succeeded after the        *)
(* agent's own Close, whichever goroutines of the agent write (handle.go). *)
THEOREM ChunksAreExact == StreamSpec => []ChunksExact
BY Streaming, ExactFromInv, PTL
=================================================================================
