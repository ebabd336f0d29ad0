------------------------- MODULE SessionStreamProofs -------------------------
(***************************************************************************)
(* Proofs about SessionStream, for any jobs, any log size and any number   *)
(* of connections and events.                                              *)
(***************************************************************************)
EXTENDS SessionStream, SequenceTheorems, TLAPS

(* A leaf that names no prover is for Zenon; arithmetic is for SMT.        *)
USE ZenonT(60)

USE DEF serverVars, connVars, clientVars

\* Nothing exists before the first hello; and a session id that the janitor
\* is about to trim has neither an entry nor an owner.
Unclaimed ==
  /\ st[1] = "unused" =>
       /\ \A c \in Conns : st[c] = "unused" /\ pipe[c] = <<>>
       /\ resume = NoEntry /\ purging = FALSE /\ token = None
  /\ purging = TRUE => resume = NoEntry /\ \A c \in Conns : st[c] \notin Active

\* A session id that can be resumed keeps its allocator.
EntryInv == resume # NoEntry => allocated

\* Connection 1 does not resume, and no job exists before it reads.
Early ==
  /\ st[1] \notin {"claimed", "checked"}
  /\ st[1] \in {"unused", "ready"} =>
       log = {} /\ \A j \in Jobs : job[j].home = None /\ job[j].pc = "idle"

\* A job that is emitting has a number.
Numbered == \A j \in Jobs : job[j].pc # "idle" => job[j].seq # 0

StreamInv ==
  /\ SeqsDistinct /\ Numbered /\ OneOwner /\ Unclaimed /\ EntryInv /\ Early
  /\ ResumeComplete

(* Append adds one entry, and may drop others.                             *)
LEMMA Appended ==
  ASSUME NEW l, NEW s, NEW max
  PROVE  \E n : /\ n.seq = s
                /\ LogAppend(l, s, max) \subseteq l \cup {n}
<1> DEFINE n == [at |-> NextAt(l), seq |-> s]
<1>1. n.seq = s
  OBVIOUS
<1>2. LogAppend(l, s, max) \subseteq l \cup {n}
  BY DEF LogAppend
<1> QED BY <1>1, <1>2

\* TypeOK in the parts that different steps touch.
ServerTypes ==
  /\ allocated \in BOOLEAN /\ Seqs(log) \subseteq 1 .. seq
  /\ current \in Conns \cup {None} /\ purging \in BOOLEAN
  /\ resume \in [token : Conns \cup {None}, seq : 0 .. seq]

ConnTypes ==
  /\ st \in [Conns -> Active \cup {"unused", "gapped", "gone"}]
  /\ from \in [Conns -> 0 .. seq] /\ claimed \in [Conns -> 0 .. seq]
  /\ todo \in [Conns -> SUBSET (1 .. seq)] /\ bye \in [Conns -> BOOLEAN]

PipeTypes == pipe \in [Conns -> Seq(0 .. seq)] /\ down \in [Conns -> BOOLEAN]

JobTypes ==
  job \in [Jobs -> [pc : {"idle", "persist", "route", "enqueue"}, seq : 0 .. seq,
                    to : Conns \cup {None}, home : Conns \cup {None}]]

ClientTypes ==
  token \in Conns \cup {None} /\ high \in [Conns -> 0 .. seq] /\ got \subseteq 1 .. seq

(* The parts make up the type invariant.                                   *)
LEMMA TypeParts ==
  TypeOK <=> seq \in Nat /\ ServerTypes /\ ConnTypes /\ PipeTypes /\ JobTypes /\ ClientTypes
BY DEF TypeOK, ServerTypes, ConnTypes, PipeTypes, JobTypes, ClientTypes

(* The initial states satisfy the invariant.                               *)
LEMMA InitStream == Init => StreamInv
<1> SUFFICES ASSUME Init PROVE StreamInv
  OBVIOUS
<1> USE StreamAssumption DEF Init, Conns, None, NoEntry
<1>1. TypeOK
  <2>1. ServerTypes
    <3>1. Seqs(log) = {}
      BY DEF Seqs
    <3>2. resume \in [token : Conns \cup {None}, seq : 0 .. seq]
      BY SMTT(30)
    <3> QED BY <3>1, <3>2 DEF ServerTypes
  <2>2. ConnTypes
    BY SMTT(30) DEF ConnTypes
  <2>3. PipeTypes
    BY EmptySeq DEF PipeTypes
  <2>4. JobTypes /\ ClientTypes
    BY SMTT(30) DEF JobTypes, ClientTypes
  <2> QED BY <2>1, <2>2, <2>3, <2>4, TypeParts
<1>2. SeqsDistinct
  BY <1>1 DEF SeqsDistinct, Seqs
<1>6. Numbered /\ EntryInv /\ Early
  BY SMTT(30) DEF Numbered, EntryInv, Early
<1>3. OneOwner
  BY SMTT(30) DEF OneOwner, Active, Serving
<1>4. Unclaimed
  BY DEF Unclaimed, Active
<1>5. ResumeComplete
  BY DEF ResumeComplete
<1> QED BY <1>2, <1>3, <1>4, <1>5, <1>6 DEF StreamInv

-------------------------------------------------------------------------------
(* The counter never moves back: setIfGreater finds the allocator that the *)
(* jobs kept using.                                                        *)
LEMMA CounterStep ==
  ASSUME TypeOK, OneOwner, [Next]_vars
  PROVE  seq' \in Nat /\ seq <= seq'
<1>1. seq \in Nat
  BY DEF TypeOK
<1>2. ASSUME NEW c \in Conns, SendWelcome(c) PROVE seq' = seq
  <2>1. allocated
    BY <1>2 DEF SendWelcome, Step, OneOwner, Active
  <2>2. claimed[c] \in 0 .. seq
    BY DEF TypeOK
  <2> QED BY <1>1, <1>2, <2>1, <2>2, SMTT(30) DEF SendWelcome, Larger
<1>3. ASSUME NEW j \in Jobs, JobStep(j) PROVE seq' \in {seq, seq + 1}
  BY <1>3 DEF JobStep, Submit, EmitEvent, RotateCredential, NextSeq, Persist, Route, Send
<1>4. ASSUME NEW c \in Conns, ConnStep(c) PROVE seq' = seq
  BY <1>2, <1>4 DEF ConnStep, Claim, Refuse, CheckGap, WelcomeFails, Start, ReadLog,
     ReplayOne,
     StartReading, HandleAck, Leave, ClearCurrent, CloseOutbox, StashResume, DropResume, Receive,
     Drop
<1>5. CASE FreshHello \/ JanitorExpire \/ JanitorTrim \/ LazyPurge \/ UNCHANGED vars
  BY <1>1, <1>5, SMTT(30) DEF FreshHello, JanitorExpire, JanitorTrim, LazyPurge, vars
<1> QED BY <1>1, <1>3, <1>4, <1>5, SMTT(30) DEF Next

(* What the client holds stays within the counter.                         *)
LEMMA ClientStep ==
  ASSUME TypeOK, OneOwner, [Next]_vars
  PROVE  ClientTypes'
<1>0. seq \in Nat /\ seq' \in Nat /\ seq <= seq'
  BY CounterStep DEF TypeOK
<1>1. ClientTypes /\ PipeTypes
  BY TypeParts
<1> USE DEF ClientTypes
<1>2. CASE UNCHANGED clientVars
  BY <1>0, <1>1, <1>2, SMTT(30)
<1>3. ASSUME NEW c \in Conns, Receive(c) PROVE ClientTypes'
  <2>1. pipe[c] \in Seq(0 .. seq) /\ pipe[c] # <<>>
    BY <1>1, <1>3 DEF PipeTypes, Receive
  <2>2. Head(pipe[c]) \in 0 .. seq
    BY <2>1, HeadTailProperties
  <2>3. seq' = seq
    BY <1>3 DEF Receive
  <2>4. high[c] \in 0 .. seq
    BY <1>1
  <2>5. Larger(high[c], Head(pipe[c])) \in 0 .. seq
    BY <1>0, <2>2, <2>4 DEF Larger
  <2>6. token' \in Conns \cup {None} /\ got' \subseteq 1 .. seq
    <3>1. CASE Head(pipe[c]) = Welcome
      BY <1>1, <1>3, <3>1 DEF Receive
    <3>2. CASE Head(pipe[c]) # Welcome
      <4>1. Head(pipe[c]) \in 1 .. seq
        BY <1>0, <2>2, <3>2, SMTT(30) DEF Welcome
      <4>2. token' = token /\ got' = got \cup {Head(pipe[c])}
        BY <1>3, <3>2 DEF Receive
      <4> QED BY <1>1, <4>1, <4>2
    <3> QED BY <3>1, <3>2
  <2>7. high' \in [Conns -> 0 .. seq]
    BY <1>1, <1>3, <2>5 DEF Receive
  <2> QED BY <2>3, <2>6, <2>7
<1>4. ASSUME NEW c \in Conns, ConnStep(c), ~ Receive(c) PROVE UNCHANGED clientVars
  BY <1>4 DEF ConnStep, Claim, Refuse, CheckGap, SendWelcome, WelcomeFails, Start, ReadLog,
     ReplayOne, StartReading, HandleAck, Leave, ClearCurrent, CloseOutbox, StashResume, DropResume,
     Drop
<1>5. ASSUME NEW j \in Jobs, JobStep(j) PROVE UNCHANGED clientVars
  BY <1>5 DEF JobStep, Submit, EmitEvent, RotateCredential, NextSeq, Persist, Route, Send
<1>6. CASE FreshHello \/ JanitorExpire \/ JanitorTrim \/ LazyPurge \/ UNCHANGED vars
  BY <1>2, <1>6 DEF FreshHello, JanitorExpire, JanitorTrim, LazyPurge, vars
<1> QED BY <1>2, <1>3, <1>4, <1>5, <1>6 DEF Next

(* A job's number stays within the counter.                                *)
LEMMA JobTypeStep ==
  ASSUME TypeOK, OneOwner, [Next]_vars
  PROVE  JobTypes'
<1>0. seq \in Nat /\ seq' \in Nat /\ seq <= seq'
  BY CounterStep DEF TypeOK
<1>1. JobTypes /\ current \in Conns \cup {None}
  BY TypeParts DEF ServerTypes
<1> USE DEF JobTypes
<1>2. CASE UNCHANGED job
  BY <1>0, <1>1, <1>2, SMTT(30)
<1>3. ASSUME NEW j \in Jobs, NEW pc \in {"persist", "route"}, NextSeq(j, pc) PROVE JobTypes'
  BY <1>0, <1>1, <1>3, SMTT(30) DEF NextSeq
<1>4. ASSUME NEW j \in Jobs, Persist(j) \/ Route(j) \/ Send(j) PROVE JobTypes'
  BY <1>0, <1>1, <1>4, SMTT(30) DEF Persist, Route, Send, None
<1>5. ASSUME NEW j \in Jobs, NEW c \in Conns, Submit(j, c) PROVE JobTypes'
  BY <1>0, <1>1, <1>5, SMTT(30) DEF Submit
<1>6. ASSUME NEW c \in Conns, ConnStep(c) PROVE UNCHANGED job
  BY <1>6 DEF ConnStep, Claim, Refuse, CheckGap, SendWelcome, WelcomeFails, Start, ReadLog,
     ReplayOne, StartReading, HandleAck, Leave, ClearCurrent, CloseOutbox, StashResume, DropResume,
     Receive, Drop
<1>7. CASE FreshHello \/ JanitorExpire \/ JanitorTrim \/ LazyPurge \/ UNCHANGED vars
  BY <1>2, <1>7 DEF FreshHello, JanitorExpire, JanitorTrim, LazyPurge, vars
<1> QED BY <1>2, <1>3, <1>4, <1>5, <1>6, <1>7 DEF Next, JobStep, EmitEvent, RotateCredential
(* What a pipe holds stays within the counter.                             *)
LEMMA PipeStep ==
  ASSUME TypeOK, OneOwner, [Next]_vars
  PROVE  PipeTypes'
<1>0. seq \in Nat /\ seq' \in Nat /\ seq <= seq'
  BY CounterStep DEF TypeOK
<1>1. PipeTypes /\ JobTypes /\ ConnTypes
  BY TypeParts
<1>2. 0 .. seq \subseteq 0 .. seq'
  BY <1>0, SMTT(30)
<1>3. SUFFICES pipe' \in [Conns -> Seq(0 .. seq)] /\ down' \in [Conns -> BOOLEAN]
  <2>1. ASSUME NEW q \in Seq(0 .. seq) PROVE q \in Seq(0 .. seq')
    BY <1>2, <2>1, SeqMonotonic
  <2> QED BY <1>3, <2>1 DEF PipeTypes
<1> USE <1>1 DEF PipeTypes
<1>4. ASSUME NEW c, NEW s \in 0 .. seq, Enqueue(c, s) PROVE pipe' \in [Conns -> Seq(0 .. seq)]
  <2>1. ASSUME c \in Conns PROVE Append(pipe[c], s) \in Seq(0 .. seq)
    BY <2>1, AppendProperties
  <2> QED BY <1>4, <2>1 DEF Enqueue
<1>5. ASSUME NEW c \in Conns, ConnStep(c)
      PROVE  pipe' \in [Conns -> Seq(0 .. seq)] /\ down' \in [Conns -> BOOLEAN]
  <2>1. CASE ReplayOne(c)
    <3>1. PICK s \in todo[c] : Enqueue(c, s)
      BY <2>1 DEF ReplayOne
    <3>2. s \in 0 .. seq
      BY <1>0, <3>1, SMTT(30) DEF ConnTypes
    <3> QED BY <1>4, <2>1, <3>1, <3>2 DEF ReplayOne
  <2>2. CASE Receive(c)
    <3>1. Tail(pipe[c]) \in Seq(0 .. seq)
      BY <2>2, HeadTailProperties DEF Receive
    <3> QED BY <2>2, <3>1 DEF Receive
  <2>3. CASE SendWelcome(c)
    <3>1. <<>> \in Seq(0 .. seq) /\ <<Welcome>> \in Seq(0 .. seq)
      BY <1>0, SMTT(30) DEF Welcome
    <3> QED BY <2>3, <3>1 DEF SendWelcome
  <2>4. CASE Drop(c)
    BY <2>4, EmptySeq DEF Drop
  <2>5. CASE Claim(c) \/ Refuse(c) \/ CheckGap(c) \/ WelcomeFails(c)
    BY <2>5 DEF Claim, Refuse, CheckGap, WelcomeFails
  <2>6. CASE UNCHANGED <<pipe, down>>
    BY <2>6
  <2>7. CASE \/ Start(c) \/ ReadLog(c) \/ StartReading(c)
             \/ (\E n \in 1 .. high[c] : HandleAck(c, n))
             \/ (\E graceful \in BOOLEAN : Leave(c, graceful))
             \/ ClearCurrent(c) \/ CloseOutbox(c) \/ StashResume(c) \/ DropResume(c)
    BY <2>6, <2>7 DEF Start, ReadLog, StartReading, HandleAck, Leave, ClearCurrent,
       CloseOutbox,
       StashResume, DropResume
  <2> QED BY <1>5, <2>1, <2>2, <2>3, <2>4, <2>5, <2>7 DEF ConnStep
<1>6. ASSUME NEW j \in Jobs, JobStep(j)
      PROVE  pipe' \in [Conns -> Seq(0 .. seq)] /\ down' \in [Conns -> BOOLEAN]
  <2>1. CASE Send(j)
    <3>1. job[j].seq \in 0 .. seq
      BY DEF JobTypes
    <3> QED BY <1>4, <2>1, <3>1 DEF Send
  <2>2. CASE ~ Send(j)
    BY <1>6, <2>2 DEF JobStep, Submit, EmitEvent, RotateCredential, NextSeq, Persist, Route
  <2> QED BY <2>1, <2>2
<1>7. CASE FreshHello
  <2>1. <<Welcome>> \in Seq(0 .. seq)
    BY <1>0, SMTT(30) DEF Welcome
  <2> QED BY <1>7, <2>1 DEF FreshHello
<1>8. CASE JanitorExpire \/ JanitorTrim \/ LazyPurge \/ UNCHANGED vars
  BY <1>8 DEF JanitorExpire, JanitorTrim, LazyPurge, vars
<1> QED BY <1>5, <1>6, <1>7, <1>8 DEF Next

(* What a connection's handshake and replay know stays within the counter. *)
LEMMA ConnTypeStep ==
  ASSUME TypeOK, OneOwner, [Next]_vars
  PROVE  ConnTypes'
<1>0. seq \in Nat /\ seq' \in Nat /\ seq <= seq'
  BY CounterStep DEF TypeOK
<1>1. ConnTypes /\ ServerTypes /\ ClientTypes
  BY TypeParts
<1> USE DEF ConnTypes
<1>2. SUFFICES /\ st' \in [Conns -> Active \cup {"unused", "gapped", "gone"}]
               /\ from' \in [Conns -> 0 .. seq] /\ claimed' \in [Conns -> 0 .. seq]
               /\ todo' \in [Conns -> SUBSET (1 .. seq)] /\ bye' \in [Conns -> BOOLEAN]
  BY <1>0, <1>2, SMTT(30)
<1>3. ASSUME NEW c \in Conns, ConnStep(c)
      PROVE /\ st' \in [Conns -> Active \cup {"unused", "gapped", "gone"}]
            /\ from' \in [Conns -> 0 .. seq] /\ claimed' \in [Conns -> 0 .. seq]
            /\ todo' \in [Conns -> SUBSET (1 .. seq)] /\ bye' \in [Conns -> BOOLEAN]
  <2> USE <1>1 DEF Step, Active
  <2>1. CASE Claim(c)
    <3>1. token \in Conns /\ high[token] \in 0 .. seq /\ resume.seq \in 0 .. seq
      BY <2>1 DEF Claim, Reconnecting, ClientTypes, ServerTypes
    <3> QED BY <2>1, <3>1 DEF Claim
  <2>2. CASE ReadLog(c)
    <3>1. Since(log, from[c]) \subseteq 1 .. seq
      BY DEF Since, ServerTypes
    <3> QED BY <2>2, <3>1 DEF ReadLog
  <2>3. CASE ReplayOne(c)
    BY <2>3 DEF ReplayOne
  <2>4. CASE Refuse(c) \/ CheckGap(c) \/ SendWelcome(c) \/ WelcomeFails(c)
    BY <2>4 DEF Refuse, CheckGap, SendWelcome, WelcomeFails
  <2>5. CASE Start(c) \/ StartReading(c) \/ \E n \in 1 .. high[c] : HandleAck(c, n)
    BY <2>5 DEF Start, StartReading, HandleAck
  <2>6. CASE \E graceful \in BOOLEAN : Leave(c, graceful)
    BY <2>6, SMTT(30) DEF Leave
  <2>7. CASE ClearCurrent(c) \/ CloseOutbox(c) \/ StashResume(c) \/ DropResume(c)
    BY <2>7 DEF ClearCurrent, CloseOutbox, StashResume, DropResume
  <2>8. CASE Receive(c) \/ Drop(c)
    BY <2>8 DEF Receive, Drop
  <2> QED BY <1>3, <2>1, <2>2, <2>3, <2>4, <2>5, <2>6, <2>7, <2>8 DEF ConnStep
<1>4. ASSUME NEW j \in Jobs, JobStep(j) PROVE UNCHANGED connVars
  BY <1>4 DEF JobStep, Submit, EmitEvent, RotateCredential, NextSeq, Persist, Route, Send
<1>5. CASE FreshHello
  BY <1>1, <1>5 DEF FreshHello, Step, Active
<1>6. CASE JanitorExpire \/ JanitorTrim \/ LazyPurge \/ UNCHANGED vars
  BY <1>1, <1>6 DEF JanitorExpire, JanitorTrim, LazyPurge, vars
<1> QED BY <1>1, <1>3, <1>4, <1>5, <1>6 DEF Next
(* What the server holds stays within the counter.                         *)
LEMMA ServerTypeStep ==
  ASSUME TypeOK, Numbered, OneOwner, [Next]_vars
  PROVE  ServerTypes'
<1>0. seq \in Nat /\ seq' \in Nat /\ seq <= seq'
  BY CounterStep DEF TypeOK
<1>1. ServerTypes /\ JobTypes
  BY TypeParts
<1> USE DEF ServerTypes
<1>2. CASE UNCHANGED <<allocated, log, current, resume, purging>>
  BY <1>0, <1>1, <1>2, SMTT(30)
<1>3. ASSUME NEW j \in Jobs, JobStep(j) PROVE ServerTypes'
  <2>1. CASE Persist(j)
    <3>1. job[j].seq \in 1 .. seq
      BY <1>0, <1>1, <2>1, SMTT(30) DEF Persist, JobTypes, Numbered
    <3>2. Seqs(log') \subseteq Seqs(log) \cup {job[j].seq}
      BY <2>1, Appended, SMTT(30) DEF Persist, Seqs
    <3> QED BY <1>1, <2>1, <3>1, <3>2 DEF Persist
  <2>2. CASE ~ Persist(j)
    BY <1>2, <1>3, <2>2 DEF JobStep, Submit, EmitEvent, RotateCredential, NextSeq, Route, Send
  <2> QED BY <2>1, <2>2
<1>4. Seqs({}) = {}
  BY DEF Seqs
<1>5. NoEntry \in [token : Conns \cup {None}, seq : 0 .. seq]
  BY <1>0, SMTT(30) DEF NoEntry
<1>6. ASSUME NEW c \in Conns, ConnStep(c) PROVE ServerTypes'
  <2>1. CASE Claim(c) \/ Start(c) \/ ClearCurrent(c)
    BY <1>1, <1>5, <2>1 DEF Claim, Start, ClearCurrent
  <2>2. CASE SendWelcome(c)
    <3>1. UNCHANGED <<log, current, resume, purging>> /\ allocated' = TRUE
      BY <2>2 DEF SendWelcome
    <3> QED BY <1>0, <1>1, <3>1, SMTT(30)
  <2>3. CASE StashResume(c)
    BY <1>0, <1>1, <2>3, SMTT(30) DEF StashResume
  <2>4. CASE DropResume(c)
    BY <1>1, <1>4, <1>5, <2>4 DEF DropResume
  <2>5. CASE \E n \in 1 .. high[c] : HandleAck(c, n)
    <3>1. Seqs(log') \subseteq Seqs(log)
      BY <2>5 DEF HandleAck, Trim, Seqs
    <3> QED BY <1>1, <2>5, <3>1 DEF HandleAck
  <2>6. CASE Refuse(c) \/ CheckGap(c) \/ WelcomeFails(c) \/ ReadLog(c) \/ ReplayOne(c)
             \/ StartReading(c) \/ (\E graceful \in BOOLEAN : Leave(c, graceful))
             \/ CloseOutbox(c) \/ Receive(c) \/ Drop(c)
    BY <1>2, <2>6 DEF Refuse, CheckGap, WelcomeFails, ReadLog, ReplayOne, StartReading,
       Leave,
       CloseOutbox, Receive, Drop
  <2> QED BY <1>6, <2>1, <2>2, <2>3, <2>4, <2>5, <2>6 DEF ConnStep
<1>7. CASE FreshHello \/ JanitorExpire \/ JanitorTrim \/ LazyPurge
  BY <1>1, <1>4, <1>5, <1>7 DEF FreshHello, JanitorExpire, JanitorTrim, LazyPurge
<1> QED BY <1>2, <1>3, <1>6, <1>7 DEF Next, vars

(* Every step keeps the types, and a job that emits has a number.          *)
LEMMA TypeStep ==
  ASSUME TypeOK, Numbered, OneOwner, [Next]_vars
  PROVE  TypeOK' /\ Numbered'
<1>1. TypeOK'
  BY CounterStep, ServerTypeStep, ConnTypeStep, PipeStep, JobTypeStep, ClientStep
     DEF TypeOK, ServerTypes, ConnTypes, PipeTypes, JobTypes, ClientTypes
<1>2. Numbered'
  <2>0. seq \in Nat /\ JobTypes
    BY TypeParts
  <2> USE DEF Numbered, JobTypes
  <2>1. ASSUME NEW j \in Jobs, JobStep(j) PROVE Numbered'
    BY <2>0, <2>1, SMTT(30) DEF JobStep, Submit, EmitEvent, RotateCredential, NextSeq, Persist,
                                Route, Send
  <2>2. ASSUME NEW c \in Conns, ConnStep(c) PROVE UNCHANGED job
    BY <2>2 DEF ConnStep, Claim, Refuse, CheckGap, SendWelcome, WelcomeFails, Start, ReadLog,
       ReplayOne, StartReading, HandleAck, Leave, ClearCurrent, CloseOutbox, StashResume,
       DropResume, Receive, Drop
  <2>3. CASE FreshHello \/ JanitorExpire \/ JanitorTrim \/ LazyPurge \/ UNCHANGED vars
    BY <2>3 DEF FreshHello, JanitorExpire, JanitorTrim, LazyPurge, vars
  <2> QED BY <2>1, <2>2, <2>3 DEF Next
<1> QED BY <1>1, <1>2

-------------------------------------------------------------------------------
(* No number is handed out or logged twice.                                *)
LEMMA DistinctStep ==
  ASSUME SeqsDistinct, Numbered, OneOwner, [Next]_vars
  PROVE  SeqsDistinct'
<1>0. TypeOK' /\ seq \in Nat /\ JobTypes /\ Seqs(log) \subseteq 1 .. seq
  BY TypeStep, TypeParts DEF SeqsDistinct, ServerTypes
<1> USE DEF SeqsDistinct, JobTypes
<1>1. CASE log' \subseteq log /\ UNCHANGED job
  BY <1>0, <1>1, SMTT(30) DEF Seqs
<1>2. ASSUME NEW j \in Jobs, JobStep(j) PROVE SeqsDistinct'
  <2>1. CASE Persist(j)
    <3>1. PICK n : n.seq = job[j].seq /\ log' \subseteq log \cup {n}
      BY <2>1, Appended, SMTT(30) DEF Persist
    <3>2. job[j].seq \notin Seqs(log)
      BY <2>1 DEF Persist
    <3>3. \A e, f \in log' : e.seq = f.seq => e = f
      BY <3>1, <3>2 DEF Seqs
    <3>4. \A i \in Jobs : i # j => job'[i] = job[i]
      BY <1>0, <2>1 DEF Persist
    <3>5. job'[j].pc = "route" /\ job'[j].seq = job[j].seq
      BY <1>0, <2>1 DEF Persist
    <3>6. ASSUME NEW i \in Jobs, job'[i].pc = "persist" PROVE job'[i].seq \notin Seqs(log')
      <4>1. i # j /\ job[i].pc = "persist" /\ job'[i].seq = job[i].seq
        BY <3>4, <3>5, <3>6
      <4>2. job[i].seq # job[j].seq /\ job[i].seq \notin Seqs(log)
        BY <2>1, <4>1 DEF Persist
      <4> QED BY <3>1, <4>1, <4>2, SMTT(30) DEF Seqs
    <3>7. \A i, k \in Jobs : (job'[i].pc # "idle" /\ job'[k].pc # "idle"
                              /\ job'[i].seq = job'[k].seq) => i = k
      BY <2>1, <3>4, <3>5, SMTT(30) DEF Persist
    <3> QED BY <1>0, <3>3, <3>6, <3>7
  <2>2. ASSUME NEW pc \in {"persist", "route"}, NextSeq(j, pc) PROVE SeqsDistinct'
    BY <1>0, <2>2, SMTT(30) DEF NextSeq
  <2>3. CASE Route(j) \/ Send(j) \/ \E c \in Conns : Submit(j, c)
    BY <1>0, <2>3, SMTT(30) DEF Route, Send, Submit
  <2> QED BY <1>2, <2>1, <2>2, <2>3 DEF JobStep, EmitEvent, RotateCredential
<1>3. ASSUME NEW c \in Conns, ConnStep(c) PROVE log' \subseteq log /\ UNCHANGED job
  BY <1>3 DEF ConnStep, Claim, Refuse, CheckGap, SendWelcome, WelcomeFails, Start, ReadLog,
     ReplayOne, StartReading, HandleAck, Trim, Leave, ClearCurrent, CloseOutbox, StashResume,
     DropResume, Receive, Drop
<1>4. CASE FreshHello \/ JanitorExpire \/ JanitorTrim \/ LazyPurge \/ UNCHANGED vars
  BY <1>1, <1>4 DEF FreshHello, JanitorExpire, JanitorTrim, LazyPurge, vars
<1> QED BY <1>1, <1>2, <1>3, <1>4 DEF Next
-------------------------------------------------------------------------------
(* A session id passes from its connection to the entry and on to the next *)
(* connection, and no step makes a second owner.                           *)
LEMMA OwnerStep ==
  ASSUME TypeOK, OneOwner, Unclaimed, EntryInv, [Next]_vars
  PROVE  OneOwner' /\ EntryInv'
<1>0. /\ st \in [Conns -> Active \cup {"unused", "gapped", "gone"}]
      /\ current \in Conns \cup {None} /\ 1 \in Conns /\ None \notin Conns
  BY StreamAssumption, SMTT(30) DEF TypeOK, Conns, None
<1>1. CASE UNCHANGED <<st, resume, current, allocated>>
  BY <1>1 DEF OneOwner, EntryInv
<1>a. ASSUME NEW c \in Conns, NEW b, st' = [st EXCEPT ![c] = b]
      PROVE  st'[c] = b /\ \A d \in Conns : d # c => st'[d] = st[d]
  BY <1>0, <1>a
\* The owner goes one step further.
<1>b. ASSUME NEW c \in Conns, NEW b \in Active, st[c] \in Active, st' = [st EXCEPT ![c] = b],
             b \in Serving <=> st[c] \in Serving, UNCHANGED <<resume, current>>,
             allocated' = TRUE
      PROVE  OneOwner' /\ EntryInv'
  <2>1. \A d \in Conns : (st'[d] \in Active <=> st[d] \in Active)
                         /\ (st'[d] \in Serving <=> st[d] \in Serving)
    BY <1>a, <1>b, SMTT(30)
  <2> QED BY <1>b, <2>1 DEF OneOwner, EntryInv
\* A connection that is not the live session goes.
<1>c. ASSUME NEW c \in Conns, NEW b, b \notin Active \cup Serving, st[c] \notin Serving,
             st' = [st EXCEPT ![c] = b], UNCHANGED <<resume, current, allocated>>
      PROVE  OneOwner' /\ EntryInv'
  <2>1. \A d \in Conns : (st'[d] \in Active => st[d] \in Active)
                         /\ (st'[d] \in Serving <=> st[d] \in Serving)
    BY <1>a, <1>c
  <2> QED BY <1>c, <2>1 DEF OneOwner, EntryInv
<1>d. ASSUME NEW c \in Conns, st[c] \in Active PROVE allocated = TRUE
  BY <1>d DEF OneOwner, TypeOK
<1>2. ASSUME NEW c \in Conns, ConnStep(c) PROVE OneOwner' /\ EntryInv'
  <2> USE DEF Step
  <2>1. CASE Claim(c)
    <3>1. /\ st[c] = "unused" /\ st' = [st EXCEPT ![c] = "claimed"] /\ resume # NoEntry
          /\ resume' = NoEntry /\ UNCHANGED <<current, allocated>>
      BY <2>1 DEF Claim
    <3>2. st'[c] = "claimed" /\ \A d \in Conns : d # c => st'[d] = st[d]
      BY <1>a, <3>1
    <3>3. \A d \in Conns : st[d] \notin Active
      BY <3>1 DEF OneOwner
    <3>4. \A d \in Conns : st'[d] \in Active => d = c
      BY <3>2, <3>3
    <3>5. \A d \in Conns : st'[d] \in Serving <=> st[d] \in Serving
      BY <3>1, <3>2 DEF Serving
    <3> QED BY <3>1, <3>4, <3>5 DEF OneOwner, EntryInv
  <2>2. CASE Refuse(c)
    BY <1>c, <2>2 DEF Refuse, Active, Serving
  <2>3. CASE CheckGap(c)
    <3>1. /\ st[c] = "claimed" /\ UNCHANGED <<resume, current, allocated>>
          /\ \/ st' = [st EXCEPT ![c] = "gapped"]
             \/ st' = [st EXCEPT ![c] = "checked"]
      BY <2>3 DEF CheckGap
    <3>2. allocated = TRUE
      BY <1>d, <3>1 DEF Active
    <3> QED BY <1>b, <1>c, <3>1, <3>2 DEF Active, Serving
  <2>4. CASE SendWelcome(c)
    <3>1. st[c] = "checked" /\ st' = [st EXCEPT ![c] = "ready"] /\ allocated' = TRUE
          /\ UNCHANGED <<resume, current>>
      BY <2>4 DEF SendWelcome
    <3> QED BY <1>b, <3>1 DEF Active, Serving
  <2>5. CASE WelcomeFails(c)
    BY <1>c, <2>5 DEF WelcomeFails, Active, Serving
  <2>6. CASE Start(c)
    <3>1. /\ st[c] = "ready" /\ current' = c /\ UNCHANGED <<resume, allocated>>
          /\ \E b \in {"live", "replay"} : st' = [st EXCEPT ![c] = b]
      BY <2>6 DEF Start
    <3>2. st'[c] \in {"live", "replay"} /\ \A d \in Conns : d # c => st'[d] = st[d]
      BY <1>a, <3>1
    <3>3. \A d \in Conns : st'[d] \in Active <=> st[d] \in Active
      BY <3>1, <3>2 DEF Active
    <3>4. st[c] \in Active /\ st'[c] \in Serving /\ Serving \subseteq Active
      BY <3>1, <3>2 DEF Active, Serving
    <3>5. \A d \in Conns : c = d <=> st'[d] \in Serving
      BY <3>3, <3>4 DEF OneOwner
    <3> QED BY <3>1, <3>3, <3>5 DEF OneOwner, EntryInv
  <2>7. CASE ReadLog(c) \/ StartReading(c)
    <3>1. st[c] \in {"replay", "replaying"} /\ UNCHANGED <<resume, current, allocated>>
          /\ \E b \in {"replaying", "live"} : st' = [st EXCEPT ![c] = b]
      BY <2>7 DEF ReadLog, StartReading
    <3>2. allocated = TRUE
      BY <1>d, <3>1 DEF Active
    <3> QED BY <1>b, <3>1, <3>2 DEF Active, Serving
  <2>8. CASE \E graceful \in BOOLEAN : Leave(c, graceful)
    <3>1. st[c] = "live" /\ st' = [st EXCEPT ![c] = "left"]
          /\ UNCHANGED <<resume, current, allocated>>
      BY <2>8 DEF Leave
    <3>2. allocated = TRUE
      BY <1>d, <3>1 DEF Active
    <3> QED BY <1>b, <3>1, <3>2 DEF Active, Serving
  <2>9. CASE ClearCurrent(c)
    <3>1. /\ st[c] = "left" /\ st' = [st EXCEPT ![c] = "cleared"]
          /\ current' = (IF current = c THEN None ELSE current)
          /\ UNCHANGED <<resume, allocated>>
      BY <2>9 DEF ClearCurrent
    <3>2. st'[c] = "cleared" /\ \A d \in Conns : d # c => st'[d] = st[d]
      BY <1>a, <3>1
    <3>3. \A d \in Conns : st'[d] \in Active <=> st[d] \in Active
      BY <3>1, <3>2 DEF Active
    <3>4. current = c /\ current' = None
      BY <3>1 DEF OneOwner, Serving
    <3>5. \A d \in Conns : st'[d] \notin Serving
      <4>1. st'[c] \notin Serving
        BY <3>2 DEF Serving
      <4>2. \A d \in Conns : d # c => st[d] \notin Serving
        BY <3>4 DEF OneOwner
      <4> QED BY <3>2, <4>1, <4>2
    <3> QED BY <1>0, <3>1, <3>3, <3>4, <3>5, SMTT(30) DEF OneOwner, EntryInv
  <2>10. CASE CloseOutbox(c)
    <3>1. st[c] = "cleared" /\ st' = [st EXCEPT ![c] = "closed"]
          /\ UNCHANGED <<resume, current, allocated>>
      BY <2>10 DEF CloseOutbox
    <3>2. allocated = TRUE
      BY <1>d, <3>1 DEF Active
    <3> QED BY <1>b, <3>1, <3>2 DEF Active, Serving
  <2>11. CASE StashResume(c) \/ DropResume(c)
    <3>1. /\ st[c] = "closed" /\ st' = [st EXCEPT ![c] = "gone"] /\ UNCHANGED current
          /\ allocated' = allocated \/ resume' = NoEntry
      BY <2>11 DEF StashResume, DropResume
    <3>2. st'[c] = "gone" /\ \A d \in Conns : d # c => st'[d] = st[d]
      BY <1>a, <3>1
    <3>3. st[c] \in Active /\ allocated = TRUE
      BY <1>d, <3>1 DEF Active
    <3>4. \A d \in Conns : st'[d] \notin Active
      <4>1. st'[c] \notin Active
        BY <3>2 DEF Active
      <4> QED BY <3>2, <3>3, <4>1 DEF OneOwner
    <3>5. \A d \in Conns : st'[d] \in Serving <=> st[d] \in Serving
      BY <3>1, <3>2 DEF Serving
    <3> QED BY <3>1, <3>3, <3>4, <3>5 DEF OneOwner, EntryInv
  <2>12. CASE (\E n \in 1 .. high[c] : HandleAck(c, n)) \/ ReplayOne(c) \/ Receive(c) \/ Drop(c)
    BY <1>1, <2>12 DEF HandleAck, ReplayOne, Receive, Drop
  <2> QED BY <1>2, <2>1, <2>2, <2>3, <2>4, <2>5, <2>6, <2>7, <2>8, <2>9, <2>10, <2>11, <2>12
          DEF ConnStep
<1>3. ASSUME NEW j \in Jobs, JobStep(j) PROVE UNCHANGED <<st, resume, current, allocated>>
  BY <1>3 DEF JobStep, Submit, EmitEvent, RotateCredential, NextSeq, Persist, Route, Send
<1>4. CASE FreshHello
  <2>1. /\ st[1] = "unused" /\ st' = [st EXCEPT ![1] = "ready"] /\ allocated' = TRUE
        /\ UNCHANGED <<resume, current>>
    BY <1>4 DEF FreshHello, Step
  <2>2. resume = NoEntry /\ \A d \in Conns : st[d] = "unused"
    BY <2>1 DEF Unclaimed
  <2>3. st'[1] = "ready" /\ \A d \in Conns : d # 1 => st'[d] = "unused"
    BY <1>0, <1>a, <2>1, <2>2
  <2>4. \A d \in Conns : (st'[d] \in Active => d = 1) /\ st'[d] \notin Serving
                         /\ st[d] \notin Serving
    BY <2>2, <2>3 DEF Active, Serving
  <2> QED BY <2>1, <2>2, <2>4 DEF OneOwner, EntryInv
<1>5. CASE JanitorExpire \/ LazyPurge
  BY <1>5 DEF JanitorExpire, LazyPurge, OneOwner, EntryInv
<1>6. CASE JanitorTrim
  <2>1. purging = TRUE
    BY <1>6 DEF JanitorTrim, TypeOK
  <2>2. \A c \in Conns : st[c] \notin Active
    BY <2>1 DEF Unclaimed
  <2>3. resume = NoEntry
    BY <2>1 DEF Unclaimed
  <2> QED BY <1>6, <2>2, <2>3 DEF JanitorTrim, OneOwner, EntryInv
<1>7. CASE UNCHANGED vars
  BY <1>1, <1>7 DEF vars
<1> QED BY <1>1, <1>2, <1>3, <1>4, <1>5, <1>6, <1>7 DEF Next

(* Nothing comes to life before the first hello, nor while the janitor     *)
(* holds the id.                                                           *)
LEMMA UnclaimedStep ==
  ASSUME TypeOK, OneOwner, Unclaimed, [Next]_vars
  PROVE  Unclaimed'
<1>0. /\ st \in [Conns -> Active \cup {"unused", "gapped", "gone"}]
      /\ 1 \in Conns /\ pipe \in [Conns -> Seq(0 .. seq)]
  BY StreamAssumption, SMTT(30) DEF TypeOK, Conns
<1> USE DEF Active, Step
<1>a. CASE UNCHANGED <<st, pipe, resume, purging, token>>
  BY <1>a DEF Unclaimed
<1>1. CASE st[1] = "unused"
  <2>0. \A c \in Conns : st[c] = "unused" /\ pipe[c] = <<>>
    BY <1>1 DEF Unclaimed
  <2>1. resume = NoEntry /\ purging = FALSE /\ token = None
    BY <1>1 DEF Unclaimed
  <2>2. CASE FreshHello
    BY <1>0, <2>0, <2>1, <2>2 DEF FreshHello, Unclaimed
  <2>3. ASSUME NEW c \in Conns, ConnStep(c) PROVE UNCHANGED <<st, pipe, resume, purging, token>>
    BY <2>0, <2>1, <2>3 DEF ConnStep, Claim, Refuse, Reconnecting, CheckGap, SendWelcome,
       WelcomeFails, Start, ReadLog, ReplayOne, StartReading, HandleAck, Leave, ClearCurrent,
       CloseOutbox, StashResume, DropResume, Receive, Drop
  <2>4. ASSUME NEW j \in Jobs, JobStep(j) PROVE UNCHANGED <<st, pipe, resume, purging, token>>
    <3>1. CASE Send(j)
      <4>1. CASE job[j].to \in Conns
        BY <2>0, <3>1, <4>1 DEF Send, Enqueue
      <4>2. CASE job[j].to \notin Conns
        <5>1. \A q : [pipe EXCEPT ![job[j].to] = q] = pipe
          BY <1>0, <4>2
        <5> QED BY <3>1, <5>1 DEF Send, Enqueue
      <4> QED BY <4>1, <4>2
    <3>2. CASE ~ Send(j)
      BY <2>4, <3>2 DEF JobStep, Submit, EmitEvent, RotateCredential, NextSeq, Persist, Route
    <3> QED BY <3>1, <3>2
  <2>5. CASE JanitorExpire \/ JanitorTrim \/ LazyPurge
    BY <2>1, <2>5 DEF JanitorExpire, JanitorTrim, LazyPurge
  <2>6. CASE UNCHANGED vars
    BY <1>a, <2>6 DEF vars
  <2> QED BY <1>a, <2>2, <2>3, <2>4, <2>5, <2>6 DEF Next
<1>2. CASE st[1] # "unused"
  <2>1. st'[1] # "unused"
    <3>1. ASSUME NEW c \in Conns, ConnStep(c) PROVE st'[1] # "unused"
      BY <1>0, <1>2, <3>1 DEF ConnStep, Claim, Refuse, CheckGap, SendWelcome,
         WelcomeFails, Start, ReadLog, ReplayOne, StartReading, HandleAck, Leave, ClearCurrent,
         CloseOutbox, StashResume, DropResume, Receive, Drop
    <3>2. ASSUME NEW j \in Jobs, JobStep(j) PROVE st'[1] # "unused"
      BY <1>2, <3>2 DEF JobStep, Submit, EmitEvent, RotateCredential, NextSeq, Persist, Route, Send
    <3>3. CASE FreshHello \/ JanitorExpire \/ JanitorTrim \/ LazyPurge \/ UNCHANGED vars
      BY <1>2, <3>3 DEF FreshHello, JanitorExpire, JanitorTrim, LazyPurge, vars
    <3> QED BY <3>1, <3>2, <3>3 DEF Next
  <2>2. ASSUME purging' = TRUE PROVE resume' = NoEntry /\ \A c \in Conns : st'[c] \notin Active
    <3>1. CASE JanitorExpire
      BY <3>1 DEF JanitorExpire, OneOwner
    <3>2. CASE ~ JanitorExpire
      <4>1. purging = TRUE
        <5>1. ASSUME NEW c \in Conns, ConnStep(c) PROVE purging' = purging
          BY <5>1 DEF ConnStep, Claim, Refuse, CheckGap, SendWelcome,
             WelcomeFails, Start, ReadLog, ReplayOne, StartReading, HandleAck, Leave, ClearCurrent,
             CloseOutbox, StashResume, DropResume, Receive, Drop
        <5>2. ASSUME NEW j \in Jobs, JobStep(j) PROVE purging' = purging
          BY <5>2 DEF JobStep, Submit, EmitEvent, RotateCredential, NextSeq, Persist, Route, Send
        <5>3. CASE FreshHello \/ LazyPurge \/ UNCHANGED vars
          BY <2>2, <5>3 DEF FreshHello, LazyPurge, vars
        <5>4. ~ JanitorTrim
          BY <2>2 DEF JanitorTrim
        <5> QED BY <2>2, <3>2, <5>1, <5>2, <5>3, <5>4 DEF Next
      <4>2. resume = NoEntry /\ \A c \in Conns : st[c] \notin Active
        BY <4>1 DEF Unclaimed
      <4>3. ASSUME NEW c \in Conns, ConnStep(c)
            PROVE  resume' = NoEntry /\ \A d \in Conns : st'[d] \notin Active
        BY <1>0, <4>2, <4>3 DEF ConnStep, Claim, Refuse, CheckGap, SendWelcome,
           WelcomeFails, Start, ReadLog, ReplayOne, StartReading, HandleAck, Leave, ClearCurrent,
           CloseOutbox, StashResume, DropResume, Receive, Drop
      <4>4. ASSUME NEW j \in Jobs, JobStep(j) PROVE UNCHANGED <<st, resume>>
        BY <4>4 DEF JobStep, Submit, EmitEvent, RotateCredential, NextSeq, Persist, Route, Send
      <4>5. CASE FreshHello \/ JanitorTrim \/ LazyPurge \/ UNCHANGED vars
        BY <1>2, <4>2, <4>5 DEF FreshHello, JanitorTrim, LazyPurge, vars
      <4> QED BY <3>2, <4>2, <4>3, <4>4, <4>5 DEF Next
    <3> QED BY <3>1, <3>2
  <2> QED BY <2>1, <2>2 DEF Unclaimed
<1> QED BY <1>1, <1>2
(* Jobs are submitted on a connection that reads, and the first one to     *)
(* read is connection 1.                                                   *)
LEMMA EarlyStep ==
  ASSUME TypeOK, OneOwner, Unclaimed, Early, [Next]_vars
  PROVE  Early'
<1>0. /\ st \in [Conns -> Active \cup {"unused", "gapped", "gone"}]
      /\ 1 \in Conns
  BY StreamAssumption, SMTT(30) DEF TypeOK, Conns
<1> USE DEF Active, Step, Early
<1>1. ASSUME NEW j \in Jobs, JobStep(j) PROVE Early'
  <2>1. st' = st
    BY <1>1 DEF JobStep, Submit, EmitEvent, RotateCredential, NextSeq, Persist, Route, Send
  <2>2. CASE st[1] \in {"unused", "ready"}
    <3>1. job[j].home = None /\ job[j].pc = "idle"
      BY <2>2
    <3>2. ASSUME NEW c \in Conns PROVE ~ Submit(j, c)
      BY <1>0, <2>2 DEF Submit, OneOwner, Unclaimed
    <3> QED BY <1>1, <3>1, <3>2 DEF JobStep, EmitEvent, RotateCredential, NextSeq, Persist, Route,
            Send
  <2> QED BY <2>1, <2>2
<1>2. ASSUME NEW c \in Conns, ConnStep(c) PROVE Early'
  <2>1. job' = job /\ log' \subseteq log
    BY <1>2 DEF ConnStep, Claim, Refuse, CheckGap, SendWelcome, WelcomeFails, Start, ReadLog,
       ReplayOne, StartReading, HandleAck, Trim, Leave, ClearCurrent, CloseOutbox, StashResume,
       DropResume, Receive, Drop
  <2>2. ~ Claim(1) /\ st[1] \notin {"claimed", "checked"}
    <3>1. ~ Reconnecting(1)
      BY SMTT(30) DEF Reconnecting
    <3>2. ~ Claim(1)
      BY <3>1 DEF Claim
    <3>3. st[1] \notin {"claimed", "checked"}
      BY DEF Early
    <3> QED BY <3>2, <3>3
  <2>3. /\ st'[1] \notin {"claimed", "checked"}
        /\ st'[1] \in {"unused", "ready"} => st[1] \in {"unused", "ready"}
    BY <1>0, <1>2, <2>2 DEF ConnStep, Claim, Refuse, CheckGap, SendWelcome, WelcomeFails,
       Start,
       ReadLog, ReplayOne, StartReading, HandleAck, Leave, ClearCurrent, CloseOutbox, StashResume,
       DropResume, Receive, Drop
  <2> QED BY <2>1, <2>2, <2>3
<1>3. CASE FreshHello \/ JanitorExpire \/ JanitorTrim \/ LazyPurge \/ UNCHANGED vars
  BY <1>0, <1>3 DEF FreshHello, JanitorExpire, JanitorTrim, LazyPurge, vars
<1> QED BY <1>1, <1>2, <1>3 DEF Next
-------------------------------------------------------------------------------
(* What Append and Tail do to the events a pipe holds.                     *)
LEMMA PipeElems ==
  ASSUME NEW S, NEW q \in Seq(S)
  PROVE  /\ \A s \in S : Elems(q) \cup {s} \subseteq Elems(Append(q, s))
         /\ q # <<>> => Elems(q) \subseteq {Head(q)} \cup Elems(Tail(q))
<1>1. ASSUME NEW s \in S PROVE Elems(q) \cup {s} \subseteq Elems(Append(q, s))
  <2>1. Len(Append(q, s)) = Len(q) + 1 /\ Append(q, s)[Len(q) + 1] = s
        /\ \A i \in 1 .. Len(q) : Append(q, s)[i] = q[i]
    BY AppendProperties, SMTT(30)
  <2>2. Len(q) \in Nat
    BY LenProperties
  <2> QED BY <2>1, <2>2, SMTT(30) DEF Elems
<1>2. ASSUME q # <<>>, NEW i \in 1 .. Len(q) PROVE q[i] \in {Head(q)} \cup Elems(Tail(q))
  <2>1. Len(Tail(q)) = Len(q) - 1 /\ \A k \in 1 .. Len(Tail(q)) : Tail(q)[k] = q[k + 1]
    BY <1>2, HeadTailProperties
  <2>2. Len(q) \in Nat
    BY LenProperties
  <2>3. CASE i = 1
    BY <2>3, SMTT(30)
  <2>4. CASE i # 1
    <3>1. i - 1 \in 1 .. Len(Tail(q)) /\ Tail(q)[i - 1] = q[i]
      BY <1>2, <2>1, <2>2, <2>4, SMTT(30)
    <3> QED BY <3>1 DEF Elems
  <2> QED BY <2>3, <2>4
<1> QED BY <1>1, <1>2 DEF Elems

\* Event s has reached the client, is on its way on connection c, or is about
\* to be put there.
OnItsWay(c, s) ==
  \/ s \in got \/ s \in Elems(pipe[c]) \/ s \in todo[c]
  \/ \E j \in Jobs : /\ job[j].seq = s
                     /\ job[j].pc = "route" \/ (job[j].pc = "enqueue" /\ job[j].to = c)

(* ResumeComplete, event by event.                                         *)
LEMMA ResumePointwise ==
  ResumeComplete <=>
    \A c \in Conns : (st[c] \in {"replaying", "live"} /\ ~ down[c]) =>
      \A s \in Since(log, from[c]) : OnItsWay(c, s)
<1>1. ASSUME NEW c, NEW s
      PROVE  OnItsWay(c, s) <=> s \in got \cup Elems(pipe[c]) \cup todo[c] \cup Pending(c)
  BY DEF OnItsWay, Pending
<1> QED BY <1>1 DEF ResumeComplete

(* No step leaves a hole between the replay and the live events.           *)
LEMMA ResumeStep ==
  ASSUME TypeOK, OneOwner, Early, ResumeComplete, [Next]_vars
  PROVE  ResumeComplete'
<1> SUFFICES ASSUME NEW c \in Conns, st'[c] \in {"replaying", "live"}, ~ down'[c],
                    NEW s \in Since(log', from'[c])
             PROVE  OnItsWay(c, s)'
  <2>1. ASSUME NEW c, NEW s, OnItsWay(c, s)'
        PROVE  s \in (got \cup Elems(pipe[c]) \cup todo[c] \cup Pending(c))'
    BY <2>1 DEF OnItsWay, Pending
  <2> QED BY <2>1 DEF ResumeComplete
<1>0. /\ st \in [Conns -> Active \cup {"unused", "gapped", "gone"}] /\ seq \in Nat
      /\ PipeTypes /\ ConnTypes /\ JobTypes /\ Seqs(log) \subseteq 1 .. seq
  BY TypeParts DEF ConnTypes, ServerTypes
<1>1. ASSUME st[c] \in {"replaying", "live"}, ~ down[c], s \in Since(log, from[c])
      PROVE  OnItsWay(c, s)
  BY <1>1, ResumePointwise
<1>2. ASSUME st[c] \in {"replaying", "live"}, ~ down[c], log' \subseteq log, from'[c] = from[c],
             got \subseteq got', pipe'[c] = pipe[c], todo'[c] = todo[c], job' = job
      PROVE  OnItsWay(c, s)'
  <2>1. s \in Since(log, from[c])
    BY <1>2 DEF Since, Seqs
  <2> QED BY <1>1, <1>2, <2>1 DEF OnItsWay
<1>3. ASSUME NEW d \in Conns, d # c, ConnStep(d) PROVE OnItsWay(c, s)'
  <2>1. st'[c] = st[c] /\ from'[c] = from[c] /\ todo'[c] = todo[c] /\ job' = job
    BY <1>0, <1>3 DEF ConnStep, Claim, Refuse, CheckGap, SendWelcome, WelcomeFails, Start,
       ReadLog,
       ReplayOne, StartReading, HandleAck, Leave, ClearCurrent, CloseOutbox, StashResume,
       DropResume, Receive, Drop, Step, ConnTypes
  <2>2. down'[c] = down[c] /\ pipe'[c] = pipe[c]
    BY <1>0, <1>3 DEF ConnStep, Claim, Refuse, CheckGap, SendWelcome, WelcomeFails, Start,
       ReadLog,
       ReplayOne, StartReading, HandleAck, Leave, ClearCurrent, CloseOutbox, StashResume,
       DropResume, Receive, Drop, Enqueue, PipeTypes
  <2>3. log' \subseteq log /\ got \subseteq got'
    BY <1>3 DEF ConnStep, Claim, Refuse, CheckGap, SendWelcome, WelcomeFails, Start, ReadLog,
       ReplayOne, StartReading, HandleAck, Trim, Leave, ClearCurrent, CloseOutbox, StashResume,
       DropResume, Receive, Drop
  <2> QED BY <1>2, <2>1, <2>2, <2>3
<1>4. ASSUME ConnStep(c) PROVE OnItsWay(c, s)'
  <2> USE DEF Step
  <2>1. CASE Start(c)
    <3>1. c = 1 /\ st[1] = "ready" /\ log' = log
      BY <1>0, <2>1 DEF Start
    <3> QED BY <3>1 DEF Early, Since, Seqs
  <2>2. CASE ReadLog(c)
    <3>1. s \in todo'[c]
      BY <1>0, <2>2 DEF ReadLog, ConnTypes
    <3> QED BY <3>1 DEF OnItsWay
  <2>3. CASE ReplayOne(c)
    <3>1. PICK x \in todo[c] : Enqueue(c, x) /\ todo' = [todo EXCEPT ![c] = @ \ {x}]
      BY <2>3 DEF ReplayOne
    <3>2. UNCHANGED <<log, from, st, down, got, job>>
      BY <2>3 DEF ReplayOne
    <3>3. pipe'[c] = Append(pipe[c], x) /\ todo'[c] = todo[c] \ {x}
      BY <1>0, <3>1, <3>2 DEF Enqueue, PipeTypes, ConnTypes
    <3>4. x \in 0 .. seq /\ pipe[c] \in Seq(0 .. seq)
      <4>1. pipe[c] \in Seq(0 .. seq)
        BY <1>0 DEF PipeTypes
      <4>2. todo[c] \subseteq 1 .. seq
        BY <1>0 DEF ConnTypes
      <4>3. x \in 1 .. seq
        BY <3>1, <4>2
      <4> QED BY <4>1, <4>3, SMTT(30)
    <3>5. Elems(pipe[c]) \cup {x} \subseteq Elems(pipe'[c])
      BY <3>3, <3>4, PipeElems
    <3>6. OnItsWay(c, s)
      BY <1>1, <3>2
    <3> QED BY <3>2, <3>3, <3>5, <3>6 DEF OnItsWay
  <2>4. CASE Receive(c)
    <3>1. UNCHANGED <<log, from, st, down, todo, job>> /\ pipe'[c] = Tail(pipe[c])
      BY <1>0, <2>4 DEF Receive, PipeTypes
    <3>2. pipe[c] \in Seq(0 .. seq) /\ pipe[c] # <<>>
      BY <1>0, <2>4 DEF Receive, PipeTypes
    <3>3. Elems(pipe[c]) \subseteq {Head(pipe[c])} \cup Elems(pipe'[c])
      BY <3>1, <3>2, PipeElems
    <3>4. s # Welcome
      BY <1>0, <3>1, SMTT(30) DEF Since, Welcome
    <3>5. got \subseteq got' /\ (Head(pipe[c]) # Welcome => Head(pipe[c]) \in got')
      BY <2>4 DEF Receive
    <3>6. OnItsWay(c, s)
      BY <1>1, <3>1
    <3> QED BY <3>1, <3>3, <3>4, <3>5, <3>6 DEF OnItsWay
  <2>5. CASE StartReading(c)
    BY <1>0, <1>2, <2>5 DEF StartReading
  <2>6. CASE \E n \in 1 .. high[c] : HandleAck(c, n)
    BY <1>2, <2>6 DEF HandleAck, Trim
  <2>7. ~ Drop(c)
    BY <1>0 DEF Drop, PipeTypes
  <2>8. /\ ~ Claim(c) /\ ~ Refuse(c) /\ ~ CheckGap(c) /\ ~ SendWelcome(c) /\ ~ WelcomeFails(c)
        /\ ~ \E graceful \in BOOLEAN : Leave(c, graceful)
        /\ ~ ClearCurrent(c) /\ ~ CloseOutbox(c) /\ ~ StashResume(c) /\ ~ DropResume(c)
    BY <1>0 DEF Claim, Refuse, CheckGap, SendWelcome, WelcomeFails, Leave, ClearCurrent,
       CloseOutbox, StashResume, DropResume
  <2> QED BY <1>4, <2>1, <2>2, <2>3, <2>4, <2>5, <2>6, <2>7, <2>8 DEF ConnStep
<1>5. ASSUME NEW j \in Jobs, JobStep(j) PROVE OnItsWay(c, s)'
  <2>0. UNCHANGED <<st, from, todo, down, got>>
    BY <1>5 DEF JobStep, Submit, EmitEvent, RotateCredential, NextSeq, Persist, Route, Send
  <2>1. CASE Persist(j)
    <3>1. PICK n : n.seq = job[j].seq /\ log' \subseteq log \cup {n}
      BY <2>1, Appended, SMTT(30) DEF Persist
    <3>2. job'[j].pc = "route" /\ job'[j].seq = job[j].seq /\ pipe' = pipe
      BY <1>0, <2>1 DEF Persist, JobTypes
    <3>3. CASE s = job[j].seq
      BY <3>2, <3>3 DEF OnItsWay
    <3>4. CASE s # job[j].seq
      <4>1. s \in Since(log, from[c])
        BY <2>0, <3>1, <3>4 DEF Since, Seqs
      <4>2. OnItsWay(c, s)
        BY <1>1, <2>0, <4>1
      <4>3. \A i \in Jobs : i # j => job'[i] = job[i]
        BY <1>0, <2>1 DEF Persist, JobTypes
      <4> QED BY <2>0, <3>2, <3>4, <4>2, <4>3 DEF OnItsWay
    <3> QED BY <3>3, <3>4
  <2>2. ASSUME log' = log PROVE OnItsWay(c, s)
    BY <1>1, <2>0, <2>2
  <2>3. CASE Route(j)
    <3>1. current = c
      BY <2>0 DEF OneOwner, Serving
    <3>2. job'[j].pc = "enqueue" /\ job'[j].to = c /\ job'[j].seq = job[j].seq
      BY <1>0, <2>3, <3>1, SMTT(30) DEF Route, JobTypes, Conns, None
    <3>3. pipe' = pipe /\ log' = log /\ \A i \in Jobs : i # j => job'[i] = job[i]
      BY <1>0, <2>3 DEF Route, JobTypes
    <3> QED BY <2>0, <2>2, <3>2, <3>3 DEF OnItsWay
  <2>4. CASE Send(j)
    <3>1. log' = log /\ \A i \in Jobs : i # j => job'[i] = job[i]
      BY <1>0, <2>4 DEF Send, JobTypes
    <3>2. pipe[c] \in Seq(0 .. seq) /\ job[j].seq \in 0 .. seq
      BY <1>0 DEF PipeTypes, JobTypes
    <3>3. job[j].pc = "enqueue"
      BY <2>4 DEF Send
    <3>4. CASE job[j].to = c
      <4>1. pipe'[c] = Append(pipe[c], job[j].seq)
        BY <1>0, <2>0, <2>4, <3>4 DEF Send, Enqueue, PipeTypes
      <4>2. Elems(pipe[c]) \cup {job[j].seq} \subseteq Elems(pipe'[c])
        BY <3>2, <4>1, PipeElems
      <4> QED BY <2>0, <2>2, <3>1, <4>2 DEF OnItsWay
    <3>5. CASE job[j].to # c
      <4>1. pipe'[c] = pipe[c]
        BY <1>0, <2>4, <3>5 DEF Send, Enqueue, PipeTypes
      <4> QED BY <2>0, <2>2, <3>1, <3>3, <3>5, <4>1 DEF OnItsWay
    <3> QED BY <3>4, <3>5
  <2>5. ASSUME NEW pc \in {"persist", "route"}, NextSeq(j, pc) PROVE OnItsWay(c, s)'
    <3>1. job[j].pc = "idle" /\ pipe' = pipe /\ log' = log
      BY <2>5 DEF NextSeq
    <3>2. \A i \in Jobs : i # j => job'[i] = job[i]
      BY <1>0, <2>5 DEF NextSeq, JobTypes
    <3> QED BY <2>0, <2>2, <3>1, <3>2 DEF OnItsWay
  <2>6. ASSUME NEW d \in Conns, Submit(j, d) PROVE OnItsWay(c, s)'
    <3>1. pipe' = pipe /\ log' = log
      BY <2>6 DEF Submit
    <3>2. \A i \in Jobs : job'[i].pc = job[i].pc /\ job'[i].seq = job[i].seq
                          /\ job'[i].to = job[i].to
      BY <1>0, <2>6, SMTT(30) DEF Submit, JobTypes
    <3> QED BY <2>0, <2>2, <3>1, <3>2 DEF OnItsWay
  <2> QED BY <1>5, <2>1, <2>3, <2>4, <2>5, <2>6 DEF JobStep, EmitEvent, RotateCredential
<1>6. CASE FreshHello
  <2>1. c # 1
    BY <1>0, <1>6 DEF FreshHello, Step
  <2>2. st'[c] = st[c] /\ pipe'[c] = pipe[c]
    BY <1>0, <1>6, <2>1 DEF FreshHello, Step, PipeTypes
  <2> QED BY <1>2, <1>6, <2>2 DEF FreshHello
<1>7. CASE JanitorExpire \/ JanitorTrim \/ LazyPurge \/ UNCHANGED vars
  BY <1>2, <1>7 DEF JanitorExpire, JanitorTrim, LazyPurge, vars
<1> QED BY <1>3, <1>4, <1>5, <1>6, <1>7 DEF Next

-------------------------------------------------------------------------------
(* The inductive invariant of a session id across its connections.         *)
THEOREM Stream == Spec => []StreamInv
<1>1. Init => StreamInv
  BY InitStream
<1>2. StreamInv /\ [Next]_vars => StreamInv'
  <2> SUFFICES ASSUME StreamInv, [Next]_vars PROVE StreamInv'
    OBVIOUS
  <2>1. TypeOK /\ SeqsDistinct /\ Numbered /\ OneOwner
    BY DEF StreamInv, SeqsDistinct
  <2>2. Unclaimed /\ EntryInv /\ Early /\ ResumeComplete
    BY DEF StreamInv
  <2>3. SeqsDistinct' /\ Numbered'
    BY <2>1, DistinctStep, TypeStep
  <2>4. OneOwner' /\ EntryInv' /\ Unclaimed' /\ Early'
    BY <2>1, <2>2, OwnerStep, UnclaimedStep, EarlyStep
  <2>5. ResumeComplete'
    BY <2>1, <2>2, ResumeStep
  <2> QED BY <2>3, <2>4, <2>5 DEF StreamInv
<1> QED BY <1>1, <1>2, PTL DEF Spec

(* A session id has one owner at a time, whatever reconnects, expires or   *)
(* is claimed meanwhile (claimResume, stashResume, the janitor).           *)
THEOREM SingleOwner == Spec => []OneOwner
<1>1. StreamInv => OneOwner
  BY DEF StreamInv
<1> QED BY <1>1, Stream, PTL

(* No event_seq is used twice for a session id (nextSeq, setIfGreater).    *)
THEOREM UniqueSeqs == Spec => []SeqsDistinct
<1>1. StreamInv => SeqsDistinct
  BY DEF StreamInv
<1> QED BY <1>1, Stream, PTL

(* A resumed connection misses nothing that the log retains (replayBuffered *)
(* against send's lookup of the live session, #145).                       *)
THEOREM NoHole == Spec => []ResumeComplete
<1>1. StreamInv => ResumeComplete
  BY DEF StreamInv
<1> QED BY <1>1, Stream, PTL
===============================================================================
