------------------------- MODULE ClientDeliveryProofs -------------------------
(***************************************************************************)
(* Proofs about ClientDelivery, for any channel capacity and number of     *)
(* events, with or without EventDeliveryTimeout: the close barrier of      *)
(* handles and subscriptions, and that a consumer has been given, in       *)
(* order, what the read loop has dispatched.                               *)
(***************************************************************************)
EXTENDS ClientDelivery, SequenceTheorems, TLAPS

(* A leaf that names no prover is for Zenon; arithmetic is for SMT.        *)
USE ZenonT(60)

USE DEF pushVars, chanVars, endVars, clientVars, Finishers

(* The sinks a job's events go to form a sequence of sinks.                *)
LEMMA RoutesType ==
  ASSUME subscribers \subseteq Sinks
  PROVE  Routes \in Seq(Sinks)
BY SMTT(30) DEF Routes

(* A finisher with a sink to work on works on one of the client's sinks,   *)
(* and so does the read loop.                                              *)
LEMMA Heads ==
  ASSUME TypeOK, Busy
  PROVE  /\ rpc \in {"add", "check", "send", "sendChunk", "release", "overflow"}
              => Head(targets) \in Sinks /\ Tail(targets) \in Seq(Sinks)
         /\ \A f \in Finishers :
              fpc[f] \in {"mark", "wait", "close", "closeChunks"}
                => Head(todo[f]) \in Sinks /\ Tail(todo[f]) \in Seq(Sinks)
BY HeadTailProperties DEF TypeOK, Busy

(* The initial states satisfy the invariant.                               *)
LEMMA InitBarrier == Init => BarrierInv
<1> SUFFICES ASSUME Init PROVE BarrierInv
  OBVIOUS
<1>1. TypeOK
  <2>1. targets \in Seq(Sinks) /\ todo \in [Finishers -> Seq(Sinks)]
    BY EmptySeq DEF Init
  <2>2. queue \in [Channels -> Seq(Nat)] /\ \A c \in Channels : Len(queue[c]) <= Cap
    BY EmptySeq, DeliveryAssumption, SMTT(30) DEF Init
  <2>3. /\ wg \in [Sinks -> 0..1] /\ got \in [Sinks -> Nat] /\ lost \in SUBSET Sinks
        /\ done \in [Sinks -> BOOLEAN] /\ closed \in [Channels -> BOOLEAN]
    BY SMTT(30) DEF Init
  <2> QED BY <2>1, <2>2, <2>3 DEF Init, TypeOK
<1>2. Busy /\ WaitGroupExact /\ SendBarrier /\ OneCloser /\ ChunksLast
  BY DeliveryAssumption DEF Init, Busy, WaitGroupExact, SendBarrier, OneCloser, ChunksLast,
     Pushing, Offering, Ending, Closing, Channels
<1> QED BY <1>1, <1>2 DEF BarrierInv

Steps == {"idle", "mark", "wait", "close", "closeChunks", "ended"}

(* Every step keeps the variables' types; in particular no push ever meets *)
(* a closed channel.                                                       *)
LEMMA TypeStep ==
  ASSUME BarrierInv, [Next]_vars
  PROVE  TypeOK'
<1>0. /\ TypeOK /\ Busy /\ WaitGroupExact /\ SendBarrier /\ ChunksLast
      /\ Routes \in Seq(Sinks)
      /\ rpc \in {"add", "check", "send", "sendChunk", "release", "overflow"}
           => Head(targets) \in Sinks /\ Tail(targets) \in Seq(Sinks)
      /\ \A f \in Finishers :
           fpc[f] \in {"mark", "wait", "close", "closeChunks"}
             => Head(todo[f]) \in Sinks /\ Tail(todo[f]) \in Seq(Sinks)
  BY Heads, RoutesType DEF BarrierInv, TypeOK
<1> USE DEF TypeOK
<1>1. CASE ReadEvent
  <2>1. /\ rpc' \in {"recv", "add"} /\ event' \in Nat /\ isChunk' \in BOOLEAN
        /\ targets' \in Seq(Sinks)
    BY <1>0, <1>1, SMTT(30) DEF ReadEvent, AfterPush
  <2> QED BY <1>0, <1>1, <2>1 DEF ReadEvent
<1>2. CASE Register
  BY <1>0, <1>2, SMTT(30) DEF Register, WaitGroupExact, Pushing
<1>3. CASE Check
  BY <1>0, <1>3 DEF Check
<1>4. CASE Put
  <2>1. Sending \in Channels
    BY <1>0, <1>4 DEF Put, Sending, Channels, Busy
  <2>2. ~closed[Sending]
    <3>1. Head(targets) \in Sinks /\ ~closed[Head(targets)]
      BY <1>0, <1>4 DEF Put, SendBarrier, Offering
    <3>2. CASE rpc = "sendChunk"
      BY <1>0, <2>1, <3>1, <3>2 DEF Sending, Busy, ChunksLast
    <3>3. CASE rpc # "sendChunk"
      BY <3>1, <3>3 DEF Sending
    <3> QED BY <3>2, <3>3
  <2>3. queue' \in [Channels -> Seq(Nat)] /\ \A c \in Channels : Len(queue'[c]) <= Cap
    <3>1. PICK q \in Seq(Nat) : q = queue[Sending]
      BY <1>0, <2>1
    <3>2. Len(q) \in Nat /\ Len(q) < Cap /\ queue' = [queue EXCEPT ![Sending] = Append(q, event)]
      BY <1>4, <2>2, <3>1, LenProperties DEF Put
    <3>3. Append(q, event) \in Seq(Nat) /\ Len(Append(q, event)) = Len(q) + 1
      BY <1>0, <3>1, AppendProperties, SMTT(30)
    <3> QED BY <1>0, <2>1, <3>2, <3>3, DeliveryAssumption, SMTT(30)
  <2> QED BY <1>0, <1>4, <2>2, <2>3 DEF Put
<1>5. CASE GiveUp
  BY <1>0, <1>5 DEF GiveUp, Missed
<1>6. CASE HandleOverflow
  <2>1. lost' \in SUBSET Sinks /\ rpc' = "release"
    BY <1>0, <1>6 DEF HandleOverflow, Missed
  <2>2. fpc' \in [Finishers -> Steps]
    BY <1>0, <1>6 DEF HandleOverflow, Steps
  <2>3. todo' \in [Finishers -> Seq(Sinks)]
    <3>1. PICK q \in Seq(Sinks) : todo' = [todo EXCEPT !["fail"] = q]
      <4>1. <<"handle">> \in Seq(Sinks) /\ todo["fail"] \in Seq(Sinks)
        BY <1>0, <1>6, SMTT(30) DEF HandleOverflow, Finishers
      <4> QED BY <1>6, <4>1 DEF HandleOverflow
    <3> QED BY <1>0, <3>1
  <2> QED BY <1>0, <1>6, <2>1, <2>2, <2>3 DEF HandleOverflow, Steps
<1>7. CASE SubOverflow
  <2>1. lost' \in SUBSET Sinks /\ rpc' = "overflow"
    BY <1>0, <1>7 DEF SubOverflow, Missed
  <2>2. fpc' \in [Finishers -> Steps]
    BY <1>0, <1>7 DEF SubOverflow, Steps
  <2>3. todo' \in [Finishers -> Seq(Sinks)]
    <3>1. <<"sub">> \in Seq(Sinks)
      BY <1>0, <1>7, SMTT(30) DEF SubOverflow
    <3> QED BY <1>0, <1>7, <3>1 DEF SubOverflow
  <2> QED BY <1>0, <1>7, <2>1, <2>2, <2>3 DEF SubOverflow, Steps
<1>8. CASE Release
  BY <1>0, <1>8, SMTT(30) DEF Release, AfterPush, WaitGroupExact, Pushing
<1>9. CASE ReadTerminal \/ ReadFails
  <2>1. rpc' \in {"terminal", "failAll"} /\ event' \in Nat
    <3>1. event \in Nat
      BY <1>0
    <3>2. rpc' \in {"terminal", "failAll"} /\ event' \in {event, event + 1}
      BY <1>9 DEF ReadTerminal, ReadFails, EndAll
    <3> QED BY <3>1, <3>2, SMTT(30)
  <2>2. fpc' \in [Finishers -> Steps]
    <3>1. PICK b \in {"idle", "mark"} : fpc' = [fpc EXCEPT !["reader"] = b]
      BY <1>9 DEF ReadTerminal, ReadFails, EndAll
    <3> QED BY <1>0, <3>1 DEF Steps
  <2>3. todo' \in [Finishers -> Seq(Sinks)]
    BY <1>0, <1>9, SMTT(30) DEF ReadTerminal, ReadFails, EndAll
  <2>4. UNCHANGED <<isChunk, targets, wg, chanVars, done, closed, outcome, clientVars>>
    BY <1>9 DEF ReadTerminal, ReadFails, EndAll
  <2> QED BY <1>0, <2>1, <2>2, <2>3, <2>4 DEF Steps
<1>10. CASE ReadCancelled \/ Resume
  <2>1. CASE ReadCancelled
    BY <1>0, <2>1 DEF ReadCancelled
  <2>2. CASE Resume
    BY <1>0, <2>2 DEF Resume
  <2> QED BY <1>10, <2>1, <2>2
<1>11. ASSUME NEW f \in Finishers, Finish(f) PROVE TypeOK'
  <2>0. ASSUME NextSink(f), fpc[f] \in {"mark", "close", "closeChunks"}
        PROVE  /\ todo' \in [Finishers -> Seq(Sinks)]
               /\ fpc' \in [Finishers -> {"idle", "mark", "wait", "close", "closeChunks", "ended"}]
    BY <1>0, <2>0 DEF NextSink
  <2>1. CASE Mark(f)
    <3>1. CASE done[Head(todo[f])]
      BY <1>0, <2>0, <2>1, <3>1 DEF Mark
    <3>2. CASE ~done[Head(todo[f])]
      <4>1. Why(f) \in {"terminal", "failed", "closed", "overflow"}
        BY DEF Why
      <4>2. done' \in [Sinks -> BOOLEAN] /\ fpc' = [fpc EXCEPT ![f] = "wait"]
        BY <1>0, <2>1, <3>2 DEF Mark
      <4>3. outcome' \in [Sinks -> {"open", "terminal", "failed", "closed", "overflow"}]
        BY <1>0, <2>1, <3>2, <4>1 DEF Mark
      <4> QED BY <1>0, <2>1, <3>2, <4>2, <4>3 DEF Mark
    <3> QED BY <3>1, <3>2
  <2>2. CASE Await(f)
    BY <1>0, <2>2 DEF Await
  <2>3. CASE CloseEvents(f)
    <3>1. CASE Head(todo[f]) = "handle"
      BY <1>0, <2>3, <3>1 DEF CloseEvents
    <3>2. CASE Head(todo[f]) # "handle"
      BY <1>0, <2>0, <2>3, <3>2 DEF CloseEvents
    <3> QED BY <3>1, <3>2
  <2>4. CASE CloseChunks(f)
    BY <1>0, <2>0, <2>4 DEF CloseChunks
  <2> QED BY <1>11, <2>1, <2>2, <2>3, <2>4 DEF Finish
<1>12. ASSUME NEW ch \in Channels, Receive(ch) PROVE TypeOK'
  <2>0. PICK q \in Seq(Nat) : q = queue[ch] /\ q # <<>>
    BY <1>0, <1>12 DEF Receive
  <2>1. /\ Head(q) \in Nat /\ Tail(q) \in Seq(Nat)
        /\ Len(Tail(q)) = Len(q) - 1 /\ Len(q) \in Nat
    BY <2>0, HeadTailProperties, LenProperties
  <2>2. queue' = [queue EXCEPT ![ch] = Tail(q)]
    BY <1>12, <2>0 DEF Receive
  <2>3. queue' \in [Channels -> Seq(Nat)] /\ \A c \in Channels : Len(queue'[c]) <= Cap
    BY <1>0, <2>0, <2>1, <2>2, DeliveryAssumption, SMTT(30)
  <2>4. got' \in [Sinks -> Nat]
    BY <1>0, <1>12, <2>0, <2>1 DEF Receive
  <2> QED BY <1>0, <1>12, <2>3, <2>4 DEF Receive
<1>13. CASE Unsubscribe \/ CtxEnds \/ CloseCancel \/ CloseReturn
  <2>1. CASE Unsubscribe
    <3>1. fpc' \in [Finishers -> Steps] /\ subscribers' \in SUBSET (Sinks \cap {"sub"})
      BY <1>0, <2>1 DEF Unsubscribe, Steps
    <3>2. todo' \in [Finishers -> Seq(Sinks)]
      <4>1. <<"sub">> \in Seq(Sinks)
        BY <2>1, SMTT(30) DEF Unsubscribe
      <4> QED BY <1>0, <2>1, <4>1 DEF Unsubscribe
    <3> QED BY <1>0, <2>1, <3>1, <3>2 DEF Unsubscribe, Steps
  <2>2. CASE CtxEnds
    BY <1>0, <2>2 DEF CtxEnds
  <2>3. CASE CloseCancel
    BY <1>0, <2>3 DEF CloseCancel
  <2>4. CASE CloseReturn
    BY <1>0, <2>4 DEF CloseReturn
  <2> QED BY <1>13, <2>1, <2>2, <2>3, <2>4
<1>14. CASE CloseJoin
  BY <1>0, <1>14 DEF CloseJoin
<1>15. CASE UNCHANGED vars
  BY <1>0, <1>15 DEF vars
<1> QED BY <1>1, <1>2, <1>3, <1>4, <1>5, <1>6, <1>7, <1>8, <1>9, <1>10, <1>11, <1>12,
           <1>13, <1>14, <1>15 DEF Next, Push, Overflow

(* What a step of finisher f changes: it moves f alone, and closes at most *)
(* the channel of the sink f works on.                                     *)
LEMMA NextSinkStep ==
  ASSUME TypeOK, NEW f \in Finishers, NextSink(f)
  PROVE  /\ \A g \in Finishers \ {f} : fpc'[g] = fpc[g] /\ todo'[g] = todo[g]
         /\ fpc'[f] \in {"mark", "idle", "ended"}
         /\ fpc'[f] = "mark" => todo'[f] # <<>>
BY DEF TypeOK, NextSink

(* Whoever works on a sink after a step has one to work on.                *)
LEMMA BusyStep ==
  ASSUME BarrierInv, [Next]_vars
  PROVE  Busy'
<1>0. TypeOK /\ Busy
  BY DEF BarrierInv
<1> USE DEF Busy
<1>1. CASE ReadEvent
  BY <1>0, <1>1 DEF ReadEvent, AfterPush
<1>2. CASE Register \/ Check \/ GiveUp
  BY <1>0, <1>2 DEF Register, Check, GiveUp
<1>3. CASE Put
  BY <1>0, <1>3 DEF Put, Sending
<1>4. CASE HandleOverflow
  BY <1>0, <1>4 DEF HandleOverflow, TypeOK
<1>5. CASE SubOverflow
  BY <1>0, <1>5 DEF SubOverflow, TypeOK
<1>6. CASE Release
  BY <1>0, <1>6 DEF Release, AfterPush
<1>7. CASE ReadTerminal \/ ReadFails
  <2>1. /\ rpc' \in {"terminal", "failAll"}
        /\ todo' = [todo EXCEPT !["reader"] = Routes]
        /\ fpc' = [fpc EXCEPT !["reader"] = IF Routes = <<>> THEN "idle" ELSE "mark"]
    BY <1>7 DEF ReadTerminal, ReadFails, EndAll
  <2>2. fpc \in [Finishers -> Steps] /\ todo \in [Finishers -> Seq(Sinks)]
    BY <1>0 DEF TypeOK, Steps
  <2>3. PICK r \in Seq(Sinks) : r = Routes
    BY RoutesType, <1>0 DEF TypeOK
  <2> QED BY <1>0, <2>1, <2>2, <2>3
<1>8. CASE ReadCancelled \/ Resume
  BY <1>0, <1>8 DEF ReadCancelled, Resume
<1>9. ASSUME NEW f \in Finishers, Finish(f) PROVE Busy'
  <2>0. UNCHANGED <<rpc, targets>>
    BY <1>9 DEF Finish, Mark, Await, CloseEvents, CloseChunks
  <2>1. CASE NextSink(f)
    BY <1>0, <2>0, <2>1, NextSinkStep, SMTT(30)
  <2>2. CASE /\ \A g \in Finishers \ {f} : fpc'[g] = fpc[g]
             /\ fpc[f] \in {"mark", "wait", "close"} /\ UNCHANGED todo
             /\ \/ fpc'[f] \in {"wait", "close"}
                \/ fpc'[f] = "closeChunks" /\ Head(todo[f]) = "handle"
    BY <1>0, <2>0, <2>2, SMTT(30)
  <2>3. CASE Mark(f)
    BY <1>0, <2>1, <2>2, <2>3, SMTT(30) DEF Mark, TypeOK
  <2>4. CASE Await(f)
    BY <1>0, <2>2, <2>4 DEF Await, TypeOK
  <2>5. CASE CloseEvents(f)
    BY <1>0, <2>1, <2>2, <2>5, SMTT(30) DEF CloseEvents, TypeOK
  <2>6. CASE CloseChunks(f)
    BY <2>1, <2>6 DEF CloseChunks
  <2> QED BY <1>9, <2>3, <2>4, <2>5, <2>6 DEF Finish
<1>10. ASSUME NEW ch \in Channels, Receive(ch) PROVE Busy'
  BY <1>0, <1>10 DEF Receive
<1>11. CASE Unsubscribe \/ CtxEnds \/ CloseCancel \/ CloseReturn
  <2>1. CASE Unsubscribe
    BY <1>0, <2>1, SMTT(30) DEF Unsubscribe, TypeOK
  <2> QED BY <1>0, <1>11, <2>1 DEF CtxEnds, CloseCancel, CloseReturn
<1>12. CASE CloseJoin
  BY <1>0, <1>12 DEF CloseJoin, TypeOK
<1>13. CASE UNCHANGED vars
  BY <1>0, <1>13 DEF vars
<1> QED BY <1>1, <1>2, <1>3, <1>4, <1>5, <1>6, <1>7, <1>8, <1>9, <1>10, <1>11, <1>12, <1>13
        DEF Next, Push, Overflow

(* After every step the wait group counts exactly the push in flight.      *)
LEMMA WaitGroupStep ==
  ASSUME BarrierInv, [Next]_vars
  PROVE  WaitGroupExact'
<1>0. TypeOK /\ Busy /\ WaitGroupExact
  BY DEF BarrierInv
<1> USE DEF WaitGroupExact, Pushing
<1>1. CASE ReadEvent
  BY <1>0, <1>1 DEF ReadEvent, AfterPush
<1>2. CASE Register
  BY <1>0, <1>2, SMTT(30) DEF Register, TypeOK
<1>3. CASE Check \/ Put \/ GiveUp \/ HandleOverflow \/ SubOverflow
  <2>1. rpc \in {"check", "send", "sendChunk"} /\ UNCHANGED <<targets, wg>>
    BY <1>3 DEF Check, Put, GiveUp, HandleOverflow, SubOverflow
  <2>2. rpc' \in {"send", "sendChunk", "release", "overflow"}
    <3>1. CASE Put
      BY <3>1, TypeStep DEF Put, TypeOK
    <3> QED BY <1>3, <3>1 DEF Check, GiveUp, HandleOverflow, SubOverflow
  <2> QED BY <1>0, <2>1, <2>2
<1>4. CASE Release
  BY <1>0, <1>4, SMTT(30) DEF Release, AfterPush, TypeOK
<1>5. CASE ReadTerminal \/ ReadFails \/ ReadCancelled \/ Resume
  BY <1>0, <1>5 DEF ReadTerminal, ReadFails, EndAll, ReadCancelled, Resume
<1>6. ASSUME NEW f \in Finishers, Finish(f) PROVE WaitGroupExact'
  BY <1>0, <1>6 DEF Finish, Mark, Await, CloseEvents, CloseChunks
<1>7. ASSUME NEW ch \in Channels, Receive(ch) PROVE WaitGroupExact'
  BY <1>0, <1>7 DEF Receive
<1>8. CASE Unsubscribe \/ CtxEnds \/ CloseCancel \/ CloseJoin \/ CloseReturn
  BY <1>0, <1>8 DEF Unsubscribe, CtxEnds, CloseCancel, CloseJoin, CloseReturn
<1>9. CASE UNCHANGED vars
  BY <1>0, <1>9 DEF vars
<1> QED BY <1>1, <1>2, <1>3, <1>4, <1>5, <1>6, <1>7, <1>8, <1>9 DEF Next, Push, Overflow

(* The steps outside finish and close: doneCh and the channels stay as     *)
(* they are, and a finisher that is moved is moved to its beginning.       *)
Elsewhere ==
  /\ UNCHANGED <<done, closed>>
  /\ \A f \in Finishers :
       \/ fpc'[f] = fpc[f] /\ todo'[f] = todo[f]
       \/ fpc'[f] \in {"mark", "idle"}

(* Every step is a step of one finisher or leaves doneCh, the channels and *)
(* the finishers past the lock alone.                                      *)
LEMMA StepSplit ==
  ASSUME TypeOK, [Next]_vars
  PROVE  Elsewhere \/ \E f \in Finishers : Finish(f)
<1> USE DEF Elsewhere
<1>1. CASE ReadEvent \/ ReadCancelled \/ Resume \/ CtxEnds \/ CloseCancel \/ CloseReturn
  BY <1>1 DEF ReadEvent, ReadCancelled, Resume, CtxEnds, CloseCancel, CloseReturn
<1>2. CASE Register \/ Check \/ Put \/ GiveUp \/ Release
  BY <1>2 DEF Register, Check, Put, GiveUp, Release
<1>3. CASE HandleOverflow
  BY <1>3 DEF HandleOverflow, TypeOK
<1>4. CASE SubOverflow \/ ReadTerminal \/ ReadFails
  BY <1>4, SMTT(30) DEF SubOverflow, ReadTerminal, ReadFails, EndAll, TypeOK
<1>5. CASE Unsubscribe \/ CloseJoin
  BY <1>5, SMTT(30) DEF Unsubscribe, CloseJoin, TypeOK
<1>6. ASSUME NEW ch \in Channels, Receive(ch) PROVE Elsewhere
  BY <1>6 DEF Receive
<1>7. CASE UNCHANGED vars
  BY <1>7 DEF vars
<1> QED BY <1>1, <1>2, <1>3, <1>4, <1>5, <1>6, <1>7 DEF Next, Push, Overflow

(* The steps of finish and close, seen from the sink f works on: f passes  *)
(* its lock, passes the barrier, closes the events channel of the handle,  *)
(* or leaves the sink.                                                     *)
Locks(f, s) ==
  /\ fpc[f] = "mark" /\ fpc'[f] = "wait" /\ todo'[f] = todo[f]
  /\ ~done[s] /\ done'[s] /\ closed'[s] = closed[s]

Passes(f, s) ==
  /\ fpc[f] = "wait" /\ fpc'[f] = "close" /\ todo'[f] = todo[f]
  /\ wg[s] = 0 /\ done'[s] = done[s] /\ closed'[s] = closed[s]

ClosesHandle(f, s) ==
  /\ fpc[f] = "close" /\ fpc'[f] = "closeChunks" /\ todo'[f] = todo[f]
  /\ s = "handle" /\ done'[s] = done[s] /\ closed'[s]

Leaves(f, s) ==
  /\ fpc'[f] \in {"mark", "idle", "ended"} /\ done'[s] = done[s]
  /\ closed'[s] = closed[s] \/ (fpc[f] = "close" /\ closed'[s])

FinishStep(f, s) ==
  /\ s \in Sinks /\ s = Head(todo[f]) /\ UNCHANGED <<rpc, targets>>
  /\ \A g \in Finishers \ {f} : fpc'[g] = fpc[g] /\ todo'[g] = todo[g]
  /\ \A t \in Sinks \ {s} : done'[t] = done[t] /\ closed'[t] = closed[t]
  /\ "chunks" \in Channels => closed'["chunks"] = closed["chunks"] \/ fpc[f] = "closeChunks"
  /\ Locks(f, s) \/ Passes(f, s) \/ ClosesHandle(f, s) \/ Leaves(f, s)

(* Every step of finish and close is one of these.                         *)
LEMMA FinishSplit ==
  ASSUME TypeOK, Busy, NEW f \in Finishers, Finish(f)
  PROVE  \E s \in Sinks : FinishStep(f, s)
<1> DEFINE s == Head(todo[f])
<1>0. s \in Sinks /\ s \in Channels /\ s # "chunks" /\ UNCHANGED <<rpc, targets>>
  BY Heads, DeliveryAssumption DEF Finish, Mark, Await, CloseEvents, CloseChunks, Channels
<1>1. Sinks \subseteq Channels
  BY DEF Channels
<1> SUFFICES FinishStep(f, s)
  BY <1>0
<1> HIDE DEF s
<1> USE DEF FinishStep
<1>2. CASE Mark(f)
  <2>1. CASE done[s]
    BY <1>0, <1>2, <2>1, NextSinkStep DEF Mark, s, TypeOK, Leaves
  <2>2. CASE ~done[s]
    BY <1>0, <1>2, <2>2, SMTT(30) DEF Mark, s, TypeOK, Locks
  <2> QED BY <2>1, <2>2
<1>3. CASE Await(f)
  BY <1>0, <1>3 DEF Await, s, TypeOK, Passes
<1>4. CASE CloseEvents(f)
  <2>0. closed'[s] /\ \A c \in Channels \ {s} : closed'[c] = closed[c]
    BY <1>0, <1>4 DEF CloseEvents, s, TypeOK
  <2>1. CASE s = "handle"
    <3>1. /\ fpc[f] = "close" /\ todo' = todo /\ done' = done
          /\ fpc' = [fpc EXCEPT ![f] = "closeChunks"]
      BY <1>4, <2>1 DEF CloseEvents, s
    <3>2. fpc'[f] = "closeChunks" /\ \A g \in Finishers \ {f} : fpc'[g] = fpc[g]
      BY <3>1 DEF TypeOK
    <3>3. ClosesHandle(f, s)
      BY <2>0, <2>1, <3>1, <3>2 DEF ClosesHandle
    <3> QED BY <1>0, <1>1, <2>0, <3>1, <3>2, <3>3 DEF s
  <2>2. CASE s # "handle"
    BY <1>0, <1>1, <1>4, <2>0, <2>2, NextSinkStep DEF CloseEvents, s, Leaves
  <2> QED BY <2>1, <2>2
<1>5. CASE CloseChunks(f)
  <2>0. \A c \in Channels \ {"chunks"} : closed'[c] = closed[c]
    BY <1>0, <1>5 DEF CloseChunks, TypeOK
  <2>1. \A t \in Sinks : t # "chunks"
    BY DeliveryAssumption
  <2> QED BY <1>0, <1>1, <1>5, <2>0, <2>1, NextSinkStep DEF CloseChunks, s, Leaves
<1> QED BY <1>2, <1>3, <1>4, <1>5 DEF Finish

(* The read loop starts sending to a sink only when it finds it open.      *)
LEMMA OfferStep ==
  ASSUME TypeOK, Busy, [Next]_vars, NEW s \in Sinks, Offering(s)'
  PROVE  Offering(s) \/ (rpc = "check" /\ ~done[s])
<1> USE DEF Offering
<1>1. CASE Check
  BY <1>1 DEF Check
<1>2. CASE Register \/ Put \/ GiveUp \/ HandleOverflow \/ SubOverflow \/ Release
  BY <1>2 DEF Register, Put, GiveUp, HandleOverflow, SubOverflow, Release, AfterPush
<1>3. CASE ReadEvent \/ ReadTerminal \/ ReadFails \/ ReadCancelled \/ Resume
  BY <1>3 DEF ReadEvent, AfterPush, ReadTerminal, ReadFails, EndAll, ReadCancelled, Resume
<1>4. ASSUME NEW f \in Finishers, Finish(f) PROVE Offering(s)
  BY <1>4 DEF Finish, Mark, Await, CloseEvents, CloseChunks
<1>5. ASSUME NEW ch \in Channels, Receive(ch) PROVE Offering(s)
  BY <1>5 DEF Receive
<1>6. CASE Unsubscribe \/ CtxEnds \/ CloseCancel \/ CloseJoin \/ CloseReturn \/ UNCHANGED vars
  BY <1>6 DEF Unsubscribe, CtxEnds, CloseCancel, CloseJoin, CloseReturn, vars
<1> QED BY <1>1, <1>2, <1>3, <1>4, <1>5, <1>6 DEF Next, Push, Overflow

(* A finisher gets past its wait only when no send is in flight, and none  *)
(* starts once doneCh is closed.                                           *)
LEMMA BarrierStep ==
  ASSUME BarrierInv, [Next]_vars
  PROVE  SendBarrier'
<1>0. TypeOK /\ Busy /\ WaitGroupExact /\ SendBarrier /\ OneCloser
  BY DEF BarrierInv
<1> SUFFICES ASSUME NEW s \in Sinks,
                    closed'[s] \/ \E f \in Finishers : Closing(f, s)'
             PROVE  done'[s] /\ ~Offering(s)'
  BY DEF SendBarrier
<1>1. CASE Elsewhere
  BY <1>0, <1>1, OfferStep DEF Elsewhere, SendBarrier, Closing
<1>2. ASSUME NEW f \in Finishers, Finish(f) PROVE done'[s] /\ ~Offering(s)'
  <2>0. PICK h \in Sinks : FinishStep(f, h)
    BY <1>0, <1>2, FinishSplit
  <2>1. Offering(s)' <=> Offering(s)
    BY <2>0 DEF FinishStep, Offering
  <2>2. done[s] => done'[s]
    BY <2>0 DEF FinishStep, Locks, Passes, ClosesHandle, Leaves
  <2>3. CASE closed[s] \/ \E g \in Finishers : Closing(g, s)
    BY <1>0, <2>1, <2>2, <2>3 DEF SendBarrier
  <2>4. CASE ~(closed[s] \/ \E g \in Finishers : Closing(g, s))
    <3>1. h = s /\ Passes(f, s)
      BY <1>2, <2>0, <2>4, SMTT(30) DEF FinishStep, Closing, Locks, Passes, ClosesHandle, Leaves
    <3>2. done[s] /\ ~Offering(s)
      <4>1. Ending(f, s) /\ wg[s] = 0
        BY <2>0, <3>1 DEF FinishStep, Passes, Ending
      <4>2. ~Pushing(s)
        BY <1>0, <4>1, SMTT(30) DEF WaitGroupExact
      <4> QED BY <1>0, <1>2, <4>1, <4>2 DEF OneCloser, Pushing, Offering
    <3> QED BY <2>1, <2>2, <3>2
  <2> QED BY <2>3, <2>4
<1> QED BY <1>0, <1>1, <1>2, StepSplit

(* One finisher at a time is past the lock of a sink.                      *)
LEMMA CloserStep ==
  ASSUME BarrierInv, [Next]_vars
  PROVE  OneCloser'
<1>0. TypeOK /\ Busy /\ SendBarrier /\ OneCloser
  BY DEF BarrierInv
\* The invariant, for finishers a and b of a sink t.
<1>a. \A t \in Sinks, a, b \in Finishers :
        Ending(a, t) => /\ done[t] = TRUE
                        /\ Ending(b, t) => a = b
                        /\ fpc[a] # "closeChunks" => closed[t] = FALSE
  <2>1. \A t \in Sinks : done[t] \in BOOLEAN /\ closed[t] \in BOOLEAN
    BY <1>0 DEF TypeOK, Channels
  <2> QED BY <1>0, <2>1, SMTT(30) DEF OneCloser
<1> SUFFICES ASSUME NEW t \in Sinks, NEW a \in Finishers, NEW b \in Finishers, Ending(a, t)'
             PROVE  /\ done'[t] = TRUE
                    /\ Ending(b, t)' => a = b
                    /\ fpc'[a] # "closeChunks" => closed'[t] = FALSE
  BY DEF OneCloser
<1> DEFINE Goal == /\ done'[t] = TRUE
                   /\ Ending(b, t)' => a = b
                   /\ fpc'[a] # "closeChunks" => closed'[t] = FALSE
<1>1. CASE Elsewhere
  <2>1. Ending(a, t) /\ fpc'[a] = fpc[a] /\ (Ending(b, t)' => Ending(b, t))
    BY <1>1 DEF Elsewhere, Ending
  <2> QED BY <1>1, <1>a, <2>1, SMTT(30) DEF Elsewhere
<1>2. ASSUME NEW f \in Finishers, Finish(f) PROVE Goal
  <2>0. PICK h \in Sinks : FinishStep(f, h)
    BY <1>0, <1>2, FinishSplit
  <2>1. \A g \in Finishers \ {f} :
           Ending(g, t)' => Ending(g, t) /\ fpc'[g] = fpc[g]
    BY <2>0 DEF FinishStep, Ending
  <2>2. h = Head(todo[f]) /\ (t # h => done'[t] = done[t] /\ closed'[t] = closed[t])
    BY <2>0 DEF FinishStep
  <2>3. CASE Locks(f, h)
    <3>1. done[h] # TRUE /\ done'[h] = TRUE /\ closed'[h] = FALSE
      BY <1>0, <2>3 DEF SendBarrier, Locks, TypeOK, Channels
    <3>2. \A g \in Finishers : ~Ending(g, h)
      BY <1>a, <3>1
    <3>3. Ending(f, t)' => t = h
      BY <2>2, <2>3 DEF Locks, Ending
    <3>4. CASE t = h
      BY <2>1, <3>1, <3>2, <3>4
    <3>5. CASE t # h
      BY <1>a, <2>1, <2>2, <3>3, <3>5
    <3> QED BY <3>4, <3>5
  <2>4. CASE Passes(f, h)
    <3>1. Ending(f, t)' => Ending(f, t) /\ fpc[f] # "closeChunks"
      BY <2>4 DEF Passes, Ending
    <3>2. done'[t] = done[t] /\ closed'[t] = closed[t]
      BY <2>2, <2>4 DEF Passes
    <3> QED BY <1>a, <2>1, <3>1, <3>2, SMTT(30)
  <2>5. CASE ClosesHandle(f, h)
    <3>1. Ending(f, t)' => Ending(f, t) /\ fpc'[f] = "closeChunks"
      BY <2>5 DEF ClosesHandle, Ending
    <3>2. Ending(f, h) /\ done'[t] = done[t]
      BY <2>2, <2>5 DEF ClosesHandle, Ending
    <3>3. CASE t = h
      BY <1>a, <2>1, <3>1, <3>2, <3>3, SMTT(30)
    <3>4. CASE t # h
      BY <1>a, <2>1, <2>2, <3>1, <3>2, <3>4
    <3> QED BY <3>3, <3>4
  <2>6. CASE Leaves(f, h)
    <3>1. ~Ending(f, t)' /\ a # f
      BY <2>6 DEF Leaves, Ending
    <3>2. Ending(a, t) /\ fpc'[a] = fpc[a] /\ (Ending(b, t)' => Ending(b, t))
      BY <2>1, <3>1
    <3>3. done'[t] = done[t] /\ closed'[t] = closed[t]
      <4>1. CASE t = h /\ fpc[f] = "close"
        <5>1. Ending(f, t)
          BY <2>2, <4>1 DEF Ending
        <5> QED BY <1>a, <3>1, <3>2, <5>1
      <4> QED BY <2>2, <2>6, <4>1 DEF Leaves
    <3> QED BY <1>a, <3>2, <3>3
  <2> QED BY <2>0, <2>3, <2>4, <2>5, <2>6 DEF FinishStep
<1> QED BY <1>0, <1>1, <1>2, StepSplit

(* The chunks channel stays the last one to be closed.                     *)
LEMMA ChunksStep ==
  ASSUME BarrierInv, [Next]_vars
  PROVE  ChunksLast'
<1>0. TypeOK /\ Busy /\ ChunksLast
  BY DEF BarrierInv
<1> USE DEF ChunksLast
<1>1. CASE Elsewhere
  BY <1>0, <1>1 DEF Elsewhere
<1>2. ASSUME NEW f \in Finishers, Finish(f) PROVE ChunksLast'
  <2>0. PICK h \in Sinks : FinishStep(f, h)
    BY <1>0, <1>2, FinishSplit
  <2>1. "handle" \in Sinks /\ closed["handle"] => closed'["handle"]
    BY <2>0 DEF FinishStep, Locks, Passes, ClosesHandle, Leaves
  <2>2. (\E g \in Finishers : fpc[g] = "closeChunks") => "handle" \in Sinks
    BY <1>0, Heads DEF Busy
  <2>3. "chunks" \in Channels => "handle" \in Sinks
    BY DeliveryAssumption DEF Channels
  <2> QED BY <1>0, <1>2, <2>0, <2>1, <2>2, <2>3
          DEF FinishStep, Locks, Passes, ClosesHandle, Leaves, Channels
<1> QED BY <1>0, <1>1, <1>2, StepSplit

-------------------------------------------------------------------------------
(* The close barrier of finish, close, pushEvent and push holds in every   *)
(* behaviour, for any capacity and number of events, whatever timers fire. *)
THEOREM Barrier == Spec => []BarrierInv
<1>1. BarrierInv /\ [Next]_vars => BarrierInv'
  BY TypeStep, BusyStep, WaitGroupStep, BarrierStep, CloserStep, ChunksStep DEF BarrierInv
<1> QED BY InitBarrier, <1>1, PTL DEF Spec

(* The read loop never sends on a channel that is closed or being closed.  *)
THEOREM NoSendAfterClose == Spec => []SendBarrier
<1>1. BarrierInv => SendBarrier
  BY DEF BarrierInv
<1> QED BY Barrier, <1>1, PTL

(* Of the goroutines that finish a sink, one closes its channels.          *)
THEOREM SingleCloser == Spec => []OneCloser
<1>1. BarrierInv => OneCloser
  BY DEF BarrierInv
<1> QED BY Barrier, <1>1, PTL

-------------------------------------------------------------------------------
(* Delivery.                                                               *)

\* The sinks of a job that are still to be served: at most both, the handle first.
Orders == {<<>>, <<"handle">>, <<"sub">>, <<"handle", "sub">>}
In(s, order) == order # <<>> /\ (s = Head(order) \/ (s = "sub" /\ order = <<"handle", "sub">>))

\* The client lives, no timer has cost s an event, and nobody has ended it.
Intact(s) == ~cancelled /\ s \notin lost /\ outcome[s] = "open"

\* The sinks the next event will be pushed to.
Routed == Sinks \cap (subscribers \cup {"handle"})

\* The read loop has still to put the event it is dispatching to s.
Owed(s) == In(s, targets) /\ (s = Head(targets) => rpc \in {"add", "check", "send"})

\* The event s has been given last.
Given(s) == got[s] + Len(queue[s])

\* The consumer of s is owed nothing but the event under way.
UpToDate(s) ==
  /\ \A i \in DOMAIN queue[s] : queue[s][i] = got[s] + i
  /\ Owed(s) => Given(s) + 1 = event
  /\ s \in Routed /\ ~Owed(s) /\ rpc \notin {"terminal", "failAll", "exit"}
       => Given(s) = event

\* A terminal envelope ends every sink before the next envelope is read.
TerminalEnds ==
  rpc = "terminal" =>
    \A s \in Routed : ~done[s] => fpc["reader"] # "idle" /\ In(s, todo["reader"])

DeliveryInv ==
  /\ targets \in Orders /\ todo["reader"] \in Orders
  /\ rpc \in {"recv", "terminal", "failAll", "exit"} => targets = <<>>
  /\ \A s \in Sinks : outcome[s] = "open" <=> ~done[s]
  /\ \A s \in Sinks : Intact(s) => UpToDate(s)
  /\ TerminalEnds

(* Serving the first sink of an order leaves the others.                   *)
LEMMA OrderTail ==
  ASSUME NEW q \in Orders, q # <<>>
  PROVE  /\ Tail(q) \in Orders /\ ~In(Head(q), Tail(q))
         /\ \A s : In(s, q) <=> s = Head(q) \/ In(s, Tail(q))
<1>1. CASE q = <<"handle">>
  BY <1>1, SMTT(30) DEF Orders, In
<1>2. CASE q = <<"sub">>
  BY <1>2, SMTT(30) DEF Orders, In
<1>3. CASE q = <<"handle", "sub">>
  <2>1. Head(q) = "handle" /\ Tail(q) = <<"sub">>
    BY <1>3, SMTT(30)
  <2> QED BY <1>3, <2>1, SMTT(30) DEF Orders, In
<1> QED BY <1>1, <1>2, <1>3 DEF Orders

(* The routes of an event are the sinks registered now, in order.          *)
LEMMA RoutesOrder ==
  ASSUME subscribers \subseteq Sinks \cap {"sub"}
  PROVE  Routes \in Orders /\ \A s \in Sinks : In(s, Routes) <=> s \in Routed
<1>1. CASE "handle" \in Sinks /\ "sub" \in subscribers
  <2>1. Routes = <<"handle", "sub">>
    <3>1. Routes = <<"handle">> \o <<"sub">>
      BY <1>1 DEF Routes
    <3> DEFINE S == {"handle", "sub"}
    <3>2. PICK a \in Seq(S), b \in Seq(S), c \in Seq(S) :
            a = <<"handle">> /\ b = <<"sub">> /\ c = <<"handle", "sub">>
      <4>1. <<"handle">> \in Seq(S) /\ <<"sub">> \in Seq(S) /\ <<"handle", "sub">> \in Seq(S)
        BY SMTT(30)
      <4> QED BY <4>1
    <3>3. /\ Len(a) = 1 /\ Len(b) = 1 /\ a[1] = "handle" /\ b[1] = "sub"
          /\ Len(c) = 2 /\ c[1] = "handle" /\ c[2] = "sub"
      BY <3>2
    <3>4. /\ a \o b \in Seq(S) /\ Len(a \o b) = 2
          /\ (a \o b)[1] = "handle" /\ (a \o b)[2] = "sub"
      BY <3>3, ConcatProperties, SMTT(30)
    <3>5. a \o b = c
      <4>1. \A i \in 1..2 : (a \o b)[i] = c[i]
        BY <3>3, <3>4, SMTT(30)
      <4> QED BY <3>3, <3>4, <4>1, SeqEqual, SMTT(30)
    <3> QED BY <3>1, <3>2, <3>5
  <2> QED BY <1>1, <2>1, DeliveryAssumption, SMTT(30) DEF Orders, In, Routed
<1>2. CASE "handle" \in Sinks /\ "sub" \notin subscribers
  <2>1. Routes = <<"handle">>
    BY <1>2, SMTT(30) DEF Routes
  <2> QED BY <1>2, <2>1, DeliveryAssumption, SMTT(30) DEF Orders, In, Routed
<1>3. CASE "handle" \notin Sinks /\ "sub" \in subscribers
  <2>1. Routes = <<"sub">>
    BY <1>3, SMTT(30) DEF Routes
  <2> QED BY <1>3, <2>1, DeliveryAssumption, SMTT(30) DEF Orders, In, Routed
<1>4. CASE "handle" \notin Sinks /\ "sub" \notin subscribers
  <2>1. Routes = <<>>
    BY <1>4, SMTT(30) DEF Routes
  <2> QED BY <1>4, <2>1, DeliveryAssumption DEF Orders, In, Routed
<1> QED BY <1>1, <1>2, <1>3, <1>4

(* The initial states satisfy the invariant.                               *)
LEMMA InitDelivery == Init => DeliveryInv
<1> SUFFICES ASSUME Init PROVE DeliveryInv
  OBVIOUS
<1>1. targets \in Orders /\ todo["reader"] \in Orders /\ \A s : ~Owed(s)
  BY DEF Init, Orders, Owed, In
<1>2. ASSUME NEW s \in Sinks PROVE UpToDate(s)
  <2>1. queue[s] = <<>> /\ got[s] = 0 /\ event = 0
    BY DEF Init, Channels
  <2>2. DOMAIN queue[s] = {} /\ Given(s) = 0
    BY <2>1, SMTT(30) DEF Given
  <2> QED BY <1>1, <2>1, <2>2 DEF UpToDate
<1> QED BY <1>1, <1>2 DEF Init, DeliveryInv, TerminalEnds

(* The orders in which the read loop serves and ends sinks stay orders.    *)
LEMMA OrderStep ==
  ASSUME BarrierInv, DeliveryInv, [Next]_vars
  PROVE  /\ targets' \in Orders /\ todo'["reader"] \in Orders
         /\ rpc' \in {"recv", "terminal", "failAll", "exit"} => targets' = <<>>
<1>0. /\ TypeOK /\ Busy /\ TypeOK' /\ targets \in Orders /\ todo["reader"] \in Orders
      /\ rpc \in {"recv", "terminal", "failAll", "exit"} => targets = <<>>
      /\ Routes \in Orders
  BY TypeStep, RoutesOrder DEF BarrierInv, DeliveryInv, TypeOK
<1>1. CASE ReadEvent
  BY <1>0, <1>1 DEF ReadEvent, AfterPush
<1>2. CASE Release
  <2>1. Tail(targets) \in Orders
    BY <1>0, <1>2, OrderTail DEF Release, Busy
  <2> QED BY <1>0, <1>2, <2>1 DEF Release, AfterPush
<1>3. CASE Register \/ Check \/ Put \/ GiveUp
  <2>1. UNCHANGED <<targets, todo>>
    BY <1>3 DEF Register, Check, Put, GiveUp
  <2>2. rpc' \in {"check", "send", "sendChunk", "release"}
    <3>1. CASE Put
      BY <1>0, <3>1 DEF Put, TypeOK
    <3> QED BY <1>3, <3>1 DEF Register, Check, GiveUp
  <2> QED BY <1>0, <2>1, <2>2
<1>4. CASE HandleOverflow
  BY <1>0, <1>4 DEF HandleOverflow, TypeOK
<1>5. CASE SubOverflow
  BY <1>0, <1>5 DEF SubOverflow, TypeOK, Orders
<1>6. CASE ReadTerminal \/ ReadFails
  BY <1>0, <1>6, SMTT(30) DEF ReadTerminal, ReadFails, EndAll, TypeOK
<1>7. CASE ReadCancelled \/ Resume
  BY <1>0, <1>7 DEF ReadCancelled, Resume
<1>8. ASSUME NEW f \in Finishers, Finish(f)
      PROVE  UNCHANGED <<rpc, targets>> /\ todo'["reader"] \in Orders
  <2>1. UNCHANGED <<rpc, targets>>
    BY <1>8 DEF Finish, Mark, Await, CloseEvents, CloseChunks
  <2>2. CASE UNCHANGED todo
    BY <1>0, <2>1, <2>2
  <2>3. CASE NextSink(f) /\ fpc[f] \in {"mark", "close", "closeChunks"}
    <3>1. CASE f = "reader"
      <4>1. Tail(todo["reader"]) \in Orders
        BY <1>0, <2>3, <3>1, OrderTail DEF Busy
      <4> QED BY <1>0, <2>1, <2>3, <3>1, <4>1 DEF NextSink, TypeOK
    <3>2. CASE f # "reader"
      BY <1>0, <2>1, <2>3, <3>2, NextSinkStep
    <3> QED BY <3>1, <3>2
  <2> QED BY <1>8, <2>2, <2>3 DEF Finish, Mark, Await, CloseEvents, CloseChunks
<1>9. ASSUME NEW ch \in Channels, Receive(ch) PROVE UNCHANGED <<rpc, targets, todo>>
  BY <1>9 DEF Receive
<1>10. CASE Unsubscribe \/ CloseJoin
  BY <1>0, <1>10, SMTT(30) DEF Unsubscribe, CloseJoin, TypeOK
<1>11. CASE CtxEnds \/ CloseCancel \/ CloseReturn \/ UNCHANGED vars
  BY <1>0, <1>11 DEF CtxEnds, CloseCancel, CloseReturn, vars
<1> QED BY <1>0, <1>1, <1>2, <1>3, <1>4, <1>5, <1>6, <1>7, <1>8, <1>9, <1>10, <1>11
        DEF Next, Push, Overflow

(* A sink has an outcome exactly when its doneCh is closed.                *)
LEMMA OutcomeStep ==
  ASSUME BarrierInv, DeliveryInv, [Next]_vars
  PROVE  \A s \in Sinks : outcome'[s] = "open" <=> ~done'[s]
<1>0. TypeOK /\ Busy /\ \A s \in Sinks : outcome[s] = "open" <=> ~done[s]
  BY DEF BarrierInv, DeliveryInv
<1>1. ASSUME NEW f \in Finishers, Mark(f)
      PROVE  \A s \in Sinks : outcome'[s] = "open" <=> ~done'[s]
  <2>1. CASE done[Head(todo[f])]
    BY <1>0, <1>1, <2>1 DEF Mark
  <2>2. CASE ~done[Head(todo[f])]
    <3>1. PICK h \in Sinks : h = Head(todo[f])
      BY <1>0, <1>1, Heads DEF Mark
    <3>2. Why(f) # "open"
      BY DEF Why
    <3>3. done' = [done EXCEPT ![h] = TRUE] /\ outcome' = [outcome EXCEPT ![h] = Why(f)]
      BY <1>1, <2>2, <3>1 DEF Mark
    <3> QED BY <1>0, <3>2, <3>3, SMTT(30) DEF TypeOK
  <2> QED BY <2>1, <2>2
<1>2. ASSUME NEW f \in Finishers, Await(f) \/ CloseEvents(f) \/ CloseChunks(f)
      PROVE  UNCHANGED <<done, outcome>>
  BY <1>2 DEF Await, CloseEvents, CloseChunks
<1>3. CASE ReadEvent \/ ReadTerminal \/ ReadFails \/ ReadCancelled \/ Resume
  BY <1>0, <1>3 DEF ReadEvent, ReadTerminal, ReadFails, EndAll, ReadCancelled, Resume
<1>4. CASE Push \/ Overflow
  BY <1>0, <1>4 DEF Push, Overflow, Register, Check, Put, GiveUp, Release,
     HandleOverflow, SubOverflow
<1>5. ASSUME NEW ch \in Channels, Receive(ch) PROVE UNCHANGED <<done, outcome>>
  BY <1>5 DEF Receive
<1>6. CASE Unsubscribe \/ CtxEnds \/ CloseCancel \/ CloseJoin \/ CloseReturn \/ UNCHANGED vars
  BY <1>0, <1>6 DEF Unsubscribe, CtxEnds, CloseCancel, CloseJoin, CloseReturn, vars
<1> QED BY <1>0, <1>1, <1>2, <1>3, <1>4, <1>5, <1>6 DEF Next, Finish

(* A terminal envelope is not left behind before every sink has ended.     *)
LEMMA TerminalStep ==
  ASSUME BarrierInv, DeliveryInv, [Next]_vars
  PROVE  TerminalEnds'
<1>0. /\ TypeOK /\ Busy /\ OneCloser /\ TerminalEnds /\ todo["reader"] \in Orders
      /\ \A s \in Sinks : In(s, Routes) <=> s \in Routed
  BY RoutesOrder DEF BarrierInv, DeliveryInv, TypeOK
<1> SUFFICES ASSUME rpc' = "terminal", NEW s \in Routed', ~done'[s]
             PROVE  fpc'["reader"] # "idle" /\ In(s, todo'["reader"])
  BY DEF TerminalEnds
<1>1. CASE ReadTerminal
  <2>1. s \in Routed /\ s \in Sinks
    BY <1>1 DEF ReadTerminal, EndAll, Routed
  <2>2. In(s, Routes) /\ Routes # <<>>
    BY <1>0, <2>1 DEF In
  <2> QED BY <1>0, <1>1, <2>2 DEF ReadTerminal, EndAll, TypeOK
<1>2. CASE /\ rpc = "terminal" /\ subscribers' \subseteq subscribers /\ UNCHANGED done
           /\ fpc'["reader"] = fpc["reader"] /\ todo'["reader"] = todo["reader"]
  BY <1>0, <1>2 DEF TerminalEnds, Routed
<1>3. ASSUME NEW f \in Finishers, Finish(f)
      PROVE  fpc'["reader"] # "idle" /\ In(s, todo'["reader"])
  <2>1. rpc = "terminal" /\ s \in Routed /\ s \in Sinks
    BY <1>3 DEF Finish, Mark, Await, CloseEvents, CloseChunks, Routed
  <2>2. PICK h \in Sinks : FinishStep(f, h)
    BY <1>0, <1>3, FinishSplit
  <2>3. ~done[s] /\ fpc["reader"] # "idle" /\ In(s, todo["reader"])
    <3>1. done[s] => done'[s]
      BY <2>1, <2>2 DEF FinishStep, Locks, Passes, ClosesHandle, Leaves
    <3> QED BY <1>0, <2>1, <3>1 DEF TerminalEnds
  <2>4. CASE f # "reader"
    BY <2>2, <2>3, <2>4 DEF FinishStep
  <2>5. CASE f = "reader"
    <3>1. CASE todo'["reader"] = todo["reader"] /\ fpc'["reader"] # "idle"
      BY <2>3, <3>1
    <3>2. CASE NextSink("reader") /\ done[Head(todo["reader"])]
      <4>1. s # Head(todo["reader"]) /\ todo["reader"] # <<>>
        BY <2>3, <3>2 DEF In
      <4>2. In(s, Tail(todo["reader"])) /\ Tail(todo["reader"]) # <<>>
        <5>1. In(s, Tail(todo["reader"]))
          BY <1>0, <2>3, <4>1, OrderTail
        <5> QED BY <5>1 DEF In
      <4>3. todo'["reader"] = Tail(todo["reader"]) /\ fpc'["reader"] = "mark"
        BY <1>0, <3>2, <4>2 DEF NextSink, TypeOK
      <4> QED BY <4>2, <4>3
    <3>3. CASE Mark("reader")
      <4>1. ~done[Head(todo["reader"])] => fpc'["reader"] = "wait" /\ todo' = todo
        BY <1>0, <3>3 DEF Mark, TypeOK
      <4> QED BY <3>1, <3>2, <3>3, <4>1 DEF Mark
    <3>4. CASE Await("reader")
      BY <1>0, <3>1, <3>4 DEF Await, TypeOK
    <3>5. CASE CloseEvents("reader") \/ CloseChunks("reader")
      <4>1. done[Head(todo["reader"])]
        <5>1. fpc["reader"] \in {"close", "closeChunks"}
          BY <3>5 DEF CloseEvents, CloseChunks
        <5>2. Head(todo["reader"]) \in Sinks /\ Ending("reader", Head(todo["reader"]))
          BY <1>0, <5>1, Heads DEF Ending
        <5> QED BY <1>0, <5>2 DEF OneCloser
      <4>2. NextSink("reader") \/ (fpc'["reader"] = "closeChunks" /\ todo' = todo)
        BY <1>0, <3>5 DEF CloseEvents, CloseChunks, TypeOK
      <4> QED BY <3>1, <3>2, <4>1, <4>2
    <3> QED BY <1>3, <2>5, <3>3, <3>4, <3>5 DEF Finish
  <2> QED BY <2>4, <2>5
<1>4. ASSUME NEW ch \in Channels, Receive(ch) PROVE UNCHANGED <<rpc, subscribers, done, fpc, todo>>
  BY <1>4 DEF Receive
<1>5. ~ (ReadEvent \/ ReadFails \/ ReadCancelled \/ Push \/ Overflow \/ Resume)
  BY DEF ReadEvent, AfterPush, ReadFails, EndAll, ReadCancelled, Push, Overflow,
     Register,
     Check, Put, GiveUp, Release, HandleOverflow, SubOverflow, Resume
<1>6. CASE Unsubscribe
  BY <1>0, <1>2, <1>6 DEF Unsubscribe, TypeOK
<1>7. ~CloseJoin
  BY DEF CloseJoin
<1>8. CASE CtxEnds \/ CloseCancel \/ CloseReturn \/ UNCHANGED vars
  BY <1>2, <1>8 DEF CtxEnds, CloseCancel, CloseReturn, vars
<1> QED BY <1>1, <1>2, <1>3, <1>4, <1>5, <1>6, <1>7, <1>8 DEF Next

(* Nothing makes a sink intact again.                                      *)
LEMMA IntactStep ==
  ASSUME TypeOK, Busy, [Next]_vars, NEW s \in Sinks, Intact(s)'
  PROVE  Intact(s)
<1>1. ASSUME NEW f \in Finishers, Mark(f), outcome'[s] = "open" PROVE outcome[s] = "open"
  <2>1. Why(f) # "open"
    BY DEF Why
  <2> QED BY <1>1, <2>1 DEF Mark, TypeOK
<1>2. ASSUME NEW f \in Finishers, Finish(f) PROVE Intact(s)
  <2>1. UNCHANGED <<cancelled, lost>>
    BY <1>2 DEF Finish, Mark, Await, CloseEvents, CloseChunks
  <2>2. outcome[s] = "open"
    BY <1>1, <1>2 DEF Intact, Finish, Await, CloseEvents, CloseChunks
  <2> QED BY <2>1, <2>2 DEF Intact
<1>3. CASE ReadEvent \/ ReadTerminal \/ ReadFails \/ ReadCancelled \/ Resume
  <2>1. UNCHANGED <<outcome, lost, cancelled>>
    BY <1>3 DEF ReadEvent, ReadTerminal, ReadFails, EndAll, ReadCancelled, Resume
  <2> QED BY <2>1 DEF Intact
<1>4. CASE Register \/ Check \/ Put \/ Release
  <2>1. UNCHANGED <<outcome, lost, cancelled>>
    BY <1>4 DEF Register, Check, Put, Release
  <2> QED BY <2>1 DEF Intact
<1>5. CASE GiveUp \/ HandleOverflow \/ SubOverflow
  <2>1. UNCHANGED <<outcome, cancelled>> /\ lost \subseteq lost'
    BY <1>5 DEF GiveUp, HandleOverflow, SubOverflow, Missed
  <2> QED BY <2>1 DEF Intact
<1>6. ASSUME NEW ch \in Channels, Receive(ch) PROVE Intact(s)
  BY <1>6 DEF Intact, Receive
<1>7. CASE Unsubscribe \/ CtxEnds \/ CloseCancel \/ CloseJoin \/ CloseReturn \/ UNCHANGED vars
  <2>1. UNCHANGED <<outcome, lost>> /\ (cancelled => cancelled')
    BY <1>7, SMTT(30) DEF Unsubscribe, CtxEnds, CloseCancel, CloseJoin, CloseReturn, vars
  <2> QED BY <2>1 DEF Intact
<1> QED BY <1>2, <1>3, <1>4, <1>5, <1>6, <1>7 DEF Next, Push, Overflow

Apart == {"terminal", "failAll", "exit"}

(* A step that leaves a sink's channel and the event alone, and makes it   *)
(* neither owed nor routed, leaves the consumer up to date.                *)
LEMMA StaysUpToDate ==
  ASSUME NEW s \in Sinks, UpToDate(s),
         UNCHANGED event, queue'[s] = queue[s], got'[s] = got[s],
         Owed(s)' => Owed(s),
         s \in Routed' /\ ~Owed(s)' /\ rpc' \notin Apart
           => s \in Routed /\ ~Owed(s) /\ rpc \notin Apart
  PROVE  UpToDate(s)'
BY DEF UpToDate, Given, Apart

(* Putting the event it is owed, or receiving what it was given first,     *)
(* keeps a consumer up to date.                                            *)
LEMMA ChannelFacts ==
  ASSUME NEW q \in Seq(Nat), NEW g \in Nat, \A i \in DOMAIN q : q[i] = g + i
  PROVE  /\ \A e \in Nat : g + Len(q) + 1 = e
              => /\ \A i \in DOMAIN Append(q, e) : Append(q, e)[i] = g + i
                 /\ g + Len(Append(q, e)) = e
         /\ q # <<>> => /\ \A i \in DOMAIN Tail(q) : Tail(q)[i] = Head(q) + i
                        /\ Head(q) + Len(Tail(q)) = g + Len(q)
<1>1. PICK n \in Nat : n = Len(q) /\ DOMAIN q = 1..n
  BY LenProperties
<1>2. ASSUME NEW e \in Nat, g + Len(q) + 1 = e
      PROVE  /\ \A i \in DOMAIN Append(q, e) : Append(q, e)[i] = g + i
             /\ g + Len(Append(q, e)) = e
  <2>1. PICK t \in Seq(Nat) : /\ t = Append(q, e) /\ Len(t) = n + 1 /\ t[n + 1] = e
                              /\ \A i \in 1..n : t[i] = q[i]
    <3>1. /\ Append(q, e) \in Seq(Nat) /\ Len(Append(q, e)) = n + 1
          /\ Append(q, e)[n + 1] = e /\ \A i \in 1..n : Append(q, e)[i] = q[i]
      BY <1>1, AppendProperties, SMTT(30)
    <3> QED BY <3>1
  <2>2. DOMAIN t = 1..(n + 1)
    BY <2>1, LenProperties
  <2>3. g + n + 1 = e
    BY <1>1, <1>2
  <2>4. ASSUME NEW i \in 1..(n + 1) PROVE t[i] = g + i
    <3>1. CASE i = n + 1
      BY <2>1, <2>3, <3>1, SMTT(30)
    <3>2. CASE i # n + 1
      <4>1. i \in 1..n
        BY <3>2, SMTT(30)
      <4> QED BY <1>1, <2>1, <4>1
    <3> QED BY <3>1, <3>2
  <2> QED BY <2>1, <2>2, <2>3, <2>4, SMTT(30)
<1>3. ASSUME q # <<>>
      PROVE  /\ \A i \in DOMAIN Tail(q) : Tail(q)[i] = Head(q) + i
             /\ Head(q) + Len(Tail(q)) = g + Len(q)
  <2>1. n > 0
    BY <1>1, <1>3, EmptySeq, SMTT(30)
  <2>2. PICK t \in Seq(Nat) : /\ t = Tail(q) /\ Len(t) = n - 1
                              /\ \A i \in 1..(n - 1) : t[i] = q[i + 1]
    <3>1. /\ Tail(q) \in Seq(Nat) /\ Len(Tail(q)) = n - 1
          /\ \A i \in 1..(n - 1) : Tail(q)[i] = q[i + 1]
      BY <1>1, <1>3, HeadTailProperties
    <3> QED BY <3>1
  <2>3. DOMAIN t = 1..(n - 1)
    BY <2>2, LenProperties
  <2>4. Head(q) = g + 1
    <3>1. Head(q) = q[1] /\ 1 \in 1..n
      BY <1>1, <2>1, SMTT(30)
    <3> QED BY <1>1, <3>1
  <2>5. ASSUME NEW i \in 1..(n - 1) PROVE t[i] = g + 1 + i
    <3>1. i + 1 \in 1..n
      BY <2>1, SMTT(30)
    <3>2. t[i] = g + (i + 1)
      BY <1>1, <2>2, <3>1
    <3> QED BY <3>2, SMTT(30)
  <2>6. \A i \in DOMAIN Tail(q) : Tail(q)[i] = Head(q) + i
    BY <2>2, <2>3, <2>4, <2>5
  <2>7. (g + 1) + (n - 1) = g + n
    BY SMTT(30)
  <2>8. Head(q) + Len(Tail(q)) = g + Len(q)
    BY <1>1, <2>2, <2>4, <2>7
  <2> QED BY <2>6, <2>8
<1> QED BY <1>2, <1>3

(* Every step of the read loop keeps intact sinks up to date.              *)
LEMMA ReaderStep ==
  ASSUME BarrierInv, DeliveryInv, NEW s \in Sinks, Intact(s), Intact(s)', UpToDate(s),
         TypeOK', targets' \in Orders,
         ReadEvent \/ ReadTerminal \/ ReadFails \/ ReadCancelled \/ Push \/ Overflow \/ Resume
  PROVE  UpToDate(s)'
<1>0. /\ TypeOK /\ Busy /\ TerminalEnds /\ targets \in Orders /\ ~done[s] /\ outcome[s] = "open"
      /\ rpc \in {"recv", "terminal", "failAll", "exit"} => targets = <<>>
      /\ Routes \in Orders /\ (In(s, Routes) <=> s \in Routed)
  BY RoutesOrder DEF BarrierInv, DeliveryInv, TypeOK, Intact
<1>1. ~In(s, <<>>)
  BY DEF In
<1>2. CASE ReadEvent
  <2>1. /\ rpc = "recv" /\ targets' = Routes /\ event' = event + 1 /\ rpc' = AfterPush(Routes)
        /\ UNCHANGED <<queue, got, subscribers>>
    BY <1>2 DEF ReadEvent
  <2>2. ~Owed(s) /\ (s \in Routed => Given(s) = event)
    BY <1>0, <1>1, <2>1 DEF Owed, UpToDate
  <2>3. Owed(s)' <=> s \in Routed
    <3>1. In(s, Routes) => rpc' = "add"
      BY <2>1 DEF In, AfterPush
    <3> QED BY <1>0, <2>1, <3>1 DEF Owed, In
  <2>4. (s \in Routed' <=> s \in Routed) /\ Given(s)' = Given(s)
    BY <2>1 DEF Routed, Given
  <2>5. /\ s \in Routed => Given(s)' + 1 = event'
        /\ \A i \in DOMAIN queue'[s] : queue'[s][i] = got'[s] + i
    BY <2>1, <2>2, <2>4 DEF UpToDate
  <2> QED BY <2>3, <2>4, <2>5 DEF UpToDate
<1>3. CASE ReadTerminal \/ ReadFails \/ ReadCancelled
  <2>1. rpc = "recv" /\ rpc' \in Apart /\ UNCHANGED <<targets, queue, got>>
    BY <1>3 DEF ReadTerminal, ReadFails, ReadCancelled, EndAll, Apart
  <2>2. ~Owed(s)'
    BY <1>0, <1>1, <2>1 DEF Owed
  <2> QED BY <2>1, <2>2 DEF UpToDate, Apart
\* The steps that dispatch an event to Head(targets).
<1> DEFINE h == Head(targets)
           Now == {"add", "check", "send"}
<1>4. ASSUME UNCHANGED <<targets, event, subscribers>>, queue'[s] = queue[s], got'[s] = got[s],
             rpc \notin Apart, s = h => (rpc \in Now <=> rpc' \in Now)
      PROVE  UpToDate(s)'
  <2>1. Owed(s)' <=> Owed(s)
    BY <1>4 DEF Owed
  <2>2. s \in Routed' <=> s \in Routed
    BY <1>4 DEF Routed
  <2> QED BY <1>4, <2>1, <2>2, StaysUpToDate
<1>5. CASE Register \/ Check
  <2>1. UNCHANGED <<targets, event, subscribers, queue, got>> /\ rpc \in Now /\ rpc \notin Apart
    BY <1>5 DEF Register, Check, Apart
  <2>2. s = h => rpc' \in Now
    BY <1>0, <1>5 DEF Register, Check
  <2> QED BY <1>4, <2>1, <2>2
<1>6. CASE GiveUp \/ HandleOverflow \/ SubOverflow
  <2>1. /\ UNCHANGED <<targets, event, subscribers, queue, got>>
        /\ rpc \in {"send", "sendChunk"} /\ rpc \notin Apart /\ Missed(h)
    BY <1>6 DEF GiveUp, HandleOverflow, SubOverflow, Apart
  <2>2. s # h
    BY <1>0, <2>1 DEF Missed, Intact
  <2> HIDE DEF h
  <2> QED BY <1>4, <2>1, <2>2
<1>7. CASE Put
  <2>0. /\ UNCHANGED <<targets, event, subscribers, got>> /\ rpc \in {"send", "sendChunk"}
        /\ rpc' = (IF Sending = "handle" /\ isChunk THEN "sendChunk" ELSE "release")
        /\ queue' = [queue EXCEPT ![Sending] = Append(@, event)]
    BY <1>0, <1>7 DEF Put, TypeOK
  <2>1. /\ queue \in [Channels -> Seq(Nat)] /\ Sinks \subseteq Channels /\ "chunks" \notin Sinks
        /\ h \in Sinks /\ event \in Nat /\ got[s] \in Nat /\ rpc \notin Apart
    <3>1. h \in Sinks
      BY <1>0, <2>0, Heads
    <3> QED BY <1>0, <2>0, <3>1, DeliveryAssumption DEF TypeOK, Channels, Apart
  <2>2. CASE rpc = "sendChunk"
    <3>1. Sending = "chunks"
      BY <2>2 DEF Sending
    <3>2. queue'[s] = queue[s] /\ rpc' = "release"
      BY <2>0, <2>1, <3>1
    <3> QED BY <1>4, <2>0, <2>1, <2>2, <3>2
  <2>3. CASE rpc = "send" /\ s # h
    <3>1. queue'[s] = queue[s]
      BY <2>0, <2>1, <2>3 DEF Sending
    <3> HIDE DEF h
    <3> QED BY <1>4, <2>0, <2>1, <2>3, <3>1
  <2>4. CASE rpc = "send" /\ s = h
    <3>1. PICK q \in Seq(Nat) : q = queue[s] /\ queue'[s] = Append(q, event)
      BY <2>0, <2>1, <2>4 DEF Sending
    <3>2. Owed(s)
      BY <1>0, <2>4 DEF Owed, In, Busy
    <3>3. (\A i \in DOMAIN q : q[i] = got[s] + i) /\ got[s] + Len(q) + 1 = event
      BY <3>1, <3>2 DEF UpToDate, Given
    <3>4. /\ \A i \in DOMAIN Append(q, event) : Append(q, event)[i] = got[s] + i
          /\ got[s] + Len(Append(q, event)) = event
      BY <2>1, <3>3, ChannelFacts, SMTT(30)
    <3>5. ~Owed(s)'
      BY <2>0, <2>4 DEF Owed
    <3> QED BY <2>0, <3>1, <3>4, <3>5 DEF UpToDate, Given
  <2> QED BY <2>0, <2>2, <2>3, <2>4
<1>8. CASE Release
  <2>1. /\ rpc = "release" /\ targets # <<>> /\ targets' = Tail(targets)
        /\ rpc' = AfterPush(Tail(targets)) /\ UNCHANGED <<event, subscribers, queue, got>>
    BY <1>0, <1>8 DEF Release, Busy
  <2>2. ~In(h, Tail(targets)) /\ (In(s, targets) <=> s = h \/ In(s, Tail(targets)))
    BY <1>0, <2>1, OrderTail
  <2>3. In(s, Tail(targets)) => rpc' = "add"
    BY <2>1 DEF In, AfterPush
  <2>4. Owed(s) <=> In(s, Tail(targets))
    BY <2>1, <2>2 DEF Owed
  <2>5. Owed(s)' <=> In(s, Tail(targets))
    BY <2>1, <2>3 DEF Owed
  <2>6. (s \in Routed' <=> s \in Routed) /\ rpc \notin Apart
    BY <2>1 DEF Routed, Apart
  <2> QED BY <2>1, <2>4, <2>5, <2>6, StaysUpToDate
<1>9. CASE Resume
  <2>1. UNCHANGED <<targets, event, queue, got>> /\ fpc["reader"] = "idle"
    BY <1>9 DEF Resume
  <2>2. CASE rpc = "terminal" /\ rpc' = "recv" /\ UNCHANGED subscribers
    <3>1. s \notin Routed /\ s \notin Routed' /\ ~Owed(s)'
      BY <1>0, <1>1, <2>1, <2>2 DEF TerminalEnds, Routed, Owed
    <3> QED BY <2>1, <3>1 DEF UpToDate
  <2>3. CASE rpc = "failAll" /\ rpc' = "exit"
    <3>1. ~Owed(s)'
      BY <1>0, <1>1, <2>1, <2>3 DEF Owed
    <3> QED BY <2>1, <2>3, <3>1 DEF UpToDate
  <2>4. CASE rpc = "overflow" /\ rpc' = "release" /\ subscribers' = {}
    <3>1. (Owed(s)' <=> Owed(s)) /\ (s \in Routed' => s \in Routed) /\ rpc \notin Apart
      BY <2>1, <2>4 DEF Owed, Routed, Apart
    <3> QED BY <2>1, <3>1, StaysUpToDate
  <2> QED BY <1>9, <2>2, <2>3, <2>4 DEF Resume
<1> QED BY <1>2, <1>3, <1>5, <1>6, <1>7, <1>8, <1>9 DEF Push, Overflow

(* Every step keeps the consumers of intact sinks up to date.              *)
LEMMA UpToDateStep ==
  ASSUME BarrierInv, DeliveryInv, [Next]_vars, NEW s \in Sinks, Intact(s)'
  PROVE  UpToDate(s)'
<1>0. /\ TypeOK /\ Busy /\ TypeOK' /\ targets' \in Orders /\ Intact(s) /\ UpToDate(s)
  BY TypeStep, OrderStep, IntactStep DEF BarrierInv, DeliveryInv
<1>1. CASE ReadEvent \/ ReadTerminal \/ ReadFails \/ ReadCancelled \/ Push \/ Overflow \/ Resume
  BY <1>0, <1>1, ReaderStep
<1>2. ASSUME UNCHANGED <<rpc, event, targets>>, queue'[s] = queue[s], got'[s] = got[s],
             subscribers' \subseteq subscribers
      PROVE  UpToDate(s)'
  <2>1. (Owed(s)' <=> Owed(s)) /\ (s \in Routed' => s \in Routed)
    BY <1>2 DEF Owed, Routed
  <2> QED BY <1>0, <1>2, <2>1, StaysUpToDate
<1>3. ASSUME NEW f \in Finishers, Finish(f) PROVE UpToDate(s)'
  BY <1>2, <1>3 DEF Finish, Mark, Await, CloseEvents, CloseChunks
<1>4. ASSUME NEW ch \in Channels, Receive(ch) PROVE UpToDate(s)'
  <2>1. /\ UNCHANGED <<rpc, event, targets, subscribers>> /\ queue[ch] # <<>>
        /\ queue' = [queue EXCEPT ![ch] = Tail(queue[ch])]
    BY <1>4 DEF Receive
  <2>2. queue \in [Channels -> Seq(Nat)] /\ got \in [Sinks -> Nat] /\ s \in Channels
    BY <1>0 DEF TypeOK, Channels
  <2>3. CASE ch # s
    BY <1>2, <1>4, <2>1, <2>2, <2>3 DEF Receive
  <2>4. CASE ch = s
    <3>1. PICK q \in Seq(Nat) : /\ q = queue[s] /\ q # <<>>
                                /\ queue'[s] = Tail(q) /\ got'[s] = Head(q)
      BY <1>4, <2>1, <2>2, <2>4 DEF Receive
    <3>2. /\ \A i \in DOMAIN Tail(q) : Tail(q)[i] = Head(q) + i
          /\ Head(q) + Len(Tail(q)) = got[s] + Len(q)
      <4>1. (\A i \in DOMAIN q : q[i] = got[s] + i) /\ got[s] \in Nat /\ q # <<>>
        BY <1>0, <2>2, <3>1 DEF UpToDate
      <4> QED BY <4>1, ChannelFacts
    <3>3. (Owed(s)' <=> Owed(s)) /\ (s \in Routed' <=> s \in Routed) /\ Given(s)' = Given(s)
      BY <2>1, <3>1, <3>2 DEF Owed, Routed, Given
    <3> QED BY <1>0, <2>1, <3>1, <3>2, <3>3 DEF UpToDate
  <2> QED BY <2>3, <2>4
<1>5. CASE Unsubscribe \/ CtxEnds \/ CloseCancel \/ CloseJoin \/ CloseReturn \/ UNCHANGED vars
  BY <1>2, <1>5 DEF Unsubscribe, CtxEnds, CloseCancel, CloseJoin, CloseReturn, vars
<1> QED BY <1>1, <1>3, <1>4, <1>5 DEF Next

(* What consumers have been given is what the read loop has dispatched.    *)
THEOREM Delivered == Spec => []DeliveryInv
<1>1. BarrierInv /\ DeliveryInv /\ [Next]_vars => DeliveryInv'
  BY OrderStep, OutcomeStep, TerminalStep, UpToDateStep DEF DeliveryInv
<1> QED BY InitDelivery, Barrier, <1>1, PTL DEF Spec

(* For any capacity and number of events, a consumer misses nothing while  *)
(* the client lives and no timer has fired.                                *)
THEOREM NothingIsMissing == Spec => []NothingMissing
<1>1. DeliveryInv => NothingMissing
  <2> SUFFICES ASSUME DeliveryInv, NEW s \in Sinks, Intact(s)
               PROVE  /\ \A i \in DOMAIN queue[s] : queue[s][i] = got[s] + i
                      /\ rpc = "recv" /\ s \in subscribers \cup {"handle"} => Given(s) = event
    BY DEF NothingMissing, Intact, Given
  <2>1. UpToDate(s) /\ (rpc = "recv" => ~Owed(s))
    BY DEF DeliveryInv, Owed, In
  <2> QED BY <2>1 DEF UpToDate, Routed
<1> QED BY Delivered, <1>1, PTL
===============================================================================
