-------------------------- MODULE JobLifecycleProofs --------------------------
(***************************************************************************)
(* Proofs about JobLifecycle, for any set of submissions, any assignment   *)
(* of idempotency keys and any choice of timers and credentials.           *)
(***************************************************************************)
EXTENDS JobLifecycle, SequenceTheorems, TLAPS

(* A leaf that names no prover is for Zenon; arithmetic is for SMT.        *)
USE ZenonT(60)

USE DEF Timers, Workers, submitVars, stateVars, wireVars

Store == [Keys -> [job : Jobs \cup {NoJob}, hash : Hashes \cup {""},
                   accepted : Jobs \cup {NoJob}]]
Places == [Jobs -> [Workers -> Place]]

(* Moving one goroutine of a job keeps the type of pc.                     *)
LEMMA MoveType ==
  ASSUME NEW q \in Places, NEW j \in Jobs, NEW w \in Workers, NEW b \in Place
  PROVE  [q EXCEPT ![j][w] = b] \in Places
BY DEF Places

(* So does moving all of them, as Stop does.                               *)
LEMMA StopType ==
  ASSUME pc \in Places, NEW j \in Jobs
  PROVE  /\ StopTimers(j) \in [Workers -> Place]
         /\ [pc EXCEPT ![j] = StopTimers(j)] \in Places
         /\ [pc EXCEPT ![j] = [StopTimers(j) EXCEPT !["run"] = "exited"]] \in Places
BY DEF Places, StopTimers, Place

(* The types of the handler's and the goroutines' variables are kept.      *)
LEMMA TypeStep ==
  ASSUME TypeOK, [Next]_vars
  PROVE  TypeOK'
<1> USE DEF Handler, Answer, Move
<1>0. /\ pc \in Places /\ store \in Store
      /\ status \in [Jobs -> Final \cup {"pending", "running"}]
      /\ outcome \in [Jobs -> {"success", "unmarshalable", "error", "cancelled"}]
      /\ ended \in [Jobs -> Seq(Final)]
  BY DEF TypeOK, Places, Store
<1>1. ASSUME NEW j \in Jobs, JobStep(j) PROVE TypeOK'
  <2>1. CASE Reject(j) BY <2>1 DEF TypeOK, Reject
  <2>2. CASE NewJob(j)
    <3>1. pc' \in Places
      <4> DEFINE a == IF j \in Leased THEN "armed" ELSE "off"
                 b == IF j \in Bounded THEN "armed" ELSE "off"
      <4>1. a \in Place /\ b \in Place
        BY DEF Place
      <4>2. pc' = [pc EXCEPT ![j]["expiry"] = a, ![j]["runtime"] = b]
        BY <2>2 DEF NewJob
      <4> HIDE DEF a, b
      <4>3. PICK mid : mid = [pc EXCEPT ![j]["expiry"] = a]
        OBVIOUS
      <4>4. mid \in Places
        BY <1>0, <4>1, <4>3, MoveType
      <4>5. pc' = [mid EXCEPT ![j]["runtime"] = b]
        BY <4>2, <4>3
      <4> QED BY <4>1, <4>4, <4>5, MoveType
    <3> QED BY <2>2, <3>1 DEF TypeOK, NewJob, Places, Store
  <2>3. CASE PutIfAbsent(j)
    <3>1. store' \in Store
      <4>1. CASE store' = store BY <1>0, <4>1
      <4>2. CASE KeyOf(j) \in Keys
                 /\ store' = [store EXCEPT ![KeyOf(j)] = [job |-> j, hash |-> HashOf(j),
                                                         accepted |-> NoJob]]
        BY <1>0, <4>2, JobAssumption DEF Store
      <4> QED BY <2>3, <4>1, <4>2, JobAssumption DEF PutIfAbsent
    <3> QED BY <2>3, <3>1 DEF TypeOK, PutIfAbsent, Places, Store
  <2>4. CASE Issue(j)
    <3>1. cred' \in [Jobs -> {"none", "live", "revoked"}]
      BY <2>4 DEF TypeOK, Issue
    <3>2. sub' \in [Jobs -> {"idle", "registered", "keyed", "issued", "accepted",
                             "cached", "done", "rejecting", "rejected"}]
      <4>1. PICK b \in {"issued", "rejecting"} : sub' = [sub EXCEPT ![j] = b]
        BY <2>4 DEF Issue
      <4> QED BY <4>1 DEF TypeOK
    <3>3. reply' \in [Jobs -> {"none", "invalid", "store error", "duplicate key",
                               "in progress", "replayed", "issue failed", "accepted"}]
      BY <2>4 DEF TypeOK, Issue
    <3>4. UNCHANGED <<dropped, store, swept, jobs, pc, outcome, status, terminal,
                      cancelled, accepted, ended, acking, ran, closed>>
      BY <2>4 DEF Issue
    <3> QED BY <3>1, <3>2, <3>3, <3>4 DEF TypeOK
  <2>5. CASE SendAccepted(j) BY <2>5 DEF TypeOK, SendAccepted
  <2>6. CASE SetAccepted(j)
    <3>1. store' \in Store
      <4>1. CASE store' = store BY <1>0, <4>1
      <4>2. CASE KeyOf(j) \in Keys
                 /\ store' = [store EXCEPT ![KeyOf(j)].accepted = j]
        BY <1>0, <4>2 DEF Store
      <4> QED BY <2>6, <4>1, <4>2, JobAssumption DEF SetAccepted
    <3> QED BY <2>6, <3>1 DEF TypeOK, SetAccepted, Places, Store
  <2>7. CASE StartRun(j)
    <3>1. pc' \in Places
      BY <1>0, <2>7, MoveType, StopType DEF StartRun, Place
    <3> QED BY <2>7, <3>1 DEF TypeOK, StartRun, Places, Store
  <2>8. CASE Discard(j)
    <3>1. pc' \in Places
      BY <1>0, <2>8, MoveType, StopType DEF Discard, StopTimers, Final, Place
    <3> QED BY <2>8, <3>1 DEF TypeOK, Discard, StopTimers, Final, Places, Store
  <2>9. CASE SessionEnds(j) BY <2>9 DEF TypeOK, SessionEnds
  <2>10. CASE RunBegins(j)
    <3>1. pc' \in Places
      <4>1. "leaving" \in Place /\ "checked" \in Place /\ "run" \in Workers
        BY DEF Place
      <4>2. \E b \in Place : pc' = [pc EXCEPT ![j]["run"] = b]
        BY <2>10, <4>1 DEF RunBegins
      <4>3. PICK b \in Place : pc' = [pc EXCEPT ![j]["run"] = b]
        BY <4>2
      <4>4. [pc EXCEPT ![j]["run"] = b] \in Places
        BY <1>0, <4>1, MoveType
      <4> QED BY <4>3, <4>4
    <3> QED BY <2>10, <3>1 DEF TypeOK, RunBegins, Places, Store
  <2>11. CASE CallAgent(j)
    <3>1. pc' \in Places
      BY <1>0, <2>11, MoveType, StopType DEF CallAgent, Place
    <3> QED BY <2>11, <3>1 DEF TypeOK, CallAgent, Places, Store
  <2>12. CASE AgentReturns(j)
    <3>1. pc' \in Places
      BY <1>0, <2>12, MoveType, StopType DEF AgentReturns, Place
    <3>2. outcome' \in [Jobs -> {"success", "unmarshalable", "error", "cancelled"}]
      BY <1>0, <2>12, AgentAssumption DEF AgentReturns
    <3> QED BY <2>12, <3>1, <3>2 DEF TypeOK, AgentReturns, Places, Store
  <2>13. ASSUME NEW w \in Workers, MarkTerminal(j, w) PROVE TypeOK'
    <3>1. pc' \in Places
      <4>1. PICK b : pc' = [pc EXCEPT ![j][w] = b] /\ b \in {"leaving", "exited", "marked"}
        BY <2>13 DEF MarkTerminal
      <4>2. b \in Place
        BY <4>1 DEF Place
      <4> QED BY <1>0, <2>13, <4>1, <4>2, MoveType
    <3>2. status' \in [Jobs -> Final \cup {"pending", "running"}]
      BY <1>0, <2>13 DEF MarkTerminal, StatusFor, Final
    <3> QED BY <2>13, <3>1, <3>2 DEF TypeOK, MarkTerminal, Places, Store
  <2>14. ASSUME NEW w \in Workers, RevokeAll(j, w) PROVE TypeOK'
    <3>1. pc' \in Places
      BY <1>0, <2>14, MoveType, StopType DEF RevokeAll, Place
    <3> QED BY <2>14, <3>1 DEF TypeOK, RevokeAll, Places, Store
  <2>15. ASSUME NEW w \in Workers, EmitTerminal(j, w) PROVE TypeOK'
    <3>1. pc' \in Places
      BY <1>0, <2>15, MoveType, StopType DEF EmitTerminal, Place
    <3>2. ended' \in [Jobs -> Seq(Final)]
      BY <1>0, <2>15, SMTT(30) DEF EmitTerminal, WireStatusFor, StatusFor, Final
    <3> QED BY <2>15, <3>1, <3>2 DEF TypeOK, EmitTerminal, Places, Store
  <2>16. ASSUME NEW w \in Workers, Leave(j, w) PROVE TypeOK'
    <3>1. pc' \in Places
      <4>1. "exited" \in Place
        BY DEF Place
      <4>2. [pc EXCEPT ![j][w] = "exited"] \in Places
        BY <1>0, <2>16, <4>1, MoveType
      <4>3. [pc EXCEPT ![j] = [StopTimers(j) EXCEPT !["run"] = "exited"]] \in Places
        BY <1>0, StopType
      <4> QED BY <2>16, <4>2, <4>3 DEF Leave
    <3> QED BY <2>16, <3>1 DEF TypeOK, Leave, StopTimers, Places, Store
  <2>17. CASE AckCancel(j) BY <2>17 DEF TypeOK, AckCancel
  <2>18. CASE CancelWithReason(j) BY <2>18 DEF TypeOK, CancelWithReason
  <2> QED
    BY <1>1, <2>1, <2>2, <2>3, <2>4, <2>5, <2>6, <2>7, <2>8, <2>9, <2>10, <2>11, <2>12,
       <2>13, <2>14, <2>15, <2>16, <2>17, <2>18
       DEF JobStep, SubmitStep, RunStep, FinishStep
<1>2. ASSUME NEW k \in Keys, Sweep(k) PROVE TypeOK'
  BY <1>2 DEF TypeOK, Sweep, NoEntry
<1>3. CASE ServerClose BY <1>3 DEF TypeOK, ServerClose
<1>4. CASE UNCHANGED vars BY <1>4 DEF TypeOK, vars
<1> QED BY <1>1, <1>2, <1>3, <1>4 DEF Next

(* Only MarkTerminal and EmitTerminal can make a job's goroutine a         *)
(* finisher or send a terminal envelope.                                   *)
LEMMA NoNewFinisher ==
  ASSUME TypeOK, [Next]_vars, NEW i \in Jobs,
         ~\E j \in Jobs, w \in Workers : MarkTerminal(j, w) \/ EmitTerminal(j, w)
  PROVE  /\ \A w \in Workers : pc'[i][w] \in Finishing => pc[i][w] \in Finishing
         /\ terminal[i] => terminal'[i]
         /\ ended' = ended
<1>0. pc \in Places /\ terminal \in [Jobs -> BOOLEAN]
  BY DEF TypeOK, Places
<1> USE DEF Handler, Move, Finishing
<1> DEFINE Goal == /\ \A w \in Workers : pc'[i][w] \in Finishing => pc[i][w] \in Finishing
                   /\ terminal[i] => terminal'[i]
                   /\ ended' = ended
<1>1. ASSUME UNCHANGED <<pc, terminal, ended>> PROVE Goal
  BY <1>1
<1>2. ASSUME NEW j \in Jobs,
             \/ Reject(j) \/ PutIfAbsent(j) \/ Issue(j) \/ SendAccepted(j)
             \/ SetAccepted(j) \/ SessionEnds(j) \/ AckCancel(j) \/ CancelWithReason(j)
      PROVE  Goal
  BY <1>1, <1>2 DEF Reject, PutIfAbsent, Issue, SendAccepted, SetAccepted, SessionEnds,
     AckCancel, CancelWithReason
<1>3. ASSUME NEW j \in Jobs, NewJob(j) PROVE Goal
  BY <1>0, <1>3 DEF NewJob, Places
<1>4. ASSUME NEW j \in Jobs, StartRun(j) PROVE Goal
  BY <1>0, <1>4 DEF StartRun, Places
<1>5. ASSUME NEW j \in Jobs, Discard(j) PROVE Goal
  BY <1>0, <1>5 DEF Discard, StopTimers, Places
<1>6. ASSUME NEW j \in Jobs, RunStep(j) PROVE Goal
  BY <1>0, <1>6, SMTT(30) DEF RunStep, RunBegins, CallAgent, AgentReturns, Places
<1>7. ASSUME NEW j \in Jobs, NEW w \in Workers, RevokeAll(j, w) PROVE Goal
  BY <1>0, <1>7 DEF RevokeAll, Places
<1>8. ASSUME NEW j \in Jobs, NEW w \in Workers, Leave(j, w) PROVE Goal
  <2>1. CASE w = "run"
    <3>1. /\ \A v \in Workers : [StopTimers(j) EXCEPT !["run"] = "exited"][v] \in Finishing
            => pc[j][v] \in Finishing
          /\ StopTimers(j) \in [Workers -> Place]
      BY <1>0, StopType DEF StopTimers
    <3> QED BY <1>0, <1>8, <2>1, <3>1 DEF Leave, Places
  <2>2. CASE w # "run"
    BY <1>0, <1>8, <2>2, SMTT(30) DEF Leave, Places
  <2> QED BY <2>1, <2>2
<1>9. ASSUME \/ \E k \in Keys : Sweep(k)
             \/ ServerClose
      PROVE  Goal
  BY <1>1, <1>9 DEF Sweep, ServerClose
<1>12. ASSUME UNCHANGED vars PROVE Goal
  BY <1>1, <1>12 DEF vars
<1> HIDE DEF Goal
<1>10. ASSUME NEW j \in Jobs, JobStep(j) PROVE Goal
  BY <1>10, <1>2, <1>3, <1>4, <1>5, <1>6, <1>7, <1>8 DEF JobStep, SubmitStep, FinishStep
<1>11. Goal
  BY <1>9, <1>10, <1>12 DEF Next
<1> QED BY <1>11 DEF Goal

(* The first goroutine to set the terminal flag is the only one to send.   *)
LEMMA FinisherStep ==
  ASSUME TypeOK, OneFinisher, OneTerminal, [Next]_vars
  PROVE  OneFinisher' /\ OneTerminal'
<1>0. pc \in Places /\ terminal \in [Jobs -> BOOLEAN] /\ ended \in [Jobs -> Seq(Final)]
  BY DEF TypeOK, Places
<1>1. CASE ~\E j \in Jobs, w \in Workers : MarkTerminal(j, w) \/ EmitTerminal(j, w)
  BY <1>1, NoNewFinisher DEF OneFinisher, OneTerminal
<1>2. ASSUME NEW j \in Jobs, NEW w \in Workers, MarkTerminal(j, w)
      PROVE  OneFinisher' /\ OneTerminal'
  <2>1. ended' = ended /\ terminal' = [terminal EXCEPT ![j] = TRUE]
    BY <1>2 DEF MarkTerminal
  <2>2. CASE terminal[j]
    <3>1. \A i \in Jobs, v \in Workers : pc'[i][v] \in Finishing => pc[i][v] \in Finishing
      <4>1. PICK b \in {"leaving", "exited"} : pc' = [pc EXCEPT ![j][w] = b]
        BY <1>2, <2>2 DEF MarkTerminal
      <4> QED BY <1>0, <4>1 DEF Finishing, Places
    <3> QED BY <1>0, <2>1, <3>1 DEF OneFinisher, OneTerminal
  <2>3. CASE ~terminal[j]
    <3>1. pc' = [pc EXCEPT ![j][w] = "marked"] /\ ended[j] = <<>>
      BY <1>2, <2>3 DEF MarkTerminal, OneFinisher
    <3>2. \A v \in Workers : pc[j][v] \notin Finishing
      BY <2>3 DEF OneFinisher
    <3>3. \A i \in Jobs, v \in Workers :
            pc'[i][v] = IF i = j /\ v = w THEN "marked" ELSE pc[i][v]
      BY <1>0, <1>2, <3>1 DEF Places
    <3> QED BY <1>0, <2>1, <3>1, <3>2, <3>3, SMTT(30) DEF OneFinisher, OneTerminal, Finishing
  <2> QED BY <2>2, <2>3
<1>3. ASSUME NEW j \in Jobs, NEW w \in Workers, EmitTerminal(j, w)
      PROVE  OneFinisher' /\ OneTerminal'
  <2>1. pc[j][w] = "revoked" /\ pc' = [pc EXCEPT ![j][w] = "leaving"] /\ terminal' = terminal
    BY <1>3 DEF EmitTerminal, Move
  <2>2. \A i \in Jobs, v \in Workers :
          pc'[i][v] = IF i = j /\ v = w THEN "leaving" ELSE pc[i][v]
    BY <1>0, <1>3, <2>1 DEF Places
  <2>3. terminal[j] /\ ended[j] = <<>> /\ \A v \in Workers : v # w => pc[j][v] \notin Finishing
    BY <1>3, <2>1 DEF OneFinisher, Finishing
  <2>4. PICK f : ended' = [ended EXCEPT ![j] = Append(ended[j], f)]
    BY <1>3 DEF EmitTerminal
  <2>5. Append(ended[j], f) = <<f>> /\ Len(<<f>>) = 1
    BY <2>3, SMTT(30)
  <2>6. \A i \in Jobs : ended'[i] = IF i = j THEN <<f>> ELSE ended[i]
    BY <1>0, <2>4, <2>5
  <2>7. OneFinisher'
    BY <2>1, <2>2, <2>3, <2>6, SMTT(30) DEF OneFinisher, Finishing
  <2>8. OneTerminal'
    <3> SUFFICES ASSUME NEW i \in Jobs PROVE Len(ended'[i]) <= 1
      BY DEF OneTerminal
    <3>1. CASE i = j
      <4>1. ended'[i] = <<f>>
        BY <3>1, <2>6
      <4> QED BY <4>1, <2>5, SMTT(30)
    <3>2. CASE i # j BY <3>2, <2>6 DEF OneTerminal
    <3> QED BY <3>1, <3>2
  <2> QED BY <2>7, <2>8
<1> QED BY <1>1, <1>2, <1>3

(* Whoever ends a job whose agent was called finds its credential.         *)
LEMMA RevokeStep ==
  ASSUME TypeOK, OneFinisher, RevokeInv, [Next]_vars
  PROVE  RevokeInv'
<1>0. /\ pc \in Places
      /\ sub \in [Jobs -> {"idle", "registered", "keyed", "issued", "accepted",
                           "cached", "done", "rejecting", "rejected"}]
      /\ cred \in [Jobs -> {"none", "live", "revoked"}]
      /\ ran \in [Jobs -> BOOLEAN] /\ ended \in [Jobs -> Seq(Final)]
  BY DEF TypeOK, Places
<1> USE DEF Handler, Move
\* A step that calls no agent, issues or revokes nothing and ends nothing.
<1>1. ASSUME UNCHANGED <<ended, cred, ran>>,
             \A i \in Jobs :
               /\ sub[i] = "done" => sub'[i] = "done"
               /\ pc'[i]["run"] = "checked" => pc[i]["run"] = "checked"
               /\ pc'[i]["run"] # "off" => pc[i]["run"] # "off"
               /\ \A w \in Workers : pc'[i][w] = "revoked" => pc[i][w] = "revoked"
      PROVE  RevokeInv'
  BY <1>0, <1>1, SMTT(30) DEF RevokeInv, Started
<1>2. ASSUME NEW j \in Jobs,
             \/ Reject(j) \/ PutIfAbsent(j) \/ SendAccepted(j)
             \/ SetAccepted(j) \/ SessionEnds(j) \/ AckCancel(j) \/ CancelWithReason(j)
      PROVE  RevokeInv'
  <2>1. UNCHANGED <<pc, ended, cred, ran>>
    BY <1>2 DEF Reject, PutIfAbsent, SendAccepted, SetAccepted, SessionEnds, AckCancel,
       CancelWithReason
  <2>2. \A i \in Jobs : sub[i] = "done" => sub'[i] = "done"
    BY <1>0, <1>2 DEF Reject, PutIfAbsent, SendAccepted, SetAccepted, SessionEnds,
       AckCancel, CancelWithReason
  <2> QED BY <1>1, <2>1, <2>2
<1>3. ASSUME NEW j \in Jobs, NewJob(j) PROVE RevokeInv'
  <2>1. \A i \in Jobs :
          /\ pc'[i]["run"] = pc[i]["run"]
          /\ \A w \in Workers : pc'[i][w] = "revoked" => pc[i][w] = "revoked"
          /\ sub[i] = "done" => sub'[i] = "done"
    BY <1>0, <1>3, SMTT(30) DEF NewJob, Places
  <2> QED BY <1>1, <1>3, <2>1 DEF NewJob
<1>4. ASSUME NEW j \in Jobs, Issue(j) PROVE RevokeInv'
  <2>1. UNCHANGED <<pc, ended, ran>> /\ sub[j] # "done"
        /\ \A i \in Jobs : i # j => cred'[i] = cred[i] /\ sub'[i] = sub[i]
    BY <1>0, <1>4 DEF Issue
  <2> QED BY <2>1, SMTT(30) DEF RevokeInv, Started
<1>5. ASSUME NEW j \in Jobs, StartRun(j) PROVE RevokeInv'
  <2>1. UNCHANGED <<ended, ran, cred>> /\ sub' = [sub EXCEPT ![j] = "done"]
        /\ \A i \in Jobs, w \in Workers :
             pc'[i][w] = IF i = j /\ w = "run" THEN "started" ELSE pc[i][w]
    BY <1>0, <1>5 DEF StartRun, Places
  <2>2. \A i \in Jobs : sub'[i] = IF i = j THEN "done" ELSE sub[i]
    BY <1>0, <2>1
  <2> QED BY <2>1, <2>2, SMTT(30) DEF RevokeInv, Started
<1>6. ASSUME NEW j \in Jobs, Discard(j) PROVE RevokeInv'
  <2>1. \A i \in Jobs : sub[i] = "done" => sub'[i] = "done"
    BY <1>0, <1>6 DEF Discard
  <2>2. \A i \in Jobs, w \in Workers :
          pc'[i][w] = IF i = j /\ pc[i][w] = "armed" THEN "exited" ELSE pc[i][w]
    BY <1>0, <1>6 DEF Discard, StopTimers, Places
  <2> QED BY <1>1, <1>6, <2>1, <2>2, SMTT(30) DEF Discard
<1>7. ASSUME NEW j \in Jobs, RunBegins(j) PROVE RevokeInv'
  <2>1. /\ UNCHANGED <<sub, ended, ran, cred>> /\ pc[j]["run"] = "started"
        /\ \A i \in Jobs, w \in Workers :
             pc'[i][w] = IF i = j /\ w = "run"
                           THEN IF terminal[j] THEN "leaving" ELSE "checked"
                           ELSE pc[i][w]
    BY <1>0, <1>7, SMTT(30) DEF RunBegins, Places
  <2>2. ~terminal[j] => ended[j] = <<>> /\ \A w \in Workers : pc[j][w] # "revoked"
    BY DEF OneFinisher, Finishing
  <2> QED BY <2>1, <2>2, SMTT(30) DEF RevokeInv, Started
<1>8. ASSUME NEW j \in Jobs, CallAgent(j) PROVE RevokeInv'
  <2>1. /\ UNCHANGED <<sub, ended, cred>> /\ pc[j]["run"] = "checked"
        /\ \A i \in Jobs : ran'[i] <=> (i = j \/ ran[i])
        /\ \A i \in Jobs, w \in Workers :
             pc'[i][w] = IF i = j /\ w = "run" THEN "agent" ELSE pc[i][w]
    BY <1>0, <1>8 DEF CallAgent, Places
  <2> QED BY <2>1, SMTT(30) DEF RevokeInv, Started
<1>9. ASSUME NEW j \in Jobs, AgentReturns(j) PROVE RevokeInv'
  <2>1. \A i \in Jobs, w \in Workers :
          pc'[i][w] = IF i = j /\ w = "run" THEN "returned" ELSE pc[i][w]
    BY <1>0, <1>9 DEF AgentReturns, Places
  <2>2. pc[j]["run"] = "agent" /\ UNCHANGED <<sub, ended, cred, ran>>
    BY <1>9 DEF AgentReturns
  <2> QED BY <1>1, <2>1, <2>2, SMTT(30)
<1>10. ASSUME NEW j \in Jobs, NEW w \in Workers, MarkTerminal(j, w) PROVE RevokeInv'
  <2>1. PICK b \in {"leaving", "exited", "marked"} : pc' = [pc EXCEPT ![j][w] = b]
    BY <1>10 DEF MarkTerminal
  <2>2. \A i \in Jobs, v \in Workers : pc'[i][v] = IF i = j /\ v = w THEN b ELSE pc[i][v]
    BY <1>0, <2>1 DEF Places
  <2>3. pc[j][w] \in {"returned", "armed"} /\ UNCHANGED <<sub, ended, cred, ran>>
    BY <1>10 DEF MarkTerminal
  <2> QED BY <1>1, <2>2, <2>3, SMTT(30)
<1>11. ASSUME NEW j \in Jobs, NEW w \in Workers, RevokeAll(j, w) PROVE RevokeInv'
  <2>1. /\ UNCHANGED <<sub, ended, ran>> /\ pc[j][w] = "marked"
        /\ \A i \in Jobs : cred'[i] = IF i = j /\ cred[i] = "live" THEN "revoked" ELSE cred[i]
        /\ \A i \in Jobs, v \in Workers :
             pc'[i][v] = IF i = j /\ v = w THEN "revoked" ELSE pc[i][v]
    BY <1>0, <1>11 DEF RevokeAll, Places
  <2> QED BY <2>1, SMTT(30) DEF RevokeInv, Started
<1>12. ASSUME NEW j \in Jobs, NEW w \in Workers, EmitTerminal(j, w) PROVE RevokeInv'
  <2>1. /\ UNCHANGED <<sub, ran, cred>> /\ pc[j][w] = "revoked"
        /\ \A i \in Jobs : i # j => ended'[i] = ended[i]
        /\ \A i \in Jobs, v \in Workers :
             pc'[i][v] = IF i = j /\ v = w THEN "leaving" ELSE pc[i][v]
    BY <1>0, <1>12 DEF EmitTerminal, Places
  <2> QED BY <2>1, SMTT(30) DEF RevokeInv, Started
<1>13. ASSUME NEW j \in Jobs, NEW w \in Workers, Leave(j, w) PROVE RevokeInv'
  <2>1. \A i \in Jobs, v \in Workers :
          \/ pc'[i][v] = pc[i][v]
          \/ pc'[i][v] = "exited" /\ pc[i][v] \in {"armed", "leaving"}
    <3>0. pc[j][w] = "leaving"
      BY <1>13 DEF Leave
    <3>1. CASE w = "run"
      <4>0. PICK next : next = [StopTimers(j) EXCEPT !["run"] = "exited"]
        OBVIOUS
      <4>1. \A v \in Workers :
              next[v] = IF v = "run" \/ pc[j][v] = "armed" THEN "exited" ELSE pc[j][v]
        BY <4>0 DEF StopTimers
      <4>2. pc' = [pc EXCEPT ![j] = next]
        BY <1>13, <3>1, <4>0 DEF Leave
      <4>3. \A i \in Jobs : pc'[i] = IF i = j THEN next ELSE pc[i]
        BY <1>0, <4>2 DEF Places
      <4>4. pc[j]["run"] = "leaving"
        BY <3>0, <3>1
      <4>5. ASSUME NEW v \in Workers
            PROVE  \/ next[v] = pc[j][v]
                   \/ next[v] = "exited" /\ pc[j][v] \in {"armed", "leaving"}
        BY <4>1, <4>4
      <4> QED BY <4>3, <4>5
    <3>2. CASE w # "run"
      <4>1. pc' = [pc EXCEPT ![j][w] = "exited"]
        BY <1>13, <3>2 DEF Leave
      <4>2. \A i \in Jobs, v \in Workers :
              pc'[i][v] = IF i = j /\ v = w THEN "exited" ELSE pc[i][v]
        BY <1>0, <4>1 DEF Places
      <4> QED BY <3>0, <4>2
    <3> QED BY <3>1, <3>2
  <2>2. UNCHANGED <<sub, ended, cred, ran>>
    BY <1>13 DEF Leave
  <2> QED BY <1>1, <2>1, <2>2
<1>14. ASSUME NEW k \in Keys, Sweep(k) PROVE RevokeInv'
  BY <1>1, <1>14 DEF Sweep
<1>15. CASE ServerClose BY <1>1, <1>15 DEF ServerClose
<1>16. CASE UNCHANGED vars BY <1>1, <1>16 DEF vars
<1>17. ASSUME NEW j \in Jobs, JobStep(j) PROVE RevokeInv'
  BY <1>17, <1>2, <1>3, <1>4, <1>5, <1>6, <1>7, <1>8, <1>9, <1>10, <1>11, <1>12, <1>13
     DEF JobStep, SubmitStep, RunStep, FinishStep
<1> QED BY <1>14, <1>15, <1>16, <1>17 DEF Next

(* A submission past the store keeps its key's entry until the sweep.      *)
LEMMA KeyStep ==
  ASSUME TypeOK, KeyInv, [Next]_vars
  PROVE  KeyInv'
<1>0. /\ sub \in [Jobs -> {"idle", "registered", "keyed", "issued", "accepted",
                           "cached", "done", "rejecting", "rejected"}]
      /\ accepted \in [Jobs -> BOOLEAN] /\ store \in Store
  BY DEF TypeOK, Store
<1>01. \A j \in Jobs : KeyOf(j) \in Keys \cup {NoKey} /\ NoKey \notin Keys /\ NoJob \notin Jobs
  BY JobAssumption
<1> USE DEF Handler, PastStore
\* A step that leaves the store alone and lets no submission past it.
<1>1. ASSUME UNCHANGED <<store, swept>>,
             \A i \in Jobs :
               /\ accepted'[i] => sub'[i] \in {"accepted", "cached", "done"}
               /\ sub'[i] \in PastStore => sub[i] \in PastStore
      PROVE  KeyInv'
  BY <1>1 DEF KeyInv
<1>2. ASSUME UNCHANGED <<store, swept, sub, accepted>> PROVE KeyInv'
  BY <1>2 DEF KeyInv
<1>3. ASSUME NEW j \in Jobs,
             Reject(j) \/ NewJob(j) \/ Issue(j) \/ StartRun(j) \/ Discard(j)
      PROVE  KeyInv'
  <2>1. UNCHANGED <<store, swept, accepted>>
    BY <1>3 DEF Reject, NewJob, Issue, StartRun, Discard
  <2>2. \A i \in Jobs :
          /\ sub[i] \in {"accepted", "cached", "done"} =>
               sub'[i] = sub[i] \/ sub'[i] = "done"
          /\ sub'[i] \in PastStore => sub[i] \in PastStore
    BY <1>0, <1>3 DEF Reject, NewJob, Issue, StartRun, Discard
  <2>3. \A i \in Jobs : accepted'[i] => sub'[i] \in {"accepted", "cached", "done"}
    BY <2>1, <2>2 DEF KeyInv
  <2> QED BY <1>1, <2>1, <2>2, <2>3
<1>4. ASSUME NEW j \in Jobs, PutIfAbsent(j) PROVE KeyInv'
  <2> DEFINE k == KeyOf(j)
             new == k # NoKey /\ ~dropped[j] /\ store[k] = NoEntry
  <2>1. /\ UNCHANGED <<swept, accepted>> /\ sub[j] = "registered"
        /\ sub'[j] \in {"keyed", "rejecting"}
        /\ sub'[j] = "keyed" => k = NoKey \/ new
        /\ \A i \in Jobs : i # j => sub'[i] = sub[i]
    BY <1>0, <1>4 DEF PutIfAbsent
  <2>2. \A i \in Jobs : accepted'[i] => sub'[i] \in {"accepted", "cached", "done"}
    BY <2>1 DEF KeyInv
  <2>3. CASE ~new
    <3>1. store' = store
      BY <1>4, <2>3 DEF PutIfAbsent
    <3> QED BY <1>01, <2>1, <2>2, <2>3, <3>1 DEF KeyInv
  <2>4. CASE new
    <3>1. store' = [store EXCEPT ![k] = [job |-> j, hash |-> HashOf(j), accepted |-> NoJob]]
      BY <1>4, <2>4 DEF PutIfAbsent
    <3>2. \A l \in Keys : store'[l].job = IF l = k THEN j ELSE store[l].job
      BY <1>0, <3>1 DEF Store
    <3>3. \A i \in Jobs : sub[i] \in PastStore /\ KeyOf(i) \in Keys \ swept => KeyOf(i) # k
      <4>1. store[k].job = NoJob
        <5>1. store[k] = NoEntry
          BY <2>4
        <5>2. NoEntry.job = NoJob
          BY DEF NoEntry
        <5> QED BY <5>1, <5>2
      <4>2. ASSUME NEW i \in Jobs, sub[i] \in PastStore, KeyOf(i) \in Keys \ swept
            PROVE  store[KeyOf(i)].job = i
        BY <4>2 DEF KeyInv
      <4> HIDE DEF k
      <4> QED BY <1>01, <4>1, <4>2
    <3> QED BY <1>01, <2>1, <2>2, <3>2, <3>3 DEF KeyInv
  <2> QED BY <2>3, <2>4
<1>5. ASSUME NEW j \in Jobs, SendAccepted(j) PROVE KeyInv'
  <2>1. UNCHANGED <<store, swept>> /\ sub[j] = "issued" /\ sub'[j] = "accepted"
        /\ \A i \in Jobs : i # j => sub'[i] = sub[i] /\ accepted'[i] = accepted[i]
    BY <1>0, <1>5 DEF SendAccepted
  <2> QED BY <1>1, <2>1 DEF KeyInv
<1>6. ASSUME NEW j \in Jobs, SetAccepted(j) PROVE KeyInv'
  <2>1. UNCHANGED <<swept, accepted>> /\ sub[j] = "accepted" /\ sub'[j] = "cached"
        /\ \A i \in Jobs : i # j => sub'[i] = sub[i]
    BY <1>0, <1>6 DEF SetAccepted
  <2>2. \A l \in Keys : store'[l].job = store[l].job
    BY <1>0, <1>6 DEF SetAccepted, Store
  <2> QED BY <2>1, <2>2 DEF KeyInv
<1>7. ASSUME NEW k \in Keys, Sweep(k) PROVE KeyInv'
  <2>1. UNCHANGED <<sub, accepted>> /\ swept' = swept \cup {k}
        /\ \A l \in Keys : l # k => store'[l] = store[l]
    BY <1>0, <1>7 DEF Sweep, Store
  <2> QED BY <2>1 DEF KeyInv
<1>8. ASSUME NEW j \in Jobs,
             \/ SessionEnds(j) \/ RunStep(j) \/ \E w \in Workers : FinishStep(j, w)
             \/ AckCancel(j) \/ CancelWithReason(j)
      PROVE  UNCHANGED <<store, swept, sub, accepted>>
  BY <1>8 DEF SessionEnds, RunStep, RunBegins, CallAgent, AgentReturns, FinishStep,
     MarkTerminal, RevokeAll, EmitTerminal, Leave, AckCancel, CancelWithReason
<1>9. CASE ServerClose BY <1>2, <1>9 DEF ServerClose
<1>10. CASE UNCHANGED vars BY <1>2, <1>10 DEF vars
<1>11. ASSUME NEW j \in Jobs, JobStep(j) PROVE KeyInv'
  BY <1>11, <1>2, <1>3, <1>4, <1>5, <1>6, <1>8 DEF JobStep, SubmitStep
<1> QED BY <1>7, <1>9, <1>10, <1>11 DEF Next

(* A terminal flag stays set, and the status with it.                      *)
LEMMA FrozenStep ==
  ASSUME TypeOK, OneFinisher, [Next]_vars
  PROVE  \A j \in Jobs : terminal[j] => terminal'[j] /\ status'[j] = status[j]
<1>0. /\ terminal \in [Jobs -> BOOLEAN]
      /\ status \in [Jobs -> Final \cup {"pending", "running"}]
  BY DEF TypeOK
<1> DEFINE Goal == \A i \in Jobs : terminal[i] => terminal'[i] /\ status'[i] = status[i]
<1>1. ASSUME UNCHANGED <<terminal, status>> PROVE Goal
  BY <1>1
<1>2. ASSUME NEW j \in Jobs, Discard(j) PROVE Goal
  BY <1>0, <1>2 DEF Discard
<1>3. ASSUME NEW j \in Jobs, CallAgent(j) PROVE Goal
  BY <1>0, <1>3 DEF CallAgent
<1>4. ASSUME NEW j \in Jobs, NEW w \in Workers, MarkTerminal(j, w) PROVE Goal
  BY <1>0, <1>4 DEF MarkTerminal
<1>5. ASSUME NEW j \in Jobs,
             \/ Reject(j) \/ NewJob(j) \/ SessionEnds(j) \/ AckCancel(j) \/ CancelWithReason(j)
             \/ PutIfAbsent(j) \/ Issue(j) \/ SendAccepted(j) \/ SetAccepted(j) \/ StartRun(j)
             \/ RunBegins(j) \/ AgentReturns(j)
             \/ \E w \in Workers : RevokeAll(j, w) \/ EmitTerminal(j, w) \/ Leave(j, w)
      PROVE  UNCHANGED <<terminal, status>>
  BY <1>5 DEF Reject, NewJob, SessionEnds, AckCancel, CancelWithReason, PutIfAbsent, Issue,
     SendAccepted, SetAccepted, StartRun, RunBegins, AgentReturns, RevokeAll, EmitTerminal, Leave
<1>6. ASSUME \/ UNCHANGED vars \/ ServerClose \/ \E k \in Keys : Sweep(k)
      PROVE  UNCHANGED <<terminal, status>>
  BY <1>6 DEF vars, ServerClose, Sweep
<1> HIDE DEF Goal
<1>7. ASSUME NEW j \in Jobs, JobStep(j) PROVE Goal
  BY <1>7, <1>1, <1>2, <1>3, <1>4, <1>5 DEF JobStep, SubmitStep, RunStep, FinishStep
<1>8. Goal
  BY <1>1, <1>6, <1>7 DEF Next
<1> QED BY <1>8 DEF Goal

(* The initial states satisfy the invariant.                               *)
LEMMA InitInv == Init => LifecycleInv
<1> SUFFICES ASSUME Init PROVE LifecycleInv
  OBVIOUS
<1>1. TypeOK
  <2>1. ended \in [Jobs -> Seq(Final)]
    BY SMTT(30) DEF Init
  <2> QED BY <2>1 DEF Init, TypeOK, NoEntry, Place, Final
<1>2. OneFinisher /\ OneTerminal
  BY SMTT(30) DEF Init, OneFinisher, OneTerminal, Finishing
<1>3. RevokeInv /\ KeyInv
  BY DEF Init, RevokeInv, KeyInv, Started, PastStore
<1> QED BY <1>1, <1>2, <1>3 DEF LifecycleInv

(* The invariant holds of every job in every behaviour.                    *)
THEOREM Lifecycle == Spec => []LifecycleInv
<1>1. LifecycleInv /\ [Next]_vars => LifecycleInv'
  BY TypeStep, FinisherStep, RevokeStep, KeyStep DEF LifecycleInv
<1> QED BY <1>1, InitInv, PTL DEF Spec

(* The status a job reports and the envelope it sends are always among the *)
(* documented ones, whatever timers, keys and credentials it has.          *)
THEOREM LifecycleTypes == Spec => []TypeOK
<1>1. LifecycleInv => TypeOK
  BY DEF LifecycleInv
<1> QED BY <1>1, Lifecycle, PTL

(* However the lease-expiry timer, the max-runtime timer, run, cancels and *)
(* Server.Close interleave, at most one terminal envelope is ever sent for *)
(* a job.                                                                  *)
THEOREM ExactlyOneTerminal == Spec => []OneTerminal
<1>1. LifecycleInv => OneTerminal
  BY DEF LifecycleInv
<1> QED BY <1>1, Lifecycle, PTL

(* The credential of a job whose agent was called is revoked before its    *)
(* terminal envelope is sent, whichever goroutine ends the job.            *)
THEOREM CredentialsRevoked == Spec => []RevokedBeforeTerminal
<1>1. LifecycleInv => RevokedBeforeTerminal
  BY DEF LifecycleInv, RevokeInv, Started, RevokedBeforeTerminal
<1> QED BY <1>1, Lifecycle, PTL

(* Two submissions under one unswept idempotency key are never both        *)
(* accepted, however their handlers interleave.                            *)
THEOREM Idempotency == Spec => []OneJobPerKey
<1>1. LifecycleInv => OneJobPerKey
  BY DEF LifecycleInv, KeyInv, PastStore, OneJobPerKey
<1> QED BY <1>1, Lifecycle, PTL

(* No step changes the status of a terminal job.                           *)
THEOREM StatusIsFinal == Spec => TerminalFrozen
<1> DEFINE A == \A j \in Jobs : terminal[j] => terminal'[j] /\ status'[j] = status[j]
<1>1. LifecycleInv /\ [Next]_vars => [A]_vars
  BY FrozenStep DEF LifecycleInv
<1>2. Spec => [][A]_vars
  BY <1>1, Lifecycle, PTL DEF Spec
<1> QED BY <1>2 DEF TerminalFrozen
===============================================================================
