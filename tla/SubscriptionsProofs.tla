------------------------- MODULE SubscriptionsProofs --------------------------
(***************************************************************************)
(* Proofs about Subscriptions, for any sets of subscribers and of agent    *)
(* goroutines and any number of events: FeedInv, the invariant of a job's  *)
(* feed, and that no subscriber misses an event or the end of the job.     *)
(***************************************************************************)
EXTENDS Subscriptions, TLAPS

(* A leaf that names no prover is for Zenon; arithmetic is for SMT.        *)
USE ZenonT(60)

Steps == {"idle", "send", "fanout", "publish"}
RunStates == {"start", "body", "end", "leave", "bail", "gone", "bailed"}
HandlerStates == {"idle", "found", "refused", "added", "read", "on", "off"}

FeedTypes ==
  /\ seq \in Nat /\ log \subseteq Nat
  /\ emit \in [Emitters -> [at : Steps, ev : Nat, rest : SUBSET Subscribers]]
  /\ run \in RunStates /\ timer \in {"armed", "end", "off"}
  /\ terminal \in {"none", "run", "timer"} /\ final \in Nat
  /\ subs \subseteq Subscribers /\ handler \in [Subscribers -> HandlerStates]
  /\ live \in [Subscribers -> SUBSET Nat] /\ replayed \in [Subscribers -> SUBSET Nat]
  /\ told \in [Subscribers -> BOOLEAN]

\* A goroutine that emits holds an event_seq that was allocated, and a list of
\* subscribers only while it publishes.
EmitInv ==
  \A g \in Emitters :
    /\ emit[g].ev <= seq
    /\ emit[g].at = "idle" => emit[g].ev = 0
    /\ emit[g].at # "publish" => emit[g].rest = {}

\* A subscriber stays in the table until it unsubscribes or the job leaves, and
\* is replayed nothing before it reads the history.
TableInv ==
  \A s \in Subscribers :
    /\ (handler[s] \in {"added", "read", "on"} /\ Registered) => s \in subs
    /\ handler[s] \notin {"on", "off"} => replayed[s] = {}

\* run ends the job only if markTerminal let it, and then it is run that has
\* the terminal envelope in hand.
JobInv ==
  /\ run = "end" => terminal = "run"
  /\ timer = "end" => terminal = "timer"
  /\ final # 0 => terminal # "none"
  /\ final <= seq
  /\ (terminal = "run" /\ final = 0) => (run = "end" /\ emit["run"].at = "idle")
  /\ (terminal = "run" /\ run = "end" /\ final # 0) =>
       emit["run"].ev = final /\ emit["run"].at # "idle"
  /\ terminal = "run" => run \in {"end", "leave", "gone"}
  /\ run \in {"leave", "gone"} => emit["run"].at = "idle"

\* Once run's fan-out of the terminal envelope has its list, every subscriber
\* has it, is on the list, or was told in job.subscribed.
FinalInv ==
  (terminal = "run" /\ final # 0 /\ (run # "end" \/ emit["run"].at = "publish")) =>
    \A s \in Subscribers : handler[s] \in {"read", "on"} =>
      \/ told[s] = TRUE \/ final \in live[s] \cup replayed[s]
      \/ run = "end" /\ s \in emit["run"].rest

FeedInv == FeedTypes /\ EmitInv /\ TableInv /\ JobInv /\ FinalInv /\ HistoryComplete

(* The initial states satisfy the invariant.                               *)
LEMMA InitFeed == FeedInit => FeedInv
<1> SUFFICES ASSUME FeedInit PROVE FeedInv
  OBVIOUS
<1> USE DEF FeedInit, Idle
<1>1. FeedTypes
  BY DEF FeedTypes, Steps, RunStates, HandlerStates
<1>2. EmitInv /\ TableInv /\ JobInv /\ FinalInv
  BY SMTT(30) DEF EmitInv, TableInv, JobInv, FinalInv, Emitters
<1>3. HistoryComplete
  BY FeedAssumption DEF HistoryComplete
<1> QED BY <1>1, <1>2, <1>3 DEF FeedInv

(* What a step does to emit: one goroutine moves on, the others stay.      *)
LEMMA AllocEmit ==
  ASSUME FeedTypes, NEW g \in Emitters, Alloc(g)
  PROVE  /\ emit'[g] = [at |-> "send", ev |-> seq + 1, rest |-> {}]
         /\ emit[g].at = "idle"
         /\ \A h \in Emitters : h # g => emit'[h] = emit[h]
         /\ emit' \in [Emitters -> [at : Steps, ev : Nat, rest : SUBSET Subscribers]]
<1>0. /\ emit \in [Emitters -> [at : Steps, ev : Nat, rest : SUBSET Subscribers]]
      /\ seq \in Nat
  BY DEF FeedTypes
<1>1. [at |-> "send", ev |-> seq + 1, rest |-> {}]
        \in [at : Steps, ev : Nat, rest : SUBSET Subscribers]
  BY <1>0, SMTT(30) DEF Steps
<1> QED BY <1>0, <1>1 DEF Alloc, At

(* What the other steps of an emission do to emit.                         *)
LEMMA StepEmit ==
  ASSUME FeedTypes, NEW g \in Emitters
  PROVE  /\ Send(g) => emit'[g] = [at |-> "fanout", ev |-> emit[g].ev, rest |-> emit[g].rest]
         /\ FanoutEvent(g) => emit'[g] = [at |-> "publish", ev |-> emit[g].ev, rest |-> subs]
         /\ \A s \in Subscribers : Publish(g, s) =>
              emit'[g] = [at |-> "publish", ev |-> emit[g].ev, rest |-> emit[g].rest \ {s}]
         /\ Emitted(g) => emit'[g] = [at |-> "idle", ev |-> 0, rest |-> {}]
         /\ (Send(g) \/ FanoutEvent(g) \/ (\E s \in Subscribers : Publish(g, s)) \/ Emitted(g))
              => /\ \A h \in Emitters : h # g => emit'[h] = emit[h]
                 /\ emit' \in [Emitters -> [at : Steps, ev : Nat, rest : SUBSET Subscribers]]
<1>0. /\ emit \in [Emitters -> [at : Steps, ev : Nat, rest : SUBSET Subscribers]]
      /\ subs \subseteq Subscribers
  BY DEF FeedTypes
<1>1. Send(g) =>
        /\ emit'[g] = [at |-> "fanout", ev |-> emit[g].ev, rest |-> emit[g].rest]
        /\ \A h \in Emitters : h # g => emit'[h] = emit[h]
        /\ emit' \in [Emitters -> [at : Steps, ev : Nat, rest : SUBSET Subscribers]]
  BY <1>0 DEF Send, Steps
<1>2. FanoutEvent(g) =>
        /\ emit'[g] = [at |-> "publish", ev |-> emit[g].ev, rest |-> subs]
        /\ \A h \in Emitters : h # g => emit'[h] = emit[h]
        /\ emit' \in [Emitters -> [at : Steps, ev : Nat, rest : SUBSET Subscribers]]
  BY <1>0 DEF FanoutEvent, Steps
<1>3. ASSUME NEW s \in Subscribers, Publish(g, s)
      PROVE  /\ emit'[g] = [at |-> "publish", ev |-> emit[g].ev, rest |-> emit[g].rest \ {s}]
             /\ \A h \in Emitters : h # g => emit'[h] = emit[h]
             /\ emit' \in [Emitters -> [at : Steps, ev : Nat, rest : SUBSET Subscribers]]
  BY <1>0, <1>3 DEF Publish, At, Steps
<1>4. Emitted(g) =>
        /\ emit'[g] = [at |-> "idle", ev |-> 0, rest |-> {}]
        /\ \A h \in Emitters : h # g => emit'[h] = emit[h]
        /\ emit' \in [Emitters -> [at : Steps, ev : Nat, rest : SUBSET Subscribers]]
  BY <1>0, SMTT(30) DEF Emitted, Idle, Steps
<1> QED BY <1>1, <1>2, <1>3, <1>4

(* Append adds one entry, whatever it drops.                               *)
LEMMA AppendedOnly ==
  ASSUME NEW e, log' \in Appended(e)
  PROVE  log' \subseteq log \cup {e}
BY DEF Appended

(* Every step keeps the variables' types.                                  *)
LEMMA FeedTypeStep ==
  ASSUME FeedTypes, [FeedNext]_feedVars
  PROVE  FeedTypes'
<1>0. /\ seq \in Nat /\ log \subseteq Nat
      /\ emit \in [Emitters -> [at : Steps, ev : Nat, rest : SUBSET Subscribers]]
      /\ run \in RunStates /\ timer \in {"armed", "end", "off"}
      /\ terminal \in {"none", "run", "timer"} /\ final \in Nat
      /\ subs \subseteq Subscribers /\ handler \in [Subscribers -> HandlerStates]
      /\ live \in [Subscribers -> SUBSET Nat] /\ replayed \in [Subscribers -> SUBSET Nat]
      /\ told \in [Subscribers -> BOOLEAN]
  BY DEF FeedTypes
<1> USE DEF jobVars, subVars
<1>1. ASSUME NEW g \in Emitters, Alloc(g), final' \in Nat, run' = run, timer' = timer,
             terminal' = terminal
      PROVE  FeedTypes'
  BY <1>0, <1>1, AllocEmit DEF Alloc, FeedTypes
<1>2. ASSUME NEW g \in Emitters, Send(g) \/ EmitStep(g) PROVE FeedTypes'
  <2>1. CASE Send(g)
    <3>1. emit[g].ev \in Nat
      BY <1>0
    <3>2. log' \subseteq log \cup {emit[g].ev}
      BY <2>1, AppendedOnly DEF Send
    <3>3. log' \subseteq Nat
      BY <1>0, <3>1, <3>2
    <3> QED BY <1>0, <2>1, <3>3, StepEmit DEF Send, FeedTypes
  <2>2. CASE FanoutEvent(g)
    BY <1>0, <2>2, StepEmit DEF FanoutEvent, FeedTypes
  <2>3. ASSUME NEW s \in Subscribers, Publish(g, s) PROVE FeedTypes'
    <3>1. emit' \in [Emitters -> [at : Steps, ev : Nat, rest : SUBSET Subscribers]]
      BY <2>3, StepEmit
    <3>2. emit[g].ev \in Nat
      BY <1>0
    <3>3. live' \in [Subscribers -> SUBSET Nat]
      BY <1>0, <2>3, <3>2 DEF Publish
    <3> QED BY <1>0, <2>3, <3>1, <3>3 DEF Publish, FeedTypes
  <2>4. CASE Emitted(g)
    BY <1>0, <2>4, StepEmit DEF Emitted, FeedTypes, RunStates
  <2>5. CASE EmitTerminal(g)
    <3>1. Alloc(g) /\ final' = seq' /\ run' = run /\ timer' = timer /\ terminal' = terminal
      BY <2>5 DEF EmitTerminal
    <3>2. final' \in Nat
      BY <1>0, <3>1, SMTT(30) DEF Alloc
    <3> QED BY <1>1, <3>1, <3>2
  <2> QED BY <1>2, <2>1, <2>2, <2>3, <2>4, <2>5 DEF EmitStep
<1>3. ASSUME NEW g \in {"run"} \cup Helpers, EmitEvent(g) PROVE FeedTypes'
  BY <1>0, <1>1, <1>3 DEF EmitEvent, Emitters
<1>4. CASE JobStep
  BY <1>0, <1>4 DEF JobStep, Start, AgentReturns, TimerFires, Unregister, FeedTypes,
     RunStates
<1>5. ASSUME NEW s \in Subscribers, SubscriberStep(s) PROVE FeedTypes'
  <2> USE DEF Handle, HandlerStates, FeedTypes
  <2>1. CASE Lookup(s) \/ AddSubscriber(s) \/ Unsubscribe(s)
    BY <1>0, <2>1 DEF Lookup, AddSubscriber, Unsubscribe
  <2>2. CASE Subscribed(s)
    BY <1>0, <2>2 DEF Subscribed
  <2>3. CASE ReadHistory(s)
    <3>1. ASSUME NEW e \in SinceJob PROVE e \in Nat
      <4>1. CASE e \in log
        BY <1>0, <4>1
      <4>2. ASSUME NEW t \in Subscribers, e \in live[t] PROVE e \in Nat
        BY <1>0, <4>2
      <4> QED BY <4>1, <4>2 DEF SinceJob
    <3> QED BY <1>0, <2>3, <3>1 DEF ReadHistory
  <2> QED BY <1>5, <2>1, <2>2, <2>3 DEF SubscriberStep
<1>6. CASE UNCHANGED feedVars
  BY <1>0, <1>6 DEF feedVars, FeedTypes
<1> QED BY <1>2, <1>3, <1>4, <1>5, <1>6 DEF FeedNext

(* An emission goes through its steps in order.                            *)
LEMMA EmitInvStep ==
  ASSUME FeedTypes, EmitInv, [FeedNext]_feedVars
  PROVE  EmitInv'
<1>0. /\ seq \in Nat /\ subs \subseteq Subscribers
      /\ emit \in [Emitters -> [at : Steps, ev : Nat, rest : SUBSET Subscribers]]
  BY DEF FeedTypes
<1> USE DEF EmitInv, jobVars, subVars
<1>1. ASSUME NEW g \in Emitters, Alloc(g) PROVE EmitInv'
  BY <1>0, <1>1, AllocEmit, SMTT(30) DEF Alloc
<1>2. ASSUME NEW g \in Emitters, Send(g) \/ EmitStep(g) PROVE EmitInv'
  <2>1. CASE Send(g)
    <3>1. /\ emit'[g] = [at |-> "fanout", ev |-> emit[g].ev, rest |-> emit[g].rest]
          /\ \A h \in Emitters : h # g => emit'[h] = emit[h]
          /\ emit[g].at = "send" /\ seq' = seq
      BY <2>1, StepEmit DEF Send, At
    <3> QED BY <1>0, <3>1, SMTT(30)
  <2>2. CASE FanoutEvent(g)
    <3>1. /\ emit'[g] = [at |-> "publish", ev |-> emit[g].ev, rest |-> subs]
          /\ \A h \in Emitters : h # g => emit'[h] = emit[h]
          /\ seq' = seq
      BY <2>2, StepEmit DEF FanoutEvent
    <3> QED BY <1>0, <3>1, SMTT(30)
  <2>3. ASSUME NEW s \in Subscribers, Publish(g, s) PROVE EmitInv'
    <3>1. /\ emit'[g] = [at |-> "publish", ev |-> emit[g].ev, rest |-> emit[g].rest \ {s}]
          /\ \A h \in Emitters : h # g => emit'[h] = emit[h]
          /\ seq' = seq
      BY <2>3, StepEmit DEF Publish
    <3>2. \A h \in Emitters : emit'[h].ev <= seq
      BY <1>0, <3>1, SMTT(30)
    <3>3. \A h \in Emitters : emit'[h].at = "idle" => emit'[h].ev = 0
      BY <1>0, <3>1, SMTT(30)
    <3> QED BY <1>0, <3>1, <3>2, <3>3, SMTT(30)
  <2>4. CASE Emitted(g)
    <3>1. /\ emit'[g] = [at |-> "idle", ev |-> 0, rest |-> {}]
          /\ \A h \in Emitters : h # g => emit'[h] = emit[h]
          /\ seq' = seq
      BY <2>4, StepEmit DEF Emitted
    <3> QED BY <1>0, <3>1, SMTT(30)
  <2>5. CASE EmitTerminal(g)
    BY <1>1, <2>5 DEF EmitTerminal
  <2> QED BY <1>2, <2>1, <2>2, <2>3, <2>4, <2>5 DEF EmitStep
<1>3. ASSUME NEW g \in {"run"} \cup Helpers, EmitEvent(g) PROVE EmitInv'
  BY <1>1, <1>3 DEF EmitEvent, Emitters
<1>4. CASE JobStep
  BY <1>4 DEF JobStep, Start, AgentReturns, TimerFires, Unregister
<1>5. ASSUME NEW s \in Subscribers, SubscriberStep(s) PROVE EmitInv'
  BY <1>5 DEF SubscriberStep, Lookup, AddSubscriber, Subscribed, ReadHistory, Unsubscribe
<1>6. CASE UNCHANGED feedVars
  BY <1>6 DEF feedVars
<1> QED BY <1>2, <1>3, <1>4, <1>5, <1>6 DEF FeedNext

(* The subscriber table holds who has subscribed, as long as the job is    *)
(* registered.                                                             *)
LEMMA TableInvStep ==
  ASSUME FeedTypes, TableInv, [FeedNext]_feedVars
  PROVE  TableInv'
<1>0. /\ run \in RunStates /\ subs \subseteq Subscribers
      /\ handler \in [Subscribers -> HandlerStates]
      /\ replayed \in [Subscribers -> SUBSET Nat]
  BY DEF FeedTypes
<1> USE DEF TableInv, Registered, jobVars, subVars
<1>1. ASSUME NEW g \in Emitters, Send(g) \/ EmitStep(g) PROVE TableInv'
  BY <1>1 DEF EmitStep, Send, FanoutEvent, Publish, Emitted, EmitTerminal, Alloc
<1>2. ASSUME NEW g \in {"run"} \cup Helpers, EmitEvent(g) PROVE TableInv'
  BY <1>2 DEF EmitEvent, Alloc
<1>3. CASE JobStep
  BY <1>3 DEF JobStep, Start, AgentReturns, TimerFires, Unregister
<1>4. ASSUME NEW s \in Subscribers, SubscriberStep(s) PROVE TableInv'
  BY <1>0, <1>4, SMTT(30) DEF SubscriberStep, Lookup, AddSubscriber, Subscribed, ReadHistory,
     Unsubscribe, Handle, HandlerStates
<1>5. CASE UNCHANGED feedVars
  BY <1>5 DEF feedVars
<1> QED BY <1>1, <1>2, <1>3, <1>4, <1>5 DEF FeedNext

(* Who ends the job sends its terminal envelope.                           *)
LEMMA JobInvStep ==
  ASSUME FeedTypes, EmitInv, JobInv, [FeedNext]_feedVars
  PROVE  JobInv'
<1>0. /\ seq \in Nat /\ final \in Nat /\ run \in RunStates
      /\ emit \in [Emitters -> [at : Steps, ev : Nat, rest : SUBSET Subscribers]]
      /\ timer \in {"armed", "end", "off"} /\ terminal \in {"none", "run", "timer"}
      /\ "run" \in Emitters /\ "timer" \in Emitters
  BY DEF FeedTypes, Emitters
<1>e. emit["run"].ev \in Nat /\ emit["run"].at \in Steps
  BY <1>0
<1> USE DEF JobInv, jobVars, subVars, RunStates
<1>1. ASSUME NEW g \in Emitters, Send(g) \/ EmitStep(g) PROVE JobInv'
  <2>1. CASE Send(g) \/ FanoutEvent(g) \/ (\E s \in Subscribers : Publish(g, s))
    <3>1. /\ seq' = seq /\ run' = run /\ timer' = timer /\ terminal' = terminal
          /\ final' = final /\ emit[g].at # "idle"
      BY <2>1 DEF Send, FanoutEvent, Publish, At
    <3>2. emit'[g].at # "idle" /\ emit'[g].ev = emit[g].ev
      <4>1. CASE Send(g)
        <5>1. emit'[g] = [at |-> "fanout", ev |-> emit[g].ev, rest |-> emit[g].rest]
          BY <4>1, StepEmit
        <5> QED BY <5>1, SMTT(30)
      <4>2. CASE FanoutEvent(g)
        <5>1. emit'[g] = [at |-> "publish", ev |-> emit[g].ev, rest |-> subs]
          BY <4>2, StepEmit
        <5> QED BY <5>1, SMTT(30)
      <4>3. ASSUME NEW s \in Subscribers, Publish(g, s)
            PROVE  emit'[g].at # "idle" /\ emit'[g].ev = emit[g].ev
        <5>1. emit'[g] = [at |-> "publish", ev |-> emit[g].ev, rest |-> emit[g].rest \ {s}]
          BY <4>3, StepEmit
        <5> QED BY <5>1, SMTT(30)
      <4> QED BY <2>1, <4>1, <4>2, <4>3
    <3>3. emit'["run"] = emit["run"] \/ g = "run"
      BY <2>1, <1>0, StepEmit
    <3> QED BY <1>0, <1>e, <3>1, <3>2, <3>3
  <2>2. CASE Emitted(g)
    <3>1. /\ emit'[g] = [at |-> "idle", ev |-> 0, rest |-> {}]
          /\ g # "run" => emit'["run"] = emit["run"]
      BY <1>0, <2>2, StepEmit
    <3>2. /\ seq' = seq /\ terminal' = terminal /\ final' = final /\ emit[g].at = "publish"
          /\ run' = IF g = "run" /\ run = "end" THEN "leave" ELSE run
          /\ timer' = IF g = "timer" THEN "off" ELSE timer
      BY <2>2 DEF Emitted, At
    <3>3. CASE g = "run"
      BY <1>0, <1>e, <3>1, <3>2, <3>3, SMTT(30)
    <3>4. CASE g # "run"
      BY <1>0, <1>e, <3>1, <3>2, <3>4
    <3> QED BY <3>3, <3>4
  <2>3. CASE EmitTerminal(g)
    <3>1. /\ Alloc(g) /\ final' = seq' /\ run' = run /\ timer' = timer
          /\ terminal' = terminal /\ seq' = seq + 1
          /\ (g = "run" /\ run = "end") \/ (g = "timer" /\ timer = "end")
      BY <2>3 DEF EmitTerminal, Alloc
    <3>2. /\ emit'[g] = [at |-> "send", ev |-> seq + 1, rest |-> {}] /\ emit[g].at = "idle"
          /\ g # "run" => emit'["run"] = emit["run"]
      BY <1>0, <3>1, AllocEmit
    <3>3. CASE g = "run"
      BY <1>0, <1>e, <3>1, <3>2, <3>3, SMTT(30)
    <3>4. CASE g # "run"
      BY <1>0, <1>e, <3>1, <3>2, <3>4, SMTT(30)
    <3> QED BY <3>3, <3>4
  <2> QED BY <1>1, <2>1, <2>2, <2>3 DEF EmitStep
<1>2. ASSUME NEW g \in {"run"} \cup Helpers, EmitEvent(g) PROVE JobInv'
  <2>1. /\ Alloc(g) /\ run' = run /\ timer' = timer /\ terminal' = terminal
        /\ final' = final /\ seq' = seq + 1 /\ (g = "run" => run = "body")
    BY <1>2 DEF EmitEvent, Alloc, MayEmit
  <2>2. g # "run" => emit'["run"] = emit["run"]
    BY <1>0, <2>1, AllocEmit, SMTT(30) DEF Emitters
  <2> QED BY <1>0, <1>e, <2>1, <2>2, SMTT(30)
<1>3. CASE JobStep
  BY <1>0, <1>e, <1>3 DEF JobStep, Start, AgentReturns, TimerFires, Unregister, At
<1>4. ASSUME NEW s \in Subscribers, SubscriberStep(s) PROVE JobInv'
  BY <1>4 DEF SubscriberStep, Lookup, AddSubscriber, Subscribed, ReadHistory, Unsubscribe
<1>5. CASE UNCHANGED feedVars
  BY <1>5 DEF feedVars
<1> QED BY <1>1, <1>2, <1>3, <1>4, <1>5 DEF FeedNext

(* Once run's fan-out of the terminal envelope has looked at the table, no *)
(* subscriber is left out.                                                 *)
LEMMA FinalInvStep ==
  ASSUME FeedTypes, EmitInv, TableInv, JobInv, FinalInv, [FeedNext]_feedVars
  PROVE  FinalInv'
<1> DEFINE Listed == run # "end" \/ emit["run"].at = "publish"
           Ends(s) == \/ told[s] = TRUE \/ final \in live[s] \cup replayed[s]
                      \/ run = "end" /\ s \in emit["run"].rest
<1> SUFFICES ASSUME terminal' = "run", final' # 0, Listed',
                    NEW s \in Subscribers, handler'[s] \in {"read", "on"}
             PROVE  Ends(s)'
  BY DEF FinalInv
<1>0. /\ final \in Nat /\ run \in RunStates /\ subs \subseteq Subscribers
      /\ emit \in [Emitters -> [at : Steps, ev : Nat, rest : SUBSET Subscribers]]
      /\ handler \in [Subscribers -> HandlerStates]
      /\ live \in [Subscribers -> SUBSET Nat] /\ replayed \in [Subscribers -> SUBSET Nat]
      /\ "run" \in Emitters
  BY DEF FeedTypes, Emitters
<1>1. terminal = "run" /\ final # 0 /\ Listed /\ handler[s] \in {"read", "on"} => Ends(s)
  BY DEF FinalInv
<1>2. terminal = "run" => run \in {"end", "leave", "gone"}
  BY DEF JobInv
<1>3. (terminal = "run" /\ emit["run"].at # "idle") => run = "end"
  BY <1>2 DEF JobInv
<1> USE DEF jobVars, subVars
<1>4. ASSUME NEW g \in Emitters, Send(g) \/ EmitStep(g) PROVE Ends(s)'
  <2>1. CASE Send(g)
    <3>1. /\ terminal = "run" /\ final' = final /\ run' = run /\ told' = told /\ live' = live
          /\ replayed' = replayed /\ handler' = handler /\ emit[g].at = "send"
      BY <2>1 DEF Send, At
    <3>2. emit'[g] = [at |-> "fanout", ev |-> emit[g].ev, rest |-> emit[g].rest]
      BY <2>1, StepEmit
    <3>3. g # "run"
      BY <1>3, <3>1, <3>2, SMTT(30)
    <3>4. emit'["run"] = emit["run"]
      BY <1>0, <2>1, <3>3, StepEmit
    <3> QED BY <1>1, <3>1, <3>4
  <2>2. CASE FanoutEvent(g)
    <3>1. /\ terminal = "run" /\ final' = final /\ run' = run /\ told' = told /\ live' = live
          /\ replayed' = replayed /\ handler' = handler /\ emit[g].at = "fanout"
      BY <2>2 DEF FanoutEvent, At
    <3>2. CASE g = "run"
      <4>0. emit'[g] = [at |-> "publish", ev |-> emit[g].ev, rest |-> subs]
        BY <2>2, StepEmit
      <4>1. emit'[g].rest = subs
        BY <4>0, SMTT(30)
      <4>2. run = "end"
        BY <1>3, <3>1, <3>2
      <4>3. s \in subs
        BY <3>1, <4>2 DEF TableInv, Registered
      <4> QED BY <3>1, <3>2, <4>1, <4>2, <4>3
    <3>3. CASE g # "run"
      <4>1. emit'["run"] = emit["run"]
        BY <1>0, <2>2, <3>3, StepEmit
      <4> QED BY <1>1, <3>1, <4>1
    <3> QED BY <3>2, <3>3
  <2>3. ASSUME NEW t \in Subscribers, Publish(g, t) PROVE Ends(s)'
    <3>1. /\ terminal = "run" /\ final' = final /\ run' = run /\ told' = told
          /\ replayed' = replayed /\ handler' = handler /\ emit[g].at = "publish"
          /\ live' = [live EXCEPT ![t] = IF handler[t] = "off" THEN @ ELSE @ \cup {emit[g].ev}]
      BY <2>3 DEF Publish, At
    <3>2. live[s] \subseteq live'[s]
      BY <1>0, <3>1
    <3>3. emit'[g] = [at |-> "publish", ev |-> emit[g].ev, rest |-> emit[g].rest \ {t}]
      BY <2>3, StepEmit
    <3>4. CASE g = "run"
      <4>1. run = "end" /\ emit["run"].ev = final
        BY <1>3, <3>1, <3>4 DEF JobInv
      <4>2. s = t => final \in live'[s]
        BY <1>0, <3>1, <3>4, <4>1
      <4>3. Ends(s)
        BY <1>1, <3>1, <3>4
      <4> QED BY <3>1, <3>2, <3>3, <3>4, <4>2, <4>3, SMTT(30)
    <3>5. CASE g # "run"
      <4>0. "run" \in Emitters
        BY DEF Emitters
      <4>1. emit'["run"] = emit["run"]
        BY <2>3, <3>5, <4>0, StepEmit
      <4> QED BY <1>1, <3>1, <3>2, <4>1
    <3> QED BY <3>4, <3>5
  <2>4. CASE Emitted(g)
    <3>1. /\ terminal = "run" /\ final' = final /\ told' = told /\ live' = live
          /\ replayed' = replayed /\ handler' = handler
          /\ emit[g].at = "publish" /\ emit[g].rest = {}
          /\ run' = IF g = "run" /\ run = "end" THEN "leave" ELSE run
      BY <2>4 DEF Emitted, At
    <3>2. CASE g = "run"
      <4>1. Ends(s)
        BY <1>1, <3>1, <3>2
      <4> QED BY <3>1, <3>2, <4>1
    <3>3. CASE g # "run"
      <4>1. emit'["run"] = emit["run"]
        BY <1>0, <2>4, <3>3, StepEmit
      <4> QED BY <1>1, <3>1, <3>3, <4>1
    <3> QED BY <3>2, <3>3
  <2>5. CASE EmitTerminal(g)
    <3>1. Alloc(g) /\ terminal = "run" /\ run' = run
      BY <2>5 DEF EmitTerminal
    <3>2. g = "run" /\ run = "end"
      BY <2>5, <3>1 DEF EmitTerminal, JobInv
    <3>3. emit'["run"] = [at |-> "send", ev |-> seq + 1, rest |-> {}]
      BY <3>1, <3>2, AllocEmit
    <3> QED BY <3>1, <3>2, <3>3, SMTT(30)
  <2> QED BY <1>4, <2>1, <2>2, <2>3, <2>4, <2>5 DEF EmitStep
<1>5. ASSUME NEW g \in {"run"} \cup Helpers, EmitEvent(g) PROVE Ends(s)'
  <2>1. /\ terminal = "run" /\ final' = final /\ run' = run /\ told' = told /\ live' = live
        /\ replayed' = replayed /\ handler' = handler /\ Alloc(g)
    BY <1>5 DEF EmitEvent, Alloc
  <2>2. g # "run"
    BY <1>2, <1>5, <2>1 DEF EmitEvent, MayEmit
  <2>3. emit'["run"] = emit["run"]
    <3>1. g \in Emitters
      BY DEF Emitters
    <3> QED BY <1>0, <2>1, <2>2, <3>1, AllocEmit, SMTT(30)
  <2> QED BY <1>1, <2>1, <2>3
<1>6. CASE JobStep
  <2>1. /\ final' = final /\ told' = told /\ live' = live /\ emit' = emit
        /\ replayed' = replayed /\ handler' = handler
    BY <1>6 DEF JobStep, Start, AgentReturns, TimerFires, Unregister
  <2>2. terminal = "run"
    BY <1>6, <2>1 DEF JobStep, Start, AgentReturns, TimerFires, Unregister, JobInv
  <2>3. run' = run \/ (run = "leave" /\ run' = "gone")
    BY <1>2, <1>6, <2>2 DEF JobStep, Start, AgentReturns, TimerFires, Unregister
  <2> QED BY <1>1, <2>1, <2>2, <2>3
<1>7. ASSUME NEW t \in Subscribers, SubscriberStep(t) PROVE Ends(s)'
  <2>1. /\ terminal = "run" /\ final' = final /\ run' = run /\ emit' = emit /\ live' = live
    BY <1>7 DEF SubscriberStep, Lookup, AddSubscriber, Subscribed, ReadHistory, Unsubscribe
  <2>2. CASE Subscribed(t) /\ t = s
    <3>1. told'[s] = (terminal # "none")
      BY <2>2 DEF Subscribed, FeedTypes
    <3>2. terminal # "none"
      BY <2>1
    <3>3. told'[s] = TRUE
      BY <3>1, <3>2
    <3> QED BY <3>3
  <2>3. CASE ~(Subscribed(t) /\ t = s)
    <3>1. handler[s] \in {"read", "on"}
      BY <1>0, <1>7, <2>3 DEF SubscriberStep, Lookup, AddSubscriber, Subscribed, ReadHistory,
         Unsubscribe, Handle
    <3>2. told'[s] = told[s]
      <4>1. CASE Subscribed(t)
        BY <2>3, <4>1 DEF Subscribed, FeedTypes
      <4>2. CASE ~Subscribed(t)
        BY <1>7, <4>2 DEF SubscriberStep, Lookup, AddSubscriber, ReadHistory, Unsubscribe
      <4> QED BY <4>1, <4>2
    <3>3. replayed[s] \subseteq replayed'[s]
      <4>1. CASE ReadHistory(t) /\ t = s
        <5>1. replayed[s] = {}
          BY <4>1 DEF ReadHistory, Handle, TableInv
        <5> QED BY <5>1
      <4>2. CASE ~(ReadHistory(t) /\ t = s)
        BY <1>0, <1>7, <4>2 DEF SubscriberStep, Lookup, AddSubscriber, Subscribed, ReadHistory,
           Unsubscribe
      <4> QED BY <4>1, <4>2
    <3> QED BY <1>1, <2>1, <3>1, <3>2, <3>3
  <2> QED BY <2>2, <2>3
<1>8. CASE UNCHANGED feedVars
  BY <1>1, <1>8 DEF feedVars
<1> QED BY <1>4, <1>5, <1>6, <1>7, <1>8 DEF FeedNext

(* Who is in Coming(s).                                                    *)
LEMMA ComingMember ==
  ASSUME NEW s, NEW e
  PROVE  e \in Coming(s) <=>
           \E g \in Emitters : /\ e = emit[g].ev
                               /\ s \in emit[g].rest \/ (emit[g].at = "fanout" /\ s \in subs)
BY DEF Coming, At

(* No step opens a gap between the history read and the live stream.       *)
LEMMA HistoryStep ==
  ASSUME FeedTypes, EmitInv, TableInv, HistoryComplete, [FeedNext]_feedVars
  PROVE  HistoryComplete'
<1> DEFINE Way(s, e, g) == /\ e = emit[g].ev
                           /\ s \in emit[g].rest \/ (emit[g].at = "fanout" /\ s \in subs)
           Has(s, e) == \/ e \in live[s] \cup replayed[s]
                        \/ \E g \in Emitters : Way(s, e, g)
<1>0. /\ log \subseteq Nat /\ subs \subseteq Subscribers /\ History \subseteq Subscribers
      /\ emit \in [Emitters -> [at : Steps, ev : Nat, rest : SUBSET Subscribers]]
      /\ handler \in [Subscribers -> HandlerStates]
      /\ live \in [Subscribers -> SUBSET Nat] /\ replayed \in [Subscribers -> SUBSET Nat]
  BY FeedAssumption DEF FeedTypes
<1>a. ASSUME NEW s \in History, handler[s] = "on", s \in subs, NEW e \in log
      PROVE  Has(s, e)
  BY <1>a, ComingMember, SMTT(30) DEF HistoryComplete, Got
<1>b. SUFFICES ASSUME NEW s \in History, handler'[s] = "on", s \in subs', NEW e \in log'
               PROVE  Has(s, e)'
  <2>1. \A s, e : e \in Coming(s)' <=> \E g \in Emitters : Way(s, e, g)'
    BY DEF Coming, At
  <2> QED BY <1>b, <2>1 DEF HistoryComplete, Got
<1> USE DEF jobVars, subVars
<1>1. ASSUME NEW g \in Emitters, Alloc(g) PROVE Has(s, e)'
  <2>1. /\ live' = live /\ replayed' = replayed /\ subs' = subs /\ handler' = handler
        /\ log' = log
    BY <1>1 DEF Alloc
  <2>2. ASSUME NEW h \in Emitters, Way(s, e, h) PROVE Way(s, e, h)'
    <3>1. h # g
      BY <1>1, <2>2 DEF Alloc, At, EmitInv
    <3>2. emit'[h] = emit[h]
      BY <1>1, <3>1, AllocEmit
    <3> QED BY <2>1, <2>2, <3>2
  <2>3. Has(s, e)
    BY <1>a, <1>b, <2>1
  <2> QED BY <2>1, <2>2, <2>3
<1>2. ASSUME NEW g \in Emitters, Send(g) \/ EmitStep(g) PROVE Has(s, e)'
  <2>1. CASE Send(g)
    <3>1. /\ live' = live /\ replayed' = replayed /\ subs' = subs /\ handler' = handler
          /\ log' \subseteq log \cup {emit[g].ev} /\ emit[g].at = "send"
      BY <2>1, AppendedOnly DEF Send, At
    <3>2. emit'[g] = [at |-> "fanout", ev |-> emit[g].ev, rest |-> emit[g].rest]
      BY <2>1, StepEmit
    <3>3. CASE e = emit[g].ev
      <4>1. Way(s, e, g)'
        BY <1>b, <3>1, <3>2, <3>3, SMTT(30)
      <4> QED BY <4>1
    <3>4. CASE e # emit[g].ev
      <4>1. Has(s, e)
        BY <1>a, <1>b, <3>1, <3>4
      <4>2. ASSUME NEW h \in Emitters, Way(s, e, h) PROVE Way(s, e, h)'
        <5>1. emit'[h] = emit[h]
          BY <2>1, <3>4, <4>2, StepEmit
        <5> QED BY <3>1, <4>2, <5>1
      <4> QED BY <3>1, <4>1, <4>2
    <3> QED BY <3>3, <3>4
  <2>2. CASE FanoutEvent(g)
    <3>1. /\ live' = live /\ replayed' = replayed /\ subs' = subs /\ handler' = handler
          /\ log' = log
      BY <2>2 DEF FanoutEvent
    <3>2. emit'[g] = [at |-> "publish", ev |-> emit[g].ev, rest |-> subs]
      BY <2>2, StepEmit
    <3>3. ASSUME NEW h \in Emitters, Way(s, e, h) PROVE Way(s, e, h)'
      <4>1. CASE h = g
        BY <1>b, <3>1, <3>2, <3>3, <4>1, SMTT(30)
      <4>2. CASE h # g
        <5>1. emit'[h] = emit[h]
          BY <2>2, <4>2, StepEmit
        <5> QED BY <3>1, <3>3, <5>1
      <4> QED BY <4>1, <4>2
    <3>4. Has(s, e)
      BY <1>a, <1>b, <3>1
    <3> QED BY <3>1, <3>3, <3>4
  <2>3. ASSUME NEW t \in Subscribers, Publish(g, t) PROVE Has(s, e)'
    <3>1. /\ replayed' = replayed /\ subs' = subs /\ handler' = handler /\ log' = log
          /\ live' = [live EXCEPT ![t] = IF handler[t] = "off" THEN @ ELSE @ \cup {emit[g].ev}]
          /\ emit[g].at = "publish"
      BY <2>3 DEF Publish, At
    <3>2. emit'[g] = [at |-> "publish", ev |-> emit[g].ev, rest |-> emit[g].rest \ {t}]
      BY <2>3, StepEmit
    <3>3. live[s] \subseteq live'[s]
      BY <1>0, <3>1
    <3>4. ASSUME NEW h \in Emitters, Way(s, e, h) PROVE Has(s, e)'
      <4>1. CASE h = g /\ s = t
        <5>1. e \in live'[s]
          BY <1>0, <1>b, <3>1, <3>4, <4>1
        <5> QED BY <5>1
      <4>2. CASE h = g /\ s # t
        <5>1. Way(s, e, h)'
          BY <3>1, <3>2, <3>4, <4>2, SMTT(30)
        <5> QED BY <5>1
      <4>3. CASE h # g
        <5>1. emit'[h] = emit[h]
          BY <2>3, <4>3, StepEmit
        <5>2. Way(s, e, h)'
          BY <3>1, <3>4, <5>1
        <5> QED BY <5>2
      <4> QED BY <4>1, <4>2, <4>3
    <3>5. Has(s, e)
      BY <1>a, <1>b, <3>1
    <3> QED BY <3>1, <3>3, <3>4, <3>5
  <2>4. CASE Emitted(g)
    <3>1. /\ live' = live /\ replayed' = replayed /\ subs' = subs /\ handler' = handler
          /\ log' = log /\ emit[g].at = "publish" /\ emit[g].rest = {}
      BY <2>4 DEF Emitted, At
    <3>2. ASSUME NEW h \in Emitters, Way(s, e, h) PROVE Way(s, e, h)'
      <4>1. emit'[h] = emit[h]
        BY <2>4, <3>1, <3>2, StepEmit
      <4> QED BY <3>1, <3>2, <4>1
    <3>3. Has(s, e)
      BY <1>a, <1>b, <3>1
    <3> QED BY <3>1, <3>2, <3>3
  <2>5. CASE EmitTerminal(g)
    BY <1>1, <2>5 DEF EmitTerminal
  <2> QED BY <1>2, <2>1, <2>2, <2>3, <2>4, <2>5 DEF EmitStep
<1>3. ASSUME NEW g \in {"run"} \cup Helpers, EmitEvent(g) PROVE Has(s, e)'
  BY <1>1, <1>3 DEF EmitEvent, Emitters
<1>4. CASE JobStep
  <2>1. /\ live' = live /\ replayed' = replayed /\ handler' = handler /\ emit' = emit
        /\ log' = log /\ (subs' = subs \/ subs' = {})
    BY <1>4 DEF JobStep, Start, AgentReturns, TimerFires, Unregister
  <2>2. subs' = subs
    BY <1>b, <2>1
  <2>3. Has(s, e)
    BY <1>a, <1>b, <2>1, <2>2
  <2> QED BY <2>1, <2>2, <2>3
<1>5. ASSUME NEW t \in Subscribers, SubscriberStep(t) PROVE Has(s, e)'
  <2>1. /\ live' = live /\ emit' = emit /\ log' = log
    BY <1>5 DEF SubscriberStep, Lookup, AddSubscriber, Subscribed, ReadHistory, Unsubscribe
  <2>2. CASE ReadHistory(t) /\ t = s
    <3>1. replayed'[s] = SinceJob
      BY <1>0, <2>2 DEF ReadHistory
    <3> QED BY <2>1, <3>1 DEF SinceJob
  <2>3. CASE ~(ReadHistory(t) /\ t = s)
    <3>1. handler[s] = "on" /\ s \in subs /\ replayed'[s] = replayed[s]
      BY <1>0, <1>b, <1>5, <2>3 DEF SubscriberStep, Lookup, AddSubscriber, Subscribed,
         ReadHistory, Unsubscribe, Handle, HandlerStates
    <3>2. Has(s, e)
      BY <1>a, <1>b, <2>1, <3>1
    <3>3. ASSUME NEW h \in Emitters, Way(s, e, h) PROVE Way(s, e, h)'
      BY <1>b, <2>1, <3>3
    <3> QED BY <2>1, <3>1, <3>2, <3>3
  <2> QED BY <2>2, <2>3
<1>6. CASE UNCHANGED feedVars
  <2>1. Has(s, e)
    BY <1>a, <1>b, <1>6 DEF feedVars
  <2> QED BY <1>6, <2>1 DEF feedVars
<1> QED BY <1>2, <1>3, <1>4, <1>5, <1>6 DEF FeedNext

(* The invariant of the feed, for any number of subscribers, of goroutines *)
(* of the agent and of events.                                             *)
THEOREM Feed == FeedSpec => []FeedInv
<1>1. FeedInit => FeedInv
  BY InitFeed
<1>2. FeedInv /\ [FeedNext]_feedVars => FeedInv'
  BY FeedTypeStep, EmitInvStep, TableInvStep, JobInvStep, FinalInvStep, HistoryStep DEF FeedInv
<1> QED BY <1>1, <1>2, PTL DEF FeedSpec

(* addSubscriber before SinceJob and persistOutbound before fanoutEvent:   *)
(* a subscriber that asked for the history misses no event of the job.     *)
THEOREM NothingFallsBetween == FeedSpec => []HistoryComplete
<1>1. FeedInv => HistoryComplete
  BY DEF FeedInv
<1> QED BY <1>1, Feed, PTL

(* When run ends the job, every subscriber learns the end: the deferred    *)
(* unregisterJob waits for emitTerminal's fan-out.                         *)
THEOREM EndReachesAll == FeedSpec => []EndLearned
<1>1. FeedInv => EndLearned
  <2> SUFFICES ASSUME FeedInv, terminal = "run", TerminalSent,
                      NEW s \in Subscribers, handler[s] \in {"read", "on"}
               PROVE  LearnsEnd(s)
    BY DEF EndLearned
  <2>1. final # 0 /\ emit["run"].ev # final
    BY DEF TerminalSent, Emitters
  <2>2. run # "end"
    BY <2>1 DEF FeedInv, JobInv
  <2>3. told[s] = TRUE \/ final \in live[s] \cup replayed[s]
    BY <2>1, <2>2 DEF FeedInv, FinalInv
  <2>4. told[s] = TRUE => told[s]
    OBVIOUS
  <2>5. CASE told[s]
    BY <2>5 DEF LearnsEnd
  <2>6. CASE final \in live[s] \cup replayed[s]
    BY <2>6 DEF LearnsEnd, Got
  <2> QED BY <2>3, <2>4, <2>5, <2>6
<1> QED BY <1>1, Feed, PTL
===============================================================================
