----------------------------- MODULE Subscriptions -----------------------------
(***************************************************************************)
(* How the events of one job reach the sessions that watch it: emitEvent   *)
(* (server/jobcontext.go), emitTerminal, run and the timers                *)
(* (server/job.go), fanoutEvent and the subscriber table                   *)
(* (server/server.go), publish (server/subscription.go) and the            *)
(* job.subscribe and job.unsubscribe handlers (server/session.go).  An     *)
(* event is named by its event_seq in the submitter's session.  Each       *)
(* subscriber is a session that subscribes once, from event_seq 0; its     *)
(* outbox and connection are the subject of OutboxPipe and Connection.     *)
(***************************************************************************)
EXTENDS Naturals, FiniteSets

CONSTANTS Subscribers, \* sessions of the same principal that may subscribe
          History,     \* those that ask for the job's history
          Helpers,     \* goroutines the agent starts and need not wait for
          EventLogSize,\* Options.EventLogSize, the entries a log retains
          MaxEvents    \* bound: job.event envelopes the agent emits

ASSUME FeedAssumption ==
  /\ History \subseteq Subscribers /\ MaxEvents \in Nat /\ EventLogSize \in Nat \ {0}
  /\ "run" \notin Helpers /\ "timer" \notin Helpers

Emitters == {"run", "timer"} \cup Helpers

VARIABLES
  seq,      \* the submitter's session: last event_seq allocated
  log,      \* the events persisted under the submitter's session and retained
  emit,     \* where each goroutine that emits is: its step, event and fan-out
  run,      \* where Job.run is
  timer,    \* where expireLease or timeout is
  terminal, \* who markTerminal let through, or "none"
  final,    \* event_seq of the terminal envelope, or 0
  subs,     \* Server.subs[job]
  handler,  \* where the subscribe and unsubscribe handlers of a session are
  live,     \* the events published to a session, and persisted under it
  replayed, \* the history replayed to a session
  told      \* whether job.subscribed named a terminal status

jobVars == <<run, timer, terminal, final>>
subVars == <<subs, handler, live, replayed, told>>
feedVars == <<seq, log, emit, jobVars, subVars>>

Idle == [at |-> "idle", ev |-> 0, rest |-> {}]

FeedInit ==
  /\ seq = 0 /\ log = {} /\ emit = [g \in Emitters |-> Idle]
  /\ run = "start" /\ timer = "armed" /\ terminal = "none" /\ final = 0
  /\ subs = {} /\ handler = [s \in Subscribers |-> "idle"]
  /\ live = [s \in Subscribers |-> {}] /\ replayed = [s \in Subscribers |-> {}]
  /\ told = [s \in Subscribers |-> FALSE]

-------------------------------------------------------------------------------
(* Emission: allocate the event_seq, persist and send to the submitter,    *)
(* snapshot the subscribers, publish to each in turn.                      *)

At(g, a) == emit[g].at = a

Alloc(g) ==
  /\ At(g, "idle")
  /\ seq' = seq + 1
  /\ emit' = [emit EXCEPT ![g] = [at |-> "send", ev |-> seq + 1, rest |-> {}]]
  /\ UNCHANGED <<log, subVars>>

\* What the log may hold after Append: a full one has dropped an entry, which is
\* the oldest to be appended and so not always the smallest event_seq.
Appended(e) ==
  IF Cardinality(log) < EventLogSize THEN {log \cup {e}}
  ELSE {(log \ {old}) \cup {e} : old \in log}

\* Mutant of Send: an emission whose send to the submitter failed ends there,
\* persisted but not fanned out.
SendOrReturn(g) ==
  /\ At(g, "send")
  /\ log' \in Appended(emit[g].ev)
  /\ \E at \in {"fanout", "publish"} : emit' = [emit EXCEPT ![g].at = at]
  /\ UNCHANGED <<seq, jobVars, subVars>>

Send(g) ==
  /\ At(g, "send")
  /\ log' \in Appended(emit[g].ev)
  /\ emit' = [emit EXCEPT ![g].at = "fanout"]
  /\ UNCHANGED <<seq, jobVars, subVars>>

FanoutEvent(g) ==
  /\ At(g, "fanout")
  /\ emit' = [emit EXCEPT ![g] = [@ EXCEPT !.at = "publish", !.rest = subs]]
  /\ UNCHANGED <<seq, log, jobVars, subVars>>

\* A subscription that was closed since the snapshot is skipped, any other gets
\* a copy of its own.
Publish(g, s) ==
  /\ At(g, "publish") /\ s \in emit[g].rest
  /\ live' = [live EXCEPT ![s] = IF handler[s] = "off" THEN @ ELSE @ \cup {emit[g].ev}]
  /\ emit' = [emit EXCEPT ![g].rest = @ \ {s}]
  /\ UNCHANGED <<seq, log, jobVars, subs, handler, replayed, told>>

Emitted(g) ==
  /\ At(g, "publish") /\ emit[g].rest = {}
  /\ emit' = [emit EXCEPT ![g] = Idle]
  /\ run' = IF g = "run" /\ run = "end" THEN "leave" ELSE run
  /\ timer' = IF g = "timer" THEN "off" ELSE timer
  /\ UNCHANGED <<seq, log, terminal, final, subVars>>

-------------------------------------------------------------------------------
(* The job: run, its agent's goroutines, and the expiry or runtime timer.  *)

Start ==
  /\ run = "start"
  /\ run' = IF terminal = "none" THEN "body" ELSE "bail"
  /\ UNCHANGED <<seq, log, emit, timer, terminal, final, subVars>>

\* A goroutine of the agent may emit before and after the agent returns.
MayEmit(g) ==
  /\ At(g, "idle")
  /\ IF g = "run" THEN run = "body" ELSE run \in {"body", "end", "leave", "gone"}

EmitEvent(g) ==
  /\ MayEmit(g) /\ seq < MaxEvents /\ Alloc(g)
  /\ UNCHANGED jobVars

AgentReturns ==
  /\ run = "body" /\ At("run", "idle")
  /\ IF terminal = "none" THEN run' = "end" /\ terminal' = "run"
     ELSE run' = "leave" /\ UNCHANGED terminal
  /\ UNCHANGED <<seq, log, emit, timer, final, subVars>>

TimerFires ==
  /\ timer = "armed"
  /\ IF terminal = "none" THEN timer' = "end" /\ terminal' = "timer"
     ELSE timer' = "off" /\ UNCHANGED terminal
  /\ UNCHANGED <<seq, log, emit, run, final, subVars>>

\* emitTerminal, by whoever won markTerminal and has revoked the credentials.
EmitTerminal(g) ==
  /\ (g = "run" /\ run = "end") \/ (g = "timer" /\ timer = "end")
  /\ Alloc(g) /\ final' = seq'
  /\ UNCHANGED <<run, timer, terminal>>

Registered == run \notin {"gone", "bailed"}

\* Mutant of Unregister: the job leaves the table before its terminal envelope
\* has been fanned out.
UnregisterEarly ==
  /\ run \in {"end", "leave", "bail"} /\ subs' = {}
  /\ run' = CASE run = "end" -> "end" [] run = "leave" -> "gone" [] OTHER -> "bailed"
  /\ UNCHANGED <<seq, log, emit, timer, terminal, final, handler, live, replayed, told>>

\* The deferred unregisterJob deletes the job and its subscriber list.
Unregister ==
  /\ run \in {"leave", "bail"} /\ subs' = {}
  /\ run' = IF run = "leave" THEN "gone" ELSE "bailed"
  /\ UNCHANGED <<seq, log, emit, timer, terminal, final, handler, live, replayed, told>>

-------------------------------------------------------------------------------
(* A subscriber's session.  Its reader runs one handler at a time.         *)

Handle(s, a, b) == handler[s] = a /\ handler' = [handler EXCEPT ![s] = b]

Lookup(s) ==
  /\ Handle(s, "idle", IF Registered THEN "found" ELSE "refused")
  /\ UNCHANGED <<seq, log, emit, jobVars, subs, live, replayed, told>>

AddSubscriber(s) ==
  /\ Handle(s, "found", "added")
  /\ subs' = subs \cup {s}
  /\ UNCHANGED <<seq, log, emit, jobVars, live, replayed, told>>

\* job.subscribed reports the job's status; then the reader is free, or reads
\* the history.
Subscribed(s) ==
  /\ Handle(s, "added", IF s \in History THEN "read" ELSE "on")
  /\ told' = [told EXCEPT ![s] = terminal # "none"]
  /\ UNCHANGED <<seq, log, emit, jobVars, subs, live, replayed>>

\* SinceJob looks through every session's log, so it meets the copies that
\* were published to subscribers too.
SinceJob == log \cup UNION {live[s] : s \in Subscribers}

ReadHistory(s) ==
  /\ Handle(s, "read", "on")
  /\ replayed' = [replayed EXCEPT ![s] = SinceJob]
  /\ UNCHANGED <<seq, log, emit, jobVars, subs, live, told>>

\* The subscription leaves the table and is closed.
Unsubscribe(s) ==
  /\ s \in subs /\ Handle(s, "on", "off")
  /\ subs' = subs \ {s}
  /\ UNCHANGED <<seq, log, emit, jobVars, live, replayed, told>>

-------------------------------------------------------------------------------
EmitStep(g) ==
  \/ EmitTerminal(g) \/ FanoutEvent(g) \/ (\E s \in Subscribers : Publish(g, s))
  \/ Emitted(g)

JobStep == Start \/ AgentReturns \/ TimerFires \/ Unregister

SubscriberStep(s) ==
  \/ Lookup(s) \/ AddSubscriber(s) \/ Subscribed(s) \/ ReadHistory(s) \/ Unsubscribe(s)

FeedNext ==
  \/ \E g \in Emitters : Send(g) \/ EmitStep(g)
  \/ \E g \in {"run"} \cup Helpers : EmitEvent(g)
  \/ JobStep
  \/ \E s \in Subscribers : SubscriberStep(s)

FeedSpec == FeedInit /\ [][FeedNext]_feedVars

-------------------------------------------------------------------------------
Got(s) == live[s] \cup replayed[s]

\* The live events whose fan-out has s still to serve, or has yet to look at
\* the table.
Coming(s) ==
  {emit[g].ev : g \in {g \in Emitters : s \in emit[g].rest \/ (At(g, "fanout") /\ s \in subs)}}

(* "subscriber observes the live event stream and (when History is true)   *)
(* any buffered history" (docs/guides/jobs.md): addSubscriber precedes     *)
(* SinceJob and persistOutbound precedes fanoutEvent, so once the history  *)
(* has been read no event that the log retains falls between the two,      *)
(* whatever emits meanwhile.                                               *)
HistoryComplete ==
  \A s \in History : (handler[s] = "on" /\ s \in subs)
    => log \subseteq Got(s) \cup Coming(s)

\* A session that is subscribed learns that the job is over: from its
\* job.subscribed, or because the terminal envelope is there or on its way.
LearnsEnd(s) == told[s] \/ final \in Got(s) \cup Coming(s)

TerminalSent == final # 0 /\ \A g \in Emitters : emit[g].ev # final

(* When run itself ends the job: unregisterJob is deferred past            *)
(* emitTerminal's fan-out, and the status a late subscriber is told was    *)
(* set before it, so no subscriber waits for an end it cannot see.         *)
EndLearned ==
  (terminal = "run" /\ TerminalSent)
    => \A s \in Subscribers : handler[s] \in {"read", "on"} => LearnsEnd(s)

(* The same of a session that has subscribed, whoever ends the job:        *)
(* "Terminal fanout must not be gated by the job's own context ... or      *)
(* subscribers could miss it (#82)" (job.go).                              *)
EndLearnedByAll ==
  TerminalSent => \A s \in Subscribers : handler[s] = "on" => LearnsEnd(s)

===============================================================================
