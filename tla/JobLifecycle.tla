----------------------------- MODULE JobLifecycle -----------------------------
(***************************************************************************)
(* The life of jobs, from job.submit to the end of their goroutines:       *)
(* handleJobSubmit with the idempotency store and the credential           *)
(* provisioner, the lease-expiry and max-runtime timers, job.run and       *)
(* job.cancel (server/session.go, server/job.go, internal/idstore).  Each  *)
(* submission is handled by the read loop of a session of its own, all of  *)
(* the same principal.                                                     *)
(***************************************************************************)
EXTENDS Naturals, Sequences, FiniteSets

CONSTANTS Jobs,        \* submissions; each builds a job
          Keys,        \* idempotency keys
          KeyOf(_),    \* the key of a submission, or NoKey
          Hashes,      \* parameter hashes
          HashOf(_),   \* submitParamsHash of a submission
          Leased,      \* the jobs with lease_constraints.expires_at
          Bounded,     \* the jobs with max_runtime_sec > 0
          Provisioned, \* the jobs that are issued credentials
          Outcomes,    \* what an agent may return
          Interrupted  \* the jobs whose client may disconnect or cancel

NoKey == "no key"
NoJob == "no job"
Timers == {"expiry", "runtime"}
Workers == Timers \cup {"run"}
Final == {"success", "error", "cancelled", "timed_out"}

ASSUME JobAssumption ==
  /\ \A j \in Jobs : KeyOf(j) \in Keys \cup {NoKey} /\ HashOf(j) \in Hashes
  /\ NoKey \notin Keys /\ NoJob \notin Jobs
  /\ Leased \subseteq Jobs /\ Bounded \subseteq Jobs /\ Provisioned \subseteq Jobs

ASSUME AgentAssumption ==
  /\ Outcomes \subseteq {"success", "unmarshalable", "error", "cancelled"}
  /\ Interrupted \subseteq Jobs

VARIABLES
  sub,       \* where handleJobSubmit of each submission is
  reply,     \* what it answered
  dropped,   \* whether the submitting session's ctx is cancelled
  store,     \* idStore: per key the entry's job, hash and cached reply
  swept,     \* history: keys whose entry the janitor has swept
  jobs,      \* Server.jobs
  pc,        \* where each job's timer callbacks and run goroutine are
  outcome,   \* what the agent returned
  status,    \* statusV
  terminal,  \* Job.terminal
  cancelled, \* whether the job's ctx is cancelled
  cred,      \* the job's credential: "none", "live" or "revoked"
  accepted,  \* whether job.accepted was sent for the job
  ended,     \* the final_status of every terminal envelope sent
  acking,    \* handleJobCancel has sent job.cancelled and not yet cancelled
  ran,       \* history: the agent was called
  closed     \* lifeCtx is cancelled

submitVars == <<sub, reply, dropped, store, swept>>
stateVars == <<outcome, status, terminal, cancelled, cred>>
wireVars == <<accepted, ended, acking>>
vars == <<submitVars, jobs, pc, stateVars, wireVars, ran, closed>>

NoEntry == [job |-> NoJob, hash |-> "", accepted |-> NoJob]

Init ==
  /\ sub = [j \in Jobs |-> "idle"] /\ reply = [j \in Jobs |-> "none"]
  /\ dropped = [j \in Jobs |-> FALSE]
  /\ store = [k \in Keys |-> NoEntry] /\ swept = {}
  /\ jobs = {} /\ pc = [j \in Jobs |-> [w \in Workers |-> "off"]]
  /\ outcome = [j \in Jobs |-> "success"] /\ status = [j \in Jobs |-> "pending"]
  /\ terminal = [j \in Jobs |-> FALSE] /\ cancelled = [j \in Jobs |-> FALSE]
  /\ cred = [j \in Jobs |-> "none"] /\ accepted = [j \in Jobs |-> FALSE]
  /\ ended = [j \in Jobs |-> <<>>] /\ acking = [j \in Jobs |-> FALSE]
  /\ ran = [j \in Jobs |-> FALSE]
  /\ closed = FALSE

-------------------------------------------------------------------------------
(* handleJobSubmit.                                                        *)

Handler(j, a, b) == sub[j] = a /\ sub' = [sub EXCEPT ![j] = b]
Answer(j, r) == reply' = [reply EXCEPT ![j] = r]

\* A submission that fails validation makes no job.
Reject(j) ==
  /\ Handler(j, "idle", "rejected") /\ Answer(j, "invalid")
  /\ UNCHANGED <<dropped, store, swept, jobs, pc, stateVars, wireVars, ran, closed>>

\* newJob arms the timers; its ctx is a child of lifeCtx.
NewJob(j) ==
  /\ Handler(j, "idle", "registered")
  /\ jobs' = jobs \cup {j}
  /\ pc' = [pc EXCEPT ![j]["expiry"] = IF j \in Leased THEN "armed" ELSE "off",
                      ![j]["runtime"] = IF j \in Bounded THEN "armed" ELSE "off"]
  /\ cancelled' = [cancelled EXCEPT ![j] = closed]
  /\ UNCHANGED <<reply, dropped, store, swept, outcome, status, terminal, cred,
                 wireVars, ran, closed>>

\* Mutant of PutIfAbsent: an entry whose reply is not cached yet counts as
\* absent.
PutIfUncached(j) ==
  LET k == KeyOf(j)
      absent == k # NoKey /\ ~dropped[j] /\ store[k].accepted = NoJob
  IN  /\ IF k = NoKey \/ absent
           THEN Handler(j, "registered", "keyed") /\ UNCHANGED reply
           ELSE Handler(j, "registered", "rejecting") /\ Answer(j, "replayed")
      /\ store' = IF absent THEN [store EXCEPT ![k] = [job |-> j, hash |-> HashOf(j),
                                                      accepted |-> NoJob]]
                            ELSE store
      /\ UNCHANGED <<dropped, swept, jobs, pc, stateVars, wireVars, ran, closed>>

\* PutIfAbsent, and what handleJobSubmit answers when it does not insert.
PutIfAbsent(j) ==
  LET k == KeyOf(j)
  IN  /\ IF k = NoKey \/ (~dropped[j] /\ store[k] = NoEntry)
           THEN Handler(j, "registered", "keyed") /\ UNCHANGED reply
           ELSE /\ Handler(j, "registered", "rejecting")
                /\ Answer(j, CASE dropped[j] -> "store error"
                               [] store[k].hash # HashOf(j) -> "duplicate key"
                               [] store[k].accepted = NoJob -> "in progress"
                               [] OTHER -> "replayed")
      /\ store' = IF k # NoKey /\ ~dropped[j] /\ store[k] = NoEntry
                    THEN [store EXCEPT ![k] = [job |-> j, hash |-> HashOf(j),
                                               accepted |-> NoJob]]
                    ELSE store
      /\ UNCHANGED <<dropped, swept, jobs, pc, stateVars, wireVars, ran, closed>>

\* Provisioner.Issue and attachCredentials, or its error.
Issue(j) ==
  /\ \/ Handler(j, "keyed", "issued") /\ UNCHANGED reply
        /\ cred' = [cred EXCEPT ![j] = IF j \in Provisioned THEN "live" ELSE @]
     \/ j \in Provisioned /\ UNCHANGED cred
        /\ Handler(j, "keyed", "rejecting") /\ Answer(j, "issue failed")
  /\ UNCHANGED <<dropped, store, swept, jobs, pc, outcome, status, terminal,
                 cancelled, wireVars, ran, closed>>

SendAccepted(j) ==
  /\ Handler(j, "issued", "accepted") /\ Answer(j, "accepted")
  /\ accepted' = [accepted EXCEPT ![j] = TRUE]
  /\ UNCHANGED <<dropped, store, swept, jobs, pc, stateVars, ended, acking,
                 ran, closed>>

\* SetAccepted does nothing under a cancelled ctx, nor without an entry.
SetAccepted(j) ==
  LET k == KeyOf(j)
  IN  /\ Handler(j, "accepted", "cached")
      /\ store' = IF k # NoKey /\ ~dropped[j] /\ store[k] # NoEntry
                    THEN [store EXCEPT ![k].accepted = j] ELSE store
      /\ UNCHANGED <<reply, dropped, swept, jobs, pc, stateVars, wireVars, ran, closed>>

StartRun(j) ==
  /\ Handler(j, "cached", "done")
  /\ pc' = [pc EXCEPT ![j]["run"] = "started"]
  /\ UNCHANGED <<reply, dropped, store, swept, jobs, stateVars, wireVars, ran, closed>>

\* Stop keeps an armed timer from firing.  A callback that already started
\* finds the job terminal, as it is at every Stop.
StopTimers(j) == [w \in Workers |-> IF pc[j][w] = "armed" THEN "exited" ELSE pc[j][w]]

\* unregisterJob and discard.
Discard(j) ==
  /\ Handler(j, "rejecting", "rejected")
  /\ jobs' = jobs \ {j}
  /\ terminal' = [terminal EXCEPT ![j] = TRUE]
  /\ status' = [status EXCEPT ![j] = IF terminal[j] THEN @ ELSE "error"]
  /\ pc' = [pc EXCEPT ![j] = StopTimers(j)]
  /\ cancelled' = [cancelled EXCEPT ![j] = TRUE]
  /\ UNCHANGED <<reply, dropped, store, swept, outcome, cred, wireVars, ran, closed>>

\* The submitting session goes away.
SessionEnds(j) ==
  /\ j \in Interrupted /\ ~dropped[j]
  /\ dropped' = [dropped EXCEPT ![j] = TRUE]
  /\ UNCHANGED <<sub, reply, store, swept, jobs, pc, stateVars, wireVars, ran, closed>>

\* The janitor's sweep.  The TTL is hours: the handler that made the entry
\* has long returned.
Sweep(k) ==
  /\ store[k] # NoEntry /\ sub[store[k].job] \in {"done", "rejected"}
  /\ store' = [store EXCEPT ![k] = NoEntry] /\ swept' = swept \cup {k}
  /\ UNCHANGED <<sub, reply, dropped, jobs, pc, stateVars, wireVars, ran, closed>>

-------------------------------------------------------------------------------
(* expireLease, timeout and run: each marks the job terminal, revokes,     *)
(* sends the terminal envelope and leaves, if no other was first.          *)

Move(j, w, a, b) == pc[j][w] = a /\ pc' = [pc EXCEPT ![j][w] = b]

RunBegins(j) ==
  /\ IF terminal[j] THEN Move(j, "run", "started", "leaving")
                    ELSE Move(j, "run", "started", "checked")
  /\ UNCHANGED <<submitVars, jobs, stateVars, wireVars, ran, closed>>

\* Mutant of CallAgent: setStatus overwrites a terminal status (#79).
CallAgentOverwrites(j) ==
  /\ Move(j, "run", "checked", "agent")
  /\ status' = [status EXCEPT ![j] = "running"]
  /\ ran' = [ran EXCEPT ![j] = TRUE]
  /\ UNCHANGED <<submitVars, jobs, outcome, terminal, cancelled, cred, wireVars, closed>>

\* setStatus(running), and the call of the agent.
CallAgent(j) ==
  /\ Move(j, "run", "checked", "agent")
  /\ status' = [status EXCEPT ![j] = IF terminal[j] THEN @ ELSE "running"]
  /\ ran' = [ran EXCEPT ![j] = TRUE]
  /\ UNCHANGED <<submitVars, jobs, outcome, terminal, cancelled, cred, wireVars, closed>>

\* The agent returns a result (one that does not marshal, maybe), an error,
\* or context.Canceled, or panics; a cancelled ctx overrides all of them.
AgentReturns(j) ==
  /\ Move(j, "run", "agent", "returned")
  /\ \E o \in Outcomes :
       outcome' = [outcome EXCEPT ![j] = IF cancelled[j] THEN "cancelled" ELSE o]
  /\ UNCHANGED <<submitVars, jobs, status, terminal, cancelled, cred, wireVars,
                 ran, closed>>

StatusFor(j, w) ==
  CASE w = "expiry" -> "error"
    [] w = "runtime" -> "timed_out"
    [] w = "run" /\ outcome[j] = "unmarshalable" -> "success"
    [] OTHER -> outcome[j]

\* The final_status sent: a result that does not marshal becomes job.error.
WireStatusFor(j, w) ==
  IF w = "run" /\ outcome[j] = "unmarshalable" THEN "error" ELSE StatusFor(j, w)

\* Mutant of MarkTerminal: no test of the terminal flag.
MarkTerminalAlways(j, w) ==
  /\ pc[j][w] = IF w = "run" THEN "returned" ELSE "armed"
  /\ terminal' = [terminal EXCEPT ![j] = TRUE]
  /\ pc' = [pc EXCEPT ![j][w] = "marked"]
  /\ status' = [status EXCEPT ![j] = StatusFor(j, w)]
  /\ UNCHANGED <<submitVars, jobs, outcome, cancelled, cred, wireVars, ran, closed>>

MarkTerminal(j, w) ==
  /\ pc[j][w] = IF w = "run" THEN "returned" ELSE "armed"
  /\ terminal' = [terminal EXCEPT ![j] = TRUE]
  /\ IF terminal[j]
       THEN /\ pc' = [pc EXCEPT ![j][w] = IF w = "run" THEN "leaving" ELSE "exited"]
            /\ UNCHANGED status
       ELSE /\ pc' = [pc EXCEPT ![j][w] = "marked"]
            /\ status' = [status EXCEPT ![j] = StatusFor(j, w)]
  /\ UNCHANGED <<submitVars, jobs, outcome, cancelled, cred, wireVars, ran, closed>>

\* Mutant of RevokeAll: the timer callbacks leave it to run's exit.
RevokeAllOnRun(j, w) ==
  /\ Move(j, w, "marked", "revoked")
  /\ cred' = [cred EXCEPT ![j] = IF @ = "live" /\ w = "run" THEN "revoked" ELSE @]
  /\ UNCHANGED <<submitVars, jobs, outcome, status, terminal, cancelled, wireVars,
                 ran, closed>>

\* revokeAll; the retries are taken to succeed.
RevokeAll(j, w) ==
  /\ Move(j, w, "marked", "revoked")
  /\ cred' = [cred EXCEPT ![j] = IF @ = "live" THEN "revoked" ELSE @]
  /\ UNCHANGED <<submitVars, jobs, outcome, status, terminal, cancelled, wireVars,
                 ran, closed>>

EmitTerminal(j, w) ==
  /\ Move(j, w, "revoked", "leaving")
  /\ ended' = [ended EXCEPT ![j] = Append(@, WireStatusFor(j, w))]
  /\ UNCHANGED <<submitVars, jobs, stateVars, accepted, acking, ran, closed>>

\* Mutant of Leave: timer callbacks do not cancel the job's ctx.
LeaveRunning(j, w) ==
  /\ pc[j][w] = "leaving"
  /\ pc' = [pc EXCEPT ![j] = IF w = "run" THEN [StopTimers(j) EXCEPT !["run"] = "exited"]
                              ELSE [@ EXCEPT ![w] = "exited"]]
  /\ jobs' = IF w = "run" THEN jobs \ {j} ELSE jobs
  /\ UNCHANGED <<submitVars, outcome, status, terminal, cancelled, cred, wireVars,
                 ran, closed>>

\* A timer callback cancels the job's ctx; run's deferred calls stop the
\* timers and unregister the job.
Leave(j, w) ==
  /\ pc[j][w] = "leaving"
  /\ IF w = "run"
       THEN /\ pc' = [pc EXCEPT ![j] = [StopTimers(j) EXCEPT !["run"] = "exited"]]
            /\ jobs' = jobs \ {j} /\ UNCHANGED cancelled
       ELSE /\ pc' = [pc EXCEPT ![j][w] = "exited"]
            /\ cancelled' = [cancelled EXCEPT ![j] = TRUE] /\ UNCHANGED jobs
  /\ UNCHANGED <<submitVars, outcome, status, terminal, cred, wireVars, ran, closed>>

-------------------------------------------------------------------------------
(* handleJobCancel, after the submit handler in the same read loop (or in  *)
(* that of a resumed connection), and Server.Close.                        *)

AckCancel(j) ==
  /\ j \in Interrupted \cap jobs /\ sub[j] = "done" /\ ~acking[j]
  /\ acking' = [acking EXCEPT ![j] = TRUE]
  /\ UNCHANGED <<submitVars, jobs, pc, stateVars, accepted, ended, ran, closed>>

CancelWithReason(j) ==
  /\ acking[j]
  /\ acking' = [acking EXCEPT ![j] = FALSE]
  /\ cancelled' = [cancelled EXCEPT ![j] = TRUE]
  /\ UNCHANGED <<submitVars, jobs, pc, outcome, status, terminal, cred, accepted,
                 ended, ran, closed>>

ServerClose ==
  /\ ~closed /\ closed' = TRUE
  /\ cancelled' = [j \in Jobs |-> cancelled[j] \/ j \in jobs]
  /\ UNCHANGED <<submitVars, jobs, pc, outcome, status, terminal, cred, wireVars, ran>>

-------------------------------------------------------------------------------
SubmitStep(j) ==
  \/ PutIfAbsent(j) \/ Issue(j) \/ SendAccepted(j) \/ SetAccepted(j)
  \/ StartRun(j) \/ Discard(j)

RunStep(j) == RunBegins(j) \/ CallAgent(j) \/ AgentReturns(j)

FinishStep(j, w) ==
  MarkTerminal(j, w) \/ RevokeAll(j, w) \/ EmitTerminal(j, w) \/ Leave(j, w)

JobStep(j) ==
  \/ Reject(j) \/ NewJob(j) \/ SubmitStep(j) \/ SessionEnds(j)
  \/ RunStep(j) \/ \E w \in Workers : FinishStep(j, w)
  \/ AckCancel(j) \/ CancelWithReason(j)

Next == (\E j \in Jobs : JobStep(j)) \/ (\E k \in Keys : Sweep(k)) \/ ServerClose

Spec == Init /\ [][Next]_vars

(* The read loop goes on, Issue and Revoke return, a deadline passes, and  *)
(* an agent returns once its ctx is cancelled ("Agents should watch        *)
(* ctx.Done() and return promptly", docs/guides/jobs.md).                  *)
Fairness ==
  \A j \in Jobs :
    /\ WF_vars(SubmitStep(j))
    /\ WF_vars(RunBegins(j)) /\ WF_vars(CallAgent(j))
    /\ WF_vars(cancelled[j] /\ AgentReturns(j))
    /\ \A w \in Workers : WF_vars(FinishStep(j, w))

FairSpec == Spec /\ Fairness

-------------------------------------------------------------------------------
Place == {"off", "armed", "started", "checked", "agent", "returned", "marked",
          "revoked", "leaving", "exited"}

(* Every variable stays in its type; the status a client can list is one   *)
(* of the documented ones.                                                 *)
TypeOK ==
  /\ sub \in [Jobs -> {"idle", "registered", "keyed", "issued", "accepted",
                       "cached", "done", "rejecting", "rejected"}]
  /\ reply \in [Jobs -> {"none", "invalid", "store error", "duplicate key",
                         "in progress", "replayed", "issue failed", "accepted"}]
  /\ dropped \in [Jobs -> BOOLEAN]
  /\ store \in [Keys -> [job : Jobs \cup {NoJob}, hash : Hashes \cup {""},
                        accepted : Jobs \cup {NoJob}]]
  /\ swept \subseteq Keys /\ jobs \subseteq Jobs
  /\ pc \in [Jobs -> [Workers -> Place]]
  /\ outcome \in [Jobs -> {"success", "unmarshalable", "error", "cancelled"}]
  /\ status \in [Jobs -> Final \cup {"pending", "running"}]
  /\ terminal \in [Jobs -> BOOLEAN] /\ cancelled \in [Jobs -> BOOLEAN]
  /\ cred \in [Jobs -> {"none", "live", "revoked"}]
  /\ accepted \in [Jobs -> BOOLEAN] /\ ended \in [Jobs -> Seq(Final)]
  /\ acking \in [Jobs -> BOOLEAN] /\ ran \in [Jobs -> BOOLEAN]
  /\ closed \in BOOLEAN

Finishing == {"marked", "revoked"}

\* At most one goroutine of a job is between markTerminal and emitTerminal,
\* and none before the flag is set or after the envelope is sent.
OneFinisher ==
  \A j \in Jobs :
    /\ \A w \in Workers : pc[j][w] \in Finishing => terminal[j] /\ ended[j] = <<>>
    /\ \A v, w \in Workers : pc[j][v] \in Finishing /\ pc[j][w] \in Finishing => v = w
    /\ ended[j] # <<>> => terminal[j]

(* "A lifecycle that ends in exactly one terminal state" (README.md): of   *)
(* the two timers, the run goroutine, a cancel and Server.Close, at most   *)
(* one ever sends a terminal envelope for the job.                         *)
OneTerminal == \A j \in Jobs : Len(ended[j]) <= 1

(* A terminal status is final: no goroutine overwrites it (#79).           *)
TerminalFrozen ==
  [][\A j \in Jobs : terminal[j] => terminal'[j] /\ status'[j] = status[j]]_vars

(* The credential is dead before the terminal envelope of a job whose      *)
(* agent was called is sent (#157).                                        *)
RevokedBeforeTerminal ==
  \A j \in Jobs : ran[j] /\ ended[j] # <<>> => cred[j] # "live"

\* The agent is called after the submit handler is done, and only if the
\* job was not terminal then: whoever ends the job later sees its
\* credential.
Started(j) == ran[j] \/ pc[j]["run"] = "checked"

RevokeInv ==
  \A j \in Jobs :
    /\ Started(j) \/ pc[j]["run"] # "off" => sub[j] = "done"
    /\ Started(j) /\ (ended[j] # <<>> \/ \E w \in Workers : pc[j][w] = "revoked")
         => cred[j] # "live"

PastStore == {"keyed", "issued", "accepted", "cached", "done"}

\* A submission that got past the store owns its key's entry.
KeyInv ==
  \A j \in Jobs :
    /\ accepted[j] => sub[j] \in {"accepted", "cached", "done"}
    /\ sub[j] \in PastStore /\ KeyOf(j) \in Keys \ swept => store[KeyOf(j)].job = j

(* As long as its entry is not swept, an idempotency key stands for one    *)
(* job: two submissions of the principal never both get past the store.    *)
OneJobPerKey ==
  \A i, j \in Jobs :
    i # j /\ KeyOf(i) = KeyOf(j) /\ KeyOf(j) \in Keys \ swept
      => ~(accepted[i] /\ accepted[j])

\* The inductive invariant of the job's proofs.
LifecycleInv ==
  TypeOK /\ OneFinisher /\ OneTerminal /\ RevokeInv /\ KeyInv

(* In the end every accepted job with a deadline has sent one terminal     *)
(* envelope and left the registry, whichever of its goroutines won (#81).  *)
EndsOnce ==
  <>[](\A j \in Leased \cup Bounded :
         accepted[j] => Len(ended[j]) = 1 /\ j \notin jobs)
===============================================================================
