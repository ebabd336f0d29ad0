----------------------------- MODULE LeaseBudget -----------------------------
(***************************************************************************)
(* The lease state of one job used by the goroutines of its agent          *)
(* (internal/lease/validate.go, server/jobcontext.go Metric,               *)
(* ReserveBudget): per-currency counters, reservations that may not cross  *)
(* zero, reports of incurred cost that may, and the follow-up              *)
(* cost.budget.remaining metric.  Amounts are whole numbers, where the     *)
(* code has float64; capability patterns are the Boolean they decide.      *)
(***************************************************************************)
EXTENDS Integers, Sequences

CONSTANTS Workers,    \* goroutines of the agent
          Entries,    \* the lease's cost.budget list, of [cur, value] records
          Costs,      \* the amounts reserved and reported
          ChildLeases,\* cost.budget lists a child lease may ask for
          MaxCalls    \* bound on the calls made

Currencies == {Entries[i].cur : i \in DOMAIN Entries} \cup {"other"}

\* ParseBudgetAmount refuses a negative amount.
Amounts == [cur : STRING, value : Nat]

ASSUME BudgetAssumption ==
  /\ Entries \in Seq(Amounts) /\ \A i \in DOMAIN Entries : Entries[i].cur # "other"
  /\ ChildLeases \subseteq Seq(Amounts) /\ Costs \subseteq Nat /\ MaxCalls \in Nat

VARIABLES
  counters,  \* State.counters of the budgeted currencies
  expired,   \* the clock has passed expires_at
  calls,     \* calls made
  wpc,       \* where each worker is
  arg,       \* the currency and amount of its call
  alive,     \* what the clock told it about expires_at
  remaining, \* what Report returned to it
  lastRemainEmit, \* the last remaining emitted per currency, if any
  announced, \* history: currencies whose budget was reported as used up
  reserved,  \* history: what reservations have taken
  reported,  \* history: what reports have taken
  child      \* the last child lease that passed the subset check

leaseVars == <<counters, expired, calls, wpc, arg, alive, remaining, lastRemainEmit, announced,
          reserved, reported, child>>

Nothing == <<>>

\* What the entries of a currency add up to.
Total(entries, c) ==
  LET sum[n \in 0..Len(entries)] ==
        IF n = 0 THEN 0
        ELSE sum[n - 1] + (IF entries[n].cur = c THEN entries[n].value ELSE 0)
  IN sum[Len(entries)]

NewState(entries) ==
  [c \in {entries[i].cur : i \in DOMAIN entries} |-> Total(entries, c)]

Initial == NewState(Entries)

LeaseInit ==
  /\ counters = Initial /\ expired = FALSE /\ calls = 0
  /\ wpc = [w \in Workers |-> "idle"]
  /\ arg = [w \in Workers |-> [cur |-> "other", value |-> 0]]
  /\ alive = [w \in Workers |-> TRUE]
  /\ remaining = [w \in Workers |-> 0]
  /\ lastRemainEmit = <<>> /\ announced = {}
  /\ reserved = [c \in DOMAIN Initial |-> 0] /\ reported = [c \in DOMAIN Initial |-> 0]
  /\ child = Nothing

budgetVars == <<counters, reserved, reported>>
emitVars == <<lastRemainEmit, announced>>

Expire == /\ ~expired /\ expired' = TRUE
          /\ UNCHANGED <<calls, wpc, arg, alive, remaining, budgetVars, emitVars, child>>

\* A worker calls ReserveBudget, ValidateLeaseOp or Metric; the first two read
\* the clock before they take the lock.
Call(w, kind, c, v) ==
  /\ wpc[w] = "idle" /\ calls < MaxCalls /\ calls' = calls + 1
  /\ wpc' = [wpc EXCEPT ![w] = kind]
  /\ arg' = [arg EXCEPT ![w] = [cur |-> c, value |-> v]]
  /\ alive' = [alive EXCEPT ![w] = ~expired]
  /\ UNCHANGED <<expired, remaining, budgetVars, emitVars, child>>

Exhausted == \E c \in DOMAIN counters : counters[c] <= 0

Done(w) == wpc' = [wpc EXCEPT ![w] = "idle"]

\* ValidateOp refuses (expiry, pattern, counters) or permits; a worker that is
\* permitted goes on to spend and report.
ValidateOp(w) ==
  /\ wpc[w] = "validate"
  /\ \/ Done(w)
     \/ /\ alive[w] /\ ~Exhausted
        /\ wpc' = [wpc EXCEPT ![w] = "metric"]
  /\ UNCHANGED <<expired, calls, arg, alive, remaining, budgetVars, emitVars, child>>

\* Mutant of Fits: the counter is only tested for being positive.
FitsAny(w) == counters[arg[w].cur] > 0

Fits(w) == counters[arg[w].cur] - arg[w].value >= 0

\* ValidateAndDebit, all under one lock.
ValidateAndDebit(w) ==
  /\ wpc[w] = "reserve" /\ Done(w)
  /\ LET c == arg[w].cur
         granted == alive[w] /\ ~Exhausted /\ c \in DOMAIN counters /\ Fits(w)
     IN \/ /\ granted
           /\ counters' = [counters EXCEPT ![c] = @ - arg[w].value]
           /\ reserved' = [reserved EXCEPT ![c] = @ + arg[w].value]
        \/ UNCHANGED <<counters, reserved>>  \* refused, or an unbudgeted currency
  /\ UNCHANGED <<expired, calls, arg, alive, remaining, reported, emitVars, child>>

\* Mutant of Report: an amount that would cross zero is refused, as in Debit.
ReportRefuses(w) ==
  /\ wpc[w] = "metric"
  /\ LET c == arg[w].cur
     IN IF c \in DOMAIN counters
          THEN /\ counters' = [counters EXCEPT ![c] = IF Fits(w) THEN @ - arg[w].value ELSE @]
               /\ reported' = [reported EXCEPT ![c] = @ + arg[w].value]
               /\ remaining' = [remaining EXCEPT ![w] = counters'[c]]
               /\ wpc' = [wpc EXCEPT ![w] = "emit"]
          ELSE Done(w) /\ UNCHANGED <<counters, reported, remaining>>
  /\ UNCHANGED <<expired, calls, arg, alive, reserved, emitVars, child>>

\* Mutant of Report: it returns what was left before the cost.
ReportStale(w) ==
  /\ wpc[w] = "metric"
  /\ LET c == arg[w].cur
     IN IF c \in DOMAIN counters
          THEN /\ counters' = [counters EXCEPT ![c] = @ - arg[w].value]
               /\ reported' = [reported EXCEPT ![c] = @ + arg[w].value]
               /\ remaining' = [remaining EXCEPT ![w] = counters[c]]
               /\ wpc' = [wpc EXCEPT ![w] = "emit"]
          ELSE Done(w) /\ UNCHANGED <<counters, reported, remaining>>
  /\ UNCHANGED <<expired, calls, arg, alive, reserved, emitVars, child>>

\* Metric: the cost is taken off whatever is left.
Report(w) ==
  /\ wpc[w] = "metric"
  /\ LET c == arg[w].cur
     IN IF c \in DOMAIN counters
          THEN /\ counters' = [counters EXCEPT ![c] = @ - arg[w].value]
               /\ reported' = [reported EXCEPT ![c] = @ + arg[w].value]
               /\ remaining' = [remaining EXCEPT ![w] = counters'[c]]
               /\ wpc' = [wpc EXCEPT ![w] = "emit"]
          ELSE Done(w) /\ UNCHANGED <<counters, reported, remaining>>
  /\ UNCHANGED <<expired, calls, arg, alive, reserved, emitVars, child>>

Abs(n) == IF n < 0 THEN -n ELSE n

\* delta/initial >= 0.05, on whole numbers.
Meaningful(c, last, r) == 20 * Abs(last - r) >= Initial[c]

\* maybeEmitRemaining: the decision and the new mark under budgetMu.
MaybeEmitRemaining(w) ==
  /\ wpc[w] = "emit" /\ Done(w)
  /\ LET c == arg[w].cur
         r == remaining[w]
     IN IF c \notin DOMAIN lastRemainEmit \/ Initial[c] = 0 \/ r <= 0
           \/ Meaningful(c, lastRemainEmit[c], r)
          THEN /\ lastRemainEmit' = [x \in DOMAIN lastRemainEmit \cup {c} |->
                                       IF x = c THEN r ELSE lastRemainEmit[x]]
               /\ announced' = IF r <= 0 THEN announced \cup {c} ELSE announced
          ELSE UNCHANGED emitVars
  /\ UNCHANGED <<expired, calls, arg, alive, remaining, budgetVars, child>>

\* Mutant of IsLeaseSubset: against the parent's initial budget.
IsSubsetOfGrant(entries, left) ==
  \A i \in DOMAIN entries :
    entries[i].cur \in DOMAIN left /\ entries[i].value <= Initial[entries[i].cur]

\* IsLeaseSubset's budget part: every entry on its own fits what is left.
IsLeaseSubset(entries, left) ==
  \A i \in DOMAIN entries :
    entries[i].cur \in DOMAIN left /\ entries[i].value <= left[entries[i].cur]

\* A delegating agent checks a child lease; a child job starts from NewState.
Delegate ==
  /\ \E entries \in ChildLeases :
       /\ IsLeaseSubset(entries, counters)
       /\ child' = [entries |-> entries, left |-> counters]
  /\ UNCHANGED <<expired, calls, wpc, arg, alive, remaining, budgetVars, emitVars>>

LeaseNext ==
  \/ Expire \/ Delegate
  \/ \E w \in Workers :
       \/ ValidateOp(w) \/ ValidateAndDebit(w) \/ Report(w) \/ MaybeEmitRemaining(w)
       \/ \E kind \in {"reserve", "validate", "metric"}, c \in Currencies, v \in Costs :
            Call(w, kind, c, v)

LeaseSpec == LeaseInit /\ [][LeaseNext]_leaseVars

-------------------------------------------------------------------------------
(* The variables' types.                                                   *)
LeaseTypeOK ==
  /\ DOMAIN counters = DOMAIN Initial /\ \A c \in DOMAIN counters : counters[c] \in Int
  /\ expired \in BOOLEAN /\ calls \in 0..MaxCalls
  /\ wpc \in [Workers -> {"idle", "reserve", "validate", "metric", "emit"}]
  /\ arg \in [Workers -> [cur : Currencies, value : Costs \cup {0}]]
  /\ alive \in [Workers -> BOOLEAN] /\ remaining \in [Workers -> Int]

(* No cost goes missing between concurrent reservations and reports: a     *)
(* counter is the initial budget less everything taken from it, "the       *)
(* counter MUST be decremented even when that drives it to or below zero"  *)
(* (validate.go:201), and no currency gains a counter.                      *)
Conserved ==
  /\ LeaseTypeOK
  /\ \A c \in DOMAIN counters : counters[c] = Initial[c] - reserved[c] - reported[c]

(* "concurrent callers cannot all pass validation before any debit has     *)
(* applied" (jobcontext.go:61): however many goroutines reserve at once,   *)
(* the reservations alone never exceed the budget.                         *)
ReservedWithinBudget == \A c \in DOMAIN counters : reserved[c] <= Initial[c]

(* "a cost.budget.remaining follow-up metric on meaningful drawdown (...   *)
(* or remaining at zero)" (docs/guides/leases.md:62): overspending does    *)
(* not go unnoticed.  Once the reports under way are done, a negative      *)
(* counter has been reported as used up, in whatever order the goroutines  *)
(* got to emit.                                                            *)
OverspendAnnounced ==
  \A c \in DOMAIN counters :
    counters[c] < 0 /\ (\A w \in Workers : wpc[w] # "emit" \/ arg[w].cur # c)
      => c \in announced

(* "child cost.budget amounts fit within parentRemaining" (lease.go:154):  *)
(* in a currency it names once, a child lease that passes the check starts *)
(* with no more than the parent has left when it was checked.  (Entries of *)
(* one currency are compared one by one, and NewState adds them up.)       *)
ChildFits ==
  child # Nothing =>
    LET budget == NewState(child.entries)
        once(c) == \E i \in DOMAIN child.entries :
                      \A k \in DOMAIN child.entries : (child.entries[k].cur = c) <=> (k = i)
    IN \A c \in DOMAIN budget : once(c) => budget[c] <= child.left[c]
===============================================================================
