--------------------------- MODULE ServerDataProofs ---------------------------
(***************************************************************************)
(* Proofs about the server's data structures: the budget of a lease        *)
(* (LeaseBudget), the resolution of agent versions (AgentRegistry) and     *)
(* the pages of a job listing (JobListing), for any entries, versions and  *)
(* jobs.                                                                   *)
(***************************************************************************)
EXTENDS LeaseBudget, AgentRegistry, JobListing, FiniteSetTheorems, SequenceTheorems,
        WellFoundedInduction, TLAPS

(* A leaf that names no prover is for Zenon; arithmetic is for SMT.        *)
USE ZenonT(60)

-------------------------------------------------------------------------------
(* Induction, for sets.                                                    *)

(* A set of natural numbers that is not empty has a least element.         *)
LEMMA Least ==
  ASSUME NEW T \in SUBSET Nat, T # {}
  PROVE  \E x \in T : \A y \in T : x <= y
<1> DEFINE R == {s \in Nat \X Nat : s[1] < s[2]}
<1>1. IsWellFoundedOn(R, Nat)
  BY NatLessThanWellFounded DEF OpToRel
<1>2. PICK x \in T : \A y \in T : <<y, x>> \notin R
  <2> HIDE DEF R
  <2> QED BY <1>1, WFMin
<1>3. ASSUME NEW y \in T PROVE x <= y
  <2>1. x \in Nat /\ y \in Nat /\ ~ (y < x)
    BY <1>2
  <2> QED BY <2>1, SMTT(30)
<1> QED BY <1>3

(* A set that holds 0 and, with each number, the next one, holds them all. *)
LEMMA Induction ==
  ASSUME NEW G, 0 \in G, \A n \in Nat : n \in G => n + 1 \in G
  PROVE  \A n \in Nat : n \in G
<1> DEFINE T == Nat \ G
<1> SUFFICES ASSUME T # {} PROVE FALSE
  OBVIOUS
<1>1. PICK x \in T : \A y \in T : x <= y
  BY Least
<1>2. x # 0 /\ x - 1 \in Nat /\ x - 1 \notin T
  BY <1>1, SMTT(30)
<1> QED BY <1>1, <1>2, SMTT(30)

-------------------------------------------------------------------------------
(* NewState.                                                               *)

(* The running sum of finitely many numbers exists.                        *)
LEMMA SumExists ==
  ASSUME NEW N \in Nat, NEW v \in [1..N -> Nat]
  PROVE  \E f : f = [n \in 0..N |-> IF n = 0 THEN 0 ELSE f[n - 1] + v[n]]
<1> DEFINE Partial(n) ==
             {f \in [0..N -> Nat] :
                f[0] = 0 /\ \A k \in 1..N : k <= n => f[k] = f[k - 1] + v[k]}
           G == {n \in Nat : \E f : f \in Partial(n)}
<1>1. 0 \in G
  <2>1. [k \in 0..N |-> 0] \in Partial(0)
    BY SMTT(30)
  <2> QED BY <2>1
<1>2. ASSUME NEW n \in Nat, n \in G PROVE n + 1 \in G
  <2>1. PICK f : f \in Partial(n)
    BY <1>2
  <2>2. CASE n + 1 \in 1..N
    <3> DEFINE g == [f EXCEPT ![n + 1] = f[n] + v[n + 1]]
    <3>1. g \in [0..N -> Nat] /\ g[0] = 0 /\ g[n + 1] = f[n] + v[n + 1]
      BY <2>1, <2>2, SMTT(30)
    <3>2. \A k \in 0..N : k # n + 1 => g[k] = f[k]
      BY <2>1, <2>2
    <3>3. ASSUME NEW k \in 1..N, k <= n + 1 PROVE g[k] = g[k - 1] + v[k]
      <4> HIDE DEF g
      <4>1. CASE k = n + 1
        BY <2>1, <2>2, <3>1, <3>2, <4>1, SMTT(30)
      <4>2. CASE k # n + 1
        BY <2>1, <2>2, <3>2, <3>3, <4>2, SMTT(30)
      <4> QED BY <4>1, <4>2
    <3>4. g \in Partial(n + 1)
      BY <3>1, <3>3
    <3> HIDE DEF g, Partial
    <3> QED BY <3>4, SMTT(30)
  <2>3. CASE n + 1 \notin 1..N
    <3>1. f \in Partial(n + 1)
      BY <2>1, <2>3, SMTT(30)
    <3> QED BY <3>1, SMTT(30)
  <2> QED BY <2>2, <2>3
<1>3. N \in G
  <2> HIDE DEF G
  <2> QED BY <1>1, <1>2, Induction
<1>4. PICK f : f \in Partial(N)
  BY <1>3
<1>5. f = [n \in 0..N |-> IF n = 0 THEN 0 ELSE f[n - 1] + v[n]]
  BY <1>4, SMTT(30)
<1> QED BY <1>5

(* A running sum is a sequence of natural numbers.                         *)
LEMMA SumType ==
  ASSUME NEW N \in Nat, NEW v \in [1..N -> Nat],
         NEW f, f[0] = 0, \A n \in 1..N : f[n] = f[n - 1] + v[n]
  PROVE  \A n \in 0..N : f[n] \in Nat
<1> DEFINE G == {n \in Nat : n <= N => f[n] \in Nat}
<1>1. 0 \in G
  BY SMTT(30)
<1>2. ASSUME NEW n \in Nat, n \in G PROVE n + 1 \in G
  <2>1. CASE n + 1 <= N
    <3>1. n + 1 \in 1..N /\ f[n] \in Nat /\ v[n + 1] \in Nat
      BY <1>2, <2>1, SMTT(30)
    <3>2. f[n + 1] = f[n] + v[n + 1]
      BY <3>1, SMTT(30)
    <3> QED BY <3>1, <3>2, SMTT(30)
  <2>2. CASE ~ (n + 1 <= N)
    BY <2>2, SMTT(30)
  <2> QED BY <2>1, <2>2
<1>3. \A n \in Nat : n \in G
  <2> HIDE DEF G
  <2> QED BY <1>1, <1>2, Induction
<1> QED BY <1>3, SMTT(30)

\* What entry n adds to currency c.
Share(entries, c, n) == IF entries[n].cur = c THEN entries[n].value ELSE 0

(* NewState's running sum starts at 0 and adds each entry once.            *)
LEMMA TotalSum ==
  ASSUME NEW entries \in Seq(Amounts), NEW c
  PROVE  \E N \in Nat, sum \in [0..Len(entries) -> Nat] :
           /\ N = Len(entries) /\ sum[0] = 0 /\ Total(entries, c) = sum[N]
           /\ \A n \in 1..N : sum[n] = sum[n - 1] + Share(entries, c, n)
<1>1. PICK N \in Nat : N = Len(entries)
  BY LenProperties
<1> DEFINE v == [n \in 1..N |-> Share(entries, c, n)]
           Step(f) == [n \in 0..Len(entries) |->
                         IF n = 0 THEN 0 ELSE f[n - 1] + Share(entries, c, n)]
           sum == CHOOSE f : f = Step(f)
<1>2. v \in [1..N -> Nat]
  <2>1. \A n \in 1..N : entries[n] \in Amounts
    BY <1>1, LenProperties
  <2>2. \A n \in 1..N : entries[n].value \in Nat
    BY <2>1 DEF Amounts
  <2> QED BY <2>2 DEF Share
<1>3. Total(entries, c) = sum[N]
  BY <1>1 DEF Total, Share
<1>4. \A f : Step(f) = [n \in 0..N |-> IF n = 0 THEN 0 ELSE f[n - 1] + v[n]]
  BY <1>1, SMTT(30)
<1>5. sum = [n \in 0..N |-> IF n = 0 THEN 0 ELSE sum[n - 1] + v[n]]
  <2> HIDE DEF v
  <2>1. PICK f : f = [n \in 0..N |-> IF n = 0 THEN 0 ELSE f[n - 1] + v[n]]
    BY <1>2, SumExists
  <2> HIDE DEF Step
  <2>2. f = Step(f)
    BY <1>4, <2>1
  <2>3. sum = Step(sum)
    BY <2>2
  <2> QED BY <1>4, <2>3
<1> HIDE DEF sum
<1>6. sum[0] = 0 /\ \A n \in 1..N : sum[n] = sum[n - 1] + v[n]
  <2> HIDE DEF v
  <2> QED BY <1>5, SMTT(30)
<1>7. \A n \in 0..N : sum[n] \in Nat
  <2> HIDE DEF v
  <2> QED BY <1>2, <1>6, SumType
<1>8. sum \in [0..N -> Nat]
  BY <1>5, <1>7
<1> QED BY <1>1, <1>3, <1>6, <1>8

(* Every currency of a lease starts with a natural number.                 *)
LEMMA TotalNat ==
  ASSUME NEW entries \in Seq(Amounts), NEW c
  PROVE  Total(entries, c) \in Nat
<1>1. PICK N \in Nat, sum \in [0..Len(entries) -> Nat] :
        N = Len(entries) /\ Total(entries, c) = sum[N]
  BY TotalSum, SMTT(30)
<1> QED BY <1>1, SMTT(30)

(* A currency that the entries name once starts with that entry's amount.  *)
LEMMA TotalOnce ==
  ASSUME NEW entries \in Seq(Amounts), NEW c, NEW i \in DOMAIN entries,
         \A k \in DOMAIN entries : (entries[k].cur = c) <=> (k = i)
  PROVE  Total(entries, c) = entries[i].value
<1>1. PICK N \in Nat, sum \in [0..Len(entries) -> Nat] :
        /\ N = Len(entries) /\ sum[0] = 0 /\ Total(entries, c) = sum[N]
        /\ \A n \in 1..N : sum[n] = sum[n - 1] + Share(entries, c, n)
  BY TotalSum
<1>2. DOMAIN entries = 1..N /\ i \in 1..N /\ entries[i] \in Amounts
  BY <1>1, LenProperties
<1>3. entries[i].value \in Nat
  BY <1>2 DEF Amounts
<1>4. \A n \in 1..N : Share(entries, c, n) = IF n = i THEN entries[i].value ELSE 0
  BY <1>2 DEF Share
<1> DEFINE G == {n \in Nat : n <= N => sum[n] = IF n < i THEN 0 ELSE entries[i].value}
<1>5. 0 \in G
  BY <1>1, <1>2, SMTT(30)
<1>6. ASSUME NEW n \in Nat, n \in G PROVE n + 1 \in G
  <2>1. CASE n + 1 <= N
    <3>1. n + 1 \in 1..N /\ (n + 1) - 1 = n /\ sum[n] = IF n < i THEN 0 ELSE entries[i].value
      BY <1>6, <2>1, SMTT(30)
    <3>2. sum[n + 1] = sum[n] + IF n + 1 = i THEN entries[i].value ELSE 0
      BY <1>1, <1>4, <3>1
    <3> QED BY <1>2, <1>3, <3>1, <3>2, SMTT(30)
  <2>2. CASE ~ (n + 1 <= N)
    BY <2>2, SMTT(30)
  <2> QED BY <2>1, <2>2
<1>7. N \in G
  <2> HIDE DEF G
  <2> QED BY <1>5, <1>6, Induction
<1> QED BY <1>1, <1>2, <1>7, SMTT(30)

-------------------------------------------------------------------------------
(* The lease of a job.                                                     *)

Budgeted == DOMAIN Initial

(* The lease starts with a natural number in every currency it names.      *)
LEMMA InitialNat == Initial \in [Budgeted -> Nat] /\ Budgeted \subseteq Currencies
<1>1. Entries \in Seq(Amounts)
  BY BudgetAssumption
<1>2. \A c : Total(Entries, c) \in Nat
  BY <1>1, TotalNat
<1> QED BY <1>2 DEF Initial, NewState, Budgeted, Currencies

\* What has been taken and what is left add up, and no reservation went
\* further than that.
Ledger ==
  /\ counters \in [Budgeted -> Int]
  /\ reserved \in [Budgeted -> Nat] /\ reported \in [Budgeted -> Nat]
  /\ \A c \in Budgeted : /\ counters[c] = Initial[c] - reserved[c] - reported[c]
                         /\ reserved[c] <= Initial[c]

\* A counter below zero has been announced, or the report that took it there,
\* or a later one, is about to be.
Announcing ==
  \A c \in Budgeted : counters[c] < 0 =>
    \/ c \in announced
    \/ \E w \in Workers : wpc[w] = "emit" /\ arg[w].cur = c /\ remaining[w] <= 0

\* The child lease that was accepted fits entry by entry.
ChildChecked ==
  child # Nothing => child.entries \in ChildLeases /\ IsLeaseSubset(child.entries, child.left)

LeaseInv == LeaseTypeOK /\ Ledger /\ Announcing /\ ChildChecked

USE DEF budgetVars, emitVars

(* The initial states satisfy the invariant.                               *)
LEMMA InitLease == LeaseInit => LeaseInv
<1> SUFFICES ASSUME LeaseInit PROVE LeaseInv
  OBVIOUS
<1>1. LeaseTypeOK
  <2>1. arg \in [Workers -> [cur : Currencies, value : Costs \cup {0}]]
    BY DEF LeaseInit, Currencies
  <2>2. DOMAIN counters = DOMAIN Initial /\ \A c \in DOMAIN counters : counters[c] \in Int
    BY InitialNat, SMTT(30) DEF LeaseInit, Budgeted
  <2>3. /\ expired \in BOOLEAN /\ alive \in [Workers -> BOOLEAN]
        /\ wpc \in [Workers -> {"idle", "reserve", "validate", "metric", "emit"}]
    BY DEF LeaseInit
  <2>4. calls \in 0..MaxCalls /\ remaining \in [Workers -> Int]
    <3>1. MaxCalls \in Nat
      BY BudgetAssumption
    <3> QED BY <3>1, SMTT(30) DEF LeaseInit
  <2> QED BY <2>1, <2>2, <2>3, <2>4 DEF LeaseTypeOK
<1>2. Ledger
  BY InitialNat, SMTT(30) DEF LeaseInit, Ledger, Budgeted
<1>3. Announcing /\ ChildChecked
  BY InitialNat, SMTT(30) DEF LeaseInit, Announcing, ChildChecked, Nothing
<1> QED BY <1>1, <1>2, <1>3 DEF LeaseInv

(* Every step keeps the lease's invariant.                                 *)
LEMMA LeaseStep ==
  ASSUME LeaseInv, [LeaseNext]_leaseVars
  PROVE  LeaseInv'
<1>0. /\ LeaseTypeOK /\ Ledger /\ Announcing /\ ChildChecked
      /\ Initial \in [Budgeted -> Nat] /\ MaxCalls \in Nat /\ Costs \subseteq Nat
  BY InitialNat, BudgetAssumption DEF LeaseInv
<1>1. CASE Expire
  BY <1>0, <1>1 DEF LeaseInv, LeaseTypeOK, Ledger, Announcing, ChildChecked, Expire
<1>2. CASE Delegate
  <2>1. ChildChecked'
    BY <1>2, SMTT(30) DEF ChildChecked, Delegate, IsLeaseSubset
  <2> QED BY <1>0, <1>2, <2>1 DEF LeaseInv, LeaseTypeOK, Ledger, Announcing, Delegate
<1>3. ASSUME NEW w \in Workers, NEW kind \in {"reserve", "validate", "metric"},
             NEW c \in Currencies, NEW v \in Costs, Call(w, kind, c, v)
      PROVE  LeaseInv'
  <2>1. LeaseTypeOK'
    BY <1>0, <1>3, SMTT(30) DEF LeaseTypeOK, Call
  <2>2. Announcing'
    BY <1>0, <1>3 DEF LeaseTypeOK, Announcing, Call
  <2> QED BY <1>0, <1>3, <2>1, <2>2 DEF LeaseInv, Ledger, ChildChecked, Call
<1>4. ASSUME NEW w \in Workers, ValidateOp(w) PROVE LeaseInv'
  <2>1. LeaseTypeOK'
    BY <1>0, <1>4 DEF LeaseTypeOK, ValidateOp, Done
  <2>2. Announcing'
    BY <1>0, <1>4, SMTT(30) DEF LeaseTypeOK, Announcing, ValidateOp, Done
  <2> QED BY <1>0, <1>4, <2>1, <2>2 DEF LeaseInv, Ledger, ChildChecked, ValidateOp
<1>5. ASSUME NEW w \in Workers, ValidateAndDebit(w) PROVE LeaseInv'
  <2>1. CASE UNCHANGED <<counters, reserved>>
    <3>1. LeaseTypeOK'
      BY <1>0, <1>5, <2>1 DEF LeaseTypeOK, ValidateAndDebit, Done
    <3>2. Announcing'
      BY <1>0, <1>5, <2>1 DEF LeaseTypeOK, Announcing, ValidateAndDebit, Done
    <3> QED BY <1>0, <1>5, <2>1, <3>1, <3>2 DEF LeaseInv, Ledger, ChildChecked, ValidateAndDebit
  <2>2. ASSUME NEW c \in Budgeted, NEW v \in Nat, counters[c] - v >= 0,
               counters' = [counters EXCEPT ![c] = @ - v],
               reserved' = [reserved EXCEPT ![c] = @ + v]
        PROVE  LeaseInv'
    <3>1. counters' \in [Budgeted -> Int] /\ reserved' \in [Budgeted -> Nat]
      BY <1>0, <2>2, SMTT(30) DEF Ledger
    <3>2. LeaseTypeOK'
      BY <1>0, <1>5, <2>2, <3>1 DEF LeaseTypeOK, ValidateAndDebit, Done, Budgeted
    <3>3. Ledger'
      BY <1>0, <1>5, <2>2, <3>1, SMTT(30) DEF Ledger, ValidateAndDebit
    <3>4. Announcing'
      BY <1>0, <1>5, <2>2, SMTT(30) DEF LeaseTypeOK, Ledger, Announcing, ValidateAndDebit, Done
    <3> QED BY <1>0, <1>5, <3>2, <3>3, <3>4 DEF LeaseInv, ChildChecked, ValidateAndDebit
  <2>3. arg[w].value \in Nat /\ DOMAIN counters = Budgeted
    <3>1. arg[w] \in [cur : Currencies, value : Costs \cup {0}]
      BY <1>0 DEF LeaseTypeOK
    <3>2. arg[w].value \in Costs \cup {0}
      BY <3>1
    <3>3. DOMAIN counters = Budgeted
      BY <1>0 DEF Ledger
    <3>4. Costs \cup {0} \subseteq Nat
      BY BudgetAssumption, SMTT(30)
    <3> QED BY <3>2, <3>3, <3>4
  <2>4. CASE /\ arg[w].cur \in DOMAIN counters /\ Fits(w)
             /\ counters' = [counters EXCEPT ![arg[w].cur] = @ - arg[w].value]
             /\ reserved' = [reserved EXCEPT ![arg[w].cur] = @ + arg[w].value]
    BY <2>2, <2>3, <2>4 DEF Fits
  <2> QED BY <1>5, <2>1, <2>4 DEF ValidateAndDebit
<1>6. ASSUME NEW w \in Workers, Report(w) PROVE LeaseInv'
  <2>1. CASE arg[w].cur \notin DOMAIN counters
    <3>1. LeaseTypeOK'
      BY <1>0, <1>6, <2>1 DEF LeaseTypeOK, Report, Done
    <3>2. Announcing'
      BY <1>0, <1>6, <2>1, SMTT(30) DEF LeaseTypeOK, Announcing, Report, Done
    <3> QED BY <1>0, <1>6, <2>1, <3>1, <3>2 DEF LeaseInv, Ledger, ChildChecked, Report
  <2>2. CASE arg[w].cur \in DOMAIN counters
    <3> DEFINE c == arg[w].cur
               v == arg[w].value
    <3>1. /\ c \in Budgeted /\ v \in Nat
          /\ counters' = [counters EXCEPT ![c] = @ - v]
          /\ reported' = [reported EXCEPT ![c] = @ + v]
          /\ remaining' = [remaining EXCEPT ![w] = counters'[c]]
          /\ wpc' = [wpc EXCEPT ![w] = "emit"]
      BY <1>0, <1>6, <2>2, SMTT(30) DEF LeaseTypeOK, Report, Budgeted
    <3> HIDE DEF c, v
    <3>2. counters' \in [Budgeted -> Int] /\ reported' \in [Budgeted -> Nat]
      BY <1>0, <3>1, SMTT(30) DEF Ledger
    <3>3. LeaseTypeOK'
      BY <1>0, <1>6, <3>1, <3>2 DEF LeaseTypeOK, Report, Budgeted
    <3>4. Ledger'
      BY <1>0, <1>6, <3>1, <3>2, SMTT(30) DEF Ledger, Report
    <3>5. Announcing'
      BY <1>0, <1>6, <3>1, <3>2, SMTT(30) DEF LeaseTypeOK, Ledger, Announcing, Report, c
    <3> QED BY <1>0, <1>6, <3>3, <3>4, <3>5 DEF LeaseInv, ChildChecked, Report
  <2> QED BY <2>1, <2>2
<1>7. ASSUME NEW w \in Workers, MaybeEmitRemaining(w) PROVE LeaseInv'
  <2>1. LeaseTypeOK'
    BY <1>0, <1>7 DEF LeaseTypeOK, MaybeEmitRemaining, Done
  <2>2. Announcing'
    <3>1. /\ remaining[w] <= 0 => announced' = announced \cup {arg[w].cur}
          /\ announced \subseteq announced' /\ UNCHANGED <<counters, arg, remaining>>
      BY <1>7 DEF MaybeEmitRemaining
    <3> QED BY <1>0, <1>7, <3>1, SMTT(30) DEF LeaseTypeOK, Announcing, MaybeEmitRemaining, Done
  <2> QED BY <1>0, <1>7, <2>1, <2>2 DEF LeaseInv, Ledger, ChildChecked, MaybeEmitRemaining
<1>8. CASE UNCHANGED leaseVars
  BY <1>0, <1>8 DEF LeaseInv, LeaseTypeOK, Ledger, Announcing, ChildChecked, leaseVars
<1> QED BY <1>1, <1>2, <1>3, <1>4, <1>5, <1>6, <1>7, <1>8 DEF LeaseNext

(* The lease's invariant holds for any entries, workers and costs.         *)
THEOREM Lease == LeaseSpec => []LeaseInv
<1>1. LeaseInv /\ [LeaseNext]_leaseVars => LeaseInv'
  BY LeaseStep
<1> QED BY InitLease, <1>1, PTL DEF LeaseSpec

(* No cost goes missing: a counter is the initial budget less everything   *)
(* that reservations and reports took (validate.go:201).                   *)
THEOREM BudgetConserved == LeaseSpec => []Conserved
<1>1. LeaseInv => Conserved
  BY DEF LeaseInv, LeaseTypeOK, Ledger, Conserved
<1> QED BY <1>1, Lease, PTL

(* Reservations alone never exceed the budget, however many goroutines     *)
(* reserve and report at once (jobcontext.go:61).                          *)
THEOREM ReservationsFit == LeaseSpec => []ReservedWithinBudget
<1>1. LeaseInv => ReservedWithinBudget
  BY DEF LeaseInv, LeaseTypeOK, Ledger, ReservedWithinBudget
<1> QED BY <1>1, Lease, PTL

(* A budget overdrawn by reports is announced as used up once the reports  *)
(* under way are done, in whatever order they emit (leases.md:62).         *)
THEOREM OverspendIsAnnounced == LeaseSpec => []OverspendAnnounced
<1>1. LeaseInv => OverspendAnnounced
  BY DEF LeaseInv, LeaseTypeOK, Ledger, Announcing, OverspendAnnounced
<1> QED BY <1>1, Lease, PTL

(* In a currency it names once, an accepted child lease starts with no     *)
(* more than its parent had left (lease.go:154).                           *)
THEOREM ChildLeaseFits == LeaseSpec => []ChildFits
<1>1. LeaseInv => ChildFits
  <2> SUFFICES ASSUME LeaseInv, child # Nothing,
                      NEW c \in DOMAIN NewState(child.entries),
                      NEW i \in DOMAIN child.entries,
                      \A k \in DOMAIN child.entries : (child.entries[k].cur = c) <=> (k = i)
               PROVE  NewState(child.entries)[c] <= child.left[c]
    BY DEF ChildFits
  <2>1. child.entries \in Seq(Amounts) /\ IsLeaseSubset(child.entries, child.left)
    BY BudgetAssumption DEF LeaseInv, ChildChecked
  <2>2. NewState(child.entries)[c] = Total(child.entries, c)
    BY DEF NewState
  <2>3. Total(child.entries, c) = child.entries[i].value
    BY <2>1, TotalOnce
  <2> QED BY <2>1, <2>2, <2>3 DEF IsLeaseSubset
<1> QED BY <1>1, Lease, PTL

-------------------------------------------------------------------------------
(* Agent versions.                                                         *)

(* The components of a numeric version.                                    *)
LEMMA NumberAt ==
  ASSUME Numeric, NEW v \in Versions
  PROVE  \E n \in Nat :
           /\ n = Len(v) /\ DOMAIN v = 1..n
           /\ \A i \in 1..n : v[i].num \in Nat /\ v[i].lex \in Nat /\ v[i].lex > 0
<1>1. v \in Seq(Component) /\ \A i \in DOMAIN v : v[i].num >= 0 => v[i].lex > 0
  BY VersionsAssumption
<1>2. PICK n \in Nat : n = Len(v) /\ DOMAIN v = 1..n
  BY <1>1, LenProperties
<1>3. ASSUME NEW i \in 1..n PROVE v[i].num \in Nat /\ v[i].lex \in Nat /\ v[i].lex > 0
  <2>1. v[i] \in Component
    BY <1>1, <1>2, LenProperties
  <2>2. v[i].num >= 0
    BY <1>2 DEF Numeric
  <2>3. v[i].num \in Nat \cup {-1} /\ v[i].lex \in Nat
    BY <2>1 DEF Component
  <2> QED BY <1>1, <1>2, <2>2, <2>3, SMTT(30)
<1> QED BY <1>2, <1>3

(* The release order is transitive.                                        *)
LEMMA NewerTransitive ==
  ASSUME Numeric, NEW u \in Versions, NEW v \in Versions, NEW w \in Versions,
         Newer(u, v), Newer(v, w)
  PROVE  Newer(u, w)
<1>1. PICK lu \in Nat : lu = Len(u) /\ \A i \in 1..lu : u[i].num \in Nat
  BY NumberAt
<1>2. PICK lv \in Nat : lv = Len(v) /\ \A i \in 1..lv : v[i].num \in Nat
  BY NumberAt
<1>3. PICK lw \in Nat : lw = Len(w) /\ \A i \in 1..lw : w[i].num \in Nat
  BY NumberAt
<1>4. PICK i \in 1..lu : /\ \A k \in 1..(i - 1) : k <= lv /\ u[k].num = v[k].num
                         /\ i > lv \/ u[i].num > v[i].num
  BY <1>1, <1>2 DEF Newer
<1>5. PICK j \in 1..lv : /\ \A k \in 1..(j - 1) : k <= lw /\ v[k].num = w[k].num
                         /\ j > lw \/ v[j].num > w[j].num
  BY <1>2, <1>3 DEF Newer
<1> DEFINE At1(m) == /\ m \in 1..lu
                     /\ \A k \in 1..(m - 1) : k <= lw /\ u[k].num = w[k].num
                     /\ m > lw \/ u[m].num > w[m].num
<1>6. \E m : At1(m)
  <2>1. CASE i < j
    <3>1. i \in 1..lv /\ i <= lw /\ v[i].num = w[i].num /\ u[i].num > v[i].num
      BY <1>2, <1>4, <1>5, <2>1, SMTT(30)
    <3>2. At1(i)
      BY <1>4, <1>5, <2>1, <3>1, SMTT(30)
    <3> QED BY <3>2
  <2>2. CASE i = j
    <3>1. u[i].num > v[i].num
      BY <1>4, <1>5, <2>2, SMTT(30)
    <3>2. i > lw \/ u[i].num > w[i].num
      BY <1>1, <1>2, <1>3, <1>5, <2>2, <3>1, SMTT(30)
    <3>3. At1(i)
      BY <1>4, <1>5, <2>2, <3>2
    <3> QED BY <3>3
  <2>3. CASE i > j
    <3>1. j \in 1..lu /\ u[j].num = v[j].num
      BY <1>4, <1>5, <2>3, SMTT(30)
    <3>2. At1(j)
      BY <1>4, <1>5, <2>3, <3>1, SMTT(30)
    <3> QED BY <3>2
  <2> QED BY <1>4, <1>5, <2>1, <2>2, <2>3, SMTT(30)
<1> QED BY <1>1, <1>3, <1>6 DEF Newer

(* No version is newer than itself.                                        *)
LEMMA NewerIrreflexive ==
  ASSUME Numeric, NEW v \in Versions
  PROVE  ~Newer(v, v)
<1>1. PICK n \in Nat : n = Len(v) /\ \A i \in 1..n : v[i].num \in Nat
  BY NumberAt
<1> QED BY <1>1, SMTT(30) DEF Newer

(* compareVersions is the release order of numeric versions, although it   *)
(* compares a missing component as text.                                   *)
LEMMA CompareIsNewer ==
  ASSUME Numeric, NEW a \in Versions, NEW b \in Versions
  PROVE  CompareVersions(a, b) > 0 <=> Newer(a, b)
<1>1. PICK la \in Nat : la = Len(a) /\ \A i \in 1..la : a[i].num \in Nat /\ a[i].lex \in Nat
                                                        /\ a[i].lex > 0
  BY NumberAt
<1>2. PICK lb \in Nat : lb = Len(b) /\ \A i \in 1..lb : b[i].num \in Nat /\ b[i].lex \in Nat
                                                        /\ b[i].lex > 0
  BY NumberAt
<1> DEFINE top == IF la > lb THEN la ELSE lb
           comp(i) == CompareComponent(At(a, i), At(b, i))
           differ == {i \in 1..top : comp(i) # 0}
           first == CHOOSE i \in differ : \A k \in differ : i <= k
<1>3. ASSUME NEW i \in 1..top
      PROVE  /\ comp(i) = 0 <=> (i <= la /\ i <= lb /\ a[i].num = b[i].num)
             /\ comp(i) > 0 <=> (i <= la /\ (i > lb \/ a[i].num > b[i].num))
  <2>1. CASE i <= la /\ i <= lb
    <3>1. At(a, i) = a[i] /\ At(b, i) = b[i] /\ a[i].num \in Nat /\ b[i].num \in Nat
      BY <1>1, <1>2, <2>1, SMTT(30) DEF At
    <3>2. comp(i) = Sign(a[i].num, b[i].num)
      BY <3>1, SMTT(30) DEF CompareComponent
    <3> QED BY <2>1, <3>1, <3>2, SMTT(30) DEF Sign
  <2>2. CASE i <= la /\ i > lb
    <3>1. At(a, i) = a[i] /\ At(b, i) = Missing /\ a[i].lex \in Nat /\ a[i].lex > 0
      BY <1>1, <1>2, <2>2, SMTT(30) DEF At
    <3>2. Missing.lex = 0 /\ Missing.num = -1
      BY DEF Missing
    <3>3. comp(i) = 1
      BY <3>1, <3>2, SMTT(30) DEF CompareComponent, Sign
    <3> QED BY <2>2, <3>3, SMTT(30)
  <2>3. CASE i > la /\ i <= lb
    <3>1. At(a, i) = Missing /\ At(b, i) = b[i] /\ b[i].lex \in Nat /\ b[i].lex > 0
      BY <1>1, <1>2, <2>3, SMTT(30) DEF At
    <3>2. Missing.lex = 0 /\ Missing.num = -1
      BY DEF Missing
    <3>3. comp(i) = -1
      BY <3>1, <3>2, SMTT(30) DEF CompareComponent, Sign
    <3> QED BY <2>3, <3>3, SMTT(30)
  <2> QED BY <1>1, <1>2, <2>1, <2>2, <2>3, SMTT(30)
<1>4. CompareVersions(a, b) = IF differ = {} THEN 0 ELSE comp(first)
  BY <1>1, <1>2, SMTT(30) DEF CompareVersions
<1> HIDE DEF comp
<1>5. differ # {} => first \in differ /\ \A k \in differ : first <= k
  <2>1. differ \in SUBSET Nat
    BY <1>1, <1>2, SMTT(30)
  <2> HIDE DEF differ
  <2>2. differ # {} => \E x \in differ : \A y \in differ : x <= y
    BY <2>1, Least
  <2> QED BY <2>2
<1>6. ASSUME CompareVersions(a, b) > 0 PROVE Newer(a, b)
  <2>1. differ # {} /\ comp(first) > 0
    BY <1>4, <1>6, SMTT(30)
  <2> HIDE DEF first
  <2>2. PICK i \in 1..top : i = first /\ comp(i) > 0 /\ \A k \in differ : i <= k
    BY <1>5, <2>1
  <2>3. \A k \in 1..(i - 1) : comp(k) = 0
    BY <1>1, <1>2, <2>2, SMTT(30)
  <2>4. \A k \in 1..(i - 1) : k <= lb /\ a[k].num = b[k].num
    BY <1>1, <1>2, <1>3, <2>3, SMTT(30)
  <2>5. i \in 1..la /\ (i > lb \/ a[i].num > b[i].num)
    BY <1>1, <1>2, <1>3, <2>2, SMTT(30)
  <2> QED BY <1>1, <1>2, <2>4, <2>5 DEF Newer
<1>7. ASSUME Newer(a, b) PROVE CompareVersions(a, b) > 0
  <2>1. PICK i \in 1..la : /\ \A k \in 1..(i - 1) : k <= lb /\ a[k].num = b[k].num
                           /\ i > lb \/ a[i].num > b[i].num
    BY <1>1, <1>2, <1>7 DEF Newer
  <2>2. i \in 1..top /\ comp(i) > 0
    BY <1>1, <1>2, <1>3, <2>1, SMTT(30)
  <2>3. \A k \in 1..(i - 1) : k \in 1..top /\ comp(k) = 0
    BY <1>1, <1>2, <1>3, <2>1, SMTT(30)
  <2> HIDE DEF first
  <2>4. i \in differ /\ first = i
    <3>1. i \in differ
      BY <2>2, SMTT(30)
    <3>2. first \in 1..top /\ comp(first) # 0 /\ first <= i
      BY <1>5, <3>1
    <3>3. first \notin 1..(i - 1)
      BY <2>3, <3>2
    <3> QED BY <3>1, <3>2, <3>3, SMTT(30)
  <2> QED BY <1>4, <2>2, <2>4
<1> QED BY <1>6, <1>7

\* highestVersion keeps the newest of the versions it has looked at, and a
\* resolution ends when it has looked at all.
ScanInv ==
  /\ scan # {} => resolved = Idle
  /\ best = None => scan = {} \/ scan = versions
  /\ best # None => /\ best \in versions
                    /\ Numeric => \A u \in versions \ scan : ~Newer(u, best)
  /\ defaultVer # None => defaultVer \in versions

AgentInv == AgentTypeOK /\ ScanInv

USE DEF regVars

(* The initial states satisfy the invariant.                               *)
LEMMA InitAgents == AgentInit => AgentInv
BY DEF AgentInit, AgentInv, AgentTypeOK, ScanInv, None, Idle

(* Every step keeps the registry's invariant, whatever the map's order.    *)
LEMMA AgentStep ==
  ASSUME AgentInv, [AgentNext]_agentVars
  PROVE  AgentInv'
<1>0. AgentTypeOK /\ ScanInv
  BY DEF AgentInv
<1>1. CASE RegisterAgent
  BY <1>0, <1>1 DEF AgentInv, AgentTypeOK, ScanInv, RegisterAgent, Registering
<1>2. ASSUME NEW v \in Versions, RegisterAgentVersion(v) PROVE AgentInv'
  BY <1>0, <1>2 DEF AgentInv, AgentTypeOK, ScanInv, RegisterAgentVersion, Registering
<1>3. ASSUME NEW v \in Versions, SetDefaultAgentVersion(v) PROVE AgentInv'
  BY <1>0, <1>3 DEF AgentInv, AgentTypeOK, ScanInv, SetDefaultAgentVersion, Registering
<1>4. ASSUME NEW v \in Versions, ResolveVersion(v) PROVE AgentInv'
  BY <1>0, <1>4 DEF AgentInv, AgentTypeOK, ScanInv, ResolveVersion
<1>5. CASE ResolveBare
  <2>1. /\ resolved' \in {Idle, Bare, Failed("agent")} \cup {Version(u) : u \in versions}
        /\ scan' = {} \/ (scan' = versions /\ resolved' = Idle)
    BY <1>0, <1>5 DEF ScanInv, ResolveBare
  <2> QED BY <1>0, <1>5, <2>1 DEF AgentInv, AgentTypeOK, ScanInv, ResolveBare
<1>6. ASSUME NEW v \in Versions, Examine(v) PROVE AgentInv'
  <2>1. v \in versions /\ best' \in {v, best} /\ best' \in versions /\ best' # None
    BY <1>0, <1>6, VersionsAssumption DEF AgentTypeOK, ScanInv, Examine, None
  <2>2. AgentTypeOK'
    BY <1>0, <1>6, <2>1 DEF AgentTypeOK, Examine
  <2>3. ASSUME Numeric, NEW u \in versions \ scan' PROVE ~Newer(u, best')
    <3>1. u = v \/ u \in versions \ scan
      BY <1>6, <2>3 DEF Examine
    <3>2. CASE best = None
      <4>1. u = v /\ best' = v
        BY <1>0, <1>6, <2>3, <3>1, <3>2 DEF ScanInv, Examine
      <4> QED BY <2>3, <4>1, NewerIrreflexive
    <3>3. CASE best # None /\ CompareVersions(v, best) > 0
      <4>1. best' = v /\ best \in Versions /\ Newer(v, best)
        BY <1>0, <1>6, <2>3, <3>3, CompareIsNewer DEF AgentTypeOK, ScanInv, Examine
      <4>2. CASE u = v
        BY <2>3, <4>1, <4>2, NewerIrreflexive
      <4>3. CASE u \in versions \ scan
        <5>1. u \in Versions /\ ~Newer(u, best)
          BY <1>0, <2>3, <3>3, <4>3 DEF AgentTypeOK, ScanInv
        <5> QED BY <2>3, <4>1, <5>1, NewerTransitive
      <4> QED BY <3>1, <4>2, <4>3
    <3>4. CASE best # None /\ ~ (CompareVersions(v, best) > 0)
      <4>1. best' = best /\ best \in Versions /\ ~Newer(v, best)
        BY <1>0, <1>6, <2>3, <3>4, CompareIsNewer DEF AgentTypeOK, ScanInv, Examine
      <4> QED BY <1>0, <2>3, <3>1, <3>4, <4>1 DEF ScanInv
    <3> QED BY <3>2, <3>3, <3>4
  <2>4. scan' # {} => resolved' = Idle
    BY <1>0, <1>6 DEF ScanInv, Examine
  <2>5. ScanInv'
    BY <1>0, <1>6, <2>1, <2>3, <2>4 DEF ScanInv, Examine
  <2> QED BY <2>2, <2>5 DEF AgentInv
<1>7. CASE UNCHANGED agentVars
  BY <1>0, <1>7 DEF AgentInv, AgentTypeOK, ScanInv, agentVars
<1> QED BY <1>1, <1>2, <1>3, <1>4, <1>5, <1>6, <1>7 DEF AgentNext

(* Where every component is a number, a bare name resolves to the newest   *)
(* release (server.go:446): compareVersions is then the release order,     *)
(* which is transitive, so the order of the map does not matter.           *)
THEOREM NewestIsChosen == AgentSpec => []NewestChosen
<1>1. AgentInv /\ [AgentNext]_agentVars => AgentInv'
  BY AgentStep
<1>2. AgentInv => NewestChosen
  <2>1. ASSUME AgentInv, Numeric, Chosen, NEW u \in versions PROVE ~Newer(u, best)
    <3>1. resolved[1] = "version" /\ best # None
      BY <2>1 DEF Chosen
    <3>2. scan = {}
      BY <2>1, <3>1, SMTT(30) DEF AgentInv, ScanInv, Idle
    <3> QED BY <2>1, <3>1, <3>2 DEF AgentInv, ScanInv
  <2> QED BY <2>1 DEF AgentInv, NewestChosen
<1> QED BY InitAgents, <1>1, <1>2, PTL DEF AgentSpec

-------------------------------------------------------------------------------
(* Job listings.                                                           *)

Keys == [at : Int, id : Int]

(* The composite key orders keys totally.                                  *)
LEMMA KeyOrder ==
  ASSUME NEW a \in Keys, NEW b \in Keys, NEW c \in Keys
  PROVE  /\ ~Less(a, a) /\ (Less(a, b) \/ Less(b, a) \/ a = b)
         /\ Less(a, b) /\ Less(b, c) => Less(a, c)
         /\ ~Less(b, a) /\ Less(b, c) => Less(a, c)
         /\ Less(a, b) /\ ~Less(c, b) => Less(a, c)
<1>1. /\ a.at \in Int /\ a.id \in Int /\ b.at \in Int /\ b.id \in Int
      /\ c.at \in Int /\ c.id \in Int
  BY DEF Keys
<1>2. a = [at |-> a.at, id |-> a.id] /\ b = [at |-> b.at, id |-> b.id]
  BY DEF Keys
<1>3. Less(a, b) \/ Less(b, a) \/ a = b
  BY <1>1, <1>2, SMTT(30) DEF Less
<1> QED BY <1>1, <1>3, SMTT(30) DEF Less

Before(i, j) == Less(Key(i), Key(j))

(* Jobs and cursors have keys, and different jobs different ones.          *)
LEMMA JobKeys ==
  ASSUME createdAt \in [Jobs -> 0..MaxTime]
  PROVE  /\ \A j \in Jobs : Key(j) \in Keys /\ Less(Start, Key(j)) /\ Key(j) # Start
         /\ \A i, j \in Jobs : i # j => Key(i) # Key(j)
         /\ Start \in Keys
<1>1. \A j \in Jobs : j \in Nat /\ createdAt[j] \in Nat
  BY ListAssumption, SMTT(30)
<1> QED BY <1>1, SMTT(30) DEF Keys, Key, Less, Start

(* Jobs are ordered totally.                                               *)
LEMMA JobOrder ==
  ASSUME createdAt \in [Jobs -> 0..MaxTime], NEW i \in Jobs, NEW j \in Jobs, NEW k \in Jobs
  PROVE  /\ ~Before(i, i) /\ (i # j => Before(i, j) \/ Before(j, i))
         /\ Before(i, j) /\ Before(j, k) => Before(i, k)
         /\ Before(i, j) => ~Before(j, i)
<1>1. Key(i) \in Keys /\ Key(j) \in Keys /\ Key(k) \in Keys /\ (i # j => Key(i) # Key(j))
  BY JobKeys
<1>2. ~Less(Key(i), Key(i)) /\ (Less(Key(i), Key(j)) \/ Less(Key(j), Key(i)) \/ Key(i) = Key(j))
      /\ (Less(Key(i), Key(j)) /\ Less(Key(j), Key(k)) => Less(Key(i), Key(k)))
  BY <1>1, KeyOrder
<1>3. Less(Key(i), Key(j)) /\ Less(Key(j), Key(i)) => Less(Key(i), Key(i))
  BY <1>1, KeyOrder
<1> QED BY <1>1, <1>2, <1>3 DEF Before

(* What is taken of the jobs is finite.                                    *)
LEMMA FiniteJobs ==
  ASSUME NEW S \in SUBSET Jobs
  PROVE  IsFiniteSet(S) /\ Cardinality(S) \in Nat
BY ListAssumption, FS_Subset, FS_CardinalityType

(* A set of jobs that is not empty has a largest one, and the others come  *)
(* before it.                                                              *)
LEMMA LargestJob ==
  ASSUME createdAt \in [Jobs -> 0..MaxTime], NEW S \in SUBSET Jobs, S # {}
  PROVE  Largest(S) \in S /\ \A i \in S \ {Largest(S)} : Before(i, Largest(S))
<1> DEFINE Top(T, m) == m \in T /\ \A i \in T : ~Before(m, i)
           G == {n \in Nat : \A T \in SUBSET Jobs :
                               Cardinality(T) = n /\ T # {} => \E m \in Jobs : Top(T, m)}
<1>1. 0 \in G
  <2>1. \A T \in SUBSET Jobs : Cardinality(T) = 0 => T = {}
    BY FiniteJobs, FS_EmptySet
  <2> QED BY <2>1
<1>2. ASSUME NEW n \in Nat, n \in G PROVE n + 1 \in G
  <2> SUFFICES ASSUME NEW T \in SUBSET Jobs, Cardinality(T) = n + 1, T # {}
               PROVE  \E m \in Jobs : Top(T, m)
    BY SMTT(30)
  <2>1. PICK x \in Jobs : x \in T
    OBVIOUS
  <2>2. Cardinality(T \ {x}) = n /\ T \ {x} \in SUBSET Jobs
    <3>1. Cardinality(T \ {x}) = Cardinality(T) - 1
      BY <2>1, FiniteJobs, FS_RemoveElement
    <3> QED BY <3>1, SMTT(30)
  <2>3. CASE T \ {x} = {}
    <3>1. Top(T, x)
      BY <2>1, <2>3, JobOrder, SMTT(30)
    <3> QED BY <3>1
  <2>4. CASE T \ {x} # {}
    <3>1. PICK m \in Jobs : Top(T \ {x}, m)
      BY <1>2, <2>2, <2>4
    <3>2. CASE Before(m, x)
      <4>1. \A i \in T : ~Before(x, i)
        <5>1. ASSUME NEW i \in T, Before(x, i) PROVE FALSE
          <6>1. CASE i = x
            BY <2>1, <5>1, <6>1, JobOrder
          <6>2. CASE i # x
            BY <2>1, <3>1, <3>2, <5>1, <6>2, JobOrder
          <6> QED BY <6>1, <6>2
        <5> QED BY <5>1
      <4> QED BY <2>1, <4>1
    <3>3. CASE ~Before(m, x)
      <4>1. Top(T, m)
        BY <3>1, <3>3
      <4> QED BY <4>1
    <3> QED BY <3>2, <3>3
  <2> QED BY <2>3, <2>4
<1>3. Cardinality(S) \in G
  <2> HIDE DEF G
  <2> QED BY <1>1, <1>2, FiniteJobs, Induction
<1>4. \E m \in S : \A i \in S : ~Before(m, i)
  BY <1>3
<1>5. Largest(S) \in S /\ \A i \in S : ~Before(Largest(S), i)
  BY <1>4 DEF Largest, Before
<1> QED BY <1>5, JobOrder

(* The jobs of a set can be put in order.                                  *)
LEMMA SortExists ==
  ASSUME createdAt \in [Jobs -> 0..MaxTime], NEW S \in SUBSET Jobs
  PROVE  \E page \in [1..Cardinality(S) -> S] :
           \A i, k \in 1..Cardinality(S) : i < k => Before(page[i], page[k])
<1> DEFINE Sorted(T, n, page) == /\ page \in [1..n -> T]
                                 /\ \A i, k \in 1..n : i < k => Before(page[i], page[k])
           G == {n \in Nat : \A T \in SUBSET Jobs :
                               Cardinality(T) = n => \E page : Sorted(T, n, page)}
<1>1. 0 \in G
  <2>1. \A T : Sorted(T, 0, <<>>)
    BY SMTT(30)
  <2> QED BY <2>1
<1>2. ASSUME NEW n \in Nat, n \in G PROVE n + 1 \in G
  <2> SUFFICES ASSUME NEW T \in SUBSET Jobs, Cardinality(T) = n + 1
               PROVE  \E page : Sorted(T, n + 1, page)
    BY SMTT(30)
  <2>1. T # {}
    BY FS_EmptySet, SMTT(30)
  <2>2. PICK m \in T : \A i \in T \ {m} : Before(i, m)
    BY <2>1, LargestJob
  <2>3. Cardinality(T \ {m}) = n /\ T \ {m} \in SUBSET Jobs
    <3>1. Cardinality(T \ {m}) = Cardinality(T) - 1
      BY <2>2, FiniteJobs, FS_RemoveElement
    <3> QED BY <3>1, SMTT(30)
  <2>4. PICK p : Sorted(T \ {m}, n, p)
    BY <1>2, <2>3
  <2> DEFINE page == [i \in 1..(n + 1) |-> IF i = n + 1 THEN m ELSE p[i]]
  <2>5. page \in [1..(n + 1) -> T] /\ page[n + 1] = m /\ \A i \in 1..n : page[i] = p[i]
    BY <2>2, <2>4, SMTT(30)
  <2> HIDE DEF page
  <2>6. ASSUME NEW i \in 1..(n + 1), NEW k \in 1..(n + 1), i < k
        PROVE  Before(page[i], page[k])
    <3>1. i \in 1..n /\ page[i] = p[i] /\ p[i] \in T \ {m}
      BY <2>4, <2>5, <2>6, SMTT(30)
    <3>2. CASE k = n + 1
      BY <2>2, <2>5, <3>1, <3>2
    <3>3. CASE k # n + 1
      <4>1. k \in 1..n /\ page[k] = p[k]
        BY <2>5, <3>3, SMTT(30)
      <4> QED BY <2>4, <2>6, <3>1, <4>1
    <3> QED BY <3>2, <3>3
  <2>7. Sorted(T, n + 1, page)
    BY <2>5, <2>6
  <2> QED BY <2>7
<1>3. Cardinality(S) \in G
  <2> HIDE DEF G
  <2> QED BY <1>1, <1>2, FiniteJobs, Induction
<1> QED BY <1>3

(* A page is what the heap holds, in order and completely.                 *)
LEMMA PageInOrder ==
  ASSUME createdAt \in [Jobs -> 0..MaxTime], NEW S \in SUBSET Jobs
  PROVE  \E n \in Nat :
           /\ n = Cardinality(S) /\ InOrder(S) \in [1..n -> S]
           /\ \A i, k \in 1..n : i < k => Before(InOrder(S)[i], InOrder(S)[k])
           /\ \A j \in S : \E i \in 1..n : InOrder(S)[i] = j
<1>1. PICK n \in Nat : n = Cardinality(S)
  BY FiniteJobs
<1> DEFINE page == InOrder(S)
<1>2. page \in [1..n -> S] /\ \A i, k \in 1..n : i < k => Before(page[i], page[k])
  BY <1>1, SortExists DEF InOrder, Before
<1> HIDE DEF page
<1>3. page \in Injection(1..n, S)
  <2>1. ASSUME NEW i \in 1..n, NEW k \in 1..n, page[i] = page[k] PROVE i = k
    <3>1. page[i] \in Jobs /\ ~Before(page[i], page[i])
      BY <1>2, JobOrder, SMTT(30)
    <3>2. ~ (i < k) /\ ~ (k < i)
      BY <1>2, <2>1, <3>1
    <3> QED BY <3>2, SMTT(30)
  <2> QED BY <1>2, <2>1 DEF Injection, IsInjective
<1>4. page \in Surjection(1..n, S)
  <2>1. Cardinality(1..n) = Cardinality(S)
    BY <1>1, FS_Interval, SMTT(30)
  <2> QED BY <1>3, <2>1, FiniteJobs, FS_Injection
<1>5. \A j \in S : \E i \in 1..n : page[i] = j
  BY <1>4 DEF Surjection
<1> QED BY <1>1, <1>2, <1>5 DEF page

\* The pages so far are in order and end at the cursor; the call under way
\* keeps only what comes after it.
PagesInv ==
  /\ listed \in Seq(Jobs)
  /\ \A i, k \in DOMAIN listed : i < k => Before(listed[i], listed[k])
  /\ phase # "done" => \A i \in DOMAIN listed : ~Less(cursor, Key(listed[i]))
  /\ \A j \in heap : AfterCursor(j)
  /\ phase # "scan" => refs = {} /\ heap = {}

\* Job j comes after everything the heap keeps, and the heap is full.
Beyond(j) == Limit > 0 /\ Cardinality(heap) = Limit + 1 /\ \A i \in heap : Before(i, j)

\* A steady job has been listed or comes after the cursor, and a call that has
\* scanned it keeps it or has no room for it.
SteadyInv ==
  /\ \A j \in steady : j \in Registered /\ Matches(j)
  /\ \A j \in steady : j \in Range(listed) \/ (phase # "done" /\ AfterCursor(j))
  /\ phase = "scan" =>
       \A j \in steady : j \in Range(listed) \/ j \in refs \/ j \in heap \/ Beyond(j)

ListInv == ListTypeOK /\ PagesInv /\ SteadyInv

USE DEF jobVars

(* The initial states satisfy the invariant.                               *)
LEMMA InitListing == ListInit => ListInv
<1> SUFFICES ASSUME ListInit PROVE ListInv
  OBVIOUS
<1>1. ListTypeOK
  <2>1. cursor \in [at : -1..MaxTime, id : Jobs \cup {-1}]
    <3>1. MaxTime \in Nat
      BY ListAssumption
    <3> QED BY <3>1, SMTT(30) DEF ListInit, Start
  <2>2. Limit > 0 => Cardinality(heap) <= Limit + 1
    <3>1. Cardinality(heap) = 0 /\ Limit \in Nat
      BY FS_EmptySet, ListAssumption DEF ListInit
    <3> QED BY <3>1, SMTT(30)
  <2>3. status \in [Jobs -> {"none", "pending", "running", "ended", "gone"}]
    BY DEF ListInit
  <2> QED BY <2>1, <2>2, <2>3 DEF ListInit, ListTypeOK
<1>2. PagesInv
  BY EmptySeq, SMTT(30) DEF ListInit, PagesInv
<1>3. SteadyInv
  BY DEF ListInit, SteadyInv
<1> QED BY <1>1, <1>2, <1>3 DEF ListInv

(* Jobs that come, change status and end disturb no page: a steady job     *)
(* stays registered and matching, or is no longer steady.                  *)
LEMMA JobsStep ==
  ASSUME ListInv, NEW j \in Jobs, Advance(j) \/ Unregister(j)
  PROVE  ListInv'
<1>0. ListTypeOK /\ PagesInv /\ SteadyInv
  BY DEF ListInv
<1>1. /\ UNCHANGED <<createdAt, phase, cursor, refs, heap, listed>>
      /\ steady' \subseteq steady
      /\ status' \in [Jobs -> {"none", "pending", "running", "ended", "gone"}]
  BY <1>0, SMTT(30) DEF ListTypeOK, Advance, Unregister, Steps
<1>2. ListTypeOK'
  BY <1>0, <1>1 DEF ListTypeOK
<1>3. PagesInv'
  BY <1>0, <1>1 DEF PagesInv, Before, Key, AfterCursor
<1>4. ASSUME NEW i \in steady' PROVE i \in Registered' /\ Matches(i)'
  <2>1. i \in steady /\ i \in Jobs /\ i \in Registered /\ Matches(i)
    BY <1>0, <1>1, <1>4 DEF ListTypeOK, SteadyInv
  <2>2. CASE Advance(j)
    <3>1. Filter = {} \/ status'[i] \in Filter
      BY <1>4, <2>2 DEF Advance
    <3>2. status'[i] \notin {"none", "gone"}
      BY <1>0, <2>1, <2>2, SMTT(30) DEF ListTypeOK, Advance, Registered, Steps
    <3> QED BY <2>1, <3>1, <3>2 DEF Registered, Matches
  <2>3. CASE Unregister(j)
    <3>1. i # j
      BY <1>4, <2>3 DEF Unregister
    <3>2. status'[i] = status[i]
      BY <1>0, <2>1, <2>3, <3>1 DEF ListTypeOK, Unregister
    <3> QED BY <2>1, <3>2 DEF Registered, Matches
  <2> QED BY <2>2, <2>3
<1>5. SteadyInv'
  BY <1>0, <1>1, <1>4 DEF SteadyInv, Beyond, Before, Key, AfterCursor
<1> QED BY <1>2, <1>3, <1>5 DEF ListInv

(* A call begins with a reference to every steady job.                     *)
LEMMA BeginStep ==
  ASSUME ListInv, Begin
  PROVE  ListInv'
<1>0. /\ ListTypeOK /\ PagesInv /\ SteadyInv
      /\ phase = "idle" /\ phase' = "scan" /\ refs' = Registered /\ heap' = {}
      /\ UNCHANGED <<createdAt, status, cursor, listed>>
  BY DEF ListInv, Begin
<1>1. ListTypeOK'
  <2>1. Limit > 0 => Cardinality(heap') <= Limit + 1
    <3>1. Cardinality(heap') = 0 /\ Limit \in Nat
      BY <1>0, FS_EmptySet, ListAssumption
    <3> QED BY <3>1, SMTT(30)
  <2>2. steady' \subseteq Jobs /\ refs' \subseteq Jobs
    BY <1>0 DEF Begin, ListTypeOK, Registered
  <2> QED BY <1>0, <2>1, <2>2 DEF ListTypeOK
<1>2. PagesInv'
  BY <1>0 DEF PagesInv, Before, Key, AfterCursor
<1>3. ASSUME NEW j \in steady'
      PROVE  j \in Registered /\ Matches(j) /\ (j \in Range(listed) \/ AfterCursor(j))
  <2>1. CASE cursor = Start
    <3>1. j \in Registered /\ Matches(j) /\ j \in Jobs
      BY <1>3, <2>1 DEF Begin, Registered
    <3>2. Less(Start, Key(j))
      BY <1>0, <3>1, JobKeys DEF ListTypeOK
    <3> QED BY <2>1, <3>1, <3>2 DEF AfterCursor
  <2>2. CASE cursor # Start
    BY <1>0, <1>3, <2>2 DEF Begin, SteadyInv
  <2> QED BY <2>1, <2>2
<1>4. SteadyInv'
  BY <1>0, <1>3 DEF SteadyInv, Registered, Matches, AfterCursor, Key
<1> QED BY <1>1, <1>2, <1>4 DEF ListInv

(* A scanned job is kept unless the heap has no room for it, and what falls *)
(* off the heap comes after what stays.                                    *)
LEMMA ScanStep ==
  ASSUME ListInv, NEW j \in Jobs, Scan(j)
  PROVE  ListInv'
<1>0. /\ ListTypeOK /\ PagesInv /\ SteadyInv
      /\ phase = "scan" /\ phase' = "scan" /\ j \in refs /\ refs' = refs \ {j}
      /\ UNCHANGED <<createdAt, status, cursor, listed, steady>>
  BY DEF ListInv, Scan
<1>1. /\ createdAt \in [Jobs -> 0..MaxTime] /\ heap \subseteq Jobs /\ steady \subseteq Jobs
      /\ Limit \in Nat
  BY <1>0, ListAssumption DEF ListTypeOK
<1>2. PICK n \in Nat : n = Cardinality(heap) /\ (Limit > 0 => n <= Limit + 1)
  BY <1>0, <1>1, FiniteJobs DEF ListTypeOK
\* What the scan must show of the new heap.
<1> DEFINE Kept(i) == i \in Range(listed) \/ i \in refs' \/ i \in heap' \/ Beyond(i)'
<1>3. /\ heap' \subseteq heap \cup {j} /\ (j \in heap' => j \in heap \/ AfterCursor(j))
      /\ (Limit > 0 => Cardinality(heap') <= Limit + 1)
      /\ \A i \in steady : Kept(i)
  <2> DEFINE S == heap \cup {j}
  <2>1. CASE ~ (AfterCursor(j) /\ Matches(j))
    <3>1. heap' = heap
      BY <2>1 DEF Scan
    <3>2. ASSUME NEW i \in steady PROVE Kept(i)
      <4>1. i \in Range(listed) \/ i \in refs \/ i \in heap \/ Beyond(i)
        BY <1>0 DEF SteadyInv
      <4>2. i = j => i \in Range(listed)
        BY <1>0, <2>1 DEF SteadyInv
      <4>3. Beyond(i) => Beyond(i)'
        BY <1>0, <3>1 DEF Beyond, Before, Key
      <4> QED BY <1>0, <3>1, <4>1, <4>2, <4>3
    <3> QED BY <1>2, <3>1, <3>2
  <2>2. CASE AfterCursor(j) /\ Matches(j) /\ Limit > 0 /\ Cardinality(S) > Limit + 1
    <3>1. j \notin heap /\ n = Limit + 1 /\ Cardinality(S) = n + 1
      <4>1. Cardinality(S) = IF j \in heap THEN n ELSE n + 1
        BY <1>1, <1>2, FiniteJobs, FS_AddElement
      <4> QED BY <1>1, <1>2, <2>2, <4>1, SMTT(30)
    <3> DEFINE top == Largest(S)
    <3>2. heap' = S \ {top}
      BY <2>2 DEF Scan, Keep
    <3>3. top \in S /\ \A i \in S \ {top} : Before(i, top)
      BY <1>1, LargestJob
    <3> HIDE DEF top
    <3>4. Cardinality(heap') = Limit + 1
      <4>1. IsFiniteSet(S)
        BY <1>1, FiniteJobs
      <4>2. Cardinality(heap') = Cardinality(S) - 1
        BY <3>2, <3>3, <4>1, FS_RemoveElement
      <4> QED BY <1>1, <3>1, <4>2, SMTT(30)
    <3>5. ASSUME NEW i \in steady PROVE Kept(i)
      <4>1. i \in Range(listed) \/ i \in refs \/ i \in heap \/ Beyond(i)
        BY <1>0 DEF SteadyInv
      <4>2. i = top => Beyond(i)'
        BY <1>0, <2>2, <3>2, <3>3, <3>4 DEF Beyond, Before, Key
      <4>3. ASSUME Beyond(i) PROVE Beyond(i)'
        <5>1. ASSUME NEW k \in heap' PROVE Before(k, i)
          <6>1. k \in heap => Before(k, i)
            BY <4>3 DEF Beyond
          <6>2. CASE k \notin heap
            <7>1. k = j /\ top \in heap /\ Before(k, top) /\ Before(top, i)
              BY <3>2, <3>3, <4>3, <5>1, <6>2 DEF Beyond
            <7> QED BY <1>1, <7>1, JobOrder
          <6> QED BY <6>1, <6>2
        <5> QED BY <1>0, <2>2, <3>4, <5>1 DEF Beyond, Before, Key
      <4> QED BY <1>0, <3>2, <4>1, <4>2, <4>3
    <3> QED BY <1>1, <2>2, <3>2, <3>4, <3>5, SMTT(30)
  <2>3. CASE AfterCursor(j) /\ Matches(j) /\ ~ (Limit > 0 /\ Cardinality(S) > Limit + 1)
    <3>1. heap' = S
      BY <2>3 DEF Scan, Keep
    <3>2. Limit > 0 => Cardinality(heap') <= Limit + 1
      <4>1. Cardinality(S) \in Nat
        BY <1>1, FiniteJobs
      <4> QED BY <1>1, <2>3, <3>1, <4>1, SMTT(30)
    <3>3. ASSUME NEW i \in steady PROVE Kept(i)
      <4>1. i \in Range(listed) \/ i \in refs \/ i \in heap \/ Beyond(i)
        BY <1>0 DEF SteadyInv
      <4>2. ASSUME Beyond(i) PROVE Beyond(i)'
        <5>1. Cardinality(S) = IF j \in heap THEN n ELSE n + 1
          BY <1>1, <1>2, FiniteJobs, FS_AddElement
        <5>2. j \in heap
          BY <1>1, <1>2, <2>3, <4>2, <5>1, SMTT(30) DEF Beyond
        <5> QED BY <1>0, <3>1, <4>2, <5>2 DEF Beyond, Before, Key
      <4> QED BY <1>0, <3>1, <4>1, <4>2
    <3> QED BY <2>3, <3>1, <3>2, <3>3
  <2> QED BY <2>1, <2>2, <2>3
<1>4. ListTypeOK'
  BY <1>0, <1>3 DEF ListTypeOK
<1>5. PagesInv'
  BY <1>0, <1>3 DEF PagesInv, Before, Key, AfterCursor
<1>6. SteadyInv'
  BY <1>0, <1>3 DEF SteadyInv, Registered, Matches, AfterCursor, Key
<1> QED BY <1>4, <1>5, <1>6 DEF ListInv

\* The jobs 1..l of the sorted heap, page, follow the m jobs listed before: all
\* of them, or a full page that ends at the new cursor.
Paged(m, n, l, page) ==
  /\ n = Cardinality(heap) /\ l <= n
  /\ \A i, k \in 1..n : i < k => Before(page[i], page[k])
  /\ \A j \in heap : \E i \in 1..n : page[i] = j
  /\ DOMAIN listed = 1..m /\ DOMAIN listed' = 1..(m + l) /\ listed' \in Seq(Jobs)
  /\ \A i \in 1..m : listed'[i] = listed[i]
  /\ \A i \in 1..l : listed'[m + i] = page[i]
  /\ \/ /\ Limit > 0 /\ n > Limit /\ l = Limit
        /\ phase' = "idle" /\ cursor' = Key(page[l])
     \/ ~ (Limit > 0 /\ n > Limit) /\ l = n /\ phase' = "done" /\ cursor' = cursor

(* What a call returns: the first jobs of the sorted heap, all of them or  *)
(* a full page that ends at the new cursor.                                *)
LEMMA Returned ==
  ASSUME ListInv, Return
  PROVE  \E m, n, l \in Nat : \E page \in [1..n -> heap] : Paged(m, n, l, page)
<1>1. /\ createdAt \in [Jobs -> 0..MaxTime] /\ heap \subseteq Jobs /\ Limit \in Nat
      /\ listed \in Seq(Jobs)
  BY ListAssumption DEF ListInv, ListTypeOK, PagesInv
<1>2. PICK n \in Nat : /\ n = Cardinality(heap) /\ InOrder(heap) \in [1..n -> heap]
                       /\ \A i, k \in 1..n : i < k => Before(InOrder(heap)[i], InOrder(heap)[k])
                       /\ \A j \in heap : \E i \in 1..n : InOrder(heap)[i] = j
  BY <1>1, PageInOrder
<1> DEFINE page == InOrder(heap)
           more == Limit > 0 /\ n > Limit
           out  == IF more THEN SubSeq(page, 1, Limit) ELSE page
           l    == IF more THEN Limit ELSE n
<1>3. page \in Seq(Jobs) /\ Len(page) = n
  <2> HIDE DEF page
  <2> QED BY <1>1, <1>2, SMTT(30) DEF page
<1>4. /\ listed' = listed \o out
      /\ phase' = IF more THEN "idle" ELSE "done"
      /\ cursor' = IF more THEN Key(out[Len(out)]) ELSE cursor
  BY <1>3 DEF Return
<1> HIDE DEF page
<1>5. out \in Seq(Jobs) /\ Len(out) = l /\ l \in Nat /\ l <= n /\ \A i \in 1..l : out[i] = page[i]
  <2>1. CASE more
    <3>1. 1 \in 1..(n + 1) /\ Limit \in 0..n /\ Limit # 0
      BY <1>1, <2>1, SMTT(30)
    <3>2. \A i \in 1..Limit : 1 <= i /\ 1 + i - 1 = i
      BY <1>1, SMTT(30)
    <3>3. /\ SubSeq(page, 1, Limit) \in Seq(Jobs) /\ Len(SubSeq(page, 1, Limit)) = Limit
          /\ \A i \in 1..Limit : SubSeq(page, 1, Limit)[i] = page[i]
      BY <1>1, <1>3, <3>1, <3>2, SubSeqProperties, SMTT(30)
    <3> QED BY <1>1, <2>1, <3>3, SMTT(30)
  <2>2. CASE ~more
    BY <1>3, <2>2, SMTT(30)
  <2> QED BY <2>1, <2>2
<1>6. PICK m \in Nat : m = Len(listed) /\ DOMAIN listed = 1..m
  BY <1>1, LenProperties
<1>7. more => out[Len(out)] = page[l]
  BY <1>1, <1>5, SMTT(30)
<1> HIDE DEF out, l
<1>8. /\ listed' \in Seq(Jobs) /\ Len(listed') = m + l
      /\ \A i \in 1..(m + l) : listed'[i] = IF i <= m THEN listed[i] ELSE out[i - m]
  BY <1>1, <1>4, <1>5, <1>6, ConcatProperties
<1>9. /\ DOMAIN listed' = 1..(m + l)
      /\ \A i \in 1..m : listed'[i] = listed[i]
      /\ \A i \in 1..l : listed'[m + i] = page[i]
  <2>1. DOMAIN listed' = 1..(m + l)
    BY <1>8, LenProperties
  <2>2. \A i \in 1..l : m + i \in 1..(m + l) /\ ~ (m + i <= m) /\ (m + i) - m = i
    BY <1>5, <1>6, SMTT(30)
  <2>3. \A i \in 1..m : i \in 1..(m + l) /\ i <= m
    BY <1>5, <1>6, SMTT(30)
  <2> QED BY <1>5, <1>8, <2>1, <2>2, <2>3
<1>10. \/ /\ Limit > 0 /\ n > Limit /\ l = Limit
          /\ phase' = "idle" /\ cursor' = Key(page[l])
       \/ ~ (Limit > 0 /\ n > Limit) /\ l = n /\ phase' = "done" /\ cursor' = cursor
  BY <1>4, <1>7 DEF l
<1>11. /\ page \in [1..n -> heap] /\ n = Cardinality(heap)
       /\ \A i, k \in 1..n : i < k => Before(page[i], page[k])
       /\ \A j \in heap : \E i \in 1..n : page[i] = j
  BY <1>2 DEF page
<1>12. l \in Nat /\ l <= n
  BY <1>5
<1>13. Paged(m, n, l, page)
  BY <1>6, <1>8, <1>9, <1>10, <1>11, <1>12 DEF Paged
<1> QED BY <1>6, <1>11, <1>12, <1>13

(* A page continues the pages before it, and what it leaves out comes      *)
(* after its last job.                                                     *)
LEMMA ReturnStep ==
  ASSUME ListInv, Return
  PROVE  ListInv'
<1>0. /\ ListTypeOK /\ PagesInv /\ SteadyInv
      /\ phase = "scan" /\ refs = {} /\ refs' = {} /\ heap' = {}
      /\ UNCHANGED <<createdAt, status, steady>>
  BY DEF ListInv, Return
<1>1. /\ createdAt \in [Jobs -> 0..MaxTime] /\ heap \subseteq Jobs /\ steady \subseteq Jobs
      /\ Limit \in Nat /\ MaxTime \in Nat
  BY <1>0, ListAssumption DEF ListTypeOK
<1>a. PICK m, n, l \in Nat : \E page \in [1..n -> heap] : Paged(m, n, l, page)
  BY Returned
<1>2. PICK page \in [1..n -> heap] : Paged(m, n, l, page)
  BY <1>a
<1> USE DEF Paged
<1>3. ListTypeOK'
  <2>1. Limit > 0 => Cardinality(heap') <= Limit + 1
    <3>1. Cardinality(heap') = 0
      BY <1>0, FS_EmptySet
    <3> QED BY <1>1, <3>1, SMTT(30)
  <2>2. cursor' \in [at : -1..MaxTime, id : Jobs \cup {-1}]
    <3>1. CASE cursor' = cursor
      BY <1>0, <3>1 DEF ListTypeOK
    <3>2. CASE l > 0 /\ cursor' = Key(page[l])
      <4>1. PICK j \in Jobs : j = page[l]
        BY <1>1, <1>2, <3>2, SMTT(30)
      <4>2. createdAt[j] \in -1..MaxTime
        <5>1. createdAt[j] \in 0..MaxTime
          BY <1>1
        <5> QED BY <1>1, <5>1, SMTT(30)
      <4> QED BY <3>2, <4>1, <4>2 DEF Key
    <3> QED BY <1>2, <3>1, <3>2
  <2>3. phase' \in {"idle", "scan", "done"}
    BY <1>2
  <2> QED BY <1>0, <2>1, <2>2, <2>3 DEF ListTypeOK
<1>4. \A i \in 1..m : listed[i] \in Jobs
  BY <1>0, <1>2, ElementOfSeq, SMTT(30) DEF PagesInv
<1>5. ASSUME NEW i \in 1..(m + l), NEW k \in 1..(m + l), i < k
      PROVE  Before(listed'[i], listed'[k])
  <2>1. CASE k <= m
    <3>1. i \in 1..m /\ k \in 1..m
      BY <1>5, <2>1, SMTT(30)
    <3> QED BY <1>0, <1>2, <1>5, <3>1 DEF PagesInv
  <2>2. CASE i > m
    <3>1. i - m \in 1..l /\ k - m \in 1..l /\ i - m < k - m /\ m + (i - m) = i /\ m + (k - m) = k
      BY <1>5, <2>2, SMTT(30)
    <3>2. listed'[i] = page[i - m] /\ listed'[k] = page[k - m]
      BY <1>2, <3>1
    <3> QED BY <1>2, <3>1, <3>2, SMTT(30)
  <2>3. CASE i <= m /\ k > m
    <3>1. i \in 1..m /\ k - m \in 1..l /\ k - m \in 1..n /\ m + (k - m) = k
      BY <1>2, <1>5, <2>3, SMTT(30)
    <3>2. PICK a \in Jobs, b \in heap : a = listed[i] /\ b = page[k - m]
                                        /\ a = listed'[i] /\ b = listed'[k]
      BY <1>2, <1>4, <3>1, SMTT(30)
    <3>3. ~Less(cursor, Key(a)) /\ Less(cursor, Key(b))
      BY <1>0, <1>2, <3>1, <3>2 DEF PagesInv, AfterCursor
    <3>4. cursor \in Keys /\ Key(a) \in Keys /\ Key(b) \in Keys
      <4>1. Jobs \subseteq Int
        BY ListAssumption, SMTT(30)
      <4>2. cursor.at \in Int /\ cursor.id \in Int /\ cursor = [at |-> cursor.at, id |-> cursor.id]
        <5>1. cursor \in [at : -1..MaxTime, id : Jobs \cup {-1}]
          BY <1>0 DEF ListTypeOK
        <5>2. -1..MaxTime \subseteq Int /\ Jobs \cup {-1} \subseteq Int
          BY <1>1, <4>1, SMTT(30)
        <5> QED BY <5>1, <5>2
      <4>3. cursor \in Keys
        BY <4>2 DEF Keys
      <4> QED BY <1>1, <3>2, <4>3, JobKeys
    <3> QED BY <3>2, <3>3, <3>4, KeyOrder DEF Before
  <2> QED BY <1>5, <2>1, <2>2, <2>3, SMTT(30)
<1>6. ASSUME phase' # "done", NEW i \in 1..(m + l)
      PROVE  ~Less(cursor', Key(listed'[i]))
  <2>1. /\ l \in 1..n /\ l \in 1..l /\ cursor' = Key(page[l]) /\ listed'[m + l] = page[l]
        /\ m + l \in 1..(m + l) /\ page[l] \in Jobs
    BY <1>1, <1>2, <1>6, SMTT(30)
  <2>2. CASE i = m + l
    BY <1>1, <2>1, <2>2, JobOrder DEF Before
  <2>3. CASE i # m + l
    <3>1. i < m + l
      BY <1>6, <2>3, SMTT(30)
    <3>2. Before(listed'[i], page[l])
      BY <1>5, <2>1, <3>1
    <3>3. listed'[i] \in Jobs
      BY <1>2, ElementOfSeq, LenProperties
    <3> QED BY <1>1, <2>1, <3>2, <3>3, JobOrder DEF Before
  <2> QED BY <2>2, <2>3
<1>7. PagesInv'
  <2>1. \A i, k \in DOMAIN listed' : i < k => Before(listed[i], listed[k])'
    BY <1>0, <1>2, <1>5 DEF Before, Key
  <2>2. phase' # "done" => \A i \in DOMAIN listed' : ~Less(cursor, Key(listed[i]))'
    BY <1>0, <1>2, <1>6 DEF Less, Key
  <2> QED BY <1>0, <1>2, <2>1, <2>2 DEF PagesInv
<1>8. Range(listed) \subseteq Range(listed')
  <2>1. \A i \in 1..m : i \in 1..(m + l)
    BY SMTT(30)
  <2>2. \A i \in DOMAIN listed : i \in DOMAIN listed' /\ listed'[i] = listed[i]
    BY <1>2, <2>1
  <2> QED BY <2>2 DEF Range
<1>9. ASSUME NEW j \in steady
      PROVE  j \in Range(listed') \/ (phase' # "done" /\ Less(cursor', Key(j)))
  <2>1. j \in Range(listed) \/ j \in heap \/ Beyond(j)
    BY <1>0 DEF SteadyInv
  <2>2. CASE j \in heap
    <3>1. PICK i \in 1..n : page[i] = j
      BY <1>2, <2>2
    <3>2. CASE i <= l
      <4>1. i \in 1..l /\ m + i \in 1..(m + l)
        BY <1>2, <3>1, <3>2, SMTT(30)
      <4>2. listed'[m + i] = j
        BY <1>2, <3>1, <4>1
      <4> QED BY <1>2, <4>1, <4>2 DEF Range
    <3>3. CASE i > l
      <4>1. phase' = "idle" /\ cursor' = Key(page[l]) /\ l \in 1..n /\ l < i
        BY <1>1, <1>2, <3>1, <3>3, SMTT(30)
      <4>2. Before(page[l], page[i])
        BY <1>2, <3>1, <4>1
      <4> QED BY <3>1, <4>1, <4>2 DEF Before
    <3> QED BY <1>2, <3>1, <3>2, <3>3, SMTT(30)
  <2>3. CASE Beyond(j)
    <3>1. Limit > 0 /\ n = Limit + 1
      BY <1>2, <2>3 DEF Beyond
    <3>2. phase' = "idle" /\ cursor' = Key(page[l]) /\ l \in 1..n
      BY <1>1, <1>2, <3>1, SMTT(30)
    <3>3. Before(page[l], j)
      BY <1>2, <2>3, <3>2 DEF Beyond
    <3> QED BY <3>2, <3>3 DEF Before
  <2> QED BY <1>8, <2>1, <2>2, <2>3
<1>10. SteadyInv'
  <2>1. \A j \in steady : j \in Registered' /\ Matches(j)'
    BY <1>0 DEF SteadyInv, Registered, Matches
  <2>2. \A j \in steady : AfterCursor(j)' <=> Less(cursor', Key(j))
    BY <1>0 DEF AfterCursor, Key
  <2>3. phase' # "scan"
    BY <1>2
  <2> QED BY <1>0, <1>9, <2>1, <2>2, <2>3 DEF SteadyInv
<1> QED BY <1>3, <1>7, <1>10 DEF ListInv

(* Every step of the listing keeps its invariant.                          *)
LEMMA ListStep ==
  ASSUME ListInv, [ListNext]_listVars
  PROVE  ListInv'
<1>1. CASE UNCHANGED listVars
  <2>1. UNCHANGED <<createdAt, status, phase, cursor, refs, heap, listed, steady>>
    BY <1>1 DEF listVars
  <2> QED BY <2>1 DEF ListInv, ListTypeOK, PagesInv, SteadyInv, Beyond, Before, Key,
             AfterCursor,
             Registered, Matches
<1> QED BY <1>1, JobsStep, BeginStep, ScanStep, ReturnStep DEF ListNext

(* Enumerating the jobs keeps ListInv, for any jobs, page size and filter. *)
THEOREM Listing == ListSpec => []ListInv
<1> QED BY InitListing, ListStep, PTL DEF ListSpec

(* For any jobs and page size, no job is listed twice and the pages follow *)
(* one another in (created_at, job_id) order.                              *)
THEOREM PagesInOrder == ListSpec => []ListedInOrder
<1>1. ListInv => ListedInOrder
  BY DEF ListInv, ListedInOrder, PagesInv, Before
<1> QED BY Listing, <1>1, PTL

(* For any jobs and page size, a job that is there and matches throughout  *)
(* the enumeration is listed.                                              *)
THEOREM PagesComplete == ListSpec => []ListedAll
<1>1. ListInv => ListedAll
  BY DEF ListInv, ListedAll, SteadyInv
<1> QED BY Listing, <1>1, PTL
===============================================================================
