----------------------------- MODULE MCServerData -----------------------------
(***************************************************************************)
(* The server's data structures for TLC: the lease state of a job          *)
(* (LeaseBudget), the pattern matcher its lease rests on (Glob), the agent *)
(* table (AgentRegistry) and the job listing (JobListing).  They share no  *)
(* state, so one is examined at a time while the others stay initial.      *)
(***************************************************************************)
EXTENDS LeaseBudget, AgentRegistry, JobListing, TLC

-------------------------------------------------------------------------------
(* Leases.                                                                 *)

Amount(c, v) == [cur |-> c, value |-> v]

\* "USD:3", "EUR:2", "USD:2"
TwoCurrencies == <<Amount("USD", 3), Amount("EUR", 2), Amount("USD", 2)>>

\* Workers are interchangeable.
Symmetry == Permutations(Workers)

Children ==
  {<<Amount("USD", 2)>>, <<Amount("USD", 4), Amount("EUR", 1)>>,
   <<Amount("USD", 2), Amount("EUR", 2), Amount("USD", 1)>>}

-------------------------------------------------------------------------------
(* Patterns.                                                               *)

VARIABLES parentPattern, childPattern, answer
patterns == <<parentPattern, childPattern, answer>>

Pattern == INSTANCE Glob WITH
  parent <- parentPattern, child <- childPattern,
  Chars <- {"a"}, MaxPatChars <- 2, MaxChars <- 2, MaxPatSegs <- 3, MaxSegs <- 4,
  Letters <- {"a", "b"}, MaxLetters <- 4

-------------------------------------------------------------------------------
(* Agent versions.                                                         *)

\* A number component: lex ranks its text among all components in use.
Num(n, l) == [lex |-> l, num |-> n]

\* 1.9, 1.10, 2, 1.9.1: numbers only ("1" < "10" < "2" < "9" lexically).
NumericVersions ==
  {<<Num(1, 1), Num(9, 4)>>, <<Num(1, 1), Num(10, 2)>>, <<Num(2, 3)>>,
   <<Num(1, 1), Num(9, 4), Num(1, 1)>>}

-------------------------------------------------------------------------------
VARIABLE focus \* the structure under examination

dataVars == <<focus, leaseVars, patterns, agentVars, listVars>>

\* The initial states of a structure that is left alone.
NoPatterns == parentPattern = <<>> /\ childPattern = <<>> /\ answer = "none"
NoJobs == createdAt = [j \in Jobs |-> 0] /\ status = [j \in Jobs |-> "none"]

DataInit ==
  /\ focus \in {"lease", "patterns", "agents", "listing"}
  /\ LeaseInit /\ AgentInit
  /\ focus # "patterns" => NoPatterns
  /\ Pattern!Init
  /\ focus # "listing" => NoJobs
  /\ ListInit

DataNext ==
  \/ focus = "lease" /\ LeaseNext /\ UNCHANGED <<focus, patterns, agentVars, listVars>>
  \/ focus = "patterns" /\ Pattern!Next /\ UNCHANGED <<focus, leaseVars, agentVars, listVars>>
  \/ focus = "agents" /\ AgentNext /\ UNCHANGED <<focus, leaseVars, patterns, listVars>>
  \/ focus = "listing" /\ ListNext /\ UNCHANGED <<focus, leaseVars, patterns, agentVars>>

DataSpec == DataInit /\ [][DataNext]_dataVars

-------------------------------------------------------------------------------
(* Glob: Covers grants a child nothing its parent does not.                *)
CoversSound == Pattern!CoversSound

(* Glob: literalSegmentMatch accepts what the pattern denotes.             *)
SegmentsExact == Pattern!SegmentsExact
===============================================================================
