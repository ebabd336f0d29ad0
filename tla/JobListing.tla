------------------------------ MODULE JobListing ------------------------------
(***************************************************************************)
(* session.list_jobs (server/server.go listJobs): a client pages through   *)
(* its jobs while jobs are registered, change status and end.  One call    *)
(* takes its references under the server's lock, scans them in map order   *)
(* reading each status on the way, and keeps the limit + 1 smallest.  Job  *)
(* ids are numbers; ties on createdAt are what the composite cursor is     *)
(* for.                                                                    *)
(***************************************************************************)
EXTENDS Integers, FiniteSets, Sequences, Functions

CONSTANTS Jobs,      \* job ids of the caller's principal
          Limit,     \* the page size; 0 asks for everything
          Filter,    \* the statuses asked for; {} asks for any
          MaxTime    \* bound on the clock that stamps createdAt

ASSUME ListAssumption ==
  Jobs \subseteq Nat /\ IsFiniteSet(Jobs) /\ Limit \in Nat /\ MaxTime \in Nat

VARIABLES
  createdAt, \* the creation time of each job
  status,    \* "none" before a job is registered, "gone" after unregisterJob
  phase,     \* where the enumeration is
  cursor,    \* the key the next page continues after
  refs,      \* references the current call has still to scan
  heap,      \* what the current call keeps
  listed,    \* every job returned so far, in order
  steady     \* history: jobs present and matching since the enumeration began

jobVars == <<createdAt, status>>
listVars == <<jobVars, phase, cursor, refs, heap, listed, steady>>

Start == [at |-> -1, id |-> -1]
Key(j) == [at |-> createdAt[j], id |-> j]

\* jobEntryLess and afterCursor compare the same composite key.
Less(a, b) == a.at < b.at \/ (a.at = b.at /\ a.id < b.id)

\* Mutant of AfterCursor: the cursor carries the creation time only.
AfterCursorTime(j) == createdAt[j] > cursor.at

\* Mutant of AfterCursor: the page starts at the cursor, not after it.
AfterCursorInclusive(j) == ~Less(Key(j), cursor)

AfterCursor(j) == Less(cursor, Key(j))

Matches(j) == Filter = {} \/ status[j] \in Filter

ListInit ==
  /\ createdAt \in [Jobs -> 0..MaxTime]
  /\ status \in [Jobs -> {"none", "pending", "running"}]
  /\ phase = "idle" /\ cursor = Start
  /\ refs = {} /\ heap = {} /\ listed = <<>> /\ steady = {}

-------------------------------------------------------------------------------
(* Jobs come and go.                                                       *)

Steps == {<<"none", "pending">>, <<"pending", "running">>, <<"running", "ended">>,
          <<"pending", "ended">>}

\* registerJob, setStatus and markTerminal.
Advance(j) ==
  /\ \E s \in Steps : status[j] = s[1] /\ status' = [status EXCEPT ![j] = s[2]]
  /\ steady' = {i \in steady : Filter = {} \/ status'[i] \in Filter}
  /\ UNCHANGED <<createdAt, phase, cursor, refs, heap, listed>>

\* unregisterJob, when run returns.
Unregister(j) ==
  /\ status[j] = "ended" /\ status' = [status EXCEPT ![j] = "gone"]
  /\ steady' = steady \ {j}
  /\ UNCHANGED <<createdAt, phase, cursor, refs, heap, listed>>

Registered == {j \in Jobs : status[j] \notin {"none", "gone"}}

-------------------------------------------------------------------------------
(* listJobs.                                                               *)

\* The references are taken under the read lock.
Begin ==
  /\ phase = "idle"
  /\ phase' = "scan" /\ refs' = Registered /\ heap' = {}
  /\ steady' = IF cursor = Start THEN {j \in Registered : Matches(j)} ELSE steady
  /\ UNCHANGED <<jobVars, cursor, listed>>

Largest(S) == CHOOSE j \in S : \A i \in S : ~Less(Key(j), Key(i))

\* The max-heap keeps the limit + 1 smallest of what has been pushed.
Keep(S) == IF Limit > 0 /\ Cardinality(S) > Limit + 1 THEN S \ {Largest(S)} ELSE S

Scan(j) ==
  /\ phase = "scan" /\ j \in refs
  /\ refs' = refs \ {j}
  /\ heap' = IF AfterCursor(j) /\ Matches(j) THEN Keep(heap \cup {j}) ELSE heap
  /\ UNCHANGED <<jobVars, phase, cursor, listed, steady>>

\* The sort of what the heap holds.
InOrder(S) ==
  CHOOSE page \in [1..Cardinality(S) -> S] :
    \A i, k \in 1..Cardinality(S) : i < k => Less(Key(page[i]), Key(page[k]))

\* A (limit+1)-th entry means another page, continued after the last returned.
Return ==
  /\ phase = "scan" /\ refs = {}
  /\ LET page == InOrder(heap)
         more == Limit > 0 /\ Len(page) > Limit
         out  == IF more THEN SubSeq(page, 1, Limit) ELSE page
     IN /\ listed' = listed \o out
        /\ phase' = IF more THEN "idle" ELSE "done"
        /\ cursor' = IF more THEN Key(out[Len(out)]) ELSE cursor
  /\ heap' = {}
  /\ UNCHANGED <<jobVars, refs, steady>>

-------------------------------------------------------------------------------
ListNext ==
  \/ Begin \/ Return
  \/ \E j \in Jobs : Advance(j) \/ Unregister(j) \/ Scan(j)

ListSpec == ListInit /\ [][ListNext]_listVars

-------------------------------------------------------------------------------
(* The variables' types.                                                   *)
ListTypeOK ==
  /\ createdAt \in [Jobs -> 0..MaxTime]
  /\ status \in [Jobs -> {"none", "pending", "running", "ended", "gone"}]
  /\ phase \in {"idle", "scan", "done"}
  /\ cursor \in [at : -1..MaxTime, id : Jobs \cup {-1}]
  /\ refs \subseteq Jobs /\ heap \subseteq Jobs /\ steady \subseteq Jobs
  /\ Limit > 0 => Cardinality(heap) <= Limit + 1

(* "pagination is stable even when CreatedAt collides across jobs (#85)"   *)
(* (server.go): over all pages no job is listed twice, and the pages       *)
(* follow one another in (created_at, job_id) order.                       *)
ListedInOrder ==
  /\ ListTypeOK
  /\ \A i, k \in DOMAIN listed : i < k => Less(Key(listed[i]), Key(listed[k]))

(* Whatever is registered, ends or changes status meanwhile, a job that    *)
(* was there when the enumeration began, and matched the filter until it   *)
(* ended, is listed.                                                       *)
ListedAll == phase = "done" => steady \subseteq Range(listed)
===============================================================================
