------------------------------- MODULE EventLog -------------------------------
(***************************************************************************)
(* The in-memory event log of one session id (internal/eventlog): a slice  *)
(* of entries in append order, from which Append drops the oldest past a   *)
(* maximum and Trim drops the acknowledged ones.  A log is a set of        *)
(* entries [at, seq]; at is the entry's place in append order.             *)
(***************************************************************************)
EXTENDS Naturals, FiniteSets

\* The events of a log.
Seqs(log) == {e.seq : e \in log}

\* The entry a set of entries puts first in append order.
First(log) == CHOOSE e \in log : \A f \in log : e.at <= f.at

NextAt(log) ==
  IF log = {} THEN 1 ELSE (CHOOSE n \in {e.at : e \in log} :
                             \A e \in log : e.at <= n) + 1

\* Append, keeping at most max entries: the first appended goes first,
\* whatever its event_seq.
LogAppend(log, seq, max) ==
  LET grown == log \cup {[at |-> NextAt(log), seq |-> seq]}
  IN  IF Cardinality(grown) > max THEN grown \ {First(grown)} ELSE grown

Since(log, from) == {s \in Seqs(log) : s > from}

\* Oldest: the smallest retained event_seq (not the first appended).
Oldest(log) == CHOOSE s \in Seqs(log) : \A t \in Seqs(log) : s <= t

Trim(log, before) == {e \in log : e.seq > before}
===============================================================================
