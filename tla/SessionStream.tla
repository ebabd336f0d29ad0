---------------------------- MODULE SessionStream ----------------------------
(***************************************************************************)
(* The event stream of one session id across reconnects: the shared        *)
(* event_seq allocator, the event log, the live session for the id, the    *)
(* resume registry's entry, and the connections that carry the stream one  *)
(* after the other (server/session.go, server/server.go).  Jobs emit from  *)
(* their own goroutines and outlive the connection that submitted them.    *)
(*                                                                         *)
(* A connection's outbox, writeLoop and transport are one FIFO pipe that   *)
(* may lose what it holds (OutboxPipe, which Connection implements).       *)
(* Back-pressure is off (AckLagThreshold = 0, the default).  Server.Close  *)
(* is the subject of ServerLifecycle.                                      *)
(***************************************************************************)
EXTENDS Naturals, Sequences, FiniteSets, EventLog

CONSTANTS Jobs,         \* job goroutines that emit events
          Rotators,     \* the jobs whose agent also rotates credentials
          EventLogSize, \* Options.EventLogSize
          MaxConns,     \* bound: connections ever made for this session id
          MaxSeq        \* bound: event_seq values allocated

ASSUME StreamAssumption ==
  /\ Rotators \subseteq Jobs
  /\ EventLogSize \in Nat \ {0}
  /\ MaxConns \in Nat \ {0}
  /\ MaxSeq \in Nat

Conns == 1 .. MaxConns
None == 0
NoEntry == [token |-> None, seq |-> 0]
Welcome == 0   \* session.welcome in a pipe of event_seq values

VARIABLES
  seq,        \* seqAlloc.val
  allocated,  \* whether seqAllocs holds this id's allocator
  log,        \* the id's event log
  current,    \* Server.current: the live connection, or None
  resume,     \* Server.resumes: the entry's token and seq, or NoEntry
  st,         \* progress of each connection's Accept
  from,       \* LastEventSeq of each resumed connection
  claimed,    \* seq of the entry a connection claimed
  todo,       \* what replayBuffered has still to enqueue
  bye,        \* gracefulBye of each connection
  pipe,       \* outbox and transport of each connection
  down,       \* whether each connection's transport is gone
  job,        \* each job goroutine: [pc, seq, to, home]
  token,      \* the connection whose welcome the client received last
  high,       \* the client's HighestSeq on each connection
  got,        \* the events the client has received
  purging     \* the janitor holds this id, deleted from resumes, to trim

serverVars == <<seq, allocated, log, current, resume, purging>>
connVars == <<st, from, claimed, todo, bye>>
clientVars == <<token, high, got>>
vars == <<serverVars, connVars, pipe, down, job, clientVars>>

Larger(m, n) == IF m > n THEN m ELSE n
Elems(s) == {s[i] : i \in 1 .. Len(s)}

Init ==
  /\ seq = 0 /\ allocated = FALSE /\ log = {} /\ current = None
  /\ resume = NoEntry /\ purging = FALSE
  /\ st = [c \in Conns |-> "unused"]
  /\ from = [c \in Conns |-> 0] /\ claimed = [c \in Conns |-> 0]
  /\ todo = [c \in Conns |-> {}] /\ bye = [c \in Conns |-> FALSE]
  /\ pipe = [c \in Conns |-> <<>>] /\ down = [c \in Conns |-> FALSE]
  /\ job = [j \in Jobs |-> [pc |-> "idle", seq |-> 0, to |-> None, home |-> None]]
  /\ token = None /\ high = [c \in Conns |-> 0] /\ got = {}

Step(c, a, b) == st[c] = a /\ st' = [st EXCEPT ![c] = b]

-------------------------------------------------------------------------------
(* handshake.  The first connection creates the session id; a later one    *)
(* presents the token of the last welcome its client saw and the           *)
(* HighestSeq of that connection.                                          *)

FreshHello ==
  /\ Step(1, "unused", "ready")
  /\ allocated' = TRUE
  /\ pipe' = [pipe EXCEPT ![1] = <<Welcome>>]
  /\ UNCHANGED <<seq, log, current, resume, purging, from, claimed,
                 todo, bye, down, job, clientVars>>

Reconnecting(c) == c > 1 /\ token # None /\ st[c - 1] # "unused" /\ down[c - 1]

\* Mutant of Claim: the claimed entry stays in the registry.
ClaimKeepsEntry(c) ==
  /\ Reconnecting(c)
  /\ resume # NoEntry /\ resume.token = token
  /\ Step(c, "unused", "claimed")
  /\ from' = [from EXCEPT ![c] = high[token]]
  /\ claimed' = [claimed EXCEPT ![c] = resume.seq]
  /\ UNCHANGED <<serverVars, todo, bye, pipe, down, job, clientVars>>

\* claimResume succeeds and consumes the entry.
Claim(c) ==
  /\ Reconnecting(c)
  /\ resume # NoEntry /\ resume.token = token
  /\ Step(c, "unused", "claimed")
  /\ resume' = NoEntry
  /\ from' = [from EXCEPT ![c] = high[token]]
  /\ claimed' = [claimed EXCEPT ![c] = resume.seq]
  /\ UNCHANGED <<seq, allocated, log, current, purging, todo, bye,
                 pipe, down, job, clientVars>>

\* claimResume fails: no entry, or the token is not the entry's.
Refuse(c) ==
  /\ Reconnecting(c)
  /\ resume = NoEntry \/ resume.token # token
  /\ Step(c, "unused", "gone")
  /\ down' = [down EXCEPT ![c] = TRUE]
  /\ UNCHANGED <<serverVars, from, claimed, todo, bye, pipe, job, clientVars>>

\* The gap check of the resume path (#136).
GapDetected(c) == from[c] > 0 /\ log # {} /\ Oldest(log) > from[c] + 1

CheckGap(c) ==
  /\ IF GapDetected(c)
       THEN Step(c, "claimed", "gapped") /\ down' = [down EXCEPT ![c] = TRUE]
       ELSE Step(c, "claimed", "checked") /\ UNCHANGED down
  /\ UNCHANGED <<serverVars, from, claimed, todo, bye, pipe, job, clientVars>>

\* Mutant of SendWelcome: the counter restarts from the stashed seq.
SendWelcomeResets(c) ==
  /\ Step(c, "checked", "ready")
  /\ pipe' = [pipe EXCEPT ![c] = IF down[c] THEN <<>> ELSE <<Welcome>>]
  /\ seq' = claimed[c]
  /\ allocated' = TRUE
  /\ UNCHANGED <<log, current, resume, purging, from, claimed, todo,
                 bye, down, job, clientVars>>

\* The welcome is sent, the allocator found again (or made anew from the
\* entry's seq) and the session struct built.
SendWelcome(c) ==
  /\ Step(c, "checked", "ready")
  /\ pipe' = [pipe EXCEPT ![c] = IF down[c] THEN <<>> ELSE <<Welcome>>]
  /\ seq' = Larger(claimed[c], IF allocated THEN seq ELSE 0)
  /\ allocated' = TRUE
  /\ UNCHANGED <<log, current, resume, purging, from, claimed, todo,
                 bye, down, job, clientVars>>

WelcomeFails(c) ==
  /\ Step(c, "checked", "gone")
  /\ down' = [down EXCEPT ![c] = TRUE]
  /\ UNCHANGED <<serverVars, from, claimed, todo, bye, pipe, job, clientVars>>

-------------------------------------------------------------------------------
(* run: become the live session, replay, read; then the teardown.          *)

Start(c) ==
  /\ Step(c, "ready", IF c = 1 THEN "live" ELSE "replay")
  /\ current' = c
  /\ UNCHANGED <<seq, allocated, log, resume, purging, from, claimed,
                 todo, bye, pipe, down, job, clientVars>>

ReadLog(c) ==
  /\ Step(c, "replay", "replaying")
  /\ todo' = [todo EXCEPT ![c] = Since(log, from[c])]
  /\ UNCHANGED <<serverVars, from, claimed, bye, pipe, down, job, clientVars>>

\* enqueue on connection c: a closed outbox refuses, a broken transport
\* swallows, and while s.ctx is being cancelled select may go either way.
Enqueue(c, s) ==
  \/ /\ st[c] \in {"replay", "replaying", "live", "left", "cleared"}
     /\ ~down[c]
     /\ pipe' = [pipe EXCEPT ![c] = Append(@, s)]
  \/ /\ st[c] \notin {"replay", "replaying", "live"} \/ down[c]
     /\ UNCHANGED pipe

\* replayBuffered enqueues the snapshot in event_seq order.
ReplayOne(c) ==
  /\ st[c] = "replaying"
  /\ \E s \in todo[c] :
       /\ \A t \in todo[c] : s <= t
       /\ Enqueue(c, s)
       /\ todo' = [todo EXCEPT ![c] = @ \ {s}]
  /\ UNCHANGED <<serverVars, st, from, claimed, bye, down, job, clientVars>>

StartReading(c) ==
  /\ Step(c, "replaying", "live")
  /\ todo[c] = {}
  /\ UNCHANGED <<serverVars, from, claimed, todo, bye, pipe, down, job, clientVars>>

\* handleAck trims the log.  An ack may be late, so any value up to the
\* client's HighestSeq can arrive.
HandleAck(c, n) ==
  /\ st[c] = "live"
  /\ log' = Trim(log, n)
  /\ UNCHANGED <<seq, allocated, current, resume, purging, connVars,
                 pipe, down, job, clientVars>>

\* session.close, or a transport error, a lost heartbeat, a cancelled ctx.
Leave(c, graceful) ==
  /\ Step(c, "live", "left")
  /\ bye' = [bye EXCEPT ![c] = graceful]
  /\ UNCHANGED <<serverVars, from, claimed, todo, pipe, down, job, clientVars>>

ClearCurrent(c) ==
  /\ Step(c, "left", "cleared")
  /\ current' = IF current = c THEN None ELSE current
  /\ UNCHANGED <<seq, allocated, log, resume, purging, from, claimed,
                 todo, bye, pipe, down, job, clientVars>>

CloseOutbox(c) ==
  /\ Step(c, "cleared", "closed")
  /\ UNCHANGED <<serverVars, from, claimed, todo, bye, pipe, down, job, clientVars>>

StashResume(c) ==
  /\ ~bye[c]
  /\ Step(c, "closed", "gone")
  /\ resume' = [token |-> c, seq |-> seq]
  /\ UNCHANGED <<seq, allocated, log, current, purging, from, claimed,
                 todo, bye, pipe, down, job, clientVars>>

DropResume(c) ==
  /\ bye[c]
  /\ Step(c, "closed", "gone")
  /\ resume' = NoEntry /\ log' = {} /\ allocated' = FALSE
  /\ UNCHANGED <<seq, current, purging, from, claimed, todo, bye, pipe,
                 down, job, clientVars>>

-------------------------------------------------------------------------------
(* Expiry: the janitor deletes the entry under resumeMu and trims the log  *)
(* and the allocator after it; a claim of another session id purges this   *)
(* one in one critical section and leaves the allocator.                   *)

JanitorExpire ==
  /\ resume # NoEntry
  /\ resume' = NoEntry /\ purging' = TRUE
  /\ UNCHANGED <<seq, allocated, log, current, connVars, pipe, down,
                 job, clientVars>>

JanitorTrim ==
  /\ purging
  /\ purging' = FALSE /\ log' = {} /\ allocated' = FALSE
  /\ UNCHANGED <<seq, current, resume, connVars, pipe, down, job,
                 clientVars>>

LazyPurge ==
  /\ resume # NoEntry
  /\ resume' = NoEntry /\ log' = {}
  /\ UNCHANGED <<seq, allocated, current, purging, connVars, pipe, down,
                 job, clientVars>>

-------------------------------------------------------------------------------
(* A job's emitEvent: nextSeq, then send, which persists before it looks   *)
(* up the live session and enqueues there.                                 *)

Submit(j, c) ==
  /\ job[j].home = None
  /\ st[c] = "live"
  /\ job' = [job EXCEPT ![j].home = c]
  /\ UNCHANGED <<serverVars, connVars, pipe, down, clientVars>>

NextSeq(j, pc) ==
  /\ job[j].home # None /\ job[j].pc = "idle"
  /\ seq < MaxSeq
  /\ seq' = seq + 1
  /\ job' = [job EXCEPT ![j].pc = pc, ![j].seq = seq + 1]
  /\ UNCHANGED <<allocated, log, current, resume, purging, connVars,
                 pipe, down, clientVars>>

EmitEvent(j) == NextSeq(j, "persist")

\* RotateCredential sends without persisting.
RotateCredential(j) == j \in Rotators /\ NextSeq(j, "route")

Persist(j) ==
  /\ job[j].pc = "persist"
  /\ log' = LogAppend(log, job[j].seq, EventLogSize)
  /\ job' = [job EXCEPT ![j].pc = "route"]
  /\ UNCHANGED <<seq, allocated, current, resume, purging, connVars, pipe, down,
                 clientVars>>

\* Mutant of Route: events keep going to the submitting session (#145).
RouteHome(j) ==
  /\ job[j].pc = "route"
  /\ job' = [job EXCEPT ![j].pc = "enqueue", ![j].to = job[j].home]
  /\ UNCHANGED <<serverVars, connVars, pipe, down, clientVars>>

Route(j) ==
  /\ job[j].pc = "route"
  /\ job' = [job EXCEPT ![j].pc = "enqueue",
                        ![j].to = IF current = None THEN job[j].home ELSE current]
  /\ UNCHANGED <<serverVars, connVars, pipe, down, clientVars>>

Send(j) ==
  /\ job[j].pc = "enqueue"
  /\ Enqueue(job[j].to, job[j].seq)
  /\ job' = [job EXCEPT ![j].pc = "idle", ![j].to = None]
  /\ UNCHANGED <<serverVars, connVars, down, clientVars>>

-------------------------------------------------------------------------------
(* The client's readLoop and the network.                                  *)

Receive(c) ==
  /\ pipe[c] # <<>>
  /\ pipe' = [pipe EXCEPT ![c] = Tail(@)]
  /\ IF Head(pipe[c]) = Welcome
       THEN token' = c /\ UNCHANGED <<high, got>>
       ELSE /\ high' = [high EXCEPT ![c] = Larger(@, Head(pipe[c]))]
            /\ got' = got \cup {Head(pipe[c])}
            /\ UNCHANGED token
  /\ UNCHANGED <<serverVars, connVars, down, job>>

Drop(c) ==
  /\ st[c] # "unused" /\ ~down[c]
  /\ down' = [down EXCEPT ![c] = TRUE]
  /\ pipe' = [pipe EXCEPT ![c] = <<>>]
  /\ UNCHANGED <<serverVars, connVars, job, clientVars>>

-------------------------------------------------------------------------------
ConnStep(c) ==
  \/ Claim(c) \/ Refuse(c) \/ CheckGap(c) \/ SendWelcome(c) \/ WelcomeFails(c)
  \/ Start(c) \/ ReadLog(c) \/ ReplayOne(c) \/ StartReading(c)
  \/ \E n \in 1 .. high[c] : HandleAck(c, n)
  \/ \E graceful \in BOOLEAN : Leave(c, graceful)
  \/ ClearCurrent(c) \/ CloseOutbox(c) \/ StashResume(c) \/ DropResume(c)
  \/ Receive(c) \/ Drop(c)

JobStep(j) ==
  \/ \E c \in Conns : Submit(j, c)
  \/ EmitEvent(j) \/ RotateCredential(j) \/ Persist(j) \/ Route(j) \/ Send(j)

Next ==
  \/ FreshHello
  \/ \E c \in Conns : ConnStep(c)
  \/ \E j \in Jobs : JobStep(j)
  \/ JanitorExpire \/ JanitorTrim \/ LazyPurge

Spec == Init /\ [][Next]_vars

-------------------------------------------------------------------------------
Active == {"claimed", "checked", "ready", "replay", "replaying", "live",
           "left", "cleared", "closed"}
Serving == {"replay", "replaying", "live", "left"}

(* Every variable stays in its type; no event beyond the allocator's       *)
(* counter exists anywhere (setIfGreater never moves the counter back).    *)
TypeOK ==
  /\ seq \in Nat /\ allocated \in BOOLEAN
  /\ Seqs(log) \subseteq 1 .. seq
  /\ current \in Conns \cup {None}
  /\ resume \in [token : Conns \cup {None}, seq : 0 .. seq]
  /\ st \in [Conns -> Active \cup {"unused", "gapped", "gone"}]
  /\ from \in [Conns -> 0 .. seq] /\ claimed \in [Conns -> 0 .. seq]
  /\ todo \in [Conns -> SUBSET (1 .. seq)] /\ bye \in [Conns -> BOOLEAN]
  /\ pipe \in [Conns -> Seq(0 .. seq)] /\ down \in [Conns -> BOOLEAN]
  /\ job \in [Jobs -> [pc : {"idle", "persist", "route", "enqueue"},
                       seq : 0 .. seq, to : Conns \cup {None},
                       home : Conns \cup {None}]]
  /\ token \in Conns \cup {None} /\ high \in [Conns -> 0 .. seq]
  /\ got \subseteq 1 .. seq /\ purging \in BOOLEAN

(* A session id has one owner at a time.  It is either one connection,     *)
(* between its claim and its stash, or the resume entry, never two and     *)
(* never both; and the live-session registry points at exactly the         *)
(* connection that is between setCurrentSession and clearCurrentSession.   *)
(* While a connection owns the id its allocator stays registered too, so a *)
(* resumed session and the jobs of the earlier one share one counter.      *)
OneOwner ==
  /\ \A c, d \in Conns : st[c] \in Active /\ st[d] \in Active => c = d
  /\ resume # NoEntry => \A c \in Conns : st[c] \notin Active
  /\ \A c \in Conns : current = c <=> st[c] \in Serving
  /\ \A c \in Conns : st[c] \in Active => allocated

(* No event_seq is used twice for one session id, across connections and   *)
(* jobs, so the log never holds two entries with the same event_seq.       *)
SeqsDistinct ==
  /\ TypeOK
  /\ \A e, f \in log : e.seq = f.seq => e = f
  /\ \A j \in Jobs : job[j].pc = "persist" => job[j].seq \notin Seqs(log)
  /\ \A i, j \in Jobs : /\ job[i].pc # "idle" /\ job[j].pc # "idle"
                        /\ job[i].seq = job[j].seq
                        => i = j

\* Events whose emitter has still to hand them to connection c.
Pending(c) ==
  LET pending(j) == job[j].pc = "route" \/ (job[j].pc = "enqueue" /\ job[j].to = c)
  IN  {job[j].seq : j \in {i \in Jobs : pending(i)}}

(* Persisting before looking up the live session (#145), and becoming the  *)
(* live session before reading the log, leave no hole between replay and   *)
(* live traffic: whatever the log holds beyond LastEventSeq has reached    *)
(* the client, is on its way on this connection, or is about to be put     *)
(* there.                                                                  *)
ResumeComplete ==
  \A c \in Conns : st[c] \in {"replaying", "live"} /\ ~down[c] =>
    Since(log, from[c])
      \subseteq got \cup Elems(pipe[c]) \cup todo[c] \cup Pending(c)

===============================================================================
