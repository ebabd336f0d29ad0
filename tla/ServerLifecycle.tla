---------------------------- MODULE ServerLifecycle ----------------------------
(***************************************************************************)
(* Server.Accept against Server.Close and the janitor (server/server.go):  *)
(* the session registry, the sessionsDone channel Close waits for, and the *)
(* resume registry that must be empty once Close has returned.  A session  *)
(* id is named after the connection whose handshake created it; what a     *)
(* session does between register and exit is the subject of Connection.    *)
(***************************************************************************)
EXTENDS Naturals, FiniteSets

CONSTANTS Conns,   \* transports passed to Accept
          Closers  \* goroutines that call Close

VARIABLES
  acc,          \* where the Accept of each connection is
  sid,          \* the session id each handshake settled on
  graceful,     \* gracefulBye of each session
  cancelled,    \* whether each session's ctx is cancelled
  sessions,     \* Server.sessions
  resumes,      \* session ids with an entry in Server.resumes
  closer,       \* where each Close is
  todo,         \* the sessions Close has snapshotted and not yet cancelled
  closeCh,      \* closeCh is closed
  lifeDone,     \* lifeCtx is cancelled
  sessionsDone, \* sessionsDone is closed
  janitor       \* where janitorTick is

acceptVars == <<acc, sid, graceful, cancelled, sessions>>
closeVars == <<closer, todo, closeCh, lifeDone>>
vars == <<acceptVars, resumes, closeVars, sessionsDone, janitor>>

Init ==
  /\ acc = [c \in Conns |-> "idle"] /\ sid = [c \in Conns |-> c]
  /\ graceful = [c \in Conns |-> FALSE] /\ cancelled = [c \in Conns |-> FALSE]
  /\ sessions = {} /\ resumes = {}
  /\ closer = [k \in Closers |-> "idle"] /\ todo = {}
  /\ closeCh = FALSE /\ lifeDone = FALSE /\ sessionsDone = FALSE
  /\ janitor = "armed"

Step(c, a, b) == acc[c] = a /\ acc' = [acc EXCEPT ![c] = b]

-------------------------------------------------------------------------------
(* Accept.                                                                 *)

Dial(c) ==
  /\ Step(c, "idle", "hello")
  /\ UNCHANGED <<sid, graceful, cancelled, sessions, resumes, closeVars,
                 sessionsDone, janitor>>

FreshHello(c) ==
  /\ Step(c, "hello", "ready")
  /\ UNCHANGED <<sid, graceful, cancelled, sessions, resumes, closeVars,
                 sessionsDone, janitor>>

\* claimResume purges what has expired and takes the entry it is asked for.
ResumeHello(c) ==
  /\ \E expired \in SUBSET resumes, i \in resumes :
       /\ i \notin expired
       /\ resumes' = resumes \ (expired \cup {i})
       /\ \/ Step(c, "hello", "ready") /\ sid' = [sid EXCEPT ![c] = i]
          \/ Step(c, "hello", "done") /\ UNCHANGED sid   \* gap, or welcome lost
  /\ UNCHANGED <<graceful, cancelled, sessions, closeVars, sessionsDone, janitor>>

\* Any other failed handshake; a refused claim has purged the registry too.
HandshakeFails(c) ==
  /\ Step(c, "hello", "done")
  /\ \E expired \in SUBSET resumes : resumes' = resumes \ expired
  /\ UNCHANGED <<sid, graceful, cancelled, sessions, closeVars, sessionsDone, janitor>>

Register(c) ==
  /\ IF closeCh
       THEN Step(c, "ready", "done") /\ UNCHANGED sessions
       ELSE Step(c, "ready", "run") /\ sessions' = sessions \cup {c}
  /\ UNCHANGED <<sid, graceful, cancelled, resumes, closeVars, sessionsDone, janitor>>

\* run returns: the client said goodbye, or anything else ended the session.
RunEnds(c, bye) ==
  /\ Step(c, "run", "ran")
  /\ graceful' = [graceful EXCEPT ![c] = bye]
  /\ UNCHANGED <<sid, cancelled, sessions, resumes, closeVars, sessionsDone, janitor>>

DropResume(c) ==
  /\ graceful[c] /\ Step(c, "ran", "leaving")
  /\ resumes' = resumes \ {sid[c]}
  /\ UNCHANGED <<sid, graceful, cancelled, sessions, closeVars, sessionsDone, janitor>>

\* Mutant of CheckClosed: the session leaves the registry's critical path
\* before its entry is stashed.
CheckClosedLeaves(c) ==
  /\ ~graceful[c]
  /\ IF closeCh THEN Step(c, "ran", "leaving") ELSE Step(c, "ran", "stash")
  /\ sessions' = sessions \ {c}
  /\ UNCHANGED <<sid, graceful, cancelled, resumes, closeVars, sessionsDone, janitor>>

CheckClosed(c) ==
  /\ ~graceful[c]
  /\ IF closeCh THEN Step(c, "ran", "leaving") ELSE Step(c, "ran", "stash")
  /\ UNCHANGED <<sid, graceful, cancelled, sessions, resumes, closeVars,
                 sessionsDone, janitor>>

StashResume(c) ==
  /\ Step(c, "stash", "leaving")
  /\ resumes' = resumes \cup {sid[c]}
  /\ UNCHANGED <<sid, graceful, cancelled, sessions, closeVars, sessionsDone, janitor>>

\* Mutant of Unregister: only Close looks for an empty registry.
UnregisterSilent(c) ==
  /\ Step(c, "leaving", "done") /\ sessions' = sessions \ {c}
  /\ UNCHANGED <<sid, graceful, cancelled, resumes, closeVars, sessionsDone, janitor>>

\* unregisterSession decides under sessMu and signals after it.
Unregister(c) ==
  /\ sessions' = sessions \ {c}
  /\ Step(c, "leaving", IF sessions' = {} /\ closeCh THEN "signal" ELSE "done")
  /\ UNCHANGED <<sid, graceful, cancelled, resumes, closeVars, sessionsDone, janitor>>

Signal(c) ==
  /\ Step(c, "signal", "done")
  /\ sessionsDone' = TRUE
  /\ UNCHANGED <<sid, graceful, cancelled, sessions, resumes, closeVars, janitor>>

-------------------------------------------------------------------------------
(* Close.  closeOnce makes a second caller wait for the first one's        *)
(* function and return.                                                    *)

CloseStep(k, a, b) == closer[k] = a /\ closer' = [closer EXCEPT ![k] = b]

CloseChannel(k) ==
  /\ ~closeCh /\ CloseStep(k, "idle", "once")
  /\ closeCh' = TRUE
  /\ UNCHANGED <<acceptVars, resumes, todo, lifeDone, sessionsDone, janitor>>

LifeCancel(k) ==
  /\ CloseStep(k, "once", "snapshot")
  /\ lifeDone' = TRUE
  /\ UNCHANGED <<acceptVars, resumes, todo, closeCh, sessionsDone, janitor>>

CloseAgain(k) ==
  /\ lifeDone /\ CloseStep(k, "idle", "noop")
  /\ UNCHANGED <<acceptVars, resumes, todo, closeCh, lifeDone, sessionsDone, janitor>>

Snapshot(k) ==
  /\ CloseStep(k, "snapshot", "cancel")
  /\ todo' = sessions
  /\ sessionsDone' = (sessionsDone \/ sessions = {})
  /\ UNCHANGED <<acceptVars, resumes, closeCh, lifeDone, janitor>>

\* A session's ctx is cancelled and its transport closed.
CancelSession(k, c) ==
  /\ closer[k] = "cancel" /\ c \in todo
  /\ todo' = todo \ {c}
  /\ cancelled' = [cancelled EXCEPT ![c] = TRUE]
  /\ UNCHANGED <<acc, sid, graceful, sessions, resumes, closer, closeCh, lifeDone,
                 sessionsDone, janitor>>

Await(k) ==
  /\ todo = {} /\ sessionsDone /\ CloseStep(k, "cancel", "clear")
  /\ UNCHANGED <<acceptVars, resumes, todo, closeCh, lifeDone, sessionsDone, janitor>>

ClearResumes(k) ==
  /\ CloseStep(k, "clear", "returned")
  /\ resumes' = {}
  /\ UNCHANGED <<acceptVars, todo, closeCh, lifeDone, sessionsDone, janitor>>

-------------------------------------------------------------------------------
(* janitorTick.                                                            *)

Tick ==
  /\ janitor = "armed"
  /\ janitor' = IF closeCh THEN "off" ELSE "purge"
  /\ UNCHANGED <<acceptVars, resumes, closeVars, sessionsDone>>

PurgeExpired ==
  /\ janitor = "purge" /\ janitor' = "armed"
  /\ \E expired \in SUBSET resumes : resumes' = resumes \ expired
  /\ UNCHANGED <<acceptVars, closeVars, sessionsDone>>

-------------------------------------------------------------------------------
ExitStep(c) ==
  \/ DropResume(c) \/ CheckClosed(c) \/ StashResume(c) \/ Unregister(c) \/ Signal(c)

AcceptStep(c) ==
  \/ Dial(c) \/ FreshHello(c) \/ ResumeHello(c) \/ HandshakeFails(c) \/ Register(c)
  \/ (\E bye \in BOOLEAN : RunEnds(c, bye)) \/ ExitStep(c)

CloserStep(k) ==
  \/ LifeCancel(k) \/ Snapshot(k) \/ (\E c \in Conns : CancelSession(k, c))
  \/ Await(k) \/ ClearResumes(k)

Next ==
  \/ \E c \in Conns : AcceptStep(c)
  \/ \E k \in Closers : CloseChannel(k) \/ CloseAgain(k) \/ CloserStep(k)
  \/ Tick \/ PurgeExpired

Spec == Init /\ [][Next]_vars

(* Nobody must dial, say hello or call Close.  A session whose ctx is      *)
(* cancelled ends (Connection's TeardownCompletes), and every other        *)
(* goroutine is scheduled.                                                 *)
Fairness ==
  /\ \A c \in Conns :
       WF_vars(Register(c) \/ (cancelled[c] /\ RunEnds(c, FALSE)) \/ ExitStep(c))
  /\ \A k \in Closers : WF_vars(CloserStep(k))

FairSpec == Spec /\ Fairness

-------------------------------------------------------------------------------
Registered == {"run", "ran", "stash", "leaving"}
Closing == {"once", "snapshot", "cancel", "clear", "returned"}

(* The variables' types.                                                   *)
TypeOK ==
  /\ acc \in [Conns -> Registered \cup {"idle", "hello", "ready", "signal", "done"}]
  /\ sid \in [Conns -> Conns]
  /\ graceful \in [Conns -> BOOLEAN] /\ cancelled \in [Conns -> BOOLEAN]
  /\ sessions \subseteq Conns /\ resumes \subseteq Conns /\ todo \subseteq Conns
  /\ closer \in [Closers -> Closing \cup {"idle", "noop"}]
  /\ closeCh \in BOOLEAN /\ lifeDone \in BOOLEAN /\ sessionsDone \in BOOLEAN
  /\ janitor \in {"armed", "purge", "off"}

\* The registry holds exactly the sessions between register and unregister.
RegistryExact == sessions = {c \in Conns : acc[c] \in Registered}

\* A closer past closeOnce's function has closed closeCh, and sessionsDone is
\* only ever closed over an empty registry that nobody can join any more.
DoneInv ==
  /\ \A k \in Closers : closer[k] \in Closing => closeCh
  /\ \A c \in Conns : acc[c] = "signal" => closeCh /\ sessions = {}
  /\ sessionsDone => closeCh /\ sessions = {}
  /\ \A k \in Closers : closer[k] \in {"clear", "returned"} => sessionsDone

(* "Close returns after every session's run loop has exited", and "drop    *)
(* any resume entries so none can be claimed by a subsequent handshake     *)
(* after Close returns (#86)" (server.go): from the moment Close returns   *)
(* no session runs or exits, and no entry is ever stashed again.           *)
NothingAfterClose ==
  (\E k \in Closers : closer[k] = "returned")
    => /\ resumes = {}
       /\ \A c \in Conns : acc[c] \notin Registered

\* The inductive invariant behind NothingAfterClose.
CloseInv == TypeOK /\ RegistryExact /\ DoneInv /\ NothingAfterClose

(* Close returns: whatever sessions come and go while it runs, somebody    *)
(* closes sessionsDone, so from some time on no Close is under way.        *)
CloseReturns ==
  <>[](\A k \in Closers : closer[k] \in Closing => closer[k] = "returned")

===============================================================================
