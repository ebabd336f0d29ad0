------------------------------ MODULE HttpServer ------------------------------
(***************************************************************************)
(* The WebSocket handler (middleware/nethttp/handler.go) in front of       *)
(* Server.Accept: ServeHTTP, removeConn and Shutdown, composed with        *)
(* ServerLifecycle.  A connection of HttpConns reaches Accept through      *)
(* ServeHTTP; the others are handed to Accept directly (stdio, memory).    *)
(* A drained channel is named by how many were made before it.             *)
(***************************************************************************)
EXTENDS ServerLifecycle

CONSTANTS HttpConns, \* connections that arrive as HTTP requests
          Shutters   \* goroutines that call Shutdown

ASSUME HttpAssumption == HttpConns \subseteq Conns

VARIABLES
  http,      \* where the ServeHTTP of each request is
  active,    \* Handler.active
  drained,   \* Handler.drained
  prev,      \* the drained channel each removeConn took away
  signalled, \* the drained channels that are closed
  closing,   \* Handler.closing
  shut,      \* where each Shutdown is
  conns,     \* what each Shutdown has listed and not yet closed
  listed,    \* what each Shutdown listed
  waitsFor   \* the drained channel each Shutdown read under mu

serveVars == <<http, active, drained, prev, signalled>>
shutVars == <<closing, shut, conns, listed, waitsFor>>
httpVars == <<serveVars, shutVars>>
allVars == <<vars, httpVars>>

HttpInit ==
  /\ Init
  /\ http = [c \in HttpConns |-> "idle"] /\ active = {}
  /\ drained = 0 /\ prev = [c \in HttpConns |-> 0] /\ signalled = {}
  /\ closing = FALSE /\ shut = [d \in Shutters |-> "idle"]
  /\ conns = [d \in Shutters |-> {}] /\ listed = [d \in Shutters |-> {}]
  /\ waitsFor = [d \in Shutters |-> 0]

-------------------------------------------------------------------------------
(* ServeHTTP.                                                              *)

Serve(c, a, b) == http[c] = a /\ http' = [http EXCEPT ![c] = b]

\* The method, path and host tests may refuse any request; closing refuses all.
Request(c) ==
  /\ \/ Serve(c, "idle", "gone")
     \/ ~closing /\ Serve(c, "idle", "upgrade")
  /\ UNCHANGED <<vars, active, drained, prev, signalled, shutVars>>

UpgradeFails(c) ==
  /\ Serve(c, "upgrade", "gone")
  /\ UNCHANGED <<vars, active, drained, prev, signalled, shutVars>>

\* The websocket is registered under mu and handed to Accept.
Activate(c) ==
  /\ Serve(c, "upgrade", "accept") /\ Dial(c)
  /\ active' = active \cup {c}
  /\ UNCHANGED <<drained, prev, signalled, shutVars>>

\* Mutant of RemoveConn: it is called as soon as the run loop has ended.
RemoveConnEarly(c) ==
  /\ acc[c] \in {"ran", "done"} /\ Serve(c, "accept", "removed")
  /\ active' = active \ {c}
  /\ prev' = [prev EXCEPT ![c] = drained] /\ drained' = drained + 1
  /\ UNCHANGED <<vars, signalled, shutVars>>

\* Mutant of RemoveConn: the channel is replaced first, and the new one closed.
RemoveConnSwapped(c) ==
  /\ acc[c] = "done" /\ Serve(c, "accept", "removed")
  /\ active' = active \ {c}
  /\ prev' = [prev EXCEPT ![c] = drained + 1] /\ drained' = drained + 1
  /\ UNCHANGED <<vars, signalled, shutVars>>

\* The deferred removeConn runs when Accept has returned ...
RemoveConn(c) ==
  /\ acc[c] = "done" /\ Serve(c, "accept", "removed")
  /\ active' = active \ {c}
  /\ prev' = [prev EXCEPT ![c] = drained] /\ drained' = drained + 1
  /\ UNCHANGED <<vars, signalled, shutVars>>

\* ... and closes the channel it replaced outside mu.
SignalDrained(c) ==
  /\ Serve(c, "removed", "gone")
  /\ signalled' = signalled \cup {prev[c]}
  /\ UNCHANGED <<vars, active, drained, prev, shutVars>>

-------------------------------------------------------------------------------
(* Shutdown.                                                               *)

ShutStep(d, a, b) == shut[d] = a /\ shut' = [shut EXCEPT ![d] = b]

StoreClosing(d) ==
  /\ ShutStep(d, "idle", "list")
  /\ closing' = TRUE
  /\ UNCHANGED <<vars, serveVars, conns, listed, waitsFor>>

ListActive(d) ==
  /\ ShutStep(d, "list", "check")
  /\ conns' = [conns EXCEPT ![d] = active] /\ listed' = [listed EXCEPT ![d] = active]
  /\ UNCHANGED <<vars, serveVars, closing, waitsFor>>

CloseConn(d, c) ==
  /\ shut[d] = "check" /\ c \in conns[d]
  /\ conns' = [conns EXCEPT ![d] = @ \ {c}]
  /\ UNCHANGED <<vars, serveVars, closing, shut, listed, waitsFor>>

\* The count and the channel are read in one critical section.
CheckActive(d) ==
  /\ conns[d] = {}
  /\ IF active = {}
       THEN ShutStep(d, "check", "nil") /\ UNCHANGED waitsFor
       ELSE ShutStep(d, "check", "wait") /\ waitsFor' = [waitsFor EXCEPT ![d] = drained]
  /\ UNCHANGED <<vars, serveVars, closing, conns, listed>>

Woken(d) ==
  /\ waitsFor[d] \in signalled /\ ShutStep(d, "wait", "check")
  /\ UNCHANGED <<vars, serveVars, closing, conns, listed, waitsFor>>

Expired(d) ==
  /\ ShutStep(d, "wait", "expired")
  /\ UNCHANGED <<vars, serveVars, closing, conns, listed, waitsFor>>

-------------------------------------------------------------------------------
(* The server below: Accept is only called for a request by ServeHTTP.     *)
Below ==
  /\ Next
  /\ \A c \in HttpConns : acc[c] = "idle" => acc'[c] = "idle"
  /\ UNCHANGED httpVars

ServeStep(c) ==
  Request(c) \/ UpgradeFails(c) \/ Activate(c) \/ RemoveConn(c) \/ SignalDrained(c)

ShutdownStep(d) ==
  \/ StoreClosing(d) \/ ListActive(d) \/ (\E c \in HttpConns : CloseConn(d, c))
  \/ CheckActive(d) \/ Woken(d) \/ Expired(d)

HttpNext ==
  \/ Below
  \/ \E c \in HttpConns : ServeStep(c)
  \/ \E d \in Shutters : ShutdownStep(d)

HttpSpec == HttpInit /\ [][HttpNext]_allVars

\* The handler's steps are not needed by anything that must happen below.
HttpFairSpec == HttpSpec /\ Fairness

-------------------------------------------------------------------------------
(* Shutdown "returns nil when all connections drain before the deadline"   *)
(* (handler.go): once it has returned nil, every session it told to go has *)
(* left the server: its run loop and its exit path are over, so its resume *)
(* entry is stashed and Server.Close will not wait for it.                 *)
DrainedIsGone ==
  \A d \in Shutters : shut[d] = "nil" =>
    \A c \in listed[d] : acc[c] = "done" /\ c \notin sessions

(* "drained is signalled every time a connection is removed from active so *)
(* Shutdown can wake without polling" (handler.go): a Shutdown that waits  *)
(* with nothing active waits on a channel that is closed, or that the      *)
(* removeConn that took it is about to close: the last removal cannot slip *)
(* between the count and the wait.                                         *)
NoLostWakeup ==
  \A d \in Shutters : (shut[d] = "wait" /\ active = {}) =>
    \/ waitsFor[d] \in signalled
    \/ \E c \in HttpConns : http[c] = "removed" /\ prev[c] = waitsFor[d]

===============================================================================
