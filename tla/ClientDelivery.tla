---------------------------- MODULE ClientDelivery ----------------------------
(***************************************************************************)
(* How the client's read loop delivers one job's events to its consumers   *)
(* (client/client.go, client/handle.go, client/subscription.go): a         *)
(* JobHandle, a Subscription, or both.  The read loop is the only sender;  *)
(* several goroutines may end a sink, each closing doneCh first, waiting   *)
(* for the sends in flight, and only then closing the value channels.      *)
(* Events are numbered in the order the read loop receives them.  c.mu is  *)
(* left out: nobody who holds it waits for a goroutine that wants it.      *)
(***************************************************************************)
EXTENDS Naturals, Sequences

CONSTANTS Sinks,     \* which of "handle" and "sub" the client has for the job
          Cap,       \* capacity of every event and chunk channel
          Timeouts,  \* whether EventDeliveryTimeout is set
          MaxEvents  \* bound on the events read

ASSUME DeliveryAssumption ==
  /\ Sinks \subseteq {"handle", "sub"} /\ Sinks # {}
  /\ Cap \in Nat \ {0} /\ Timeouts \in BOOLEAN /\ MaxEvents \in Nat

Channels == Sinks \cup (IF "handle" \in Sinks THEN {"chunks"} ELSE {})
SinkOf(ch) == IF ch = "chunks" THEN "handle" ELSE ch

\* The goroutines that end a sink: the read loop, Client.Close,
\* Subscription.Close and the goroutine an overflowing handle starts.
Finishers == {"reader", "client", "user", "fail"}

VARIABLES
  rpc,        \* where the read loop is
  event,      \* the event it is dispatching
  isChunk,    \* whether that event is a result_chunk
  targets,    \* the sinks it has still to push it to, in order
  wg,         \* deliverWG and pushWG
  queue,      \* what every channel holds
  got,        \* the event the consumer of every sink has received last
  done,       \* doneCh is closed
  closed,     \* the channel is closed
  outcome,    \* what ended the sink
  lost,       \* history: the live sinks that were not given an event
  fpc,        \* where each finisher is in finish / close
  todo,       \* the sinks a finisher has still to end, in order
  subscribers, \* Client.subscribers for the job
  cancelled,  \* the client's ctx is cancelled
  closer      \* where Client.Close is

pushVars == <<event, isChunk, targets, wg>>
chanVars == <<queue, got, lost>>
endVars == <<done, closed, outcome, fpc, todo>>
clientVars == <<subscribers, cancelled, closer>>
vars == <<rpc, pushVars, chanVars, endVars, clientVars>>

Init ==
  /\ rpc = "recv" /\ event = 0 /\ isChunk = FALSE /\ targets = <<>>
  /\ wg = [s \in Sinks |-> 0]
  /\ queue = [c \in Channels |-> <<>>] /\ got = [s \in Sinks |-> 0]
  /\ lost = {}
  /\ done = [s \in Sinks |-> FALSE] /\ closed = [c \in Channels |-> FALSE]
  /\ outcome = [s \in Sinks |-> "open"]
  /\ fpc = [f \in Finishers |-> "idle"] /\ todo = [f \in Finishers |-> <<>>]
  /\ subscribers = Sinks \cap {"sub"} /\ cancelled = FALSE /\ closer = "idle"

\* The handle first, then the subscriptions registered now.
Routes == (IF "handle" \in Sinks THEN <<"handle">> ELSE <<>>)
          \o (IF "sub" \in subscribers THEN <<"sub">> ELSE <<>>)

-------------------------------------------------------------------------------
(* readLoop: an event.                                                     *)

AfterPush(rest) == IF rest = <<>> THEN "recv" ELSE "add"

ReadEvent ==
  /\ rpc = "recv" /\ event < MaxEvents
  /\ event' = event + 1 /\ isChunk' \in BOOLEAN
  /\ targets' = Routes /\ rpc' = AfterPush(targets')
  /\ UNCHANGED <<wg, chanVars, endVars, clientVars>>

\* Mutant of Register: the sink is found open before the barrier is joined.
RegisterLate ==
  /\ rpc = "add"
  /\ LET s == Head(targets)
     IN IF done[s]
          THEN wg' = wg /\ targets' = Tail(targets) /\ rpc' = AfterPush(Tail(targets))
          ELSE wg' = wg /\ targets' = targets /\ rpc' = "send"
  /\ UNCHANGED <<event, isChunk, chanVars, endVars, clientVars>>

\* pushEvent and push join the barrier before they look at doneCh.
Register ==
  /\ rpc = "add" /\ rpc' = "check"
  /\ wg' = [wg EXCEPT ![Head(targets)] = @ + 1]
  /\ UNCHANGED <<event, isChunk, targets, chanVars, endVars, clientVars>>

Check ==
  /\ rpc = "check"
  /\ rpc' = IF done[Head(targets)] THEN "release" ELSE "send"
  /\ UNCHANGED <<pushVars, chanVars, endVars, clientVars>>

Sending == IF rpc = "sendChunk" THEN "chunks" ELSE Head(targets)

\* Mutant of Put: a full channel loses the event.
PutOrDrop ==
  /\ rpc \in {"send", "sendChunk"}
  /\ rpc' = IF Sending = "handle" /\ isChunk THEN "sendChunk" ELSE "release"
  /\ queue' = IF Len(queue[Sending]) < Cap
                THEN [queue EXCEPT ![Sending] = Append(@, event)] ELSE queue
  /\ UNCHANGED <<pushVars, got, lost, endVars, clientVars>>

\* The select's send case; sending on a closed channel panics.
Put ==
  /\ rpc \in {"send", "sendChunk"}
  /\ Len(queue[Sending]) < Cap \/ closed[Sending]
  /\ IF closed[Sending]
       THEN rpc' = "panic" /\ UNCHANGED queue
       ELSE /\ rpc' = IF Sending = "handle" /\ isChunk THEN "sendChunk" ELSE "release"
            /\ queue' = [queue EXCEPT ![Sending] = Append(@, event)]
  /\ UNCHANGED <<pushVars, got, lost, endVars, clientVars>>

Missed(s) == lost' = IF done[s] THEN lost ELSE lost \cup {s}

\* Mutant of GiveUp: without the ctx.Done() case.
GiveUpDoneOnly ==
  /\ rpc \in {"send", "sendChunk"} /\ done[Head(targets)]
  /\ Missed(Head(targets)) /\ rpc' = "release"
  /\ UNCHANGED <<pushVars, queue, got, endVars, clientVars>>

\* The select's doneCh and ctx.Done() cases.
GiveUp ==
  /\ rpc \in {"send", "sendChunk"} /\ (done[Head(targets)] \/ cancelled)
  /\ Missed(Head(targets)) /\ rpc' = "release"
  /\ UNCHANGED <<pushVars, queue, got, endVars, clientVars>>

\* Mutant of HandleOverflow: the event is dropped and nobody told.
HandleOverflowSilent ==
  /\ Timeouts /\ rpc \in {"send", "sendChunk"} /\ Head(targets) = "handle"
  /\ Len(queue[Sending]) = Cap /\ Missed("handle") /\ rpc' = "release"
  /\ UNCHANGED <<pushVars, queue, got, endVars, clientVars>>

\* The timer of deliver or deliverChunk: the handle is failed asynchronously.
\* A second goroutine would find nothing left to do.
HandleOverflow ==
  /\ Timeouts /\ rpc \in {"send", "sendChunk"} /\ Head(targets) = "handle"
  /\ Len(queue[Sending]) = Cap /\ Missed("handle") /\ rpc' = "release"
  /\ fpc' = [fpc EXCEPT !["fail"] = IF @ = "idle" THEN "mark" ELSE @]
  /\ todo' = [todo EXCEPT !["fail"] = IF fpc["fail"] = "idle" THEN <<"handle">> ELSE @]
  /\ UNCHANGED <<pushVars, queue, got, done, closed, outcome, clientVars>>

\* The timer of push: the subscription is closed by the pusher itself.
SubOverflow ==
  /\ Timeouts /\ rpc = "send" /\ Head(targets) = "sub"
  /\ Len(queue["sub"]) = Cap /\ Missed("sub") /\ rpc' = "overflow"
  /\ fpc' = [fpc EXCEPT !["reader"] = "mark"]
  /\ todo' = [todo EXCEPT !["reader"] = <<"sub">>]
  /\ UNCHANGED <<pushVars, queue, got, done, closed, outcome, clientVars>>

\* Mutant of Release: an early return that skips Done.
ReleaseLeaks ==
  /\ rpc = "release" /\ wg' = wg
  /\ targets' = Tail(targets) /\ rpc' = AfterPush(Tail(targets))
  /\ UNCHANGED <<event, isChunk, chanVars, endVars, clientVars>>

Release ==
  /\ rpc = "release"
  /\ wg' = [wg EXCEPT ![Head(targets)] = @ - 1]
  /\ targets' = Tail(targets) /\ rpc' = AfterPush(Tail(targets))
  /\ UNCHANGED <<event, isChunk, chanVars, endVars, clientVars>>

-------------------------------------------------------------------------------
(* readLoop: everything else that ends a sink.                             *)

\* handleJobTerminal and failAll end every sink of the job in turn.
EndAll(state) ==
  /\ rpc' = state
  /\ todo' = [todo EXCEPT !["reader"] = Routes]
  /\ fpc' = [fpc EXCEPT !["reader"] = IF Routes = <<>> THEN "idle" ELSE "mark"]
  /\ UNCHANGED <<isChunk, targets, wg, chanVars, done, closed, outcome, clientVars>>

ReadTerminal ==
  /\ rpc = "recv" /\ event < MaxEvents /\ event' = event + 1
  /\ EndAll("terminal")

ReadFails == rpc = "recv" /\ EndAll("failAll") /\ UNCHANGED event

\* Recv reports the cancelled ctx: readLoop returns and fails nothing.
ReadCancelled ==
  /\ rpc = "recv" /\ cancelled /\ rpc' = "exit"
  /\ UNCHANGED <<pushVars, chanVars, endVars, clientVars>>

\* Control returns to the read loop; an overflowed subscription is removed.
Resume ==
  /\ fpc["reader"] = "idle"
  /\ \/ rpc = "terminal" /\ rpc' = "recv" /\ UNCHANGED subscribers
     \/ rpc = "failAll" /\ rpc' = "exit" /\ UNCHANGED subscribers
     \/ rpc = "overflow" /\ rpc' = "release" /\ subscribers' = {}
  /\ UNCHANGED <<pushVars, chanVars, endVars, cancelled, closer>>

-------------------------------------------------------------------------------
(* JobHandle.finish and Subscription.close, run by finisher f.             *)

Why(f) == CASE f = "fail" \/ (f = "reader" /\ rpc = "overflow") -> "overflow"
            [] f = "reader" /\ rpc = "terminal" -> "terminal"
            [] f = "reader" /\ rpc = "failAll" -> "failed"
            [] OTHER -> "closed"

\* Subscription.Close runs once (closeOnce).
NextSink(f) ==
  /\ todo' = [todo EXCEPT ![f] = Tail(@)]
  /\ fpc' = [fpc EXCEPT ![f] = IF Tail(todo[f]) # <<>> THEN "mark"
                               ELSE IF f = "user" THEN "ended" ELSE "idle"]

\* Mutant of Mark: every finisher goes on to close the channels.
MarkTwice(f) ==
  /\ fpc[f] = "mark"
  /\ done' = [done EXCEPT ![Head(todo[f])] = TRUE]
  /\ outcome' = [outcome EXCEPT ![Head(todo[f])] = Why(f)]
  /\ fpc' = [fpc EXCEPT ![f] = "wait"] /\ UNCHANGED todo
  /\ UNCHANGED <<rpc, pushVars, chanVars, closed, clientVars>>

\* Under the sink's lock: the first finisher records why and closes doneCh.
Mark(f) ==
  /\ fpc[f] = "mark"
  /\ LET s == Head(todo[f])
     IN IF done[s]
          THEN NextSink(f) /\ UNCHANGED <<done, outcome>>
          ELSE /\ done' = [done EXCEPT ![s] = TRUE]
               /\ outcome' = [outcome EXCEPT ![s] = Why(f)]
               /\ fpc' = [fpc EXCEPT ![f] = "wait"] /\ UNCHANGED todo
  /\ UNCHANGED <<rpc, pushVars, chanVars, closed, clientVars>>

Await(f) ==
  /\ fpc[f] = "wait" /\ wg[Head(todo[f])] = 0
  /\ fpc' = [fpc EXCEPT ![f] = "close"]
  /\ UNCHANGED <<rpc, pushVars, chanVars, done, closed, outcome, todo, clientVars>>

\* Mutant of CloseEvents: the chunks channel is forgotten.
CloseEventsOnly(f) ==
  /\ fpc[f] = "close"
  /\ closed' = [closed EXCEPT ![Head(todo[f])] = TRUE]
  /\ NextSink(f)
  /\ UNCHANGED <<rpc, pushVars, chanVars, done, outcome, clientVars>>

CloseEvents(f) ==
  /\ fpc[f] = "close"
  /\ closed' = [closed EXCEPT ![Head(todo[f])] = TRUE]
  /\ IF Head(todo[f]) = "handle"
       THEN fpc' = [fpc EXCEPT ![f] = "closeChunks"] /\ UNCHANGED todo
       ELSE NextSink(f)
  /\ UNCHANGED <<rpc, pushVars, chanVars, done, outcome, clientVars>>

CloseChunks(f) ==
  /\ fpc[f] = "closeChunks"
  /\ closed' = [closed EXCEPT !["chunks"] = TRUE]
  /\ NextSink(f)
  /\ UNCHANGED <<rpc, pushVars, chanVars, done, outcome, clientVars>>

Finish(f) == Mark(f) \/ Await(f) \/ CloseEvents(f) \/ CloseChunks(f)

-------------------------------------------------------------------------------
(* The application.                                                        *)

Receive(ch) ==
  /\ queue[ch] # <<>>
  /\ got' = IF ch \in Sinks THEN [got EXCEPT ![ch] = Head(queue[ch])] ELSE got
  /\ queue' = [queue EXCEPT ![ch] = Tail(@)]
  /\ UNCHANGED <<rpc, pushVars, lost, endVars, clientVars>>

\* Subscription.Close.
Unsubscribe ==
  /\ "sub" \in Sinks /\ fpc["user"] = "idle"
  /\ subscribers' = {}
  /\ fpc' = [fpc EXCEPT !["user"] = "mark"] /\ todo' = [todo EXCEPT !["user"] = <<"sub">>]
  /\ UNCHANGED <<rpc, pushVars, chanVars, done, closed, outcome, cancelled, closer>>

\* The ctx given to Connect ends.
CtxEnds ==
  /\ ~cancelled /\ cancelled' = TRUE
  /\ UNCHANGED <<rpc, pushVars, chanVars, endVars, subscribers, closer>>

\* Client.Close: cancel, close the transport, wait for the read loop, end all.
CloseCancel ==
  /\ closer = "idle" /\ closer' = "join" /\ cancelled' = TRUE
  /\ UNCHANGED <<rpc, pushVars, chanVars, endVars, subscribers>>

CloseJoin ==
  /\ closer = "join" /\ rpc = "exit" /\ closer' = "finish"
  /\ todo' = [todo EXCEPT !["client"] = Routes]
  /\ fpc' = [fpc EXCEPT !["client"] = IF Routes = <<>> THEN "idle" ELSE "mark"]
  /\ UNCHANGED <<rpc, pushVars, chanVars, done, closed, outcome, subscribers, cancelled>>

CloseReturn ==
  /\ closer = "finish" /\ fpc["client"] = "idle" /\ closer' = "returned"
  /\ UNCHANGED <<rpc, pushVars, chanVars, endVars, subscribers, cancelled>>

-------------------------------------------------------------------------------
Push == Register \/ Check \/ Put \/ GiveUp \/ Release
Overflow == HandleOverflow \/ SubOverflow

Next ==
  \/ ReadEvent \/ ReadTerminal \/ ReadFails \/ ReadCancelled \/ Push \/ Overflow \/ Resume
  \/ \E f \in Finishers : Finish(f)
  \/ \E ch \in Channels : Receive(ch)
  \/ Unsubscribe \/ CtxEnds \/ CloseCancel \/ CloseJoin \/ CloseReturn

Spec == Init /\ [][Next]_vars

(* Goroutines run, and Recv does not pass over the cancelled ctx for ever. *)
(* No envelope need arrive, nobody need close anything, a consumer need    *)
(* never receive, and no timer need fire (by default there is none).       *)
Fairness ==
  /\ WF_vars(Push) /\ SF_vars(ReadCancelled) /\ WF_vars(Resume)
  /\ \A f \in Finishers : WF_vars(Finish(f))
  /\ WF_vars(CloseJoin) /\ WF_vars(CloseReturn)

FairSpec == Spec /\ Fairness

-------------------------------------------------------------------------------
(* The variables' types; no channel holds more than its capacity.          *)
TypeOK ==
  /\ rpc \in {"recv", "add", "check", "send", "sendChunk", "release", "overflow",
              "terminal", "failAll", "exit"}
  /\ event \in Nat /\ isChunk \in BOOLEAN /\ targets \in Seq(Sinks)
  /\ wg \in [Sinks -> 0..1]
  /\ queue \in [Channels -> Seq(Nat)] /\ \A c \in Channels : Len(queue[c]) <= Cap
  /\ got \in [Sinks -> Nat] /\ lost \in SUBSET Sinks
  /\ done \in [Sinks -> BOOLEAN] /\ closed \in [Channels -> BOOLEAN]
  /\ outcome \in [Sinks -> {"open", "terminal", "failed", "closed", "overflow"}]
  /\ fpc \in [Finishers -> {"idle", "mark", "wait", "close", "closeChunks", "ended"}]
  /\ todo \in [Finishers -> Seq(Sinks)]
  /\ subscribers \subseteq Sinks \cap {"sub"}
  /\ cancelled \in BOOLEAN /\ closer \in {"idle", "join", "finish", "returned"}

\* The reader is inside pushEvent or push of s.
Pushing(s) ==
  /\ rpc \in {"check", "send", "sendChunk", "release", "overflow"}
  /\ Head(targets) = s

\* The reader may be about to send to s.
Offering(s) == rpc \in {"send", "sendChunk"} /\ Head(targets) = s

\* Finisher f has closed the doneCh of s and not yet all its channels.
Ending(f, s) == fpc[f] \in {"wait", "close", "closeChunks"} /\ Head(todo[f]) = s

\* Finisher f is past the wait for the sends in flight to s.
Closing(f, s) == fpc[f] \in {"close", "closeChunks"} /\ Head(todo[f]) = s

\* Whoever works on a sink has one to work on; chunks go to the handle.
Busy ==
  /\ rpc \in {"add", "check", "send", "sendChunk", "release", "overflow"}
       => targets # <<>>
  /\ rpc = "sendChunk" => Head(targets) = "handle"
  /\ \A f \in Finishers :
       /\ fpc[f] \in {"mark", "wait", "close", "closeChunks"} => todo[f] # <<>>
       /\ fpc[f] = "closeChunks" => Head(todo[f]) = "handle"

\* The wait group counts exactly the push in flight.
WaitGroupExact == \A s \in Sinks : wg[s] = IF Pushing(s) THEN 1 ELSE 0

(* "finish can wait for them to exit before closing eventsCh/chunksCh,     *)
(* avoiding a send on closed channel panic" (handle.go, subscription.go):  *)
(* while a sink's channels are being closed, and ever after, the read loop *)
(* is not sending to it.                                                   *)
SendBarrier ==
  \A s \in Sinks :
    (closed[s] \/ \E f \in Finishers : Closing(f, s)) => done[s] /\ ~Offering(s)

(* However many goroutines finish a sink, one of them gets past its lock:  *)
(* no channel is closed twice (which would panic), and none before doneCh. *)
OneCloser ==
  \A s \in Sinks, f, g \in Finishers :
    /\ Ending(f, s) => done[s]
    /\ Ending(f, s) /\ Ending(g, s) => f = g
    /\ Ending(f, s) /\ fpc[f] # "closeChunks" => ~closed[s]

\* The chunks channel is closed by whoever has closed the events channel.
ChunksLast ==
  (\E f \in Finishers : fpc[f] = "closeChunks") \/ ("chunks" \in Channels /\ closed["chunks"])
    => closed["handle"]

\* The inductive invariant behind SendBarrier and OneCloser.
BarrierInv ==
  TypeOK /\ Busy /\ WaitGroupExact /\ SendBarrier /\ OneCloser /\ ChunksLast

(* "preserving order and never silently dropping" (handle.go): as long as  *)
(* the client lives and no timer has cost it an event, a consumer is given *)
(* every event, in order: what waits in its channel continues what it has  *)
(* received last, up to the event the read loop has finished with.         *)
NothingMissing ==
  \A s \in Sinks :
    ~cancelled /\ s \notin lost /\ outcome[s] = "open"
      => /\ \A i \in DOMAIN queue[s] : queue[s][i] = got[s] + i
         /\ rpc = "recv" /\ s \in subscribers \cup {"handle"}
              => got[s] + Len(queue[s]) = event

\* A subscription ended by the overflow timer, whose pusher waits for itself.
SubOverflowed == "sub" \in Sinks /\ outcome["sub"] = "overflow"

(* Close returns, whatever the consumers do (client.go: "Close terminates  *)
(* the session"), unless the read loop is lost in an overflow.             *)
CloseReturns == <>[](closer \in {"idle", "returned"} \/ SubOverflowed)

(* Whoever ends a sink, its consumers' range loops end too: from some time *)
(* on no channel of an ended sink is left open.                            *)
ChannelsClose ==
  <>[](\A ch \in Channels : done[SinkOf(ch)] => closed[ch] \/ SubOverflowed)

(* "the handle closes with a structured overflow error if delivery does    *)
(* not complete within the timeout, so the caller observes a terminal      *)
(* state rather than missing chunks" (handle.go:327): once an event is     *)
(* lost to the timer the handle is done.                                   *)
OverflowEnds ==
  <>[](\A s \in lost : done[s] \/ cancelled)

(* "If the consumer never drains, push closes the subscription with a      *)
(* structured overflow error" (subscription.go:214): an overflowed         *)
(* subscription's channel is closed.                                       *)
OverflowCloses ==
  \A s \in Sinks : (outcome[s] = "overflow") ~> closed[s]
===============================================================================
