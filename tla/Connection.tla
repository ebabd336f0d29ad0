------------------------------ MODULE Connection ------------------------------
(***************************************************************************)
(* The goroutines of one server-side connection (the session struct of     *)
(* server/session.go): the goroutine that executes session.run, the        *)
(* writeLoop, the heartbeat watchdog, and the goroutines that call enqueue *)
(* (jobs, timer callbacks, and run itself, which replays buffered events   *)
(* and answers requests).  Envelopes are <<sender, n>>; their contents,    *)
(* the event log and the sequence numbers are the subject of               *)
(* SessionStream.                                                          *)
(***************************************************************************)
EXTENDS Naturals, Sequences

CONSTANTS Producers,    \* goroutines other than run that call enqueue
          OutboxBuffer, \* Options.OutboxBuffer, the channel's capacity
          ReplayCount,  \* how many events run replays before it reads
          MaxSends,     \* bound: enqueue calls per producer, replies of run
          Heartbeat,    \* whether the heartbeat feature is negotiated
          Stalls        \* whether the peer may stop reading

Run == "run"

ASSUME ConnectionAssumption ==
  /\ OutboxBuffer \in Nat \ {0}
  /\ ReplayCount \in Nat
  /\ MaxSends \in Nat
  /\ Heartbeat \in BOOLEAN
  /\ Stalls \in BOOLEAN
  /\ Run \notin Producers

Senders == Producers \cup {Run}
Envelope == Senders \X (0 .. (ReplayCount + MaxSends))

VARIABLES
  run,          \* program counter of session.run
  enq,          \* program counter of each sender inside enqueue
  count,        \* enqueue calls each sender has begun
  sendWG,       \* the senders registered in sendWG
  outboxClosed, \* the flag guarded by sendMu
  outbox,       \* the channel's buffer
  chanClosed,   \* close(s.outbox) has been executed
  panicked,     \* a send hit the closed channel
  ctxDone,      \* s.ctx is cancelled
  writer,       \* program counter of writeLoop
  hand,         \* the envelope writeLoop took off the channel
  sent,         \* the last envelope transport.Send took from writeLoop
  watchdog,     \* state of the inbound watchdog timer and its callback
  net           \* the transport: "up", "stalled" (peer not reading), "down"

enqVars == <<enq, count, sendWG, outbox, panicked>>
closingVars == <<outboxClosed, chanClosed>>
writeVars == <<writer, hand, sent>>
connVars == <<run, enqVars, closingVars, ctxDone, writeVars, watchdog, net>>

ConnInit ==
  /\ run = "start"
  /\ enq = [p \in Senders |-> "idle"]
  /\ count = [p \in Senders |-> 0]
  /\ sendWG = {} /\ outbox = <<>> /\ panicked = FALSE
  /\ outboxClosed = FALSE /\ chanClosed = FALSE
  /\ ctxDone = FALSE
  /\ writer = "none" /\ hand = <<>> /\ sent = <<>>
  /\ watchdog = "off"
  /\ net = "up"

-------------------------------------------------------------------------------
(* enqueue: under sendMu a closed outbox refuses the call, otherwise the   *)
(* caller joins sendWG and leaves the lock before the blocking select.     *)

Enqueue(p) ==
  /\ enq[p] = "idle"
  /\ count' = [count EXCEPT ![p] = @ + 1]
  /\ IF outboxClosed
       THEN UNCHANGED <<enq, sendWG>>
       ELSE enq' = [enq EXCEPT ![p] = "send"] /\ sendWG' = sendWG \cup {p}
  /\ UNCHANGED <<outbox, panicked>>

\* The channel send.  On a closed channel it panics; on a full one it waits.
ChannelSend(e) ==
  IF chanClosed
    THEN panicked' = TRUE /\ UNCHANGED outbox
    ELSE /\ Len(outbox) < OutboxBuffer
         /\ outbox' = Append(outbox, e)
         /\ UNCHANGED panicked

Put(p) ==
  /\ enq[p] = "send"
  /\ ChannelSend(<<p, count[p]>>)
  /\ enq' = [enq EXCEPT ![p] = "tail"]
  /\ UNCHANGED <<run, count, sendWG, closingVars, ctxDone, writeVars, watchdog, net>>

GiveUp(p) ==
  /\ enq[p] = "send"
  /\ ctxDone
  /\ enq' = [enq EXCEPT ![p] = "tail"]
  /\ UNCHANGED <<run, count, sendWG, outbox, panicked, closingVars, ctxDone,
                 writeVars, watchdog, net>>

\* maybeEmitBackPressure and the deferred sendWG.Done.  A breach makes one
\* non-blocking send under sendMu, which a closed or saturated outbox drops.
BackPressureSend(p) ==
  IF ~outboxClosed /\ (chanClosed \/ Len(outbox) < OutboxBuffer)
    THEN ChannelSend(<<p, 0>>)
    ELSE UNCHANGED <<outbox, panicked>>

Return(p) ==
  /\ enq[p] = "tail"
  /\ \/ UNCHANGED <<outbox, panicked>>
     \/ BackPressureSend(p)
  /\ enq' = [enq EXCEPT ![p] = "idle"]
  /\ sendWG' = sendWG \ {p}
  /\ UNCHANGED <<run, count, closingVars, ctxDone, writeVars, watchdog, net>>

\* A job's event or a timer's ping reaches this session, live or stale.
Produce(p) ==
  /\ run # "start"
  /\ count[p] < MaxSends
  /\ Enqueue(p)
  /\ UNCHANGED <<run, closingVars, ctxDone, writeVars, watchdog, net>>

-------------------------------------------------------------------------------
(* transport.Send under s.ctx: it succeeds while the peer reads, and fails *)
(* once the transport is down or the context is done.  Otherwise it blocks.*)

SendOK == net = "up"
SendErr == net = "down" \/ ctxDone

WriterReceive ==
  /\ writer = "recv"
  /\ outbox # <<>>
  /\ hand' = <<Head(outbox)>> /\ outbox' = Tail(outbox)
  /\ writer' = "send"
  /\ UNCHANGED <<run, enq, count, sendWG, panicked, closingVars, ctxDone, sent,
                 watchdog, net>>

WriterSend ==
  /\ writer = "send"
  /\ SendOK
  /\ sent' = hand /\ hand' = <<>>
  /\ writer' = "recv"
  /\ UNCHANGED <<run, enqVars, closingVars, ctxDone, watchdog, net>>

\* Mutant: writeLoop drops the envelope it could not send and carries on.
WriterFailContinues ==
  /\ writer = "send"
  /\ SendErr
  /\ writer' = "recv" /\ hand' = <<>>
  /\ UNCHANGED <<run, enqVars, closingVars, ctxDone, sent, watchdog, net>>

\* A failed send ends writeLoop without cancelling s.ctx.
WriterFail ==
  /\ writer = "send"
  /\ SendErr
  /\ writer' = "done" /\ hand' = <<>>
  /\ UNCHANGED <<run, enqVars, closingVars, ctxDone, sent, watchdog, net>>

WriterStop ==
  /\ writer = "recv"
  /\ ctxDone \/ (chanClosed /\ outbox = <<>>)
  /\ writer' = "done"
  /\ UNCHANGED <<run, enqVars, closingVars, ctxDone, hand, sent, watchdog, net>>

-------------------------------------------------------------------------------
(* session.run.  The deferred teardown is cancel, closeOutbox, wg.Wait and *)
(* transport.Close, in that order.                                         *)

\* Mutant: writeLoop is not started before the replay.
StartWithoutWriter ==
  /\ run = "start"
  /\ run' = "replay"
  /\ UNCHANGED <<enqVars, closingVars, ctxDone, writeVars, watchdog, net>>

Start ==
  /\ run = "start"
  /\ run' = "replay" /\ writer' = "recv"
  /\ UNCHANGED <<enqVars, closingVars, ctxDone, hand, sent, watchdog, net>>

Replay ==
  /\ run = "replay"
  /\ count[Run] < ReplayCount
  /\ Enqueue(Run)
  /\ UNCHANGED <<run, closingVars, ctxDone, writeVars, watchdog, net>>

\* The watchdog is armed only now, after the replay.
StartReading ==
  /\ run = "replay"
  /\ count[Run] = ReplayCount /\ enq[Run] = "idle"
  /\ run' = "read"
  /\ watchdog' = IF Heartbeat THEN "armed" ELSE "off"
  /\ UNCHANGED <<enqVars, closingVars, ctxDone, writeVars, net>>

\* Recv returns a request; dispatch answers it through send on this goroutine.
ReadRequest ==
  /\ run = "read"
  /\ net # "down"
  /\ count[Run] < ReplayCount + MaxSends
  /\ Enqueue(Run)
  /\ UNCHANGED <<run, closingVars, ctxDone, writeVars, watchdog, net>>

ReadClose ==
  /\ run = "read" /\ enq[Run] = "idle"
  /\ net # "down"
  /\ run' = "bye"
  /\ UNCHANGED <<enqVars, closingVars, ctxDone, writeVars, watchdog, net>>

\* session.closed is sent synchronously, then s.ctx is cancelled.
Bye ==
  /\ run = "bye"
  /\ SendOK \/ SendErr
  /\ ctxDone' = TRUE
  /\ run' = "read"
  /\ UNCHANGED <<enqVars, closingVars, writeVars, watchdog, net>>

ReadError ==
  /\ run = "read" /\ enq[Run] = "idle"
  /\ net = "down" \/ ctxDone
  /\ run' = "cancel"
  /\ watchdog' = IF watchdog = "armed" THEN "off" ELSE watchdog
  /\ UNCHANGED <<enqVars, closingVars, ctxDone, writeVars, net>>

\* Mutant: the teardown closes the outbox without cancelling s.ctx first.
CancelForgotten ==
  /\ run = "cancel"
  /\ run' = "flag"
  /\ UNCHANGED <<enqVars, closingVars, ctxDone, writeVars, watchdog, net>>

Cancel ==
  /\ run = "cancel"
  /\ ctxDone' = TRUE
  /\ run' = "flag"
  /\ UNCHANGED <<enqVars, closingVars, writeVars, watchdog, net>>

CloseFlag ==
  /\ run = "flag"
  /\ outboxClosed' = TRUE
  /\ run' = "wait"
  /\ UNCHANGED <<enqVars, chanClosed, ctxDone, writeVars, watchdog, net>>

\* Mutant: closeOutbox does not wait for sendWG.
CloseOutboxEarly ==
  /\ run = "wait"
  /\ chanClosed' = TRUE
  /\ run' = "join"
  /\ UNCHANGED <<enqVars, outboxClosed, ctxDone, writeVars, watchdog, net>>

CloseOutbox ==
  /\ run = "wait"
  /\ sendWG = {}
  /\ chanClosed' = TRUE
  /\ run' = "join"
  /\ UNCHANGED <<enqVars, outboxClosed, ctxDone, writeVars, watchdog, net>>

Join ==
  /\ run = "join"
  /\ writer = "done"
  /\ net' = "down"
  /\ run' = "returned"
  /\ UNCHANGED <<enqVars, closingVars, ctxDone, writeVars, watchdog>>

-------------------------------------------------------------------------------
(* The watchdog callback sends session.error and only then cancels.        *)

WatchdogFire ==
  /\ watchdog = "armed"
  /\ watchdog' = "fired"
  /\ UNCHANGED <<run, enqVars, closingVars, ctxDone, writeVars, net>>

\* Mutant: the callback reports HEARTBEAT_LOST and leaves the session running.
WatchdogReports ==
  /\ watchdog = "fired"
  /\ SendOK \/ SendErr
  /\ watchdog' = "done"
  /\ UNCHANGED <<run, enqVars, closingVars, ctxDone, writeVars, net>>

WatchdogCancel ==
  /\ watchdog = "fired"
  /\ SendOK \/ SendErr
  /\ watchdog' = "done"
  /\ ctxDone' = TRUE
  /\ UNCHANGED <<run, enqVars, closingVars, writeVars, net>>

\* Server.Close cancels s.ctx; the transport.Close that follows is Break.
ServerCancel ==
  /\ ~ctxDone
  /\ ctxDone' = TRUE
  /\ UNCHANGED <<run, enqVars, closingVars, writeVars, watchdog, net>>

Stall ==
  /\ Stalls /\ net = "up"
  /\ net' = "stalled"
  /\ UNCHANGED <<run, enqVars, closingVars, ctxDone, writeVars, watchdog>>

Break ==
  /\ net # "down"
  /\ net' = "down"
  /\ UNCHANGED <<run, enqVars, closingVars, ctxDone, writeVars, watchdog>>

-------------------------------------------------------------------------------
EnqueueStep(p) == Put(p) \/ GiveUp(p) \/ Return(p)
WriterStep == WriterReceive \/ WriterSend \/ WriterFail \/ WriterStop
RunStep == \/ Start \/ Replay \/ StartReading \/ Bye \/ ReadError
           \/ Cancel \/ CloseFlag \/ CloseOutbox \/ Join

ConnNext ==
  \/ \E p \in Producers : Produce(p)
  \/ \E p \in Senders : EnqueueStep(p)
  \/ WriterStep
  \/ RunStep
  \/ ReadRequest \/ ReadClose
  \/ WatchdogFire \/ WatchdogCancel
  \/ ServerCancel \/ Stall \/ Break

ConnSpec == ConnInit /\ [][ConnNext]_connVars

\* The Go scheduler runs every runnable goroutine, and select picks a ready
\* case at random, so a cancelled Recv is not passed over for ever.  Nothing
\* obliges a peer to send, to read or to disconnect, nor a job to emit.
ConnFairness ==
  /\ \A p \in Senders : WF_connVars(EnqueueStep(p))
  /\ WF_connVars(WriterStep)
  /\ WF_connVars(RunStep)
  /\ SF_connVars(ReadError)
  /\ WF_connVars(WatchdogCancel)

\* A peer that is gone sends nothing, so the watchdog's timer runs out.
SilenceFairness == WF_connVars(net = "down" /\ WatchdogFire)

ConnFairSpec == ConnSpec /\ ConnFairness
HeartbeatSpec == ConnFairSpec /\ SilenceFairness

-------------------------------------------------------------------------------
(* The variables' types.  The outbox never exceeds the channel's capacity. *)
ConnTypeOK ==
  /\ run \in {"start", "replay", "read", "bye", "cancel", "flag", "wait",
              "join", "returned"}
  /\ enq \in [Senders -> {"idle", "send", "tail"}]
  /\ count \in [Senders -> 0 .. (ReplayCount + MaxSends)]
  /\ sendWG \subseteq Senders
  /\ outbox \in Seq(Envelope) /\ Len(outbox) <= OutboxBuffer
  /\ hand \in Seq(Envelope) /\ sent \in Seq(Envelope)
  /\ outboxClosed \in BOOLEAN /\ chanClosed \in BOOLEAN
  /\ panicked \in BOOLEAN /\ ctxDone \in BOOLEAN
  /\ writer \in {"none", "recv", "send", "done"}
  /\ watchdog \in {"off", "armed", "fired", "done"}
  /\ net \in {"up", "stalled", "down"}

\* sendWG counts exactly the calls between Add and Done.
WaitGroupExact == sendWG = {p \in Senders : enq[p] # "idle"}

\* The flag and the channel are closed by the teardown alone, in this order.
CloseOrder ==
  /\ outboxClosed <=> run \in {"wait", "join", "returned"}
  /\ chanClosed <=> run \in {"join", "returned"}

\* The outbox channel is closed only when no enqueue is in flight.
CloseBarrier == chanClosed => sendWG = {}

\* writeLoop is started by run, and holds one envelope exactly while it is
\* inside transport.Send.
HandInv ==
  /\ writer = "none" <=> run = "start"
  /\ Len(hand) = IF writer = "send" THEN 1 ELSE 0

\* No goroutine ever sends on the closed outbox channel: closeOutbox sets the
\* flag under sendMu and waits for sendWG before it closes the channel (#83).
NoSendOnClosed == ~panicked

\* The inductive invariant behind NoSendOnClosed.
BarrierInv == ConnTypeOK /\ WaitGroupExact /\ CloseOrder /\ CloseBarrier
              /\ HandInv /\ NoSendOnClosed

\* The outbox is the FIFO pipe SessionStream assumes: enqueue, writeLoop and
\* the teardown neither reorder, duplicate nor skip envelopes.
Pipe == INSTANCE OutboxPipe WITH
          queue <- IF writer = "done" THEN <<>> ELSE hand \o outbox,
          delivered <- sent,
          open <- writer # "done",
          Bound <- OutboxBuffer + 1

ImplementsPipe == Pipe!PipeSpec

\* Once s.ctx is cancelled, or run has left its loop, run returns: a parked
\* enqueue gives up, sendWG drains, writeLoop stops (session.go:337-342).
TeardownCompletes == (ctxDone \/ run = "cancel") ~> (run = "returned")

\* With heartbeats, a connection whose transport breaks while run is in its
\* read loop is torn down, even if run is parked in enqueue behind a full
\* outbox that the failed writeLoop no longer drains.
BrokenIsTornDown == (run = "read" /\ net = "down") ~> (run = "returned")

\* "If no inbound envelope arrives in that window the session is force-closed
\* with HEARTBEAT_LOST" (docs/guides/sessions.md): once the watchdog has fired,
\* run returns.
SilentIsTornDown == (watchdog = "fired") ~> (run = "returned")

\* While the peer reads, the replay of buffered events comes to an end however
\* far it exceeds the outbox, because run starts writeLoop before
\* replayBuffered (#146); live producers competing for the outbox do not
\* starve it.
ReplayFinishes == (run = "replay") ~> (run # "replay" \/ net # "up")
===============================================================================
