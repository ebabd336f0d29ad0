------------------------------ MODULE OutboxPipe ------------------------------
(***************************************************************************)
(* What one connection of a session promises the code that emits events:   *)
(* an outbox is a bounded FIFO pipe to the peer.  It loses envelopes in    *)
(* one way only, all that are still queued at once when the writer stops,  *)
(* and nothing is delivered after that.  SessionStream relies on it;       *)
(* Connection implements it.                                               *)
(***************************************************************************)
EXTENDS Naturals, Sequences

CONSTANTS Envelope,  \* what can be queued
          Bound      \* how many envelopes the pipe can hold

VARIABLES queue,     \* accepted and not yet handed to the transport
          delivered, \* the envelope handed to the transport last
          open       \* whether the writer is still running

pipeVars == <<queue, delivered, open>>

PipeInit == queue = <<>> /\ delivered = <<>> /\ open = TRUE

Accept == /\ open /\ Len(queue) < Bound
          /\ \E e \in Envelope : queue' = Append(queue, e)
          /\ UNCHANGED <<delivered, open>>

Deliver == /\ open /\ queue # <<>>
           /\ delivered' = <<Head(queue)>>
           /\ queue' = Tail(queue)
           /\ UNCHANGED open

Stop == /\ open
        /\ open' = FALSE /\ queue' = <<>>
        /\ UNCHANGED delivered

PipeNext == Accept \/ Deliver \/ Stop

PipeSpec == PipeInit /\ [][PipeNext]_pipeVars
===============================================================================
