------------------------------ MODULE ResultStream ------------------------------
(***************************************************************************)
(* A streamed result from the agent's Write to the submitter's             *)
(* CollectChunks: StreamResult, Write and Close (server/jobcontext.go),    *)
(* the envelopes they emit through Subscriptions, and pushEvent,           *)
(* CollectChunks and assembleChunks (client/handle.go).  The connection    *)
(* and the handle's channels keep the order of what is sent (Connection,   *)
(* ClientDelivery), so a chunk is collected when it is sent; a handle that *)
(* fails may do so between any two.  What EventDeliveryTimeout and the     *)
(* client's own Close do to a handle is ClientDelivery's.  A byte is "a",  *)
(* a character of its own, or "L" or "C", the two bytes of a longer one.   *)
(***************************************************************************)
EXTENDS Subscriptions, Sequences, FiniteSetsExt

CONSTANTS Payloads,          \* what the agent may pass to Write
          ChunkSize,         \* Options.ChunkSize
          MaxResultBytes,    \* Options.MaxResultBytes of the server
          MaxAssembledBytes  \* Options.MaxAssembledBytes of the client

ASSUME StreamAssumption ==
  /\ ChunkSize \in Nat \ {0} /\ Payloads \subseteq Seq({"a", "L", "C"})
  /\ "none" \notin Helpers

VARIABLES
  enc,      \* the encoding StreamResult was called with, or "none"
  chunkSeq, \* streamedResult.seq
  closedBy, \* the goroutine whose Close found the stream open, or "none"
  holder,   \* the goroutine inside Write or Close, or "none"
  pending,  \* what that Write has still to emit
  accepted, \* every byte Write has accepted, in order
  chunks,   \* the result_chunk bodies emitted
  handle,   \* "open", or how finish was called: "result" or "failed"
  by,       \* the chunks CollectChunks has taken
  collect   \* "reading", "bytes" or "error"

writeVars == <<enc, chunkSeq, closedBy, holder, pending, accepted, chunks>>
readVars == <<handle, by, collect>>
streamVars == <<feedVars, writeVars, readVars>>

StreamInit ==
  /\ FeedInit
  /\ enc = "none" /\ chunkSeq = 0 /\ closedBy = "none" /\ holder = "none"
  /\ pending = <<>> /\ accepted = <<>> /\ chunks = {}
  /\ handle = "open" /\ by = {} /\ collect = "reading"

-------------------------------------------------------------------------------
(* Encodings.  A JSON string carries UTF-8 only: json.Marshal replaces     *)
(* every byte that is no part of a whole character by U+FFFD, here "?".    *)

JSONString(b) ==
  [i \in DOMAIN b |->
     IF \/ b[i] = "a"
        \/ b[i] = "L" /\ i < Len(b) /\ b[i + 1] = "C"
        \/ b[i] = "C" /\ i > 1 /\ b[i - 1] = "L"
     THEN b[i] ELSE "?"]

Encode(b) == IF enc = "base64" THEN b ELSE JSONString(b)

\* len(ch.Data): base64 makes four bytes of three, U+FFFD takes three.
DataLen(c) ==
  IF enc = "base64" THEN 4 * ((Len(c.data) + 2) \div 3)
  ELSE Len(c.data) + 2 * Cardinality({i \in DOMAIN c.data : c.data[i] = "?"})

-------------------------------------------------------------------------------
(* The agent's side.  Write and Close hold the stream's mutex while they   *)
(* emit.                                                                   *)

Writers == {"run"} \cup Helpers

StreamResult(e) ==
  /\ run = "body" /\ enc = "none" /\ enc' = e
  /\ UNCHANGED <<feedVars, chunkSeq, closedBy, holder, pending, accepted, chunks, readVars>>

\* A Write that is empty, after Close or past the cap changes nothing.
Write(g, p) ==
  /\ MayEmit(g) /\ enc # "none" /\ holder = "none" /\ closedBy = "none"
  /\ p # <<>> /\ Len(accepted) + Len(p) <= MaxResultBytes
  /\ holder' = g /\ pending' = p /\ accepted' = accepted \o p
  /\ UNCHANGED <<feedVars, enc, chunkSeq, closedBy, chunks, readVars>>

ResultChunk(data, more) == [ev |-> seq', seq |-> chunkSeq, data |-> data, more |-> more]

EmitChunk(g) ==
  LET n == IF Len(pending) < ChunkSize THEN Len(pending) ELSE ChunkSize IN
  /\ holder = g /\ pending # <<>> /\ EmitEvent(g)
  /\ chunks' = chunks \cup {ResultChunk(Encode(SubSeq(pending, 1, n)), TRUE)}
  /\ chunkSeq' = chunkSeq + 1 /\ pending' = SubSeq(pending, n + 1, Len(pending))
  /\ UNCHANGED <<enc, closedBy, holder, accepted, readVars>>

\* Mutant of CloseStream: closed and seq are not guarded by the mutex.
CloseUnlocked(g) ==
  /\ enc # "none" /\ holder # g /\ closedBy = "none"
  /\ EmitEvent(g) /\ closedBy' = g /\ chunks' = chunks \cup {ResultChunk(<<>>, FALSE)}
  /\ UNCHANGED <<enc, chunkSeq, holder, pending, accepted, readVars>>

CloseStream(g) ==
  /\ enc # "none" /\ holder = "none" /\ closedBy = "none"
  /\ EmitEvent(g) /\ closedBy' = g /\ holder' = g
  /\ chunks' = chunks \cup {ResultChunk(<<>>, FALSE)}
  /\ UNCHANGED <<enc, chunkSeq, pending, accepted, readVars>>

Unlock(g) ==
  /\ holder = g /\ pending = <<>> /\ At(g, "idle") /\ holder' = "none"
  /\ UNCHANGED <<feedVars, enc, chunkSeq, closedBy, pending, accepted, chunks, readVars>>

-------------------------------------------------------------------------------
(* The submitter's side.  pushEvent ignores what comes after the end; the  *)
(* terminal envelope is job.result only if run sent it, and a handle can   *)
(* fail without one (failAll, an overflow).                                *)

Contiguous(cs) == {c.seq : c \in cs} = 0 .. Cardinality(cs) - 1
Assemble(cs) == IF Contiguous(cs) THEN "bytes" ELSE "error"

\* pushEvent, and add in CollectChunks, which returns after the last chunk.
Collect(c) ==
  /\ by' = by \cup {c}
  /\ collect' = CASE MapThenSumSet(DataLen, by') > MaxAssembledBytes -> "error"
                  [] ~c.more -> Assemble(by')
                  [] OTHER -> collect

Reads == handle = "open" /\ collect = "reading"

SendChunk(g) ==
  /\ Send(g)
  /\ \E c \in chunks : c.ev = emit[g].ev /\ IF Reads THEN Collect(c) ELSE UNCHANGED <<by, collect>>
  /\ UNCHANGED <<writeVars, handle>>

\* finish closes the handle's channels, and CollectChunks assembles what it has.
Finish(how) ==
  /\ handle' = how /\ collect' = IF collect = "reading" THEN Assemble(by) ELSE collect
  /\ UNCHANGED <<writeVars, by>>

SendOther(g) ==
  /\ Send(g) /\ \A c \in chunks : c.ev # emit[g].ev
  /\ IF handle = "open" /\ emit[g].ev = final
       THEN \E how \in {"failed"} \cup {h \in {"result"} : terminal = "run"} : Finish(how)
       ELSE UNCHANGED <<writeVars, readVars>>

FailHandle == handle = "open" /\ Finish("failed") /\ UNCHANGED feedVars

\* The loop of assembleChunks, which appends one chunk after the other, and what
\* it returns of the chunks in order.
Joined(data, n) ==
  LET upto[i \in 0..n] == IF i = 0 THEN <<>> ELSE upto[i - 1] \o data[i] IN upto[n]

Assembled ==
  LET n == Cardinality(by)
  IN Joined([i \in 1..n |-> (CHOOSE c \in by : c.seq = i - 1).data], n)

-------------------------------------------------------------------------------
\* A goroutine inside Write does nothing else.  The agent's other events, which
\* CollectChunks discards, are left out.
FeedStep ==
  /\ \/ \E g \in Emitters : EmitStep(g)
     \/ Start \/ (holder # "run" /\ AgentReturns) \/ TimerFires \/ Unregister
     \/ \E s \in Subscribers : SubscriberStep(s)
  /\ UNCHANGED <<writeVars, readVars>>

StreamNext ==
  \/ FeedStep
  \/ \E e \in {"utf8", "base64"} : StreamResult(e)
  \/ \E g \in Writers :
       (\E p \in Payloads : Write(g, p)) \/ EmitChunk(g) \/ CloseStream(g) \/ Unlock(g)
  \/ \E g \in Emitters : SendChunk(g) \/ SendOther(g)
  \/ FailHandle

StreamSpec == StreamInit /\ [][StreamNext]_streamVars

-------------------------------------------------------------------------------
\* No Write or ChunkSize boundary has cut a character in two.
WholeCharacters == \A c \in chunks : \A i \in DOMAIN c.data : c.data[i] # "?"

(* CollectChunks "returns the assembled bytes" (client/handle.go): what it *)
(* returns without an error is a prefix of what Write accepted, and all of *)
(* it when the last chunk was seen or when the job succeeded after the     *)
(* agent's own Close, whichever goroutines wrote.  A handle that fails in  *)
(* the middle of the stream yields a shorter prefix, and no error.         *)
ChunksExact ==
  (collect = "bytes" /\ WholeCharacters) =>
    /\ \E n \in 0..Len(accepted) : Assembled = SubSeq(accepted, 1, n)
    /\ ((\E c \in by : ~c.more) \/ (handle = "result" /\ closedBy = "run"))
         => Assembled = accepted

===============================================================================
