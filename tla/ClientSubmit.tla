----------------------------- MODULE ClientSubmit -----------------------------
(***************************************************************************)
(* Client.Submit (client/handle.go) against the client's read loop         *)
(* (client/client.go).  job.accepted does not name the request it answers, *)
(* so the client pairs acceptances with the FIFO of pending handles and    *)
(* submitMu keeps at most one submit in flight; a session.error does name  *)
(* its request.  Each caller submits once.  A job is named after the       *)
(* caller whose request created it.                                        *)
(***************************************************************************)
EXTENDS Naturals, Sequences, Functions

CONSTANTS Callers,    \* goroutines that call Submit
          SameKey,    \* callers that submit one job under one idempotency key
          Impatient   \* callers whose ctx may end

Nobody == "nobody"
Outcomes == {"none", "error", "timeout", "closed"}

ASSUME CallersAssumption ==
  /\ SameKey \subseteq Callers /\ Impatient \subseteq Callers
  /\ Callers \cap (Outcomes \cup {Nobody}) = {}

VARIABLES
  pc,        \* where each Submit is
  result,    \* what each Submit has returned
  submitMu,  \* the holders of submitMu
  pending,   \* Client.pending, a FIFO of handles
  byID,      \* Client.pendingByID
  handles,   \* Client.handles: the handle that owns each job id
  accepted,  \* the accepted channel of each Submit, capacity 1
  failed,    \* handles whose doneCh is closed
  requests,  \* job.submit envelopes on their way to the runtime
  replies,   \* the runtime's answers on their way back
  created,   \* jobs the runtime has accepted
  reader,    \* readLoop is running
  broken,    \* the transport has failed
  cancelled  \* the client's ctx is cancelled

callVars == <<pc, result, submitMu>>
regVars == <<pending, byID, handles>>
wireVars == <<requests, replies, created>>
readVars == <<reader, broken, cancelled>>
vars == <<callVars, regVars, accepted, failed, wireVars, readVars>>

Init ==
  /\ pc = [p \in Callers |-> "idle"] /\ result = [p \in Callers |-> "none"]
  /\ submitMu = {} /\ pending = <<>> /\ byID = {}
  /\ handles = [j \in Callers |-> Nobody]
  /\ accepted = [p \in Callers |-> <<>>] /\ failed = {}
  /\ requests = <<>> /\ replies = <<>> /\ created = {}
  /\ reader = TRUE /\ broken = FALSE /\ cancelled = FALSE

-------------------------------------------------------------------------------
(* Submit.                                                                 *)

\* Mutant of Lock: without submitMu.
LockFree(p) ==
  /\ pc[p] = "idle" /\ pc' = [pc EXCEPT ![p] = "register"]
  /\ submitMu' = submitMu \cup {p}
  /\ UNCHANGED <<result, regVars, accepted, failed, wireVars, readVars>>

Lock(p) ==
  /\ pc[p] = "idle" /\ pc' = [pc EXCEPT ![p] = "register"]
  /\ submitMu = {} /\ submitMu' = {p}
  /\ UNCHANGED <<result, regVars, accepted, failed, wireVars, readVars>>

Register(p) ==
  /\ pc[p] = "register" /\ pc' = [pc EXCEPT ![p] = "send"]
  /\ pending' = Append(pending, p) /\ byID' = byID \cup {p}
  /\ UNCHANGED <<result, submitMu, handles, accepted, failed, wireVars, readVars>>

SendRequest(p) ==
  /\ ~broken /\ pc[p] = "send" /\ pc' = [pc EXCEPT ![p] = "wait"]
  /\ requests' = Append(requests, p)
  /\ UNCHANGED <<result, submitMu, regVars, accepted, failed, replies, created, readVars>>

\* s without the first p.
DropFirst(s, p) ==
  LET i == CHOOSE i \in DOMAIN s : s[i] = p /\ \A k \in 1..(i - 1) : s[k] # p
  IN IF p \in Range(s) THEN SubSeq(s, 1, i - 1) \o SubSeq(s, i + 1, Len(s)) ELSE s

RemovePending(p) == pending' = DropFirst(pending, p) /\ byID' = byID \ {p}

ReturnWith(p, r) ==
  /\ pc' = [pc EXCEPT ![p] = "done"] /\ result' = [result EXCEPT ![p] = r]
  /\ submitMu' = submitMu \ {p}
  /\ UNCHANGED <<handles, failed, wireVars, readVars>>

SendFails(p) ==
  /\ pc[p] = "send" /\ RemovePending(p) /\ ReturnWith(p, "error")
  /\ UNCHANGED accepted

ReturnAccepted(p) ==
  /\ pc[p] = "wait" /\ accepted[p] # <<>>
  /\ accepted' = [accepted EXCEPT ![p] = <<>>]
  /\ ReturnWith(p, accepted[p][1])
  /\ UNCHANGED <<pending, byID>>

ReturnFailed(p) ==
  /\ pc[p] = "wait" /\ p \in failed /\ RemovePending(p) /\ ReturnWith(p, "error")
  /\ UNCHANGED accepted

\* Mutant of ReturnTimeout: the handle stays in the FIFO.
ReturnTimeoutStale(p) ==
  /\ pc[p] = "wait" /\ p \in Impatient /\ ReturnWith(p, "timeout")
  /\ UNCHANGED <<pending, byID, accepted>>

ReturnTimeout(p) ==
  /\ pc[p] = "wait" /\ p \in Impatient /\ RemovePending(p) /\ ReturnWith(p, "timeout")
  /\ UNCHANGED accepted

ReturnClosed(p) ==
  /\ pc[p] = "wait" /\ cancelled /\ RemovePending(p) /\ ReturnWith(p, "closed")
  /\ UNCHANGED accepted

-------------------------------------------------------------------------------
(* The runtime handles submits in order (server/session.go).               *)

Reply(kind, p, j) == [kind |-> kind, req |-> p, job |-> j]

\* handleJobSubmit, or replayAccepted for a key it has already accepted.
ServerAccepts ==
  /\ ~broken /\ requests # <<>> /\ requests' = Tail(requests)
  /\ LET p == Head(requests)
         earlier == IF p \in SameKey THEN created \cap SameKey ELSE {}
     IN \E j \in (IF earlier = {} THEN {p} ELSE earlier) :
          /\ created' = created \cup {j}
          /\ replies' = Append(replies, Reply("accepted", p, j))
  /\ UNCHANGED <<callVars, regVars, accepted, failed, readVars>>

ServerRejects ==
  /\ ~broken /\ requests # <<>> /\ requests' = Tail(requests)
  /\ replies' = Append(replies, Reply("error", Head(requests), Head(requests)))
  /\ UNCHANGED <<callVars, regVars, accepted, failed, created, readVars>>

-------------------------------------------------------------------------------
(* readLoop.                                                               *)

Observe(p, j) ==
  accepted' = [accepted EXCEPT ![p] = IF @ = <<>> THEN <<j>> ELSE @]

HandleJobAccepted ==
  /\ reader /\ replies # <<>> /\ Head(replies).kind = "accepted"
  /\ replies' = Tail(replies)
  /\ LET j == Head(replies).job
     IN \/ /\ handles[j] # Nobody /\ Observe(handles[j], j)
           /\ UNCHANGED regVars
        \/ /\ handles[j] = Nobody /\ pending # <<>>
           /\ LET h == Head(pending)
              IN /\ pending' = Tail(pending) /\ byID' = byID \ {h}
                 /\ handles' = [handles EXCEPT ![j] = h]
                 /\ Observe(h, j)
        \/ /\ handles[j] = Nobody /\ pending = <<>>
           /\ UNCHANGED <<regVars, accepted>>
  /\ UNCHANGED <<callVars, failed, requests, created, readVars>>

\* Mutant of RouteError: the error is correlated by order, like an acceptance.
RouteErrorLost ==
  /\ reader /\ replies # <<>> /\ Head(replies).kind = "error"
  /\ replies' = Tail(replies)
  /\ UNCHANGED <<callVars, regVars, failed, accepted, requests, created, readVars>>

RouteError ==
  /\ reader /\ replies # <<>> /\ Head(replies).kind = "error"
  /\ replies' = Tail(replies)
  /\ LET p == Head(replies).req
     IN IF p \in byID
          THEN RemovePending(p) /\ failed' = failed \cup {p}
          ELSE UNCHANGED <<pending, byID, failed>>
  /\ UNCHANGED <<callVars, handles, accepted, requests, created, readVars>>

Break ==
  /\ ~broken /\ broken' = TRUE
  /\ UNCHANGED <<callVars, regVars, accepted, failed, wireVars, reader, cancelled>>

\* Recv fails: failAll, and readLoop returns.
FailAll ==
  /\ broken /\ reader /\ reader' = FALSE
  /\ failed' = failed \cup Range(pending) \cup (Range(handles) \ {Nobody})
  /\ pending' = <<>> /\ byID' = {}
  /\ UNCHANGED <<callVars, handles, accepted, wireVars, broken, cancelled>>

\* Close, or the end of the ctx given to Connect: readLoop returns quietly.
CancelClient ==
  /\ ~cancelled /\ cancelled' = TRUE
  /\ UNCHANGED <<callVars, regVars, accepted, failed, wireVars, reader, broken>>

ReaderStops ==
  /\ reader /\ cancelled /\ reader' = FALSE
  /\ UNCHANGED <<callVars, regVars, accepted, failed, wireVars, broken, cancelled>>

-------------------------------------------------------------------------------
Submit(p) ==
  \/ Lock(p) \/ Register(p) \/ SendRequest(p) \/ SendFails(p)
  \/ ReturnAccepted(p) \/ ReturnFailed(p) \/ ReturnTimeout(p) \/ ReturnClosed(p)

Runtime == ServerAccepts \/ ServerRejects
Dispatch == HandleJobAccepted \/ RouteError

Next ==
  \/ \E p \in Callers : Submit(p)
  \/ Runtime \/ Dispatch \/ Break \/ FailAll \/ CancelClient \/ ReaderStops

Spec == Init /\ [][Next]_vars

(* Goroutines run, the runtime answers what reaches it, and a broken       *)
(* transport fails Send and Recv.  It need not break, no ctx must end and  *)
(* nobody must close.                                                      *)
Fairness ==
  /\ \A p \in Callers :
       /\ SF_vars(Lock(p))
       /\ WF_vars(Register(p) \/ SendRequest(p) \/ SendFails(p) \/ ReturnAccepted(p)
                    \/ ReturnFailed(p) \/ ReturnClosed(p))
  /\ WF_vars(Runtime) /\ WF_vars(Dispatch) /\ WF_vars(FailAll)

FairSpec == Spec /\ Fairness

-------------------------------------------------------------------------------
(* The variables' types.                                                   *)
TypeOK ==
  /\ pc \in [Callers -> {"idle", "register", "send", "wait", "done"}]
  /\ result \in [Callers -> Callers \cup Outcomes]
  /\ submitMu \subseteq Callers
  /\ pending \in Seq(Callers) /\ byID \subseteq Callers
  /\ handles \in [Callers -> Callers \cup {Nobody}]
  /\ accepted \in [Callers -> {<<>>} \cup {<<j>> : j \in Callers}]
  /\ failed \subseteq Callers
  /\ requests \in Seq(Callers)
  /\ replies \in Seq([kind : {"accepted", "error"}, req : Callers, job : Callers])
  /\ created \subseteq Callers /\ reader \in BOOLEAN
  /\ broken \in BOOLEAN /\ cancelled \in BOOLEAN

(* submitMu "serializes the submit send + job.accepted wait"               *)
(* (client.go:35): the pending FIFO and its index hold at most the handle  *)
(* of the Submit that holds the lock, so nothing is left behind by a       *)
(* Submit that has returned "so a stale handle cannot soak up a later      *)
(* acceptance" (client.go:497).                                            *)
PendingClean ==
  /\ TypeOK
  /\ \A i \in DOMAIN pending : pending[i] \in submitMu
  /\ byID \subseteq submitMu

(* "so c.pending is always in the same order as the runtime's acceptance   *)
(* stream ... Without this two concurrent submits could ... cross-resolve" *)
(* (handle.go:95): a Submit that returns a handle returns the job its own  *)
(* request created, or the one its idempotency key stands for.  It holds   *)
(* until a Submit gives up at its deadline, whose late acceptance then     *)
(* resolves the next one, and while the client is not closing.             *)
Correlated ==
  ~cancelled /\ (\A q \in Callers : result[q] # "timeout") =>
    \A p \in Callers :
      result[p] \in Callers => result[p] = p \/ {result[p], p} \subseteq SameKey

(* Every Submit of a key of its own returns, so a caller queued on         *)
(* submitMu gets its turn: by acceptance, by the routed error, by failAll, *)
(* or because the client closed.                                           *)
SubmitReturns == \A p \in Callers \ SameKey : (pc[p] = "wait") ~> (pc[p] = "done")

(* The same for a Submit that repeats an idempotency key: "the second      *)
(* returns" (examples/idempotent-retry/README.md:3), with an error or with *)
(* the replayed job.accepted.                                              *)
RetryReturns == \A p \in SameKey : (pc[p] = "wait") ~> (pc[p] = "done")
===============================================================================
