-------------------------- MODULE ClientSubmitProofs --------------------------
(***************************************************************************)
(* Proofs about ClientSubmit, for any number of callers, with any of them  *)
(* under one idempotency key and any of them with a deadline.              *)
(***************************************************************************)
EXTENDS ClientSubmit, SequenceTheorems, TLAPS

(* A leaf that names no prover is for Zenon; arithmetic is for SMT.        *)
USE ZenonT(60)

InSubmit == {"register", "send", "wait"}

\* submitMu is held by the one Submit between Lock and return.
OneSubmit ==
  /\ \A p \in Callers : p \in submitMu <=> pc[p] \in InSubmit
  /\ \A p, q \in submitMu : p = q

\* The FIFO is empty or holds the handle of that Submit, and so does its index.
OnePending ==
  /\ Len(pending) <= 1 /\ byID = Range(pending)
  /\ \A p \in byID : pc[p] \in {"send", "wait"}

\* A handle that owns a job, or has been accepted, has left the FIFO.
Resolved ==
  /\ \A j \in Callers : handles[j] # Nobody =>
       handles[j] \notin byID /\ pc[handles[j]] \in {"send", "wait", "done"}
  /\ \A p \in Callers : accepted[p] # <<>> =>
       p \notin byID /\ pc[p] \in {"send", "wait", "done"}

\* A Submit has no result before it returns.
NoneBefore == \A p \in Callers : pc[p] # "done" => result[p] = "none"

\* Job j is the one that p's request created, or that its key stands for.
Owns(p, j) == j = p \/ {j, p} \subseteq SameKey

\* Nobody has given up, and the client is not closing.
Undisturbed == ~cancelled /\ \A q \in Callers : result[q] # "timeout"

\* Every acceptance on its way, delivered or returned names a job of the caller
\* it belongs to.
Paired ==
  /\ \A i \in DOMAIN replies :
       replies[i].kind = "accepted" => Owns(replies[i].req, replies[i].job)
  /\ Undisturbed =>
       /\ \A j \in Callers : handles[j] # Nobody =>
            Owns(handles[j], j) /\ pc[handles[j]] \in {"wait", "done"}
       /\ \A p \in Callers : accepted[p] # <<>> =>
            Owns(p, accepted[p][1]) /\ pc[p] \in {"wait", "done"}
       /\ \A p \in Callers : result[p] \in Callers => Owns(p, result[p])

\* The wire carries at most the request, or the answer, of the Submit that
\* waits for it and has neither been answered nor failed.
InFlight(p) == pc[p] = "wait" /\ accepted[p] = <<>> /\ p \notin failed

OneInFlight ==
  Undisturbed /\ reader =>
    /\ Len(requests) <= 1 /\ Len(replies) <= 1 /\ (requests = <<>> \/ replies = <<>>)
    /\ \A i \in DOMAIN requests : InFlight(requests[i])
    /\ \A i \in DOMAIN replies : InFlight(replies[i].req)
    /\ \A p \in Callers : p \in failed => pc[p] \in {"wait", "done"}

SubmitInv ==
  /\ TypeOK /\ OneSubmit /\ OnePending /\ Resolved /\ NoneBefore
  /\ Paired /\ OneInFlight

-------------------------------------------------------------------------------
USE DEF callVars, regVars, wireVars, readVars

Messages == [kind : {"accepted", "error"}, req : Callers, job : Callers]

(* Removing a handle from a FIFO of at most one handle empties it if it is *)
(* that handle and leaves it alone otherwise.                              *)
LEMMA RemoveFromOne ==
  ASSUME NEW s \in Seq(Callers), NEW p \in Callers, Len(s) <= 1
  PROVE  /\ DropFirst(s, p) \in Seq(Callers) /\ Len(DropFirst(s, p)) <= 1
         /\ Range(DropFirst(s, p)) = Range(s) \ {p}
<1>0. PICK n \in Nat : n = Len(s) /\ DOMAIN s = 1..n /\ n <= 1
  BY LenProperties
<1>1. CASE p \in Range(s)
  <2>1. n = 1 /\ s[1] = p /\ DOMAIN s = {1}
    <3>1. PICK i \in 1..n : s[i] = p
      BY <1>0, <1>1 DEF Range
    <3>2. n = 1 /\ i = 1 /\ 1..1 = {1}
      BY <1>0, <3>1, SMTT(30)
    <3> QED BY <1>0, <3>1, <3>2
  <2>2. DropFirst(s, p) = SubSeq(s, 1, 0) \o SubSeq(s, 2, 1)
    <3>1. PICK x : x = CHOOSE i \in DOMAIN s : s[i] = p /\ \A k \in 1..(i - 1) : s[k] # p
      OBVIOUS
    <3>2. x = 1
      <4>1. s[1] = p /\ \A k \in 1..(1 - 1) : s[k] # p
        BY <2>1, SMTT(30)
      <4> QED BY <2>1, <3>1, <4>1
    <3>3. x - 1 = 0 /\ x + 1 = 2
      BY <3>2, SMTT(30)
    <3> QED BY <1>0, <1>1, <2>1, <3>1, <3>3 DEF DropFirst
  <2>3. SubSeq(s, 1, 0) = <<>> /\ SubSeq(s, 2, 1) = <<>>
    BY SubSeqEmpty, SMTT(30)
  <2>4. DropFirst(s, p) = <<>>
    BY <2>2, <2>3, ConcatEmptySeq, EmptySeq
  <2>5. Range(s) = {p} /\ Range(<<>>) = {}
    BY <2>1, SMTT(30) DEF Range
  <2>6. <<>> \in Seq(Callers) /\ Len(<<>>) <= 1 /\ Range(s) \ {p} = {}
    BY <2>5, EmptySeq, SMTT(30)
  <2> QED BY <2>4, <2>5, <2>6
<1>2. CASE p \notin Range(s)
  BY <1>2 DEF DropFirst
<1> QED BY <1>1, <1>2

(* removePending keeps the FIFO and its index in step.                     *)
LEMMA Removed ==
  ASSUME TypeOK, OnePending, NEW p \in Callers, RemovePending(p)
  PROVE  /\ pending' \in Seq(Callers) /\ Len(pending') <= 1
         /\ byID' = Range(pending') /\ byID' = byID \ {p}
BY RemoveFromOne DEF TypeOK, OnePending, RemovePending

(* The head and the rest of a sequence that is not empty.                  *)
LEMMA Popped ==
  ASSUME NEW T, NEW s \in Seq(T), s # <<>>
  PROVE  /\ Len(s) \in Nat \ {0} /\ Head(s) = s[1] /\ s[1] \in T
         /\ Tail(s) \in Seq(T) /\ Len(Tail(s)) = Len(s) - 1
         /\ \A i \in DOMAIN Tail(s) : i + 1 \in DOMAIN s /\ Tail(s)[i] = s[i + 1]
<1>1. Len(s) \in Nat \ {0} /\ DOMAIN s = 1..Len(s)
  BY EmptySeq, LenProperties
<1> QED BY <1>1, HeadTailProperties, SMTT(30)

(* The elements of a sequence after one is added at its end.               *)
LEMMA Appended ==
  ASSUME NEW T, NEW s \in Seq(T), NEW e \in T
  PROVE  /\ Append(s, e) \in Seq(T) /\ Len(Append(s, e)) = Len(s) + 1
         /\ \A i \in DOMAIN Append(s, e) :
              (i \in DOMAIN s /\ Append(s, e)[i] = s[i]) \/ Append(s, e)[i] = e
BY AppendProperties, LenProperties, SMTT(30)

(* A sequence of at most one element that is not empty.                    *)
LEMMA Single ==
  ASSUME NEW T, NEW s \in Seq(T), s # <<>>, Len(s) <= 1
  PROVE  Len(s) = 1 /\ Head(s) \in T /\ Tail(s) = <<>> /\ Range(s) = {Head(s)}
<1>1. PICK n \in Nat \ {0} : n = Len(s)
  BY Popped
<1>2. n = 1 /\ DOMAIN s = {1}
  BY <1>1, LenProperties, SMTT(30)
<1>3. PICK m \in Nat : m = Len(Tail(s))
  BY Popped, LenProperties
<1>4. m = 0
  BY <1>1, <1>2, <1>3, Popped, SMTT(30)
<1>5. Tail(s) = <<>>
  BY <1>3, <1>4, Popped, EmptySeq
<1> QED BY <1>1, <1>2, <1>5, Popped, SMTT(30) DEF Range

(* A reply names a caller and a job.                                       *)
LEMMA MessageHead ==
  ASSUME TypeOK, replies # <<>>
  PROVE  /\ Head(replies) = replies[1] /\ 1 \in DOMAIN replies
         /\ Head(replies) \in Messages /\ Tail(replies) \in Seq(Messages)
<1>1. replies \in Seq(Messages)
  BY DEF TypeOK, Messages
<1>2. PICK n \in Nat \ {0} : n = Len(replies)
  BY <1>1, Popped
<1>3. 1 \in DOMAIN replies
  BY <1>1, <1>2, LenProperties, SMTT(30)
<1> QED BY <1>1, <1>3, Popped, SMTT(30)

(* The initial states satisfy the invariant.                               *)
LEMMA InitSubmit == Init => SubmitInv
<1> SUFFICES ASSUME Init PROVE SubmitInv
  OBVIOUS
<1>1. TypeOK
  <2>1. <<>> \in Seq(Callers)
        /\ <<>> \in Seq(Messages)
    BY EmptySeq
  <2> QED BY <2>1 DEF Init, TypeOK, Outcomes, Messages
<1>2. OneSubmit /\ OnePending /\ NoneBefore
  BY SMTT(30) DEF Init, OneSubmit, OnePending, NoneBefore, InSubmit, Range
<1>3. Resolved /\ Paired /\ OneInFlight
  BY CallersAssumption, SMTT(30) DEF Init, Resolved, Paired, OneInFlight, Outcomes
<1> QED BY <1>1, <1>2, <1>3 DEF SubmitInv

(* Every step keeps the variables' types.                                  *)
LEMMA TypeStep ==
  ASSUME SubmitInv, [Next]_vars
  PROVE  TypeOK'
<1>0. TypeOK /\ OnePending
  BY DEF SubmitInv
<1>1. ASSUME NEW p \in Callers, Lock(p) \/ Register(p) \/ SendRequest(p) PROVE TypeOK'
  <2>1. CASE Lock(p)
    BY <1>0, <2>1 DEF TypeOK, Lock
  <2>2. CASE Register(p)
    <3>1. pending' \in Seq(Callers)
      BY <1>0, <2>2, AppendProperties DEF TypeOK, Register
    <3> QED BY <1>0, <2>2, <3>1 DEF TypeOK, Register
  <2>3. CASE SendRequest(p)
    <3>1. requests' \in Seq(Callers)
      BY <1>0, <2>3, AppendProperties DEF TypeOK, SendRequest
    <3> QED BY <1>0, <2>3, <3>1 DEF TypeOK, SendRequest
  <2> QED BY <1>1, <2>1, <2>2, <2>3
<1>2. ASSUME NEW p \in Callers,
             SendFails(p) \/ ReturnFailed(p) \/ ReturnTimeout(p) \/ ReturnClosed(p)
      PROVE  TypeOK'
  <2>1. PICK r \in Outcomes : ReturnWith(p, r)
    BY <1>2 DEF SendFails, ReturnFailed, ReturnTimeout, ReturnClosed, Outcomes
  <2>2. RemovePending(p) /\ UNCHANGED accepted
    BY <1>2 DEF SendFails, ReturnFailed, ReturnTimeout, ReturnClosed
  <2>3. pending' \in Seq(Callers) /\ byID' = byID \ {p}
    BY <1>0, <2>2, Removed
  <2> QED BY <1>0, <2>1, <2>2, <2>3 DEF TypeOK, ReturnWith
<1>3. ASSUME NEW p \in Callers, ReturnAccepted(p) PROVE TypeOK'
  BY <1>0, <1>3, SMTT(30) DEF TypeOK, ReturnAccepted, ReturnWith
<1>4. CASE Runtime
  <2>1. requests # <<>> /\ requests' = Tail(requests)
    BY <1>4 DEF Runtime, ServerAccepts, ServerRejects
  <2>2. Head(requests) \in Callers /\ Tail(requests) \in Seq(Callers)
    BY <1>0, <2>1, Popped, SMTT(30) DEF TypeOK
  <2>3. created' \subseteq Callers
        /\ \E kind \in {"accepted", "error"}, j \in Callers :
             replies' = Append(replies, Reply(kind, Head(requests), j))
    BY <1>0, <1>4, <2>2 DEF TypeOK, Runtime, ServerAccepts, ServerRejects
  <2>4. replies' \in Seq(Messages)
    BY <1>0, <2>2, <2>3, AppendProperties, SMTT(30) DEF TypeOK, Reply, Messages
  <2> QED BY <1>0, <1>4, <2>1, <2>2, <2>3, <2>4
          DEF TypeOK, Runtime, ServerAccepts, ServerRejects, Messages
<1>5. CASE HandleJobAccepted
  <2>1. Head(replies).job \in Callers /\ replies' \in Seq(Messages)
    BY <1>0, <1>5, MessageHead DEF HandleJobAccepted, Messages
  <2>2. pending # <<>> => Head(pending) \in Callers /\ Tail(pending) \in Seq(Callers)
    BY <1>0, Popped, SMTT(30) DEF TypeOK
  <2>3. /\ pending' \in Seq(Callers) /\ byID' \subseteq Callers
        /\ handles' \in [Callers -> Callers \cup {Nobody}]
    BY <1>0, <1>5, <2>1, <2>2 DEF TypeOK, HandleJobAccepted
  <2>4. accepted' \in [Callers -> {<<>>} \cup {<<j>> : j \in Callers}]
    <3>1. \/ accepted' = accepted
          \/ \E h \in Callers : Observe(h, Head(replies).job)
      BY <1>0, <1>5, <2>1, <2>2 DEF TypeOK, HandleJobAccepted
    <3> QED BY <1>0, <2>1, <3>1, SMTT(30) DEF TypeOK, Observe
  <2> QED BY <1>0, <1>5, <2>1, <2>3, <2>4 DEF TypeOK, HandleJobAccepted, Messages
<1>6. CASE RouteError
  <2>1. Head(replies).req \in Callers /\ replies' \in Seq(Messages)
    BY <1>0, <1>6, MessageHead DEF RouteError, Messages
  <2>2. pending' \in Seq(Callers) /\ byID' \subseteq Callers /\ failed' \subseteq Callers
    BY <1>0, <1>6, <2>1, Removed DEF TypeOK, RouteError
  <2> QED BY <1>0, <1>6, <2>1, <2>2 DEF TypeOK, RouteError, Messages
<1>7. CASE FailAll
  <2>1. failed' \subseteq Callers
    <3>1. Range(pending) \subseteq Callers
      BY <1>0, SMTT(30) DEF TypeOK, Range
    <3>2. Range(handles) \ {Nobody} \subseteq Callers
      BY <1>0, SMTT(30) DEF TypeOK, Range
    <3> QED BY <1>0, <1>7, <3>1, <3>2 DEF TypeOK, FailAll
  <2>2. pending' \in Seq(Callers) /\ byID' \subseteq Callers
    BY <1>7, EmptySeq DEF FailAll
  <2> QED BY <1>0, <1>7, <2>1, <2>2 DEF TypeOK, FailAll
<1>8. CASE Break \/ CancelClient \/ ReaderStops \/ UNCHANGED vars
  BY <1>0, <1>8 DEF TypeOK, Break, CancelClient, ReaderStops, vars
<1> QED BY <1>1, <1>2, <1>3, <1>4, <1>5, <1>6, <1>7, <1>8 DEF Next, Submit, Dispatch


(* Only the steps of a Submit move it, take or release its lock, or give   *)
(* it a result.                                                            *)
LEMMA CallFrame ==
  ASSUME [Next]_vars
  PROVE  UNCHANGED callVars \/ \E p \in Callers : Submit(p)
BY DEF Next, Runtime, Dispatch, ServerAccepts, ServerRejects, HandleJobAccepted, RouteError,
       Break, FailAll, CancelClient, ReaderStops, vars

(* Every step keeps submitMu with the one Submit that is past Lock, and    *)
(* leaves without a result every Submit that has not returned.             *)
LEMMA LockStep ==
  ASSUME SubmitInv, [Next]_vars
  PROVE  OneSubmit' /\ NoneBefore'
<1>0. TypeOK /\ OneSubmit /\ NoneBefore
  BY DEF SubmitInv
<1>1. CASE UNCHANGED callVars
  BY <1>0, <1>1 DEF OneSubmit, NoneBefore
<1>2. ASSUME NEW p \in Callers, Submit(p) PROVE OneSubmit' /\ NoneBefore'
  <2>1. CASE Lock(p)
    BY <1>0, <2>1 DEF TypeOK, OneSubmit, NoneBefore, Lock, InSubmit
  <2>2. CASE Register(p)
    BY <1>0, <2>2, SMTT(30) DEF TypeOK, OneSubmit, NoneBefore, Register, InSubmit
  <2>3. CASE SendRequest(p)
    BY <1>0, <2>3, SMTT(30) DEF TypeOK, OneSubmit, NoneBefore, SendRequest, InSubmit
  <2>4. CASE \E r : ReturnWith(p, r)
    BY <1>0, <2>4, SMTT(30) DEF TypeOK, OneSubmit, NoneBefore, ReturnWith, InSubmit
  <2> QED BY <1>2, <2>1, <2>2, <2>3, <2>4
          DEF Submit, SendFails, ReturnAccepted, ReturnFailed, ReturnTimeout, ReturnClosed
<1> QED BY <1>1, <1>2, CallFrame

(* Every step keeps the FIFO and its index down to the handle of the       *)
(* Submit that holds the lock.                                             *)
LEMMA PendingStep ==
  ASSUME SubmitInv, [Next]_vars
  PROVE  OnePending'
<1>0. TypeOK /\ OneSubmit /\ OnePending /\ Resolved
  BY DEF SubmitInv
<1>1. ASSUME NEW p \in Callers, Lock(p) PROVE OnePending'
  BY <1>0, <1>1 DEF TypeOK, OnePending, Lock
<1>2. ASSUME NEW p \in Callers, Register(p) PROVE OnePending'
  <2>1. byID = {}
    BY <1>0, <1>2, SMTT(30) DEF TypeOK, OneSubmit, OnePending, Register, InSubmit
  <2>2. pending = <<>>
    <3>1. PICK n \in Nat : n = Len(pending)
      BY <1>0, LenProperties DEF TypeOK
    <3>2. DOMAIN pending = {}
      BY <1>0, <2>1 DEF OnePending, Range
    <3>3. n = 0
      BY <1>0, <3>1, <3>2, LenProperties, SMTT(30) DEF TypeOK
    <3> QED BY <1>0, <3>1, <3>3, EmptySeq DEF TypeOK
  <2>3. pending' = <<p>> /\ byID' = {p} /\ pc'[p] = "send"
    BY <1>0, <1>2, <2>1, <2>2, SMTT(30) DEF TypeOK, Register
  <2>4. Len(<<p>>) <= 1 /\ Range(<<p>>) = {p}
    BY SMTT(30) DEF Range
  <2> QED BY <2>3, <2>4 DEF OnePending
<1>3. ASSUME NEW p \in Callers, SendRequest(p) PROVE OnePending'
  BY <1>0, <1>3 DEF TypeOK, OnePending, SendRequest
<1>4. ASSUME NEW p \in Callers,
             SendFails(p) \/ ReturnFailed(p) \/ ReturnTimeout(p) \/ ReturnClosed(p)
      PROVE  OnePending'
  <2>1. RemovePending(p) /\ pc' = [pc EXCEPT ![p] = "done"]
    BY <1>4 DEF SendFails, ReturnFailed, ReturnTimeout, ReturnClosed, ReturnWith
  <2>2. Len(pending') <= 1 /\ byID' = Range(pending') /\ byID' = byID \ {p}
    BY <1>0, <2>1, Removed
  <2> QED BY <1>0, <2>1, <2>2 DEF TypeOK, OnePending
<1>5. ASSUME NEW p \in Callers, ReturnAccepted(p) PROVE OnePending'
  BY <1>0, <1>5 DEF TypeOK, OnePending, Resolved, ReturnAccepted, ReturnWith
<1>6. CASE UNCHANGED <<pc, pending, byID>>
  BY <1>0, <1>6 DEF OnePending
<1>7. CASE HandleJobAccepted
  <2>1. CASE UNCHANGED <<pending, byID>>
    BY <1>6, <1>7, <2>1 DEF HandleJobAccepted
  <2>2. CASE pending # <<>> /\ pending' = Tail(pending) /\ byID' = byID \ {Head(pending)}
    <3>1. pending' = <<>> /\ byID' = {}
      BY <1>0, <2>2, Single DEF TypeOK, OnePending
    <3> QED BY <3>1, SMTT(30) DEF OnePending, Range
  <2> QED BY <1>7, <2>1, <2>2 DEF HandleJobAccepted
<1>8. CASE RouteError
  <2>1. CASE UNCHANGED <<pending, byID>>
    BY <1>6, <1>8, <2>1 DEF RouteError
  <2>2. CASE Head(replies).req \in byID /\ RemovePending(Head(replies).req)
    <3>1. Head(replies).req \in Callers
      BY <1>0, <2>2 DEF TypeOK
    <3>2. Len(pending') <= 1 /\ byID' = Range(pending') /\ byID' \subseteq byID
      BY <1>0, <2>2, <3>1, Removed
    <3> QED BY <1>0, <1>8, <3>2 DEF OnePending, RouteError
  <2> QED BY <1>8, <2>1, <2>2 DEF RouteError
<1>9. CASE FailAll
  BY <1>9, SMTT(30) DEF OnePending, FailAll, Range
<1>10. CASE Runtime \/ Break \/ CancelClient \/ ReaderStops \/ UNCHANGED vars
  BY <1>6, <1>10 DEF Runtime, ServerAccepts, ServerRejects, Break, CancelClient, ReaderStops, vars
<1> QED BY <1>1, <1>2, <1>3, <1>4, <1>5, <1>7, <1>8, <1>9, <1>10 DEF Next, Submit, Dispatch


(* Every step keeps out of the FIFO the handles that own a job or have     *)
(* been accepted.                                                          *)
LEMMA ResolvedStep ==
  ASSUME SubmitInv, [Next]_vars
  PROVE  Resolved'
<1>0. TypeOK /\ OnePending /\ Resolved /\ Nobody \notin Callers
  BY CallersAssumption DEF SubmitInv
<1>1. ASSUME NEW p \in Callers, Lock(p) \/ Register(p) \/ SendRequest(p) PROVE Resolved'
  <2>1. CASE Lock(p)
    BY <1>0, <2>1 DEF TypeOK, Resolved, Lock
  <2>2. CASE Register(p)
    BY <1>0, <2>2 DEF TypeOK, Resolved, Register
  <2>3. CASE SendRequest(p)
    BY <1>0, <2>3 DEF TypeOK, Resolved, SendRequest
  <2> QED BY <1>1, <2>1, <2>2, <2>3
<1>2. ASSUME NEW p \in Callers,
             SendFails(p) \/ ReturnFailed(p) \/ ReturnTimeout(p) \/ ReturnClosed(p)
      PROVE  Resolved'
  <2>1. /\ pc' = [pc EXCEPT ![p] = "done"] /\ byID' \subseteq byID
        /\ UNCHANGED <<handles, accepted>>
    BY <1>2 DEF SendFails, ReturnFailed, ReturnTimeout, ReturnClosed, ReturnWith, RemovePending
  <2> QED BY <1>0, <2>1, SMTT(30) DEF TypeOK, Resolved
<1>3. ASSUME NEW p \in Callers, ReturnAccepted(p) PROVE Resolved'
  BY <1>0, <1>3 DEF TypeOK, Resolved, ReturnAccepted, ReturnWith
<1>4. CASE HandleJobAccepted
  <2>0. Head(replies).job \in Callers
    BY <1>0, <1>4, MessageHead DEF HandleJobAccepted, Messages
  <2>1. CASE /\ handles[Head(replies).job] # Nobody
             /\ Observe(handles[Head(replies).job], Head(replies).job)
             /\ UNCHANGED <<regVars, pc>>
    BY <1>0, <2>0, <2>1 DEF TypeOK, Resolved, Observe
  <2>2. CASE /\ pending # <<>> /\ byID' = byID \ {Head(pending)} /\ UNCHANGED pc
             /\ handles' = [handles EXCEPT ![Head(replies).job] = Head(pending)]
             /\ Observe(Head(pending), Head(replies).job)
    <3>1. Head(pending) \in byID
      BY <1>0, <2>2, Single, SMTT(30) DEF TypeOK, OnePending
    <3> QED BY <1>0, <2>0, <2>2, <3>1, SMTT(30) DEF TypeOK, OnePending, Resolved, Observe
  <2>3. CASE UNCHANGED <<byID, handles, accepted, pc>>
    BY <1>0, <2>3 DEF Resolved
  <2> QED BY <1>4, <2>1, <2>2, <2>3 DEF HandleJobAccepted
<1>5. CASE UNCHANGED <<pc, handles, accepted>> /\ byID' \subseteq byID
  BY <1>0, <1>5 DEF TypeOK, Resolved
<1>6. CASE \/ Runtime \/ RouteError \/ Break \/ FailAll \/ CancelClient \/ ReaderStops
           \/ UNCHANGED vars
  BY <1>5, <1>6 DEF Runtime, ServerAccepts, ServerRejects, RouteError, RemovePending, Break,
     FailAll, CancelClient, ReaderStops, vars
<1> QED BY <1>1, <1>2, <1>3, <1>4, <1>6 DEF Next, Submit, Dispatch


(* A client that is undisturbed after a step was so before it.             *)
LEMMA CalmBefore ==
  ASSUME SubmitInv, [Next]_vars, Undisturbed'
  PROVE  Undisturbed
<1>0. TypeOK /\ NoneBefore
  BY DEF SubmitInv
<1>1. ~cancelled
  BY DEF Undisturbed, Next, Submit, Runtime, Dispatch, Lock, Register, SendRequest,
     SendFails,
     ReturnAccepted, ReturnFailed, ReturnTimeout, ReturnClosed, ReturnWith, ServerAccepts,
     ServerRejects, HandleJobAccepted, RouteError, Break, FailAll, CancelClient, ReaderStops, vars
<1>2. ASSUME NEW q \in Callers PROVE result[q] # "timeout"
  <2>1. CASE result' = result
    BY <2>1 DEF Undisturbed
  <2>2. CASE pc[q] # "done"
    BY <1>0, <2>2 DEF NoneBefore
  <2>3. CASE \E p \in Callers, r \in Callers \cup Outcomes :
               pc[p] # "done" /\ result' = [result EXCEPT ![p] = r]
    BY <1>0, <2>2, <2>3, SMTT(30) DEF TypeOK, Undisturbed
  <2>4. ASSUME NEW p \in Callers, Submit(p), result' # result
        PROVE  \E r \in Callers \cup Outcomes :
                 pc[p] # "done" /\ result' = [result EXCEPT ![p] = r]
    <3>1. CASE ReturnAccepted(p)
      <4>1. accepted[p][1] \in Callers
        BY <1>0, <3>1, SMTT(30) DEF TypeOK, ReturnAccepted
      <4> QED BY <3>1, <4>1 DEF ReturnAccepted, ReturnWith
    <3> QED BY <2>4, <3>1 DEF Submit, Lock, Register, SendRequest, SendFails, ReturnFailed,
               ReturnTimeout, ReturnClosed, ReturnWith, Outcomes
  <2> QED BY <2>1, <2>3, <2>4, CallFrame
<1> QED BY <1>1, <1>2 DEF Undisturbed

(* Every step keeps each acceptance on its way with a job of its caller.   *)
LEMMA RepliesStep ==
  ASSUME SubmitInv, [Next]_vars
  PROVE  \A i \in DOMAIN replies' :
           replies'[i].kind = "accepted" => Owns(replies'[i].req, replies'[i].job)
<1>0. TypeOK /\ Paired /\ replies \in Seq(Messages)
  BY DEF SubmitInv, TypeOK, Messages
<1>1. CASE UNCHANGED replies
  BY <1>0, <1>1 DEF Paired
<1>2. CASE replies # <<>> /\ replies' = Tail(replies)
  BY <1>0, <1>2, Popped, SMTT(30) DEF Paired
<1>3. CASE Runtime
  <2>1. Head(requests) \in Callers
    BY <1>0, <1>3, Popped, SMTT(30) DEF TypeOK, Runtime, ServerAccepts, ServerRejects
  <2>2. PICK m \in Messages : /\ replies' = Append(replies, m)
                              /\ m.kind = "accepted" => Owns(m.req, m.job)
    <3>1. CASE ServerRejects
      BY <2>1, <3>1, SMTT(30) DEF ServerRejects, Reply, Messages
    <3>2. CASE ServerAccepts
      <4>1. PICK j \in Callers : /\ replies' = Append(replies, Reply("accepted", Head(requests), j))
                                 /\ Owns(Head(requests), j)
        BY <1>0, <2>1, <3>2 DEF TypeOK, ServerAccepts, Owns
      <4> QED BY <2>1, <4>1, SMTT(30) DEF Reply, Messages
    <3> QED BY <1>3, <3>1, <3>2 DEF Runtime
  <2> QED BY <1>0, <2>2, Appended, SMTT(30) DEF Paired
<1> QED BY <1>1, <1>2, <1>3 DEF Next, Submit, Dispatch, Lock, Register, SendRequest,
           SendFails,
           ReturnAccepted, ReturnFailed, ReturnTimeout, ReturnClosed, ReturnWith,
           HandleJobAccepted, RouteError, Break, FailAll, CancelClient, ReaderStops, vars

(* While the client is undisturbed, an acceptance it reads belongs to the  *)
(* Submit whose handle it resolves.                                        *)
LEMMA Resolves ==
  ASSUME SubmitInv, Undisturbed, reader, replies # <<>>, pending # <<>>
  PROVE  Head(pending) = Head(replies).req /\ pc[Head(pending)] = "wait"
<1>0. TypeOK /\ OneSubmit /\ OnePending /\ OneInFlight
  BY DEF SubmitInv
<1>1. Head(pending) \in Callers /\ Head(pending) \in byID
  BY <1>0, Single, SMTT(30) DEF TypeOK, OnePending
<1>2. Head(replies).req \in Callers /\ pc[Head(replies).req] = "wait"
  BY <1>0, MessageHead, SMTT(30) DEF OneInFlight, InFlight, Messages
<1> QED BY <1>0, <1>1, <1>2 DEF OneSubmit, OnePending, InSubmit


(* Every step keeps acceptances paired with the caller they belong to.     *)
LEMMA PairedStep ==
  ASSUME SubmitInv, [Next]_vars
  PROVE  Paired'
<1> SUFFICES ASSUME Undisturbed'
             PROVE /\ \A j \in Callers : handles'[j] # Nobody =>
                        Owns(handles'[j], j) /\ pc'[handles'[j]] \in {"wait", "done"}
                   /\ \A p \in Callers : accepted'[p] # <<>> =>
                        Owns(p, accepted'[p][1]) /\ pc'[p] \in {"wait", "done"}
                   /\ \A p \in Callers : result'[p] \in Callers => Owns(p, result'[p])
  BY RepliesStep DEF Paired, Owns
<1>0. TypeOK /\ OnePending /\ Paired /\ Undisturbed /\ Callers \cap (Outcomes \cup {Nobody}) = {}
  BY CalmBefore, CallersAssumption DEF SubmitInv
<1>1. ASSUME NEW p \in Callers, Lock(p) \/ Register(p) \/ SendRequest(p) PROVE Paired'
  <2>1. /\ \E x \in {"register", "send", "wait"} :
             pc[p] \in {"idle", "register", "send"} /\ pc' = [pc EXCEPT ![p] = x]
        /\ UNCHANGED <<handles, accepted, result>>
    BY <1>1 DEF Lock, Register, SendRequest
  <2> QED BY <1>0, <2>1, RepliesStep, SMTT(30) DEF TypeOK, Paired, Owns
<1>2. ASSUME NEW p \in Callers,
             SendFails(p) \/ ReturnFailed(p) \/ ReturnTimeout(p) \/ ReturnClosed(p)
      PROVE  Paired'
  <2>1. /\ pc' = [pc EXCEPT ![p] = "done"] /\ UNCHANGED <<handles, accepted>>
        /\ \E r \in Outcomes : result' = [result EXCEPT ![p] = r]
    BY <1>2 DEF SendFails, ReturnFailed, ReturnTimeout, ReturnClosed, ReturnWith, Outcomes
  <2> QED BY <1>0, <2>1, RepliesStep, SMTT(30) DEF TypeOK, Paired, Owns
<1>3. ASSUME NEW p \in Callers, ReturnAccepted(p) PROVE Paired'
  BY <1>0, <1>3, RepliesStep, SMTT(30) DEF TypeOK, Paired, Owns, ReturnAccepted, ReturnWith
<1>4. CASE HandleJobAccepted
  <2>0. /\ Head(replies).job \in Callers /\ Owns(Head(replies).req, Head(replies).job)
        /\ UNCHANGED <<pc, result>>
    BY <1>0, <1>4, MessageHead DEF HandleJobAccepted, Messages, Paired
  <2>1. CASE /\ handles[Head(replies).job] # Nobody
             /\ Observe(handles[Head(replies).job], Head(replies).job)
             /\ UNCHANGED regVars
    BY <1>0, <2>0, <2>1, SMTT(30) DEF TypeOK, Paired, Observe
  <2>2. CASE /\ pending # <<>>
             /\ handles' = [handles EXCEPT ![Head(replies).job] = Head(pending)]
             /\ Observe(Head(pending), Head(replies).job)
    <3>1. Owns(Head(pending), Head(replies).job) /\ pc[Head(pending)] = "wait"
      BY <1>0, <1>4, <2>0, <2>2, Resolves DEF HandleJobAccepted
    <3>2. Head(pending) \in Callers
      BY <1>0, <2>2, Popped, SMTT(30) DEF TypeOK
    <3> QED BY <1>0, <2>0, <2>2, <3>1, <3>2, SMTT(30) DEF TypeOK, Paired, Observe
  <2>3. CASE UNCHANGED <<regVars, accepted>>
    BY <1>0, <2>0, <2>3 DEF Paired
  <2> QED BY <1>4, <2>1, <2>2, <2>3 DEF HandleJobAccepted
<1>5. CASE UNCHANGED <<pc, result, handles, accepted>>
  BY <1>0, <1>5 DEF Paired
<1>6. CASE \/ Runtime \/ RouteError \/ Break \/ FailAll \/ CancelClient \/ ReaderStops
           \/ UNCHANGED vars
  BY <1>5, <1>6 DEF Runtime, ServerAccepts, ServerRejects, RouteError, RemovePending, Break,
     FailAll, CancelClient, ReaderStops, vars
<1> QED BY <1>1, <1>2, <1>3, <1>4, <1>6 DEF Next, Submit, Dispatch, Paired


(* What is on the wire belongs to a Submit that waits, so there is nothing *)
(* on it while another holds the lock.                                     *)
LEMMA WireEmpty ==
  ASSUME SubmitInv, Undisturbed, reader, NEW p \in Callers, pc[p] = "send"
  PROVE  requests = <<>> /\ replies = <<>>
<1>0. TypeOK /\ OneSubmit /\ OneInFlight
  BY DEF SubmitInv
<1>1. ASSUME NEW q \in Callers, pc[q] = "wait" PROVE FALSE
  BY <1>0, <1>1 DEF OneSubmit, InSubmit
<1>2. ASSUME requests # <<>> PROVE FALSE
  <2>1. PICK n \in Nat \ {0} : n = Len(requests)
    BY <1>0, <1>2, Popped DEF TypeOK
  <2>2. 1 \in DOMAIN requests /\ requests[1] \in Callers
    BY <1>0, <2>1, LenProperties, SMTT(30) DEF TypeOK
  <2> QED BY <1>0, <1>1, <2>2 DEF OneInFlight, InFlight
<1>3. ASSUME replies # <<>> PROVE FALSE
  <2>1. 1 \in DOMAIN replies /\ replies[1].req \in Callers
    BY <1>0, <1>3, MessageHead DEF Messages
  <2> QED BY <1>0, <1>1, <2>1 DEF OneInFlight, InFlight
<1> QED BY <1>2, <1>3

(* Every step keeps the wire down to the request, or the answer, of the    *)
(* Submit that waits for it.                                               *)
LEMMA InFlightStep ==
  ASSUME SubmitInv, [Next]_vars
  PROVE  OneInFlight'
<1> SUFFICES ASSUME Undisturbed', reader'
             PROVE  /\ Len(requests') <= 1 /\ Len(replies') <= 1
                    /\ requests' = <<>> \/ replies' = <<>>
                    /\ \A i \in DOMAIN requests' : InFlight(requests[i])'
                    /\ \A i \in DOMAIN replies' : InFlight(replies[i].req)'
                    /\ \A p \in Callers : p \in failed' => pc'[p] \in {"wait", "done"}
  BY DEF OneInFlight, InFlight
<1>0. /\ TypeOK /\ OneSubmit /\ OnePending /\ Paired /\ OneInFlight
      /\ requests \in Seq(Callers) /\ replies \in Seq(Messages)
  BY DEF SubmitInv, TypeOK, Messages
<1>1. Undisturbed
  BY CalmBefore
<1>2. reader
  BY DEF Next, Submit, Runtime, Dispatch, Lock, Register, SendRequest, SendFails,
     ReturnAccepted, ReturnFailed, ReturnTimeout, ReturnClosed, ReturnWith, ServerAccepts,
     ServerRejects, HandleJobAccepted, RouteError, Break, FailAll, CancelClient, ReaderStops, vars
<1> DEFINE Wired == /\ Len(requests) <= 1 /\ Len(replies) <= 1
                    /\ requests = <<>> \/ replies = <<>>
                    /\ \A i \in DOMAIN requests : requests[i] \in Callers /\ InFlight(requests[i])
                    /\ \A i \in DOMAIN replies :
                         replies[i].req \in Callers /\ InFlight(replies[i].req)
                    /\ \A p \in Callers : p \in failed => pc[p] \in {"wait", "done"}
<1>3. Wired
  <2>1. \A i \in DOMAIN requests : requests[i] \in Callers
    BY <1>0, LenProperties
  <2>2. \A i \in DOMAIN replies : replies[i] \in Messages
    BY <1>0, LenProperties
  <2>3. \A i \in DOMAIN replies : replies[i].req \in Callers
    BY <2>2 DEF Messages
  <2> QED BY <1>0, <1>1, <1>2, <2>1, <2>3 DEF OneInFlight
<1> SUFFICES Wired'
  OBVIOUS
<1>4. ASSUME NEW p \in Callers, Lock(p) \/ Register(p) PROVE Wired'
  <2>1. /\ pc[p] \in {"idle", "register"} /\ UNCHANGED <<requests, replies, accepted, failed>>
        /\ \E x \in {"register", "send"} : pc' = [pc EXCEPT ![p] = x]
    BY <1>4 DEF Lock, Register
  <2> QED BY <1>0, <1>3, <2>1, SMTT(30) DEF TypeOK, InFlight
<1>5. ASSUME NEW p \in Callers, SendRequest(p) PROVE Wired'
  <2>1. requests = <<>> /\ replies = <<>>
    BY <1>1, <1>2, <1>5, WireEmpty DEF SendRequest
  <2>2. requests' = <<p>> /\ replies' = <<>> /\ Len(<<p>>) <= 1 /\ Len(<<>>) <= 1
    BY <1>5, <2>1, SMTT(30) DEF SendRequest
  <2>3. InFlight(p)' /\ \A q \in Callers : q \in failed' => pc'[q] \in {"wait", "done"}
    BY <1>0, <1>1, <1>3, <1>5 DEF TypeOK, Paired, SendRequest, InFlight
  <2> QED BY <2>2, <2>3, SMTT(30)
<1>6. ASSUME NEW p \in Callers, SendFails(p) \/ ReturnFailed(p) \/ ReturnAccepted(p)
      PROVE  Wired'
  <2>1. /\ ~InFlight(p) /\ pc' = [pc EXCEPT ![p] = "done"]
        /\ UNCHANGED <<requests, replies, failed>>
        /\ accepted' = accepted \/ accepted' = [accepted EXCEPT ![p] = <<>>]
    BY <1>6 DEF SendFails, ReturnFailed, ReturnAccepted, ReturnWith, InFlight
  <2>2. \A q \in Callers : InFlight(q) => q # p /\ InFlight(q)'
    BY <1>0, <2>1 DEF TypeOK, InFlight
  <2>3. \A q \in Callers : q \in failed' => pc'[q] \in {"wait", "done"}
    BY <1>0, <1>3, <2>1 DEF TypeOK
  <2> QED BY <1>3, <2>1, <2>2, <2>3
<1>7. ASSUME NEW p \in Callers, ReturnTimeout(p) \/ ReturnClosed(p) PROVE FALSE
  <2>1. CASE ReturnTimeout(p)
    <3>1. result'[p] = "timeout"
      BY <1>0, <2>1 DEF TypeOK, ReturnTimeout, ReturnWith
    <3> QED BY <3>1 DEF Undisturbed
  <2>2. CASE ReturnClosed(p)
    BY <1>1, <2>2 DEF ReturnClosed, Undisturbed
  <2> QED BY <1>7, <2>1, <2>2
<1>8. CASE Runtime
  <2>1. requests # <<>> /\ requests' = Tail(requests) /\ UNCHANGED <<pc, accepted, failed>>
    BY <1>8 DEF Runtime, ServerAccepts, ServerRejects
  <2>2. PICK q \in Callers : q = Head(requests) /\ q = requests[1] /\ 1 \in DOMAIN requests
    BY <1>0, <1>3, <2>1, Single, Popped, LenProperties, SMTT(30)
  <2>3. requests' = <<>> /\ replies = <<>>
    BY <1>0, <1>3, <2>1, Single
  <2>4. PICK kind, j : replies' = Append(replies, Reply(kind, q, j))
    BY <1>8, <2>2 DEF Runtime, ServerAccepts, ServerRejects
  <2>5. replies' = <<Reply(kind, q, j)>> /\ Reply(kind, q, j).req = q
    BY <2>3, <2>4, SMTT(30) DEF Reply
  <2>6. InFlight(q)'
    BY <1>3, <2>1, <2>2, SMTT(30) DEF InFlight
  <2>7. PICK m : replies' = <<m>> /\ m.req = q
    BY <2>5
  <2>8. Len(<<>>) <= 1 /\ Len(<<m>>) <= 1 /\ DOMAIN <<>> = {} /\ DOMAIN <<m>> = {1} /\ <<m>>[1] = m
    BY EmptySeq, SMTT(30)
  <2> QED BY <1>3, <2>1, <2>3, <2>6, <2>7, <2>8
<1>9. CASE Dispatch
  <2>1. replies # <<>> /\ replies' = Tail(replies) /\ UNCHANGED <<requests, pc>>
    BY <1>9 DEF Dispatch, HandleJobAccepted, RouteError
  <2>2. requests' = <<>> /\ replies' = <<>>
    BY <1>0, <1>3, <2>1, Single
  <2>3. failed' \subseteq failed \cup {Head(replies).req}
    BY <1>9 DEF Dispatch, HandleJobAccepted, RouteError
  <2>4. pc[Head(replies).req] = "wait"
    BY <1>0, <1>3, <2>1, MessageHead DEF InFlight
  <2>5. ASSUME NEW q \in Callers, q \in failed' PROVE pc'[q] \in {"wait", "done"}
    <3>1. CASE q \in failed
      BY <1>3, <2>1, <3>1
    <3>2. CASE q = Head(replies).req
      BY <2>1, <2>4, <3>2
    <3> QED BY <2>3, <2>5, <3>1, <3>2
  <2>6. Len(<<>>) <= 1 /\ DOMAIN <<>> = {}
    BY EmptySeq, SMTT(30)
  <2> QED BY <2>2, <2>5, <2>6
<1>10. CASE UNCHANGED <<pc, accepted, failed, requests, replies>>
  BY <1>3, <1>10 DEF InFlight
<1>11. CASE FailAll \/ ReaderStops
  BY <1>11 DEF FailAll, ReaderStops
<1>12. CASE Break \/ CancelClient \/ UNCHANGED vars
  BY <1>10, <1>12 DEF Break, CancelClient, vars
<1> HIDE DEF Wired
<1> QED BY <1>4, <1>5, <1>6, <1>7, <1>8, <1>9, <1>11, <1>12 DEF Next, Submit

-------------------------------------------------------------------------------
(* The invariant holds in every state, for any callers, keys and deadlines. *)
THEOREM SubmitInvariant == Spec => []SubmitInv
<1>1. SubmitInv /\ [Next]_vars => SubmitInv'
  BY TypeStep, LockStep, PendingStep, ResolvedStep, PairedStep, InFlightStep DEF SubmitInv
<1> QED BY InitSubmit, <1>1, PTL DEF Spec

(* The FIFO that pairs acceptances with handles, and its index, hold at    *)
(* most the handle of the Submit that holds submitMu (client.go:35, 497):  *)
(* by OneSubmit and OnePending, whatever fails, times out or is closed.    *)
THEOREM PendingIsClean == Spec => []PendingClean
<1>1. SubmitInv => PendingClean
  BY DEF SubmitInv, TypeOK, OneSubmit, OnePending, PendingClean, InSubmit, Range
<1> QED BY <1>1, SubmitInvariant, PTL

(* As long as no Submit has timed out and the client is not closing, a     *)
(* Submit returns the job of its own request or of its idempotency key     *)
(* (handle.go:95): there is never more than one request or answer on the   *)
(* wire, and it belongs to the only pending handle.                        *)
THEOREM SubmitsAreCorrelated == Spec => []Correlated
<1>1. SubmitInv => Correlated
  BY DEF SubmitInv, Paired, Owns, Undisturbed, Correlated
<1> QED BY <1>1, SubmitInvariant, PTL

===============================================================================
