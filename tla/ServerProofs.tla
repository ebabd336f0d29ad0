----------------------------- MODULE ServerProofs -----------------------------
(***************************************************************************)
(* Proofs about the server's front and about one connection of it:         *)
(* ServerLifecycle, for any set of connections and of Close calls;         *)
(* HttpServer, which composes it with the WebSocket handler, for any       *)
(* number of requests and of Shutdown calls; and Connection, for any       *)
(* number of senders, any outbox size and any number of envelopes: the     *)
(* types, the close barrier of the outbox, and that the connection         *)
(* implements OutboxPipe.                                                  *)
(***************************************************************************)
EXTENDS HttpServer, Connection, SequenceTheorems, TLAPS

(* A leaf that names no prover is for Zenon; arithmetic is for SMT.        *)
USE ZenonT(60)

-------------------------------------------------------------------------------
(* Server.Close.                                                           *)

USE DEF acceptVars, closeVars


(* The initial states satisfy the invariant.                               *)
LEMMA InitClose == Init => CloseInv
BY DEF Init, CloseInv, TypeOK, RegistryExact, DoneInv, NothingAfterClose, Registered,
   Closing

(* Every step keeps the variables' types.                                  *)
LEMMA TypeStep ==
  ASSUME TypeOK, [Next]_vars
  PROVE  TypeOK'
<1> USE DEF TypeOK, Registered, Closing
<1>1. ASSUME NEW c \in Conns, AcceptStep(c) PROVE TypeOK'
  <2> USE DEF Step
  <2>1. CASE Dial(c) \/ FreshHello(c) \/ HandshakeFails(c) \/ Register(c)
    BY <2>1 DEF Dial, FreshHello, HandshakeFails, Register
  <2>2. CASE ResumeHello(c)
    BY <2>2, SMTT(30) DEF ResumeHello
  <2>3. CASE \E bye \in BOOLEAN : RunEnds(c, bye)
    BY <2>3 DEF RunEnds
  <2>4. CASE DropResume(c) \/ CheckClosed(c) \/ StashResume(c)
    BY <2>4, SMTT(30) DEF DropResume, CheckClosed, StashResume
  <2>5. CASE Unregister(c) \/ Signal(c)
    BY <2>5 DEF Unregister, Signal
  <2> QED BY <1>1, <2>1, <2>2, <2>3, <2>4, <2>5 DEF AcceptStep, ExitStep
<1>2. ASSUME NEW k \in Closers, CloseChannel(k) \/ CloseAgain(k) \/ CloserStep(k)
      PROVE  TypeOK'
  BY <1>2 DEF CloseChannel, CloseAgain, CloserStep, LifeCancel, Snapshot, CancelSession,
     Await, ClearResumes, CloseStep
<1>3. CASE Tick \/ PurgeExpired
  BY <1>3 DEF Tick, PurgeExpired
<1>4. CASE UNCHANGED vars
  BY <1>4 DEF vars
<1> QED BY <1>1, <1>2, <1>3, <1>4 DEF Next

(* sessions keeps mirroring the Accept calls between register and          *)
(* unregister, and registers nobody once closeCh is closed.                *)
LEMMA RegistryStep ==
  ASSUME TypeOK, RegistryExact, [Next]_vars
  PROVE  RegistryExact' /\ (closeCh => sessions' \subseteq sessions)
<1>0. acc \in [Conns -> Registered \cup {"idle", "hello", "ready", "signal", "done"}]
      /\ sessions \subseteq Conns
  BY DEF TypeOK
<1> USE DEF RegistryExact, Registered
<1>1. ASSUME NEW c \in Conns, AcceptStep(c)
      PROVE  RegistryExact' /\ (closeCh => sessions' \subseteq sessions)
  <2> USE DEF Step
  <2>1. CASE Dial(c) \/ FreshHello(c) \/ HandshakeFails(c)
    BY <1>0, <2>1 DEF Dial, FreshHello, HandshakeFails
  <2>2. CASE ResumeHello(c)
    BY <1>0, <2>2 DEF ResumeHello
  <2>3. CASE \E bye \in BOOLEAN : RunEnds(c, bye)
    BY <1>0, <2>3 DEF RunEnds
  <2>4. CASE DropResume(c) \/ CheckClosed(c) \/ StashResume(c)
    BY <1>0, <2>4 DEF DropResume, CheckClosed, StashResume
  <2>5. CASE Unregister(c)
    BY <1>0, <2>5 DEF Unregister
  <2>6. CASE Signal(c)
    BY <1>0, <2>6 DEF Signal
  <2>7. CASE Register(c)
    BY <1>0, <2>7 DEF Register
  <2> QED BY <1>1, <2>1, <2>2, <2>3, <2>4, <2>5, <2>6, <2>7 DEF AcceptStep, ExitStep
<1>2. ASSUME \/ \E k \in Closers : CloseChannel(k) \/ CloseAgain(k) \/ CloserStep(k)
             \/ Tick \/ PurgeExpired \/ UNCHANGED vars
      PROVE  UNCHANGED <<acc, sessions>>
  BY <1>2 DEF CloseChannel, CloseAgain, CloserStep, LifeCancel, Snapshot, CancelSession,
     Await, ClearResumes, Tick, PurgeExpired, vars
<1> QED BY <1>1, <1>2 DEF Next

(* sessionsDone is still only closed over an empty registry, and a Close   *)
(* past its wait has seen it closed.                                       *)
LEMMA DoneStep ==
  ASSUME TypeOK, RegistryExact, DoneInv, [Next]_vars
  PROVE  DoneInv'
<1>0. /\ acc \in [Conns -> Registered \cup {"idle", "hello", "ready", "signal", "done"}]
      /\ closer \in [Closers -> Closing \cup {"idle", "noop"}]
  BY DEF TypeOK
<1>1. closeCh => closeCh' /\ sessions' \subseteq sessions
  <2>1. closeCh => sessions' \subseteq sessions
    BY RegistryStep
  <2>2. closeCh => closeCh'
    BY DEF Next, AcceptStep, ExitStep, Dial, FreshHello, ResumeHello, HandshakeFails,
       Register, RunEnds, DropResume, CheckClosed, StashResume, Unregister, Signal,
       CloseChannel, CloseAgain, CloserStep, LifeCancel, Snapshot, CancelSession, Await,
       ClearResumes, Tick, PurgeExpired, vars
  <2> QED BY <2>1, <2>2
<1> USE DEF DoneInv, Closing
<1>2. ASSUME NEW c \in Conns, AcceptStep(c) PROVE DoneInv'
  <2> USE DEF Step
  <2>1. CASE Dial(c) \/ FreshHello(c) \/ HandshakeFails(c) \/ ResumeHello(c)
    BY <1>0, <1>1, <2>1, SMTT(30) DEF Dial, FreshHello, HandshakeFails, ResumeHello
  <2>2. CASE Register(c)
    BY <1>0, <1>1, <2>2 DEF Register
  <2>3. CASE \E bye \in BOOLEAN : RunEnds(c, bye)
    BY <1>0, <1>1, <2>3, SMTT(30) DEF RunEnds
  <2>4. CASE DropResume(c) \/ CheckClosed(c) \/ StashResume(c)
    BY <1>0, <1>1, <2>4, SMTT(30) DEF DropResume, CheckClosed, StashResume
  <2>5. CASE Unregister(c)
    BY <1>0, <1>1, <2>5 DEF Unregister
  <2>6. CASE Signal(c)
    BY <1>0, <1>1, <2>6 DEF Signal
  <2> QED BY <1>2, <2>1, <2>2, <2>3, <2>4, <2>5, <2>6 DEF AcceptStep, ExitStep
<1>3. ASSUME NEW k \in Closers, CloseChannel(k) \/ CloseAgain(k) \/ CloserStep(k)
      PROVE  DoneInv'
  <2> USE DEF CloseStep
  <2>1. CASE CloseChannel(k) \/ CloseAgain(k) \/ LifeCancel(k)
    BY <1>0, <1>1, <2>1, SMTT(30) DEF CloseChannel, CloseAgain, LifeCancel
  <2>2. CASE Snapshot(k)
    BY <1>0, <1>1, <2>2 DEF Snapshot
  <2>3. CASE \E c \in Conns : CancelSession(k, c)
    BY <1>0, <1>1, <2>3, SMTT(30) DEF CancelSession
  <2>4. CASE Await(k) \/ ClearResumes(k)
    BY <1>0, <1>1, <2>4, SMTT(30) DEF Await, ClearResumes
  <2> QED BY <1>3, <2>1, <2>2, <2>3, <2>4 DEF CloserStep
<1>4. CASE Tick \/ PurgeExpired \/ UNCHANGED vars
  BY <1>4, SMTT(30) DEF Tick, PurgeExpired, vars
<1> QED BY <1>2, <1>3, <1>4 DEF Next

(* Only a registered session stashes, and none is left once Close has      *)
(* returned; so nothing fills resumes again.                               *)
LEMMA AfterCloseStep ==
  ASSUME CloseInv, [Next]_vars, RegistryExact', DoneInv'
  PROVE  NothingAfterClose'
<1>0. /\ closer \in [Closers -> Closing \cup {"idle", "noop"}]
      /\ RegistryExact /\ DoneInv /\ NothingAfterClose
  BY DEF CloseInv, TypeOK
<1>1. SUFFICES ASSUME NEW r \in Closers, closer'[r] = "returned"
               PROVE  resumes' = {}
  BY DEF NothingAfterClose, RegistryExact, DoneInv
<1>2. CASE closer[r] = "returned"
  <2>1. resumes = {} /\ \A c \in Conns : acc[c] \notin Registered
    BY <1>0, <1>2 DEF NothingAfterClose
  <2>2. \A c \in Conns : ~StashResume(c)
    BY <2>1 DEF StashResume, Step, Registered
  <2> QED
    BY <2>1, <2>2 DEF Next, AcceptStep, ExitStep, Dial, FreshHello, ResumeHello,
       HandshakeFails, Register, RunEnds, DropResume, CheckClosed, Unregister, Signal,
       CloseChannel, CloseAgain, CloserStep, LifeCancel, Snapshot, CancelSession, Await,
       ClearResumes, Tick, PurgeExpired, vars
<1>3. CASE closer[r] # "returned"
  <2>1. closer' # closer
    BY <1>1, <1>3
  <2>2. PICK k \in Closers : CloseChannel(k) \/ CloseAgain(k) \/ CloserStep(k)
    BY <2>1 DEF Next, AcceptStep, ExitStep, Dial, FreshHello, ResumeHello,
       HandshakeFails, Register, RunEnds, DropResume, CheckClosed, StashResume,
       Unregister, Signal, Tick, PurgeExpired, vars
  <2> QED
    BY <1>0, <1>1, <1>3, <2>2 DEF CloseChannel, CloseAgain, CloserStep, LifeCancel,
       Snapshot, CancelSession, Await, ClearResumes, CloseStep, Closing
<1> QED BY <1>2, <1>3

(* CloseInv holds throughout.                                              *)
THEOREM Shutdown == Spec => []CloseInv
<1>1. CloseInv /\ [Next]_vars => CloseInv'
  BY TypeStep, RegistryStep, DoneStep, AfterCloseStep DEF CloseInv
<1> QED BY <1>1, InitClose, PTL DEF Spec

(* However many connections are being accepted and however many goroutines *)
(* call Close: once Close has returned no session runs, and no resume      *)
(* entry is left or stashed (server.go Close, #86).                        *)
THEOREM CloseIsFinal == Spec => []NothingAfterClose
<1>1. CloseInv => NothingAfterClose
  BY DEF CloseInv
<1> QED BY <1>1, Shutdown, PTL

-------------------------------------------------------------------------------
(* The handler in front of it.                                            *)

HttpStates == {"idle", "upgrade", "accept", "removed", "gone"}
ShutStates == {"idle", "list", "check", "wait", "nil", "expired"}

HttpTypes ==
  /\ http \in [HttpConns -> HttpStates] /\ active \subseteq HttpConns
  /\ drained \in Nat /\ prev \in [HttpConns -> Nat]
  /\ shut \in [Shutters -> ShutStates] /\ listed \in [Shutters -> SUBSET HttpConns]
  /\ waitsFor \in [Shutters -> Nat]

\* active is what is between Activate and removeConn, and a request that has
\* been listed and removed is one whose Accept has returned.
ActiveInv ==
  /\ active = {c \in HttpConns : http[c] = "accept"}
  /\ \A c \in HttpConns : http[c] = "removed" => acc[c] = "done"
  /\ \A d \in Shutters : \A c \in listed[d] :
       /\ http[c] \in {"accept", "removed", "gone"}
       /\ http[c] = "gone" => acc[c] = "done"
       /\ shut[d] = "nil" => http[c] # "accept"

\* Every channel that has been replaced is closed or about to be, and a waiter
\* that holds the current one saw somebody active.
ChannelInv ==
  /\ \A n \in Nat : n < drained =>
       n \in signalled \/ \E c \in HttpConns : http[c] = "removed" /\ prev[c] = n
  /\ \A d \in Shutters : shut[d] = "wait" =>
       waitsFor[d] < drained \/ (waitsFor[d] = drained /\ active # {})

HttpInv == HttpTypes /\ ActiveInv /\ ChannelInv

USE DEF serveVars, shutVars, httpVars

(* A step of the composition is a step of the server below, or leaves it   *)
(* alone.                                                                  *)
LEMMA BelowStep == [HttpNext]_allVars => [Next]_vars
<1> SUFFICES ASSUME [HttpNext]_allVars PROVE [Next]_vars
  OBVIOUS
<1>1. ASSUME NEW c \in HttpConns, ServeStep(c) PROVE [Next]_vars
  <2>1. CASE Activate(c)
    <3>1. c \in Conns
      BY HttpAssumption
    <3>2. Dial(c)
      BY <2>1 DEF Activate
    <3> QED BY <3>1, <3>2 DEF Next, AcceptStep
  <2>2. CASE Request(c) \/ UpgradeFails(c) \/ RemoveConn(c) \/ SignalDrained(c)
    BY <2>2 DEF Request, UpgradeFails, RemoveConn, SignalDrained
  <2> QED BY <1>1, <2>1, <2>2 DEF ServeStep
<1>2. ASSUME NEW d \in Shutters, ShutdownStep(d) PROVE [Next]_vars
  BY <1>2 DEF ShutdownStep, StoreClosing, ListActive, CloseConn, CheckActive, Woken, Expired
<1>3. CASE Below
  BY <1>3 DEF Below
<1>4. CASE UNCHANGED allVars
  BY <1>4 DEF allVars
<1> QED BY <1>1, <1>2, <1>3, <1>4 DEF HttpNext

(* The handler only restricts the server: everything proved about          *)
(* Accept, Close and the janitor holds behind it (ServeHTTP calling        *)
(* srv.Accept).                                                            *)
THEOREM HandlerRefinesServer == HttpSpec => Spec
<1>1. HttpInit => Init
  BY DEF HttpInit
<1> QED BY <1>1, BelowStep, PTL DEF HttpSpec, Spec

(* An Accept that has returned stays returned.                             *)
LEMMA DoneIsFinal ==
  ASSUME TypeOK, [Next]_vars, NEW c \in Conns, acc[c] = "done"
  PROVE  acc'[c] = "done"
<1>0. acc \in [Conns -> Registered \cup {"idle", "hello", "ready", "signal", "done"}]
  BY DEF TypeOK
<1>1. ASSUME NEW e \in Conns, AcceptStep(e) PROVE acc'[c] = "done"
  BY <1>0, <1>1 DEF AcceptStep, ExitStep, Dial, FreshHello, ResumeHello, HandshakeFails,
     Register, RunEnds, DropResume, CheckClosed, StashResume, Unregister, Signal, Step
<1>2. ASSUME NEW k \in Closers, CloseChannel(k) \/ CloseAgain(k) \/ CloserStep(k)
      PROVE  acc' = acc
  BY <1>2 DEF CloseChannel, CloseAgain, CloserStep, LifeCancel, Snapshot, CancelSession,
     Await, ClearResumes
<1>3. CASE Tick \/ PurgeExpired
  BY <1>3 DEF Tick, PurgeExpired
<1>4. CASE UNCHANGED vars
  BY <1>4 DEF vars
<1> QED BY <1>1, <1>2, <1>3, <1>4 DEF Next

(* The initial states satisfy the invariant.                               *)
LEMMA InitHttp == HttpInit => HttpInv
BY SMTT(30) DEF HttpInit, HttpInv, HttpTypes, HttpStates, ShutStates, ActiveInv, ChannelInv

(* Every step keeps the handler's types.                                   *)
LEMMA HttpTypeStep ==
  ASSUME HttpTypes, [HttpNext]_allVars
  PROVE  HttpTypes'
<1> USE DEF HttpTypes, HttpStates, ShutStates
<1>1. ASSUME NEW c \in HttpConns, ServeStep(c) PROVE HttpTypes'
  BY <1>1, SMTT(30) DEF ServeStep, Request, UpgradeFails, Activate, RemoveConn, SignalDrained, Serve
<1>2. ASSUME NEW d \in Shutters, ShutdownStep(d) PROVE HttpTypes'
  BY <1>2, SMTT(30) DEF ShutdownStep, StoreClosing, ListActive, CloseConn, CheckActive, Woken,
     Expired, ShutStep
<1>3. CASE Below
  BY <1>3 DEF Below
<1>4. CASE UNCHANGED allVars
  BY <1>4 DEF allVars
<1> QED BY <1>1, <1>2, <1>3, <1>4 DEF HttpNext

(* Every step keeps active, listed and the Accept calls in line.           *)
LEMMA ActiveStep ==
  ASSUME TypeOK, HttpTypes, ActiveInv, [HttpNext]_allVars
  PROVE  ActiveInv'
<1>0. /\ http \in [HttpConns -> HttpStates] /\ active \subseteq HttpConns
      /\ shut \in [Shutters -> ShutStates] /\ listed \in [Shutters -> SUBSET HttpConns]
  BY DEF HttpTypes
<1>d. \A c \in HttpConns : acc[c] = "done" => acc'[c] = "done"
  BY BelowStep, DoneIsFinal, HttpAssumption
<1> USE DEF ActiveInv, HttpStates, ShutStates
<1>1. ASSUME NEW c \in HttpConns, ServeStep(c) PROVE ActiveInv'
  <2>1. CASE Request(c) \/ UpgradeFails(c)
    BY <1>0, <1>d, <2>1, SMTT(30) DEF Request, UpgradeFails, Serve
  <2>2. CASE Activate(c)
    BY <1>0, <1>d, <2>2, SMTT(30) DEF Activate, Serve
  <2>3. CASE RemoveConn(c)
    BY <1>0, <1>d, <2>3, SMTT(30) DEF RemoveConn, Serve
  <2>4. CASE SignalDrained(c)
    BY <1>0, <1>d, <2>4, SMTT(30) DEF SignalDrained, Serve
  <2> QED BY <1>1, <2>1, <2>2, <2>3, <2>4 DEF ServeStep
<1>2. ASSUME NEW d \in Shutters, ShutdownStep(d) PROVE ActiveInv'
  <2>1. CASE ListActive(d)
    BY <1>0, <1>d, <2>1, SMTT(30) DEF ListActive, ShutStep
  <2>2. CASE CheckActive(d)
    BY <1>0, <1>d, <2>2, SMTT(30) DEF CheckActive, ShutStep
  <2>3. CASE StoreClosing(d) \/ (\E c \in HttpConns : CloseConn(d, c)) \/ Woken(d) \/ Expired(d)
    BY <1>0, <1>d, <2>3, SMTT(30) DEF StoreClosing, CloseConn, Woken, Expired, ShutStep
  <2> QED BY <1>2, <2>1, <2>2, <2>3 DEF ShutdownStep
<1>3. CASE Below
  BY <1>0, <1>d, <1>3, SMTT(30) DEF Below
<1>4. CASE UNCHANGED allVars
  BY <1>0, <1>4 DEF allVars, vars
<1> QED BY <1>1, <1>2, <1>3, <1>4 DEF HttpNext

(* Every step keeps the drained channels' story: a channel is closed by    *)
(* the removal that replaces it.                                           *)
LEMMA ChannelStep ==
  ASSUME HttpTypes, ActiveInv, ChannelInv, [HttpNext]_allVars
  PROVE  ChannelInv'
<1>0. /\ http \in [HttpConns -> HttpStates] /\ active \subseteq HttpConns
      /\ drained \in Nat /\ prev \in [HttpConns -> Nat]
      /\ shut \in [Shutters -> ShutStates] /\ waitsFor \in [Shutters -> Nat]
  BY DEF HttpTypes
<1> USE DEF ChannelInv, HttpStates, ShutStates
<1>1. ASSUME NEW c \in HttpConns, ServeStep(c) PROVE ChannelInv'
  <2>1. CASE Request(c) \/ UpgradeFails(c)
    BY <1>0, <2>1, SMTT(30) DEF Request, UpgradeFails, Serve
  <2>2. CASE Activate(c)
    BY <1>0, <2>2 DEF Activate, Serve
  <2>3. CASE RemoveConn(c)
    BY <1>0, <2>3, SMTT(30) DEF RemoveConn, Serve
  <2>4. CASE SignalDrained(c)
    BY <1>0, <2>4 DEF SignalDrained, Serve
  <2> QED BY <1>1, <2>1, <2>2, <2>3, <2>4 DEF ServeStep
<1>2. ASSUME NEW d \in Shutters, ShutdownStep(d) PROVE ChannelInv'
  <2>1. CASE CheckActive(d)
    BY <1>0, <2>1, SMTT(30) DEF CheckActive, ShutStep
  <2>2. CASE StoreClosing(d) \/ ListActive(d) \/ (\E c \in HttpConns : CloseConn(d, c))
             \/ Woken(d) \/ Expired(d)
    BY <1>0, <2>2, SMTT(30) DEF StoreClosing, ListActive, CloseConn, Woken, Expired, ShutStep
  <2> QED BY <1>2, <2>1, <2>2 DEF ShutdownStep
<1>3. CASE Below
  BY <1>3 DEF Below
<1>4. CASE UNCHANGED allVars
  BY <1>4 DEF allVars
<1> QED BY <1>1, <1>2, <1>3, <1>4 DEF HttpNext

(* The inductive invariant of the handler, over the server's.              *)
THEOREM Handler == HttpSpec => [](CloseInv /\ HttpInv)
<1>1. HttpSpec => []CloseInv
  BY HandlerRefinesServer, Shutdown, PTL
<1>2. CloseInv /\ HttpInv /\ [HttpNext]_allVars => HttpInv'
  BY HttpTypeStep, ActiveStep, ChannelStep DEF HttpInv, CloseInv
<1> QED BY <1>1, <1>2, InitHttp, PTL DEF HttpSpec

(* However many requests arrive and however many goroutines call Shutdown: *)
(* a Shutdown that returns nil has seen every session it closed leave the  *)
(* server.                                                                 *)
THEOREM ShutdownDrains == HttpSpec => []DrainedIsGone
<1>1. CloseInv /\ HttpInv => DrainedIsGone
  <2> SUFFICES ASSUME CloseInv, HttpInv, NEW d \in Shutters, shut[d] = "nil",
                      NEW c \in listed[d]
               PROVE  acc[c] = "done" /\ c \notin sessions
    BY DEF DrainedIsGone
  <2>1. c \in HttpConns /\ c \in Conns
    BY HttpAssumption DEF HttpInv, HttpTypes
  <2>2. acc[c] = "done"
    BY <2>1 DEF HttpInv, ActiveInv
  <2> QED BY <2>1, <2>2 DEF CloseInv, RegistryExact, Registered
<1> QED BY <1>1, Handler, PTL

(* A Shutdown never sleeps through the last removal.                       *)
THEOREM ShutdownWakes == HttpSpec => []NoLostWakeup
<1>1. HttpInv => NoLostWakeup
  BY DEF HttpInv, HttpTypes, ChannelInv, NoLostWakeup
<1> QED BY <1>1, Handler, PTL

-------------------------------------------------------------------------------
(* One connection.                                                         *)

USE DEF Run

(* The invariant holds when session.run starts.                            *)
LEMMA InitBarrier == ConnInit => BarrierInv
<1> SUFFICES ASSUME ConnInit PROVE BarrierInv
  OBVIOUS
<1>1. ConnTypeOK
  <2>1. ReplayCount + MaxSends \in Nat /\ 0 <= OutboxBuffer
    BY ConnectionAssumption, SMTT(30)
  <2>2. <<>> \in Seq(Envelope) /\ Len(<<>>) = 0
    BY SMTT(30)
  <2>3. count \in [Senders -> 0 .. (ReplayCount + MaxSends)]
    BY <2>1, SMTT(30) DEF ConnInit
  <2>4. enq \in [Senders -> {"idle", "send", "tail"}]
    BY DEF ConnInit
  <2> QED BY <2>1, <2>2, <2>3, <2>4 DEF ConnInit, ConnTypeOK
<1>2. WaitGroupExact /\ CloseOrder /\ CloseBarrier /\ NoSendOnClosed
  BY DEF ConnInit, WaitGroupExact, CloseOrder, CloseBarrier, NoSendOnClosed, Senders
<1>3. HandInv
  BY DEF ConnInit, HandInv
<1> QED BY <1>1, <1>2, <1>3 DEF BarrierInv

(* A sender's step inside enqueue keeps it: whoever is between Add and     *)
(* Done holds the channel open, so the send cannot hit a closed channel.   *)
LEMMA EnqueueBarrier ==
  ASSUME BarrierInv, NEW p \in Senders, EnqueueStep(p)
  PROVE  BarrierInv'
<1> USE DEF enqVars, closingVars, writeVars
<1>0. ConnTypeOK /\ WaitGroupExact /\ CloseOrder /\ CloseBarrier /\ HandInv /\ NoSendOnClosed
  BY DEF BarrierInv
<1>1. enq[p] # "idle" /\ ~chanClosed
  BY <1>0 DEF EnqueueStep, Put, GiveUp, Return, WaitGroupExact, CloseBarrier
<1>2. <<p, count[p]>> \in Envelope /\ <<p, 0>> \in Envelope
  BY <1>0, ConnectionAssumption, SMTT(30) DEF Envelope, ConnTypeOK
<1>3. /\ panicked' = panicked
      /\ outbox' \in Seq(Envelope) /\ Len(outbox') <= OutboxBuffer
  <2> USE ConnectionAssumption DEF ConnTypeOK
  <2>0. \A e \in Envelope : Len(outbox) < OutboxBuffer =>
          Append(outbox, e) \in Seq(Envelope) /\ Len(Append(outbox, e)) <= OutboxBuffer
    BY <1>0, SMTT(30)
  <2>1. CASE Put(p) BY <2>0, <2>1, <1>0, <1>1, <1>2 DEF Put, ChannelSend
  <2>2. CASE GiveUp(p) BY <2>2, <1>0 DEF GiveUp
  <2>3. CASE Return(p) BY <2>0, <2>3, <1>0, <1>1, <1>2 DEF Return, BackPressureSend,
     ChannelSend
  <2> QED BY <2>1, <2>2, <2>3 DEF EnqueueStep
<1>4. /\ UNCHANGED <<run, count, closingVars, ctxDone, writeVars, watchdog, net>>
      /\ \E s \in {"idle", "tail"} :
           /\ enq' = [enq EXCEPT ![p] = s]
           /\ sendWG' = IF s = "idle" THEN sendWG \ {p} ELSE sendWG
  BY DEF EnqueueStep, Put, GiveUp, Return
<1>5. ConnTypeOK'
  BY <1>0, <1>3, <1>4, SMTT(30) DEF ConnTypeOK
<1>6. WaitGroupExact'
  BY <1>0, <1>1, <1>4 DEF WaitGroupExact, ConnTypeOK
<1>7. CloseOrder' /\ CloseBarrier' /\ HandInv' /\ NoSendOnClosed'
  BY <1>0, <1>1, <1>3, <1>4 DEF CloseOrder, CloseBarrier, HandInv, NoSendOnClosed
<1> QED BY <1>5, <1>6, <1>7 DEF BarrierInv

(* The steps of writeLoop, of run, of the watchdog and of the network.     *)
LEMMA OtherBarrier ==
  ASSUME BarrierInv,
         \/ \E p \in Producers : Produce(p)
         \/ WriterStep \/ RunStep \/ ReadRequest \/ ReadClose \/ WatchdogFire
         \/ WatchdogCancel \/ ServerCancel \/ Stall \/ Break
  PROVE  BarrierInv'
<1> USE DEF enqVars, closingVars, writeVars
<1>0. ConnTypeOK /\ WaitGroupExact /\ CloseOrder /\ CloseBarrier /\ HandInv /\ NoSendOnClosed
  BY DEF BarrierInv
<1>a. ASSUME NEW p \in Senders, Enqueue(p), count[p] < ReplayCount + MaxSends,
             UNCHANGED <<run, closingVars, ctxDone, writeVars, watchdog, net>>
      PROVE  BarrierInv'
  <2>1. ConnTypeOK'
    <3>1. count[p] + 1 \in 0 .. (ReplayCount + MaxSends)
      BY <1>0, <1>a, ConnectionAssumption, SMTT(30) DEF ConnTypeOK
    <3>2. count' \in [Senders -> 0 .. (ReplayCount + MaxSends)]
      BY <1>0, <1>a, <3>1 DEF ConnTypeOK, Enqueue
    <3>3. enq' \in [Senders -> {"idle", "send", "tail"}] /\ sendWG' \subseteq Senders
      BY <1>0, <1>a DEF ConnTypeOK, Enqueue
    <3>4. UNCHANGED <<run, outbox, panicked, closingVars, ctxDone, writeVars, watchdog, net>>
      BY <1>a DEF Enqueue
    <3> QED BY <1>0, <3>2, <3>3, <3>4, SMTT(30) DEF ConnTypeOK
  <2>2. WaitGroupExact'
    BY <1>0, <1>a DEF ConnTypeOK, WaitGroupExact, Enqueue
  <2>3. CloseOrder' /\ CloseBarrier' /\ HandInv' /\ NoSendOnClosed'
    BY <1>0, <1>a DEF CloseOrder, CloseBarrier, HandInv, NoSendOnClosed, Enqueue
  <2> QED BY <2>1, <2>2, <2>3 DEF BarrierInv
<1>1. ASSUME NEW p \in Producers, Produce(p) PROVE BarrierInv'
  <2>1. p \in Senders /\ count[p] < ReplayCount + MaxSends
    BY <1>0, <1>1, ConnectionAssumption, SMTT(30) DEF Senders, Produce, ConnTypeOK
  <2> QED BY <1>1, <1>a, <2>1 DEF Produce
<1>2. CASE Replay \/ ReadRequest
  <2>1. Run \in Senders
    BY DEF Senders
  <2>2. count[Run] < ReplayCount + MaxSends
    <3>1. count[Run] \in Nat
      BY <1>0, <2>1, ConnectionAssumption, SMTT(30) DEF ConnTypeOK
    <3> QED BY <1>2, <3>1, ConnectionAssumption, SMTT(30) DEF Replay, ReadRequest
  <2> QED BY <1>2, <1>a, <2>1, <2>2 DEF Replay, ReadRequest
<1>3. CASE WriterStep
  <2>1. /\ outbox' \in Seq(Envelope) /\ Len(outbox') <= OutboxBuffer
        /\ hand' \in Seq(Envelope) /\ sent' \in Seq(Envelope)
        /\ HandInv'
    <3>1. CASE WriterReceive
      <4>1. /\ Head(outbox) \in Envelope /\ Tail(outbox) \in Seq(Envelope)
            /\ Len(Tail(outbox)) <= OutboxBuffer
        BY <1>0, <3>1, ConnectionAssumption, SMTT(30) DEF WriterReceive, ConnTypeOK
      <4>2. \A e \in Envelope : <<e>> \in Seq(Envelope) /\ Len(<<e>>) = 1
        BY SMTT(30)
      <4> QED BY <1>0, <3>1, <4>1, <4>2 DEF WriterReceive, ConnTypeOK, HandInv
    <3>2. CASE WriterSend \/ WriterFail \/ WriterStop
      <4>1. <<>> \in Seq(Envelope) /\ Len(<<>>) = 0
        BY SMTT(30)
      <4>2. outbox' = outbox
        BY <3>2 DEF WriterSend, WriterFail, WriterStop
      <4>3. hand' \in Seq(Envelope) /\ sent' \in Seq(Envelope)
        BY <1>0, <3>2, <4>1 DEF WriterSend, WriterFail, WriterStop, ConnTypeOK
      <4>4. HandInv'
        BY <1>0, <3>2, <4>1, SMTT(30) DEF WriterSend, WriterFail, WriterStop, HandInv
      <4> QED BY <1>0, <4>2, <4>3, <4>4 DEF ConnTypeOK
    <3> QED BY <1>3, <3>1, <3>2 DEF WriterStep
  <2>2. /\ UNCHANGED <<run, enq, count, sendWG, panicked, closingVars, ctxDone, watchdog, net>>
        /\ writer' \in {"recv", "send", "done"}
    BY <1>3 DEF WriterStep, WriterReceive, WriterSend, WriterFail, WriterStop
  <2>3. ConnTypeOK'
    BY <1>0, <2>1, <2>2, SMTT(30) DEF ConnTypeOK
  <2>4. WaitGroupExact' /\ CloseOrder' /\ CloseBarrier' /\ NoSendOnClosed'
    BY <1>0, <2>2 DEF WaitGroupExact, CloseOrder, CloseBarrier, NoSendOnClosed
  <2> QED BY <2>1, <2>3, <2>4 DEF BarrierInv
<1>4. CASE \/ Start \/ StartReading \/ Bye \/ ReadError \/ Cancel \/ CloseFlag
           \/ CloseOutbox \/ Join \/ ReadClose \/ WatchdogFire \/ WatchdogCancel
           \/ ServerCancel \/ Stall \/ Break
  <2> USE DEF Start, StartReading, Bye, ReadError, Cancel, CloseFlag, CloseOutbox, Join,
              ReadClose, WatchdogFire, WatchdogCancel, ServerCancel, Stall, Break
  <2>1. UNCHANGED <<enqVars, hand, sent>>
    BY <1>4
  <2>2. ConnTypeOK'
    <3>1. run' \in {"start", "replay", "read", "bye", "cancel", "flag", "wait",
                    "join", "returned"}
      BY <1>0, <1>4 DEF ConnTypeOK
    <3>2. /\ outboxClosed' \in BOOLEAN /\ chanClosed' \in BOOLEAN /\ ctxDone' \in BOOLEAN
          /\ writer' \in {"none", "recv", "send", "done"}
      BY <1>0, <1>4 DEF ConnTypeOK
    <3>3. watchdog' \in {"off", "armed", "fired", "done"} /\ net' \in {"up", "stalled", "down"}
      BY <1>0, <1>4 DEF ConnTypeOK
    <3> QED BY <1>0, <2>1, <3>1, <3>2, <3>3 DEF ConnTypeOK
  <2>3. WaitGroupExact' /\ NoSendOnClosed'
    BY <1>0, <2>1 DEF WaitGroupExact, NoSendOnClosed
  <2>4. CloseOrder' /\ CloseBarrier'
    <3> HIDE DEF Start, StartReading, Bye, ReadError, Cancel, CloseFlag, CloseOutbox, Join,
                 ReadClose, WatchdogFire, WatchdogCancel, ServerCancel, Stall, Break
    <3>1. CASE CloseFlag
      BY <1>0, <2>1, <3>1 DEF CloseFlag, CloseOrder, CloseBarrier
    <3>2. CASE CloseOutbox
      BY <1>0, <2>1, <3>2 DEF CloseOutbox, CloseOrder, CloseBarrier
    <3>3. CASE Start \/ StartReading
      BY <1>0, <2>1, <3>3, SMTT(30) DEF Start, StartReading, CloseOrder, CloseBarrier
    <3>4. CASE Bye \/ ReadError \/ Cancel
      BY <1>0, <2>1, <3>4, SMTT(30) DEF Bye, ReadError, Cancel, CloseOrder, CloseBarrier
    <3>5. CASE Join \/ ReadClose
      BY <1>0, <2>1, <3>5, SMTT(30) DEF Join, ReadClose, CloseOrder, CloseBarrier
    <3>6. CASE WatchdogFire \/ WatchdogCancel \/ ServerCancel
      BY <1>0, <2>1, <3>6, SMTT(30) DEF WatchdogFire, WatchdogCancel, ServerCancel, CloseOrder,
                                        CloseBarrier
    <3>7. CASE Stall \/ Break
      BY <1>0, <2>1, <3>7, SMTT(30) DEF Stall, Break, CloseOrder, CloseBarrier
    <3> QED BY <1>4, <3>1, <3>2, <3>3, <3>4, <3>5, <3>6, <3>7
  <2>5. HandInv'
    <3>1. writer' = "send" <=> writer = "send"
      BY <1>0, <1>4 DEF HandInv
    <3>2. writer' = "none" <=> run' = "start"
      BY <1>0, <1>4 DEF HandInv
    <3> QED BY <1>0, <2>1, <3>1, <3>2 DEF HandInv
  <2> QED BY <2>2, <2>3, <2>4, <2>5 DEF BarrierInv
<1> QED BY <1>1, <1>2, <1>3, <1>4 DEF RunStep

(* BarrierInv is inductive.                                                *)
LEMMA NextBarrier == BarrierInv /\ [ConnNext]_connVars => BarrierInv'
<1> SUFFICES ASSUME BarrierInv, [ConnNext]_connVars PROVE BarrierInv'
  OBVIOUS
<1>1. CASE ConnNext
  BY <1>1, EnqueueBarrier, OtherBarrier DEF ConnNext
<1>2. CASE UNCHANGED connVars
  <2> USE DEF connVars, enqVars, closingVars, writeVars
  <2>1. ConnTypeOK'
    BY <1>2, SMTT(30) DEF BarrierInv, ConnTypeOK
  <2>2. WaitGroupExact' /\ CloseOrder' /\ CloseBarrier' /\ HandInv' /\ NoSendOnClosed'
    BY <1>2 DEF BarrierInv, WaitGroupExact, CloseOrder, CloseBarrier, HandInv, NoSendOnClosed
  <2> QED BY <2>1, <2>2 DEF BarrierInv
<1> QED BY <1>1, <1>2

(* The close protocol of the outbox is correct for any number of           *)
(* concurrent enqueue calls: its invariant holds in every reachable state. *)
THEOREM Barrier == ConnSpec => []BarrierInv
BY InitBarrier, NextBarrier, PTL DEF ConnSpec

(* No enqueue and no back-pressure event ever sends on the closed outbox   *)
(* channel (#83), whatever the number of senders and the buffer size.      *)
THEOREM ChannelSafety == ConnSpec => []NoSendOnClosed
<1>1. BarrierInv => NoSendOnClosed
  BY DEF BarrierInv
<1> QED BY <1>1, Barrier, PTL

-------------------------------------------------------------------------------
(* Refinement: every step of the connection is a step of the pipe or       *)
(* leaves it unchanged.                                                    *)

(* An accepted send appends to the pipe, or is lost if the writer is gone. *)
LEMMA AppendIsAccept ==
  ASSUME BarrierInv, NEW e \in Envelope, Len(outbox) < OutboxBuffer,
         outbox' = Append(outbox, e), UNCHANGED writeVars
  PROVE  Pipe!Accept \/ UNCHANGED Pipe!pipeVars
<1> USE DEF writeVars
<1>1. CASE writer = "done"
  BY <1>1 DEF Pipe!pipeVars
<1>2. CASE writer # "done"
  <2>1. /\ hand \in Seq(Envelope) /\ outbox \in Seq(Envelope)
        /\ Len(hand) <= 1 /\ Len(hand) \in Nat
    BY SMTT(30) DEF BarrierInv, ConnTypeOK, HandInv
  <2>2. Len(hand \o outbox) < OutboxBuffer + 1
    BY <2>1, ConnectionAssumption, SMTT(30)
  <2>3. hand \o Append(outbox, e) = Append(hand \o outbox, e)
    BY <2>1, SMTT(30)
  <2> QED BY <1>2, <2>2, <2>3 DEF Pipe!Accept
<1> QED BY <1>1, <1>2

(* Each step of the connection is a step of the pipe.                      *)
LEMMA StepIsPipeStep ==
  BarrierInv /\ [ConnNext]_connVars => [Pipe!PipeNext]_(Pipe!pipeVars)
<1> SUFFICES ASSUME BarrierInv, [ConnNext]_connVars
             PROVE  Pipe!PipeNext \/ UNCHANGED Pipe!pipeVars
  OBVIOUS
<1> USE DEF enqVars, closingVars, writeVars
<1>0. /\ hand \in Seq(Envelope) /\ outbox \in Seq(Envelope)
      /\ Len(hand) = IF writer = "send" THEN 1 ELSE 0
      /\ OutboxBuffer \in Nat
  BY ConnectionAssumption DEF BarrierInv, ConnTypeOK, HandInv
<1>1. ASSUME NEW p \in Senders, EnqueueStep(p)
      PROVE  Pipe!PipeNext \/ UNCHANGED Pipe!pipeVars
  <2>1. ~chanClosed
    BY <1>1 DEF BarrierInv, WaitGroupExact, CloseBarrier, EnqueueStep, Put, GiveUp, Return
  <2>2. <<p, count[p]>> \in Envelope /\ <<p, 0>> \in Envelope
    BY ConnectionAssumption, SMTT(30) DEF BarrierInv, ConnTypeOK, Envelope
  <2>3. UNCHANGED writeVars
    BY <1>1 DEF EnqueueStep, Put, GiveUp, Return
  <2>4. \/ outbox' = outbox
        \/ Len(outbox) < OutboxBuffer /\ \E e \in Envelope : outbox' = Append(outbox, e)
    <3>1. CASE Put(p) BY <3>1, <2>1, <2>2 DEF Put, ChannelSend
    <3>2. CASE GiveUp(p) BY <3>2 DEF GiveUp
    <3>3. CASE Return(p) BY <3>3, <2>1, <2>2 DEF Return, BackPressureSend, ChannelSend
    <3> QED BY <1>1, <3>1, <3>2, <3>3 DEF EnqueueStep
  <2>5. CASE outbox' = outbox
    BY <2>3, <2>5 DEF Pipe!pipeVars
  <2>6. CASE Len(outbox) < OutboxBuffer /\ \E e \in Envelope : outbox' = Append(outbox, e)
    BY <2>3, <2>6, AppendIsAccept DEF Pipe!PipeNext
  <2> QED BY <2>4, <2>5, <2>6
<1>2. CASE WriterReceive
  <2>1. hand = <<>> /\ <<Head(outbox)>> \o Tail(outbox) = outbox /\ <<>> \o outbox = outbox
    BY <1>0, <1>2, SMTT(30) DEF WriterReceive
  <2> QED BY <1>2, <2>1 DEF WriterReceive, Pipe!pipeVars
<1>3. CASE WriterSend
  <2>1. /\ hand = <<hand[1]>> /\ hand \o outbox # <<>>
        /\ Head(hand \o outbox) = hand[1] /\ Tail(hand \o outbox) = outbox
        /\ <<>> \o outbox = outbox
    <3>1. Len(hand) = 1
      BY <1>0, <1>3 DEF WriterSend
    <3>2. hand = <<hand[1]>> /\ hand \o outbox \in Seq(Envelope)
      BY <1>0, <3>1, SMTT(30)
    <3>3. Len(hand \o outbox) = 1 + Len(outbox) /\ hand \o outbox # <<>>
      <4>1. Len(hand \o outbox) = Len(hand) + Len(outbox) /\ Len(outbox) \in Nat
        BY <1>0, ConcatProperties, SMTT(30)
      <4> QED BY <3>1, <3>2, <4>1, EmptySeq, SMTT(30)
    <3>4. Head(hand \o outbox) = hand[1]
      BY <1>0, <3>1, <3>2, <3>3, SMTT(30)
    <3>5. Tail(hand \o outbox) = outbox
      <4>1. /\ Len(Tail(hand \o outbox)) = Len(outbox)
            /\ Tail(hand \o outbox) \in Seq(Envelope)
        BY <1>0, <3>2, <3>3, SMTT(30)
      <4>2. \A i \in 1 .. Len(outbox) : Tail(hand \o outbox)[i] = outbox[i]
        BY <1>0, <3>1, <3>2, <3>3, SMTT(30)
      <4> QED BY <1>0, <4>1, <4>2, SMTT(30)
    <3>6. <<>> \o outbox = outbox
      BY <1>0, SMTT(30)
    <3> QED BY <3>2, <3>3, <3>4, <3>5, <3>6
  <2> QED BY <1>3, <2>1 DEF WriterSend, Pipe!PipeNext, Pipe!Deliver
<1>4. CASE WriterFail \/ WriterStop
  BY <1>4 DEF WriterFail, WriterStop, Pipe!PipeNext, Pipe!Stop
<1>5. CASE Start
  BY <1>5 DEF Start, Pipe!pipeVars, BarrierInv, HandInv
<1>6. CASE \/ UNCHANGED connVars \/ \E p \in Producers : Produce(p)
           \/ Replay \/ StartReading \/ Bye \/ ReadError \/ Cancel \/ CloseFlag
           \/ CloseOutbox \/ Join \/ ReadRequest \/ ReadClose \/ WatchdogFire
           \/ WatchdogCancel \/ ServerCancel \/ Stall \/ Break
  <2>1. UNCHANGED <<outbox, writeVars>>
    BY <1>6 DEF connVars, Produce, Enqueue, Replay, StartReading, Bye, ReadError, Cancel,
       CloseFlag, CloseOutbox, Join, ReadRequest, ReadClose, WatchdogFire,
       WatchdogCancel, ServerCancel, Stall, Break
  <2> QED BY <2>1 DEF Pipe!pipeVars
<1> QED BY <1>1, <1>2, <1>3, <1>4, <1>5, <1>6 DEF ConnNext, WriterStep, RunStep

(* The connection's goroutines together are the bounded FIFO pipe that     *)
(* loses its contents only all at once, when writeLoop ends.               *)
THEOREM Refinement == ConnSpec => ImplementsPipe
<1>1. ConnInit => Pipe!PipeInit
  BY SMTT(30) DEF ConnInit, Pipe!PipeInit
<1> QED BY <1>1, Barrier, StepIsPipeStep, PTL DEF ConnSpec, ImplementsPipe, Pipe!PipeSpec
===============================================================================
