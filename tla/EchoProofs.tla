----------------------------- MODULE EchoProofs -----------------------------
(***************************************************************************)
(* Proofs about TcpEcho, for every number of clients, every semaphore,     *)
(* every limit on the iterations and every choice of faults.               *)
(* The start barrier of RunClients is right because a client that has      *)
(* passed its first iteration is never dialled again: it has called Done   *)
(* exactly if its iteration count is positive (BarrierInv).                *)
(* The echo protocol is right because of the one line that a connection    *)
(* carries back and forth: the client, the wire or the handler has it, and *)
(* which of them it is fixes by how much the two counts differ (PairInv).  *)
(* Hence TcpEcho implements EchoRun (at the end).                          *)
(***************************************************************************)
EXTENDS TcpEcho, FiniteSums

-----------------------------------------------------------------------------
(* Clients that have not called Done yet.                                  *)
NotDone == {c \in Clients : c \notin reached /\ cpc[c] # "returned"}

(* The part of the type invariant that the argument needs.                 *)
ControlType ==
    /\ cpc \in [Clients -> {"acquire", "dial", "loop", "write", "read", "barrier", "returned"}]
    /\ iter \in [Clients -> Nat]
    /\ reached \in SUBSET Clients
    /\ attempt \in [Clients -> 1 .. MaxRetries]
    /\ cErr \in [Clients -> {"none", "nil", "err"}]

(* Done was called by the barrier function exactly if the first iteration   *)
(* is over, and a client that dials has not got there.                      *)
ReachedInv == \A c \in Clients :
    /\ cpc[c] \in {"acquire", "dial"} => iter[c] = 0
    /\ cpc[c] # "returned" => (c \in reached <=> iter[c] > 0)

BarrierInv == ControlType /\ ReachedInv /\ waitGroup = Cardinality(NotDone) /\ BarrierHolds

-----------------------------------------------------------------------------
LEMMA NotDoneFinite == IsFiniteSet(NotDone) /\ Cardinality(NotDone) \in Nat
<1>1. NotDone \subseteq Clients /\ IsFiniteSet(Clients)
  BY ConnectionAssumption DEF NotDone
<1>2. QED
  BY <1>1, FS_Subset, FS_CardinalityType

(* Only a client that calls Done leaves the set, and it lowers the counter. *)
LEMMA OneLess ==
    ASSUME NEW c \in NotDone, waitGroup = Cardinality(NotDone),
           waitGroup' = waitGroup - 1, NotDone' = NotDone \ {c}
    PROVE  waitGroup' = Cardinality(NotDone')
BY NotDoneFinite, FS_RemoveElement

(* The end of a client: the deferred Done is called iff it is still due.    *)
LEMMA ReturnKeeps ==
    ASSUME BarrierInv, NEW c \in Clients, NEW e \in {"nil", "err"},
           cpc[c] # "returned", Return(c, e), UNCHANGED reached
    PROVE  waitGroup' = Cardinality(NotDone')
<1>1. CASE c \in reached
  <2>1. NotDone' = NotDone
    BY <1>1 DEF Return, NotDone, BarrierInv, ControlType
  <2>2. QED
    BY <1>1, <2>1 DEF Return, BarrierInv
<1>2. CASE c \notin reached
  <2>1. c \in NotDone /\ NotDone' = NotDone \ {c}
    BY <1>2 DEF Return, NotDone, BarrierInv, ControlType
  <2>2. QED
    BY <1>2, <2>1, OneLess DEF Return, BarrierInv
<1>3. QED
  BY <1>1, <1>2

(* A retry: the client dials again and is still due at the barrier.         *)
LEMMA RetryKeeps ==
    ASSUME BarrierInv, NEW c \in Clients, NEW err \in {"nil", "retriable", "fatal"},
           cpc[c] # "returned", Retry(c, err), UNCHANGED reached
    PROVE  /\ waitGroup' = Cardinality(NotDone')
           /\ \E s \in {"acquire", "returned"} : cpc' = [cpc EXCEPT ![c] = s]
           /\ cpc'[c] = "acquire" => err = "retriable"
           /\ attempt' \in [Clients -> 1 .. MaxRetries]
           /\ cErr' \in [Clients -> {"none", "nil", "err"}]
<1>1. CASE attempt' = [attempt EXCEPT ![c] = @ + 1] /\ err = "retriable" /\ attempt[c] < MaxRetries
           /\ cpc' = [cpc EXCEPT ![c] = "acquire"] /\ UNCHANGED <<waitGroup, cErr>>
  <2>1. NotDone' = NotDone
    BY <1>1 DEF NotDone, BarrierInv, ControlType
  <2>2. QED
    BY <1>1, <2>1 DEF BarrierInv, ControlType, MaxRetries
<1>2. CASE Return(c, IF err = "nil" THEN "nil" ELSE "err")
  <2>1. waitGroup' = Cardinality(NotDone')
    BY <1>2, ReturnKeeps
  <2>2. QED
    BY <1>2, <2>1 DEF Return, BarrierInv, ControlType
<1>3. QED
  BY <1>1, <1>2 DEF Retry

(* The end of an attempt: only a client in its first iteration retries.     *)
LEMMA EndAttemptKeeps ==
    ASSUME BarrierInv, NEW c \in Clients, NEW err \in {"nil", "retriable", "fatal"},
           cpc[c] # "returned", EndAttempt(c, err), err = "retriable" => iter[c] = 0
    PROVE  BarrierInv'
<1>1. /\ waitGroup' = Cardinality(NotDone')
      /\ \E s \in {"acquire", "returned"} : cpc' = [cpc EXCEPT ![c] = s]
      /\ cpc'[c] = "acquire" => err = "retriable"
      /\ attempt' \in [Clients -> 1 .. MaxRetries]
      /\ cErr' \in [Clients -> {"none", "nil", "err"}]
  BY RetryKeeps DEF EndAttempt
<1>2. iter' = [iter EXCEPT ![c] = 0] /\ reached' = reached
  BY DEF EndAttempt
<1>3. ControlType'
  BY <1>1, <1>2 DEF BarrierInv, ControlType
<1>4. ReachedInv'
  BY <1>1, <1>2 DEF BarrierInv, ControlType, ReachedInv
<1>5. BarrierHolds'
  BY <1>1, <1>2 DEF BarrierInv, ControlType, BarrierHolds
<1>6. QED
  BY <1>1, <1>3, <1>4, <1>5 DEF BarrierInv

(* A client that moves on within its attempt: nothing is due or done.       *)
LEMMA MoveKeeps ==
    ASSUME BarrierInv, NEW c \in Clients,
           NEW s \in {"dial", "loop", "write", "read"},
           cpc[c] \notin {"returned", "barrier"},
           s = "dial" => cpc[c] = "acquire",
           cpc' = [cpc EXCEPT ![c] = s], UNCHANGED <<attempt, iter, waitGroup, reached, cErr>>
    PROVE  BarrierInv'
<1>1. NotDone' = NotDone
  BY DEF NotDone, BarrierInv, ControlType
<1>2. ControlType' /\ ReachedInv' /\ BarrierHolds'
  BY DEF BarrierInv, ControlType, ReachedInv, BarrierHolds
<1>3. QED
  BY <1>1, <1>2 DEF BarrierInv

(* The barrier function: Done once, in the first iteration.                 *)
LEMMA IterationKeeps ==
    ASSUME BarrierInv, NEW c \in Clients, cpc[c] = "read", EndIteration(c)
    PROVE  BarrierInv'
<1>1. /\ iter' = [iter EXCEPT ![c] = @ + 1]
      /\ UNCHANGED <<attempt, cErr>>
  BY DEF EndIteration
<1>2. CASE iter[c] = 0
  <2>1. /\ cpc' = [cpc EXCEPT ![c] = "barrier"]
        /\ reached' = reached \cup {c}
        /\ waitGroup' = waitGroup - 1
    BY <1>2 DEF EndIteration, ConnectBarrier
  <2>2. c \in NotDone /\ NotDone' = NotDone \ {c}
    BY <1>2, <2>1 DEF NotDone, BarrierInv, ControlType, ReachedInv
  <2>3. waitGroup' = Cardinality(NotDone')
    BY <2>1, <2>2, OneLess DEF BarrierInv
  <2>4. ControlType'
    BY <1>1, <2>1 DEF BarrierInv, ControlType
  <2>5. ReachedInv'
    BY <1>1, <2>1 DEF BarrierInv, ControlType, ReachedInv
  <2>6. BarrierHolds'
    BY <1>1, <2>1 DEF BarrierInv, ControlType, BarrierHolds
  <2>7. QED
    BY <2>3, <2>4, <2>5, <2>6 DEF BarrierInv
<1>3. CASE iter[c] # 0
  <2>1. cpc' = [cpc EXCEPT ![c] = "loop"] /\ UNCHANGED <<reached, waitGroup>>
    BY <1>3 DEF EndIteration, ConnectBarrier
  <2>2. NotDone' = NotDone
    BY <2>1 DEF NotDone, BarrierInv, ControlType
  <2>3. ControlType'
    BY <1>1, <1>3, <2>1 DEF BarrierInv, ControlType
  <2>4. ReachedInv'
    BY <1>1, <1>3, <2>1 DEF BarrierInv, ControlType, ReachedInv
  <2>5. BarrierHolds'
    BY <1>1, <1>3, <2>1 DEF BarrierInv, ControlType, BarrierHolds
  <2>6. QED
    BY <2>1, <2>2, <2>3, <2>4, <2>5 DEF BarrierInv
<1>4. QED
  BY <1>2, <1>3

(* Wait returns only when nobody is left to wait for.                       *)
LEMMA PassKeeps ==
    ASSUME BarrierInv, NEW c \in Clients, PassBarrier(c)
    PROVE  BarrierInv'
<1>1. /\ cpc[c] = "barrier" /\ waitGroup = 0 /\ cpc' = [cpc EXCEPT ![c] = "loop"]
      /\ UNCHANGED <<attempt, iter, waitGroup, reached, cErr>>
  BY DEF PassBarrier
<1>2. NotDone = {}
  BY <1>1, NotDoneFinite, FS_EmptySet DEF BarrierInv
<1>3. NotDone' = NotDone
  BY <1>1 DEF NotDone, BarrierInv, ControlType
<1>4. BarrierHolds'
  BY <1>1, <1>2 DEF NotDone, BarrierInv, ControlType, BarrierHolds
<1>5. ControlType' /\ ReachedInv'
  BY <1>1 DEF BarrierInv, ControlType, ReachedInv
<1>6. QED
  BY <1>1, <1>3, <1>4, <1>5 DEF BarrierInv

(* What the steps do to the variables of the clients.                      *)
LEMMA Untouched ==
    ASSUME BarrierInv, UNCHANGED <<cpc, attempt, iter, waitGroup, reached, cErr>>
    PROVE  BarrierInv'
<1>1. NotDone' = NotDone
  BY DEF NotDone
<1>2. QED
  BY <1>1 DEF BarrierInv, ControlType, ReachedInv, BarrierHolds

LEMMA ClientKeeps ==
    ASSUME BarrierInv, NEW c \in Clients, Client(c)
    PROVE  BarrierInv'
<1>1. CASE Acquire(c)
  <2>1. CASE cpc' = [cpc EXCEPT ![c] = "dial"] /\ UNCHANGED <<attempt, waitGroup, cErr>>
    BY <1>1, <2>1, MoveKeeps DEF Acquire
  <2>2. CASE Return(c, "err")
    <3>1. waitGroup' = Cardinality(NotDone')
      BY <1>1, <2>2, ReturnKeeps DEF Acquire
    <3>2. /\ cpc[c] = "acquire"
          /\ cpc' = [cpc EXCEPT ![c] = "returned"]
          /\ cErr' = [cErr EXCEPT ![c] = "err"]
          /\ UNCHANGED <<attempt, iter, reached>>
      BY <1>1, <2>2 DEF Acquire, Return
    <3>3. ControlType'
      BY <3>2 DEF BarrierInv, ControlType
    <3>4. ReachedInv'
      BY <3>2 DEF BarrierInv, ControlType, ReachedInv
    <3>5. BarrierHolds'
      BY <3>2 DEF BarrierInv, ControlType, BarrierHolds
    <3>6. QED
      BY <3>1, <3>3, <3>4, <3>5 DEF BarrierInv
  <2>3. QED
    BY <1>1, <2>1, <2>2 DEF Acquire
<1>2. CASE Dial(c)
  <2>1. cpc[c] = "dial" /\ UNCHANGED <<iter, reached>>
    BY <1>2 DEF Dial
  <2>2. CASE cpc' = [cpc EXCEPT ![c] = "loop"] /\ UNCHANGED <<attempt, waitGroup, cErr>>
    BY <2>1, <2>2, MoveKeeps
  <2>3. CASE Retry(c, "retriable")
    <3>1. /\ waitGroup' = Cardinality(NotDone')
          /\ \E s \in {"acquire", "returned"} : cpc' = [cpc EXCEPT ![c] = s]
          /\ attempt' \in [Clients -> 1 .. MaxRetries]
          /\ cErr' \in [Clients -> {"none", "nil", "err"}]
      BY <2>1, <2>3, RetryKeeps
    <3>2. ControlType'
      BY <2>1, <3>1 DEF BarrierInv, ControlType
    <3>3. ReachedInv'
      BY <2>1, <3>1 DEF BarrierInv, ControlType, ReachedInv
    <3>4. BarrierHolds'
      BY <2>1, <3>1 DEF BarrierInv, ControlType, BarrierHolds
    <3>5. QED
      BY <3>1, <3>2, <3>3, <3>4 DEF BarrierInv
  <2>4. QED
    BY <1>2, <2>2, <2>3 DEF Dial
<1>3. CASE LoopTop(c)
  <2>1. CASE EndAttempt(c, "nil")
    BY <1>3, <2>1, EndAttemptKeeps DEF LoopTop
  <2>2. CASE cpc' = [cpc EXCEPT ![c] = "write"]
             /\ UNCHANGED <<attempt, iter, waitGroup, reached, cErr>>
    BY <1>3, <2>2, MoveKeeps DEF LoopTop
  <2>3. QED
    BY <1>3, <2>1, <2>2 DEF LoopTop
<1>4. CASE WriteLine(c)
  <2>1. CASE cpc' = [cpc EXCEPT ![c] = "read"]
             /\ UNCHANGED <<attempt, iter, waitGroup, reached, cErr>>
    BY <1>4, <2>1, MoveKeeps DEF WriteLine
  <2>2. CASE EndAttempt(c, LoopError(c, WriteResult(Conn(c), "client")))
    BY <1>4, <2>2, EndAttemptKeeps DEF WriteLine, LoopError
  <2>3. QED
    BY <1>4, <2>1, <2>2 DEF WriteLine
<1>5. CASE ReadEcho(c)
  <2>1. CASE EndIteration(c)
    BY <1>5, <2>1, IterationKeeps DEF ReadEcho
  <2>2. CASE EndAttempt(c, "fatal")
    BY <1>5, <2>2, EndAttemptKeeps DEF ReadEcho
  <2>3. ASSUME NEW result, EndAttempt(c, LoopError(c, result)) PROVE BarrierInv'
    BY <1>5, <2>3, EndAttemptKeeps DEF ReadEcho, LoopError
  <2>4. QED
    BY <1>5, <2>1, <2>2, <2>3 DEF ReadEcho
<1>6. CASE PassBarrier(c)
  BY <1>6, PassKeeps
<1>7. QED
  BY <1>1, <1>2, <1>3, <1>4, <1>5, <1>6 DEF Client

(* The inductive invariant: the counter of the barrier is the number of     *)
(* clients that have yet to call Done, and a client beyond its first        *)
(* iteration is never dialled again.                                        *)
THEOREM BarrierInvCorrect == Spec => []BarrierInv
<1>1. Init => BarrierInv
  <2> SUFFICES ASSUME Init PROVE BarrierInv
    OBVIOUS
  <2>1. NotDone = Clients
    BY DEF Init, ClientInit, NotDone
  <2>2. QED
    BY <2>1 DEF Init, ClientInit, BarrierInv, ControlType, ReachedInv, BarrierHolds, MaxRetries
<1>2. BarrierInv /\ [Next]_vars => BarrierInv'
  <2> SUFFICES ASSUME BarrierInv, [Next]_vars PROVE BarrierInv'
    OBVIOUS
  <2>1. CASE Environment
    BY <2>1, Untouched DEF Environment, StopClients, StopServer, clientVars
  <2>2. CASE ListenerCloses \/ AcceptStep
    BY <2>2, Untouched DEF ListenerCloses, AcceptStep, clientVars
  <2>3. ASSUME NEW c \in Clients, ClientStep(c) PROVE BarrierInv'
    BY <2>3, Untouched, ClientKeeps DEF ClientStep, CloseClientConn, clientVars
  <2>4. ASSUME NEW k \in Conns, HandlerStep(k) PROVE BarrierInv'
    BY <2>4, Untouched DEF HandlerStep, clientVars
  <2>5. CASE UNCHANGED vars
    BY <2>5, Untouched DEF vars, clientVars
  <2>6. QED
    BY <2>1, <2>2, <2>3, <2>4, <2>5 DEF Next, Done
<1>3. QED
  BY <1>1, <1>2, PTL DEF Spec

(* Done is called exactly once by every client, whatever fails and however   *)
(* often it is retried: the wait group neither panics nor hangs.             *)
THEOREM DoneOnce == Spec => []WaitGroupExact
<1>1. BarrierInv => WaitGroupExact
  BY DEF BarrierInv, NotDone, WaitGroupExact
<1>2. QED
  BY <1>1, BarrierInvCorrect, PTL

(* No client makes its second round trip before every client has made its    *)
(* first or has given up for good.                                           *)
THEOREM BarrierCorrect == Spec => []BarrierHolds
<1>1. BarrierInv => BarrierHolds
  BY DEF BarrierInv
<1>2. QED
  BY <1>1, BarrierInvCorrect, PTL

-----------------------------------------------------------------------------
(* Type correctness of the whole composition.  That the counter of the      *)
(* barrier stays a natural number is a consequence of BarrierInv.           *)
RestType == /\ NetTypeOK
            /\ ServerTypeOK
            /\ cStop \in BOOLEAN
            /\ cEOF \in SUBSET Clients
            /\ held \in SUBSET Clients
            /\ cCount \in [Clients -> Nat]

LEMMA ConnIsConn ==
    ASSUME ControlType, NEW c \in Clients
    PROVE  Conn(c) \in Conns
BY DEF ControlType, Conn, Conns, MaxRetries

LEMMA EndsKeepType ==
    ASSUME NetTypeOK, NEW k \in Conns, NEW s \in Sides,
           Consume(k, s) \/ Deliver(k, s) \/ Close(k, s)
    PROVE  /\ inbox' \in [Conns \X Sides -> 0 .. 1]
           /\ closed' \in SUBSET (Conns \X Sides)
           /\ rst' \in SUBSET (Conns \X Sides)
<1>1. Peer(s) \in Sides
  BY DEF Sides, Peer
<1>2. <<k, s>> \in Conns \X Sides /\ <<k, Peer(s)>> \in Conns \X Sides
  BY <1>1
<1>3. CASE Consume(k, s)
  BY <1>2, <1>3 DEF NetTypeOK, Consume
<1>4. CASE Deliver(k, s)
  BY <1>2, <1>4 DEF NetTypeOK, Deliver
<1>5. CASE Close(k, s)
  BY <1>2, <1>5 DEF NetTypeOK, Close
<1>6. QED
  BY <1>3, <1>4, <1>5

LEMMA ClientKeepsType ==
    ASSUME ControlType, RestType, NEW c \in Clients,
           Client(c) \/ CloseClientConn(c), UNCHANGED serverVars
    PROVE  RestType'
<1> DEFINE Ends == /\ inbox' \in [Conns \X Sides -> 0 .. 1]
                   /\ closed' \in SUBSET (Conns \X Sides)
                   /\ rst' \in SUBSET (Conns \X Sides)
<1>1. Conn(c) \in Conns /\ "client" \in Sides
  BY ConnIsConn DEF Sides
<1>2. ServerTypeOK'
  BY DEF RestType, ServerTypeOK, serverVars
<1>3. ASSUME Consume(Conn(c), "client") \/ Deliver(Conn(c), "client") \/ Close(Conn(c), "client")
      PROVE  Ends
  BY <1>1, <1>3, EndsKeepType DEF RestType
<1>4. ASSUME NEW err, EndAttempt(c, err) PROVE RestType'
  BY <1>2, <1>3, <1>4 DEF RestType, NetTypeOK, EndAttempt
<1>5. CASE Acquire(c) \/ PassBarrier(c)
  BY <1>2, <1>5 DEF RestType, NetTypeOK, Acquire, PassBarrier, netVars
<1>6. CASE Dial(c)
  BY <1>1, <1>2, <1>6 DEF RestType, NetTypeOK, Dial, Connect, endVars
<1>7. CASE LoopTop(c)
  BY <1>2, <1>4, <1>7 DEF RestType, NetTypeOK, LoopTop, netVars
<1>8. CASE WriteLine(c)
  BY <1>2, <1>3, <1>4, <1>8 DEF RestType, NetTypeOK, WriteLine
<1>9. CASE ReadEcho(c)
  <2>1. ASSUME EndIteration(c), Ends, cEOF' \in SUBSET Clients PROVE RestType'
    BY <1>2, <2>1 DEF RestType, NetTypeOK, EndIteration
  <2>2. ASSUME UNCHANGED endVars PROVE Ends
    BY <2>2 DEF RestType, NetTypeOK, endVars
  <2>3. cEOF \cup {c} \in SUBSET Clients /\ cEOF \in SUBSET Clients
    BY DEF RestType
  <2>4. QED
    BY <1>3, <1>4, <1>9, <2>1, <2>2, <2>3 DEF ReadEcho
<1>10. CASE CloseClientConn(c)
  BY <1>2, <1>3, <1>10 DEF RestType, NetTypeOK, CloseClientConn, clientVars
<1>11. QED
  BY <1>5, <1>6, <1>7, <1>8, <1>9, <1>10 DEF Client

LEMMA HandlerKeepsType ==
    ASSUME RestType, NEW k \in Conns,
           Handler(k) \/ CloseServerConn(k), UNCHANGED clientVars
    PROVE  RestType'
<1> DEFINE Ends == /\ inbox' \in [Conns \X Sides -> 0 .. 1]
                   /\ closed' \in SUBSET (Conns \X Sides)
                   /\ rst' \in SUBSET (Conns \X Sides)
<1> USE DEF RestType, NetTypeOK, ServerTypeOK
<1>1. "server" \in Sides
  BY DEF Sides
<1>2. ASSUME Consume(k, "server") \/ Deliver(k, "server") \/ Close(k, "server")
      PROVE  Ends
  BY <1>1, <1>2, EndsKeepType
<1>3. ASSUME NEW e \in {"nil", "err"}, EndHandler(k, e) PROVE RestType'
  BY <1>2, <1>3 DEF EndHandler, clientVars
<1>4. CASE FirstRead(k)
  BY <1>2, <1>3, <1>4 DEF FirstRead, clientVars
<1>5. CASE HandlerLoopTop(k)
  BY <1>3, <1>5 DEF HandlerLoopTop, clientVars, netVars
<1>6. CASE EchoLine(k)
  BY <1>2, <1>3, <1>6 DEF EchoLine, clientVars
<1>7. CASE ReadLine(k)
  <2>1. ASSUME UNCHANGED endVars PROVE Ends
    BY <2>1 DEF endVars
  <2>2. CASE EndHandler(k, "err")
    BY <1>3, <2>2
  <2>3. CASE ~EndHandler(k, "err")
    BY <1>2, <1>7, <2>1, <2>3 DEF ReadLine, CountServerIteration, clientVars
  <2>4. QED
    BY <2>2, <2>3
<1>8. CASE CloseServerConn(k)
  BY <1>2, <1>8 DEF CloseServerConn, clientVars, serverVars
<1>9. QED
  BY <1>4, <1>5, <1>6, <1>7, <1>8 DEF Handler

(* Every variable of the two programs and of the network stays in range.    *)
THEOREM EchoTypeCorrect == Spec => []TypeOK
<1>1. Init => RestType
  <2> SUFFICES ASSUME Init PROVE RestType
    OBVIOUS
  <2>1. NetTypeOK
    <3>1. /\ ctxDone \in BOOLEAN /\ listening \in BOOLEAN
          /\ closed \in SUBSET (Conns \X Sides) /\ rst \in SUBSET (Conns \X Sides)
      BY DEF Init, NetInit
    <3>2. link \in [Conns -> {"none", "queued", "accepted", "dropped"}]
      BY DEF Init, NetInit
    <3>3. inbox \in [Conns \X Sides -> 0 .. 1]
      BY DEF Init, NetInit
    <3>4. QED
      BY <3>1, <3>2, <3>3 DEF NetTypeOK
  <2>2. ServerTypeOK
    BY DEF Init, ServerInit, ServerTypeOK
  <2>3. QED
    BY <2>1, <2>2 DEF Init, ClientInit, RestType
<1>2. BarrierInv /\ RestType /\ [Next]_vars => RestType'
  <2> SUFFICES ASSUME BarrierInv, RestType, [Next]_vars PROVE RestType'
    OBVIOUS
  <2> USE DEF RestType, NetTypeOK, ServerTypeOK
  <2>1. CASE Environment
    <3>1. CASE StopClients /\ UNCHANGED serverVars
      BY <3>1 DEF StopClients, netVars, serverVars
    <3>2. CASE StopServer
      BY <3>2 DEF StopServer, netVars, clientVars
    <3>3. CASE EndContext /\ UNCHANGED <<clientVars, serverVars>>
      BY <3>3 DEF EndContext, clientVars, serverVars
    <3>4. ASSUME NEW k \in Conns, Drop(k), UNCHANGED <<clientVars, serverVars>> PROVE RestType'
      BY <3>4 DEF Drop, clientVars, serverVars, Sides
    <3>5. QED
      BY <2>1, <3>1, <3>2, <3>3, <3>4 DEF Environment
  <2>2. CASE ListenerCloses
    <3>1. /\ listening' = FALSE
          /\ link' \in [Conns -> {"none", "queued", "accepted", "dropped"}]
          /\ UNCHANGED <<ctxDone, inbox, closed, clientVars, serverVars>>
      BY <2>2 DEF ListenerCloses, CloseListener
    <3>2. {<<k, "client">> : k \in {j \in Conns : link[j] = "queued"}}
             \in SUBSET (Conns \X Sides)
      BY DEF Sides
    <3>3. rst' \in SUBSET (Conns \X Sides)
      BY <2>2, <3>2 DEF ListenerCloses, CloseListener
    <3>4. QED
      BY <3>1, <3>3 DEF clientVars, serverVars
  <2>3. CASE AcceptStep
    <3>1. CASE AcceptFails \/ AcceptReturns
      BY <2>3, <3>1 DEF AcceptStep, AcceptFails, AcceptReturns, netVars, clientVars
    <3>2. ASSUME NEW k \in Conns, AcceptConn(k) PROVE RestType'
      BY <2>3, <3>2 DEF AcceptStep, AcceptConn, endVars, clientVars
    <3>3. QED
      BY <2>3, <3>1, <3>2 DEF AcceptStep, AcceptLoop
  <2>4. ASSUME NEW c \in Clients, ClientStep(c) PROVE RestType'
    BY <2>4, ClientKeepsType DEF ClientStep, BarrierInv
  <2>5. ASSUME NEW k \in Conns, HandlerStep(k) PROVE RestType'
    BY <2>5, HandlerKeepsType DEF HandlerStep
  <2>6. CASE UNCHANGED vars
    BY <2>6 DEF vars, netVars, clientVars, serverVars
  <2>7. QED
    BY <2>1, <2>2, <2>3, <2>4, <2>5, <2>6 DEF Next, Done
<1>3. BarrierInv /\ RestType => TypeOK
  BY NotDoneFinite DEF BarrierInv, ControlType, RestType, TypeOK, ClientTypeOK
<1>4. QED
  BY <1>1, <1>2, <1>3, BarrierInvCorrect, PTL DEF Spec

-----------------------------------------------------------------------------
(* What is left behind.  A client owns the connection of its current attempt *)
(* only; every earlier one is closed.  A handler exists exactly for the      *)
(* accepted connections, and the accept loop returns after the last of them. *)
ConnLeaves(c, i) ==
    /\ i > attempt[c] => link[<<c, i>>] = "none"
    /\ i = attempt[c] /\ cpc[c] \in {"acquire", "dial"} => link[<<c, i>>] = "none"
    /\ i < attempt[c] \/ cpc[c] = "returned"
         => link[<<c, i>>] = "none" \/ <<<<c, i>>, "client">> \in closed

ClientLeaves ==
    /\ held = {c \in Clients : cpc[c] = "dial"}
    /\ \A c \in Clients, i \in 1 .. 3 : ConnLeaves(c, i)

ServerLeaves ==
    /\ \A k \in Conns : /\ hpc[k] = "none" <=> link[k] # "accepted"
                        /\ hpc[k] = "returned" => <<k, "server">> \in closed
    /\ apc = "returned" => AllHandled

LeavesInv == ClientLeaves /\ ServerLeaves

LEMMA Types ==
    ASSUME TypeOK
    PROVE  /\ Conns = Clients \X (1 .. 3)
           /\ cpc \in [Clients -> {"acquire", "dial", "loop", "write", "read", "barrier", "returned"}]
           /\ attempt \in [Clients -> 1 .. 3]
           /\ link \in [Conns -> {"none", "queued", "accepted", "dropped"}]
BY DEF TypeOK, NetTypeOK, ClientTypeOK, Conns, MaxRetries

(* The four ways in which a step touches what ClientLeaves speaks of.        *)
LEMMA ClientLeavesQuiet ==
    ASSUME TypeOK, ClientLeaves, closed \subseteq closed',
           UNCHANGED <<held, cpc, attempt>>,
           \A k \in Conns : link'[k] = "none" <=> link[k] = "none"
    PROVE  ClientLeaves'
<1>1. ASSUME NEW c \in Clients, NEW i \in 1 .. 3 PROVE ConnLeaves(c, i)'
  <2>1. <<c, i>> \in Conns
    BY Types
  <2>2. QED
    BY <2>1 DEF ClientLeaves, ConnLeaves
<1>2. QED
  BY <1>1 DEF ClientLeaves

LEMMA ClientLeavesReturn ==
    ASSUME TypeOK, ClientLeaves, NEW c \in Clients, NEW e, Return(c, e),
           UNCHANGED link, held' = held \ {c}, closed \subseteq closed',
           link[Conn(c)] = "none" \/ <<Conn(c), "client">> \in closed'
    PROVE  ClientLeaves'
<1>1. cpc' = [cpc EXCEPT ![c] = "returned"] /\ attempt' = attempt
  BY DEF Return
<1>2. held' = {d \in Clients : cpc'[d] = "dial"}
  BY <1>1, Types DEF ClientLeaves
<1>3. ASSUME NEW d \in Clients, NEW i \in 1 .. 3 PROVE ConnLeaves(d, i)'
  <2>1. ConnLeaves(d, i)
    BY DEF ClientLeaves
  <2>2. CASE d # c
    BY <1>1, <2>1, <2>2, Types DEF ConnLeaves
  <2>3. CASE d = c /\ i # attempt[c]
    BY <1>1, <2>1, <2>3, Types DEF ConnLeaves
  <2>4. CASE d = c /\ i = attempt[c]
    BY <1>1, <2>1, <2>4, Types DEF ConnLeaves, Conn
  <2>5. QED
    BY <2>2, <2>3, <2>4
<1>4. QED
  BY <1>2, <1>3 DEF ClientLeaves

LEMMA ClientLeavesRetry ==
    ASSUME TypeOK, ClientLeaves, NEW c \in Clients, NEW err, Retry(c, err),
           UNCHANGED link, held' = held \ {c}, closed \subseteq closed',
           link[Conn(c)] = "none" \/ <<Conn(c), "client">> \in closed'
    PROVE  ClientLeaves'
<1>1. CASE Return(c, IF err = "nil" THEN "nil" ELSE "err")
  BY <1>1, ClientLeavesReturn
<1>2. CASE /\ attempt' = [attempt EXCEPT ![c] = @ + 1]
           /\ cpc' = [cpc EXCEPT ![c] = "acquire"]
  <2>1. held' = {d \in Clients : cpc'[d] = "dial"}
    BY <1>2, Types DEF ClientLeaves
  <2>2. ASSUME NEW d \in Clients, NEW i \in 1 .. 3 PROVE ConnLeaves(d, i)'
    <3>1. ConnLeaves(d, i)
      BY DEF ClientLeaves
    <3>2. CASE d # c
      BY <1>2, <3>1, <3>2, Types DEF ConnLeaves
    <3>3. CASE d = c /\ i # attempt[c]
      BY <1>2, <3>1, <3>3, Types DEF ConnLeaves
    <3>4. CASE d = c /\ i = attempt[c]
      BY <1>2, <3>1, <3>4, Types DEF ConnLeaves, Conn
    <3>5. QED
      BY <3>2, <3>3, <3>4
  <2>3. QED
    BY <2>1, <2>2 DEF ClientLeaves
<1>3. QED
  BY <1>1, <1>2 DEF Retry

LEMMA ClientLeavesMove ==
    ASSUME TypeOK, ClientLeaves, NEW c \in Clients,
           NEW s \in {"dial", "loop", "write", "read", "barrier"},
           cpc' = [cpc EXCEPT ![c] = s], UNCHANGED attempt,
           cpc[c] # "returned", s = "dial" => cpc[c] = "acquire",
           held' = IF s = "dial" THEN held \cup {c} ELSE held \ {c},
           closed \subseteq closed',
           UNCHANGED link \/ (s = "loop" /\ link' = [link EXCEPT ![Conn(c)] = "queued"])
    PROVE  ClientLeaves'
<1>1. held' = {d \in Clients : cpc'[d] = "dial"}
  BY Types DEF ClientLeaves
<1>2. ASSUME NEW d \in Clients, NEW i \in 1 .. 3 PROVE ConnLeaves(d, i)'
  <2>1. ConnLeaves(d, i)
    BY DEF ClientLeaves
  <2>2. <<d, i>> \in Conns
    BY Types
  <2>3. CASE d # c \/ i # attempt[c]
    <3>1. link'[<<d, i>>] = link[<<d, i>>]
      BY <2>2, <2>3, Types DEF Conn
    <3>2. QED
      BY <2>1, <2>3, <3>1, Types DEF ConnLeaves
  <2>4. CASE d = c /\ i = attempt[c]
    BY <2>1, <2>2, <2>4, Types DEF ConnLeaves, Conn
  <2>5. QED
    BY <2>3, <2>4
<1>3. QED
  BY <1>1, <1>2 DEF ClientLeaves

LEMMA EndAttemptLeaves ==
    ASSUME TypeOK, ClientLeaves, NEW c \in Clients, NEW err, EndAttempt(c, err),
           cpc[c] \in {"loop", "write", "read"}
    PROVE  ClientLeaves'
<1>1. Retry(c, err) /\ link' = link /\ closed' = closed \cup {<<Conn(c), "client">>}
  BY DEF EndAttempt, Close
<1>2. held' = held \ {c}
  BY DEF EndAttempt, ClientLeaves
<1>3. QED
  BY <1>1, <1>2, ClientLeavesRetry

LEMMA ClientStepLeaves ==
    ASSUME TypeOK, ClientLeaves, NEW c \in Clients, Client(c)
    PROVE  ClientLeaves'
<1>1. CASE Acquire(c)
  <2>1. closed' = closed /\ link' = link /\ cpc[c] = "acquire"
    BY <1>1 DEF Acquire, netVars
  <2>2. CASE Return(c, "err") /\ UNCHANGED held
    <3>1. link[Conn(c)] = "none" /\ held' = held \ {c}
      BY <2>1, <2>2, Types DEF ClientLeaves, ConnLeaves, Conn
    <3>2. QED
      BY <2>1, <2>2, <3>1, ClientLeavesReturn
  <2>3. CASE held' = held \cup {c} /\ cpc' = [cpc EXCEPT ![c] = "dial"] /\ UNCHANGED attempt
    BY <2>1, <2>3, ClientLeavesMove
  <2>4. QED
    BY <1>1, <2>2, <2>3 DEF Acquire
<1>2. CASE Dial(c)
  <2>1. closed' = closed /\ cpc[c] = "dial" /\ held' = held \ {c}
    BY <1>2 DEF Dial, endVars
  <2>2. CASE Retry(c, "retriable") /\ UNCHANGED link
    <3>1. link[Conn(c)] = "none"
      BY <2>1, Types DEF ClientLeaves, ConnLeaves, Conn
    <3>2. QED
      BY <2>1, <2>2, <3>1, ClientLeavesRetry
  <2>3. CASE Connect(Conn(c)) /\ cpc' = [cpc EXCEPT ![c] = "loop"] /\ UNCHANGED attempt
    BY <2>1, <2>3, ClientLeavesMove DEF Connect
  <2>4. QED
    BY <1>2, <2>2, <2>3 DEF Dial
<1>3. ASSUME cpc[c] \in {"loop", "write", "read", "barrier"},
             NEW s \in {"loop", "write", "read", "barrier"},
             cpc' = [cpc EXCEPT ![c] = s],
             UNCHANGED <<attempt, held, closed, link>>
      PROVE  ClientLeaves'
  <2>1. held' = held \ {c}
    BY <1>3 DEF ClientLeaves
  <2>2. QED
    BY <1>3, <2>1, ClientLeavesMove
<1>4. CASE LoopTop(c)
  BY <1>3, <1>4, EndAttemptLeaves DEF LoopTop, netVars
<1>5. CASE WriteLine(c)
  BY <1>3, <1>5, EndAttemptLeaves DEF WriteLine, Deliver
<1>6. CASE ReadEcho(c)
  <2>1. CASE EndIteration(c) /\ closed' = closed
    <3>1. UNCHANGED <<attempt, held, link>>
      BY <2>1 DEF EndIteration
    <3>2. \E s \in {"loop", "barrier"} : cpc' = [cpc EXCEPT ![c] = s]
      BY <2>1 DEF EndIteration, ConnectBarrier
    <3>3. QED
      BY <1>3, <1>6, <2>1, <3>1, <3>2 DEF ReadEcho
  <2>2. ASSUME NEW err, EndAttempt(c, err) PROVE ClientLeaves'
    BY <1>6, <2>2, EndAttemptLeaves DEF ReadEcho
  <2>3. QED
    BY <1>6, <2>1, <2>2 DEF ReadEcho, Consume, endVars
<1>7. CASE PassBarrier(c)
  BY <1>3, <1>7 DEF PassBarrier, netVars
<1>8. QED
  BY <1>1, <1>2, <1>4, <1>5, <1>6, <1>7 DEF Client

(* A client never touches what the server leaves: its connection is new.     *)
LEMMA ServerLeavesQuiet ==
    ASSUME ServerLeaves, UNCHANGED <<apc, hpc>>, closed \subseteq closed',
           \A k \in Conns : link'[k] = "accepted" <=> link[k] = "accepted"
    PROVE  ServerLeaves'
BY DEF ServerLeaves, AllHandled, Handled

LEMMA ClientClosedGrows ==
    ASSUME NEW c \in Clients, Client(c)
    PROVE  closed \subseteq closed'
<1>1. ASSUME NEW err, EndAttempt(c, err) PROVE closed \subseteq closed'
  BY <1>1 DEF EndAttempt, Close
<1>2. QED
  BY <1>1 DEF Client, Acquire, Dial, LoopTop, WriteLine, ReadEcho, PassBarrier,
              Deliver, Consume, netVars, endVars

LEMMA ClientAcceptsNothing ==
    ASSUME TypeOK, ClientLeaves, NEW c \in Clients, Client(c)
    PROVE  \A k \in Conns : link'[k] = "accepted" <=> link[k] = "accepted"
<1>1. CASE UNCHANGED link
  BY <1>1
<1>2. CASE Dial(c) /\ Connect(Conn(c))
  <2>1. link[Conn(c)] = "none"
    BY <1>2, Types DEF Dial, ClientLeaves, ConnLeaves, Conn
  <2>2. QED
    BY <1>2, <2>1, Types DEF Connect
<1>3. ASSUME NEW err, EndAttempt(c, err) PROVE UNCHANGED link
  BY <1>3 DEF EndAttempt
<1>4. ASSUME EndIteration(c) PROVE UNCHANGED link
  BY <1>4 DEF EndIteration
<1>5. QED
  BY <1>1, <1>2, <1>3, <1>4 DEF Client, Acquire, Dial, LoopTop, WriteLine, ReadEcho,
                               PassBarrier, netVars

(* The server's steps.                                                      *)
LEMMA HandlerLeaves ==
    ASSUME TypeOK, ServerLeaves, NEW k \in Conns, Handler(k)
    PROVE  ServerLeaves' /\ closed \subseteq closed' /\ UNCHANGED link
<1>1. hpc \in [Conns -> {"none", "first", "loop", "write", "read", "returned"}]
  BY DEF TypeOK, ServerTypeOK
<1>2. Handled(k) /\ apc # "returned"
  BY DEF Handler, FirstRead, HandlerLoopTop, EchoLine, ReadLine, Handled, ServerLeaves, AllHandled
<1>3. ASSUME NEW s \in {"loop", "write", "read"}, hpc' = [hpc EXCEPT ![k] = s],
             UNCHANGED <<closed, link, apc>>
      PROVE  ServerLeaves'
  BY <1>1, <1>2, <1>3 DEF ServerLeaves, Handled
<1>4. ASSUME NEW e, EndHandler(k, e)
      PROVE  ServerLeaves' /\ closed \subseteq closed' /\ UNCHANGED link
  BY <1>1, <1>2, <1>4 DEF ServerLeaves, EndHandler, Close, Handled
<1>5. CASE FirstRead(k)
  BY <1>3, <1>4, <1>5 DEF FirstRead, Consume
<1>6. CASE HandlerLoopTop(k)
  BY <1>3, <1>4, <1>6 DEF HandlerLoopTop, netVars
<1>7. CASE EchoLine(k)
  BY <1>3, <1>4, <1>7 DEF EchoLine, Deliver
<1>8. CASE ReadLine(k)
  BY <1>3, <1>4, <1>8 DEF ReadLine, Consume, endVars
<1>9. QED
  BY <1>5, <1>6, <1>7, <1>8 DEF Handler

LEMMA AcceptLeaves ==
    ASSUME TypeOK, ServerLeaves, AcceptLoop
    PROVE  /\ ServerLeaves'
           /\ closed' = closed
           /\ \A k \in Conns : link'[k] = "none" <=> link[k] = "none"
<1>1. /\ hpc \in [Conns -> {"none", "first", "loop", "write", "read", "returned"}]
      /\ link \in [Conns -> {"none", "queued", "accepted", "dropped"}]
  BY DEF TypeOK, ServerTypeOK, NetTypeOK
<1>2. CASE AcceptFails \/ AcceptReturns
  BY <1>2 DEF AcceptFails, AcceptReturns, netVars, ServerLeaves, AllHandled, Handled
<1>3. ASSUME NEW k \in Conns, AcceptConn(k)
      PROVE  /\ ServerLeaves'
             /\ closed' = closed
             /\ \A j \in Conns : link'[j] = "none" <=> link[j] = "none"
  BY <1>1, <1>3 DEF AcceptConn, endVars, ServerLeaves
<1>4. QED
  BY <1>2, <1>3 DEF AcceptLoop

(* The inductive invariant behind NothingLeft.                              *)
THEOREM LeavesInvCorrect == Spec => []LeavesInv
<1>1. Init => LeavesInv
  <2> SUFFICES ASSUME Init PROVE LeavesInv
    OBVIOUS
  <2>1. ClientLeaves
    <3>1. held = {c \in Clients : cpc[c] = "dial"}
      BY DEF Init, ClientInit
    <3>2. ASSUME NEW c \in Clients, NEW i \in 1 .. 3 PROVE ConnLeaves(c, i)
      <4>1. link[<<c, i>>] = "none"
        BY DEF Init, NetInit, Conns, MaxRetries
      <4>2. QED
        BY <4>1 DEF ConnLeaves
    <3>3. QED
      BY <3>1, <3>2 DEF ClientLeaves
  <2>2. ServerLeaves
    BY DEF Init, NetInit, ServerInit, ServerLeaves
  <2>3. QED
    BY <2>1, <2>2 DEF LeavesInv
<1>2. TypeOK /\ LeavesInv /\ [Next]_vars => LeavesInv'
  <2> SUFFICES ASSUME TypeOK, ClientLeaves, ServerLeaves, [Next]_vars
               PROVE  ClientLeaves' /\ ServerLeaves'
    BY DEF LeavesInv
  <2>1. ASSUME UNCHANGED <<clientVars, serverVars>>, closed' = closed,
               \A k \in Conns : link'[k] = "none" <=> link[k] = "none",
               \A k \in Conns : link'[k] = "accepted" <=> link[k] = "accepted"
        PROVE  ClientLeaves' /\ ServerLeaves'
    <3>1. UNCHANGED <<held, cpc, attempt, apc, hpc>> /\ closed \subseteq closed'
      BY <2>1 DEF clientVars, serverVars
    <3>2. ClientLeaves'
      BY <2>1, <3>1, ClientLeavesQuiet
    <3>3. ServerLeaves'
      BY <2>1, <3>1, ServerLeavesQuiet
    <3>4. QED
      BY <3>2, <3>3
  <2>2. CASE Environment
    <3>1. CASE StopClients /\ UNCHANGED serverVars
      BY <3>1, ClientLeavesQuiet, ServerLeavesQuiet DEF StopClients, netVars, serverVars
    <3>2. CASE StopServer
      BY <3>2, ClientLeavesQuiet, ServerLeavesQuiet DEF StopServer, netVars, clientVars
    <3>3. CASE EndContext /\ UNCHANGED <<clientVars, serverVars>>
      BY <3>3, <2>1 DEF EndContext
    <3>4. ASSUME NEW k \in Conns, Drop(k), UNCHANGED <<clientVars, serverVars>>
          PROVE  ClientLeaves' /\ ServerLeaves'
      BY <3>4, <2>1, Types DEF Drop
    <3>5. QED
      BY <2>2, <3>1, <3>2, <3>3, <3>4 DEF Environment
  <2>3. CASE ListenerCloses
    BY <2>3, <2>1, Types DEF ListenerCloses, CloseListener
  <2>4. CASE AcceptStep
    BY <2>4, AcceptLeaves, ClientLeavesQuiet DEF AcceptStep, clientVars
  <2>5. ASSUME NEW c \in Clients, ClientStep(c) PROVE ClientLeaves' /\ ServerLeaves'
    <3>1. CASE Client(c)
      BY <2>5, <3>1, ClientStepLeaves, ClientClosedGrows, ClientAcceptsNothing, ServerLeavesQuiet
         DEF ClientStep, serverVars
    <3>2. CASE CloseClientConn(c)
      BY <2>5, <3>2, ClientLeavesQuiet, ServerLeavesQuiet
         DEF ClientStep, CloseClientConn, Close, clientVars, serverVars
    <3>3. QED
      BY <2>5, <3>1, <3>2 DEF ClientStep
  <2>6. ASSUME NEW k \in Conns, HandlerStep(k) PROVE ClientLeaves' /\ ServerLeaves'
    <3>1. CASE Handler(k)
      BY <2>6, <3>1, HandlerLeaves, ClientLeavesQuiet DEF HandlerStep, clientVars
    <3>2. CASE CloseServerConn(k)
      BY <2>6, <3>2, ClientLeavesQuiet, ServerLeavesQuiet
         DEF HandlerStep, CloseServerConn, Close, clientVars, serverVars
    <3>3. QED
      BY <2>6, <3>1, <3>2 DEF HandlerStep
  <2>7. CASE UNCHANGED vars
    BY <2>7, <2>1 DEF vars, netVars
  <2>8. QED
    BY <2>2, <2>3, <2>4, <2>5, <2>6, <2>7 DEF Next, Done
<1>3. QED
  BY <1>1, <1>2, EchoTypeCorrect, PTL DEF Spec

(* RunClients returns with every connection it made closed and no semaphore  *)
(* held, and Accept returns with every accepted connection closed, whatever  *)
(* fails, is retried or is interrupted on the way.                           *)
THEOREM NothingLeftCorrect == Spec => []NothingLeft
<1>1. TypeOK /\ LeavesInv => NothingLeft
  <2> SUFFICES ASSUME TypeOK, LeavesInv PROVE NothingLeft
    OBVIOUS
  <2>1. ASSUME ClientsReturned
        PROVE  held = {} /\ \A k \in Conns : link[k] # "none" => <<k, "client">> \in closed
    <3>1. held = {}
      BY <2>1 DEF LeavesInv, ClientLeaves, ClientsReturned
    <3>2. ASSUME NEW k \in Conns, link[k] # "none" PROVE <<k, "client">> \in closed
      <4>1. PICK c \in Clients, i \in 1 .. 3 : k = <<c, i>>
        BY Types
      <4>2. ConnLeaves(c, i) /\ cpc[c] = "returned"
        BY <2>1 DEF LeavesInv, ClientLeaves, ClientsReturned
      <4>3. QED
        BY <3>2, <4>1, <4>2 DEF ConnLeaves
    <3>3. QED
      BY <3>1, <3>2
  <2>2. ASSUME apc = "returned", NEW k \in Conns, link[k] = "accepted"
        PROVE  <<k, "server">> \in closed
    BY <2>2 DEF LeavesInv, ServerLeaves, AllHandled, Handled, TypeOK, ServerTypeOK
  <2>3. QED
    BY <2>1, <2>2 DEF NothingLeft
<1>2. QED
  BY <1>1, LeavesInvCorrect, EchoTypeCorrect, PTL

-----------------------------------------------------------------------------
(* The echo protocol: what a client and its handler count, and when one      *)
(* side's failure reaches the other.                                        *)

ClosedBy(k, s) == <<k, s>> \in closed
Reset(k, s) == <<k, s>> \in rst

-----------------------------------------------------------------------------
(* What a step leaves alone: a client, a connection with its handler.       *)

SameClient(c) == /\ cpc'[c] = cpc[c] /\ attempt'[c] = attempt[c] /\ iter'[c] = iter[c]
                 /\ cErr'[c] = cErr[c] /\ cCount'[c] = cCount[c]
                 /\ c \in cEOF' <=> c \in cEOF
                 /\ c \in reached' <=> c \in reached

SameEnd(k, s) == /\ inbox'[<<k, s>>] = inbox[<<k, s>>]
                 /\ ClosedBy(k, s)' <=> ClosedBy(k, s)
                 /\ Reset(k, s)' <=> Reset(k, s)

SameEnds(k) == SameEnd(k, "client") /\ SameEnd(k, "server")

SameHandler(k) == /\ hpc'[k] = hpc[k] /\ hErr'[k] = hErr[k] /\ sCount'[k] = sCount[k]
                  /\ k \in sEOF' <=> k \in sEOF

(* The ways in which a step moves the client that takes it.                 *)

ClientGoes(c, s) == /\ cpc'[c] = s
                    /\ attempt'[c] = attempt[c] /\ iter'[c] = iter[c]
                    /\ cErr'[c] = cErr[c] /\ cCount'[c] = cCount[c]
                    /\ c \in cEOF' <=> c \in cEOF
                    /\ c \in reached' <=> c \in reached

ClientCounts(c) == /\ cpc[c] = "read"
                   /\ cpc'[c] = IF iter[c] = 0 THEN "barrier" ELSE "loop"
                   /\ attempt'[c] = attempt[c] /\ iter'[c] = iter[c] + 1
                   /\ cErr'[c] = cErr[c] /\ cCount'[c] = cCount[c] + 1
                   /\ c \in reached' <=> c \in reached \/ iter[c] = 0

ClientReturns(c, e) == /\ cpc'[c] = "returned"
                       /\ attempt'[c] = attempt[c] /\ iter'[c] \in {iter[c], 0}
                       /\ cErr'[c] = e /\ cCount'[c] = cCount[c]
                       /\ c \in cEOF' => c \in cEOF /\ cpc[c] \in {"acquire", "dial"}
                       /\ c \in reached' <=> c \in reached

ClientRedials(c) == /\ cpc'[c] = "acquire"
                    /\ attempt[c] < 3 /\ attempt'[c] = attempt[c] + 1 /\ iter'[c] \in {iter[c], 0}
                    /\ cErr'[c] = cErr[c] /\ cCount'[c] = cCount[c]
                    /\ c \in cEOF' => c \in cEOF /\ cpc[c] = "dial"
                    /\ c \in reached' <=> c \in reached

\* a retriable error of the attempt: dial again, or give up after the last one
ClientFails(c, err) == \/ err = "retriable" /\ ClientRedials(c)
                       \/ (err # "retriable" \/ attempt[c] = 3) /\ ClientReturns(c, "err")

-----------------------------------------------------------------------------
(* The calls of package net, at the end where they are made.                *)

LEMMA ConsumeAt ==
    ASSUME NetTypeOK, NEW k \in Conns, NEW s \in Sides, Consume(k, s)
    PROVE  /\ inbox'[<<k, s>>] = 0
           /\ closed' = closed /\ rst' = rst
           /\ SameEnd(k, Peer(s))
           /\ \A j \in Conns : j # k => SameEnds(j)
<1>1. Peer(s) \in Sides /\ Peer(s) # s /\ "client" \in Sides /\ "server" \in Sides
  BY DEF Sides, Peer
<1>2. /\ inbox' = [inbox EXCEPT ![<<k, s>>] = 0]
      /\ closed' = closed /\ rst' = rst
  BY DEF Consume
<1>3. inbox \in [Conns \X Sides -> 0 .. 1]
  BY DEF NetTypeOK
<1>4. \A j \in Conns, r \in Sides : <<j, r>> # <<k, s>> => SameEnd(j, r)
  BY <1>2, <1>3 DEF SameEnd, ClosedBy, Reset
<1>5. QED
  BY <1>1, <1>2, <1>3, <1>4 DEF SameEnds

LEMMA DeliverAt ==
    ASSUME NetTypeOK, NEW k \in Conns, NEW s \in Sides, Deliver(k, s)
    PROVE  /\ closed' = closed
           /\ inbox'[<<k, s>>] = inbox[<<k, s>>]
           /\ Reset(k, Peer(s))' <=> Reset(k, Peer(s))
           /\ Reset(k, s)' => Reset(k, s) \/ ClosedBy(k, Peer(s))
           /\ inbox'[<<k, Peer(s)>>] =
                IF ClosedBy(k, Peer(s)) THEN inbox[<<k, Peer(s)>>] ELSE 1
           /\ \A j \in Conns : j # k => SameEnds(j)
<1>1. Peer(s) \in Sides /\ Peer(s) # s /\ "client" \in Sides /\ "server" \in Sides
  BY DEF Sides, Peer
<1>2. inbox \in [Conns \X Sides -> 0 .. 1]
  BY DEF NetTypeOK
<1>3. CASE ClosedBy(k, Peer(s))
  <2>1. rst' \in {rst, rst \cup {<<k, s>>}} /\ inbox' = inbox /\ closed' = closed
    BY <1>3 DEF Deliver, ClosedBy
  <2>2. \A j \in Conns, r \in Sides : <<j, r>> # <<k, s>> => SameEnd(j, r)
    BY <2>1 DEF SameEnd, ClosedBy, Reset
  <2>3. QED
    BY <1>1, <1>3, <2>1, <2>2 DEF SameEnds, SameEnd
<1>4. CASE ~ClosedBy(k, Peer(s))
  <2>1. inbox' = [inbox EXCEPT ![<<k, Peer(s)>>] = 1] /\ rst' = rst /\ closed' = closed
    BY <1>4 DEF Deliver, ClosedBy
  <2>2. \A j \in Conns, r \in Sides : <<j, r>> # <<k, Peer(s)>> => SameEnd(j, r)
    BY <1>2, <2>1 DEF SameEnd, ClosedBy, Reset
  <2>3. inbox'[<<k, Peer(s)>>] = 1
    BY <1>1, <1>2, <2>1
  <2>4. QED
    BY <1>1, <1>4, <2>1, <2>2, <2>3 DEF SameEnds, SameEnd, Reset
<1>5. QED
  BY <1>3, <1>4

LEMMA CloseAt ==
    ASSUME NetTypeOK, NEW k \in Conns, NEW s \in Sides, Close(k, s)
    PROVE  /\ inbox' = inbox
           /\ ClosedBy(k, s)' /\ (ClosedBy(k, Peer(s))' <=> ClosedBy(k, Peer(s)))
           /\ Reset(k, s)' <=> Reset(k, s)
           /\ Reset(k, Peer(s))' <=>
                Reset(k, Peer(s)) \/ (~ClosedBy(k, s) /\ inbox[<<k, s>>] = 1)
           /\ \A j \in Conns : j # k => SameEnds(j)
<1>1. Peer(s) # s
  BY DEF Sides, Peer
<1>2. /\ inbox' = inbox
      /\ closed' = closed \cup {<<k, s>>}
      /\ rst' = IF <<k, s>> \notin closed /\ inbox[<<k, s>>] = 1
                THEN rst \cup {<<k, Peer(s)>>} ELSE rst
  BY DEF Close
<1>3. QED
  BY <1>1, <1>2 DEF ClosedBy, Reset, SameEnds, SameEnd

-----------------------------------------------------------------------------
(* The steps of a client, as far as it and its connection are concerned.    *)

LEMMA ReturnAt ==
    ASSUME TypeOK, NEW c \in Clients, NEW e, Return(c, e)
    PROVE  /\ cpc'[c] = "returned" /\ cErr'[c] = e /\ attempt'[c] = attempt[c]
           /\ \A d \in Clients : d # c =>
                cpc'[d] = cpc[d] /\ cErr'[d] = cErr[d] /\ attempt'[d] = attempt[d]
BY DEF Return, TypeOK, ClientTypeOK

LEMMA RetryAt ==
    ASSUME TypeOK, NEW c \in Clients, NEW err, Retry(c, err)
    PROVE  /\ \/ /\ err = "retriable" /\ attempt[c] < 3 /\ attempt'[c] = attempt[c] + 1
                 /\ cpc'[c] = "acquire" /\ cErr'[c] = cErr[c]
              \/ /\ err # "retriable" \/ attempt[c] = 3
                 /\ cpc'[c] = "returned" /\ attempt'[c] = attempt[c]
                 /\ cErr'[c] = IF err = "nil" THEN "nil" ELSE "err"
           /\ \A d \in Clients : d # c =>
                cpc'[d] = cpc[d] /\ cErr'[d] = cErr[d] /\ attempt'[d] = attempt[d]
<1>1. CASE Return(c, IF err = "nil" THEN "nil" ELSE "err") /\ (err # "retriable" \/ attempt[c] = 3)
  BY <1>1, ReturnAt
<1>2. CASE /\ err = "retriable" /\ attempt[c] < 3
           /\ attempt' = [attempt EXCEPT ![c] = @ + 1]
           /\ cpc' = [cpc EXCEPT ![c] = "acquire"]
           /\ UNCHANGED <<waitGroup, cErr>>
  BY <1>2 DEF TypeOK, ClientTypeOK
<1>3. QED
  BY <1>1, <1>2 DEF Retry, MaxRetries

LEMMA EndAttemptAt ==
    ASSUME TypeOK, NEW c \in Clients, NEW err, EndAttempt(c, err),
           cpc[c] \in {"loop", "write", "read"}
    PROVE  /\ Close(Conn(c), "client") /\ link' = link
           /\ IF err = "nil" THEN ClientReturns(c, "nil") ELSE ClientFails(c, err)
           /\ \A d \in Clients : d # c => SameClient(d)
<1>1. /\ Retry(c, err)
      /\ iter' = [iter EXCEPT ![c] = 0] /\ cEOF' = cEOF \ {c}
      /\ reached' = reached /\ cCount' = cCount
      /\ Close(Conn(c), "client") /\ link' = link
  BY DEF EndAttempt
<1>2. iter'[c] = 0 /\ \A d \in Clients : d # c => iter'[d] = iter[d]
  BY <1>1 DEF TypeOK, ClientTypeOK
<1>3. \A d \in Clients : d # c => SameClient(d)
  BY <1>1, <1>2, RetryAt DEF SameClient
<1>4. CASE err = "nil"
  BY <1>1, <1>2, <1>3, <1>4, RetryAt DEF ClientReturns
<1>5. CASE err # "nil"
  BY <1>1, <1>2, <1>3, <1>5, RetryAt DEF ClientReturns, ClientRedials, ClientFails
<1>6. QED
  BY <1>1, <1>3, <1>4, <1>5

LEMMA AcquireAt ==
    ASSUME TypeOK, NEW c \in Clients, Acquire(c)
    PROVE  /\ cpc[c] = "acquire"
           /\ ClientGoes(c, "dial") \/ (ClientCtxDone /\ ClientReturns(c, "err"))
           /\ \A d \in Clients : d # c => SameClient(d)
           /\ UNCHANGED netVars
<1>1. /\ cpc[c] = "acquire"
      /\ UNCHANGED <<netVars, iter, cEOF, reached, cCount>>
  BY DEF Acquire
<1>2. CASE cpc' = [cpc EXCEPT ![c] = "dial"] /\ UNCHANGED <<attempt, cErr>>
  BY <1>1, <1>2 DEF ClientGoes, SameClient, TypeOK, ClientTypeOK
<1>3. CASE ClientCtxDone /\ Return(c, "err")
  BY <1>1, <1>3, ReturnAt DEF ClientReturns, SameClient
<1>4. QED
  BY <1>1, <1>2, <1>3 DEF Acquire

LEMMA DialAt ==
    ASSUME TypeOK, NEW c \in Clients, Dial(c)
    PROVE  /\ cpc[c] = "dial"
           /\ \/ listening /\ ClientGoes(c, "loop") /\ Connect(Conn(c))
              \/ /\ ~listening \/ ClientCtxDone \/ "refuse" \in Faults
                 /\ ClientFails(c, "retriable") /\ link' = link
           /\ \A d \in Clients : d # c => SameClient(d)
           /\ UNCHANGED <<ctxDone, listening, endVars>>
<1>1. /\ cpc[c] = "dial"
      /\ UNCHANGED <<ctxDone, listening, endVars, iter, cEOF, reached, cCount>>
  BY DEF Dial
<1>2. CASE /\ listening /\ Connect(Conn(c))
           /\ cpc' = [cpc EXCEPT ![c] = "loop"] /\ UNCHANGED <<attempt, cErr>>
  BY <1>1, <1>2 DEF ClientGoes, SameClient, TypeOK, ClientTypeOK
<1>3. CASE /\ ~listening \/ ClientCtxDone \/ "refuse" \in Faults
           /\ Retry(c, "retriable") /\ link' = link
  <2>1. ClientFails(c, "retriable")
    BY <1>1, <1>3, RetryAt DEF ClientFails, ClientRedials, ClientReturns
  <2>2. \A d \in Clients : d # c => SameClient(d)
    BY <1>1, <1>3, RetryAt DEF SameClient
  <2>3. QED
    BY <1>1, <1>3, <2>1, <2>2
<1>4. QED
  BY <1>1, <1>2, <1>3 DEF Dial

LEMMA LoopTopAt ==
    ASSUME TypeOK, NEW c \in Clients, LoopTop(c)
    PROVE  /\ cpc[c] = "loop" /\ link' = link
           /\ \/ StopReached(c) /\ Close(Conn(c), "client") /\ ClientReturns(c, "nil")
              \/ ~StopReached(c) /\ UNCHANGED netVars /\ ClientGoes(c, "write")
           /\ \A d \in Clients : d # c => SameClient(d)
<1>1. CASE StopReached(c) /\ EndAttempt(c, "nil") /\ cpc[c] = "loop"
  BY <1>1, EndAttemptAt
<1>2. CASE /\ ~StopReached(c) /\ cpc[c] = "loop"
           /\ cpc' = [cpc EXCEPT ![c] = "write"]
           /\ UNCHANGED <<netVars, cStop, attempt, iter, cEOF, held, waitGroup, reached, cErr, cCount>>
  BY <1>2 DEF ClientGoes, SameClient, TypeOK, ClientTypeOK, netVars
<1>3. QED
  BY <1>1, <1>2 DEF LoopTop

LEMMA WriteLineAt ==
    ASSUME TypeOK, NEW c \in Clients, WriteLine(c)
    PROVE  /\ cpc[c] = "write" /\ link' = link
           /\ \/ /\ WriteResult(Conn(c), "client") = "ok"
                 /\ Deliver(Conn(c), "client") /\ ClientGoes(c, "read")
              \/ /\ WriteResult(Conn(c), "client") # "ok"
                 /\ Close(Conn(c), "client")
                 /\ ClientFails(c, LoopError(c, WriteResult(Conn(c), "client")))
           /\ \A d \in Clients : d # c => SameClient(d)
<1>1. CASE /\ WriteResult(Conn(c), "client") # "ok" /\ cpc[c] = "write"
           /\ EndAttempt(c, LoopError(c, WriteResult(Conn(c), "client")))
  BY <1>1, EndAttemptAt DEF LoopError
<1>2. CASE /\ WriteResult(Conn(c), "client") = "ok" /\ cpc[c] = "write"
           /\ Deliver(Conn(c), "client")
           /\ cpc' = [cpc EXCEPT ![c] = "read"]
           /\ UNCHANGED <<link, attempt, iter, cEOF, reached, cErr, cCount>>
  BY <1>2 DEF ClientGoes, SameClient, TypeOK, ClientTypeOK
<1>3. QED
  BY <1>1, <1>2 DEF WriteLine

LEMMA CountsAt ==
    ASSUME TypeOK, NEW c \in Clients, cpc[c] = "read", EndIteration(c),
           cEOF' = cEOF \/ cEOF' = cEOF \cup {c}
    PROVE  /\ ClientCounts(c) /\ link' = link
           /\ \A d \in Clients : d # c => SameClient(d)
<1>1. /\ iter' = [iter EXCEPT ![c] = @ + 1]
      /\ cCount' = [cCount EXCEPT ![c] = @ + 1]
      /\ UNCHANGED <<link, attempt, cErr>>
      /\ cpc' = [cpc EXCEPT ![c] = IF iter[c] = 0 THEN "barrier" ELSE "loop"]
      /\ reached' = IF iter[c] = 0 THEN reached \cup {c} ELSE reached
  BY DEF EndIteration, ConnectBarrier
<1>2. QED
  BY <1>1 DEF ClientCounts, SameClient, TypeOK, ClientTypeOK

LEMMA ReadEchoAt ==
    ASSUME TypeOK, NEW c \in Clients, ReadEcho(c)
    PROVE  /\ cpc[c] = "read" /\ link' = link
           /\ \A d \in Clients : d # c => SameClient(d)
           /\ \E result \in ReadResults(Conn(c), "client") :
                \/ /\ result = "data" /\ Consume(Conn(c), "client")
                   /\ ClientCounts(c) /\ cEOF' = cEOF
                \/ /\ result = "eof" /\ ~EOFIsError /\ UNCHANGED endVars
                   /\ ClientCounts(c) /\ c \in cEOF'
                \/ /\ result = "eof" /\ EOFIsError /\ Close(Conn(c), "client")
                   /\ ClientReturns(c, "err")
                \/ /\ result \in {"reset", "closed"} /\ Close(Conn(c), "client")
                   /\ ClientFails(c, LoopError(c, result))
<1>1. cpc[c] = "read"
  BY DEF ReadEcho
<1>2. PICK result \in ReadResults(Conn(c), "client") :
         \/ result = "data" /\ Consume(Conn(c), "client") /\ UNCHANGED cEOF /\ EndIteration(c)
         \/ /\ result = "eof"
            /\ ~EOFIsError
            /\ cEOF' = cEOF \cup {c}
            /\ UNCHANGED endVars
            /\ EndIteration(c)
         \/ result = "eof" /\ EOFIsError /\ EndAttempt(c, "fatal")
         \/ result \in {"reset", "closed"} /\ EndAttempt(c, LoopError(c, result))
  BY DEF ReadEcho
<1>3. CASE result = "data" /\ Consume(Conn(c), "client") /\ UNCHANGED cEOF /\ EndIteration(c)
  BY <1>1, <1>3, CountsAt
<1>4. CASE result = "eof" /\ ~EOFIsError /\ cEOF' = cEOF \cup {c} /\ UNCHANGED endVars /\ EndIteration(c)
  BY <1>1, <1>4, CountsAt
<1>5. CASE result = "eof" /\ EOFIsError /\ EndAttempt(c, "fatal")
  BY <1>1, <1>5, EndAttemptAt DEF ClientFails
<1>6. CASE result \in {"reset", "closed"} /\ EndAttempt(c, LoopError(c, result))
  BY <1>1, <1>6, EndAttemptAt DEF LoopError
<1>7. QED
  BY <1>2, <1>3, <1>4, <1>5, <1>6

LEMMA PassBarrierAt ==
    ASSUME TypeOK, NEW c \in Clients, PassBarrier(c)
    PROVE  /\ cpc[c] = "barrier" /\ UNCHANGED netVars /\ ClientGoes(c, "loop")
           /\ \A d \in Clients : d # c => SameClient(d)
BY DEF PassBarrier, ClientGoes, SameClient, TypeOK, ClientTypeOK

-----------------------------------------------------------------------------
(* The steps of a handler, as far as it and its connection are concerned.   *)

HandlerGoes(k, s) == /\ hpc'[k] = s /\ hErr'[k] = hErr[k] /\ sCount'[k] = sCount[k]
                     /\ k \in sEOF' <=> k \in sEOF

HandlerEnds(k, e) == /\ Close(k, "server")
                     /\ hpc'[k] = "returned" /\ hErr'[k] = e /\ sCount'[k] = sCount[k]
                     /\ k \in sEOF' <=> k \in sEOF

HandlerCounts(k) == /\ hpc'[k] = "loop" /\ hErr'[k] = hErr[k] /\ sCount'[k] = sCount[k] + 1

LEMMA EndHandlerAt ==
    ASSUME TypeOK, NEW k \in Conns, NEW e, EndHandler(k, e)
    PROVE  /\ link' = link /\ HandlerEnds(k, e) /\ sStop' = sStop
           /\ \A j \in Conns : j # k => SameHandler(j)
BY DEF EndHandler, HandlerEnds, SameHandler, TypeOK, ServerTypeOK

LEMMA GoesAt ==
    ASSUME TypeOK, NEW k \in Conns, NEW s, hpc' = [hpc EXCEPT ![k] = s],
           UNCHANGED <<sEOF, hErr, sCount>>
    PROVE  HandlerGoes(k, s) /\ \A j \in Conns : j # k => SameHandler(j)
BY DEF HandlerGoes, SameHandler, TypeOK, ServerTypeOK

LEMMA FirstReadAt ==
    ASSUME TypeOK, NEW k \in Conns, FirstRead(k)
    PROVE  /\ hpc[k] = "first" /\ link' = link /\ sStop' = sStop
           /\ \E result \in ReadResults(k, "server") :
                \/ result = "data" /\ Consume(k, "server") /\ HandlerGoes(k, "loop")
                \/ result # "data" /\ HandlerEnds(k, "err")
           /\ \A j \in Conns : j # k => SameHandler(j)
<1>1. PICK result \in ReadResults(k, "server") :
         \/ /\ result = "data"
            /\ Consume(k, "server")
            /\ hpc' = [hpc EXCEPT ![k] = "loop"]
            /\ UNCHANGED <<ctxDone, listening, link, sStop, apc, sEOF, hErr, sCount>>
         \/ result # "data" /\ EndHandler(k, "err")
  BY DEF FirstRead
<1>2. hpc[k] = "first"
  BY DEF FirstRead
<1>3. QED
  BY <1>1, <1>2, EndHandlerAt, GoesAt

LEMMA HandlerLoopTopAt ==
    ASSUME TypeOK, NEW k \in Conns, HandlerLoopTop(k)
    PROVE  /\ hpc[k] = "loop" /\ link' = link /\ sStop' = sStop
           /\ \/ (k \in sEOF \/ sStop) /\ HandlerEnds(k, "nil")
              \/ k \notin sEOF /\ ~sStop /\ HandlerGoes(k, "write") /\ UNCHANGED endVars
           /\ \A j \in Conns : j # k => SameHandler(j)
BY EndHandlerAt, GoesAt DEF HandlerLoopTop, netVars, endVars

LEMMA EchoLineAt ==
    ASSUME TypeOK, NEW k \in Conns, EchoLine(k)
    PROVE  /\ hpc[k] = "write" /\ link' = link /\ sStop' = sStop
           /\ \/ /\ WriteResult(k, "server") = "ok"
                 /\ Deliver(k, "server") /\ HandlerGoes(k, "read")
              \/ WriteResult(k, "server") # "ok" /\ HandlerEnds(k, "err")
           /\ \A j \in Conns : j # k => SameHandler(j)
BY EndHandlerAt, GoesAt DEF EchoLine

LEMMA ReadLineAt ==
    ASSUME TypeOK, NEW k \in Conns, ReadLine(k)
    PROVE  /\ hpc[k] = "read" /\ link' = link /\ sStop' = sStop
           /\ \E result \in ReadResults(k, "server") :
                \/ /\ result = "data" /\ Consume(k, "server")
                   /\ HandlerCounts(k) /\ sEOF' = sEOF
                \/ /\ result = "eof" /\ UNCHANGED endVars
                   /\ HandlerCounts(k) /\ k \in sEOF'
                \/ result \in {"reset", "closed"} /\ HandlerEnds(k, "err")
           /\ \A j \in Conns : j # k => SameHandler(j)
<1>1. hpc[k] = "read"
  BY DEF ReadLine
<1>2. PICK result \in ReadResults(k, "server") :
         \/ /\ result \in ReadOK
            /\ IF result = "data" THEN Consume(k, "server") ELSE UNCHANGED endVars
            /\ sEOF' = IF result = "eof" THEN sEOF \cup {k} ELSE sEOF
            /\ CountServerIteration(k, result)
            /\ hpc' = [hpc EXCEPT ![k] = "loop"]
            /\ UNCHANGED <<ctxDone, listening, link, sStop, apc, hErr>>
         \/ result \notin ReadOK /\ EndHandler(k, "err")
  BY DEF ReadLine
<1>3. result \in {"data", "eof", "reset", "closed"}
  BY DEF ReadResults
<1>4. CASE result \notin ReadOK /\ EndHandler(k, "err")
  BY <1>1, <1>3, <1>4, EndHandlerAt DEF ReadOK
<1>5. CASE /\ result \in ReadOK
           /\ IF result = "data" THEN Consume(k, "server") ELSE UNCHANGED endVars
           /\ sEOF' = IF result = "eof" THEN sEOF \cup {k} ELSE sEOF
           /\ CountServerIteration(k, result)
           /\ hpc' = [hpc EXCEPT ![k] = "loop"]
           /\ UNCHANGED <<ctxDone, listening, link, sStop, apc, hErr>>
  <2>1. HandlerCounts(k)
    BY <1>5 DEF HandlerCounts, CountServerIteration, TypeOK, ServerTypeOK
  <2>2. \A j \in Conns : j # k => SameHandler(j)
    BY <1>5 DEF SameHandler, CountServerIteration, TypeOK, ServerTypeOK
  <2>3. QED
    BY <1>1, <1>5, <2>1, <2>2 DEF ReadOK
<1>6. QED
  BY <1>2, <1>4, <1>5

LEMMA AcceptConnAt ==
    ASSUME TypeOK, NEW k \in Conns, AcceptConn(k)
    PROVE  /\ link[k] = "queued" /\ listening
           /\ link'[k] = "accepted" /\ (\A j \in Conns : j # k => link'[j] = link[j])
           /\ HandlerGoes(k, "first")
           /\ \A j \in Conns : j # k => SameHandler(j)
BY GoesAt DEF AcceptConn, TypeOK, NetTypeOK

-----------------------------------------------------------------------------
(* The count of a client is that of its iterations: a retry begins at zero.  *)
CountInv == \A c \in Clients :
    /\ cpc[c] = "returned" <=> cErr[c] # "none"
    /\ cpc[c] # "returned" => cCount[c] = iter[c]
    /\ c \in reached => cCount[c] > 0

(* With a limit on the iterations nobody is told to stop (that is TestServe), *)
(* and a client returns without an error only from the top of the loop.       *)
LimitInv == NumIterations > 0 =>
    /\ ~cStop /\ ~sStop /\ cEOF = {}
    /\ \A c \in Clients : /\ iter[c] <= NumIterations
                          /\ cpc[c] \in {"write", "read"} => iter[c] < NumIterations
                          /\ cErr[c] = "nil" => cCount[c] = NumIterations

(* Only an attempt that made no round trip is repeated.                      *)
LEMMA FailsAtZero ==
    ASSUME NEW c \in Clients, NEW result, ClientFails(c, LoopError(c, result)),
           cpc'[c] # "returned"
    PROVE  iter[c] = 0 /\ ClientRedials(c)
BY DEF ClientFails, LoopError, ClientReturns

LEMMA FailsReturns ==
    ASSUME NEW c \in Clients, NEW err, ClientFails(c, err), cpc'[c] = "returned"
    PROVE  ClientReturns(c, "err")
BY DEF ClientFails, ClientRedials

(* What a step of a client makes of the client, in one formula.              *)
ClientMoves(c) ==
    \/ \E s \in {"dial", "loop", "write", "read"} :
         /\ ClientGoes(c, s)
         /\ cpc[c] \in {"acquire", "dial", "loop", "write", "barrier"}
         /\ s = "write" => ~StopReached(c) /\ cpc[c] = "loop"
         /\ s = "read" => cpc[c] = "write"
    \/ ClientCounts(c) /\ (c \in cEOF' => c \in cEOF \/ ~EOFIsError)
    \/ cpc[c] = "loop" /\ StopReached(c) /\ ClientReturns(c, "nil")
    \/ cpc[c] # "returned" /\ ClientReturns(c, "err")
    \/ (cpc[c] = "dial" \/ iter[c] = 0) /\ ClientRedials(c) /\ cpc[c] \in {"dial", "write", "read"}

LEMMA ClientMovesAt ==
    ASSUME TypeOK, NEW c \in Clients, Client(c)
    PROVE  ClientMoves(c) /\ \A d \in Clients : d # c => SameClient(d)
<1>1. CASE Acquire(c)
  BY <1>1, AcquireAt DEF ClientMoves
<1>2. CASE Dial(c)
  BY <1>2, DialAt DEF ClientMoves, ClientFails
<1>3. CASE LoopTop(c)
  BY <1>3, LoopTopAt DEF ClientMoves
<1>4. CASE WriteLine(c)
  BY <1>4, WriteLineAt, FailsAtZero, FailsReturns DEF ClientMoves
<1>5. CASE ReadEcho(c)
  BY <1>5, ReadEchoAt, FailsAtZero, FailsReturns DEF ClientMoves
<1>6. CASE PassBarrier(c)
  BY <1>6, PassBarrierAt DEF ClientMoves
<1>7. QED
  BY <1>1, <1>2, <1>3, <1>4, <1>5, <1>6 DEF Client

(* Every step that is not a client's leaves every client as it is.           *)
LEMMA ClientOrSame ==
    ASSUME TypeOK, [Next]_vars
    PROVE  \/ \E c \in Clients : Client(c) /\ UNCHANGED serverVars
           \/ \A c \in Clients : SameClient(c)
<1>1. ASSUME UNCHANGED <<cpc, attempt, iter, cErr, cCount, cEOF, reached>>
      PROVE  \A d \in Clients : SameClient(d)
  BY <1>1 DEF SameClient
<1>2. CASE Environment \/ ListenerCloses \/ AcceptStep \/ Done \/ UNCHANGED vars
  BY <1>1, <1>2 DEF Environment, StopClients, StopServer, ListenerCloses, AcceptStep, Done,
                    clientVars, vars
<1>3. ASSUME NEW c \in Clients, ClientStep(c)
      PROVE  (Client(c) /\ UNCHANGED serverVars) \/ \A d \in Clients : SameClient(d)
  BY <1>1, <1>3 DEF ClientStep, CloseClientConn, clientVars
<1>4. ASSUME NEW k \in Conns, HandlerStep(k) PROVE \A d \in Clients : SameClient(d)
  BY <1>1, <1>4 DEF HandlerStep, clientVars
<1>5. QED
  BY <1>2, <1>3, <1>4 DEF Next

LEMMA SameClientKeepsCount ==
    ASSUME TypeOK, CountInv, NEW c \in Clients, SameClient(c)
    PROVE  /\ cpc'[c] = "returned" <=> cErr'[c] # "none"
           /\ cpc'[c] # "returned" => cCount'[c] = iter'[c]
           /\ c \in reached' => cCount'[c] > 0
BY DEF CountInv, SameClient

(* What a client returned with, and that it counted its iterations.          *)
THEOREM CountInvCorrect == Spec => []CountInv
<1>1. Init => CountInv
  BY DEF Init, ClientInit, CountInv
<1>2. TypeOK /\ BarrierInv /\ CountInv /\ [Next]_vars => CountInv'
  <2> SUFFICES ASSUME TypeOK, BarrierInv, CountInv, [Next]_vars PROVE CountInv'
    OBVIOUS
  <2>1. CASE \A c \in Clients : SameClient(c)
    BY <2>1, SameClientKeepsCount DEF CountInv
  <2>2. ASSUME NEW c \in Clients, Client(c) PROVE CountInv'
    <3>1. ClientMoves(c) /\ \A d \in Clients : d # c => SameClient(d)
      BY <2>2, ClientMovesAt
    <3>2. /\ iter[c] \in Nat /\ cCount[c] \in Nat
          /\ cpc[c] \in {"acquire", "dial"} => iter[c] = 0
          /\ cpc[c] # "returned" => (c \in reached <=> iter[c] > 0)
      BY DEF TypeOK, ClientTypeOK, BarrierInv, ReachedInv
    <3>3. /\ cpc'[c] = "returned" <=> cErr'[c] # "none"
          /\ cpc'[c] # "returned" => cCount'[c] = iter'[c]
          /\ c \in reached' => cCount'[c] > 0
      BY <3>1, <3>2 DEF ClientMoves, ClientGoes, ClientCounts, ClientReturns, ClientRedials, CountInv
    <3>4. QED
      BY <3>1, <3>3, SameClientKeepsCount DEF CountInv
  <2>3. QED
    BY <2>1, <2>2, ClientOrSame
<1>3. QED
  BY <1>1, <1>2, EchoTypeCorrect, BarrierInvCorrect, PTL DEF Spec

LEMMA SameStops ==
    ASSUME NumIterations > 0, [Next]_vars
    PROVE  cStop' = cStop /\ sStop' = sStop
<1>1. ASSUME NEW c \in Clients, NEW err, EndAttempt(c, err) PROVE cStop' = cStop
  BY <1>1 DEF EndAttempt
<1>2. ASSUME NEW c \in Clients, Client(c) PROVE cStop' = cStop
  BY <1>1, <1>2 DEF Client, Acquire, Dial, LoopTop, WriteLine, ReadEcho, EndIteration, PassBarrier
<1>3. ASSUME NEW k \in Conns, Handler(k) PROVE sStop' = sStop
  BY <1>3 DEF Handler, FirstRead, HandlerLoopTop, EchoLine, ReadLine, EndHandler
<1>4. CASE Environment
  BY <1>4 DEF Environment, StopClients, StopServer, clientVars, serverVars
<1>5. CASE ListenerCloses \/ AcceptStep \/ Done \/ UNCHANGED vars
  BY <1>5 DEF ListenerCloses, AcceptStep, AcceptLoop, AcceptFails, AcceptReturns, AcceptConn, Done,
              vars, clientVars, serverVars
<1>6. ASSUME NEW c \in Clients, ClientStep(c) PROVE cStop' = cStop /\ sStop' = sStop
  BY <1>2, <1>6 DEF ClientStep, CloseClientConn, clientVars, serverVars
<1>7. ASSUME NEW k \in Conns, HandlerStep(k) PROVE cStop' = cStop /\ sStop' = sStop
  BY <1>3, <1>7 DEF HandlerStep, CloseServerConn, clientVars, serverVars
<1>8. QED
  BY <1>4, <1>5, <1>6, <1>7 DEF Next

LEMMA SameClientKeepsLimit ==
    ASSUME LimitInv, NumIterations > 0, NEW c \in Clients, SameClient(c)
    PROVE  /\ c \notin cEOF'
           /\ iter'[c] <= NumIterations
           /\ cpc'[c] \in {"write", "read"} => iter'[c] < NumIterations
           /\ cErr'[c] = "nil" => cCount'[c] = NumIterations
BY DEF LimitInv, SameClient

(* With a limit nobody is stopped, no client goes past it, and a client that  *)
(* returns nil has reached it: the top of the loop is its only way out.      *)
THEOREM LimitInvCorrect == Spec => []LimitInv
<1>1. Init => LimitInv
  BY ClientsAssumption DEF Init, ClientInit, ServerInit, LimitInv
<1>2. TypeOK /\ TypeOK' /\ CountInv /\ LimitInv /\ [Next]_vars => LimitInv'
  <2> SUFFICES ASSUME TypeOK, TypeOK', CountInv, LimitInv, [Next]_vars, NumIterations > 0
               PROVE  LimitInv'
    BY DEF LimitInv
  <2>1. ~cStop' /\ ~sStop'
    BY SameStops DEF LimitInv
  <2>2. ASSUME \A c \in Clients : /\ c \notin cEOF'
                                  /\ iter'[c] <= NumIterations
                                  /\ cpc'[c] \in {"write", "read"} => iter'[c] < NumIterations
                                  /\ cErr'[c] = "nil" => cCount'[c] = NumIterations
        PROVE  LimitInv'
    BY <2>1, <2>2 DEF LimitInv, TypeOK, ClientTypeOK
  <2>3. CASE \A c \in Clients : SameClient(c)
    BY <2>2, <2>3, SameClientKeepsLimit
  <2>4. ASSUME NEW c \in Clients, Client(c) PROVE LimitInv'
    <3>1. ClientMoves(c) /\ \A d \in Clients : d # c => SameClient(d)
      BY <2>4, ClientMovesAt
    <3>2. /\ iter[c] \in Nat /\ NumIterations \in Nat
          /\ iter[c] <= NumIterations /\ c \notin cEOF
          /\ cpc[c] \in {"write", "read"} => iter[c] < NumIterations
          /\ cErr[c] = "nil" => cCount[c] = NumIterations
          /\ cpc[c] # "returned" => cErr[c] = "none" /\ cCount[c] = iter[c]
      BY ClientsAssumption DEF TypeOK, ClientTypeOK, LimitInv, CountInv
    <3>3. StopReached(c) => iter[c] >= NumIterations
      BY DEF StopReached, LimitInv
    <3>4. ~StopReached(c) => iter[c] < NumIterations
      BY <3>2 DEF StopReached
    <3>5. EOFIsError
      BY DEF EOFIsError
    <3>6. CASE \E s \in {"dial", "loop", "write", "read"} :
                 /\ ClientGoes(c, s)
                 /\ cpc[c] \in {"acquire", "dial", "loop", "write", "barrier"}
                 /\ s = "write" => ~StopReached(c) /\ cpc[c] = "loop"
                 /\ s = "read" => cpc[c] = "write"
      BY <2>2, <3>1, <3>2, <3>4, <3>6, SameClientKeepsLimit DEF ClientGoes
    <3>7. CASE ClientCounts(c) /\ (c \in cEOF' => c \in cEOF \/ ~EOFIsError)
      BY <2>2, <3>1, <3>2, <3>5, <3>7, SameClientKeepsLimit DEF ClientCounts
    <3>8. CASE cpc[c] = "loop" /\ StopReached(c) /\ ClientReturns(c, "nil")
      BY <2>2, <3>1, <3>2, <3>3, <3>8, SameClientKeepsLimit DEF ClientReturns
    <3>9. CASE ClientReturns(c, "err") \/ (ClientRedials(c) /\ cpc[c] \in {"dial", "write", "read"})
      BY <2>2, <3>1, <3>2, <3>9, SameClientKeepsLimit DEF ClientReturns, ClientRedials
    <3>10. QED
      BY <3>1, <3>6, <3>7, <3>8, <3>9 DEF ClientMoves
  <2>5. QED
    BY <2>3, <2>4, ClientOrSame
<1>3. QED
  BY <1>1, <1>2, EchoTypeCorrect, CountInvCorrect, PTL DEF Spec

(* A client that returns without an error made all its round trips, also if  *)
(* it had to dial again and whatever ended its context.                      *)
THEOREM NilMeansCompleteCorrect == Spec => []NilMeansComplete
<1>1. LimitInv => NilMeansComplete
  BY DEF LimitInv, NilMeansComplete
<1>2. QED
  BY <1>1, LimitInvCorrect, PTL

-----------------------------------------------------------------------------
(* The steps that a connection k of client c can see.                       *)

\* not the client's, not the handler's: at most the connection is reset before
\* it is accepted
Dropped(k) == /\ link[k] = "queued" /\ link'[k] = "dropped"
              /\ SameEnd(k, "server") /\ inbox'[<<k, "client">>] = inbox[<<k, "client">>]
              /\ ClosedBy(k, "client")' <=> ClosedBy(k, "client")
              /\ Reset(k, "client")'
Unmoved(c, k) == /\ SameClient(c) /\ SameHandler(k)
                 /\ (SameEnds(k) /\ link'[k] = link[k]) \/ Dropped(k)
Accepted(c, k) == /\ SameClient(c) /\ SameEnds(k)
                  /\ listening /\ link[k] = "queued" /\ link'[k] = "accepted"
                  /\ HandlerGoes(k, "first")
ClientActs(c, k) == k = Conn(c) /\ Client(c) /\ SameHandler(k)
ClientElsewhere(c, k) == /\ k # Conn(c) /\ Client(c)
                         /\ SameHandler(k) /\ SameEnds(k) /\ link'[k] = link[k]
ClientCut(c, k) == /\ k = Conn(c) /\ ClientCtxDone /\ Close(k, "client")
                   /\ cpc[c] \in {"loop", "write", "read", "barrier"}
                   /\ SameClient(c) /\ SameHandler(k) /\ link'[k] = link[k]
HandlerActs(c, k) == Handler(k) /\ SameClient(c) /\ link'[k] = link[k]
HandlerCut(c, k) == /\ ServerCtxDone /\ Handled(k) /\ Close(k, "server")
                    /\ SameClient(c) /\ SameHandler(k) /\ link'[k] = link[k]

LEMMA SideNames == "client" \in Sides /\ "server" \in Sides
                   /\ Peer("client") = "server" /\ Peer("server") = "client"
BY DEF Sides, Peer

LEMMA ClientElsewhereAt ==
    ASSUME TypeOK, NEW c \in Clients, Client(c), NEW k \in Conns, k # Conn(c)
    PROVE  SameEnds(k) /\ link'[k] = link[k]
<1>1. Conn(c) \in Conns /\ NetTypeOK
  BY Types DEF Conn, TypeOK
<1>2. ASSUME UNCHANGED endVars PROVE SameEnds(k)
  BY <1>2 DEF endVars, SameEnds, SameEnd, ClosedBy, Reset
<1>3. ASSUME Close(Conn(c), "client") \/ Deliver(Conn(c), "client") \/ Consume(Conn(c), "client")
      PROVE  SameEnds(k)
  BY <1>1, <1>3, SideNames, CloseAt, DeliverAt, ConsumeAt
<1>4. CASE Acquire(c) \/ PassBarrier(c)
  BY <1>2, <1>4 DEF Acquire, PassBarrier, netVars, endVars
<1>5. CASE Dial(c)
  BY <1>1, <1>2, <1>5, DialAt DEF Connect, NetTypeOK
<1>6. CASE LoopTop(c)
  BY <1>2, <1>3, <1>6, LoopTopAt DEF netVars, endVars
<1>7. CASE WriteLine(c)
  BY <1>3, <1>7, WriteLineAt
<1>8. CASE ReadEcho(c)
  BY <1>2, <1>3, <1>8, ReadEchoAt
<1>9. QED
  BY <1>4, <1>5, <1>6, <1>7, <1>8 DEF Client

LEMMA HandlerElsewhereAt ==
    ASSUME TypeOK, NEW j \in Conns, Handler(j), NEW k \in Conns, k # j
    PROVE  SameEnds(k) /\ SameHandler(k) /\ link'[k] = link[k]
<1>1. NetTypeOK
  BY DEF TypeOK
<1>2. ASSUME UNCHANGED endVars PROVE SameEnds(k)
  BY <1>2 DEF endVars, SameEnds, SameEnd, ClosedBy, Reset
<1>3. ASSUME Close(j, "server") \/ Deliver(j, "server") \/ Consume(j, "server")
      PROVE  SameEnds(k)
  BY <1>1, <1>3, SideNames, CloseAt, DeliverAt, ConsumeAt
<1>4. CASE FirstRead(j)
  BY <1>3, <1>4, FirstReadAt DEF HandlerEnds
<1>5. CASE HandlerLoopTop(j)
  BY <1>2, <1>3, <1>5, HandlerLoopTopAt DEF HandlerEnds
<1>6. CASE EchoLine(j)
  BY <1>3, <1>6, EchoLineAt DEF HandlerEnds
<1>7. CASE ReadLine(j)
  BY <1>2, <1>3, <1>7, ReadLineAt DEF HandlerEnds
<1>8. QED
  BY <1>4, <1>5, <1>6, <1>7 DEF Handler

LEMMA ConnStep ==
    ASSUME TypeOK, [Next]_vars, NEW c \in Clients, NEW k \in Conns, k[1] = c
    PROVE  /\ sStop => sStop'
           /\ \/ Unmoved(c, k) \/ Accepted(c, k)
              \/ ClientActs(c, k) \/ ClientElsewhere(c, k) \/ ClientCut(c, k)
              \/ HandlerActs(c, k) \/ HandlerCut(c, k)
<1> DEFINE Goal == /\ sStop => sStop'
                   /\ \/ Unmoved(c, k) \/ Accepted(c, k)
                      \/ ClientActs(c, k) \/ ClientElsewhere(c, k) \/ ClientCut(c, k)
                      \/ HandlerActs(c, k) \/ HandlerCut(c, k)
<1>1. NetTypeOK
  BY DEF TypeOK
<1>2. ASSUME UNCHANGED <<cpc, attempt, iter, cErr, cCount, cEOF, reached>> PROVE SameClient(c)
  BY <1>2 DEF SameClient
<1>3. ASSUME UNCHANGED <<hpc, sEOF, hErr, sCount>> PROVE SameHandler(k)
  BY <1>3 DEF SameHandler
<1>4. ASSUME UNCHANGED endVars PROVE SameEnds(k)
  BY <1>4 DEF endVars, SameEnds, SameEnd, ClosedBy, Reset
<1>5. ASSUME UNCHANGED endVars, link'[k] = link[k], sStop => sStop',
             UNCHANGED <<cpc, attempt, iter, cErr, cCount, cEOF, reached, hpc, sEOF, hErr, sCount>>
      PROVE  Goal
  BY <1>2, <1>3, <1>4, <1>5 DEF Unmoved
<1>6. CASE Environment
  <2>1. CASE StopClients /\ UNCHANGED serverVars
    BY <1>5, <2>1 DEF StopClients, netVars, endVars, serverVars
  <2>2. CASE StopServer
    BY <1>5, <2>2 DEF StopServer, netVars, endVars, clientVars
  <2>3. CASE EndContext /\ UNCHANGED <<clientVars, serverVars>>
    BY <1>5, <2>3 DEF EndContext, endVars, clientVars, serverVars
  <2>4. ASSUME NEW j \in Conns, Drop(j), UNCHANGED <<clientVars, serverVars>> PROVE Goal
    <3>1. SameClient(c) /\ SameHandler(k) /\ sStop' = sStop
      BY <1>2, <1>3, <2>4 DEF clientVars, serverVars
    <3>2. CASE j = k
      BY <1>1, <2>4, <3>1, <3>2 DEF Drop, Unmoved, Dropped, SameEnd, ClosedBy, Reset, NetTypeOK
    <3>3. CASE j # k
      BY <1>1, <2>4, <3>1, <3>3 DEF Drop, Unmoved, SameEnds, SameEnd, ClosedBy, Reset, NetTypeOK
    <3>4. QED
      BY <3>2, <3>3
  <2>5. QED
    BY <1>6, <2>1, <2>2, <2>3, <2>4 DEF Environment
<1>7. CASE ListenerCloses
  <2>1. SameClient(c) /\ SameHandler(k) /\ sStop' = sStop
    BY <1>2, <1>3, <1>7 DEF ListenerCloses, clientVars, serverVars
  <2>2. /\ UNCHANGED <<inbox, closed>>
        /\ link' = [j \in Conns |-> IF link[j] = "queued" THEN "dropped" ELSE link[j]]
        /\ rst' = rst \cup {<<j, "client">> : j \in {h \in Conns : link[h] = "queued"}}
    BY <1>7 DEF ListenerCloses, CloseListener
  <2>3. CASE link[k] = "queued"
    BY <2>1, <2>2, <2>3 DEF Unmoved, Dropped, SameEnd, ClosedBy, Reset
  <2>4. CASE link[k] # "queued"
    BY <2>1, <2>2, <2>4 DEF Unmoved, SameEnds, SameEnd, ClosedBy, Reset
  <2>5. QED
    BY <2>3, <2>4
<1>8. CASE AcceptStep
  <2>1. CASE AcceptFails \/ AcceptReturns
    BY <1>5, <1>8, <2>1 DEF AcceptStep, AcceptFails, AcceptReturns, netVars, endVars, clientVars
  <2>2. ASSUME NEW j \in Conns, AcceptConn(j) PROVE Goal
    <3>1. SameClient(c) /\ SameEnds(k) /\ sStop' = sStop
      BY <1>2, <1>4, <1>8, <2>2 DEF AcceptStep, AcceptConn, clientVars
    <3>2. QED
      BY <2>2, <3>1, AcceptConnAt DEF Accepted, Unmoved
  <2>3. QED
    BY <1>8, <2>1, <2>2 DEF AcceptStep, AcceptLoop
<1>9. ASSUME NEW d \in Clients, ClientStep(d) PROVE Goal
  <2>1. SameHandler(k) /\ sStop' = sStop
    BY <1>3, <1>9 DEF ClientStep, serverVars
  <2>2. CASE Client(d) /\ d = c
    BY <2>1, <2>2, ClientElsewhereAt DEF ClientActs, ClientElsewhere
  <2>3. CASE Client(d) /\ d # c
    <3>1. k # Conn(d)
      BY <2>3 DEF Conn
    <3>2. QED
      BY <2>1, <2>3, <3>1, ClientElsewhereAt, ClientMovesAt DEF Unmoved
  <2>4. CASE CloseClientConn(d)
    <3>1. /\ SameClient(c) /\ link' = link
          /\ Close(Conn(d), "client") /\ ClientCtxDone
          /\ cpc[d] \in {"loop", "write", "read", "barrier"}
      BY <1>2, <2>4 DEF CloseClientConn, clientVars
    <3>2. Conn(d) \in Conns
      BY Types DEF Conn
    <3>3. CASE k = Conn(d)
      <4>1. d = c
        BY <3>3 DEF Conn
      <4>2. QED
        BY <2>1, <3>1, <3>3, <4>1 DEF ClientCut
    <3>4. CASE k # Conn(d)
      BY <1>1, <2>1, <3>1, <3>2, <3>4, SideNames, CloseAt DEF Unmoved
    <3>5. QED
      BY <3>3, <3>4
  <2>5. QED
    BY <1>9, <2>2, <2>3, <2>4 DEF ClientStep
<1>10. ASSUME NEW j \in Conns, HandlerStep(j) PROVE Goal
  <2>1. SameClient(c)
    BY <1>2, <1>10 DEF HandlerStep, clientVars
  <2>2. CASE Handler(j)
    <3>1. sStop' = sStop /\ link' = link
      BY <2>2 DEF Handler, FirstRead, HandlerLoopTop, EchoLine, ReadLine, EndHandler, netVars
    <3>2. QED
      BY <2>1, <2>2, <3>1, HandlerElsewhereAt DEF HandlerActs, Unmoved
  <2>3. CASE CloseServerConn(j)
    <3>1. /\ SameHandler(k) /\ link' = link /\ sStop' = sStop
          /\ Close(j, "server") /\ ServerCtxDone /\ Handled(j)
      BY <1>3, <2>3 DEF CloseServerConn, serverVars
    <3>2. CASE k = j
      BY <2>1, <3>1, <3>2 DEF HandlerCut
    <3>3. CASE k # j
      BY <1>1, <2>1, <3>1, <3>3, SideNames, CloseAt DEF Unmoved
    <3>4. QED
      BY <3>2, <3>3
  <2>4. QED
    BY <1>10, <2>2, <2>3 DEF HandlerStep
<1>11. CASE Done \/ UNCHANGED vars
  BY <1>5, <1>11 DEF Done, vars, netVars, endVars, clientVars, serverVars
<1>12. QED
  BY <1>6, <1>7, <1>8, <1>9, <1>10, <1>11 DEF Next


-----------------------------------------------------------------------------
(* The life of one connection: before it is accepted the server has done     *)
(* nothing to it, and before it is dialled nobody has; the client is told of *)
(* a reset only by a connection that nobody handles.                         *)
FreshInv(c, k) ==
    /\ link[k] # "accepted" => /\ hErr[k] = "none" /\ k \notin sEOF /\ sCount[k] = 0
                               /\ inbox[<<k, "client">>] = 0
                               /\ ~ClosedBy(k, "server") /\ ~Reset(k, "server")
    /\ link[k] = "none" => /\ inbox[<<k, "server">>] = 0
                           /\ ~ClosedBy(k, "client") /\ ~Reset(k, "client")
    /\ hpc[k] = "returned" <=> hErr[k] # "none"
    /\ Reset(k, "client") => link[k] = "dropped" \/ ClosedBy(k, "server")
    /\ k = Conn(c) /\ cpc[c] \in {"loop", "write", "read", "barrier"} => link[k] # "none"

(* Where the line is.  The handler has it: between reading and echoing it,   *)
(* or for good if it ended without an error.  The client has it: between two *)
(* round trips, or for good.                                                 *)
Settled(k) == hpc[k] \in {"loop", "write"} \/ hErr[k] = "nil"
InLoop(c) == cpc[c] \in {"loop", "barrier"}
Gone(c) == InLoop(c) \/ cErr[c] = "nil"

HandlerStarts(c, k) == hpc[k] \in {"none", "first"} =>
    /\ sCount[k] = 0 /\ inbox[<<k, "client">>] = 0
    /\ cpc[c] # "returned" /\ c \notin cEOF => cCount[c] = 0
    /\ cErr[c] = "nil" /\ ~ClosedBy(k, "server") => cCount[c] = 0

HandlerHasLine(c, k) == Settled(k) /\ k \notin sEOF =>
    /\ cpc[c] # "write"
    /\ cpc[c] = "read" /\ ~ClosedBy(k, "client")
         => cCount[c] = sCount[k] /\ inbox[<<k, "client">>] = 0 /\ inbox[<<k, "server">>] = 0
    /\ InLoop(c) => c \in cEOF
    /\ Gone(c) => ClosedBy(k, "server") /\ cCount[c] = sCount[k] + 1

HandlerSawEOF(c, k) == Settled(k) /\ k \in sEOF /\ Gone(c) => cCount[c] = sCount[k]

HandlerReads(c, k) == hpc[k] = "read" /\ ~ClosedBy(k, "server") =>
    /\ cpc[c] = "read" /\ ~ClosedBy(k, "client") =>
         \/ inbox[<<k, "client">>] = 1 /\ inbox[<<k, "server">>] = 0 /\ cCount[c] = sCount[k]
         \/ inbox[<<k, "client">>] = 0 /\ inbox[<<k, "server">>] = 1 /\ cCount[c] = sCount[k] + 1
    /\ Gone(c) \/ cpc[c] = "write"
         => inbox[<<k, "server">>] = 0 /\ cCount[c] = sCount[k] + 1

OneLine(c, k) ==
    /\ inbox[<<k, "client">>] = 0 \/ inbox[<<k, "server">>] = 0
    /\ InLoop(c) \/ cpc[c] = "write"
         => c \in cEOF \/ (inbox[<<k, "client">>] = 0 /\ inbox[<<k, "server">>] = 0)
    /\ cErr[c] = "nil" => inbox[<<k, "server">>] = 0 \/ ClosedBy(k, "server")

SawEnd(c, k) ==
    /\ c \in cEOF => InLoop(c) /\ ClosedBy(k, "server")
    /\ k \in sEOF => hpc[k] \in {"loop", "returned"} /\ ClosedBy(k, "client")
    /\ hErr[k] = "nil" => k \in sEOF \/ sStop

PairInv(c, k) == /\ OneLine(c, k) /\ SawEnd(c, k)
                 /\ HandlerStarts(c, k) /\ HandlerHasLine(c, k)
                 /\ HandlerSawEOF(c, k) /\ HandlerReads(c, k)

(* A connection that the client gave up to dial again was dropped before it   *)
(* was accepted, or closed by the server before it counted anything.         *)
OldInv(k) == \/ link[k] \in {"none", "dropped"}
             \/ ClosedBy(k, "server") /\ k \notin sEOF /\ (Settled(k) => sCount[k] = 0)

ConnInv(c, k) == /\ FreshInv(c, k)
                 /\ k = Conn(c) => PairInv(c, k)
                 /\ k[2] < attempt[c] => OldInv(k)

EchoInv == \A c \in Clients : \A k \in Conns : k[1] = c => ConnInv(c, k)

LEMMA ConnPlace ==
    ASSUME TypeOK, NEW c \in Clients, NEW k \in Conns, k[1] = c
    PROVE  /\ k = <<c, k[2]>> /\ k[2] \in 1 .. 3
           /\ attempt[c] \in 1 .. 3
           /\ k = Conn(c) <=> k[2] = attempt[c]
<1>1. k \in Clients \X (1 .. 3)
  BY Types
<1>2. k = <<c, k[2]>> /\ k[2] \in 1 .. 3 /\ attempt[c] \in 1 .. 3
  BY <1>1, Types
<1>3. QED
  BY <1>2 DEF Conn

LEMMA ConnType ==
    ASSUME TypeOK, NEW c \in Clients, NEW k \in Conns
    PROVE  /\ cpc[c] \in {"acquire", "dial", "loop", "write", "read", "barrier", "returned"}
           /\ iter[c] \in Nat /\ cCount[c] \in Nat
           /\ cErr[c] \in {"none", "nil", "err"}
           /\ link[k] \in {"none", "queued", "accepted", "dropped"}
           /\ inbox[<<k, "client">>] \in 0 .. 1 /\ inbox[<<k, "server">>] \in 0 .. 1
           /\ hpc[k] \in {"none", "first", "loop", "write", "read", "returned"}
           /\ hErr[k] \in {"none", "nil", "err"} /\ sCount[k] \in Nat
<1>1. <<k, "client">> \in Conns \X Sides /\ <<k, "server">> \in Conns \X Sides
  BY SideNames
<1>2. QED
  BY <1>1 DEF TypeOK, NetTypeOK, ClientTypeOK, ServerTypeOK

\* what the invariants of EchoProofs say of one client and one connection
Known(c, k) == /\ k[2] > attempt[c] => link[k] = "none"
               /\ k = Conn(c) /\ cpc[c] \in {"acquire", "dial"} => link[k] = "none"
               /\ k[2] < attempt[c] \/ cpc[c] = "returned"
                    => link[k] = "none" \/ ClosedBy(k, "client")
               /\ hpc[k] = "none" <=> link[k] # "accepted"
               /\ hpc[k] = "returned" => ClosedBy(k, "server")
               /\ cpc[c] \in {"acquire", "dial"} => iter[c] = 0
               /\ cpc[c] = "returned" <=> cErr[c] # "none"
               /\ cpc[c] # "returned" => cCount[c] = iter[c]

LEMMA KnownAt ==
    ASSUME TypeOK, LeavesInv, BarrierInv, CountInv, NEW c \in Clients, NEW k \in Conns, k[1] = c
    PROVE  Known(c, k)
<1>1. k[2] \in 1 .. 3 /\ k = <<c, k[2]>> /\ (k = Conn(c) <=> k[2] = attempt[c])
  BY ConnPlace
<1>2. ConnLeaves(c, k[2])
  BY <1>1 DEF LeavesInv, ClientLeaves
<1>3. /\ hpc[k] = "none" <=> link[k] # "accepted"
      /\ hpc[k] = "returned" => <<k, "server">> \in closed
  BY DEF LeavesInv, ServerLeaves
<1>4. QED
  BY <1>1, <1>2, <1>3 DEF Known, ConnLeaves, ClosedBy, BarrierInv, ReachedInv, CountInv


(* A step that neither the client nor the handler takes.                     *)
LEMMA OthersKeepConn ==
    ASSUME TypeOK, NEW c \in Clients, NEW k \in Conns, k[1] = c,
           ConnInv(c, k), Known(c, k), sStop => sStop',
           Unmoved(c, k) \/ Accepted(c, k) \/ ClientCut(c, k) \/ HandlerCut(c, k)
    PROVE  ConnInv(c, k)'
<1>1. SameClient(c)
  BY DEF Unmoved, Accepted, ClientCut, HandlerCut
<1>2. Conn(c)' = Conn(c)
  BY <1>1 DEF SameClient, Conn
<1>3. SameHandler(k) \/ Accepted(c, k)
  BY DEF Unmoved, ClientCut, HandlerCut
<1>4. NetTypeOK
  BY DEF TypeOK
<1>5. link'[k] = link[k] \/ Accepted(c, k) \/ Dropped(k)
  BY DEF Unmoved, ClientCut, HandlerCut
<1>6. /\ inbox'[<<k, "client">>] = inbox[<<k, "client">>]
      /\ inbox'[<<k, "server">>] = inbox[<<k, "server">>]
      /\ ClosedBy(k, "client") => ClosedBy(k, "client")'
      /\ ClosedBy(k, "server") => ClosedBy(k, "server")'
  BY <1>4, SideNames, CloseAt DEF Unmoved, Dropped, Accepted, ClientCut, HandlerCut, SameEnds, SameEnd
<1>7. FreshInv(c, k)'
  <2>1. CASE Unmoved(c, k)
    BY <1>1, <1>2, <2>1 DEF Unmoved, Dropped, FreshInv, ConnInv, SameHandler, SameClient, SameEnds,
       SameEnd
  <2>2. CASE Accepted(c, k)
    BY <1>1, <1>2, <2>2 DEF Accepted, FreshInv, ConnInv, SameClient, SameEnds, SameEnd, Known,
       HandlerGoes
  <2>3. CASE ClientCut(c, k)
    <3>1. /\ ClosedBy(k, "server")' <=> ClosedBy(k, "server")
          /\ Reset(k, "client")' <=> Reset(k, "client")
          /\ Reset(k, "server")' => Reset(k, "server") \/ inbox[<<k, "client">>] = 1
      BY <1>4, <2>3, SideNames, CloseAt DEF ClientCut
    <3>2. QED
      BY <1>1, <1>2, <1>6, <2>3, <3>1 DEF FreshInv, ConnInv, ClientCut, SameHandler, SameClient
  <2>4. CASE HandlerCut(c, k)
    <3>1. ClosedBy(k, "server")' /\ link[k] = "accepted"
      BY <1>4, <2>4, SideNames, CloseAt DEF HandlerCut, Handled, Known, ConnInv, FreshInv
    <3>2. QED
      BY <1>1, <1>2, <1>6, <2>4, <3>1 DEF FreshInv, ConnInv, HandlerCut, SameHandler, SameClient
  <2>5. QED
    BY <2>1, <2>2, <2>3, <2>4
<1>8. ASSUME k = Conn(c) PROVE PairInv(c, k)'
  <2>1. FreshInv(c, k) /\ PairInv(c, k)
    BY <1>8 DEF ConnInv
  <2>2. CASE SameHandler(k)
    BY <1>1, <1>6, <2>1, <2>2 DEF SameClient, SameHandler, PairInv, OneLine, SawEnd, HandlerStarts,
         HandlerHasLine, HandlerSawEOF, HandlerReads, Settled, InLoop, Gone
  <2>3. CASE Accepted(c, k)
    BY <1>1, <1>6, <2>1, <2>3 DEF Accepted, SameEnds, SameEnd, HandlerGoes, Known, SameClient, PairInv,
         OneLine, SawEnd, HandlerStarts, HandlerHasLine, HandlerSawEOF, HandlerReads, Settled, InLoop, Gone
  <2>4. QED
    BY <1>3, <2>2, <2>3
<1>9. ASSUME k[2] < attempt[c] PROVE OldInv(k)'
  BY <1>1, <1>3, <1>5, <1>6, <1>9 DEF ConnInv, OldInv, FreshInv, Known, SameHandler, Accepted,
     Dropped, Settled
<1>10. QED
  BY <1>1, <1>2, <1>7, <1>8, <1>9 DEF ConnInv, SameClient

(* A step of the handler.  It may return at any time; without an error only  *)
(* from the top of its loop.                                                 *)
LEMMA HandlerEndsKeeps ==
    ASSUME TypeOK, NEW c \in Clients, NEW k \in Conns, k[1] = c,
           ConnInv(c, k), link[k] = "accepted", SameClient(c), link'[k] = link[k], sStop' = sStop,
           NEW e \in {"nil", "err"}, HandlerEnds(k, e),
           e = "nil" => Settled(k) /\ (k \in sEOF \/ sStop)
    PROVE  ConnInv(c, k)'
<1>1. /\ inbox' = inbox /\ ClosedBy(k, "server")'
      /\ ClosedBy(k, "client")' <=> ClosedBy(k, "client")
      /\ hpc'[k] = "returned" /\ hErr'[k] = e /\ sCount'[k] = sCount[k]
      /\ k \in sEOF' <=> k \in sEOF
  <2>1. NetTypeOK /\ Close(k, "server")
    BY DEF TypeOK, HandlerEnds
  <2>2. /\ inbox' = inbox /\ ClosedBy(k, "server")'
        /\ ClosedBy(k, "client")' <=> ClosedBy(k, "client")
    BY <2>1, SideNames DEF Close, ClosedBy
  <2>3. QED
    BY <2>2 DEF HandlerEnds
<1>2. Conn(c)' = Conn(c)
  BY DEF SameClient, Conn
<1>3. FreshInv(c, k)'
  BY <1>1, <1>2 DEF ConnInv, FreshInv, SameClient
<1>4. ASSUME k = Conn(c) PROVE PairInv(c, k)'
  <2>1. PairInv(c, k)
    BY <1>4 DEF ConnInv
  <2>2. OneLine(c, k)' /\ SawEnd(c, k)'
    BY <1>1, <2>1 DEF PairInv, OneLine, SawEnd, SameClient, InLoop
  <2>3. HandlerStarts(c, k)' /\ HandlerReads(c, k)'
    BY <1>1 DEF HandlerStarts, HandlerReads
  <2>4. HandlerHasLine(c, k)' /\ HandlerSawEOF(c, k)'
    BY <1>1, <2>1 DEF PairInv, HandlerHasLine, HandlerSawEOF, Settled, SameClient, InLoop, Gone
  <2>5. QED
    BY <2>2, <2>3, <2>4 DEF PairInv
<1>5. ASSUME k[2] < attempt[c] PROVE OldInv(k)'
  BY <1>1, <1>5 DEF ConnInv, OldInv, Settled
<1>6. QED
  BY <1>2, <1>3, <1>4, <1>5 DEF ConnInv, SameClient

LEMMA HandlerKeepsConn ==
    ASSUME TypeOK, NEW c \in Clients, NEW k \in Conns, k[1] = c,
           ConnInv(c, k), Known(c, k), HandlerActs(c, k)
    PROVE  ConnInv(c, k)'
<1>1. /\ SameClient(c) /\ link'[k] = link[k] /\ Conn(c)' = Conn(c)
      /\ NetTypeOK /\ FreshInv(c, k)
  BY DEF HandlerActs, SameClient, Conn, TypeOK, ConnInv
<1>2. /\ sStop' = sStop
      /\ hpc[k] \in {"first", "loop", "write", "read"}
  BY FirstReadAt, HandlerLoopTopAt, EchoLineAt, ReadLineAt DEF HandlerActs, Handler
<1>3. link[k] = "accepted" /\ hErr[k] = "none"
  BY <1>1, <1>2 DEF FreshInv, Known
<1>4. CASE HandlerEnds(k, "err") \/ (HandlerEnds(k, "nil") /\ hpc[k] = "loop" /\ (k \in sEOF \/ sStop))
  BY <1>1, <1>2, <1>3, <1>4, HandlerEndsKeeps DEF Settled
<1>5. CASE FirstRead(k)
  <2>1. CASE HandlerEnds(k, "err")
    BY <1>4, <2>1
  <2>2. CASE /\ ~ClosedBy(k, "server") /\ inbox[<<k, "server">>] = 1
             /\ Consume(k, "server") /\ HandlerGoes(k, "loop")
    <3>1. /\ inbox'[<<k, "server">>] = 0 /\ SameEnd(k, "client") /\ closed' = closed /\ rst' = rst
      BY <1>1, <2>2, SideNames, ConsumeAt
    <3>2. FreshInv(c, k)'
      BY <1>1, <1>3, <2>2, <3>1 DEF FreshInv, SameClient, HandlerGoes, ClosedBy, Reset
    <3>3. ASSUME k = Conn(c) PROVE PairInv(c, k)'
      BY <1>1, <1>3, <1>5, <2>2, <3>1, <3>3, FirstReadAt DEF ConnInv, HandlerGoes, SameEnd,
         ClosedBy, PairInv, OneLine, SawEnd, HandlerStarts, HandlerHasLine, HandlerSawEOF,
         HandlerReads, Settled, InLoop, Gone, SameClient
    <3>4. ~OldInv(k)
      BY <1>3, <2>2 DEF OldInv
    <3>5. QED
      BY <1>1, <3>2, <3>3, <3>4 DEF ConnInv, SameClient
  <2>3. QED
    BY <1>5, <2>1, <2>2, FirstReadAt DEF ReadResults, ClosedBy
<1>6. CASE HandlerLoopTop(k)
  <2>1. CASE HandlerEnds(k, "nil") /\ (k \in sEOF \/ sStop)
    BY <1>4, <1>6, <2>1, HandlerLoopTopAt
  <2>2. CASE k \notin sEOF /\ ~sStop /\ HandlerGoes(k, "write") /\ UNCHANGED endVars
    <3>1. FreshInv(c, k)'
      BY <1>1, <1>3, <2>2 DEF FreshInv, SameClient, HandlerGoes, ClosedBy, Reset, endVars
    <3>2. ASSUME k = Conn(c) PROVE PairInv(c, k)'
      BY <1>1, <1>2, <1>3, <1>6, <2>2, <3>2, HandlerLoopTopAt DEF ConnInv, HandlerGoes, ClosedBy,
         endVars, PairInv, OneLine, SawEnd, HandlerStarts, HandlerHasLine, HandlerSawEOF,
         HandlerReads, Settled, InLoop, Gone, SameClient
    <3>3. OldInv(k) => OldInv(k)'
      BY <1>1, <1>3, <1>6, <2>2, HandlerLoopTopAt DEF OldInv, HandlerGoes, ClosedBy, endVars, Settled
    <3>4. QED
      BY <1>1, <3>1, <3>2, <3>3 DEF ConnInv, SameClient
  <2>3. QED
    BY <1>6, <2>1, <2>2, HandlerLoopTopAt
<1>7. CASE EchoLine(k)
  <2>1. CASE HandlerEnds(k, "err")
    BY <1>4, <2>1
  <2>2. CASE ~ClosedBy(k, "server") /\ Deliver(k, "server") /\ HandlerGoes(k, "read")
    <3>1. /\ closed' = closed
          /\ inbox'[<<k, "server">>] = inbox[<<k, "server">>]
          /\ Reset(k, "client")' <=> Reset(k, "client")
          /\ inbox'[<<k, "client">>] = IF ClosedBy(k, "client") THEN inbox[<<k, "client">>] ELSE 1
      BY <1>1, <2>2, SideNames, DeliverAt
    <3>2. FreshInv(c, k)'
      BY <1>1, <1>3, <2>2, <3>1 DEF FreshInv, SameClient, HandlerGoes, ClosedBy
    <3>3. ASSUME k = Conn(c) PROVE PairInv(c, k)'
      BY <1>1, <1>2, <1>3, <1>7, <2>2, <3>1, <3>3, EchoLineAt, ConnType DEF ConnInv, HandlerGoes,
         ClosedBy, Known, PairInv, OneLine, SawEnd, HandlerStarts, HandlerHasLine, HandlerSawEOF,
         HandlerReads, Settled, InLoop, Gone, SameClient
    <3>4. ~OldInv(k)
      BY <1>3, <2>2 DEF OldInv
    <3>5. QED
      BY <1>1, <3>2, <3>3, <3>4 DEF ConnInv, SameClient
  <2>3. QED
    BY <1>7, <2>1, <2>2, EchoLineAt DEF WriteResult, ClosedBy
<1>8. CASE ReadLine(k)
  <2>1. CASE HandlerEnds(k, "err")
    BY <1>4, <2>1
  <2>2. CASE /\ ~ClosedBy(k, "server") /\ inbox[<<k, "server">>] = 1
             /\ Consume(k, "server") /\ HandlerCounts(k) /\ sEOF' = sEOF
    <3>1. /\ inbox'[<<k, "server">>] = 0 /\ SameEnd(k, "client") /\ closed' = closed /\ rst' = rst
      BY <1>1, <2>2, SideNames, ConsumeAt
    <3>2. FreshInv(c, k)'
      BY <1>1, <1>3, <2>2, <3>1 DEF FreshInv, SameClient, HandlerCounts, ClosedBy, Reset
    <3>3. ASSUME k = Conn(c) PROVE PairInv(c, k)'
      BY <1>1, <1>2, <1>3, <1>8, <2>2, <3>1, <3>3, ReadLineAt, ConnType DEF ConnInv, HandlerCounts,
         SameEnd, ClosedBy, Known, PairInv, OneLine, SawEnd, HandlerStarts, HandlerHasLine,
         HandlerSawEOF, HandlerReads, Settled, InLoop, Gone, SameClient
    <3>4. ~OldInv(k)
      BY <1>3, <2>2 DEF OldInv
    <3>5. QED
      BY <1>1, <3>2, <3>3, <3>4 DEF ConnInv, SameClient
  <2>3. CASE /\ ~ClosedBy(k, "server") /\ inbox[<<k, "server">>] # 1 /\ ClosedBy(k, "client")
             /\ UNCHANGED endVars /\ HandlerCounts(k) /\ k \in sEOF'
    <3>1. FreshInv(c, k)'
      BY <1>1, <1>3, <2>3 DEF FreshInv, SameClient, HandlerCounts, ClosedBy, Reset, endVars
    <3>2. ASSUME k = Conn(c) PROVE PairInv(c, k)'
      BY <1>1, <1>2, <1>3, <1>8, <2>3, <3>2, ReadLineAt, ConnType DEF ConnInv, HandlerCounts,
         ClosedBy, endVars, Known, PairInv, OneLine, SawEnd, HandlerStarts, HandlerHasLine,
         HandlerSawEOF, HandlerReads, Settled, InLoop, Gone, SameClient
    <3>3. ~OldInv(k)
      BY <1>3, <2>3 DEF OldInv
    <3>4. QED
      BY <1>1, <3>1, <3>2, <3>3 DEF ConnInv, SameClient
  <2>4. QED
    BY <1>8, <2>1, <2>2, <2>3, ReadLineAt, SideNames DEF ReadResults, ClosedBy
<1>9. QED
  BY <1>5, <1>6, <1>7, <1>8 DEF HandlerActs, Handler


(* A step of the client, on the connection it has; if it gives that one up    *)
(* to dial again, the connection becomes an old one.                         *)
LEMMA ClientGivesUp ==
    ASSUME TypeOK, NEW c \in Clients, NEW k \in Conns, k[1] = c, k = Conn(c),
           ConnInv(c, k), Known(c, k), SameHandler(k), link'[k] = link[k], sStop => sStop',
           \/ link[k] = "none" /\ UNCHANGED endVars
           \/ link[k] # "none" /\ Close(k, "client"),
           cpc[c] \in {"acquire", "dial", "write", "read"},
           \/ ClientReturns(c, "err")
           \/ /\ ClientRedials(c)
              /\ \/ link[k] = "none"
                 \/ /\ cpc[c] \in {"write", "read"} /\ iter[c] = 0
                    /\ ~ClosedBy(k, "client") /\ Reset(k, "client")
    PROVE  ConnInv(c, k)'
<1>1. FreshInv(c, k) /\ PairInv(c, k)
  BY DEF ConnInv
<1>2. /\ inbox' = inbox
      /\ ClosedBy(k, "server")' <=> ClosedBy(k, "server")
      /\ ClosedBy(k, "client") => ClosedBy(k, "client")'
      /\ Reset(k, "client")' <=> Reset(k, "client")
      /\ link[k] = "none" => (ClosedBy(k, "client")' <=> ClosedBy(k, "client"))
      /\ Reset(k, "server")' => Reset(k, "server") \/ inbox[<<k, "client">>] = 1
  BY SideNames DEF Close, ClosedBy, Reset, endVars
<1>3. k[2] \in 1 .. 3 /\ attempt[c] \in 1 .. 3 /\ k = <<c, attempt[c]>>
  BY ConnPlace DEF Conn
<1>4. CASE ClientReturns(c, "err")
  <2>1. FreshInv(c, k)'
    BY <1>1, <1>2, <1>4 DEF FreshInv, SameHandler, ClientReturns
  <2>2. PairInv(c, k)'
    BY <1>1, <1>2, <1>4 DEF SameHandler, ClientReturns, PairInv, OneLine, SawEnd, HandlerStarts,
       HandlerHasLine, HandlerSawEOF, HandlerReads, Settled, InLoop, Gone
  <2>3. k = Conn(c)' /\ ~(k[2] < attempt[c])'
    BY <1>3, <1>4 DEF Conn, ClientReturns
  <2>4. QED
    BY <2>1, <2>2, <2>3 DEF ConnInv
<1>5. CASE ClientRedials(c)
  <2>1. FreshInv(c, k)'
    BY <1>1, <1>2, <1>5 DEF FreshInv, SameHandler, ClientRedials
  <2>2. OldInv(k)'
    BY <1>1, <1>2, <1>5, ConnType DEF ClientReturns, ClientRedials, OldInv, FreshInv, Known,
       SameHandler, PairInv, OneLine, SawEnd, HandlerStarts, HandlerHasLine, HandlerSawEOF,
       HandlerReads, Settled, InLoop, Gone
  <2>3. k # Conn(c)'
    BY <1>3, <1>5 DEF Conn, ClientRedials
  <2>4. QED
    BY <2>1, <2>2, <2>3 DEF ConnInv
<1>6. QED
  BY <1>4, <1>5

LEMMA ClientKeepsConn ==
    ASSUME TypeOK, NEW c \in Clients, NEW k \in Conns, k[1] = c,
           ConnInv(c, k), Known(c, k), ClientActs(c, k), sStop => sStop'
    PROVE  ConnInv(c, k)'
<1>1. /\ k = Conn(c) /\ SameHandler(k) /\ NetTypeOK
      /\ FreshInv(c, k) /\ PairInv(c, k)
  BY DEF ClientActs, ConnInv, TypeOK
<1>2. ASSUME attempt'[c] = attempt[c], FreshInv(c, k)', PairInv(c, k)' PROVE ConnInv(c, k)'
  <2>1. k[2] \in 1 .. 3 /\ k[2] = attempt[c]
    BY <1>1, ConnPlace
  <2>2. QED
    BY <1>2, <2>1 DEF ConnInv
<1>3. CASE Acquire(c)
  <2>1. link[k] = "none" /\ UNCHANGED <<link, endVars>> /\ cpc[c] = "acquire"
    BY <1>1, <1>3, AcquireAt DEF Known, netVars, endVars
  <2>2. CASE ClientReturns(c, "err")
    BY <1>1, <2>1, <2>2, ClientGivesUp
  <2>3. CASE ClientGoes(c, "dial")
    <3>1. FreshInv(c, k)'
      BY <1>1, <2>1, <2>3 DEF FreshInv, SameHandler, ClientGoes, endVars, ClosedBy, Reset
    <3>2. PairInv(c, k)'
      BY <1>1, <2>1, <2>3 DEF SameHandler, ClientGoes, endVars, ClosedBy, PairInv, OneLine, SawEnd,
         HandlerStarts, HandlerHasLine, HandlerSawEOF, HandlerReads, Settled, InLoop, Gone
    <3>3. QED
      BY <1>2, <2>3, <3>1, <3>2 DEF ClientGoes
  <2>4. QED
    BY <1>3, <2>2, <2>3, AcquireAt
<1>4. CASE Dial(c)
  <2>1. link[k] = "none" /\ UNCHANGED endVars /\ cpc[c] = "dial"
    BY <1>1, <1>4, DialAt DEF Known
  <2>2. CASE ClientFails(c, "retriable") /\ link' = link
    BY <1>1, <2>1, <2>2, ClientGivesUp DEF ClientFails
  <2>3. CASE ClientGoes(c, "loop") /\ Connect(Conn(c))
    <3>1. link'[k] = "queued"
      BY <1>1, <2>3 DEF Connect, NetTypeOK
    <3>2. FreshInv(c, k)'
      BY <1>1, <2>1, <2>3, <3>1 DEF FreshInv, SameHandler, ClientGoes, endVars, ClosedBy, Reset
    <3>3. PairInv(c, k)'
      BY <1>1, <2>1, <2>3 DEF FreshInv, Known, SameHandler, ClientGoes, endVars, ClosedBy, PairInv,
         OneLine, SawEnd, HandlerStarts, HandlerHasLine, HandlerSawEOF, HandlerReads, Settled,
         InLoop, Gone
    <3>4. QED
      BY <1>2, <2>3, <3>2, <3>3 DEF ClientGoes
  <2>4. QED
    BY <1>4, <2>2, <2>3, DialAt
<1>5. CASE LoopTop(c)
  <2>1. link'[k] = link[k] /\ link[k] # "none" /\ cpc[c] = "loop" /\ cErr[c] = "none"
    BY <1>1, <1>5, LoopTopAt DEF FreshInv, Known
  <2>2. CASE Close(k, "client") /\ ClientReturns(c, "nil")
    <3>1. /\ inbox' = inbox /\ ClosedBy(k, "client")'
          /\ ClosedBy(k, "server")' <=> ClosedBy(k, "server")
          /\ Reset(k, "client")' <=> Reset(k, "client")
          /\ Reset(k, "server")' => Reset(k, "server") \/ inbox[<<k, "client">>] = 1
      BY <2>2, SideNames DEF Close, ClosedBy, Reset
    <3>2. FreshInv(c, k)'
      BY <1>1, <2>1, <2>2, <3>1 DEF FreshInv, SameHandler, ClientReturns
    <3>3. PairInv(c, k)'
      BY <1>1, <2>1, <2>2, <3>1 DEF SameHandler, ClientReturns, PairInv, OneLine, SawEnd,
         HandlerStarts, HandlerHasLine, HandlerSawEOF, HandlerReads, Settled, InLoop, Gone
    <3>4. QED
      BY <1>2, <2>2, <3>2, <3>3 DEF ClientReturns
  <2>3. CASE ~StopReached(c) /\ UNCHANGED netVars /\ ClientGoes(c, "write")
    <3>1. FreshInv(c, k)'
      BY <1>1, <2>1, <2>3 DEF FreshInv, SameHandler, ClientGoes, netVars, ClosedBy, Reset
    <3>2. PairInv(c, k)'
      BY <1>1, <2>1, <2>3 DEF SameHandler, ClientGoes, netVars, ClosedBy, StopReached, PairInv,
         OneLine, SawEnd, HandlerStarts, HandlerHasLine, HandlerSawEOF, HandlerReads, Settled,
         InLoop, Gone
    <3>3. QED
      BY <1>2, <2>3, <3>1, <3>2 DEF ClientGoes
  <2>4. QED
    BY <1>1, <1>5, <2>2, <2>3, LoopTopAt
<1>6. CASE WriteLine(c)
  <2>1. link'[k] = link[k] /\ link[k] # "none" /\ cpc[c] = "write" /\ cErr[c] = "none"
    BY <1>1, <1>6, WriteLineAt DEF FreshInv, Known
  <2>2. CASE ~ClosedBy(k, "client") /\ Deliver(k, "client") /\ ClientGoes(c, "read")
    <3>1. /\ closed' = closed
          /\ inbox'[<<k, "client">>] = inbox[<<k, "client">>]
          /\ Reset(k, "server")' <=> Reset(k, "server")
          /\ Reset(k, "client")' => Reset(k, "client") \/ ClosedBy(k, "server")
          /\ inbox'[<<k, "server">>] = IF ClosedBy(k, "server") THEN inbox[<<k, "server">>] ELSE 1
      BY <1>1, <2>2, SideNames, DeliverAt
    <3>2. FreshInv(c, k)'
      BY <1>1, <2>1, <2>2, <3>1 DEF FreshInv, SameHandler, ClientGoes, ClosedBy
    <3>3. PairInv(c, k)'
      BY <1>1, <2>1, <2>2, <3>1 DEF SameHandler, ClientGoes, ClosedBy, PairInv, OneLine, SawEnd,
         HandlerStarts, HandlerHasLine, HandlerSawEOF, HandlerReads, Settled, InLoop, Gone
    <3>4. QED
      BY <1>2, <2>2, <3>2, <3>3 DEF ClientGoes
  <2>3. CASE /\ WriteResult(k, "client") # "ok" /\ Close(k, "client")
             /\ ClientFails(c, LoopError(c, WriteResult(k, "client")))
    <3>1. \/ ClientReturns(c, "err")
          \/ ClientRedials(c) /\ iter[c] = 0 /\ ~ClosedBy(k, "client") /\ Reset(k, "client")
      BY <2>3 DEF ClientFails, LoopError, WriteResult, ClosedBy, Reset
    <3>2. QED
      BY <1>1, <2>1, <2>3, <3>1, ClientGivesUp
  <2>4. QED
    BY <1>1, <1>6, <2>2, <2>3, WriteLineAt DEF WriteResult, ClosedBy
<1>7. CASE ReadEcho(c)
  <2>1. link'[k] = link[k] /\ link[k] # "none" /\ cpc[c] = "read" /\ cErr[c] = "none" /\ c \notin cEOF
    BY <1>1, <1>7, ReadEchoAt DEF FreshInv, Known, PairInv, SawEnd, InLoop
  <2>2. CASE /\ ~ClosedBy(k, "client") /\ inbox[<<k, "client">>] = 1
             /\ Consume(k, "client") /\ ClientCounts(c) /\ cEOF' = cEOF
    <3>1. /\ inbox'[<<k, "client">>] = 0 /\ inbox'[<<k, "server">>] = inbox[<<k, "server">>]
          /\ closed' = closed /\ rst' = rst
      BY <1>1, <2>2, SideNames, ConsumeAt DEF SameEnd
    <3>2. FreshInv(c, k)'
      BY <1>1, <2>1, <2>2, <3>1 DEF FreshInv, SameHandler, ClientCounts, ClosedBy, Reset
    <3>3. PairInv(c, k)'
      BY <1>1, <2>1, <2>2, <3>1, ConnType DEF SameHandler, ClientCounts, ClosedBy, PairInv,
         OneLine, SawEnd, HandlerStarts, HandlerHasLine, HandlerSawEOF, HandlerReads, Settled,
         InLoop, Gone
    <3>4. QED
      BY <1>2, <2>2, <3>2, <3>3 DEF ClientCounts
  <2>3. CASE /\ ~ClosedBy(k, "client") /\ ClosedBy(k, "server")
             /\ UNCHANGED endVars /\ ClientCounts(c) /\ c \in cEOF'
    <3>1. FreshInv(c, k)'
      BY <1>1, <2>1, <2>3 DEF FreshInv, SameHandler, ClientCounts, ClosedBy, Reset, endVars
    <3>2. PairInv(c, k)'
      BY <1>1, <2>1, <2>3, ConnType DEF SameHandler, ClientCounts, ClosedBy, endVars, PairInv,
         OneLine, SawEnd, HandlerStarts, HandlerHasLine, HandlerSawEOF, HandlerReads, Settled,
         InLoop, Gone
    <3>3. QED
      BY <1>2, <2>3, <3>1, <3>2 DEF ClientCounts
  <2>4. CASE Close(k, "client") /\ ClientReturns(c, "err")
    BY <1>1, <2>1, <2>4, ClientGivesUp
  <2>5. ASSUME NEW result \in {"reset", "closed"}, result \in ReadResults(k, "client"),
               Close(k, "client"), ClientFails(c, LoopError(c, result))
        PROVE  ConnInv(c, k)'
    <3>1. \/ ClientReturns(c, "err")
          \/ ClientRedials(c) /\ iter[c] = 0 /\ ~ClosedBy(k, "client") /\ Reset(k, "client")
      BY <2>5, SideNames DEF ClientFails, LoopError, ReadResults, ClosedBy, Reset
    <3>2. QED
      BY <1>1, <2>1, <2>5, <3>1, ClientGivesUp
  <2>6. QED
    <3>1. PICK result \in ReadResults(k, "client") :
             \/ result = "data" /\ Consume(k, "client") /\ ClientCounts(c) /\ cEOF' = cEOF
             \/ result = "eof" /\ UNCHANGED endVars /\ ClientCounts(c) /\ c \in cEOF'
             \/ Close(k, "client") /\ ClientReturns(c, "err")
             \/ /\ result \in {"reset", "closed"} /\ Close(k, "client")
                /\ ClientFails(c, LoopError(c, result))
      BY <1>1, <1>7, ReadEchoAt
    <3>2. /\ result = "data" => ~ClosedBy(k, "client") /\ inbox[<<k, "client">>] = 1
          /\ result = "eof" => ~ClosedBy(k, "client") /\ ClosedBy(k, "server")
      BY <3>1, SideNames DEF ReadResults, ClosedBy
    <3>3. QED
      BY <2>2, <2>3, <2>4, <2>5, <3>1, <3>2
<1>8. CASE PassBarrier(c)
  <2>1. UNCHANGED <<link, endVars>> /\ ClientGoes(c, "loop") /\ cpc[c] = "barrier"
    BY <1>8, PassBarrierAt DEF netVars, endVars
  <2>2. FreshInv(c, k)'
    BY <1>1, <2>1 DEF FreshInv, SameHandler, ClientGoes, endVars, ClosedBy, Reset
  <2>3. PairInv(c, k)'
    BY <1>1, <2>1 DEF SameHandler, ClientGoes, endVars, ClosedBy, PairInv, OneLine, SawEnd,
       HandlerStarts, HandlerHasLine, HandlerSawEOF, HandlerReads, Settled, InLoop, Gone
  <2>4. QED
    BY <1>2, <2>1, <2>2, <2>3 DEF ClientGoes
<1>9. QED
  BY <1>3, <1>4, <1>5, <1>6, <1>7, <1>8 DEF ClientActs, Client

(* Another connection than the one it has, a step of the client touches only  *)
(* by dialling: the next one then begins fresh.                              *)
LEMMA ElsewhereAt ==
    ASSUME TypeOK, NEW c \in Clients, NEW k \in Conns, k[1] = c, ClientElsewhere(c, k)
    PROVE  /\ SameHandler(k) /\ SameEnds(k) /\ link'[k] = link[k]
           /\ ClientMoves(c)
           /\ (k[2] < attempt[c])' => k[2] < attempt[c]
           /\ k = Conn(c)' => ClientRedials(c) /\ k[2] > attempt[c]
<1>1. /\ SameHandler(k) /\ SameEnds(k) /\ link'[k] = link[k]
      /\ ClientMoves(c)
  BY ClientMovesAt DEF ClientElsewhere
<1>2. /\ k[2] \in 1 .. 3 /\ attempt[c] \in 1 .. 3 /\ k[2] # attempt[c]
  BY ConnPlace DEF ClientElsewhere
<1>3. attempt'[c] = attempt[c] \/ (ClientRedials(c) /\ attempt'[c] = attempt[c] + 1)
  BY <1>1 DEF ClientMoves, ClientGoes, ClientCounts, ClientReturns, ClientRedials
<1>4. k = Conn(c)' => k[2] = attempt'[c]
  BY DEF Conn
<1>5. QED
  BY <1>1, <1>2, <1>3, <1>4

LEMMA ElsewhereKeepsConn ==
    ASSUME TypeOK, NEW c \in Clients, NEW k \in Conns, k[1] = c,
           ConnInv(c, k), Known(c, k), ClientElsewhere(c, k), sStop => sStop',
           c \in cEOF => InLoop(c)
    PROVE  ConnInv(c, k)'
<1>1. /\ SameHandler(k) /\ SameEnds(k) /\ link'[k] = link[k] /\ FreshInv(c, k)
      /\ ClientMoves(c)
      /\ (k[2] < attempt[c])' => k[2] < attempt[c]
      /\ k = Conn(c)' => ClientRedials(c) /\ k[2] > attempt[c]
  BY ElsewhereAt DEF ConnInv
<1>2. FreshInv(c, k)'
  BY <1>1 DEF FreshInv, SameHandler, SameEnds, SameEnd, ClientRedials
<1>3. ASSUME k = Conn(c)' PROVE PairInv(c, k)'
  <2>1. link[k] = "none" /\ hpc[k] = "none" /\ cErr[c] = "none"
    <3>1. cpc[c] # "returned"
      BY <1>1, <1>3 DEF ClientMoves, ClientRedials, ClientGoes, ClientCounts, ClientReturns
    <3>2. QED
      BY <1>1, <1>3, <3>1 DEF Known
  <2>2. c \notin cEOF' /\ cpc'[c] = "acquire" /\ cErr'[c] = "none" /\ cCount'[c] = 0
    BY <1>1, <1>3 DEF ClientMoves, ClientRedials, ClientGoes, ClientCounts, ClientReturns, Known, InLoop
  <2>3. QED
    BY <1>1, <2>1, <2>2 DEF FreshInv, SameHandler, SameEnds, SameEnd, PairInv, OneLine, SawEnd,
       HandlerStarts, HandlerHasLine, HandlerSawEOF, HandlerReads, Settled, InLoop, Gone
<1>4. (k[2] < attempt[c])' => OldInv(k)'
  BY <1>1 DEF ConnInv, OldInv, SameHandler, SameEnds, SameEnd, Settled
<1>5. QED
  BY <1>2, <1>3, <1>4 DEF ConnInv

(* What each connection holds, which of its ends has the line, and by how     *)
(* much the two counts differ, at any time.                                  *)
THEOREM EchoInvCorrect == Spec => []EchoInv
<1>1. Init => EchoInv
  <2> SUFFICES ASSUME Init, NEW c \in Clients, NEW k \in Conns, k[1] = c PROVE ConnInv(c, k)
    BY DEF EchoInv
  <2>1. /\ link[k] = "none" /\ hpc[k] = "none" /\ hErr[k] = "none" /\ sCount[k] = 0
        /\ cpc[c] = "acquire" /\ cErr[c] = "none" /\ cCount[c] = 0
        /\ inbox[<<k, "client">>] = 0 /\ inbox[<<k, "server">>] = 0
        /\ closed = {} /\ rst = {} /\ cEOF = {} /\ sEOF = {}
    BY SideNames DEF Init, NetInit, ClientInit, ServerInit
  <2>2. k[2] \in 1 .. 3 /\ attempt[c] = 1
    <3>1. k \in Clients \X (1 .. 3)
      BY DEF Conns, MaxRetries
    <3>2. QED
      BY <3>1 DEF Init, ClientInit
  <2>3. FreshInv(c, k)
    BY <2>1 DEF FreshInv, ClosedBy, Reset
  <2>4. PairInv(c, k)
    BY <2>1 DEF PairInv, OneLine, SawEnd, HandlerStarts, HandlerHasLine, HandlerSawEOF,
       HandlerReads, Settled, InLoop, Gone
  <2>5. ~(k[2] < attempt[c])
    BY <2>2
  <2>6. QED
    BY <2>3, <2>4, <2>5 DEF ConnInv
<1>2. TypeOK /\ LeavesInv /\ BarrierInv /\ CountInv /\ EchoInv /\ [Next]_vars => EchoInv'
  <2> SUFFICES ASSUME TypeOK, LeavesInv, BarrierInv, CountInv, EchoInv, [Next]_vars,
                      NEW c \in Clients, NEW k \in Conns, k[1] = c
               PROVE  ConnInv(c, k)'
    BY DEF EchoInv
  <2>1. Known(c, k) /\ ConnInv(c, k)
    BY KnownAt DEF EchoInv
  <2>2. c \in cEOF => InLoop(c)
    <3>1. Conn(c) \in Conns /\ Conn(c)[1] = c
      BY Types DEF Conn
    <3>2. PairInv(c, Conn(c))
      BY <3>1 DEF EchoInv, ConnInv
    <3>3. QED
      BY <3>2 DEF PairInv, SawEnd
  <2>3. QED
    BY <2>1, <2>2, ConnStep, OthersKeepConn, ClientKeepsConn, ElsewhereKeepsConn, HandlerKeepsConn
<1>3. QED
  BY <1>1, <1>2, EchoTypeCorrect, LeavesInvCorrect, BarrierInvCorrect, CountInvCorrect, PTL DEF Spec

LEMMA PairAt ==
    ASSUME TypeOK, EchoInv, NEW c \in Clients
    PROVE  Conn(c) \in Conns /\ FreshInv(c, Conn(c)) /\ PairInv(c, Conn(c))
<1>1. Conn(c) \in Conns /\ Conn(c)[1] = c
  BY Types DEF Conn
<1>2. QED
  BY <1>1 DEF EchoInv, ConnInv

(* A client and a handler that both ended without an error counted the same   *)
(* round trips, but for the line that a handler told to stop kept.           *)
THEOREM CountsAgreeCorrect == Spec => []CountsAgree
<1>1. TypeOK /\ EchoInv => CountsAgree
  <2> SUFFICES ASSUME TypeOK, EchoInv, NEW c \in Clients, cErr[c] = "nil", hErr[Conn(c)] = "nil"
               PROVE  cCount[c] - sCount[Conn(c)] \in IF sStop THEN {0, 1} ELSE {0}
    BY DEF CountsAgree
  <2>1. Conn(c) \in Conns /\ PairInv(c, Conn(c))
    BY PairAt
  <2>2. cCount[c] \in Nat /\ sCount[Conn(c)] \in Nat
    BY <2>1, ConnType
  <2>3. IF Conn(c) \in sEOF THEN cCount[c] = sCount[Conn(c)] ELSE sStop /\ cCount[c] = sCount[Conn(c)] + 1
    BY <2>1 DEF PairInv, OneLine, SawEnd, HandlerStarts, HandlerHasLine, HandlerSawEOF,
       HandlerReads, Settled, InLoop, Gone
  <2>4. QED
    BY <2>2, <2>3
<1>2. QED
  BY <1>1, EchoTypeCorrect, EchoInvCorrect, PTL

-----------------------------------------------------------------------------
(* The clients' test: when all have returned without an error, nothing that   *)
(* was retried is in the counts.  (The sum of the counts is RoundTripsCounted.) *)
EachRoundTripCounted == NumIterations > 0 /\ Finished /\ NoClientError /\ NoHandlerError =>
    \A c \in Clients :
        /\ cCount[c] = NumIterations
        /\ \A k \in Conns : k[1] = c => sCount[k] = IF k = Conn(c) THEN NumIterations ELSE 0

(* Every client and the handler of its last connection count NumIterations    *)
(* round trips; the handlers of the connections it gave up count none.       *)
THEOREM EachRoundTripCountedCorrect == Spec => []EachRoundTripCounted
<1>1. TypeOK /\ LeavesInv /\ BarrierInv /\ CountInv /\ LimitInv /\ EchoInv => EachRoundTripCounted
  <2> SUFFICES ASSUME TypeOK, LeavesInv, BarrierInv, CountInv, LimitInv, EchoInv, NumIterations > 0,
                      Finished, NoClientError, NoHandlerError, NEW c \in Clients
               PROVE  /\ cCount[c] = NumIterations
                      /\ \A k \in Conns : k[1] = c => sCount[k] = IF k = Conn(c) THEN NumIterations ELSE 0
    BY DEF EachRoundTripCounted
  <2>1. cErr[c] = "nil" /\ cCount[c] = NumIterations /\ ~sStop
    BY ConnectionAssumption DEF Finished, ClientsReturned, NoClientError, CountInv, LimitInv,
       TypeOK, ClientTypeOK
  <2>2. ASSUME NEW k \in Conns, k[1] = c
        PROVE  /\ ConnInv(c, k) /\ Known(c, k)
               /\ hErr[k] = "nil" \/ (hErr[k] = "none" /\ link[k] # "accepted")
    <3>1. ConnInv(c, k) /\ Known(c, k) /\ FreshInv(c, k)
      BY <2>2, KnownAt DEF EchoInv, ConnInv
    <3>2. hpc[k] \in {"none", "returned"} /\ hErr[k] \in {"none", "nil"}
      BY ConnType DEF Finished, LeavesInv, ServerLeaves, AllHandled, Handled, NoHandlerError
    <3>3. QED
      BY <3>1, <3>2 DEF FreshInv, Known
  <2>3. sCount[Conn(c)] = NumIterations
    <3>1. /\ Conn(c) \in Conns /\ FreshInv(c, Conn(c)) /\ PairInv(c, Conn(c))
          /\ hErr[Conn(c)] = "nil" \/ (hErr[Conn(c)] = "none" /\ link[Conn(c)] # "accepted")
          /\ hpc[Conn(c)] = "none" <=> link[Conn(c)] # "accepted"
      <4>1. Conn(c) \in Conns /\ Conn(c)[1] = c
        BY Types DEF Conn
      <4>2. QED
        BY <2>2, <4>1, PairAt DEF Known
    <3>2. hErr[Conn(c)] = "nil"
      BY <2>1, <3>1 DEF PairInv, HandlerStarts, FreshInv
    <3>3. cCount[c] = sCount[Conn(c)]
      BY <2>1, <3>1, <3>2 DEF PairInv, SawEnd, HandlerSawEOF, Settled, Gone
    <3>4. QED
      BY <2>1, <3>3
  <2>4. ASSUME NEW k \in Conns, k[1] = c, k # Conn(c) PROVE sCount[k] = 0
    <3>1. k[2] < attempt[c] \/ k[2] > attempt[c]
      BY <2>4, ConnPlace
    <3>2. QED
      BY <2>2, <2>4, <3>1 DEF ConnInv, FreshInv, Known, OldInv, Settled
  <2>5. QED
    BY <2>1, <2>3, <2>4
<1>2. QED
  BY <1>1, EchoTypeCorrect, LeavesInvCorrect, BarrierInvCorrect, CountInvCorrect, LimitInvCorrect,
     EchoInvCorrect, PTL

(* The handlers of the last connections count NumIterations each, and the     *)
(* other handlers nothing: what the two sides count adds up.                 *)
LEMMA CountsAddUp ==
    ASSUME TypeOK, NEW n \in Nat,
           \A c \in Clients :
               /\ cCount[c] = n
               /\ \A k \in Conns : k[1] = c => sCount[k] = IF k = Conn(c) THEN n ELSE 0
    PROVE  Total = 2 * Cardinality(Clients) * n
<1> DEFINE S == {Conn(c) : c \in Clients}
           R == Conns \ S
           f == [c \in Clients |-> Conn(c)]
<1>1. /\ DOMAIN cCount = Clients /\ DOMAIN sCount = Conns
      /\ Conns = Clients \X (1 .. 3)
      /\ \A c \in Clients : Conn(c) \in Conns /\ Conn(c)[1] = c
  BY Types DEF TypeOK, ClientTypeOK, ServerTypeOK, Conn
<1>2. IsFiniteSet(Clients) /\ IsFiniteSet(Conns)
  <2>1. IsFiniteSet(1 .. 3)
    <3>1. 1 \in Int /\ 3 \in Int
      OBVIOUS
    <3>2. QED
      BY <3>1, FS_Interval, Zenon
  <2>2. QED
    BY <1>1, <2>1, FS_Product, ConnectionAssumption
<1>3. /\ IsFiniteSet(S) /\ IsFiniteSet(R) /\ S \cap R = {}
      /\ S \cup R = Conns /\ S \subseteq Conns /\ R \subseteq Conns
  <2>1. S \subseteq Conns /\ R \subseteq Conns /\ S \cap R = {} /\ S \cup R = Conns
    BY <1>1
  <2>2. QED
    BY <1>2, <2>1, FS_Subset
<1>4. Cardinality(S) = Cardinality(Clients)
  <2>1. f \in [Clients -> S] /\ \A y \in S : \E x \in Clients : f[x] = y
    OBVIOUS
  <2>2. \A x, y \in Clients : f[x] = f[y] => x = y
    <3>1. SUFFICES ASSUME NEW x \in Clients, NEW y \in Clients, f[x] = f[y] PROVE x = y
      OBVIOUS
    <3>2. Conn(x) = Conn(y)
      BY <3>1
    <3>3. QED
      BY <1>1, <3>2
  <2> HIDE DEF f, S
  <2>3. f \in Injection(Clients, S)
    BY <2>1, <2>2 DEF Injection, IsInjective
  <2>4. f \in Surjection(Clients, S)
    BY <2>1 DEF Surjection
  <2>5. QED
    BY <1>2, <1>3, <2>3, <2>4, FS_Injection
<1>5. \A k \in S : sCount[k] = n
  <2>1. SUFFICES ASSUME NEW c \in Clients PROVE sCount[Conn(c)] = n
    OBVIOUS
  <2>2. QED
    BY <1>1
<1>6. \A k \in R : sCount[k] = 0
  <2>1. SUFFICES ASSUME NEW k \in Conns, k \notin S PROVE sCount[k] = 0
    OBVIOUS
  <2>2. k[1] \in Clients
    BY <1>1
  <2>3. k # Conn(k[1])
    BY <2>1, <2>2
  <2>4. QED
    BY <2>2, <2>3
<1> HIDE DEF S, R
<1>7. SumFunctionOnSet(cCount, Clients) = Cardinality(Clients) * n
  BY <1>2, SumConstant
<1>8. SumFunctionOnSet(sCount, S) = Cardinality(Clients) * n
  <2>1. SumFunctionOnSet(sCount, S) = Cardinality(S) * n
    BY <1>3, <1>5, SumConstant
  <2>2. QED
    BY <1>4, <2>1
<1>9. SumFunctionOnSet(sCount, R) = 0
  <2>1. SumFunctionOnSet(sCount, R) = Cardinality(R) * 0
    BY <1>3, <1>6, SumConstant
  <2>2. Cardinality(R) \in Nat
    BY <1>3, FS_CardinalityType
  <2>3. QED
    BY <2>1, <2>2
<1>10. SumFunctionOnSet(sCount, Conns) = SumFunctionOnSet(sCount, S) + SumFunctionOnSet(sCount, R)
  <2>1. \A k \in S \cup R : sCount[k] \in Int
    BY <1>5, <1>6
  <2>2. SumFunctionOnSet(sCount, S \cup R)
          = SumFunctionOnSet(sCount, S) + SumFunctionOnSet(sCount, R)
    BY <1>3, <2>1, SumUnion
  <2>3. QED
    BY <1>3, <2>2
<1>11. Total = SumFunctionOnSet(cCount, Clients) + SumFunctionOnSet(sCount, Conns)
  BY <1>1 DEF Total, FoldFunction, SumFunctionOnSet
<1>12. Cardinality(Clients) \in Nat
  BY <1>2, FS_CardinalityType
<1>13. 2 * Cardinality(Clients) * n = Cardinality(Clients) * n + Cardinality(Clients) * n
  BY <1>12
<1>14. Cardinality(Clients) * n \in Nat
  BY <1>12
<1>15. QED
  BY <1>7, <1>8, <1>9, <1>10, <1>11, <1>13, <1>14

(* TestServe's assertion holds for every number of clients and of round       *)
(* trips, whatever was retried on the way: if no side reports an error, the  *)
(* combined count is twice the number of round trips.                        *)
THEOREM RoundTripsCountedCorrect == Spec => []RoundTripsCounted
<1>1. TypeOK /\ EachRoundTripCounted => RoundTripsCounted
  <2> SUFFICES ASSUME TypeOK, EachRoundTripCounted, NumIterations > 0,
                      Finished, NoClientError, NoHandlerError
               PROVE  Total = 2 * Cardinality(Clients) * NumIterations
    BY DEF RoundTripsCounted
  <2>1. \A c \in Clients :
           /\ cCount[c] = NumIterations
           /\ \A k \in Conns : k[1] = c => sCount[k] = IF k = Conn(c) THEN NumIterations ELSE 0
    BY DEF EachRoundTripCounted
  <2>2. NumIterations \in Nat
    BY ClientsAssumption
  <2>3. QED
    BY <2>1, <2>2, CountsAddUp
<1>2. QED
  BY <1>1, EchoTypeCorrect, EachRoundTripCountedCorrect, PTL

-----------------------------------------------------------------------------
(* What has gone wrong does not go right again.                              *)
LEMMA TroubleStays ==
    ASSUME TypeOK, CountInv, [Next]_vars
    PROVE  /\ ctxDone => ctxDone'
           /\ cStop => cStop'
           /\ sStop => sStop'
           /\ listening' => listening
           /\ NoClientError' => NoClientError
<1>1. ASSUME NEW c \in Clients, Client(c) PROVE UNCHANGED <<ctxDone, listening>>
  BY <1>1 DEF Client, Acquire, Dial, LoopTop, WriteLine, ReadEcho, PassBarrier, EndIteration,
     EndAttempt, netVars
<1>2. ASSUME NEW k \in Conns, Handler(k) PROVE UNCHANGED <<ctxDone, listening, sStop>>
  BY <1>2 DEF Handler, FirstRead, HandlerLoopTop, EchoLine, ReadLine, EndHandler, netVars
<1>3. (ctxDone => ctxDone') /\ (sStop => sStop') /\ (listening' => listening)
  <2>1. CASE Environment
    BY <2>1 DEF Environment, StopClients, StopServer, EndContext, Drop, netVars, serverVars
  <2>2. CASE ListenerCloses \/ AcceptStep \/ Done \/ UNCHANGED vars
    BY <2>2 DEF ListenerCloses, CloseListener, AcceptStep, AcceptLoop, AcceptConn, AcceptFails,
       AcceptReturns,
                Done, netVars, serverVars, vars
  <2>3. ASSUME NEW c \in Clients, ClientStep(c) PROVE UNCHANGED <<ctxDone, listening, sStop>>
    BY <1>1, <2>3 DEF ClientStep, CloseClientConn, serverVars
  <2>4. ASSUME NEW k \in Conns, HandlerStep(k) PROVE UNCHANGED <<ctxDone, listening, sStop>>
    BY <1>2, <2>4 DEF HandlerStep, CloseServerConn, serverVars
  <2>5. QED
    BY <2>1, <2>2, <2>3, <2>4 DEF Next
<1>4. ASSUME NEW c \in Clients, cErr[c] = "err" PROVE cErr'[c] = "err"
  <2>1. ASSUME NEW d \in Clients, Client(d) PROVE SameClient(c)
    <3>1. cpc[c] = "returned"
      BY <1>4 DEF CountInv
    <3>2. d # c
      BY <2>1, <3>1 DEF Client, Acquire, Dial, LoopTop, WriteLine, ReadEcho, PassBarrier
    <3>3. QED
      BY <2>1, <3>2, ClientMovesAt
  <2>2. QED
    BY <1>4, <2>1, ClientOrSame DEF SameClient
<1>5. cStop => cStop'
  <2>1. ASSUME NEW c \in Clients, NEW err, EndAttempt(c, err) PROVE cStop' = cStop
    BY <2>1 DEF EndAttempt
  <2>2. ASSUME NEW c \in Clients, Client(c) PROVE cStop' = cStop
    BY <2>1, <2>2 DEF Client, Acquire, Dial, LoopTop, WriteLine, ReadEcho, EndIteration, PassBarrier
  <2>3. QED
    BY <2>2 DEF Next, Environment, StopClients, StopServer, ListenerCloses, AcceptStep, Done,
       ClientStep, CloseClientConn, HandlerStep, clientVars, vars
<1>6. QED
  BY <1>3, <1>4, <1>5 DEF NoClientError

(* As long as no client has failed and the context goes on, no handler sees a *)
(* reset, a connection is closed by the server only when the handler is done, *)
(* and by the client only when it returns or was dropped before it was        *)
(* accepted.                                                                 *)
CalmConn(c, k) ==
    /\ hErr[k] # "err"
    /\ ~Reset(k, "server")
    /\ ClosedBy(k, "server") => hErr[k] = "nil"
    /\ ClosedBy(k, "client") => IF k = Conn(c) THEN cpc[c] = "returned" ELSE link[k] = "dropped"

CalmInv == NumIterations > 0 /\ NoClientError /\ ~ctxDone =>
    \A c \in Clients : \A k \in Conns : k[1] = c => CalmConn(c, k)

\* in a calm run the two AfterFuncs have nothing to close
LEMMA NothingIsCut ==
    ASSUME NoClientError, ~ctxDone, CalmInv, NumIterations > 0, TypeOK
    PROVE  ~ClientCtxDone /\ ~ServerCtxDone
<1>1. \A k \in Conns : k[1] \in Clients
  BY Types
<1>2. \A k \in Conns : hErr[k] # "err"
  BY <1>1 DEF CalmInv, CalmConn
<1>3. QED
  BY <1>2 DEF ClientCtxDone, ServerCtxDone, NoClientError

LEMMA HandlerStaysCalm ==
    ASSUME TypeOK, NEW c \in Clients, NEW k \in Conns, k[1] = c, ConnInv(c, k), Known(c, k),
           CalmConn(c, k), HandlerActs(c, k), cErr[c] # "err", cErr[c] = "nil" => cCount[c] > 0,
           ~sStop
    PROVE  CalmConn(c, k)'
<1>1. /\ SameClient(c) /\ link'[k] = link[k] /\ Conn(c)' = Conn(c)
      /\ NetTypeOK /\ FreshInv(c, k)
  BY DEF HandlerActs, SameClient, Conn, TypeOK, ConnInv
<1>2. hpc[k] \in {"first", "loop", "write", "read"}
  BY FirstReadAt, HandlerLoopTopAt, EchoLineAt, ReadLineAt DEF HandlerActs, Handler
<1>3. link[k] = "accepted" /\ hErr[k] = "none" /\ ~ClosedBy(k, "server")
  BY <1>1, <1>2 DEF FreshInv, Known, CalmConn
<1>4. ClosedBy(k, "client") => k = Conn(c) /\ cErr[c] = "nil" /\ PairInv(c, k)
  BY <1>3, ConnType DEF CalmConn, Known, ConnInv
<1>5. hpc[k] \in {"first", "write"} => ~ClosedBy(k, "client")
  BY <1>3, <1>4, ConnType DEF PairInv, HandlerStarts, HandlerHasLine, SawEnd, Settled, Gone
<1>6. CASE FirstRead(k)
  <2>1. Consume(k, "server") /\ HandlerGoes(k, "loop")
    BY <1>3, <1>5, <1>6, FirstReadAt, SideNames DEF ReadResults, ClosedBy, Reset, CalmConn
  <2>2. QED
    BY <1>1, <1>3, <1>5, <1>6, <2>1, FirstReadAt DEF Consume, CalmConn, HandlerGoes, ClosedBy, Reset
<1>7. CASE HandlerLoopTop(k)
  <2>1. CASE HandlerEnds(k, "nil")
    <3>1. hErr'[k] = "nil" /\ Close(k, "server")
      BY <2>1 DEF HandlerEnds
    <3>2. /\ Reset(k, "server")' <=> Reset(k, "server")
          /\ ClosedBy(k, "client")' <=> ClosedBy(k, "client")
      BY <3>1, SideNames DEF Close, ClosedBy, Reset
    <3>3. QED
      BY <1>1, <1>3, <3>1, <3>2 DEF CalmConn, SameClient
  <2>2. CASE HandlerGoes(k, "write") /\ UNCHANGED endVars
    BY <1>1, <1>3, <2>2 DEF CalmConn, HandlerGoes, endVars, ClosedBy, Reset, SameClient
  <2>3. QED
    BY <1>7, <2>1, <2>2, HandlerLoopTopAt
<1>8. CASE EchoLine(k)
  <2>1. Deliver(k, "server") /\ HandlerGoes(k, "read")
    BY <1>3, <1>8, EchoLineAt DEF WriteResult, ClosedBy, Reset, CalmConn
  <2>2. ~ClosedBy(k, "client")
    BY <1>5, <1>8 DEF EchoLine
  <2>3. closed' = closed /\ rst' = rst
    BY <2>1, <2>2, SideNames DEF Deliver, ClosedBy
  <2>4. QED
    BY <1>1, <1>3, <2>1, <2>2, <2>3 DEF CalmConn, HandlerGoes, ClosedBy, Reset
<1>9. CASE ReadLine(k)
  <2>1. HandlerCounts(k) /\ closed' = closed /\ rst' = rst
    BY <1>3, <1>9, ReadLineAt DEF ReadResults, Consume, endVars, ClosedBy, Reset, CalmConn
  <2>2. QED
    BY <1>1, <1>3, <2>1 DEF CalmConn, HandlerCounts, ClosedBy, Reset, SameClient
<1>10. QED
  BY <1>6, <1>7, <1>8, <1>9 DEF HandlerActs, Handler

LEMMA ClientStaysCalm ==
    ASSUME TypeOK, NEW c \in Clients, NEW k \in Conns, k[1] = c, ConnInv(c, k), Known(c, k),
           CalmConn(c, k), ClientActs(c, k), cErr'[c] # "err", ~sStop, c \notin cEOF, EOFIsError
    PROVE  CalmConn(c, k)'
<1>1. /\ k = Conn(c) /\ SameHandler(k) /\ FreshInv(c, k) /\ PairInv(c, k)
      /\ k = <<c, k[2]>> /\ attempt[c] \in 1 .. 3
  BY ConnPlace DEF ClientActs, ConnInv
<1>2. /\ cpc[c] # "returned" /\ cErr[c] = "none" /\ ~ClosedBy(k, "client")
  BY <1>1 DEF ClientActs, Client, Acquire, Dial, LoopTop, WriteLine, ReadEcho, PassBarrier, Known,
     CalmConn
<1>3. ~ClosedBy(k, "server")
  BY <1>1, <1>2 DEF CalmConn, PairInv, SawEnd
<1>4. Reset(k, "client") => link[k] = "dropped"
  BY <1>1, <1>3 DEF FreshInv
<1>5. ASSUME UNCHANGED <<closed, rst>> PROVE CalmConn(c, k)'
  BY <1>1, <1>2, <1>3, <1>5 DEF CalmConn, ClosedBy, Reset, SameHandler
<1>6. CASE Acquire(c) \/ Dial(c) \/ PassBarrier(c)
  BY <1>5, <1>6 DEF Acquire, Dial, PassBarrier, netVars, endVars
<1>7. CASE LoopTop(c)
  <2>1. CASE Close(k, "client") /\ ClientReturns(c, "nil")
    <3>1. inbox[<<k, "client">>] = 0
      BY <1>1, <1>7 DEF LoopTop, PairInv, OneLine, InLoop
    <3>2. /\ Reset(k, "server")' <=> Reset(k, "server")
          /\ ClosedBy(k, "server")' <=> ClosedBy(k, "server")
      BY <2>1, <3>1, SideNames DEF Close, ClosedBy, Reset
    <3>3. k = Conn(c)' /\ cpc'[c] = "returned"
      BY <1>1, <2>1 DEF Conn, ClientReturns
    <3>4. QED
      BY <1>1, <1>3, <3>2, <3>3 DEF CalmConn, SameHandler
  <2>2. QED
    BY <1>1, <1>5, <1>7, <2>1, LoopTopAt DEF netVars
<1>8. ASSUME Reset(k, "client"), Close(k, "client"), ClientRedials(c), link'[k] = link[k]
      PROVE  CalmConn(c, k)'
  <2>1. link[k] = "dropped" /\ inbox[<<k, "client">>] = 0
    BY <1>1, <1>4, <1>8 DEF FreshInv
  <2>2. /\ Reset(k, "server")' <=> Reset(k, "server")
        /\ ClosedBy(k, "server")' <=> ClosedBy(k, "server")
    BY <1>8, <2>1, SideNames DEF Close, ClosedBy, Reset
  <2>3. k # Conn(c)'
    BY <1>1, <1>8 DEF Conn, ClientRedials
  <2>4. QED
    BY <1>1, <1>3, <1>8, <2>1, <2>2, <2>3 DEF CalmConn, SameHandler
<1>9. CASE WriteLine(c)
  <2>1. CASE Deliver(k, "client") /\ ClientGoes(c, "read")
    <3>1. closed' = closed /\ rst' = rst
      BY <1>3, <2>1, SideNames DEF Deliver, ClosedBy
    <3>2. QED
      BY <1>5, <3>1
  <2>2. CASE /\ WriteResult(k, "client") # "ok" /\ Close(k, "client")
             /\ ClientFails(c, LoopError(c, WriteResult(k, "client")))
    <3>1. Reset(k, "client") /\ ClientRedials(c)
      BY <1>2, <2>2 DEF WriteResult, ClosedBy, Reset, ClientFails, ClientReturns
    <3>2. QED
      BY <1>1, <1>8, <1>9, <2>2, <3>1, WriteLineAt
  <2>3. QED
    BY <1>1, <1>9, <2>1, <2>2, WriteLineAt
<1>10. CASE ReadEcho(c)
  <2>1. PICK result \in ReadResults(k, "client") :
           \/ result = "data" /\ Consume(k, "client")
           \/ result \in {"reset", "closed"} /\ Close(k, "client") /\ ClientFails(c, LoopError(c, result))
    <3>1. ~ClientReturns(c, "err")
      BY DEF ClientReturns
    <3>2. QED
      BY <1>1, <1>10, <3>1, ReadEchoAt
  <2>2. CASE result = "data" /\ Consume(k, "client")
    BY <1>5, <2>2 DEF Consume
  <2>3. CASE result \in {"reset", "closed"} /\ Close(k, "client") /\ ClientFails(c, LoopError(c, result))
    <3>1. Reset(k, "client") /\ ClientRedials(c)
      BY <1>2, <2>1, <2>3, SideNames DEF ReadResults, ClosedBy, Reset, ClientFails, ClientReturns
    <3>2. QED
      BY <1>1, <1>8, <1>10, <2>3, <3>1, ReadEchoAt
  <2>4. QED
    BY <2>1, <2>2, <2>3
<1>11. QED
  BY <1>6, <1>7, <1>9, <1>10 DEF ClientActs, Client

LEMMA OthersStayCalm ==
    ASSUME TypeOK, NEW c \in Clients, NEW k \in Conns, k[1] = c, ConnInv(c, k), Known(c, k), CalmConn(c, k),
           Unmoved(c, k) \/ Accepted(c, k) \/ ClientElsewhere(c, k)
    PROVE  CalmConn(c, k)'
<1>1. CASE Unmoved(c, k) \/ Accepted(c, k)
  <2>1. SameClient(c) /\ Conn(c)' = Conn(c) /\ (link[k] = "dropped" => link'[k] = "dropped")
    BY <1>1 DEF Unmoved, Accepted, Dropped, SameClient, Conn
  <2>2. /\ hErr'[k] = hErr[k]
        /\ Reset(k, "server")' <=> Reset(k, "server")
        /\ ClosedBy(k, "server")' <=> ClosedBy(k, "server")
        /\ ClosedBy(k, "client")' <=> ClosedBy(k, "client")
    BY <1>1 DEF Unmoved, Accepted, Dropped, SameHandler, HandlerGoes, SameEnds, SameEnd
  <2>3. QED
    BY <2>1, <2>2 DEF CalmConn, SameClient
<1>2. CASE ClientElsewhere(c, k)
  <2>1. k # Conn(c) /\ SameHandler(k) /\ SameEnds(k) /\ link'[k] = link[k]
    BY <1>2, ElsewhereAt DEF ClientElsewhere
  <2>2. k = Conn(c)' => ~ClosedBy(k, "client")
    BY <1>2, ElsewhereAt DEF Known, ConnInv, FreshInv
  <2>3. QED
    BY <2>1, <2>2 DEF CalmConn, SameHandler, SameEnds, SameEnd
<1>3. QED
  BY <1>1, <1>2

(* In the test, a run in which no client has failed is calm on every          *)
(* connection, also on those that were dropped and dialled again.            *)
THEOREM CalmInvCorrect == Spec => []CalmInv
<1>1. Init => CalmInv
  BY DEF Init, NetInit, ServerInit, CalmInv, CalmConn, ClosedBy, Reset
<1>2. TypeOK /\ LeavesInv /\ BarrierInv /\ CountInv /\ LimitInv /\ EchoInv /\ CalmInv /\ [Next]_vars
        => CalmInv'
  <2> SUFFICES ASSUME TypeOK, LeavesInv, BarrierInv, CountInv, LimitInv, EchoInv, CalmInv, [Next]_vars,
                      NumIterations > 0, NoClientError', ~ctxDone',
                      NEW c \in Clients, NEW k \in Conns, k[1] = c
               PROVE  CalmConn(c, k)'
    BY DEF CalmInv
  <2>1. NoClientError /\ ~ctxDone
    BY TroubleStays
  <2>2. ~ClientCtxDone /\ ~ServerCtxDone /\ CalmConn(c, k)
    BY <2>1, NothingIsCut DEF CalmInv
  <2>3. ConnInv(c, k) /\ Known(c, k)
    BY KnownAt DEF EchoInv
  <2>4. /\ ~sStop /\ c \notin cEOF /\ EOFIsError
        /\ cErr[c] # "err" /\ cErr'[c] # "err"
        /\ cErr[c] = "nil" => cCount[c] > 0
    BY <2>1, ClientsAssumption DEF LimitInv, EOFIsError, NoClientError
  <2>5. QED
    BY <2>2, <2>3, <2>4, ConnStep, OthersStayCalm, ClientStaysCalm, HandlerStaysCalm DEF ClientCut,
       HandlerCut
<1>3. QED
  BY <1>1, <1>2, EchoTypeCorrect, LeavesInvCorrect, BarrierInvCorrect, CountInvCorrect, LimitInvCorrect,
     EchoInvCorrect, PTL DEF Spec

(* With a limit on the iterations, faults that a retry hides from the clients *)
(* do not surface at the server: no handler fails before a client does.      *)
THEOREM HandlersFollowClientsCorrect ==
    ASSUME NumIterations > 0
    PROVE  Spec => []HandlersFollowClients
<1>1. TypeOK /\ CalmInv => HandlersFollowClients
  <2>1. TypeOK => \A k \in Conns : k[1] \in Clients
    BY Types
  <2>2. QED
    BY <2>1 DEF CalmInv, CalmConn, HandlersFollowClients, NoHandlerError
<1>2. QED
  BY <1>1, EchoTypeCorrect, CalmInvCorrect, PTL

-----------------------------------------------------------------------------
(* The stop of the clients alone.  A client that returns before it has used   *)
(* its connection breaks its handler, the handler's error ends the others,    *)
(* and so the other clients' connections are cut.  The barrier is what makes  *)
(* that harmless: then no client is past its first round trip (StoppedEarly), *)
(* a reset in the first round trip is retried, and the second attempt ends at *)
(* the top of the loop.                                                       *)
StoppedEarly == cStop /\ \A c \in Clients : cpc[c] \in {"write", "read"} => iter[c] = 0

StopClient(c) ==
    /\ cErr[c] # "err"
    /\ cpc[c] = "returned" /\ c \notin reached => StoppedEarly
    /\ attempt[c] = 1 \/ (/\ attempt[c] = 2 /\ cStop
                          /\ cpc[c] \in {"acquire", "dial", "loop", "returned"})
    /\ c \in cEOF => iter[c] > 0
    /\ ClosedBy(Conn(c), "client") => cpc[c] = "returned"

StopConn(k) ==
    /\ link[k] = "dropped" => ~listening
    /\ hErr[k] = "err" => StoppedEarly
    /\ ClosedBy(k, "server") => hErr[k] = "nil" \/ StoppedEarly
    /\ Reset(k, "server") => StoppedEarly

StopInv == ~sStop /\ ~ctxDone /\ Faults \subseteq {"ctx"} =>
    /\ listening \/ ClientsReturned
    /\ \A c \in Clients : StopClient(c)
    /\ \A k \in Conns : StopConn(k)

LEMMA StoppedEarlyStays ==
    ASSUME TypeOK, CountInv, [Next]_vars, StoppedEarly
    PROVE  StoppedEarly'
<1>1. cStop'
  BY TroubleStays DEF StoppedEarly
<1>2. ASSUME NEW c \in Clients, cpc'[c] \in {"write", "read"} PROVE iter'[c] = 0
  <2>1. ASSUME NEW d \in Clients, Client(d) PROVE iter'[c] = 0
    <3>1. CASE d = c
      BY <1>2, <2>1, <3>1, ClientMovesAt DEF StoppedEarly, StopReached, ClientMoves, ClientGoes,
         ClientCounts,
         ClientReturns, ClientRedials
    <3>2. CASE d # c
      BY <1>2, <2>1, <3>2, ClientMovesAt DEF StoppedEarly, SameClient
    <3>3. QED
      BY <3>1, <3>2
  <2>2. QED
    BY <1>2, <2>1, ClientOrSame DEF StoppedEarly, SameClient
<1>3. QED
  BY <1>1, <1>2 DEF StoppedEarly

LEMMA ReturnedStays ==
    ASSUME TypeOK, [Next]_vars, NEW c \in Clients, cpc[c] = "returned"
    PROVE  SameClient(c)
<1>1. ASSUME NEW d \in Clients, Client(d) PROVE SameClient(c)
  <2>1. d # c
    BY <1>1 DEF Client, Acquire, Dial, LoopTop, WriteLine, ReadEcho, PassBarrier
  <2>2. QED
    BY <1>1, <2>1, ClientMovesAt
<1>2. QED
  BY <1>1, ClientOrSame

(* Accepting goes on while the listener is open, if no other error ends it.   *)
AcceptInv == listening /\ "accept" \notin Faults => apc = "accepting"

LEMMA AcceptInvCorrect == Spec => []AcceptInv
<1>1. Init => AcceptInv
  BY DEF Init, ServerInit, AcceptInv
<1>2. TypeOK /\ AcceptInv /\ [Next]_vars => AcceptInv'
  <2> SUFFICES ASSUME TypeOK, AcceptInv, [Next]_vars PROVE AcceptInv'
    OBVIOUS
  <2>1. ASSUME NEW c \in Clients, ClientStep(c) PROVE AcceptInv'
    <3>1. apc' = apc
      BY <2>1 DEF ClientStep, serverVars
    <3>2. listening' => listening
      BY <2>1, DialAt DEF ClientStep, Client, Acquire, Dial, Connect, LoopTop, WriteLine, ReadEcho,
         PassBarrier, EndIteration, EndAttempt, CloseClientConn, netVars
    <3>3. QED
      BY <3>1, <3>2 DEF AcceptInv
  <2>2. ASSUME NEW k \in Conns, HandlerStep(k) PROVE AcceptInv'
    BY <2>2 DEF HandlerStep, Handler, FirstRead, HandlerLoopTop, EchoLine, ReadLine, EndHandler,
       CloseServerConn, CountServerIteration, serverVars, netVars, AcceptInv
  <2>3. CASE AcceptStep
    BY <2>3 DEF AcceptStep, AcceptLoop, AcceptConn, AcceptFails, AcceptReturns, netVars, AcceptInv
  <2>4. CASE ListenerCloses
    BY <2>4 DEF ListenerCloses, CloseListener, AcceptInv
  <2>5. CASE Environment \/ Done \/ UNCHANGED vars
    BY <2>5 DEF Environment, StopClients, StopServer, EndContext, Drop, Done, serverVars, netVars,
       vars, AcceptInv
  <2>6. QED
    BY <2>1, <2>2, <2>3, <2>4, <2>5 DEF Next
<1>3. QED
  BY <1>1, <1>2, EchoTypeCorrect, PTL DEF Spec

(* The listener stays open until the clients have returned, and only closing  *)
(* it drops a connection.                                                    *)
LEMMA ListenerStays ==
    ASSUME TypeOK, AcceptInv, [Next]_vars, ~sStop, ~ctxDone, "drop" \notin Faults,
           "accept" \notin Faults
    PROVE  /\ listening => listening' \/ ClientsReturned
           /\ \A k \in Conns : link'[k] = "dropped" => link[k] = "dropped" \/ ~listening'
<1>1. ASSUME NEW c \in Clients, Client(c) \/ CloseClientConn(c)
      PROVE  listening' = listening /\ \A k \in Conns : link'[k] = "dropped" => link[k] = "dropped"
  <2>1. CASE link' = link /\ listening' = listening
    BY <2>1
  <2>2. CASE Dial(c)
    BY <1>1, <2>2, DialAt DEF Connect, TypeOK, NetTypeOK
  <2>3. QED
    BY <1>1, <2>1, <2>2 DEF Client, Acquire, LoopTop, WriteLine, ReadEcho, PassBarrier, EndIteration,
       EndAttempt, CloseClientConn, netVars
<1>2. ASSUME NEW k \in Conns, Handler(k) \/ CloseServerConn(k) PROVE UNCHANGED <<link, listening>>
  BY <1>2 DEF Handler, FirstRead, HandlerLoopTop, EchoLine, ReadLine, EndHandler, CloseServerConn,
     netVars
<1>3. ASSUME NEW k \in Conns, AcceptConn(k)
      PROVE  listening' = listening /\ \A j \in Conns : link'[j] = "dropped" => link[j] = "dropped"
  BY <1>3, AcceptConnAt DEF AcceptConn
<1>4. CASE ListenerCloses
  BY <1>4 DEF ListenerCloses, CloseListener, AcceptInv
<1>5. CASE Environment \/ Done \/ UNCHANGED vars
  BY <1>5 DEF Environment, StopClients, StopServer, EndContext, Drop, Done, netVars, vars
<1>6. CASE AcceptStep
  BY <1>3, <1>6 DEF AcceptStep, AcceptLoop, AcceptFails, AcceptReturns, netVars
<1>7. QED
  BY <1>1, <1>2, <1>4, <1>5, <1>6 DEF Next, ClientStep, HandlerStep

(* A client is only ever disturbed by a server that has closed its            *)
(* connection, and that only when the clients were stopped early.            *)
LEMMA CutOff ==
    ASSUME NEW c \in Clients, NEW k \in Conns, k = Conn(c), FreshInv(c, k), PairInv(c, k),
           StopClient(c), StopConn(k), cpc[c] # "returned", listening, ~sStop
    PROVE  /\ ~ClosedBy(k, "client")
           /\ Reset(k, "client") => ClosedBy(k, "server")
           /\ ClosedBy(k, "server") => StoppedEarly
BY DEF StopClient, StopConn, FreshInv, PairInv, SawEnd

(* How a client's step ends its attempt in such a run: at the top of the loop *)
(* or, cut off, in its first round trip.                                     *)
LEMMA StopClientMoves ==
    ASSUME TypeOK, NEW c \in Clients, NEW k \in Conns, k = Conn(c), FreshInv(c, k), PairInv(c, k),
           StopClient(c), StopConn(k), listening, ~sStop, ~ClientCtxDone, "refuse" \notin Faults,
           NumIterations > 0 => ~cStop, Client(c)
    PROVE  \/ \E s \in {"dial", "loop", "write", "read"} :
                /\ ClientGoes(c, s)
                /\ cpc[c] \in {"acquire", "dial", "loop", "write", "barrier"}
                /\ s = "write" => ~StopReached(c) /\ cpc[c] = "loop"
                /\ s \in {"read", "loop"} => cpc[c] # "loop"
                /\ s = "loop" => cpc[c] \in {"dial", "barrier"}
                /\ s = "read" => cpc[c] = "write"
                /\ s = "dial" => cpc[c] = "acquire"
                /\ closed' = closed
                /\ Reset(k, "server")' <=> Reset(k, "server")
           \/ /\ ClientCounts(c) /\ closed' = closed /\ rst' = rst
           \/ /\ cpc[c] = "loop" /\ StopReached(c) /\ ClientReturns(c, "nil") /\ Close(k, "client")
              /\ c \in cEOF => StoppedEarly
           \/ /\ cpc[c] \in {"write", "read"} /\ iter[c] = 0
              /\ ClientRedials(c) /\ Close(k, "client") /\ StoppedEarly
<1>1. /\ cpc[c] # "returned"
      /\ ~ClosedBy(k, "client")
      /\ Reset(k, "client") => ClosedBy(k, "server")
      /\ ClosedBy(k, "server") => StoppedEarly
  <2>1. cpc[c] # "returned"
    BY DEF Client, Acquire, Dial, LoopTop, WriteLine, ReadEcho, PassBarrier
  <2>2. QED
    BY <2>1, CutOff
<1>2. CASE Acquire(c)
  BY <1>2, AcquireAt DEF netVars, Reset
<1>3. CASE Dial(c)
  <2>1. ClientGoes(c, "loop") /\ UNCHANGED endVars /\ cpc[c] = "dial"
    BY <1>3, DialAt
  <2>2. QED
    BY <2>1 DEF endVars, Reset
<1>4. CASE LoopTop(c)
  BY <1>1, <1>4, LoopTopAt DEF netVars, Reset, PairInv, SawEnd
<1>5. ASSUME cpc[c] \in {"write", "read"}, Reset(k, "client"), ClientFails(c, LoopError(c, "reset"))
      PROVE  iter[c] = 0 /\ ClientRedials(c) /\ StoppedEarly
  BY <1>1, <1>5 DEF StoppedEarly, LoopError, ClientFails, StopClient
<1>6. CASE WriteLine(c)
  <2>1. CASE WriteResult(k, "client") = "ok" /\ Deliver(k, "client") /\ ClientGoes(c, "read")
    BY <1>6, <2>1, SideNames, DeliverAt DEF TypeOK, WriteLine
  <2>2. CASE WriteResult(k, "client") # "ok"
    BY <1>1, <1>5, <1>6, <2>2, WriteLineAt DEF WriteResult, ClosedBy, Reset
  <2>3. QED
    BY <1>6, <2>1, <2>2, WriteLineAt
<1>7. CASE ReadEcho(c)
  <2>1. PICK result \in ReadResults(k, "client") :
           \/ result = "data" /\ Consume(k, "client") /\ ClientCounts(c)
           \/ result = "eof" /\ ~EOFIsError /\ UNCHANGED endVars /\ ClientCounts(c)
           \/ result = "eof" /\ EOFIsError
           \/ /\ result \in {"reset", "closed"} /\ Close(k, "client")
              /\ ClientFails(c, LoopError(c, result))
    BY <1>7, ReadEchoAt
  <2>2. /\ result # "closed" /\ (result = "reset" => Reset(k, "client"))
        /\ result = "eof" => ~EOFIsError
    BY <1>1, <2>1, SideNames, ClientsAssumption DEF ReadResults, ClosedBy, Reset, StoppedEarly,
       EOFIsError
  <2>3. CASE result = "reset" /\ Close(k, "client") /\ ClientFails(c, LoopError(c, result))
    BY <1>5, <1>7, <2>2, <2>3 DEF ReadEcho
  <2>4. QED
    BY <2>1, <2>2, <2>3 DEF Consume, endVars
<1>8. CASE PassBarrier(c)
  BY <1>8, PassBarrierAt DEF netVars, Reset
<1>9. QED
  BY <1>2, <1>3, <1>4, <1>6, <1>7, <1>8 DEF Client

(* A handler is only ever disturbed by a client that returned before it had    *)
(* used its connection, or by another handler's error.                       *)
LEMMA StopHandlerStep ==
    ASSUME TypeOK, NEW c \in Clients, NEW k \in Conns, k[1] = c, ConnInv(c, k), Known(c, k),
           StopClient(c), StopConn(k), ~sStop, HandlerActs(c, k),
           c \in reached => cCount[c] > 0
    PROVE  /\ ClosedBy(k, "client")' <=> ClosedBy(k, "client")
           /\ hErr'[k] = "err" => StoppedEarly
           /\ ClosedBy(k, "server")' => hErr'[k] = "nil" \/ StoppedEarly
           /\ Reset(k, "server")' => StoppedEarly
<1>1. FreshInv(c, k) /\ NetTypeOK
  BY DEF ConnInv, TypeOK
<1>2. hpc[k] \in {"first", "loop", "write", "read"}
  BY FirstReadAt, HandlerLoopTopAt, EchoLineAt, ReadLineAt DEF HandlerActs, Handler
<1>3. link[k] = "accepted" /\ hErr[k] = "none"
  BY <1>1, <1>2 DEF FreshInv, Known
<1>4. ClosedBy(k, "server") \/ Reset(k, "server") => StoppedEarly
  BY <1>3 DEF StopConn
<1>5. ClosedBy(k, "client") /\ ~ClosedBy(k, "server") => k = Conn(c) /\ cErr[c] = "nil" /\ PairInv(c, k)
  <2>1. ~ClosedBy(k, "server") => k = Conn(c)
    <3>1. k[2] \in 1 .. 3 /\ attempt[c] \in 1 .. 3 /\ (k = Conn(c) <=> k[2] = attempt[c])
      BY ConnPlace
    <3>2. ~(k[2] > attempt[c]) /\ (k[2] < attempt[c] => ClosedBy(k, "server"))
      BY <1>3 DEF Known, ConnInv, OldInv
    <3>3. QED
      BY <3>1, <3>2
  <2>2. QED
    BY <2>1, ConnType DEF StopClient, Known, ConnInv
<1>6. ASSUME HandlerEnds(k, "err") \/ HandlerEnds(k, "nil")
      PROVE  /\ ClosedBy(k, "client")' <=> ClosedBy(k, "client")
             /\ Reset(k, "server")' <=> Reset(k, "server")
  BY <1>6, SideNames DEF HandlerEnds, Close, ClosedBy, Reset
<1>7. CASE HandlerEnds(k, "err") /\ StoppedEarly
  BY <1>6, <1>7
<1>8. CASE FirstRead(k)
  <2>1. PICK result \in ReadResults(k, "server") :
           \/ result = "data" /\ Consume(k, "server") /\ HandlerGoes(k, "loop")
           \/ result # "data" /\ HandlerEnds(k, "err")
    BY <1>8, FirstReadAt
  <2>2. CASE Consume(k, "server") /\ HandlerGoes(k, "loop")
    BY <1>3, <1>4, <2>2 DEF Consume, HandlerGoes, ClosedBy, Reset
  <2>3. CASE result # "data" /\ HandlerEnds(k, "err") /\ ~ClosedBy(k, "server") /\ ~Reset(k, "server")
    <3>1. ClosedBy(k, "client") /\ hpc[k] = "first"
      BY <1>8, <2>1, <2>3, SideNames DEF FirstRead, ReadResults, ClosedBy, Reset
    <3>2. c \notin reached /\ cpc[c] = "returned"
      BY <1>5, <2>3, <3>1, ConnType DEF PairInv, HandlerStarts, Known
    <3>3. QED
      BY <1>7, <2>3, <3>2 DEF StopClient
  <2>4. QED
    BY <1>4, <1>7, <2>1, <2>2, <2>3
<1>9. CASE HandlerLoopTop(k)
  BY <1>3, <1>4, <1>6, <1>9, HandlerLoopTopAt DEF HandlerEnds, HandlerGoes, endVars, ClosedBy, Reset
<1>10. CASE EchoLine(k)
  <2>1. CASE ~ClosedBy(k, "server") /\ Deliver(k, "server") /\ HandlerGoes(k, "read")
    <3>1. ~ClosedBy(k, "client")
      BY <1>5, <1>10, <2>1 DEF EchoLine, PairInv, SawEnd, HandlerHasLine, Settled, Gone
    <3>2. closed' = closed /\ rst' = rst
      BY <2>1, <3>1, SideNames DEF Deliver, ClosedBy
    <3>3. QED
      BY <1>3, <1>4, <2>1, <3>2 DEF HandlerGoes, ClosedBy, Reset
  <2>2. CASE WriteResult(k, "server") # "ok" /\ HandlerEnds(k, "err")
    BY <1>4, <1>7, <2>2 DEF WriteResult, ClosedBy, Reset
  <2>3. QED
    BY <1>10, <2>1, <2>2, EchoLineAt DEF WriteResult, ClosedBy
<1>11. CASE ReadLine(k)
  <2>1. PICK result \in ReadResults(k, "server") :
           \/ HandlerCounts(k) /\ closed' = closed /\ rst' = rst
           \/ result \in {"reset", "closed"} /\ HandlerEnds(k, "err")
    BY <1>11, ReadLineAt DEF Consume, endVars
  <2>2. CASE HandlerCounts(k) /\ closed' = closed /\ rst' = rst
    BY <1>3, <1>4, <2>2 DEF HandlerCounts, ClosedBy, Reset
  <2>3. CASE result \in {"reset", "closed"} /\ HandlerEnds(k, "err")
    BY <1>4, <1>7, <2>1, <2>3 DEF ReadResults, ClosedBy, Reset
  <2>4. QED
    BY <2>1, <2>2, <2>3
<1>12. QED
  BY <1>8, <1>9, <1>10, <1>11 DEF HandlerActs, Handler

LEMMA StopClientStep ==
    ASSUME TypeOK, LeavesInv, BarrierInv, CountInv, EchoInv, [Next]_vars,
           ~sStop, ~ClientCtxDone, "refuse" \notin Faults, NumIterations > 0 => ~cStop,
           listening \/ ClientsReturned, StoppedEarly => StoppedEarly',
           NEW c \in Clients, NEW k \in Conns, k = Conn(c), StopClient(c), StopConn(k)
    PROVE  StopClient(c)'
<1>1. /\ k = <<c, attempt[c]>> /\ k[1] = c /\ attempt[c] \in 1 .. 3
      /\ FreshInv(c, k) /\ PairInv(c, k) /\ Known(c, k) /\ ConnInv(c, k)
  <2>1. k = <<c, attempt[c]>> /\ k[1] = c /\ attempt[c] \in 1 .. 3
    BY Types DEF Conn
  <2>2. QED
    BY <2>1, PairAt, KnownAt DEF EchoInv
<1>2. \A d \in Clients : iter[d] \in Nat
  BY DEF TypeOK, ClientTypeOK
<1>3. CASE SameClient(c) /\ (ClosedBy(k, "client")' <=> ClosedBy(k, "client"))
  <2>1. Conn(c)' = Conn(c) /\ (cStop => cStop')
    BY <1>3, TroubleStays DEF SameClient, Conn
  <2>2. QED
    BY <1>3, <2>1 DEF StopClient, SameClient
<1>4. CASE ClientActs(c, k)
  <2>1. cpc[c] # "returned" /\ Client(c) /\ listening
    BY <1>4 DEF ClientActs, ClientsReturned, Client, Acquire, Dial, LoopTop, WriteLine, ReadEcho,
       PassBarrier
  <2>2. \/ \E s \in {"dial", "loop", "write", "read"} :
              /\ ClientGoes(c, s) /\ closed' = closed
              /\ s = "dial" => cpc[c] = "acquire"
              /\ s = "loop" => cpc[c] \in {"dial", "barrier"}
              /\ s = "write" => ~StopReached(c) /\ cpc[c] = "loop"
              /\ s = "read" => cpc[c] = "write"
        \/ ClientCounts(c) /\ closed' = closed
        \/ cpc[c] = "loop" /\ StopReached(c) /\ ClientReturns(c, "nil")
        \/ cpc[c] \in {"write", "read"} /\ ClientRedials(c) /\ StoppedEarly
    BY <1>1, <2>1, StopClientMoves
  <2>3. ASSUME NEW s \in {"dial", "loop", "write", "read"}, ClientGoes(c, s), closed' = closed,
               s = "dial" => cpc[c] = "acquire",
               s = "loop" => cpc[c] \in {"dial", "barrier"},
               s = "write" => ~StopReached(c) /\ cpc[c] = "loop",
               s = "read" => cpc[c] = "write"
        PROVE  StopClient(c)'
    <3>1. Conn(c)' = k /\ ~ClosedBy(k, "client")'
      BY <1>1, <2>1, <2>3 DEF Conn, ClientGoes, StopClient, ClosedBy
    <3>2. QED
      BY <1>1, <2>1, <2>3, <3>1, TroubleStays DEF StopClient, ClientGoes, StopReached
  <2>4. CASE ClientCounts(c) /\ closed' = closed
    <3>1. Conn(c)' = k /\ ~ClosedBy(k, "client")'
      BY <1>1, <2>1, <2>4 DEF Conn, ClientCounts, StopClient, ClosedBy
    <3>2. iter'[c] > 0 /\ cpc'[c] # "returned"
        BY <1>2, <2>4 DEF ClientCounts
    <3>3. QED
      BY <2>4, <3>1, <3>2 DEF StopClient, ClientCounts
  <2>5. CASE cpc[c] = "loop" /\ StopReached(c) /\ ClientReturns(c, "nil")
    <3>1. c \notin reached => iter[c] = 0 /\ c \notin cEOF /\ cStop
      BY <1>2, <2>5, ClientsAssumption DEF BarrierInv, ReachedInv, StopClient, StopReached
    <3>2. c \notin reached => StoppedEarly
      BY <1>2, <2>5, <3>1 DEF BarrierInv, BarrierHolds, StoppedEarly
    <3>3. c \notin cEOF'
      BY <1>1, <2>5 DEF ClientReturns
    <3>4. QED
      BY <2>5, <3>2, <3>3, TroubleStays DEF StopClient, ClientReturns
  <2>6. CASE cpc[c] \in {"write", "read"} /\ ClientRedials(c) /\ StoppedEarly
    <3>1. attempt[c] = 1 /\ attempt'[c] = 2 /\ Conn(c)' = <<c, 2>>
      BY <2>6 DEF StopClient, ClientRedials, Conn
    <3>2. ~ClosedBy(<<c, 2>>, "client")'
      <4>1. <<c, 2>> \in Conns /\ <<c, 2>> # k
        BY <1>1, <3>1, Types
      <4>2. link[<<c, 2>>] = "none"
        BY <3>1, <4>1, KnownAt DEF Known
      <4>3. ~ClosedBy(<<c, 2>>, "client")
        BY <4>1, <4>2 DEF EchoInv, ConnInv, FreshInv
      <4>4. QED
        BY <2>1, <4>1, <4>3, ClientElsewhereAt DEF SameEnds, SameEnd
    <3>3. c \notin cEOF' /\ cStop'
      BY <2>6, TroubleStays DEF ClientRedials, StoppedEarly
    <3>4. QED
      BY <1>1, <2>6, <3>1, <3>2, <3>3, ConnType DEF StopClient, ClientRedials, Known
  <2>7. QED
    BY <2>1, <2>2, <2>3, <2>4, <2>5, <2>6
<1>5. QED
  <2>1. \/ Unmoved(c, k) \/ Accepted(c, k) \/ ClientActs(c, k)
        \/ HandlerActs(c, k) \/ HandlerCut(c, k)
    BY <1>1, ConnStep DEF ClientElsewhere, ClientCut
  <2>2. CASE Unmoved(c, k) \/ Accepted(c, k)
    BY <1>3, <2>2 DEF Unmoved, Accepted, Dropped, SameEnds, SameEnd
  <2>3. CASE HandlerCut(c, k)
    BY <1>3, <2>3, SideNames DEF HandlerCut, Close, ClosedBy
  <2>4. CASE HandlerActs(c, k)
    <3>1. c \in reached => cCount[c] > 0
      BY DEF CountInv
    <3>2. ClosedBy(k, "client")' <=> ClosedBy(k, "client")
      BY <1>1, <2>4, <3>1, StopHandlerStep
    <3>3. QED
      BY <1>3, <2>4, <3>2 DEF HandlerActs
  <2>5. QED
    BY <1>4, <2>1, <2>2, <2>3, <2>4

LEMMA StopConnStep ==
    ASSUME TypeOK, LeavesInv, BarrierInv, CountInv, EchoInv, [Next]_vars,
           ~sStop, ~ClientCtxDone, ServerCtxDone => StoppedEarly, "refuse" \notin Faults,
           NumIterations > 0 => ~cStop, listening \/ ClientsReturned, StoppedEarly => StoppedEarly',
           NEW c \in Clients, NEW k \in Conns, k[1] = c, StopClient(c), StopConn(k),
           link'[k] = "dropped" => ~listening'
    PROVE  StopConn(k)'
<1>1. FreshInv(c, k) /\ Known(c, k) /\ ConnInv(c, k) /\ (c \in reached => cCount[c] > 0)
  BY KnownAt DEF EchoInv, ConnInv, CountInv
<1>2. CASE /\ hErr'[k] = hErr[k]
           /\ ClosedBy(k, "server")' <=> ClosedBy(k, "server")
           /\ Reset(k, "server")' => Reset(k, "server") \/ StoppedEarly
  BY <1>2 DEF StopConn
<1>3. CASE Unmoved(c, k) \/ Accepted(c, k) \/ ClientElsewhere(c, k)
  BY <1>2, <1>3 DEF Unmoved, Accepted, ClientElsewhere, Dropped, SameHandler, HandlerGoes,
     SameEnds, SameEnd
<1>4. CASE ClientActs(c, k)
  <2>1. /\ k = Conn(c) /\ SameHandler(k) /\ Client(c) /\ PairInv(c, k)
        /\ cpc[c] # "returned" /\ listening
    BY <1>1, <1>4 DEF ClientActs, ConnInv, ClientsReturned, Client, Acquire, Dial, LoopTop,
       WriteLine, ReadEcho,
                      PassBarrier
  <2>2. \/ closed' = closed /\ (Reset(k, "server")' <=> Reset(k, "server"))
        \/ Close(k, "client") /\ ((cpc[c] = "loop" /\ c \notin cEOF) \/ StoppedEarly)
    BY <1>1, <2>1, StopClientMoves DEF Reset
  <2>3. CASE closed' = closed /\ (Reset(k, "server")' <=> Reset(k, "server"))
    BY <1>2, <2>1, <2>3 DEF SameHandler, ClosedBy
  <2>4. CASE Close(k, "client") /\ ((cpc[c] = "loop" /\ c \notin cEOF) \/ StoppedEarly)
    <3>1. inbox[<<k, "client">>] = 0 \/ StoppedEarly
      BY <2>1, <2>4 DEF PairInv, OneLine, InLoop
    <3>2. /\ ClosedBy(k, "server")' <=> ClosedBy(k, "server")
          /\ Reset(k, "server")' => Reset(k, "server") \/ StoppedEarly
      BY <2>4, <3>1, SideNames DEF Close, ClosedBy, Reset
    <3>3. QED
      BY <1>2, <2>1, <3>2 DEF SameHandler
  <2>5. QED
    BY <2>2, <2>3, <2>4
<1>5. CASE HandlerActs(c, k)
  BY <1>1, <1>5, StopHandlerStep DEF StopConn
<1>6. CASE HandlerCut(c, k)
  BY <1>6, SideNames DEF HandlerCut, Close, StopConn, ClosedBy, Reset, SameHandler
<1>7. QED
  BY <1>3, <1>4, <1>5, <1>6, ConnStep DEF ClientCut

(* While only the clients are told to stop, whatever is closed or reset is so *)
(* because they were stopped before the barrier; so no client fails.         *)
THEOREM StopInvCorrect == Spec => []StopInv
<1>1. Init => StopInv
  BY DEF Init, NetInit, ClientInit, ServerInit, StopInv, StopClient, StopConn, ClosedBy, Reset, Conn
<1>2. TypeOK /\ LeavesInv /\ BarrierInv /\ CountInv /\ LimitInv /\ EchoInv /\ AcceptInv /\ StopInv
        /\ [Next]_vars => StopInv'
  <2> SUFFICES ASSUME TypeOK, LeavesInv, BarrierInv, CountInv, LimitInv, EchoInv, AcceptInv, StopInv,
                      [Next]_vars, ~sStop', ~ctxDone', Faults \subseteq {"ctx"}
               PROVE  /\ listening' \/ ClientsReturned'
                      /\ \A c \in Clients : StopClient(c)'
                      /\ \A k \in Conns : StopConn(k)'
    BY DEF StopInv
  <2>1. /\ ~sStop /\ ~ctxDone /\ Faults \cap {"refuse", "drop", "accept"} = {}
        /\ listening \/ ClientsReturned
        /\ \A c \in Clients : StopClient(c)
        /\ \A k \in Conns : StopConn(k)
    BY TroubleStays DEF StopInv
  <2>2. ~ClientCtxDone /\ (ServerCtxDone => StoppedEarly)
    BY <2>1 DEF ClientCtxDone, ServerCtxDone, StopClient, StopConn
  <2>3. (StoppedEarly => StoppedEarly') /\ (NumIterations > 0 => ~cStop)
    BY StoppedEarlyStays DEF LimitInv
  <2>4. ClientsReturned => ClientsReturned'
    BY ReturnedStays DEF ClientsReturned, SameClient
  <2>5. /\ listening' \/ ClientsReturned'
        /\ \A k \in Conns : link'[k] = "dropped" => ~listening'
    BY <2>1, <2>4, ListenerStays, TroubleStays DEF StopConn
  <2>6. ASSUME NEW c \in Clients PROVE StopClient(c)'
    <3>1. Conn(c) \in Conns
      BY PairAt
    <3>2. QED
      BY <2>1, <2>2, <2>3, <3>1, StopClientStep
  <2>7. ASSUME NEW k \in Conns PROVE StopConn(k)'
    <3>1. k[1] \in Clients
      BY Types
    <3>2. QED
      BY <2>1, <2>2, <2>3, <2>5, <3>1, StopConnStep
  <2>8. QED
    BY <2>5, <2>6, <2>7
<1>3. QED
  BY <1>1, <1>2, EchoTypeCorrect, LeavesInvCorrect, BarrierInvCorrect, CountInvCorrect, LimitInvCorrect,
     EchoInvCorrect, AcceptInvCorrect, PTL DEF Spec

(* Stopping the clients at any time makes no client fail, provided that the   *)
(* network is good: the barrier keeps a client that has yet to use its        *)
(* connection from breaking the others through the server.                   *)
THEOREM ClientStopIsGracefulCorrect ==
    ASSUME Faults \subseteq {"ctx"}
    PROVE  Spec => []ClientStopIsGraceful
<1>1. StopInv => ClientStopIsGraceful
  BY DEF StopInv, StopClient, ClientStopIsGraceful, NoClientError
<1>2. QED
  BY <1>1, StopInvCorrect, PTL

-----------------------------------------------------------------------------
(* RunClients keeps the promises of EchoRun.  A step of a client is one step *)
(* of EchoRun or none, and the other steps are hidden from it, but for the   *)
(* end of the context.                                                       *)

Phases == [c \in Clients |-> Phase(c)]

LEMMA SamePhase ==
    ASSUME NEW c \in Clients, SameClient(c)
    PROVE  Phase(c)' = Phase(c) /\ cCount'[c] = cCount[c] /\ attempt'[c] = attempt[c]
BY DEF SameClient, Phase

\* the phase of a client, without its error where it has none
LEMMA PhaseAt ==
    ASSUME TypeOK, CountInv, NEW c \in Clients
    PROVE  /\ Phase(c) = IF cpc[c] = "returned" THEN cErr[c]
                         ELSE IF cpc[c] = "acquire" THEN "idle"
                         ELSE IF cpc[c] = "dial" THEN "dialing" ELSE "connected"
           /\ Phase(c) \in {"idle", "dialing", "connected"} <=> cpc[c] # "returned"
           /\ Phase(c) = "dialing" <=> cpc[c] = "dial"
           /\ Phase(c) = "err" <=> cErr[c] = "err"
BY ConnType DEF Phase, CountInv, TypeOK, ClientTypeOK

\* what the variables of EchoRun become when one client moves
LEMMA OneMoves ==
    ASSUME TypeOK, TypeOK', NEW c \in Clients, \A d \in Clients : d # c => SameClient(d)
    PROVE  /\ Phases' = [Phases EXCEPT ![c] = Phase(c)']
           /\ attempt' = [attempt EXCEPT ![c] = attempt'[c]]
           /\ cCount' = [cCount EXCEPT ![c] = cCount'[c]]
           /\ Phase(c)' = Phase(c) => Phases' = Phases
           /\ attempt'[c] = attempt[c] => attempt' = attempt
           /\ cCount'[c] = cCount[c] => cCount' = cCount
<1>1. \A d \in Clients : d # c =>
        Phase(d)' = Phase(d) /\ cCount'[d] = cCount[d] /\ attempt'[d] = attempt[d]
  BY SamePhase
<1>2. Phases' = [Phases EXCEPT ![c] = Phase(c)']
  BY <1>1 DEF Phases
<1>3. Phase(c)' = Phase(c) => Phases' = Phases
  BY <1>1 DEF Phases
<1>4. /\ attempt \in [Clients -> 1 .. 3] /\ attempt' \in [Clients -> 1 .. 3]
      /\ cCount \in [Clients -> Nat] /\ cCount' \in [Clients -> Nat]
  BY DEF TypeOK, ClientTypeOK, MaxRetries
<1>5. attempt' = [attempt EXCEPT ![c] = attempt'[c]]
  BY <1>1, <1>4
<1>6. cCount' = [cCount EXCEPT ![c] = cCount'[c]]
  BY <1>1, <1>4
<1>7. attempt'[c] = attempt[c] => attempt' = attempt
  BY <1>1, <1>4
<1>8. cCount'[c] = cCount[c] => cCount' = cCount
  BY <1>1, <1>4
<1>9. QED
  BY <1>2, <1>3, <1>5, <1>6, <1>7, <1>8

(* The first client of a test that fails has used up its attempts, and has   *)
(* not made a round trip: a calm connection is neither closed nor ended by   *)
(* the server, and it is reset only if it was never accepted.                *)
LEMMA FirstFailure ==
    ASSUME TypeOK, LeavesInv, BarrierInv, CountInv, LimitInv, EchoInv, CalmInv,
           NumIterations > 0, NoClientError, ~ctxDone,
           NEW c \in Clients, Client(c), ClientReturns(c, "err")
    PROVE  cpc[c] # "acquire" /\ cCount[c] = 0 /\ attempt[c] = 3
<1> DEFINE k == Conn(c)
<1>1. k \in Conns /\ k[1] = c
  BY Types DEF Conn
<1>2. CalmConn(c, k) /\ ConnInv(c, k) /\ Known(c, k) /\ PairInv(c, k)
  BY <1>1, KnownAt DEF CalmInv, EchoInv, ConnInv
<1>3. ~ClientCtxDone /\ c \notin cEOF /\ ~sStop
  BY NothingIsCut DEF LimitInv
<1>4. cpc[c] # "returned" => ~ClosedBy(k, "client") /\ ~ClosedBy(k, "server")
  BY <1>2, <1>3 DEF CalmConn, PairInv, SawEnd
<1>5. cpc[c] # "returned" /\ Reset(k, "client") => cCount[c] = 0 /\ iter[c] = 0
  BY <1>2, <1>3, <1>4 DEF ConnInv, FreshInv, Known, PairInv, HandlerStarts
<1>6. ~Acquire(c) /\ ~LoopTop(c) /\ ~PassBarrier(c)
  BY <1>3, AcquireAt, LoopTopAt, PassBarrierAt DEF ClientReturns, ClientGoes
<1>7. CASE Dial(c)
  BY <1>2, <1>7, DialAt DEF Known, ClientFails, ClientGoes, ClientReturns, ClientRedials
<1>8. CASE WriteLine(c)
  <2>1. /\ cpc[c] = "write" /\ WriteResult(k, "client") # "ok"
        /\ ClientFails(c, LoopError(c, WriteResult(k, "client")))
    BY <1>8, WriteLineAt DEF ClientGoes, ClientReturns
  <2>2. Reset(k, "client") /\ WriteResult(k, "client") = "reset"
    BY <1>4, <2>1 DEF WriteResult, ClosedBy, Reset
  <2>3. QED
    BY <1>5, <2>1, <2>2 DEF LoopError, ClientFails, ClientReturns, ClientRedials
<1>9. CASE ReadEcho(c)
  <2>1. PICK result \in ReadResults(k, "client") :
           /\ cpc[c] = "read"
           /\ \/ result = "eof"
              \/ result \in {"reset", "closed"} /\ ClientFails(c, LoopError(c, result))
    BY <1>9, ReadEchoAt DEF ClientCounts, ClientReturns
  <2>2. result = "reset" /\ Reset(k, "client")
    BY <1>4, <2>1 DEF ReadResults, Peer, ClosedBy, Reset
  <2>3. QED
    BY <1>5, <2>1, <2>2 DEF LoopError, ClientFails, ClientReturns, ClientRedials
<1>10. QED
  BY <1>6, <1>7, <1>8, <1>9 DEF Client

EchoRunInv == /\ TypeOK /\ LeavesInv /\ BarrierInv /\ CountInv
              /\ LimitInv /\ EchoInv /\ CalmInv

LEMMA ClientImplements ==
    ASSUME EchoRunInv, TypeOK', CountInv', NEW c \in Clients, Client(c)
    PROVE  Abstract!Next \/ UNCHANGED Abstract!vars
<1>1. TypeOK /\ LeavesInv /\ BarrierInv /\ CountInv /\ LimitInv
  BY DEF EchoRunInv
<1>2. ClientMoves(c) /\ \A d \in Clients : d # c => SameClient(d)
  BY <1>1, ClientMovesAt
<1>3. /\ Phases' = [Phases EXCEPT ![c] = Phase(c)']
      /\ attempt' = [attempt EXCEPT ![c] = attempt'[c]]
      /\ cCount' = [cCount EXCEPT ![c] = cCount'[c]]
      /\ Phase(c)' = Phase(c) => Phases' = Phases
      /\ attempt'[c] = attempt[c] => attempt' = attempt
      /\ cCount'[c] = cCount[c] => cCount' = cCount
  BY <1>1, <1>2, OneMoves
<1>4. ctxDone' = ctxDone
  BY DEF Client, Acquire, Dial, LoopTop, WriteLine, ReadEcho, PassBarrier, EndIteration,
         EndAttempt, netVars
<1>5. \A d \in Clients : Phases[d] = Phase(d)
  BY DEF Phases
<1>6. /\ iter[c] \in Nat /\ cCount[c] \in Nat /\ NumIterations \in Nat
      /\ attempt[c] \in 1 .. 3
      /\ cpc[c] \in {"acquire", "dial", "loop", "write", "read", "barrier", "returned"}
      /\ cpc[c] # "returned" => cErr[c] = "none" /\ cCount[c] = iter[c]
      /\ cpc[c] \in {"acquire", "dial"} => iter[c] = 0
  BY <1>1, ClientsAssumption, ConnType, Types DEF CountInv, BarrierInv, ReachedInv, TypeOK,
     ClientTypeOK
<1>7. cpc[c] # "returned"
  BY DEF Client, Acquire, Dial, LoopTop, WriteLine, ReadEcho, PassBarrier
<1>8. /\ Phase(c) = IF cpc[c] = "acquire" THEN "idle"
                    ELSE IF cpc[c] = "dial" THEN "dialing" ELSE "connected"
      /\ Phase(c)' = IF cErr'[c] # "none" THEN cErr'[c]
                     ELSE IF cpc'[c] = "acquire" THEN "idle"
                     ELSE IF cpc'[c] = "dial" THEN "dialing" ELSE "connected"
  <2>1. Phase(c) = IF cpc[c] = "acquire" THEN "idle"
                   ELSE IF cpc[c] = "dial" THEN "dialing" ELSE "connected"
    BY <1>6, <1>7 DEF Phase
  <2>2. Phase(c)' = IF cErr'[c] # "none" THEN cErr'[c]
                    ELSE IF cpc'[c] = "acquire" THEN "idle"
                    ELSE IF cpc'[c] = "dial" THEN "dialing" ELSE "connected"
    BY DEF Phase
  <2>3. QED
    BY <2>1, <2>2
<1>9. CASE ClientGoes(c, "dial") /\ cpc[c] = "acquire"
  <2>1. Acquire(c) /\ Cardinality(held) < SemLimit
    BY <1>6, <1>9 DEF Client, Acquire, Return, Dial, LoopTop, WriteLine, ReadEcho, PassBarrier,
       ClientGoes, TypeOK, ClientTypeOK
  <2>2. Abstract!Dialing = held
    BY <1>1, PhaseAt DEF LeavesInv, ClientLeaves, Abstract!Dialing
  <2>3. Abstract!Cardinality(Abstract!Dialing) < SemLimit
    BY <2>1, <2>2 DEF Cardinality, Abstract!Cardinality
  <2>4. /\ Phases[c] = "idle" /\ Phases' = [Phases EXCEPT ![c] = "dialing"]
        /\ attempt' = attempt /\ cCount' = cCount
    BY <1>3, <1>5, <1>6, <1>7, <1>8, <1>9 DEF ClientGoes
  <2>5. Abstract!Dial(c)
    BY <1>4, <2>3, <2>4 DEF Abstract!Dial, Abstract!Move, Phases
  <2>6. QED
    BY <2>5 DEF Abstract!Next
<1>10. CASE ClientGoes(c, "loop") /\ cpc[c] = "dial"
  <2>1. Abstract!Connect(c)
    BY <1>3, <1>4, <1>5, <1>6, <1>8, <1>10
       DEF Abstract!Connect, Abstract!Move, ClientGoes, Phases
  <2>2. QED
    BY <2>1 DEF Abstract!Next
<1>11. CASE /\ \E s \in {"loop", "write", "read"} : ClientGoes(c, s)
            /\ cpc[c] \in {"loop", "write", "barrier"}
  BY <1>3, <1>4, <1>6, <1>8, <1>11 DEF Abstract!vars, ClientGoes, Phases
<1>12. CASE ClientCounts(c)
  <2>1. NumIterations > 0 => cCount[c] < NumIterations
    BY <1>1, <1>6, <1>12 DEF LimitInv, ClientCounts
  <2>2. ASSUME cCount[c] > 0, NEW d \in Clients, cpc[d] # "returned" PROVE cCount[d] > 0
    BY <1>1, <1>6, <1>12, <2>2 DEF BarrierInv, BarrierHolds, CountInv, ClientCounts
  <2>3. \A d \in Clients : Phases[d] \in {"idle", "dialing", "connected"} => cpc[d] # "returned"
    BY <1>1, <1>5, PhaseAt
  <2>4. Abstract!RoundTrip(c)
    BY <1>3, <1>4, <1>5, <1>6, <1>8, <1>12, <2>1, <2>2, <2>3
       DEF Abstract!RoundTrip, Abstract!Running, ClientCounts, Phases
  <2>5. QED
    BY <2>4 DEF Abstract!Next
<1>13. CASE cpc[c] = "loop" /\ StopReached(c) /\ ClientReturns(c, "nil")
  <2>1. NumIterations > 0 => cCount[c] = NumIterations
    BY <1>1, <1>6, <1>13 DEF LimitInv, StopReached
  <2>2. Abstract!End(c)
    BY <1>3, <1>4, <1>5, <1>6, <1>8, <1>13, <2>1
       DEF Abstract!End, Abstract!Move, ClientReturns, Phases
  <2>3. QED
    BY <2>2 DEF Abstract!Next
<1>14. CASE ClientReturns(c, "err")
  <2>1. \/ NumIterations = 0
        \/ ctxDone
        \/ \E d \in Clients : cErr[d] = "err"
        \/ cpc[c] # "acquire" /\ cCount[c] = 0 /\ attempt[c] = 3
    BY <1>6, <1>14, FirstFailure DEF EchoRunInv, NoClientError
  <2>2. \A d \in Clients : cErr[d] = "err" => Phases[d] = "err"
    BY <1>1, <1>5, PhaseAt
  <2>3. /\ Phases[c] \in {"idle", "dialing", "connected"}
        /\ cpc[c] # "acquire" => Phases[c] # "idle"
        /\ Phase(c)' = "err" /\ attempt' = attempt /\ cCount' = cCount
    BY <1>3, <1>5, <1>7, <1>8, <1>14 DEF ClientReturns
  <2>4. Abstract!Fail(c)
    BY <1>3, <1>4, <2>1, <2>2, <2>3 DEF Abstract!Fail, Abstract!Running, Abstract!Move, Phases,
       MaxRetries
  <2>5. QED
    BY <2>4 DEF Abstract!Next
<1>15. CASE (cpc[c] = "dial" \/ iter[c] = 0) /\ ClientRedials(c) /\ cpc[c] \in {"dial", "write", "read"}
  <2>1. Abstract!StartOver(c)
    BY <1>3, <1>4, <1>5, <1>6, <1>8, <1>15
       DEF Abstract!StartOver, Abstract!Move, ClientRedials, Phases, MaxRetries
  <2>2. QED
    BY <2>1 DEF Abstract!Next
<1>16. CASE /\ \E s \in {"dial", "loop", "write", "read"} : ClientGoes(c, s)
            /\ cpc[c] \in {"acquire", "dial", "loop", "write", "barrier"}
  <2>1. /\ cpc[c] = "acquire" => cpc'[c] = "dial"
        /\ cpc[c] = "dial" => cpc'[c] = "loop"
        /\ cpc[c] \in {"loop", "write", "barrier"} => cpc'[c] # "dial"
    BY <1>1, <1>16, AcquireAt, DialAt, LoopTopAt, WriteLineAt, PassBarrierAt
       DEF Client, ReadEcho, ClientGoes, ClientReturns, ClientFails, ClientRedials
  <2>2. QED
    BY <1>9, <1>10, <1>11, <1>16, <2>1 DEF ClientGoes
<1>17. QED
  BY <1>2, <1>12, <1>13, <1>14, <1>15, <1>16 DEF ClientMoves

(* TcpEcho implements EchoRun: whatever the network, the server and the      *)
(* signals do, a client dials, counts its round trips, starts over and ends  *)
(* only as EchoRun allows.                                                   *)
THEOREM EchoImplementsRun == Spec => ImplementsEchoRun
<1>1. Init => Abstract!Init
  BY DEF Init, NetInit, ClientInit, Abstract!Init, Phase
<1>2. EchoRunInv /\ EchoRunInv' /\ [Next]_vars => [Abstract!Next]_(Abstract!vars)
  <2> SUFFICES ASSUME EchoRunInv, EchoRunInv', [Next]_vars
               PROVE  Abstract!Next \/ UNCHANGED Abstract!vars
    OBVIOUS
  <2>1. TypeOK /\ TypeOK' /\ CountInv /\ CountInv'
    BY DEF EchoRunInv
  <2>2. CASE \A c \in Clients : SameClient(c)
    <3>1. \A c \in Clients :
            Phase(c)' = Phase(c) /\ cCount'[c] = cCount[c] /\ attempt'[c] = attempt[c]
      BY <2>2, SamePhase
    <3>2. UNCHANGED Phases
      BY <3>1 DEF Phases
    <3>3. UNCHANGED attempt
      BY <2>1, <3>1 DEF TypeOK, ClientTypeOK
    <3>4. UNCHANGED cCount
      BY <2>1, <3>1 DEF TypeOK, ClientTypeOK
    <3>5. ctxDone' = ctxDone \/ (~ctxDone /\ ctxDone' = TRUE)
      BY <2>1, TroubleStays DEF TypeOK, NetTypeOK
    <3>6. Abstract!Interrupt \/ UNCHANGED Abstract!vars
      BY <3>2, <3>3, <3>4, <3>5 DEF Abstract!Interrupt, Abstract!vars, Phases
    <3>7. QED
      BY <3>6 DEF Abstract!Next
  <2>3. ASSUME NEW c \in Clients, Client(c)
        PROVE  Abstract!Next \/ UNCHANGED Abstract!vars
    BY <2>1, <2>3, ClientImplements
  <2>4. QED
    BY <2>1, <2>2, <2>3, ClientOrSame
<1>3. QED
  BY <1>1, <1>2, EchoTypeCorrect, LeavesInvCorrect, BarrierInvCorrect, CountInvCorrect,
     LimitInvCorrect, EchoInvCorrect, CalmInvCorrect, PTL
     DEF Spec, EchoRunInv, ImplementsEchoRun, Abstract!Spec

=============================================================================
