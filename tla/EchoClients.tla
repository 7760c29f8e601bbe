----------------------------- MODULE EchoClients -----------------------------
(***************************************************************************)
(* RunClients of golang/internal/echo/tcp.go: one goroutine per client that *)
(* dials under a semaphore, retries what may be a passing fault, makes its  *)
(* round trips, and meets the others at a barrier after its first one.      *)
(* A step is a blocking call or a visible effect of the goroutine.          *)
(* Definitions named Mut... are wrong on purpose, to test the properties.   *)
(***************************************************************************)
EXTENDS TcpConnection

CONSTANTS SemLimit,        \* NewWeighted(SemLimit)
          NumIterations,   \* StopConditions.NumIterations; 0 for no limit
          MaxIter          \* bound on the iterations of a client without limit

ASSUME ClientsAssumption == /\ SemLimit \in Nat \ {0}
                            /\ NumIterations \in Nat
                            /\ MaxIter \in Nat \ {0}

VARIABLES cStop,     \* the clients' StopCh is closed
          cpc,       \* where each client is
          attempt,   \* i + 1 of runClientWithRetry
          iter,      \* i of runRoundTripLoop
          cEOF,      \* clients whose last read found EOF (done)
          held,      \* clients that hold the dial semaphore
          waitGroup, \* the counter of the barrier
          reached,   \* clients that have set reachedBarrier
          cErr,      \* what each client returned
          cCount     \* connMetrics.count of each client

clientVars == <<cStop, cpc, attempt, iter, cEOF, held, waitGroup, reached, cErr, cCount>>

ClientTypeOK ==
    /\ cStop \in BOOLEAN
    /\ cpc \in [Clients -> {"acquire", "dial", "loop", "write", "read", "barrier", "returned"}]
    /\ attempt \in [Clients -> 1 .. MaxRetries]
    /\ iter \in [Clients -> Nat]
    /\ cEOF \in SUBSET Clients
    /\ held \in SUBSET Clients
    /\ waitGroup \in Nat
    /\ reached \in SUBSET Clients
    /\ cErr \in [Clients -> {"none", "nil", "err"}]
    /\ cCount \in [Clients -> Nat]

ClientInit == /\ cStop = FALSE
              /\ cpc = [c \in Clients |-> "acquire"]
              /\ attempt = [c \in Clients |-> 1]
              /\ iter = [c \in Clients |-> 0]
              /\ cEOF = {}
              /\ held = {}
              /\ waitGroup = Cardinality(Clients)
              /\ reached = {}
              /\ cErr = [c \in Clients |-> "none"]
              /\ cCount = [c \in Clients |-> 0]

Conn(c) == <<c, attempt[c]>>

\* the context of the error group: done with its parent or with the first error
ClientCtxDone == ctxDone \/ \E c \in Clients : cErr[c] = "err"
ClientsReturned == \A c \in Clients : cpc[c] = "returned"

-----------------------------------------------------------------------------
\* the goroutine ends; the deferred Done runs if the barrier was not reached
MutDoneTwice(c, e) ==
    /\ cpc' = [cpc EXCEPT ![c] = "returned"]
    /\ cErr' = [cErr EXCEPT ![c] = e]
    /\ waitGroup' = waitGroup - 1
    /\ UNCHANGED attempt
Return(c, e) ==
    /\ cpc' = [cpc EXCEPT ![c] = "returned"]
    /\ cErr' = [cErr EXCEPT ![c] = e]
    /\ waitGroup' = IF c \in reached THEN waitGroup ELSE waitGroup - 1
    /\ UNCHANGED attempt

\* runClientWithRetry after runClient: err is "nil", "retriable" or "fatal"
MutRetryForever(c, err) ==
    \/ /\ err = "retriable"
       /\ cpc' = [cpc EXCEPT ![c] = "acquire"]
       /\ UNCHANGED <<attempt, waitGroup, cErr>>
    \/ err # "retriable" /\ Return(c, IF err = "nil" THEN "nil" ELSE "err")
Retry(c, err) ==
    \/ /\ err = "retriable"
       /\ attempt[c] < MaxRetries
       /\ attempt' = [attempt EXCEPT ![c] = @ + 1]
       /\ cpc' = [cpc EXCEPT ![c] = "acquire"]
       /\ UNCHANGED <<waitGroup, cErr>>
    \/ /\ err # "retriable" \/ attempt[c] = MaxRetries
       /\ Return(c, IF err = "nil" THEN "nil" ELSE "err")

MutNoRetryAfterReset(c, result) == "fatal"

\* isErrorRetriable for an error of the round-trip loop
LoopError(c, result) ==
    IF result = "reset" /\ iter[c] = 0 THEN "retriable" ELSE "fatal"

\* runClient returns from the loop: the deferred conn.Close runs
EndAttempt(c, err) ==
    /\ Close(Conn(c), "client")
    /\ Retry(c, err)
    /\ iter' = [iter EXCEPT ![c] = 0]
    /\ cEOF' = cEOF \ {c}
    /\ UNCHANGED <<ctxDone, listening, link, cStop, held, reached, cCount>>

-----------------------------------------------------------------------------
\* Sem.Acquire(ctx): a waiter gives up when the context ends
Acquire(c) ==
    /\ cpc[c] = "acquire"
    /\ \/ /\ Cardinality(held) < SemLimit
          /\ held' = held \cup {c}
          /\ cpc' = [cpc EXCEPT ![c] = "dial"]
          /\ UNCHANGED <<attempt, waitGroup, cErr>>
       \/ /\ Cardinality(held) >= SemLimit
          /\ ClientCtxDone
          /\ Return(c, "err")
          /\ UNCHANGED held
    /\ UNCHANGED <<netVars, cStop, iter, cEOF, reached, cCount>>

\* dial, then the deferred Sem.Release; any error is a retriable dialErr.  A dial
\* that succeeds as the context ends counts as one that succeeded just before.
Dial(c) ==
    /\ cpc[c] = "dial"
    /\ held' = held \ {c}
    /\ \/ /\ listening
          /\ Connect(Conn(c))
          /\ cpc' = [cpc EXCEPT ![c] = "loop"]
          /\ UNCHANGED <<attempt, waitGroup, cErr>>
       \/ /\ ~listening \/ ClientCtxDone \/ "refuse" \in Faults
          /\ Retry(c, "retriable")
          /\ UNCHANGED link
    /\ UNCHANGED <<ctxDone, listening, endVars, cStop, iter, cEOF, reached, cCount>>

\* the graceful stop conditions at the top of runRoundTripLoop
MutNumIterationsOnly(c) == c \in cEOF \/ (NumIterations # 0 /\ iter[c] >= NumIterations)
StopReached(c) == \/ c \in cEOF
                  \/ NumIterations # 0 /\ iter[c] >= NumIterations
                  \/ cStop

LoopTop(c) ==
    /\ cpc[c] = "loop"
    /\ \/ StopReached(c) /\ EndAttempt(c, "nil")
       \/ /\ ~StopReached(c)
          /\ NumIterations = 0 => iter[c] < MaxIter
          /\ cpc' = [cpc EXCEPT ![c] = "write"]
          /\ UNCHANGED <<netVars, cStop, attempt, iter, cEOF, held, waitGroup, reached, cErr, cCount>>

WriteLine(c) ==
    /\ cpc[c] = "write"
    /\ LET result == WriteResult(Conn(c), "client") IN
       \/ /\ result = "ok"
          /\ Deliver(Conn(c), "client")
          /\ cpc' = [cpc EXCEPT ![c] = "read"]
          /\ UNCHANGED <<ctxDone, listening, link, cStop, attempt, iter, cEOF, held, waitGroup,
                         reached, cErr, cCount>>
       \/ result # "ok" /\ EndAttempt(c, LoopError(c, result))

\* the end of an iteration: count it, and call connectBarrier after the first
MutNoBarrier(c) == /\ cpc' = [cpc EXCEPT ![c] = "loop"]
                   /\ reached' = reached \cup {c}
                   /\ waitGroup' = IF iter[c] = 0 THEN waitGroup - 1 ELSE waitGroup
ConnectBarrier(c) ==
    IF iter[c] = 0
    THEN /\ cpc' = [cpc EXCEPT ![c] = "barrier"]
         /\ reached' = reached \cup {c}
         /\ waitGroup' = waitGroup - 1
    ELSE /\ cpc' = [cpc EXCEPT ![c] = "loop"]
         /\ UNCHANGED <<reached, waitGroup>>

EndIteration(c) ==
    /\ iter' = [iter EXCEPT ![c] = @ + 1]
    /\ cCount' = [cCount EXCEPT ![c] = @ + 1]
    /\ ConnectBarrier(c)
    /\ UNCHANGED <<ctxDone, listening, link, cStop, attempt, held, cErr>>

\* stopOnIterations && done is an error
MutEOFEndsLoop == FALSE
EOFIsError == NumIterations # 0

\* readBytes and what runRoundTripLoop makes of its result
ReadEcho(c) ==
    /\ cpc[c] = "read"
    /\ \E result \in ReadResults(Conn(c), "client") :
         \/ result = "data" /\ Consume(Conn(c), "client") /\ UNCHANGED cEOF /\ EndIteration(c)
         \/ /\ result = "eof"
            /\ ~EOFIsError
            /\ cEOF' = cEOF \cup {c}
            /\ UNCHANGED endVars
            /\ EndIteration(c)
         \/ result = "eof" /\ EOFIsError /\ EndAttempt(c, "fatal")
         \/ result \in {"reset", "closed"} /\ EndAttempt(c, LoopError(c, result))

\* waitGroup.Wait returns
PassBarrier(c) ==
    /\ cpc[c] = "barrier"
    /\ waitGroup = 0
    /\ cpc' = [cpc EXCEPT ![c] = "loop"]
    /\ UNCHANGED <<netVars, cStop, attempt, iter, cEOF, held, waitGroup, reached, cErr, cCount>>

\* context.AfterFunc(ctx, conn.Close), registered while the loop runs
CloseClientConn(c) ==
    /\ ClientCtxDone
    /\ cpc[c] \in {"loop", "write", "read", "barrier"}
    /\ <<Conn(c), "client">> \notin closed
    /\ Close(Conn(c), "client")
    /\ UNCHANGED <<ctxDone, listening, link, clientVars>>

Client(c) == \/ Acquire(c) \/ Dial(c) \/ LoopTop(c) \/ WriteLine(c)
             \/ ReadEcho(c) \/ PassBarrier(c)

\* main.go: SIGINT or SIGTERM closes the channel
StopClients == /\ NumIterations = 0
               /\ ~cStop
               /\ cStop' = TRUE
               /\ UNCHANGED <<netVars, cpc, attempt, iter, cEOF, held, waitGroup, reached, cErr, cCount>>

=============================================================================
