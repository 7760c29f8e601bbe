------------------------------- MODULE TcpEcho -------------------------------
(***************************************************************************)
(* The Go echo program: RunClients and Accept joined by TCP, with what the  *)
(* two mains of golang/cmd/tcpecho and the test TestServe do around them.   *)
(* NumIterations > 0 is the test: the clients make that many round trips,   *)
(* then the listener is closed.  NumIterations = 0 is main: either side is  *)
(* stopped by a signal at any time.                                         *)
(***************************************************************************)
EXTENDS EchoClients, EchoServer, Functions

vars == <<netVars, clientVars, serverVars>>

Init == NetInit /\ ClientInit /\ ServerInit

-----------------------------------------------------------------------------
\* main.go: the server's StopCh
StopServer == /\ NumIterations = 0
              /\ ~sStop
              /\ sStop' = TRUE
              /\ UNCHANGED <<netVars, clientVars, apc, hpc, sEOF, hErr, sCount>>

\* closed by main once the server is stopped or Accept has returned, by the test
\* once the clients have returned, and by an AfterFunc when the context ends
ListenerCloses == /\ sStop \/ ctxDone \/ (IF NumIterations > 0 THEN ClientsReturned
                                                              ELSE apc = "returned")
                  /\ CloseListener
                  /\ UNCHANGED <<clientVars, serverVars>>

ClientStep(c) == (Client(c) \/ CloseClientConn(c)) /\ UNCHANGED serverVars
HandlerStep(k) == (Handler(k) \/ CloseServerConn(k)) /\ UNCHANGED clientVars
AcceptStep == AcceptLoop /\ UNCHANGED clientVars

Environment == \/ StopClients /\ UNCHANGED serverVars
               \/ StopServer
               \/ EndContext /\ UNCHANGED <<clientVars, serverVars>>
               \/ \E k \in Conns : Drop(k) /\ UNCHANGED <<clientVars, serverVars>>

Finished == ClientsReturned /\ apc = "returned"
Done == Finished /\ UNCHANGED vars

Next == \/ Environment
        \/ ListenerCloses
        \/ AcceptStep
        \/ \E c \in Clients : ClientStep(c)
        \/ \E k \in Conns : HandlerStep(k)
        \/ Done

\* every goroutine that can run does; nothing is assumed of the environment
Fairness == /\ WF_vars(ListenerCloses)
            /\ WF_vars(AcceptStep)
            /\ \A c \in Clients : /\ WF_vars(Client(c) /\ UNCHANGED serverVars)
                                  /\ WF_vars(CloseClientConn(c) /\ UNCHANGED serverVars)
            /\ \A k \in Conns : /\ WF_vars(Handler(k) /\ UNCHANGED clientVars)
                                /\ WF_vars(CloseServerConn(k) /\ UNCHANGED clientVars)

Spec == Init /\ [][Next]_vars /\ Fairness

-----------------------------------------------------------------------------
TypeOK == NetTypeOK /\ ClientTypeOK /\ ServerTypeOK

\* ConnMetricsSet.Combined: the sum over all connections
Total == FoldFunction(+, 0, cCount) + FoldFunction(+, 0, sCount)

NoClientError == \A c \in Clients : cErr[c] # "err"
NoHandlerError == \A k \in Conns : hErr[k] # "err"

(* The barrier of RunClients: a client is past its first iteration only when *)
(* every client has used its connection once or has given up for good, also  *)
(* after retries.                                                            *)
BarrierHolds == \A c \in Clients :
    cpc[c] \in {"loop", "write", "read"} /\ iter[c] > 0
        => \A d \in Clients : d \in reached \/ cpc[d] = "returned"

(* Done is called once per client: the counter is what is left to wait for,  *)
(* so that it never goes negative (which panics) nor stays positive.         *)
WaitGroupExact ==
    waitGroup = Cardinality({c \in Clients : c \notin reached /\ cpc[c] # "returned"})

(* When RunClients has returned it holds no dial semaphore and no open       *)
(* connection, and when Accept has returned no connection is still handled:  *)
(* "Accept blocks until all accepted connections are handled", tcp.go:181.   *)
NothingLeft ==
    /\ ClientsReturned => /\ held = {}
                          /\ \A k \in Conns : link[k] # "none" => <<k, "client">> \in closed
    /\ apc = "returned" => \A k \in Conns : link[k] = "accepted" => <<k, "server">> \in closed

(* A client told to make NumIterations round trips returns without an error  *)
(* only if it made them all; in particular one whose context ended says so   *)
(* ("stop immediately and return with an error", tcp.go:23-25).              *)
NilMeansComplete == NumIterations > 0 =>
    \A c \in Clients : cErr[c] = "nil" => cCount[c] = NumIterations

(* TestServe: if no error is returned, the client and the server both count  *)
(* every round trip ("times 2 because we count for both client and server",  *)
(* tcp_test.go:107-110), whatever was retried on the way.                    *)
RoundTripsCounted ==
    NumIterations > 0 /\ Finished /\ NoClientError /\ NoHandlerError
        => Total = 2 * Cardinality(Clients) * NumIterations

(* No handler fails unless a client has failed or the context has ended:     *)
(* faults that a retry hides from the clients do not surface at the server.  *)
HandlersFollowClients == NoClientError /\ ~ctxDone => NoHandlerError

(* A connection that both sides ended without an error was counted alike,    *)
(* but for a line that the server had read and, being stopped, not echoed.   *)
CountsAgree == \A c \in Clients :
    cErr[c] = "nil" /\ hErr[Conn(c)] = "nil"
        => cCount[c] - sCount[Conn(c)] \in IF sStop THEN {0, 1} ELSE {0}

(* Stopping only the clients makes no client fail, wherever each of them is: *)
(* the barrier keeps a client that has yet to use its connection from        *)
(* breaking the others through the server.                                   *)
ClientStopIsGraceful == ~sStop /\ ~ctxDone => NoClientError

\* where EchoRun sees a client
Phase(c) == IF cErr[c] # "none" THEN cErr[c]
            ELSE IF cpc[c] = "acquire" THEN "idle"
            ELSE IF cpc[c] = "dial" THEN "dialing" ELSE "connected"

\* RunClients without the network, the server and its own synchronization
Abstract == INSTANCE EchoRun WITH
    phase <- [c \in Clients |-> Phase(c)],
    tries <- attempt,
    rounds <- cCount,
    interrupted <- ctxDone

(* RunClients keeps what it promises to the test and to main: how often a    *)
(* client dials and how many do at once ("to avoid a SYN flood", tcp.go:61), *)
(* what it may repeat, when it goes on ("clients will wait after connecting  *)
(* and first using the connection", tcp.go:246), and how it may end.         *)
ImplementsEchoRun == Abstract!Spec

(* RunClients returns and Accept returns: nobody waits for ever at the       *)
(* semaphore, the barrier or a read.                                         *)
RunEnds == <>Finished

(* Stopping the clients ends RunClients, wherever each of them is and        *)
(* whether or when the server is stopped as well, as long as the server goes *)
(* on accepting and its handlers go on; stopping both ends both, within the  *)
(* watchdog's patience or not.                                               *)
ClientsStop == cStop ~> ClientsReturned
BothStop == (cStop /\ sStop) ~> Finished

=============================================================================
