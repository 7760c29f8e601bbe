----------------------------- MODULE EchoServer -----------------------------
(***************************************************************************)
(* Accept and handleConnection of golang/internal/echo/tcp.go: the accept   *)
(* loop starts one handler per connection and, once accepting fails (as it  *)
(* does on a closed listener), waits for them.  The first handler error     *)
(* ends the context of the group, which closes every handler's connection;  *)
(* the accept loop goes on.                                                 *)
(* Definitions named Mut... are wrong on purpose, to test the properties.   *)
(***************************************************************************)
EXTENDS TcpConnection

VARIABLES sStop,    \* the server's StopCh is closed
          apc,      \* where Accept is
          hpc,      \* where the handler of each connection is
          sEOF,     \* handlers whose last read found EOF (done)
          hErr,     \* what each handler returned
          sCount    \* connMetrics.count of each handler

serverVars == <<sStop, apc, hpc, sEOF, hErr, sCount>>

ServerTypeOK ==
    /\ sStop \in BOOLEAN
    /\ apc \in {"accepting", "waiting", "returned"}
    /\ hpc \in [Conns -> {"none", "first", "loop", "write", "read", "returned"}]
    /\ sEOF \in SUBSET Conns
    /\ hErr \in [Conns -> {"none", "nil", "err"}]
    /\ sCount \in [Conns -> Nat]

ServerInit == /\ sStop = FALSE
              /\ apc = "accepting"
              /\ hpc = [k \in Conns |-> "none"]
              /\ sEOF = {}
              /\ hErr = [k \in Conns |-> "none"]
              /\ sCount = [k \in Conns |-> 0]

ServerCtxDone == ctxDone \/ \E k \in Conns : hErr[k] = "err"

Handled(k) == hpc[k] \in {"first", "loop", "write", "read"}

-----------------------------------------------------------------------------
AcceptConn(k) ==
    /\ apc = "accepting"
    /\ listening
    /\ link[k] = "queued"
    /\ link' = [link EXCEPT ![k] = "accepted"]
    /\ hpc' = [hpc EXCEPT ![k] = "first"]
    /\ UNCHANGED <<ctxDone, listening, endVars, sStop, apc, sEOF, hErr, sCount>>

\* listener.Accept fails, for good whatever the error is: AcceptErr, and the
\* deferred group.Wait begins
AcceptFails ==
    /\ apc = "accepting"
    /\ ~listening \/ "accept" \in Faults
    /\ apc' = "waiting"
    /\ UNCHANGED <<netVars, sStop, hpc, sEOF, hErr, sCount>>

MutNoWait == TRUE
AllHandled == \A k \in Conns : ~Handled(k)

AcceptReturns ==
    /\ apc = "waiting"
    /\ AllHandled
    /\ apc' = "returned"
    /\ UNCHANGED <<netVars, sStop, hpc, sEOF, hErr, sCount>>

\* the handler returns: conn.Close is deferred
EndHandler(k, e) ==
    /\ Close(k, "server")
    /\ hpc' = [hpc EXCEPT ![k] = "returned"]
    /\ hErr' = [hErr EXCEPT ![k] = e]
    /\ UNCHANGED <<ctxDone, listening, link, sStop, apc, sEOF, sCount>>

\* the first readBytes of handleConnection
FirstRead(k) ==
    /\ hpc[k] = "first"
    /\ \E result \in ReadResults(k, "server") :
         \/ /\ result = "data"
            /\ Consume(k, "server")
            /\ hpc' = [hpc EXCEPT ![k] = "loop"]
            /\ UNCHANGED <<ctxDone, listening, link, sStop, apc, sEOF, hErr, sCount>>
         \/ result # "data" /\ EndHandler(k, "err")

\* the top of runRoundTripLoop, with no limit on the iterations
HandlerLoopTop(k) ==
    /\ hpc[k] = "loop"
    /\ \/ (k \in sEOF \/ sStop) /\ EndHandler(k, "nil")
       \/ /\ k \notin sEOF /\ ~sStop
          /\ hpc' = [hpc EXCEPT ![k] = "write"]
          /\ UNCHANGED <<netVars, sStop, apc, sEOF, hErr, sCount>>

EchoLine(k) ==
    /\ hpc[k] = "write"
    /\ LET result == WriteResult(k, "server") IN
       \/ /\ result = "ok"
          /\ Deliver(k, "server")
          /\ hpc' = [hpc EXCEPT ![k] = "read"]
          /\ UNCHANGED <<ctxDone, listening, link, sStop, apc, sEOF, hErr, sCount>>
       \/ result # "ok" /\ EndHandler(k, "err")

\* an iteration that ends with EOF is counted like any other
MutCountEchoesOnly(k, result) ==
    sCount' = IF result = "data" THEN [sCount EXCEPT ![k] = @ + 1] ELSE sCount
CountServerIteration(k, result) == sCount' = [sCount EXCEPT ![k] = @ + 1]

\* readBytes: EOF with nothing read is no error
MutEOFIsError == {"data"}
ReadOK == {"data", "eof"}

ReadLine(k) ==
    /\ hpc[k] = "read"
    /\ \E result \in ReadResults(k, "server") :
         \/ /\ result \in ReadOK
            /\ IF result = "data" THEN Consume(k, "server") ELSE UNCHANGED endVars
            /\ sEOF' = IF result = "eof" THEN sEOF \cup {k} ELSE sEOF
            /\ CountServerIteration(k, result)
            /\ hpc' = [hpc EXCEPT ![k] = "loop"]
            /\ UNCHANGED <<ctxDone, listening, link, sStop, apc, hErr>>
         \/ result \notin ReadOK /\ EndHandler(k, "err")

\* context.AfterFunc(ctx, conn.Close): at once if the context has already ended
CloseServerConn(k) ==
    /\ ServerCtxDone
    /\ Handled(k)
    /\ <<k, "server">> \notin closed
    /\ Close(k, "server")
    /\ UNCHANGED <<ctxDone, listening, link, serverVars>>

Handler(k) == FirstRead(k) \/ HandlerLoopTop(k) \/ EchoLine(k) \/ ReadLine(k)

AcceptLoop == AcceptFails \/ AcceptReturns \/ \E k \in Conns : AcceptConn(k)

=============================================================================
