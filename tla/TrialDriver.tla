------------------------------ MODULE TrialDriver ------------------------------
(***************************************************************************)
(* The driver of one trial, harness/harness.py: main, the first class Trial  *)
(* and BgProcess.  A server and a client run in containers as children of    *)
(* the driver; a thread of the executor waits for each, one more for a        *)
(* signal; the main thread waits for the first of the three, or a timeout,   *)
(* and then ends the others.                                                *)
(*                                                                         *)
(* As committed the file stops before any of this: main uses a class         *)
(* SignalManager that is not there (taken here to be what its two calls say: *)
(* a future that a signal completes, and a close that ends its thread), and  *)
(* a second, unfinished class Trial hides the first.                         *)
(***************************************************************************)
EXTENDS Naturals, FiniteSets

VARIABLES main,     \* the statement that the main thread is at
          proc,     \* the two child processes
          future,   \* the three futures
          raised    \* whether an exception is on its way out of main

vars == <<main, proc, future, raised>>

Processes == {"server", "client"}
Futures == Processes \cup {"signal"}

TypeOK ==
    /\ main \in {"start_server", "sleep", "start_client", "as_completed", "close_client",
                 "close_server", "wait", "copy", "rm", "close_signals", "read_metrics",
                 "end", "exited"}
    /\ proc \in [Processes -> {"none", "running", "terminated", "exited"}]
    /\ future \in [Futures -> {"none", "pending", "done"}]
    /\ \A p \in Processes : proc[p] = "none" <=> future[p] = "none"
    /\ raised \in BOOLEAN

Init ==
    /\ main = "start_server"
    /\ proc = [p \in Processes |-> "none"]
    /\ future = [f \in Futures |-> IF f = "signal" THEN "pending" ELSE "none"]
    /\ raised = FALSE

-----------------------------------------------------------------------------
(* The main thread.  Whatever raises leads to the finally of main; only what *)
(* raises from as_completed on leads through the finally of Trial.run first. *)

\* BgProcess: opening the output file or starting docker may fail
Start(p) ==
    \/ /\ proc' = [proc EXCEPT ![p] = "running"]
       /\ future' = [future EXCEPT ![p] = "pending"]
       /\ main' = IF p = "server" THEN "sleep" ELSE "as_completed"
       /\ UNCHANGED raised
    \/ /\ main' = "rm"
       /\ raised' = TRUE
       /\ UNCHANGED <<proc, future>>

StartServer == main = "start_server" /\ Start("server")

Sleep == main = "sleep" /\ main' = "start_client" /\ UNCHANGED <<proc, future, raised>>

StartClient == main = "start_client" /\ Start("client")

\* the first completion of the three
FirstCompletion ==
    /\ main = "as_completed"
    /\ \E f \in Futures : future[f] = "done"
    /\ main' = "close_client"
    /\ UNCHANGED <<proc, future, raised>>

\* 15 seconds without one; before Python 3.11 this is not the TimeoutError that
\* Trial.run catches
Timeout ==
    /\ main = "as_completed"
    /\ \A f \in Futures : future[f] # "done"
    /\ main' = "close_client"
    /\ raised' \in BOOLEAN
    /\ UNCHANGED <<proc, future>>

\* BgProcess.close: SIGTERM, unless the child has been waited for
Terminate(p) == proc' = [proc EXCEPT ![p] = IF @ = "running" THEN "terminated" ELSE @]

CloseClient ==
    /\ main = "close_client"
    /\ Terminate("client")
    /\ main' = "close_server"
    /\ UNCHANGED <<future, raised>>
CloseServer ==
    /\ main = "close_server"
    /\ Terminate("server")
    /\ main' = "wait"
    /\ UNCHANGED <<future, raised>>

\* concurrent.futures.wait
AllCompleted == \A p \in Processes : future[p] = "done"
Wait ==
    /\ main = "wait"
    /\ AllCompleted
    /\ main' = IF raised THEN "rm" ELSE "copy"
    /\ UNCHANGED <<proc, future, raised>>

\* docker cp, whose return code is checked
CopyDockerVolume ==
    /\ main = "copy"
    /\ main' = "rm"
    /\ raised' \in BOOLEAN
    /\ UNCHANGED <<proc, future>>

\* docker rm, whose return code is checked: it fails on a container that runs and
\* on one that was never created, because docker was not started or because it
\* ended without one (name taken, no image, no daemon); then the signal manager
\* is not closed
DockerRm ==
    /\ main = "rm"
    /\ \/ /\ \A p \in Processes : proc[p] = "exited"
          /\ main' = "close_signals"
          /\ UNCHANGED raised
       \/ main' = "end" /\ raised' = TRUE
    /\ UNCHANGED <<proc, future>>

CloseSignals ==
    /\ main = "close_signals"
    /\ future' = [future EXCEPT !["signal"] = "done"]
    /\ main' = IF raised THEN "end" ELSE "read_metrics"
    /\ UNCHANGED <<proc, raised>>

ReadMetrics ==
    /\ main = "read_metrics"
    /\ main' = "end"
    /\ raised' \in BOOLEAN
    /\ UNCHANGED <<proc, future>>

\* the interpreter joins the threads of the executor before it exits
ThreadsEnded == \A f \in Futures : future[f] # "pending"
Exit ==
    /\ main = "end"
    /\ ThreadsEnded
    /\ main' = "exited"
    /\ UNCHANGED <<proc, future, raised>>

Main == \/ StartServer \/ Sleep \/ StartClient \/ FirstCompletion \/ Timeout
        \/ CloseClient \/ CloseServer \/ Wait \/ CopyDockerVolume \/ DockerRm \/ CloseSignals \/ ReadMetrics \/ Exit

-----------------------------------------------------------------------------
\* a child ends: the client's test is over, the server fails, or SIGTERM came
Ends(p) ==
    /\ proc[p] \in {"running", "terminated"}
    /\ proc' = [proc EXCEPT ![p] = "exited"]
    /\ UNCHANGED <<main, future, raised>>

\* task: the child has been waited for.  (The callback that should close the
\* output file takes no argument and raises: the file stays open.)
Task(p) ==
    /\ proc[p] = "exited"
    /\ future[p] = "pending"
    /\ future' = [future EXCEPT ![p] = "done"]
    /\ UNCHANGED <<main, proc, raised>>

Signal ==
    /\ future["signal"] = "pending"
    /\ future' = [future EXCEPT !["signal"] = "done"]
    /\ UNCHANGED <<main, proc, raised>>

Next == Main \/ Signal \/ \E p \in Processes : Ends(p) \/ Task(p)

\* no fairness: that the driver exits is not claimed.  After a docker rm that
\* failed the thread that waits for a signal is never told to end, and the
\* interpreter waits for it.
Spec == Init /\ [][Next]_vars

-----------------------------------------------------------------------------
(* Trial.run lets go of a trial only when both children have ended and their *)
(* status has been collected, whatever completed first: their containers can *)
(* be removed unless one was never started.                                  *)
Statements == {"copy", "close_signals", "read_metrics"}
RunLeavesNothing ==
    /\ main \in Statements => \A p \in Processes : proc[p] = "exited" /\ future[p] = "done"
    /\ main = "rm" => \/ \A p \in Processes : proc[p] = "exited" /\ future[p] = "done"
                      \/ raised /\ proc["client"] = "none"

(* "terminate gracefully, cleaning up processes and resources"               *)
(* (harness.py:28): the driver does not exit before its children.            *)
NoOrphans == main = "exited" => \A p \in Processes : proc[p] \in {"none", "exited"}

=============================================================================
