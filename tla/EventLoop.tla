------------------------------ MODULE EventLoop ------------------------------
(***************************************************************************)
(* RunCommands of harness/golang/internal/eventloop/command.go: starts the  *)
(* commands one after the other, then joins all that started, and cancels   *)
(* the context (so that every command is sent SIGTERM) when one of them     *)
(* cannot be started, ends ungracefully, or is the first.                   *)
(*                                                                         *)
(* The goroutines are the caller of RunCommands, one waiter per started     *)
(* command, and the goroutine exec.Cmd runs per started command to watch    *)
(* the context.  The processes and the SIGTERM of container1 are the        *)
(* environment.  What os/exec does is modelled from its documented contract *)
(* as the code uses it: Start refuses a context that is done; Wait returns  *)
(* the context's error for a process that exits 0 after Cancel succeeded.   *)
(* Definitions named Mut... are wrong on purpose, to test the properties.   *)
(***************************************************************************)
EXTENDS Naturals, FiniteSets

CONSTANT NumCommands   \* len(commandArgs)

ASSUME NumCommandsAssumption == NumCommands \in Nat

Commands == 0 .. NumCommands - 1

VARIABLES main,      \* where RunCommands is
          next,      \* the loop index of startCommands
          ctxDone,   \* the context passed to every command is done
          proc,      \* life of each process: Process is nil while "none"
          status,    \* how an exited process ended
          watcher,   \* exec.Cmd's goroutine watching the context
          waiter,    \* the goroutine that joins the command
          result,    \* what Cmd.Wait returned
          errs       \* the errors joined so far

vars == <<main, next, ctxDone, proc, status, watcher, waiter, result, errs>>

\* "zero": exit code 0; "exit143" and "sigterm": the two forms of a SIGTERM end
Statuses == {"zero", "exit143", "sigterm", "failure"}
Results == Statuses \cup {"ctxErr", "copyErr"}

StartError == [kind : {"start"}, idx : Commands]
CommandError == [kind : {"command"}, idx : Commands]
CloseError == [kind : {"close"}, idx : Commands]
Err(k, i) == [kind |-> k, idx |-> i]

TypeOK == /\ main \in {"starting", "forking", "startFailed", "started", "joining", "returned"}
          /\ next \in 0 .. NumCommands
          /\ ctxDone \in BOOLEAN
          /\ proc \in [Commands -> {"none", "running", "exited", "reaped"}]
          /\ status \in [Commands -> Statuses]
          /\ watcher \in [Commands -> {"none", "watching", "signalled", "late", "ended"}]
          /\ waiter \in [Commands -> {"none", "waiting", "reaped", "sending", "ended"}]
          /\ result \in [Commands -> Results]
          /\ errs \in SUBSET (StartError \cup CommandError \cup CloseError)

Init == /\ main = "starting"
        /\ next = 0
        /\ ctxDone = FALSE
        /\ proc = [i \in Commands |-> "none"]
        /\ status = [i \in Commands |-> "zero"]
        /\ watcher = [i \in Commands |-> "none"]
        /\ waiter = [i \in Commands |-> "none"]
        /\ result = [i \in Commands |-> "zero"]
        /\ errs = {}

Started == {i \in Commands : proc[i] # "none"}

-----------------------------------------------------------------------------
(* Environment *)

\* SIGTERM to container1 (signal.NotifyContext), or the timeout of a test
Sigterm == /\ ~ctxDone
           /\ ctxDone' = TRUE
           /\ UNCHANGED <<main, next, proc, status, watcher, waiter, result, errs>>

\* a process ends, on its own or because of a signal
Exit(i) == /\ proc[i] = "running"
           /\ proc' = [proc EXCEPT ![i] = "exited"]
           /\ \E s \in Statuses : status' = [status EXCEPT ![i] = s]
           /\ UNCHANGED <<main, next, ctxDone, watcher, waiter, result, errs>>

-----------------------------------------------------------------------------
(* startCommands *)

MutFailStart == /\ errs' = errs \cup {Err("start", next)}
                /\ next' = next + 1
                /\ main' = "starting"
                /\ UNCHANGED <<ctxDone, proc, watcher>>
FailStart == /\ errs' = errs \cup {Err("start", next)}
             /\ main' = "startFailed"
             /\ UNCHANGED <<next, ctxDone, proc, watcher>>

\* createCommand, and the test of the context at the head of Cmd.Start
BeginStart ==
    /\ main = "starting"
    /\ next < NumCommands
    /\ \/ ctxDone /\ FailStart
       \/ ~ctxDone /\ main' = "forking" /\ UNCHANGED <<next, ctxDone, proc, watcher, errs>>
    /\ UNCHANGED <<status, waiter, result>>

\* the rest of Cmd.Start: the fork may fail; on success the context is watched
Fork ==
    /\ main = "forking"
    /\ \/ FailStart
       \/ /\ proc' = [proc EXCEPT ![next] = "running"]
          /\ watcher' = [watcher EXCEPT ![next] = "watching"]
          /\ next' = next + 1
          /\ main' = "starting"
          /\ UNCHANGED <<ctxDone, errs>>
    /\ UNCHANGED <<status, waiter, result>>

AllStarted == /\ main = "starting"
              /\ next = NumCommands
              /\ main' = "started"
              /\ UNCHANGED <<next, ctxDone, proc, status, watcher, waiter, result, errs>>

\* RunCommands cancels after an error of startCommands
CancelAfterStartError ==
    /\ main = "startFailed"
    /\ ctxDone' = TRUE
    /\ main' = "started"
    /\ UNCHANGED <<next, proc, status, watcher, waiter, result, errs>>

-----------------------------------------------------------------------------
(* os/exec *)

\* watchCtx: the context is done, so Cmd.Cancel sends SIGTERM, which succeeds
\* until the process has been reaped
WatchCtx(i) ==
    /\ watcher[i] = "watching"
    /\ ctxDone
    /\ watcher' = [watcher EXCEPT ![i] = IF proc[i] = "reaped" THEN "late" ELSE "signalled"]
    /\ UNCHANGED <<main, next, ctxDone, proc, status, waiter, result, errs>>

\* Cmd.Wait, first part: Process.Wait
Reap(i) == /\ waiter[i] = "waiting"
           /\ proc[i] = "exited"
           /\ proc' = [proc EXCEPT ![i] = "reaped"]
           /\ waiter' = [waiter EXCEPT ![i] = "reaped"]
           /\ UNCHANGED <<main, next, ctxDone, status, watcher, result, errs>>

\* Cmd.Wait, second part: take the watcher's answer, join the copying of the
\* output, whose error counts only if there is no other
WaitReturns(i) ==
    /\ waiter[i] = "reaped"
    /\ waiter' = [waiter EXCEPT ![i] = "sending"]
    /\ watcher' = [watcher EXCEPT ![i] = "ended"]
    /\ \E copyErr \in BOOLEAN :
         result' = [result EXCEPT ![i] =
             IF status[i] # "zero" THEN status[i]
             ELSE IF watcher[i] = "signalled" THEN "ctxErr"
             ELSE IF copyErr THEN "copyErr" ELSE "zero"]
    /\ UNCHANGED <<main, next, ctxDone, proc, status, errs>>

-----------------------------------------------------------------------------
(* joinCommands *)

\* one goroutine per started command; nothing to join if there is none
SpawnWaiters ==
    /\ main = "started"
    /\ waiter' = [i \in Commands |-> IF i \in Started THEN "waiting" ELSE "none"]
    /\ main' = IF Started = {} THEN "returned" ELSE "joining"
    /\ UNCHANGED <<next, ctxDone, proc, status, watcher, result, errs>>

DidExitGracefully(r) == r \in {"zero", "exit143", "sigterm"}

MutCountSending == Cardinality({i \in Commands : waiter[i] \in {"sending", "ended"}}) - 1
FinishedCount == Cardinality({i \in Commands : waiter[i] = "ended"})

\* which finished commands end the whole run
MutCancelAlways(i) == TRUE
MutCancelOnFailure(i) == ~DidExitGracefully(result[i])
EndsRun(i) == i = 0 \/ ~DidExitGracefully(result[i])

\* what the end of the command i adds to the error returned
FinishErrors(i, closeErr) ==
    (IF closeErr THEN {Err("close", i)} ELSE {})
      \cup (IF DidExitGracefully(result[i]) THEN {} ELSE {Err("command", i)})

\* errors.Join keeps what it had
MutLastErrors(i, closeErr) ==
    IF FinishErrors(i, closeErr) = {} THEN errs ELSE FinishErrors(i, closeErr)
JoinedErrors(i, closeErr) == errs \cup FinishErrors(i, closeErr)

\* the body of the receive loop for the command i that was received
HandleFinished(i) ==
    /\ main = "joining"
    /\ waiter[i] = "sending"
    /\ waiter' = [waiter EXCEPT ![i] = "ended"]
    /\ \E closeErr \in BOOLEAN : errs' = JoinedErrors(i, closeErr)
    /\ ctxDone' = (ctxDone \/ EndsRun(i))
    /\ main' = IF FinishedCount + 1 = Cardinality(Started) THEN "returned" ELSE "joining"
    /\ UNCHANGED <<next, proc, status, watcher, result>>

-----------------------------------------------------------------------------
MainStep == \/ BeginStart \/ Fork \/ AllStarted \/ CancelAfterStartError \/ SpawnWaiters
            \/ \E i \in Commands : HandleFinished(i)
Waiter(i) == Reap(i) \/ WaitReturns(i)

Done == main = "returned" /\ UNCHANGED vars

Next == \/ Sigterm
        \/ MainStep
        \/ Done
        \/ \E i \in Commands : Exit(i) \/ WatchCtx(i) \/ Waiter(i)

\* the Go scheduler runs every goroutine that can run; a process that was sent
\* SIGTERM ends at last (the code has no WaitDelay and never sends SIGKILL)
Fairness == /\ WF_vars(MainStep)
            /\ \A i \in Commands : /\ WF_vars(WatchCtx(i))
                                   /\ WF_vars(Waiter(i))
                                   /\ WF_vars(watcher[i] = "signalled" /\ Exit(i))

Spec == Init /\ [][Next]_vars /\ Fairness

-----------------------------------------------------------------------------
(* When RunCommands returns, every process it started has been waited for    *)
(* and none of its goroutines is left behind ("all processes will be         *)
(* joined", cmd/container1/main.go:57-58).                                   *)
AllJoined == main = "returned" =>
    \A i \in Commands : IF proc[i] = "none"
                        THEN watcher[i] = "none" /\ waiter[i] = "none"
                        ELSE proc[i] = "reaped" /\ watcher[i] = "ended" /\ waiter[i] = "ended"

(* RunCommands reports every command that failed or could not be started,    *)
(* whatever order they ended in.  It does not report one that ended with 143 *)
(* or by SIGTERM; of those that exit 0 it reports one whose output could not *)
(* be copied and, against the comment of didExitGracefully (command.go:144), *)
(* one that was sent SIGTERM before it was reaped.                           *)
FailuresReported == main = "returned" =>
    /\ \A i \in Started : status[i] = "failure" => Err("command", i) \in errs
    /\ \A i \in Commands : Err("command", i) \in errs =>
         /\ i \in Started
         /\ \/ status[i] = "failure"
            \/ status[i] = "zero" /\ result[i] = "copyErr"
            \/ status[i] = "zero" /\ result[i] = "ctxErr" /\ ctxDone
    /\ \A i \in Commands : Err("start", i) \in errs => i \notin Started
    /\ next < NumCommands => Err("start", next) \in errs

(* A graceful end of a command other than the first disturbs nobody: the     *)
(* context is done only if SIGTERM arrived, a command could not be started,  *)
(* the first command ended, or a command ended ungracefully.                 *)
CancelledForAReason == [][
    ctxDone' /\ ~ctxDone =>
        \/ UNCHANGED <<main, proc, waiter, errs>>
        \/ errs' \cap (StartError \cup CommandError) # {}
        \/ waiter'[0] = "ended" ]_vars

(* The end of the first command, and a failure of any command, end the run:  *)
(* the other commands do not outlive it.                                     *)
EndOfOneEndsRun == \A i \in Commands :
    proc[i] = "exited" /\ (i = 0 \/ status[i] = "failure") ~> main = "returned"

\* the commands that RunCommands has started and not yet received
Live == {i \in Started : waiter[i] # "ended"}

(* RunCommands starts, stops and collects its commands as Supervisor says; in *)
(* particular, once the context is done every process ends and RunCommands   *)
(* returns, even if it was still starting commands ("all started commands    *)
(* will be SIGTERMed and all processes will be joined", main.go:57-58).      *)
Abstract == INSTANCE Supervisor WITH
    phase <- CASE main = "returned" -> "back"
               [] main = "joining" -> "joining"
               [] OTHER -> "starting",
    started <- next,
    live <- Live,
    stopped <- ctxDone,
    spare <- ctxDone /\ main = "forking",
    reported <- {i \in Commands : Err("command", i) \in errs}
ImplementsSupervisor == Abstract!Spec

=============================================================================
