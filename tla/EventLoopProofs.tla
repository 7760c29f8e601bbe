--------------------------- MODULE EventLoopProofs ---------------------------
(***************************************************************************)
(* Proofs about EventLoop for every number of commands: when RunCommands   *)
(* returns it has joined all it started and reported all that failed, and  *)
(* what it does is what Supervisor allows.                                 *)
(***************************************************************************)
EXTENDS EventLoop, FiniteSetTheorems, TLAPS

Starting == {"starting", "forking"}

(* The loop index names a command while Cmd.Start runs and when it failed. *)
TInv == TypeOK /\ (main \in {"forking", "startFailed"} => next < NumCommands)

(* The commands below the loop index are those that started, and only they *)
(* have a watcher, and a waiter once RunCommands joins.                    *)
StartInv == \A i \in Commands :
    /\ proc[i] = "none" <=> i >= next
    /\ proc[i] = "none" <=> watcher[i] = "none"
    /\ waiter[i] = "none" <=> proc[i] = "none" \/ main \notin {"joining", "returned"}

(* A waiter follows the life of its process and of its watcher.            *)
WaiterInv == \A i \in Commands :
    /\ proc[i] = "reaped" <=> waiter[i] \in {"reaped", "sending", "ended"}
    /\ waiter[i] \in {"sending", "ended"} => watcher[i] = "ended"

ReturnInv == main = "returned" => \A i \in Commands : waiter[i] \in {"none", "ended"}

(* No error is dropped between the place it arises and the return.         *)
ErrsInv ==
    /\ \A i \in Commands : Err("start", i) \in errs => i = next /\ main \notin Starting
    /\ main \notin Starting /\ next < NumCommands => Err("start", next) \in errs
    /\ \A i \in Commands :
        /\ waiter[i] \in {"sending", "ended"} /\ status[i] = "failure" => result[i] = "failure"
        /\ waiter[i] = "ended" /\ ~DidExitGracefully(result[i]) => Err("command", i) \in errs

IInv == TInv /\ StartInv /\ WaiterInv /\ ReturnInv /\ ErrsInv

LEMMA TInvCorrect == Spec => []TInv
<1> USE NumCommandsAssumption DEF Commands
<1>1. Init => TInv
  <2> SUFFICES ASSUME Init PROVE TInv
    OBVIOUS
  <2>1. next \in 0 .. NumCommands
    BY DEF Init
  <2>2. errs \in SUBSET (StartError \cup CommandError \cup CloseError)
    BY DEF Init
  <2>3. status \in [Commands -> Statuses] /\ result \in [Commands -> Results]
    BY DEF Init, Statuses, Results
  <2>4. ctxDone \in BOOLEAN
    BY DEF Init
  <2>5. QED
    BY <2>1, <2>2, <2>3, <2>4 DEF Init, TInv, TypeOK
<1>2. TInv /\ [Next]_vars => TInv'
  <2> SUFFICES ASSUME TInv, [Next]_vars PROVE TInv'
    OBVIOUS
  <2> USE DEF TInv, TypeOK, Results, Statuses, Err, StartError, CommandError, CloseError
  <2>1. CASE Sigterm
    BY <2>1 DEF Sigterm
  <2>2. ASSUME NEW i \in Commands, Exit(i) PROVE TInv'
    BY <2>2 DEF Exit
  <2>3. CASE BeginStart
    BY <2>3 DEF BeginStart, FailStart
  <2>4. CASE Fork
    BY <2>4 DEF Fork, FailStart
  <2>5. CASE AllStarted \/ CancelAfterStartError
    BY <2>5 DEF AllStarted, CancelAfterStartError
  <2>6. CASE SpawnWaiters
    BY <2>6 DEF SpawnWaiters
  <2>7. ASSUME NEW i \in Commands, WatchCtx(i) PROVE TInv'
    BY <2>7 DEF WatchCtx
  <2>8. ASSUME NEW i \in Commands, Waiter(i) PROVE TInv'
    <3>1. CASE Reap(i)
      BY <3>1 DEF Reap
    <3>2. CASE WaitReturns(i)
      <4>1. /\ waiter' = [waiter EXCEPT ![i] = "sending"]
            /\ watcher' = [watcher EXCEPT ![i] = "ended"]
            /\ UNCHANGED <<main, next, ctxDone, proc, status, errs>>
        BY <3>2 DEF WaitReturns
      <4>2. PICK r \in Results : result' = [result EXCEPT ![i] = r]
        <5>1. status[i] \in Results
          OBVIOUS
        <5>2. QED
          BY <3>2, <5>1 DEF WaitReturns
      <4>3. result' \in [Commands -> Results]
        BY <4>2
      <4>4. QED
        BY <4>1, <4>3
    <3>3. QED
      BY <2>8, <3>1, <3>2 DEF Waiter
  <2>9. ASSUME NEW i \in Commands, HandleFinished(i) PROVE TInv'
    BY <2>9 DEF HandleFinished, JoinedErrors, FinishErrors
  <2>10. CASE UNCHANGED vars
    BY <2>10 DEF vars
  <2>11. QED
    BY <2>1, <2>2, <2>3, <2>4, <2>5, <2>6, <2>7, <2>8, <2>9, <2>10
       DEF Next, MainStep, Done
<1>3. QED
  BY <1>1, <1>2, PTL DEF Spec

(* Type correctness of the goroutines, processes and errors of RunCommands. *)
THEOREM TypeCorrect == Spec => []TypeOK
BY TInvCorrect, PTL DEF TInv

-----------------------------------------------------------------------------
(* The last command received is the last one that started: the two counters *)
(* of joinCommands agree.                                                   *)
LEMMA LastFinished ==
    ASSUME TInv, StartInv, NEW i \in Commands, HandleFinished(i), main' = "returned"
    PROVE  \A j \in Commands : waiter'[j] \in {"none", "ended"}
<1> DEFINE Ended == {j \in Commands : waiter[j] = "ended"}
<1>1. IsFiniteSet(Commands)
  BY NumCommandsAssumption, FS_Interval DEF Commands
<1>2. IsFiniteSet(Started) /\ IsFiniteSet(Ended)
  BY <1>1, FS_Subset DEF Started
<1>3. i \notin Ended /\ Ended \cup {i} \subseteq Started
  BY DEF HandleFinished, StartInv, Started
<1>4. Cardinality(Ended \cup {i}) = Cardinality(Started)
  <2>1. Cardinality(Ended) + 1 = Cardinality(Started)
    BY DEF HandleFinished, FinishedCount
  <2>2. QED
    BY <1>2, <1>3, <2>1, FS_AddElement
<1>5. Ended \cup {i} = Started
  BY <1>2, <1>3, <1>4, FS_Subset
<1>6. QED
  BY <1>5 DEF HandleFinished, Started, StartInv, TInv, TypeOK

(* The inductive invariant: who has started, been reaped, been received and *)
(* reported agrees in the caller, the waiters and the watchers.             *)
THEOREM IInvCorrect == Spec => []IInv
<1> USE NumCommandsAssumption DEF Commands
<1>1. Init => StartInv /\ WaiterInv /\ ReturnInv /\ ErrsInv
  BY DEF Init, StartInv, WaiterInv, ReturnInv, ErrsInv, Starting
<1>2. IInv /\ TInv' /\ [Next]_vars => IInv'
  <2> SUFFICES ASSUME IInv, TInv', [Next]_vars PROVE IInv'
    OBVIOUS
  <2> USE DEF IInv, StartInv, WaiterInv, ReturnInv, ErrsInv, TInv, TypeOK, Starting, Err
  <2>1. CASE Sigterm
    BY <2>1 DEF Sigterm
  <2>2. ASSUME NEW i \in Commands, Exit(i) PROVE IInv'
    BY <2>2 DEF Exit
  <2>3. CASE BeginStart
    BY <2>3 DEF BeginStart, FailStart
  <2>4. CASE Fork
    BY <2>4 DEF Fork, FailStart
  <2>5. CASE AllStarted \/ CancelAfterStartError
    BY <2>5 DEF AllStarted, CancelAfterStartError
  <2>6. CASE SpawnWaiters
    BY <2>6 DEF SpawnWaiters, Started
  <2>7. ASSUME NEW i \in Commands, WatchCtx(i) PROVE IInv'
    BY <2>7 DEF WatchCtx
  <2>8. ASSUME NEW i \in Commands, Waiter(i) PROVE IInv'
    BY <2>8 DEF Waiter, Reap, WaitReturns
  <2>9. ASSUME NEW i \in Commands, HandleFinished(i) PROVE IInv'
    <3>1. ReturnInv'
      BY <2>9, LastFinished
    <3>2. QED
      BY <2>9, <3>1 DEF HandleFinished, DidExitGracefully, JoinedErrors, FinishErrors
  <2>10. CASE UNCHANGED vars
    BY <2>10 DEF vars
  <2>11. QED
    BY <2>1, <2>2, <2>3, <2>4, <2>5, <2>6, <2>7, <2>8, <2>9, <2>10
       DEF Next, MainStep, Done
<1>3. QED
  BY <1>1, <1>2, TInvCorrect, PTL DEF Spec, IInv

(* RunCommands leaves no process and no goroutine behind, whatever fails.   *)
THEOREM JoinsAll == Spec => []AllJoined
<1>1. IInv => AllJoined
  BY DEF IInv, AllJoined, StartInv, WaiterInv, ReturnInv
<1>2. QED
  BY <1>1, IInvCorrect, PTL

(* What Cmd.Wait returns follows from how the process ended, from a SIGTERM *)
(* that came with the end of the context, and from the copying of its       *)
(* output; a command is reported after it was received, and for that alone. *)
ReportInv == \A i \in Commands :
    /\ watcher[i] = "signalled" => ctxDone
    /\ waiter[i] \in {"sending", "ended"} =>
         /\ status[i] # "zero" => result[i] = status[i]
         /\ status[i] = "zero" => result[i] # "failure"
         /\ status[i] = "zero" /\ result[i] = "ctxErr" => ctxDone
    /\ Err("command", i) \in errs => waiter[i] = "ended" /\ ~DidExitGracefully(result[i])

LEMMA ReportInvCorrect == Spec => []ReportInv
<1>1. Init => ReportInv
  BY DEF Init, ReportInv
<1>2. IInv /\ ReportInv /\ [Next]_vars => ReportInv'
  <2> SUFFICES ASSUME IInv, ReportInv, [Next]_vars PROVE ReportInv'
    OBVIOUS
  <2> USE DEF IInv, StartInv, WaiterInv, ReportInv, TInv, TypeOK, Err
  <2>1. CASE Sigterm
    BY <2>1 DEF Sigterm
  <2>2. ASSUME NEW i \in Commands, Exit(i) PROVE ReportInv'
    BY <2>2 DEF Exit
  <2>3. CASE BeginStart
    <3>1. \A i \in Commands : Err("command", i) \in errs' => Err("command", i) \in errs
      BY <2>3 DEF BeginStart, FailStart
    <3>2. UNCHANGED <<watcher, waiter, status, result>> /\ ctxDone' = ctxDone
      BY <2>3 DEF BeginStart, FailStart
    <3>3. QED
      BY <3>1, <3>2
  <2>4. CASE Fork
    <3>1. \A i \in Commands : Err("command", i) \in errs' => Err("command", i) \in errs
      BY <2>4 DEF Fork, FailStart
    <3>2. /\ UNCHANGED <<waiter, status, result>> /\ ctxDone' = ctxDone
          /\ \A i \in Commands : watcher'[i] = "signalled" => watcher[i] = "signalled"
      BY <2>4 DEF Fork, FailStart
    <3>3. QED
      BY <3>1, <3>2
  <2>5. CASE AllStarted \/ CancelAfterStartError
    BY <2>5 DEF AllStarted, CancelAfterStartError
  <2>6. CASE SpawnWaiters
    BY <2>6 DEF SpawnWaiters, Started
  <2>7. ASSUME NEW i \in Commands, WatchCtx(i) PROVE ReportInv'
    BY <2>7 DEF WatchCtx
  <2>8. ASSUME NEW i \in Commands, Waiter(i) PROVE ReportInv'
    <3>1. CASE Reap(i)
      BY <3>1 DEF Reap
    <3>2. CASE WaitReturns(i)
      <4>1. /\ waiter[i] = "reaped"
            /\ waiter' = [waiter EXCEPT ![i] = "sending"]
            /\ watcher' = [watcher EXCEPT ![i] = "ended"]
            /\ UNCHANGED <<main, next, ctxDone, proc, status, errs>>
        BY <3>2 DEF WaitReturns
      <4>2. PICK r : /\ result' = [result EXCEPT ![i] = r]
                     /\ status[i] # "zero" => r = status[i]
                     /\ status[i] = "zero" => r # "failure"
                     /\ r = "ctxErr" => status[i] # "zero" \/ watcher[i] = "signalled"
        BY <3>2 DEF WaitReturns
      <4>3. \A j \in Commands : Err("command", j) \in errs'
                                => waiter'[j] = "ended" /\ ~DidExitGracefully(result'[j])
        BY <4>1, <4>2
      <4>4. \A j \in Commands : watcher'[j] = "signalled" => ctxDone'
        BY <4>1
      <4>5. ASSUME NEW j \in Commands, waiter'[j] \in {"sending", "ended"}
            PROVE  /\ status'[j] # "zero" => result'[j] = status'[j]
                   /\ status'[j] = "zero" => result'[j] # "failure"
                   /\ status'[j] = "zero" /\ result'[j] = "ctxErr" => ctxDone'
        <5>1. CASE j = i
          BY <4>1, <4>2, <5>1
        <5>2. CASE j # i
          BY <4>1, <4>2, <4>5, <5>2
        <5>3. QED
          BY <5>1, <5>2
      <4>6. QED
        BY <4>3, <4>4, <4>5
    <3>3. QED
      BY <2>8, <3>1, <3>2 DEF Waiter
  <2>9. ASSUME NEW i \in Commands, HandleFinished(i) PROVE ReportInv'
    BY <2>9 DEF HandleFinished, DidExitGracefully, JoinedErrors, FinishErrors
  <2>10. CASE UNCHANGED vars
    BY <2>10 DEF vars
  <2>11. QED
    BY <2>1, <2>2, <2>3, <2>4, <2>5, <2>6, <2>7, <2>8, <2>9, <2>10
       DEF Next, MainStep, Done
<1>3. QED
  BY <1>1, <1>2, IInvCorrect, PTL DEF Spec

(* RunCommands reports every failure and no command it never tried; what it *)
(* reports without a failure exited 0 after SIGTERM or could not be copied. *)
THEOREM ReportsFailures == Spec => []FailuresReported
<1>1. IInv /\ ReportInv => FailuresReported
  <2> SUFFICES ASSUME IInv, ReportInv, main = "returned" PROVE FailuresReported
    BY DEF FailuresReported
  <2>1. /\ \A i \in Started : status[i] = "failure" => Err("command", i) \in errs
        /\ \A i \in Commands : Err("start", i) \in errs => i \notin Started
        /\ next < NumCommands => Err("start", next) \in errs
    BY NumCommandsAssumption
       DEF IInv, TInv, TypeOK, StartInv, ReturnInv, ErrsInv, Starting, Started, Commands,
           DidExitGracefully
  <2>2. ASSUME NEW i \in Commands, Err("command", i) \in errs
        PROVE  /\ i \in Started
               /\ \/ status[i] = "failure"
                  \/ status[i] = "zero" /\ result[i] = "copyErr"
                  \/ status[i] = "zero" /\ result[i] = "ctxErr" /\ ctxDone
    <3>1. waiter[i] = "ended" /\ ~DidExitGracefully(result[i])
      BY <2>2 DEF ReportInv
    <3>2. proc[i] # "none"
      BY <3>1 DEF IInv, StartInv
    <3>3. /\ status[i] # "zero" => result[i] = status[i]
          /\ status[i] = "zero" /\ result[i] = "ctxErr" => ctxDone
      BY <3>1 DEF ReportInv
    <3>4. status[i] \in Statuses /\ result[i] \in Results
      BY DEF IInv, TInv, TypeOK
    <3>5. result[i] \in {"failure", "ctxErr", "copyErr"}
      BY <3>1, <3>4 DEF DidExitGracefully, Statuses, Results
    <3>6. CASE status[i] = "zero"
      <4>1. result[i] # "failure"
        BY <2>2, <3>1, <3>6 DEF ReportInv
      <4>2. QED
        BY <3>2, <3>3, <3>5, <3>6, <4>1 DEF Started
    <3>7. CASE status[i] # "zero"
      BY <3>2, <3>3, <3>4, <3>5, <3>7 DEF Started, Statuses
    <3>8. QED
      BY <3>6, <3>7
  <2>3. QED
    BY <2>1, <2>2 DEF FailuresReported
<1>2. QED
  BY <1>1, IInvCorrect, ReportInvCorrect, PTL


-----------------------------------------------------------------------------
(* What ends the whole run leaves its reason behind: the received command   *)
(* is the first, or its error is among those joined.                        *)
LEMMA FinishHasReason ==
    ASSUME TInv, NEW i \in Commands, HandleFinished(i), ctxDone', ~ctxDone
    PROVE  errs' \cap CommandError # {} \/ waiter'[0] = "ended"
<1>1. EndsRun(i)
  BY DEF HandleFinished, TInv, TypeOK
<1>2. CASE i = 0
  BY <1>2 DEF HandleFinished, TInv, TypeOK
<1>3. CASE ~DidExitGracefully(result[i])
  <2>1. Err("command", i) \in errs'
    BY <1>3 DEF HandleFinished, JoinedErrors, FinishErrors
  <2>2. Err("command", i) \in CommandError
    BY DEF Err, CommandError
  <2>3. QED
    BY <2>1, <2>2
<1>4. QED
  BY <1>1, <1>2, <1>3 DEF EndsRun

(* RunCommands never cancels the context without a reason: the context gets *)
(* done by SIGTERM, which touches nothing else, with the error of a start   *)
(* or of a command among those joined, or with the end of the first command.*)
THEOREM CancelsForAReason == Spec => CancelledForAReason
<1> DEFINE HasReason ==
      ctxDone' /\ ~ctxDone =>
        \/ UNCHANGED <<main, proc, waiter, errs>>
        \/ errs' \cap (StartError \cup CommandError) # {}
        \/ waiter'[0] = "ended"
<1>1. IInv /\ [Next]_vars => HasReason
  <2> SUFFICES ASSUME IInv, [Next]_vars, ctxDone', ~ctxDone
               PROVE  \/ UNCHANGED <<main, proc, waiter, errs>>
                      \/ errs' \cap (StartError \cup CommandError) # {}
                      \/ waiter'[0] = "ended"
    OBVIOUS
  <2>1. CASE Sigterm
    BY <2>1 DEF Sigterm
  <2>2. CASE CancelAfterStartError
    <3>1. next \in Commands
      BY <2>2, NumCommandsAssumption
         DEF CancelAfterStartError, IInv, TInv, TypeOK, Commands
    <3>2. Err("start", next) \in errs'
      BY <2>2, NumCommandsAssumption
         DEF CancelAfterStartError, IInv, TInv, ErrsInv, Starting
    <3>3. Err("start", next) \in StartError
      BY <3>1 DEF Err, StartError
    <3>4. QED
      BY <3>2, <3>3
  <2>3. ASSUME NEW i \in Commands, HandleFinished(i)
        PROVE  errs' \cap CommandError # {} \/ waiter'[0] = "ended"
    BY <2>3, FinishHasReason DEF IInv
  <2>4. ctxDone' = ctxDone \/ Sigterm \/ CancelAfterStartError
          \/ \E i \in Commands : HandleFinished(i)
    BY DEF Next, MainStep, Waiter, Done, vars, BeginStart, FailStart, Fork, AllStarted,
           SpawnWaiters, Exit, WatchCtx, Reap, WaitReturns
  <2>5. QED
    BY <2>1, <2>2, <2>3, <2>4
<1>2. QED
  BY <1>1, IInvCorrect, PTL DEF Spec, CancelledForAReason

-----------------------------------------------------------------------------
(* The caller goes on to join only after the last start, or when the run is  *)
(* stopped.                                                                  *)
JoinInv == main = "started" => next = NumCommands \/ ctxDone

(* The commands that were received are all that started exactly when no      *)
(* command is live any more: LastFinished and its converse.                  *)
LEMMA LoopEndsWithLastLive ==
    ASSUME IInv, TInv', NEW i \in Commands, HandleFinished(i)
    PROVE  /\ i \in Live
           /\ Live' = Live \ {i}
           /\ main' = IF Live' = {} THEN "returned" ELSE "joining"
<1>1. i \in Live /\ Live' = Live \ {i}
  BY DEF HandleFinished, Live, Started, IInv, StartInv, TInv, TypeOK
<1>2. ASSUME main' = "returned" PROVE Live' = {}
  <2>1. \A j \in Commands : waiter'[j] \in {"none", "ended"}
    BY <1>2, LastFinished DEF IInv
  <2>2. \A j \in Started : waiter'[j] # "none"
    BY DEF HandleFinished, Started, IInv, StartInv, TInv, TypeOK
  <2>3. QED
    BY <2>1, <2>2 DEF HandleFinished, Live, Started
<1>3. ASSUME Live' = {} PROVE main' = "returned"
  <2> DEFINE Ended == {j \in Commands : waiter[j] = "ended"}
  <2>1. Started = Ended \cup {i} /\ i \notin Ended
    BY <1>1, <1>3 DEF HandleFinished, Live, Started, IInv, StartInv
  <2>2. IsFiniteSet(Ended)
    <3>1. IsFiniteSet(Commands)
      BY NumCommandsAssumption, FS_Interval DEF Commands
    <3>2. QED
      BY <3>1, FS_Subset
  <2>3. Cardinality(Started) = Cardinality(Ended) + 1
    BY <2>1, <2>2, FS_AddElement
  <2>4. QED
    BY <2>3 DEF HandleFinished, FinishedCount
<1>4. main' \in {"returned", "joining"}
  BY DEF HandleFinished
<1>5. QED
  BY <1>1, <1>2, <1>3, <1>4

(* The goroutines of RunCommands and os/exec implement the supervisor: what  *)
(* they do is to start, stop, join and collect commands in the order in      *)
(* which Supervisor allows it, for every number of commands.                 *)
THEOREM EventLoopImplementsSupervisor == Spec => Abstract!Safety
<1> USE NumCommandsAssumption
<1>1. Init => JoinInv /\ Abstract!Init
  BY DEF Init, JoinInv, Abstract!Init, Commands, Started, Live, Err
<1>2. IInv /\ JoinInv /\ [Next]_vars => JoinInv'
  <2> SUFFICES ASSUME IInv, JoinInv, [Next]_vars PROVE JoinInv'
    OBVIOUS
  <2>1. CASE UNCHANGED vars
    BY <2>1 DEF vars, JoinInv
  <2>2. CASE Next
    BY <2>2 DEF JoinInv, Next, MainStep, Waiter, Done, vars, Sigterm, BeginStart, FailStart,
         Fork, AllStarted, CancelAfterStartError, SpawnWaiters, HandleFinished, Exit,
         WatchCtx, Reap, WaitReturns
  <2>3. QED
    BY <2>1, <2>2
<1>3. IInv /\ IInv' /\ JoinInv /\ [Next]_vars => [Abstract!Next]_(Abstract!vars)
  <2> SUFFICES ASSUME IInv, IInv', JoinInv, [Next]_vars
               PROVE  Abstract!Next \/ UNCHANGED Abstract!vars
    OBVIOUS
  <2> USE DEF IInv, TInv, TypeOK
  <2>1. CASE Sigterm
    <3>1. Abstract!Stop
      BY <2>1 DEF Sigterm, Abstract!Stop, Started, Live
    <3>2. QED
      BY <3>1 DEF Abstract!Next
  <2>2. CASE BeginStart
    <3>1. UNCHANGED <<Started, Live>>
      BY <2>2 DEF BeginStart, FailStart, Started, Live
    <3>2. QED
      BY <2>2, <3>1 DEF BeginStart, FailStart, Abstract!vars, Err, Live
  <2>3. CASE Fork
    <3>1. CASE FailStart
      <4>1. Abstract!FailStart \/ UNCHANGED Abstract!vars
        BY <2>3, <3>1 DEF Fork, FailStart, Abstract!FailStart, Abstract!vars, Err,
            Started, Live
      <4>2. QED
        BY <4>1 DEF Abstract!Next
    <3>2. CASE ~FailStart
      <4>1. /\ main = "forking" /\ main' = "starting"
            /\ proc' = [proc EXCEPT ![next] = "running"]
            /\ next' = next + 1
            /\ UNCHANGED <<ctxDone, errs, waiter>>
        BY <2>3, <3>2 DEF Fork
      <4>2. next \in Commands /\ next < NumCommands
        BY <4>1 DEF Commands
      <4>3. waiter[next] # "ended"
        BY <4>1, <4>2 DEF StartInv
      <4>4. Live' = Live \cup {next}
        BY <4>1, <4>2, <4>3 DEF Live, Started, Live
      <4>5. Abstract!Start
        BY <4>1, <4>2, <4>4 DEF Abstract!Start, Live
      <4>6. QED
        BY <4>5 DEF Abstract!Next
    <3>3. QED
      BY <3>1, <3>2
  <2>4. CASE AllStarted
    BY <2>4 DEF AllStarted, Abstract!vars, Started, Live
  <2>5. CASE CancelAfterStartError
    <3>1. Abstract!Stop \/ UNCHANGED Abstract!vars
      BY <2>5 DEF CancelAfterStartError, Abstract!Stop, Abstract!vars, Started, Live
    <3>2. QED
      BY <3>1 DEF Abstract!Next
  <2>6. CASE SpawnWaiters
    <3>1. UNCHANGED Started /\ Live = Started /\ Live' = Started
      BY <2>6 DEF SpawnWaiters, Live, Started, StartInv
    <3>2. Abstract!Join
      BY <2>6, <3>1 DEF SpawnWaiters, JoinInv, Abstract!Join, Live
    <3>3. QED
      BY <3>2 DEF Abstract!Next
  <2>7. ASSUME NEW i \in Commands, HandleFinished(i) PROVE Abstract!Next
    <3> DEFINE failed == ~DidExitGracefully(result[i])
    <3> DEFINE Reported == {j \in Commands : Err("command", j) \in errs}
    <3>1. /\ i \in Live
          /\ Live' = Live \ {i}
          /\ main' = IF Live' = {} THEN "returned" ELSE "joining"
      BY <2>7, LoopEndsWithLastLive
    <3>2. Reported' = IF failed THEN Reported \cup {i} ELSE Reported
      BY <2>7 DEF HandleFinished, JoinedErrors, FinishErrors, Err
    <3>3. /\ main = "joining"
          /\ ctxDone' = (ctxDone \/ failed \/ i = 0)
          /\ UNCHANGED next
      BY <2>7 DEF HandleFinished, EndsRun
    <3>4. failed \in BOOLEAN
      BY DEF DidExitGracefully
    <3> HIDE DEF failed
    <3>5. Abstract!Collect(i)
      BY <3>1, <3>2, <3>3, <3>4 DEF Abstract!Collect, Live
    <3>6. QED
      BY <3>1, <3>5 DEF Abstract!Next, Live
  <2>8. ASSUME NEW i \in Commands, Exit(i) \/ WatchCtx(i) \/ Waiter(i)
        PROVE  UNCHANGED Abstract!vars
    <3>1. UNCHANGED <<main, next, ctxDone, errs>>
      BY <2>8 DEF Exit, WatchCtx, Waiter, Reap, WaitReturns
    <3>2. UNCHANGED Live
      BY <2>8 DEF Exit, WatchCtx, Waiter, Reap, WaitReturns, Live, Started, Live
    <3>3. QED
      BY <3>1, <3>2 DEF Abstract!vars, Live
  <2>9. CASE UNCHANGED vars
    BY <2>9 DEF vars, Abstract!vars, Started, Live
  <2>10. QED
    BY <2>1, <2>2, <2>3, <2>4, <2>5, <2>6, <2>7, <2>8, <2>9 DEF Next, MainStep, Done
<1>4. QED
  BY <1>1, <1>2, <1>3, IInvCorrect, PTL DEF Spec, Abstract!Safety

=============================================================================
