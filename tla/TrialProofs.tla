------------------------------ MODULE TrialProofs ------------------------------
(***************************************************************************)
(* Proofs about TrialDriver: that a trial is let go of only when both        *)
(* children have ended, and that the driver outlives its children.           *)
(***************************************************************************)
EXTENDS TrialDriver, TLAPS

\* which children have been started by the time the main thread is where it is
StartedInv ==
    /\ main = "start_server" => \A p \in Processes : proc[p] = "none"
    /\ main \in {"sleep", "start_client"} => proc["client"] = "none" /\ proc["server"] # "none"
    /\ main \in {"as_completed", "close_client", "close_server", "wait"}
         => \A p \in Processes : proc[p] # "none"

\* a future is completed by the thread that has waited for its child
FutureInv == \A p \in Processes : future[p] = "done" => proc[p] = "exited"

ExitInv == main = "exited" => \A f \in Futures : future[f] # "pending"

TrialInv == TypeOK /\ StartedInv /\ FutureInv /\ RunLeavesNothing /\ ExitInv

LEMMA InitTrialInv == Init => TrialInv
BY DEF Init, TrialInv, TypeOK, StartedInv, FutureInv, RunLeavesNothing, ExitInv, Processes,
       Futures, Statements

LEMMA NextTrialInv == TrialInv /\ [Next]_vars => TrialInv'
<1> SUFFICES ASSUME TrialInv, [Next]_vars PROVE TrialInv'
    OBVIOUS
<1> USE DEF TrialInv, TypeOK, StartedInv, FutureInv, RunLeavesNothing, ExitInv, Processes, Futures,
            Statements
<1>1. CASE StartServer
    <2>1. CASE main' = "rm"
        <3>1. raised' /\ UNCHANGED <<proc, future>>
            BY <1>1, <2>1 DEF StartServer, Start
        <3>. QED
            BY <1>1, <2>1, <3>1 DEF StartServer
    <2>2. CASE main' # "rm"
        <3>1. /\ main' = "sleep"
              /\ proc' = [proc EXCEPT !["server"] = "running"]
              /\ future' = [future EXCEPT !["server"] = "pending"]
              /\ UNCHANGED raised
            BY <1>1, <2>2 DEF StartServer, Start
        <3>2. TypeOK'
            BY <3>1
        <3>3. StartedInv' /\ RunLeavesNothing'
            BY <1>1, <3>1 DEF StartServer
        <3>4. FutureInv' /\ ExitInv'
            BY <1>1, <3>1 DEF StartServer
        <3>. QED
            BY <3>2, <3>3, <3>4
    <2>. QED
        BY <2>1, <2>2
<1>2. CASE Sleep
    BY <1>2 DEF Sleep
<1>3. CASE StartClient
    <2>1. CASE main' = "rm"
        <3>1. raised' /\ UNCHANGED <<proc, future>>
            BY <1>3, <2>1 DEF StartClient, Start
        <3>. QED
            BY <1>3, <2>1, <3>1 DEF StartClient
    <2>2. CASE main' # "rm"
        <3>1. /\ main' = "as_completed"
              /\ proc' = [proc EXCEPT !["client"] = "running"]
              /\ future' = [future EXCEPT !["client"] = "pending"]
              /\ UNCHANGED raised
            BY <1>3, <2>2 DEF StartClient, Start
        <3>2. TypeOK'
            BY <3>1
        <3>3. StartedInv' /\ RunLeavesNothing'
            BY <1>3, <3>1 DEF StartClient
        <3>4. FutureInv' /\ ExitInv'
            BY <1>3, <3>1 DEF StartClient
        <3>. QED
            BY <3>2, <3>3, <3>4
    <2>. QED
        BY <2>1, <2>2
<1>4. CASE FirstCompletion
    BY <1>4 DEF FirstCompletion
<1>5. CASE Timeout
    BY <1>5 DEF Timeout
<1>6. CASE CloseClient
    BY <1>6 DEF CloseClient, Terminate
<1>7. CASE CloseServer
    BY <1>7 DEF CloseServer, Terminate
<1>8. CASE Wait
    BY <1>8 DEF Wait, AllCompleted
<1>9. CASE CopyDockerVolume
    BY <1>9 DEF CopyDockerVolume
<1>10. CASE DockerRm
    BY <1>10 DEF DockerRm
<1>11. CASE CloseSignals
    BY <1>11 DEF CloseSignals
<1>12. CASE ReadMetrics
    BY <1>12 DEF ReadMetrics
<1>13. CASE Exit
    BY <1>13 DEF Exit, ThreadsEnded
<1>14. CASE Signal
    BY <1>14 DEF Signal
<1>15. ASSUME NEW p \in Processes, Ends(p) PROVE TrialInv'
    BY <1>15 DEF Ends
<1>16. ASSUME NEW p \in Processes, Task(p) PROVE TrialInv'
    BY <1>16 DEF Task
<1>17. CASE UNCHANGED vars
    BY <1>17 DEF vars
<1> QED
    BY <1>1, <1>2, <1>3, <1>4, <1>5, <1>6, <1>7, <1>8, <1>9, <1>10, <1>11, <1>12, <1>13, <1>14,
       <1>15, <1>16, <1>17 DEF Next, Main

LEMMA TrialInvAlways == Spec => []TrialInv
BY InitTrialInv, NextTrialInv, PTL DEF Spec

\* types of the state of main, Trial.run and BgProcess
THEOREM TypeCorrect == Spec => []TypeOK
<1>1. TrialInv => TypeOK
    BY DEF TrialInv
<1> QED
    BY <1>1, TrialInvAlways, PTL

\* Trial.run lets go of a trial only when both children have ended
THEOREM RunLeavesNothingCorrect == Spec => []RunLeavesNothing
<1>1. TrialInv => RunLeavesNothing
    BY DEF TrialInv
<1> QED
    BY <1>1, TrialInvAlways, PTL

\* the driver exits after its children, also when an exception is on its way:
\* the executor's threads wait for them
THEOREM NoOrphansCorrect == Spec => []NoOrphans
<1>1. TrialInv => NoOrphans
    BY DEF TrialInv, TypeOK, FutureInv, ExitInv, NoOrphans, Processes, Futures
<1> QED
    BY <1>1, TrialInvAlways, PTL

=============================================================================
