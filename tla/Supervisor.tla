------------------------------ MODULE Supervisor ------------------------------
(***************************************************************************)
(* What RunCommands of harness/golang/internal/eventloop/command.go         *)
(* promises, without its goroutines and without os/exec: commands are       *)
(* started in order, until the run is stopped; it is stopped from outside,  *)
(* for a command that cannot be started, and by the end of the first        *)
(* command or of any that failed; each command that started is collected    *)
(* once, its failure is reported, and with the last one the run is over.    *)
(* EventLoop is shown to implement this module.                             *)
(***************************************************************************)
EXTENDS Naturals

CONSTANT NumCommands   \* len(commandArgs)

VARIABLES phase,     \* RunCommands starts commands, joins them, or is back
          started,   \* how many commands were started
          live,      \* those that were not collected yet
          stopped,   \* the context is done
          spare,     \* the run was stopped in the middle of a start
          reported   \* the commands whose failure will be returned

vars == <<phase, started, live, stopped, spare, reported>>

Init == /\ phase = "starting"
        /\ started = 0
        /\ live = {}
        /\ stopped = FALSE
        /\ spare = FALSE
        /\ reported = {}

\* once the run is stopped no command is started, but for one that was under way
Start == /\ phase = "starting"
         /\ started < NumCommands
         /\ stopped => spare
         /\ started' = started + 1
         /\ live' = live \cup {started}
         /\ spare' = FALSE
         /\ UNCHANGED <<phase, stopped, reported>>

FailStart == /\ spare
             /\ spare' = FALSE
             /\ UNCHANGED <<phase, started, live, stopped, reported>>

Stop == /\ ~stopped
        /\ stopped' = TRUE
        /\ spare' \in {FALSE, phase = "starting" /\ started < NumCommands}
        /\ UNCHANGED <<phase, started, live, reported>>

Join == /\ phase = "starting"
        /\ ~spare
        /\ started = NumCommands \/ stopped
        /\ phase' = IF live = {} THEN "back" ELSE "joining"
        /\ UNCHANGED <<started, live, stopped, spare, reported>>

Collect(i) == /\ phase = "joining"
              /\ i \in live
              /\ live' = live \ {i}
              /\ \E failed \in BOOLEAN :
                   /\ reported' = IF failed THEN reported \cup {i} ELSE reported
                   /\ stopped' = (stopped \/ failed \/ i = 0)
              /\ phase' = IF live' = {} THEN "back" ELSE "joining"
              /\ UNCHANGED <<started, spare>>

Next == Start \/ FailStart \/ Stop \/ Join \/ \E i \in live : Collect(i)

\* what a run may do, and that a run does not stop half-way once it is stopped
Safety == Init /\ [][Next]_vars

Spec == /\ Safety
        /\ WF_vars(Start \/ FailStart \/ Join)
        /\ WF_vars(stopped /\ \E i \in live : Collect(i))

=============================================================================
