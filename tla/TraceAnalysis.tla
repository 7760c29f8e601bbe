----------------------------- MODULE TraceAnalysis -----------------------------
(***************************************************************************)
(* What SqlUtil computes from a trace: the samples become ranges, windows   *)
(* and a distribution of durations (IpcTimeline), the calls become system   *)
(* calls and stretches on the CPU (SyscallTimeline).  Neither reads the      *)
(* tables of the other, so the two are checked side by side: a trace here   *)
(* carries samples or calls, not both.                                      *)
(***************************************************************************)
EXTENDS IpcTimeline, SyscallTimeline

vars == <<ranges, sysVars>>

TypeOK == TimelineTypeOK /\ SyscallTypeOK

Init == TimelineInit /\ SyscallInit

Samples == now = 0 /\ RecordSample /\ UNCHANGED sysVars
Calls == ranges = <<>> /\ SyscallNext /\ UNCHANGED ranges

Next == Samples \/ Calls

Spec == Init /\ [][Next]_vars

=============================================================================
