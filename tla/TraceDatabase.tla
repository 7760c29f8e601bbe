----------------------------- MODULE TraceDatabase -----------------------------
(***************************************************************************)
(* The database file between the two programs that use it: the export that   *)
(* writes it, once, and the notebook sessions that read it and add tables.   *)
(***************************************************************************)
EXTENDS AnalysisSession

\* every record type but ptwrite, whose rows go to the wrong list
SoundHandlers == AllTables \ {"ptwrite"}

vars == <<exportVars, sessionVars>>

TypeOK == ExportTypeOK /\ SessionTypeOK

Init == ExportInit /\ SessionInit

Exporting == ExportNext /\ UNCHANGED sessionVars
Analysing == SessionNext

Next == Exporting \/ Analysing

\* the script runs on by itself, and the trace that perf reads is finite
Spec == /\ Init
        /\ [][Next]_vars
        /\ WF_vars(ScriptSteps /\ UNCHANGED sessionVars)
        /\ WF_vars(TraceEnd /\ UNCHANGED sessionVars)

=============================================================================
