---------------------------- MODULE AnalysisSession ----------------------------
(***************************************************************************)
(* The notebook session of intel_proc_trace/pt.ipy over SqlUtil of          *)
(* iptdataframes/util.py: cells that the user runs in any order, any number  *)
(* of times, over tables that outlive the connection and even the kernel,    *)
(* while the parameters and the attributes of a SqlUtil object do not.       *)
(* A cell that raises leaves what it did before; one that raises before it   *)
(* does anything is no step here.                                           *)
(* Definitions named Mut... are wrong on purpose, to test the properties.   *)
(***************************************************************************)
EXTENDS TraceExport

CONSTANTS WindowSizes,      \* the values the user tries for window_size_cyc
          MaxConnections,   \* bound on the connections opened
          AnalysedRecords   \* bound on the records of a trace that is analysed

ASSUME SessionAssumption == MaxConnections \in Nat /\ AnalysedRecords \in Nat

VARIABLES conn,     \* the SqlUtil object
          number,   \* connections opened so far
          bounds,   \* time_bounds: not there, with NULLs (a short trace), or good
          spans,    \* who computed ipc_spans last, and for which window
          onCpu,    \* who computed on_cpu_syscalls last
          plot      \* the time series figure on the screen

sessionVars == <<conn, number, bounds, spans, onCpu, plot>>

NoConn == [number |-> 0, window |-> 0, attrs |-> FALSE, have_errors_table |-> FALSE]
NoPlot == [title |-> 0, window |-> 0, complete |-> FALSE, number |-> 0, spans |-> 0, onCpu |-> 0]
Nobody == [number |-> 0, window |-> 0]

SessionTypeOK ==
    /\ number \in 0 .. MaxConnections
    /\ conn.number \in 0 .. number
    /\ bounds \in {"none", "null", "good"}
    /\ spans.number \in 0 .. number
    /\ onCpu \in 0 .. number

SessionInit ==
    /\ conn = NoConn
    /\ number = 0
    /\ bounds = "none"
    /\ spans = Nobody
    /\ onCpu = 0
    /\ plot = NoPlot

-----------------------------------------------------------------------------
\* the cell "definitions": close the old connection, open the file, configure.
\* The file must not be open in the export.  A file that does not exist is
\* created, empty, so that an export to it will refuse.
Definitions ==
    /\ number < MaxConnections
    /\ NumRecords <= AnalysedRecords
    /\ \/ phase \in {"done", "failed", "killed", "refused", "analysed"} /\ phase' = "analysed"
       \/ phase = "start" /\ phase' = "refused"
    /\ number' = number + 1
    /\ \E window \in WindowSizes :
         conn' = [NoConn EXCEPT !.number = number + 1, !.window = window]
    /\ UNCHANGED <<opts, db, views, lists, step, doomed, delivered, bounds, spans, onCpu, plot>>

\* needs samples_view, and samples: int() of a NULL time raises, and so does, at
\* the end, int() of a NULL bound
Setup ==
    /\ conn # NoConn
    /\ "samples_view" \in views
    /\ db["samples"] \ {Unknown} # {}
    /\ bounds' \in (IF bounds = "none" THEN {"null", "good"} ELSE {bounds})
    /\ UNCHANGED <<exportVars, conn, number, spans, onCpu, plot>>

\* needs the tables of an earlier setup, not necessarily of this connection
TimeSeriesPrep ==
    /\ conn # NoConn
    /\ bounds # "none"
    /\ spans' = [number |-> conn.number, window |-> conn.window]
    /\ conn' = [conn EXCEPT !.attrs = TRUE]   \* start_ns, start_cyc, ...
    /\ UNCHANGED <<exportVars, number, bounds, onCpu, plot>>

\* needs start_ns and the calls; replaces the exported context_switches; the
\* assertion over on_cpu_syscalls may raise before the errors are looked at
EventsPrep ==
    /\ conn.attrs
    /\ "calls" \in DOMAIN db
    /\ db' = [t \in DOMAIN db \ {"context_switches"} |-> db[t]]
    /\ onCpu' = conn.number
    /\ \E asserted \in BOOLEAN :
         conn' = [conn EXCEPT !.have_errors_table = @ \/ asserted]
    /\ UNCHANGED <<phase, opts, views, lists, step, doomed, delivered, number, bounds, spans, plot>>

\* plots 1 and 2 need start_cyc and the spans; plot 3 needs on_cpu_syscalls,
\* and then have_errors_table, without which the cell raises half way
MutPlotIsComplete == onCpu # 0
PlotIsComplete == onCpu # 0 /\ conn.have_errors_table
PlotTimeSeries ==
    /\ conn.attrs
    /\ bounds = "good"
    /\ spans # Nobody
    /\ plot' = [title |-> conn.window, window |-> spans.window, complete |-> PlotIsComplete,
                number |-> conn.number, spans |-> spans.number, onCpu |-> onCpu]
    /\ UNCHANGED <<exportVars, conn, number, bounds, spans, onCpu>>

\* the cell "teardown", or a new kernel
Teardown ==
    /\ conn # NoConn
    /\ conn' = NoConn
    /\ UNCHANGED <<exportVars, number, bounds, spans, onCpu, plot>>

SessionNext ==
    \/ Definitions
    \/ Setup
    \/ TimeSeriesPrep
    \/ EventsPrep
    \/ PlotTimeSeries
    \/ Teardown

-----------------------------------------------------------------------------
(* "Rolling average (window=...)" (pt.ipy:135): the figure's title tells the *)
(* window that its rows were computed with, whatever was run in between; and *)
(* one that is complete shows spans and stretches on the CPU that the        *)
(* connection that drew it computed itself, none left over in the database.  *)
FigureIsFresh ==
    /\ plot.title = plot.window
    /\ plot.complete => plot.spans = plot.number /\ plot.onCpu = plot.number

=============================================================================
