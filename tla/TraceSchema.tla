------------------------------ MODULE TraceSchema ------------------------------
(***************************************************************************)
(* The tables and views that intel_proc_trace/export_to_duckdb.py creates,   *)
(* and what they refer to.  An option record o says how the script was       *)
(* called: branches ('branches' columns only), calls, callchains.            *)
(* Definitions named Mut... are wrong on purpose, to test the properties.   *)
(***************************************************************************)
EXTENDS Integers, Sequences, FiniteSets

ObjectTables == {"selected_events", "machines", "threads", "comms", "comm_threads", "dsos",
                 "symbols", "branch_types", "samples"}

CallTables(o) == (IF o.calls \/ o.callchains THEN {"call_paths"} ELSE {})
                   \cup (IF o.calls THEN {"calls"} ELSE {})

PowerTables == {"mwait", "pwre", "exstop", "pwrx"}
EventTables == {"ptwrite", "cbr", "context_switches", "auxtrace_errors"} \cup PowerTables

Tables(o) == ObjectTables \cup CallTables(o) \cup EventTables
AllTables == Tables([branches |-> FALSE, calls |-> TRUE, callchains |-> TRUE])

\* all but auxtrace_errors have a primary key
Keyed(table) == table # "auxtrace_errors"

\* the columns of samples, numbered as in the full table, that a script called
\* with 'branches' creates, and the columns its sample_table passes on
SampleColumns(o) == IF o.branches THEN 0 .. 24 \ {15, 16, 17, 18} ELSE 0 .. 24
SampleFields(o) == IF o.branches THEN 0 .. 14 \cup 19 .. 24 ELSE 0 .. 24

-----------------------------------------------------------------------------
\* the tables whose rows a view finds by an id that a row of its table carries:
\* it joins them, or selects a name from them
ObjectReferences ==
    [selected_events |-> {}, machines |-> {}, branch_types |-> {}, comms |-> {},
     threads |-> {"machines"},
     comm_threads |-> {"comms", "threads"},
     dsos |-> {"machines"},
     symbols |-> {"dsos"},
     samples |-> {"threads", "comms", "selected_events", "symbols", "dsos", "branch_types"},
     call_paths |-> {"symbols", "call_paths"},
     calls |-> {"threads", "comms", "call_paths"}]
EventReferences(table) ==
    CASE table = "context_switches" -> {"threads", "comms"}
      [] table = "auxtrace_errors" -> {}
      [] OTHER -> {"samples"}
References(table) ==
    IF table \in EventTables THEN EventReferences(table) ELSE ObjectReferences[table]

\* every table but three has a view of its own; power_events_view is over samples
ViewOf ==
    [machines |-> "machines_view", dsos |-> "dsos_view", symbols |-> "symbols_view",
     threads |-> "threads_view", comm_threads |-> "comm_threads_view",
     samples |-> "samples_view", call_paths |-> "call_paths_view", calls |-> "calls_view",
     ptwrite |-> "ptwrite_view", cbr |-> "cbr_view", mwait |-> "mwait_view",
     pwre |-> "pwre_view", exstop |-> "exstop_view", pwrx |-> "pwrx_view",
     context_switches |-> "context_switches_view",
     auxtrace_errors |-> "auxtrace_errors_view"]
ObjectViews(o) == {ViewOf[t] : t \in (ObjectTables \cap DOMAIN ViewOf) \cup CallTables(o)}
EventViews == {ViewOf[t] : t \in EventTables} \cup {"power_events_view"}
Views(o) == ObjectViews(o) \cup EventViews

\* what a view reads, tables and views
Reads(view) ==
    CASE view = "machines_view" -> {"machines"}
      [] view = "dsos_view" -> {"dsos", "machines_view"}
      [] view = "threads_view" -> {"threads", "machines_view"}
      [] view = "symbols_view" -> {"symbols", "dsos"}
      [] view = "call_paths_view" -> {"call_paths", "symbols", "symbols_view"}
      [] view = "calls_view" -> {"calls", "threads", "comms", "symbols", "call_paths"}
      [] view = "samples_view" -> {"samples"} \cup References("samples")
      [] view = "power_events_view" -> {"samples", "selected_events", "cbr"} \cup PowerTables
      [] OTHER -> LET table == CHOOSE t \in DOMAIN ViewOf : view = ViewOf[t]
                  IN {table} \cup References(table)

-----------------------------------------------------------------------------
\* trace_end: the order in which the collected rows are inserted
MutInsertOrder == <<"selected_events", "machines", "threads", "comms", "comm_threads", "dsos",
                    "symbols", "branch_types", "samples", "calls", "call_paths", "ptwrite", "cbr",
                    "mwait", "pwre", "exstop", "pwrx", "context_switches", "auxtrace_errors">>
InsertOrder == <<"selected_events", "machines", "threads", "comms", "comm_threads", "dsos",
                 "symbols", "branch_types", "samples", "call_paths", "calls", "ptwrite", "cbr",
                 "mwait", "pwre", "exstop", "pwrx", "context_switches", "auxtrace_errors">>

=============================================================================
