------------------------------ MODULE TraceExport ------------------------------
(***************************************************************************)
(* One run of intel_proc_trace/export_to_duckdb.py under `perf script': the *)
(* script creates the database and its views, perf calls one handler per     *)
(* record of the trace (trace_begin first, trace_end last), the handlers     *)
(* collect rows in lists, and trace_end inserts the lists, table by table,   *)
(* and drops what stayed empty.  Every statement commits by itself, so that  *)
(* whoever kills the script leaves what was done so far; a later run finds    *)
(* the file and refuses.                                                     *)
(*                                                                         *)
(* A row is its id and the id, the same one for each, by which it refers to  *)
(* rows of other tables; perf hands out ids per table, from 1, and delivers  *)
(* a row after those it refers to.                                           *)
(* Definitions named Mut... are wrong on purpose, to test the properties.   *)
(***************************************************************************)
EXTENDS TraceSchema

CONSTANTS Options,     \* the ways the script may be called
          Handlers,    \* the tables whose handlers perf may call
          MaxRecords   \* bound on the records of the trace

AllOptions == [branches : BOOLEAN, calls : BOOLEAN, callchains : BOOLEAN]

ASSUME ExportAssumption == /\ Options \subseteq AllOptions
                           /\ Handlers \subseteq AllTables
                           /\ MaxRecords \in Nat

VARIABLES phase,      \* where the script is
          opts,       \* how it was called
          db,         \* the tables of the database file, each a set of rows
          views,      \* and its views
          lists,      \* the lists of rows collected, named as their tables
          step,       \* trace_end: the next insert, then the next block of drops
          doomed,     \* the names that the block still has to drop
          delivered   \* what perf passed to the handlers, by record type

exportVars == <<phase, opts, db, views, lists, step, doomed, delivered>>

Row == [id : Nat, ref : Nat]

Unwritten == [t \in AllTables |-> {}]

ExportTypeOK ==
    /\ phase \in {"start", "created", "collecting", "inserting", "dropping",
                  "done", "failed", "killed", "refused", "analysed"}
    /\ opts \in Options
    /\ DOMAIN db \subseteq AllTables
    /\ \A t \in DOMAIN db : db[t] \in SUBSET Row
    /\ views \subseteq Views(opts)
    /\ lists \in [AllTables -> SUBSET Row]
    /\ delivered \in [AllTables -> SUBSET Row]
    /\ step \in 1 .. Len(InsertOrder) + 1
    /\ phase = "dropping" => \A i \in DOMAIN doomed : doomed[i] \in views \cup DOMAIN db

ExportInit ==
    /\ phase = "start"
    /\ opts \in Options
    /\ db = <<>>
    /\ views = {}
    /\ lists = Unwritten
    /\ step = 1
    /\ doomed = <<>>
    /\ delivered = Unwritten

-----------------------------------------------------------------------------
\* the file does not exist: create it, the tables, then the views
CreateDatabase ==
    /\ phase = "start"
    /\ phase' = "created"
    /\ db' = [t \in Tables(opts) |-> {}]
    /\ views' = Views(opts)
    /\ UNCHANGED <<opts, lists, step, doomed, delivered>>

\* "... already exists"
Refuse ==
    /\ phase \in {"failed", "killed"}
    /\ phase' = "refused"
    /\ UNCHANGED <<opts, db, views, lists, step, doomed, delivered>>

\* id == 0 means unknown: records for it.  The one of branch_types is perf's,
\* which passes its types, "no branch" the first, before any record.
Unknown == [id |-> 0, ref |-> 0]
UnknownRows == ObjectTables \ {"comm_threads"}

\* call_return_table's record too if only call_paths exist
MutUnknownCalls == {"call_paths", "calls"}
UnknownCalls == IF opts.calls \/ opts.callchains THEN {"call_paths", "calls"} ELSE {}

TraceBegin ==
    LET begun == [t \in AllTables |-> IF t \in UnknownRows \cup UnknownCalls THEN {Unknown} ELSE {}]
    IN /\ phase = "created"
       /\ phase' = "collecting"
       /\ lists' = begun
       /\ delivered' = begun
       /\ UNCHANGED <<opts, db, views, step, doomed>>

Records == Handlers \cap Tables(opts)
NumRecords == Cardinality(UNION {{<<t, r.id>> : r \in delivered[t] \ {Unknown}} : t \in AllTables})
NextId(t) == Cardinality(delivered[t] \cup {Unknown})

\* ids that a new row of table t may refer to
Referable(t) ==
    {i \in 0 .. MaxRecords :
        \A u \in References(t) : i = 0 \/ i \in {r.id : r \in delivered[u]}}

\* perf calls the handler of an object, a call, a context switch or an error
Handle(t) ==
    /\ phase = "collecting"
    /\ NumRecords < MaxRecords
    /\ \E ref \in Referable(t) :
         LET row == [id |-> NextId(t), ref |-> ref] IN
         /\ lists' = [lists EXCEPT ![t] = @ \cup {row}]
         /\ delivered' = [delivered EXCEPT ![t] = @ \cup {row}]
    /\ UNCHANGED <<phase, opts, db, views, step, doomed>>

\* synth_data calls by config one of six handlers, each of which appends to the
\* list of its own, but for one
MutSynthList(t) == IF t \in {"ptwrite", "cbr"} THEN "calls" ELSE t
SynthList(t) == IF t = "ptwrite" THEN "calls" ELSE t

Synthesized == {"ptwrite", "cbr"} \cup PowerTables

\* perf calls sample_table and then synth_data: the row has the sample's id
HandleSynth(t) ==
    /\ phase = "collecting"
    /\ NumRecords + 1 < MaxRecords
    /\ \E ref \in Referable("samples") :
         LET sample == [id |-> NextId("samples"), ref |-> ref]
             row == [id |-> sample.id, ref |-> sample.id]
         IN /\ lists' = [lists EXCEPT !["samples"] = @ \cup {sample},
                                      ![SynthList(t)] = @ \cup {row}]
            /\ delivered' = [delivered EXCEPT !["samples"] = @ \cup {sample}, ![t] = @ \cup {row}]
    /\ UNCHANGED <<phase, opts, db, views, step, doomed>>

TraceEnd ==
    /\ phase = "collecting"
    /\ phase' = "inserting"
    /\ UNCHANGED <<opts, db, views, lists, step, doomed, delivered>>

\* insert_data: an empty list is skipped; the statement fails on a table that
\* does not exist, on rows that do not fit and on a key that is taken
InsertData ==
    LET table == InsertOrder[step]
        rows == lists[table]
        ids == {r.id : r \in rows}
        fits == /\ table \in DOMAIN db
                /\ table = "samples" => SampleFields(opts) = SampleColumns(opts)
                /\ Keyed(table) => Cardinality(ids) = Cardinality(rows)
    IN /\ phase = "inserting"
       /\ IF rows = {} \/ fits
          THEN /\ db' = IF rows = {} THEN db ELSE [db EXCEPT ![table] = rows]
               /\ step' = IF step = Len(InsertOrder) THEN 1 ELSE step + 1
               /\ phase' = IF step = Len(InsertOrder) THEN "dropping" ELSE phase
          ELSE phase' = "failed" /\ UNCHANGED <<db, step>>
       /\ UNCHANGED <<opts, views, lists, doomed, delivered>>

IsTableEmpty(t) == db[t] = {}
Dropped(t) == <<ViewOf[t], t>>

\* the names that each block of trace_end drops
MutPowerBlock ==
    IF \A t \in PowerTables : IsTableEmpty(t)
    THEN Dropped("mwait") \o Dropped("pwre") \o Dropped("exstop") \o Dropped("pwrx")
           \o (IF IsTableEmpty("cbr") THEN Dropped("cbr") ELSE <<>>)
    ELSE <<>>
PowerBlock ==
    IF \A t \in PowerTables : IsTableEmpty(t)
    THEN <<"power_events_view">>
           \o Dropped("mwait") \o Dropped("pwre") \o Dropped("exstop") \o Dropped("pwrx")
           \o (IF IsTableEmpty("cbr") THEN Dropped("cbr") ELSE <<>>)
    ELSE <<>>
Block ==
    CASE step = 1 -> IF IsTableEmpty("ptwrite") THEN Dropped("ptwrite") ELSE <<>>
      [] step = 2 -> PowerBlock
      [] step = 3 -> IF IsTableEmpty("context_switches") THEN Dropped("context_switches") ELSE <<>>
      [] step = 4 -> IF IsTableEmpty("auxtrace_errors") THEN Dropped("auxtrace_errors") ELSE <<>>

\* DROP fails on a name that is not there
Drop ==
    /\ phase = "dropping"
    /\ doomed # <<>>
    /\ IF Head(doomed) \in views \cup DOMAIN db
       THEN /\ views' = views \ {Head(doomed)}
            /\ db' = [t \in DOMAIN db \ {Head(doomed)} |-> db[t]]
            /\ doomed' = Tail(doomed)
            /\ UNCHANGED phase
       ELSE phase' = "failed" /\ UNCHANGED <<views, db, doomed>>
    /\ UNCHANGED <<opts, lists, step, delivered>>

NextBlock ==
    /\ phase = "dropping"
    /\ doomed = <<>>
    /\ IF step <= 4
       THEN doomed' = Block /\ step' = step + 1 /\ UNCHANGED phase
       ELSE phase' = "done" /\ UNCHANGED <<doomed, step>>
    /\ UNCHANGED <<opts, db, views, lists, delivered>>

DropUnused == Drop \/ NextBlock

\* the user or the system ends perf
Killed ==
    /\ phase \in {"created", "collecting", "inserting", "dropping"}
    /\ phase' = "killed"
    /\ UNCHANGED <<opts, db, views, lists, step, doomed, delivered>>

ScriptSteps == CreateDatabase \/ TraceBegin \/ InsertData \/ DropUnused

ExportNext ==
    \/ ScriptSteps
    \/ \E t \in Records \ Synthesized : Handle(t)
    \/ \E t \in Records \cap Synthesized : HandleSynth(t)
    \/ TraceEnd
    \/ Killed
    \/ Refuse

-----------------------------------------------------------------------------
(* Once the script is done every record that perf passed to a handler is in  *)
(* the table of its type, and nothing else is; a table is gone ("unused")    *)
(* only if there was none.  The code does this but for ptwrite, whose handler *)
(* appends to the list of calls: with that handler among Handlers it fails.  *)
NothingLost == phase = "done" =>
    \A t \in AllTables : delivered[t] = IF t \in DOMAIN db THEN db[t] ELSE {}

(* "It is easier to create records for them than replace the zeroes with     *)
(* NULLs" (export_to_duckdb.py:624): in the middle of the inserts too, and   *)
(* whatever a killed script leaves, each row's references lead to a row, so  *)
(* that the joins of the views leave none out.                               *)
JoinsComplete ==
    \A t \in DOMAIN db : \A r \in db[t] : \A u \in References(t) :
        u \in DOMAIN db /\ r.ref \in {s.id : s \in db[u]}

(* What a view reads exists, also between two drops, until the analysis      *)
(* replaces a table.                                                         *)
ViewsReadable == phase # "analysed" => \A v \in views : Reads(v) \subseteq DOMAIN db \cup views

(* A script that nobody kills gets to its end, through every insert and every *)
(* drop, unless it was called with callchains alone, when a row is collected *)
(* for calls and no such table created, or perf passed a ptwrite record,     *)
(* which may not fit the table of calls.                                     *)
ExportEnds ==
    phase = "created" ~> \/ phase \in {"done", "killed"}
                         \/ /\ phase = "failed"
                            /\ (opts.callchains /\ ~opts.calls) \/ delivered["ptwrite"] # {}

=============================================================================
