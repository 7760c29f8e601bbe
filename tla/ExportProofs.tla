----------------------------- MODULE ExportProofs -----------------------------
(***************************************************************************)
(* Proofs about TraceDatabase for traces of every length, whatever the      *)
(* options of the script and whenever it is killed: no record is lost, the  *)
(* joins of the views find their rows, what a view reads exists, what       *)
(* trace_end drops was there, and no figure of a session is stale.          *)
(***************************************************************************)
EXTENDS TraceDatabase, FiniteSetTheorems, TLAPS

ViewOverPower == PowerTables \cup {"cbr"}   \* what power_events_view reads of the event tables

-----------------------------------------------------------------------------
(* The schema *)

\* trace_end inserts into every table that the script may create
LEMMA InsertOrderCovers ==
    /\ Len(InsertOrder) = 19
    /\ \A j \in 1 .. 19 : InsertOrder[j] \in AllTables
    /\ \A t \in AllTables : \E j \in 1 .. 19 : InsertOrder[j] = t
<1> USE DEF AllTables, Tables, ObjectTables, CallTables, EventTables, PowerTables, InsertOrder
<1>1. Len(InsertOrder) = 19
  OBVIOUS
<1>2. \A j \in 1 .. 19 : InsertOrder[j] \in AllTables
  OBVIOUS
<1>3. \A t \in AllTables : \E j \in 1 .. 19 : InsertOrder[j] = t
  OBVIOUS
<1>4. QED
  BY <1>1, <1>2, <1>3

\* rows refer to rows of tables that have one for the unknown, and of call_paths
LEMMA ReferencedTables ==
    ASSUME NEW t \in AllTables
    PROVE  /\ References(t) \subseteq UnknownRows \cup {"call_paths"}
           /\ "call_paths" \in References(t) => t \in {"call_paths", "calls"}
           /\ t \in Synthesized => References(t) = {"samples"}
<1> USE DEF References, UnknownRows, ObjectTables
<1>1. CASE t \in EventTables
  BY <1>1 DEF EventReferences, Synthesized, EventTables, PowerTables
<1>2. CASE t \notin EventTables
  BY <1>2 DEF ObjectReferences, EventTables, Synthesized, PowerTables, AllTables, Tables, CallTables
<1>3. QED
  BY <1>1, <1>2

\* and trace_end inserts a row after those it refers to
LEMMA InsertOrderSound ==
    ASSUME NEW j \in 1 .. 19, NEW u \in References(InsertOrder[j])
    PROVE  \E i \in 1 .. j : InsertOrder[i] = u
<1> USE DEF InsertOrder
<1>1. CASE j \in 1 .. 9
  BY <1>1 DEF References, EventTables, PowerTables, ObjectReferences
<1>2. CASE j \in {10, 11}
  BY <1>2 DEF References, EventTables, PowerTables, ObjectReferences
<1>3. CASE j \in 12 .. 19
  BY <1>3 DEF References, EventTables, PowerTables, EventReferences
<1>4. QED
  BY <1>1, <1>2, <1>3

\* a view reads what the same call of the script creates
LEMMA ReadsOfObjectViews ==
    ASSUME NEW o \in AllOptions, NEW v \in ObjectViews(o)
    PROVE  Reads(v) \subseteq ObjectTables \cup CallTables(o) \cup ObjectViews(o)
<1> USE DEF ObjectViews, ObjectTables, ViewOf, CallTables, AllOptions
<1>1. CASE v \in {"machines_view", "dsos_view", "threads_view", "symbols_view", "samples_view"}
  BY <1>1 DEF Reads, References, EventTables, PowerTables, ObjectReferences
<1>2. CASE v = "call_paths_view"
  BY <1>2 DEF Reads
<1>3. CASE v = "calls_view"
  BY <1>3 DEF Reads
<1>4. CASE v = "comm_threads_view"
  <2>1. (CHOOSE t \in DOMAIN ViewOf : v = ViewOf[t]) = "comm_threads"
    BY <1>4
  <2>2. QED
    BY <1>4, <2>1 DEF Reads, References, EventTables, PowerTables, ObjectReferences
<1>5. QED
  BY <1>1, <1>2, <1>3, <1>4

LEMMA ReadsOfEventViews ==
    ASSUME NEW t \in EventTables
    PROVE  Reads(ViewOf[t]) = {t} \cup References(t)
<1>1. (CHOOSE u \in DOMAIN ViewOf : ViewOf[t] = ViewOf[u]) = t
  BY DEF ViewOf, EventTables, PowerTables
<1>2. ViewOf[t] \notin {"machines_view", "dsos_view", "threads_view", "symbols_view",
                        "call_paths_view", "calls_view", "samples_view", "power_events_view"}
  BY DEF ViewOf, EventTables, PowerTables
<1>3. QED
  BY <1>1, <1>2 DEF Reads

LEMMA ReadsOfPowerView ==
    Reads("power_events_view") = {"samples", "selected_events"} \cup ViewOverPower
BY DEF Reads, ViewOverPower

\* no name stands for a table and for a view
LEMMA NamesApart ==
    /\ EventViews \cap AllTables = {}
    /\ \A o \in AllOptions : Views(o) \cap AllTables = {}
BY DEF EventViews, Views, ObjectViews, ViewOf, EventTables, PowerTables, AllTables, Tables,
       ObjectTables, CallTables

LEMMA ReadsExists ==
    ASSUME NEW o \in AllOptions, NEW v \in Views(o)
    PROVE  Reads(v) \subseteq Tables(o) \cup Views(o)
<1>1. CASE v \in ObjectViews(o)
  BY <1>1, ReadsOfObjectViews DEF Tables, Views
<1>2. ASSUME NEW t \in EventTables, v = ViewOf[t]
      PROVE  Reads(v) \subseteq Tables(o)
  <2>1. References(t) \subseteq ObjectTables
    BY DEF References, EventReferences, ObjectTables
  <2>2. QED
    BY <1>2, <2>1, ReadsOfEventViews DEF Tables
<1>3. CASE v = "power_events_view"
  BY <1>3, ReadsOfPowerView DEF Tables, ObjectTables, EventTables, ViewOverPower
<1>4. QED
  BY <1>1, <1>2, <1>3 DEF Views, EventViews

\* what is dropped, a table of events or a view over it, is read by no other
\* view than the table's own and power_events_view
LEMMA Readers ==
    ASSUME NEW o \in AllOptions, NEW v \in Views(o), NEW d \in EventTables \cup EventViews,
           d \in Reads(v)
    PROVE  /\ d \in EventTables
           /\ v = ViewOf[d] \/ (v = "power_events_view" /\ d \in ViewOverPower)
<1>1. CASE v \in ObjectViews(o)
  <2>1. d \in ObjectTables \cup CallTables(o) \cup ObjectViews(o)
    BY <1>1, ReadsOfObjectViews
  <2>2. (ObjectTables \cup CallTables(o) \cup ObjectViews(o)) \cap (EventTables \cup EventViews) = {}
    BY DEF ObjectTables, CallTables, ObjectViews, EventTables, PowerTables, EventViews, ViewOf
  <2>3. QED
    BY <2>1, <2>2
<1>2. ASSUME NEW t \in EventTables, v = ViewOf[t]
      PROVE  d = t
  <2>1. References(t) \subseteq ObjectTables
    BY DEF References, EventReferences, ObjectTables
  <2>2. ObjectTables \cap (EventTables \cup EventViews) = {}
    BY DEF ObjectTables, EventTables, PowerTables, EventViews, ViewOf
  <2>3. QED
    BY <1>2, <2>1, <2>2, ReadsOfEventViews
<1>3. CASE v = "power_events_view"
  <2>1. d \notin {"samples", "selected_events"}
    BY DEF EventTables, PowerTables, EventViews, ViewOf
  <2>2. QED
    BY <1>3, <2>1, ReadsOfPowerView DEF EventTables, ViewOverPower
<1>4. QED
  BY <1>1, <1>2, <1>3 DEF Views, EventViews


-----------------------------------------------------------------------------
(* The lists of rows *)

ListsOK(f) == f \in [AllTables -> SUBSET Row]
Finite(f) == \A t \in AllTables : IsFiniteSet(f[t])

(* What the script was called with, what it collected and where it is.      *)
ListsInv == /\ opts \in Options
            /\ ListsOK(lists)
            /\ ListsOK(delivered)
            /\ Finite(delivered)
            /\ step \in 1 .. 19

LEMMA UnknownIsRow == Unknown \in Row /\ IsFiniteSet({Unknown})
BY FS_Singleton DEF Unknown, Row

LEMMA NewRow ==
    ASSUME ListsInv, NEW t \in AllTables, NEW u, NEW ref \in Referable(u)
    PROVE  /\ NextId(t) \in Nat
           /\ [id |-> NextId(t), ref |-> ref] \in Row
<1>1. IsFiniteSet(delivered[t] \cup {Unknown})
  BY UnknownIsRow, FS_Union DEF ListsInv, Finite
<1>2. NextId(t) \in Nat
  BY <1>1, FS_CardinalityType DEF NextId
<1>3. ref \in Nat
  BY ExportAssumption DEF Referable
<1>4. QED
  BY <1>2, <1>3 DEF Row

\* a row more
LEMMA ListGrows ==
    ASSUME NEW f, ListsOK(f), NEW t \in AllTables, NEW row \in Row
    PROVE  ListsOK([f EXCEPT ![t] = @ \cup {row}])
BY DEF ListsOK

LEMMA FiniteGrows ==
    ASSUME NEW f, ListsOK(f), Finite(f), NEW t \in AllTables, NEW row
    PROVE  Finite([f EXCEPT ![t] = @ \cup {row}])
<1> DEFINE g == [f EXCEPT ![t] = @ \cup {row}]
<1>1. IsFiniteSet(g[t])
  <2>1. IsFiniteSet(f[t]) /\ IsFiniteSet({row})
    BY FS_Singleton DEF Finite
  <2>2. QED
    BY <2>1, FS_Union DEF ListsOK
<1>2. \A u \in AllTables : u # t => g[u] = f[u]
  BY DEF ListsOK
<1>3. QED
  BY <1>1, <1>2 DEF Finite

LEMMA TwoUpdates ==
    ASSUME NEW f, ListsOK(f), NEW t \in AllTables, NEW u \in AllTables, t # u, NEW a, NEW b
    PROVE  [f EXCEPT ![t] = @ \cup {a}, ![u] = @ \cup {b}]
             = [[f EXCEPT ![t] = @ \cup {a}] EXCEPT ![u] = @ \cup {b}]
BY DEF ListsOK



\* synth_data adds to the list of samples and to another one
LEMMA SynthTables ==
    ASSUME NEW t \in Synthesized
    PROVE  /\ t \in AllTables /\ SynthList(t) \in AllTables
           /\ t # "samples" /\ SynthList(t) # "samples"
           /\ t # "ptwrite" => SynthList(t) = t
BY DEF Synthesized, PowerTables, SynthList, AllTables, Tables, EventTables, CallTables

LEMMA BegunLists ==
    ASSUME ListsInv, TraceBegin
    PROVE  ListsOK(lists') /\ Finite(lists') /\ delivered' = lists'
<1> DEFINE begun == [t \in AllTables |->
                       IF t \in UnknownRows \cup UnknownCalls THEN {Unknown} ELSE {}]
<1>1. lists' = begun /\ delivered' = begun
  BY DEF TraceBegin
<1>2. ListsOK(begun)
  BY UnknownIsRow DEF ListsOK
<1>3. Finite(begun)
  BY UnknownIsRow, FS_EmptySet DEF Finite
<1> HIDE DEF begun
<1>4. QED
  BY <1>1, <1>2, <1>3

LEMMA SynthLists ==
    ASSUME ListsInv, NEW t \in Synthesized, HandleSynth(t)
    PROVE  ListsOK(lists') /\ ListsOK(delivered') /\ Finite(delivered')
<1>1. PICK ref \in Referable("samples") :
        LET sample == [id |-> NextId("samples"), ref |-> ref]
            row == [id |-> sample.id, ref |-> sample.id]
        IN /\ lists' = [lists EXCEPT !["samples"] = @ \cup {sample},
                                     ![SynthList(t)] = @ \cup {row}]
           /\ delivered' = [delivered EXCEPT !["samples"] = @ \cup {sample},
                                             ![t] = @ \cup {row}]
  BY DEF HandleSynth
<1> DEFINE sample == [id |-> NextId("samples"), ref |-> ref]
           row == [id |-> sample.id, ref |-> sample.id]
           mid(f) == [f EXCEPT !["samples"] = @ \cup {sample}]
<1>2. "samples" \in AllTables
  BY DEF AllTables, Tables, ObjectTables
<1>3. sample \in Row /\ row \in Row
  BY <1>1, <1>2, NewRow DEF Row
<1>4. /\ lists' = [mid(lists) EXCEPT ![SynthList(t)] = @ \cup {row}]
      /\ delivered' = [mid(delivered) EXCEPT ![t] = @ \cup {row}]
  <2>1. lists' = [lists EXCEPT !["samples"] = @ \cup {sample},
                               ![SynthList(t)] = @ \cup {row}]
    BY <1>1
  <2>2. delivered' = [delivered EXCEPT !["samples"] = @ \cup {sample}, ![t] = @ \cup {row}]
    BY <1>1
  <2> HIDE DEF sample, row
  <2>3. ListsOK(lists) /\ ListsOK(delivered)
    BY DEF ListsInv
  <2>4. lists' = [mid(lists) EXCEPT ![SynthList(t)] = @ \cup {row}]
    <3>1. SynthList(t) \in AllTables /\ SynthList(t) # "samples"
      BY SynthTables
    <3>2. [lists EXCEPT !["samples"] = @ \cup {sample}, ![SynthList(t)] = @ \cup {row}]
            = [mid(lists) EXCEPT ![SynthList(t)] = @ \cup {row}]
      BY <2>3, <1>2, <3>1, TwoUpdates
    <3>3. QED
      BY <2>1, <3>2
  <2>5. delivered' = [mid(delivered) EXCEPT ![t] = @ \cup {row}]
    <3>1. t \in AllTables /\ t # "samples"
      BY SynthTables
    <3>2. [delivered EXCEPT !["samples"] = @ \cup {sample}, ![t] = @ \cup {row}]
            = [mid(delivered) EXCEPT ![t] = @ \cup {row}]
      BY <2>3, <1>2, <3>1, TwoUpdates
    <3>3. QED
      BY <2>2, <3>2
  <2>6. QED
    BY <2>4, <2>5
<1> HIDE DEF sample, row
<1>5. ListsOK(mid(lists)) /\ ListsOK(mid(delivered)) /\ Finite(mid(delivered))
  BY <1>2, <1>3, ListGrows, FiniteGrows DEF ListsInv
<1> HIDE DEF mid
<1>6. ListsOK(lists')
  BY <1>3, <1>4, <1>5, SynthTables, ListGrows
<1>7. ListsOK(delivered') /\ Finite(delivered')
  BY <1>3, <1>4, <1>5, SynthTables, ListGrows, FiniteGrows
<1>8. QED
  BY <1>6, <1>7

LEMMA ListsInvCorrect == Spec => []ListsInv
<1>1. Init => ListsInv
  BY FS_EmptySet DEF Init, ExportInit, ListsInv, ListsOK, Finite, Unwritten
<1>2. ListsInv /\ [Next]_vars => ListsInv'
  <2> SUFFICES ASSUME ListsInv, [Next]_vars PROVE ListsInv'
    OBVIOUS
  <2> USE DEF ListsInv
  <2>1. CASE TraceBegin
    BY <2>1, BegunLists DEF TraceBegin
  <2>2. ASSUME NEW t \in Records \ Synthesized, Handle(t) PROVE ListsInv'
    <3>1. t \in AllTables
      BY ExportAssumption DEF Records
    <3>2. PICK row \in Row : /\ lists' = [lists EXCEPT ![t] = @ \cup {row}]
                            /\ delivered' = [delivered EXCEPT ![t] = @ \cup {row}]
      BY <2>2, <3>1, NewRow DEF Handle
    <3>3. UNCHANGED <<opts, step>>
      BY <2>2 DEF Handle
    <3>4. ListsOK(lists')
      BY <3>1, <3>2, ListGrows
    <3>5. ListsOK(delivered') /\ Finite(delivered')
      BY <3>1, <3>2, ListGrows, FiniteGrows
    <3>6. QED
      BY <3>3, <3>4, <3>5
  <2>3. ASSUME NEW t \in Records \cap Synthesized, HandleSynth(t) PROVE ListsInv'
    BY <2>3, SynthLists DEF HandleSynth
  <2>4. CASE InsertData
    <3>1. UNCHANGED <<opts, lists, delivered>>
      BY <2>4 DEF InsertData
    <3>2. step' = 1 \/ step' = step \/ (step # Len(InsertOrder) /\ step' = step + 1)
      BY <2>4 DEF InsertData
    <3>3. step' \in 1 .. 19
      <4>1. step' = 1 \/ step' = step \/ (step # 19 /\ step' = step + 1)
        BY <3>2, InsertOrderCovers
      <4>2. QED
        BY <4>1
    <3>4. QED
      BY <3>1, <3>3
  <2>5. CASE DropUnused
    BY <2>5 DEF DropUnused, Drop, NextBlock
  <2>6. CASE CreateDatabase \/ TraceEnd \/ Killed \/ Refuse
    BY <2>6 DEF CreateDatabase, TraceEnd, Killed, Refuse
  <2>7. CASE SessionNext \/ UNCHANGED vars
    BY <2>7 DEF SessionNext, Definitions, Setup, TimeSeriesPrep, EventsPrep, PlotTimeSeries,
                Teardown, vars, exportVars
  <2>8. QED
    BY <2>1, <2>2, <2>3, <2>4, <2>5, <2>6, <2>7
       DEF Next, Exporting, Analysing, ExportNext, ScriptSteps
<1>3. QED
  BY <1>1, <1>2, PTL DEF Spec


-----------------------------------------------------------------------------
(* What trace_end drops *)

Droppable == EventTables \cup EventViews

\* a sequence of drops that takes empty tables only, each after the views over it
SafeDrops(s) ==
    /\ s \in Seq(Droppable)
    /\ \A i \in 1 .. Len(s) : s[i] \in EventTables =>
         /\ IsTableEmpty(s[i])
         /\ \E k \in 1 .. i - 1 : s[k] = ViewOf[s[i]]
         /\ s[i] \in ViewOverPower => \E k \in 1 .. i - 1 : s[k] = "power_events_view"

LEMMA DroppedNames ==
    ASSUME NEW t \in EventTables
    PROVE  ViewOf[t] \in EventViews \ EventTables
BY DEF EventViews, ViewOf, EventTables, PowerTables

LEMMA DropNothing == SafeDrops(<<>>)
BY DEF SafeDrops

LEMMA DropOne ==
    ASSUME NEW t \in EventTables \ ViewOverPower, IsTableEmpty(t)
    PROVE  SafeDrops(Dropped(t))
<1> DEFINE s == <<ViewOf[t], t>>
<1>1. s \in Seq(Droppable) /\ Len(s) = 2 /\ s[1] = ViewOf[t] /\ s[2] = t
  BY DroppedNames DEF Droppable
<1>2. Dropped(t) = s
  BY DEF Dropped
<1>3. s[1] \notin EventTables
  BY <1>1, DroppedNames
<1> HIDE DEF s
<1>4. IsTableEmpty(s[2]) /\ s[1] = ViewOf[s[2]] /\ s[2] \notin ViewOverPower
  BY <1>1
<1>5. ASSUME NEW i \in 1 .. Len(s), s[i] \in EventTables
      PROVE  i = 2
  BY <1>1, <1>3, <1>5
<1>6. 1 \in 1 .. 2 - 1
  OBVIOUS
<1>7. SafeDrops(s)
  BY <1>1, <1>4, <1>5, <1>6 DEF SafeDrops
<1>8. QED
  BY <1>2, <1>7

LEMMA DropOneMore ==
    ASSUME NEW s, SafeDrops(s), Len(s) > 0, s[1] = "power_events_view",
           NEW t \in EventTables, IsTableEmpty(t)
    PROVE  LET r == s \o Dropped(t)
           IN  SafeDrops(r) /\ Len(r) > 0 /\ r[1] = "power_events_view"
<1> DEFINE r == s \o <<ViewOf[t], t>>
           n == Len(s)
<1>1. s \in Seq(Droppable) /\ <<ViewOf[t], t>> \in Seq(Droppable) /\ n \in Nat
  BY DroppedNames DEF SafeDrops, Droppable
<1>2. /\ r \in Seq(Droppable) /\ Len(r) = n + 2
      /\ \A i \in 1 .. n : r[i] = s[i]
      /\ r[n + 1] = ViewOf[t] /\ r[n + 2] = t
  BY <1>1
<1>3. r[n + 1] \notin EventTables
  BY <1>2, DroppedNames
<1>4. s \o Dropped(t) = r
  BY DEF Dropped
<1> HIDE DEF r
<1>5. ASSUME NEW i \in 1 .. n, r[i] \in EventTables
      PROVE  /\ IsTableEmpty(r[i])
             /\ \E k \in 1 .. i - 1 : r[k] = ViewOf[r[i]]
             /\ r[i] \in ViewOverPower => \E k \in 1 .. i - 1 : r[k] = "power_events_view"
  BY <1>1, <1>2, <1>5 DEF SafeDrops
<1>6. /\ IsTableEmpty(r[n + 2])
      /\ \E k \in 1 .. n + 1 : r[k] = ViewOf[r[n + 2]]
      /\ \E k \in 1 .. n + 1 : r[k] = "power_events_view"
  BY <1>1, <1>2
<1>7. SafeDrops(r)
  BY <1>1, <1>2, <1>3, <1>5, <1>6 DEF SafeDrops
<1>8. QED
  BY <1>1, <1>2, <1>4, <1>7

LEMMA BlockSafe ==
    ASSUME step \in 1 .. 4
    PROVE  SafeDrops(Block)
<1> DEFINE Pair(s) == SafeDrops(s) /\ Len(s) > 0 /\ s[1] = "power_events_view"
<1>1. ASSUME NEW t \in {"ptwrite", "context_switches", "auxtrace_errors"}
      PROVE  SafeDrops(IF IsTableEmpty(t) THEN Dropped(t) ELSE <<>>)
  <2>1. t \in EventTables \ ViewOverPower
    BY DEF EventTables, ViewOverPower, PowerTables
  <2>2. QED
    BY <2>1, DropOne, DropNothing
<1>2. Pair(<<"power_events_view">>)
  <2>1. "power_events_view" \in EventViews /\ "power_events_view" \notin EventTables
    BY DEF EventViews, EventTables, PowerTables
  <2>2. QED
    BY <2>1 DEF SafeDrops, Droppable
<1>3. ASSUME NEW s, Pair(s), NEW t \in EventTables, IsTableEmpty(t)
      PROVE  Pair(s \o Dropped(t))
  BY <1>3, DropOneMore
<1>4. ASSUME NEW s, Pair(s)
      PROVE  s \o <<>> = s
  BY <1>4 DEF SafeDrops
<1> HIDE DEF Pair
<1>5. SafeDrops(PowerBlock)
  <2>1. CASE \A t \in PowerTables : IsTableEmpty(t)
    <3>1. {"mwait", "pwre", "exstop", "pwrx", "cbr"} \subseteq EventTables
      BY DEF EventTables, PowerTables
    <3>2. /\ IsTableEmpty("mwait") /\ IsTableEmpty("pwre")
          /\ IsTableEmpty("exstop") /\ IsTableEmpty("pwrx")
      BY <2>1 DEF PowerTables
    <3> DEFINE s == <<"power_events_view">> \o Dropped("mwait") \o Dropped("pwre")
                      \o Dropped("exstop") \o Dropped("pwrx")
    <3>3. Pair(<<"power_events_view">> \o Dropped("mwait"))
      BY <1>2, <1>3, <3>1, <3>2
    <3>4. Pair(<<"power_events_view">> \o Dropped("mwait") \o Dropped("pwre"))
      BY <1>3, <3>1, <3>2, <3>3
    <3>5. Pair(<<"power_events_view">> \o Dropped("mwait") \o Dropped("pwre")
                 \o Dropped("exstop"))
      BY <1>3, <3>1, <3>2, <3>4
    <3>6. Pair(s)
      BY <1>3, <3>1, <3>2, <3>5
    <3>7. PowerBlock = s \o (IF IsTableEmpty("cbr") THEN Dropped("cbr") ELSE <<>>)
      BY <2>1 DEF PowerBlock
    <3> HIDE DEF s
    <3>8. Pair(PowerBlock)
      BY <1>3, <1>4, <3>1, <3>6, <3>7
    <3>9. QED
      BY <3>8 DEF Pair
  <2>2. CASE ~\A t \in PowerTables : IsTableEmpty(t)
    BY <2>2, DropNothing DEF PowerBlock
  <2>3. QED
    BY <2>1, <2>2
<1>6. step = 1 \/ step = 2 \/ step = 3 \/ step = 4
  OBVIOUS
<1>7. QED
  BY <1>1, <1>5, <1>6 DEF Block


-----------------------------------------------------------------------------
(* The notebook sessions *)

Connections == [number : Nat, window : WindowSizes \cup {0}, attrs : BOOLEAN,
                have_errors_table : BOOLEAN]

(* The attributes of a connection vouch for what this very connection       *)
(* computed, and nobody is connected while the script runs.                 *)
SessionInv ==
    /\ conn \in Connections /\ number \in Nat
    /\ conn.attrs => spans = [number |-> conn.number, window |-> conn.window]
    /\ conn.have_errors_table => conn.attrs /\ onCpu = conn.number
    /\ conn # NoConn => phase \in {"refused", "analysed"}

LEMMA SessionInvCorrect == Spec => [](SessionInv /\ FigureIsFresh)
<1>1. Init => SessionInv /\ FigureIsFresh
  BY DEF Init, SessionInit, SessionInv, FigureIsFresh, NoConn, NoPlot, Connections
<1>2. SessionInv /\ FigureIsFresh /\ [Next]_vars => (SessionInv /\ FigureIsFresh)'
  <2> SUFFICES ASSUME SessionInv, FigureIsFresh, [Next]_vars
               PROVE  SessionInv' /\ FigureIsFresh'
    OBVIOUS
  <2> USE DEF SessionInv, FigureIsFresh
  <2>1. CASE Exporting
    <3>1. phase \notin {"refused", "analysed"}
      BY <2>1 DEF Exporting, ExportNext, ScriptSteps, CreateDatabase, TraceBegin, InsertData,
                  DropUnused, Drop, NextBlock, Handle, HandleSynth, TraceEnd, Killed, Refuse
    <3>2. UNCHANGED sessionVars
      BY <2>1 DEF Exporting
    <3>3. QED
      BY <3>1, <3>2 DEF sessionVars
  <2>2. CASE Definitions
    <3>1. PICK w \in WindowSizes : conn' = [NoConn EXCEPT !.number = number + 1, !.window = w]
      BY <2>2 DEF Definitions
    <3>2. conn' = [number |-> number + 1, window |-> w, attrs |-> FALSE,
                   have_errors_table |-> FALSE]
      BY <3>1 DEF NoConn
    <3>3. UNCHANGED plot /\ number' = number + 1 /\ phase' \in {"refused", "analysed"}
      BY <2>2 DEF Definitions
    <3>4. QED
      BY <3>2, <3>3 DEF Connections
  <2>3. CASE Setup
    BY <2>3 DEF Setup, exportVars
  <2>4. CASE TimeSeriesPrep
    BY <2>4 DEF TimeSeriesPrep, exportVars, Connections
  <2>5. CASE EventsPrep
    <3>1. PICK asserted \in BOOLEAN :
            conn' = [conn EXCEPT !.have_errors_table = @ \/ asserted]
      BY <2>5 DEF EventsPrep
    <3>2. conn # NoConn
      BY <2>5 DEF EventsPrep, NoConn
    <3>3. QED
      BY <2>5, <3>1, <3>2 DEF EventsPrep, Connections
  <2>6. CASE PlotTimeSeries
    <3>1. /\ plot'.title = conn.window /\ plot'.window = spans.window
          /\ plot'.complete = PlotIsComplete /\ plot'.number = conn.number
          /\ plot'.spans = spans.number /\ plot'.onCpu = onCpu
      BY <2>6 DEF PlotTimeSeries
    <3>2. conn.attrs /\ UNCHANGED <<phase, conn, number, spans, onCpu>>
      BY <2>6 DEF PlotTimeSeries, exportVars
    <3>3. PlotIsComplete => onCpu = conn.number
      BY DEF PlotIsComplete
    <3>4. QED
      BY <3>1, <3>2, <3>3
  <2>7. CASE Teardown
    BY <2>7 DEF Teardown, exportVars, NoConn, Connections
  <2>8. CASE UNCHANGED vars
    BY <2>8 DEF vars, exportVars, sessionVars
  <2>9. QED
    BY <2>1, <2>2, <2>3, <2>4, <2>5, <2>6, <2>7, <2>8 DEF Next, Analysing, SessionNext
<1>3. QED
  BY <1>1, <1>2, PTL DEF Spec

(* A figure never shows under its title rows of another window, and a       *)
(* complete one only what the connection that drew it computed, whatever    *)
(* cells the user ran, in whatever order, after whatever export.            *)
THEOREM FigureIsFreshCorrect == Spec => []FigureIsFresh
BY SessionInvCorrect, PTL

-----------------------------------------------------------------------------
(* The tables and the lists *)

Inserted == {InsertOrder[j] : j \in 1 .. step - 1}
RowsOf(t) == IF t \in DOMAIN db THEN db[t] ELSE {}

(* Until trace_end, the tables are empty; while it inserts, those it has    *)
(* passed hold their list; from then on all do, and a table that is gone    *)
(* had none.                                                                *)
TablesInv ==
    /\ DOMAIN db \subseteq AllTables
    /\ phase = "start" \/ (phase = "refused" /\ conn # NoConn) => db = <<>>
    /\ phase \in {"start", "created", "collecting"} => step = 1
    /\ phase \in {"created", "collecting", "inserting"} => DOMAIN db = Tables(opts)
    /\ phase \in {"created", "collecting"} => \A t \in DOMAIN db : db[t] = {}
    /\ phase = "inserting" =>
         \A t \in AllTables : RowsOf(t) = IF t \in Inserted THEN lists[t] ELSE {}
    /\ phase \in {"dropping", "done"} =>
         \A t \in AllTables : RowsOf(t) = lists[t]

(* What is left to drop are empty tables and views.                         *)
DropInv ==
    /\ phase \in {"start", "created", "collecting", "inserting"} => doomed = <<>>
    /\ doomed \in Seq(Droppable)
    /\ phase = "dropping" => \A i \in 1 .. Len(doomed) : RowsOf(doomed[i]) = {}

LEMMA TablesKnown ==
    ASSUME NEW o \in AllOptions
    PROVE  Tables(o) \subseteq AllTables
BY DEF Tables, AllTables, CallTables

\* one list more is in its table
LEMMA InsertTables ==
    ASSUME ListsInv, TablesInv, InsertData
    PROVE  TablesInv'
<1> DEFINE table == InsertOrder[step]
<1>1. /\ phase = "inserting" /\ phase' \in {"inserting", "dropping", "failed"}
      /\ UNCHANGED <<opts, lists>>
      /\ phase' # "failed" =>
           /\ lists[table] = {} \/ table \in DOMAIN db
           /\ db' = IF lists[table] = {} THEN db ELSE [db EXCEPT ![table] = lists[table]]
           /\ phase' = "inserting" => step # 19 /\ step' = step + 1
           /\ phase' = "dropping" => step = 19
  BY InsertOrderCovers DEF InsertData
<1>2. step \in 1 .. 19 /\ table \in AllTables /\ DOMAIN db \subseteq AllTables
      /\ DOMAIN db = Tables(opts)
  BY <1>1, InsertOrderCovers, TablesKnown, ExportAssumption DEF ListsInv, TablesInv
<1>3. CASE phase' = "failed"
  BY <1>1, <1>2, <1>3 DEF TablesInv, InsertData
<1>4. CASE phase' # "failed"
  <2> DEFINE Passed == Inserted \cup {table}
  <2>1. DOMAIN db' = DOMAIN db
    BY <1>1, <1>4
  <2>2. \A t \in AllTables : RowsOf(t)' = IF t \in Passed THEN lists'[t] ELSE {}
    <3> SUFFICES ASSUME NEW t \in AllTables
                 PROVE  RowsOf(t)' = IF t \in Passed THEN lists[t] ELSE {}
      BY <1>1
    <3>1. RowsOf(t) = IF t \in Inserted THEN lists[t] ELSE {}
      BY <1>1 DEF TablesInv
    <3> HIDE DEF table
    <3>2. CASE t = table
      BY <1>1, <1>4, <2>1, <3>1, <3>2 DEF RowsOf
    <3>3. CASE t # table
      BY <1>1, <1>4, <2>1, <3>1, <3>3 DEF RowsOf
    <3>4. QED
      BY <3>2, <3>3
  <2>3. CASE phase' = "inserting"
    <3>1. Inserted' = Passed
      <4>1. step' = step + 1 /\ step \in 1 .. 19
        BY <1>1, <1>2, <2>3
      <4>2. 1 .. step' - 1 = (1 .. step - 1) \cup {step}
        BY <4>1
      <4>3. QED
        BY <4>2 DEF Inserted
    <3>2. QED
      BY <1>1, <1>2, <2>1, <2>2, <2>3, <3>1 DEF TablesInv
  <2>4. CASE phase' = "dropping"
    <3>1. \A t \in AllTables : t \in Passed
      <4> SUFFICES ASSUME NEW t \in AllTables PROVE t \in Passed
        OBVIOUS
      <4>1. PICK j \in 1 .. 19 : InsertOrder[j] = t
        BY InsertOrderCovers
      <4>2. step = 19
        BY <1>1, <2>4
      <4>3. QED
        BY <4>1, <4>2 DEF Inserted
    <3>2. QED
      BY <1>1, <1>2, <2>1, <2>2, <2>4, <3>1 DEF TablesInv
  <2>5. QED
    BY <1>1, <1>4, <2>3, <2>4
<1>5. QED
  BY <1>3, <1>4


\* a drop less, of a table without rows or of a view
LEMMA DropTables ==
    ASSUME ListsInv, TablesInv, DropInv, DropUnused
    PROVE  TablesInv' /\ DropInv'
<1>1. /\ phase = "dropping" /\ UNCHANGED <<opts, lists, delivered>>
      /\ phase' \in {"dropping", "done", "failed"}
  BY DEF DropUnused, Drop, NextBlock
<1>2. doomed \in Seq(Droppable) /\ DOMAIN db \subseteq AllTables
  BY <1>1 DEF DropInv, TablesInv
<1>3. CASE doomed # <<>> /\ phase' # "failed"
  <2>1. /\ db' = [t \in DOMAIN db \ {Head(doomed)} |-> db[t]]
        /\ doomed' = Tail(doomed) /\ phase' = "dropping"
    BY <1>1, <1>3 DEF DropUnused, Drop, NextBlock
  <2>2. Len(doomed) \in Nat /\ Len(doomed) >= 1 /\ Head(doomed) = doomed[1]
    BY <1>2, <1>3
  <2>3. RowsOf(Head(doomed)) = {}
    <3>1. 1 \in 1 .. Len(doomed)
      BY <2>2
    <3>2. RowsOf(doomed[1]) = {}
      BY <1>1, <3>1 DEF DropInv
    <3>3. QED
      BY <2>2, <3>2
  <2>4. ASSUME NEW t PROVE RowsOf(t)' = RowsOf(t)
    BY <2>1, <2>3 DEF RowsOf
  <2>5. TablesInv'
    BY <1>1, <2>1, <2>4 DEF TablesInv
  <2>6. PICK s : s = Tail(doomed)
    OBVIOUS
  <2>7. /\ s \in Seq(Droppable) /\ Len(s) = Len(doomed) - 1
        /\ \A i \in 1 .. Len(s) : s[i] = doomed[i + 1]
    BY <1>2, <1>3, <2>6
  <2>8. ASSUME NEW i \in 1 .. Len(s)
        PROVE  RowsOf(s[i])' = {}
    <3>1. i + 1 \in 1 .. Len(doomed)
      BY <2>2, <2>7
    <3>2. RowsOf(doomed[i + 1]) = {}
      BY <1>1, <3>1 DEF DropInv
    <3>3. PICK t : t = s[i]
      OBVIOUS
    <3>4. RowsOf(t)' = {}
      BY <2>4, <2>7, <3>2, <3>3
    <3>5. QED
      BY <3>3, <3>4
  <2>9. QED
    BY <2>1, <2>5, <2>6, <2>7, <2>8 DEF DropInv
<1>4. CASE doomed = <<>>
  <2>1. UNCHANGED db
    BY <1>4 DEF DropUnused, Drop, NextBlock
  <2>2. TablesInv'
    BY <1>1, <2>1 DEF TablesInv, RowsOf
  <2>3. CASE phase' = "done"
    <3>1. UNCHANGED doomed
      BY <1>1, <1>4, <2>3 DEF DropUnused, Drop, NextBlock
    <3>2. QED
      BY <1>2, <2>2, <2>3, <3>1 DEF DropInv
  <2>4. CASE phase' = "dropping"
    <3>1. step <= 4 /\ doomed' = Block
      BY <1>1, <1>4, <2>4 DEF DropUnused, Drop, NextBlock
    <3>2. PICK s : s = Block
      OBVIOUS
    <3>3. SafeDrops(s)
      BY <3>1, <3>2, BlockSafe DEF ListsInv
    <3>4. ASSUME NEW i \in 1 .. Len(s)
          PROVE  RowsOf(s[i])' = {}
      <4>1. s[i] \in EventTables \/ s[i] \notin DOMAIN db
        BY <1>2, <3>3, NamesApart DEF SafeDrops, Droppable
      <4>2. QED
        BY <2>1, <3>3, <4>1 DEF SafeDrops, IsTableEmpty, RowsOf
    <3>5. QED
      BY <2>2, <2>4, <3>1, <3>2, <3>3, <3>4 DEF DropInv, SafeDrops
  <2>5. phase' # "failed"
    BY <1>1, <1>4 DEF DropUnused, Drop, NextBlock
  <2>6. QED
    BY <1>1, <2>3, <2>4, <2>5
<1>5. CASE doomed # <<>> /\ phase' = "failed"
  <2>1. UNCHANGED <<db, doomed>>
    BY <1>1, <1>5 DEF DropUnused, Drop, NextBlock
  <2>2. QED
    BY <1>1, <1>2, <1>5, <2>1 DEF TablesInv, DropInv
<1>6. QED
  BY <1>3, <1>4, <1>5

LEMMA TablesInvCorrect == Spec => [](TablesInv /\ DropInv)
<1>1. Init => TablesInv /\ DropInv
  BY DEF Init, ExportInit, SessionInit, TablesInv, DropInv
<1>2. /\ ListsInv /\ SessionInv /\ TablesInv /\ DropInv
      /\ SessionInv' /\ [Next]_vars
      => (TablesInv /\ DropInv)'
  <2> SUFFICES ASSUME ListsInv, SessionInv, TablesInv, DropInv, SessionInv', [Next]_vars
               PROVE  TablesInv' /\ DropInv'
    OBVIOUS
  <2>1. CASE CreateDatabase
    BY <2>1, TablesKnown, ExportAssumption DEF CreateDatabase, ListsInv, TablesInv, DropInv
  <2>2. CASE TraceBegin \/ (\E t \in Records \ Synthesized : Handle(t))
               \/ (\E t \in Records \cap Synthesized : HandleSynth(t))
    <3>1. /\ phase \in {"created", "collecting"} /\ phase' = "collecting"
          /\ UNCHANGED <<opts, db, step, doomed>>
      BY <2>2 DEF TraceBegin, Handle, HandleSynth
    <3>2. QED
      BY <3>1 DEF TablesInv, DropInv
  <2>3. CASE TraceEnd
    <3>1. Inserted = {} /\ step = 1
      BY <2>3 DEF TraceEnd, TablesInv, Inserted
    <3>2. Inserted' = Inserted
      BY <2>3 DEF TraceEnd, Inserted
    <3>3. QED
      BY <2>3, <3>1, <3>2 DEF TraceEnd, TablesInv, DropInv, RowsOf
  <2>4. CASE InsertData
    <3>1. DropInv'
      <4>1. phase = "inserting" /\ doomed = <<>> /\ UNCHANGED doomed
        BY <2>4 DEF InsertData, DropInv
      <4>2. Len(doomed) = 0
        BY <4>1
      <4>3. QED
        BY <4>1, <4>2 DEF DropInv
    <3>2. QED
      BY <2>4, <3>1, InsertTables
  <2>5. CASE DropUnused
    BY <2>5, DropTables
  <2>6. CASE (Killed \/ Refuse) /\ UNCHANGED sessionVars
    <3>1. /\ phase \notin {"refused", "analysed"} /\ phase' \in {"killed", "refused"}
          /\ UNCHANGED <<db, doomed>>
      BY <2>6 DEF Killed, Refuse
    <3>2. conn' = NoConn
      BY <2>6, <3>1 DEF SessionInv, sessionVars
    <3>3. QED
      BY <3>1, <3>2 DEF TablesInv, DropInv
  <2>7. CASE Definitions
    BY <2>7 DEF Definitions, TablesInv, DropInv
  <2>8. CASE EventsPrep
    <3>1. conn # NoConn /\ db # <<>>
      BY <2>8 DEF EventsPrep, NoConn
    <3>2. phase = "analysed" /\ UNCHANGED <<phase, doomed>> /\ DOMAIN db' \subseteq DOMAIN db
      BY <2>8, <3>1 DEF SessionInv, TablesInv, EventsPrep
    <3>3. QED
      BY <3>2 DEF TablesInv, DropInv
  <2>9. CASE Setup \/ TimeSeriesPrep \/ PlotTimeSeries \/ Teardown \/ UNCHANGED vars
    <3>1. UNCHANGED exportVars /\ (conn' # NoConn => conn # NoConn)
      BY <2>9 DEF Setup, TimeSeriesPrep, PlotTimeSeries, Teardown, vars, sessionVars
    <3>2. UNCHANGED Inserted /\ \A t : RowsOf(t)' = RowsOf(t)
      BY <3>1 DEF exportVars, Inserted, RowsOf
    <3>3. QED
      BY <3>1, <3>2 DEF exportVars, TablesInv, DropInv
  <2>10. QED
    BY <2>1, <2>2, <2>3, <2>4, <2>5, <2>6, <2>7, <2>8, <2>9
       DEF Next, Exporting, Analysing, ExportNext, ScriptSteps, SessionNext
<1>3. QED
  BY <1>1, <1>2, ListsInvCorrect, SessionInvCorrect, PTL DEF Spec


-----------------------------------------------------------------------------
(* Nothing is lost *)

(* The lists hold what perf passed to the handlers.                         *)
PassedOn == phase \in {"collecting", "inserting", "dropping", "done"} => lists = delivered

LEMMA PassedOnCorrect ==
    ASSUME Handlers \subseteq SoundHandlers
    PROVE  Spec => []PassedOn
<1>1. Init => PassedOn
  BY DEF Init, ExportInit, PassedOn
<1>2. PassedOn /\ [Next]_vars => PassedOn'
  <2> SUFFICES ASSUME PassedOn, [Next]_vars PROVE PassedOn'
    OBVIOUS
  <2>1. CASE TraceBegin
    BY <2>1 DEF TraceBegin, PassedOn
  <2>2. ASSUME NEW t \in Records \ Synthesized, Handle(t) PROVE PassedOn'
    BY <2>2 DEF Handle, PassedOn
  <2>3. ASSUME NEW t \in Records \cap Synthesized, HandleSynth(t) PROVE PassedOn'
    <3>1. SynthList(t) = t
      BY SynthTables DEF Records, SoundHandlers
    <3>2. QED
      BY <2>3, <3>1 DEF HandleSynth, PassedOn
  <2>4. CASE CreateDatabase \/ InsertData \/ DropUnused \/ TraceEnd \/ Killed \/ Refuse
    BY <2>4 DEF CreateDatabase, InsertData, DropUnused, Drop, NextBlock, TraceEnd, Killed, Refuse,
                PassedOn
  <2>5. CASE SessionNext \/ UNCHANGED vars
    BY <2>5 DEF SessionNext, Definitions, Setup, TimeSeriesPrep, EventsPrep, PlotTimeSeries,
                Teardown, vars, exportVars, PassedOn
  <2>6. QED
    BY <2>1, <2>2, <2>3, <2>4, <2>5 DEF Next, Exporting, Analysing, ExportNext, ScriptSteps
<1>3. QED
  BY <1>1, <1>2, PTL DEF Spec

(* When the script is done, every record that perf passed to a handler is   *)
(* in the table of its type, for a trace without ptwrite records (whose     *)
(* rows the script puts into the list of calls).                            *)
THEOREM NothingLostCorrect ==
    ASSUME Handlers \subseteq SoundHandlers
    PROVE  Spec => []NothingLost
<1>1. TablesInv /\ PassedOn => NothingLost
  BY DEF TablesInv, PassedOn, NothingLost, RowsOf
<1>2. QED
  BY <1>1, TablesInvCorrect, PassedOnCorrect, PTL

-----------------------------------------------------------------------------
(* References *)

Ids(f, u) == {s.id : s \in f[u]}
RefersIn(f) == \A t \in AllTables : \A r \in f[t] : \A u \in References(t) : r.ref \in Ids(f, u)

(* What a row collected refers to is collected, and so is the unknown row   *)
(* of every table that a row may refer to.                                  *)
RefsInv ==
    /\ phase \in {"collecting", "inserting", "dropping", "done"} => RefersIn(lists)
    /\ phase = "collecting" =>
         \A t \in Tables(opts) : \A u \in References(t) : Unknown \in lists[u]

\* a handler adds a row whose reference leads to a row
LEMMA RefersGrows ==
    ASSUME NEW f, ListsOK(f), RefersIn(f), NEW t \in AllTables, NEW row,
           \A u \in References(t) : row.ref \in Ids(f, u)
    PROVE  LET g == [f EXCEPT ![t] = @ \cup {row}]
           IN  RefersIn(g) /\ \A u \in AllTables : f[u] \subseteq g[u]
<1> DEFINE g == [f EXCEPT ![t] = @ \cup {row}]
<1>1. /\ \A u \in AllTables : f[u] \subseteq g[u] /\ (u # t => g[u] = f[u])
      /\ g[t] = f[t] \cup {row}
  BY DEF ListsOK
<1> HIDE DEF g
<1>2. \A u \in AllTables : Ids(f, u) \subseteq Ids(g, u)
  BY <1>1 DEF Ids
<1>3. ASSUME NEW w \in AllTables, NEW r \in g[w], NEW u \in References(w)
      PROVE  r.ref \in Ids(g, u)
  <2>1. u \in AllTables
    BY ReferencedTables DEF UnknownRows, AllTables, Tables, CallTables
  <2>2. r.ref \in Ids(f, u)
    BY <1>1, <1>3 DEF RefersIn
  <2>3. QED
    BY <1>2, <2>1, <2>2
<1>4. QED
  BY <1>1, <1>3 DEF RefersIn, g

\* the ids that perf may refer to, with those of the rows for the unknown
LEMMA ReferableIds ==
    ASSUME RefsInv, PassedOn, phase = "collecting", NEW t \in Tables(opts),
           NEW ref \in Referable(t), NEW u \in References(t)
    PROVE  ref \in Ids(lists, u)
<1>1. lists = delivered /\ Unknown \in lists[u]
  BY DEF RefsInv, PassedOn
<1>2. ref = 0 \/ ref \in Ids(delivered, u)
  BY DEF Referable, Ids
<1>3. 0 \in Ids(lists, u)
  BY <1>1 DEF Ids, Unknown
<1>4. QED
  BY <1>1, <1>2, <1>3

LEMMA BegunRefs ==
    ASSUME ListsInv, TraceBegin
    PROVE  RefsInv'
<1> DEFINE begun == [t \in AllTables |->
                       IF t \in UnknownRows \cup UnknownCalls THEN {Unknown} ELSE {}]
<1>1. lists' = begun /\ phase' = "collecting" /\ UNCHANGED opts
  BY DEF TraceBegin
<1>2. ASSUME NEW t \in AllTables, NEW u \in References(t),
             t \in Tables(opts) \/ begun[t] # {}
      PROVE  begun[u] = {Unknown}
  <2>1. u \in AllTables
    BY ReferencedTables DEF UnknownRows, AllTables, Tables, CallTables
  <2>2. CASE u \in UnknownRows
    BY <2>1, <2>2
  <2>3. CASE u = "call_paths"
    <3>1. t \in {"call_paths", "calls"}
      BY <2>3, ReferencedTables
    <3>2. t \notin UnknownRows
      BY <3>1 DEF UnknownRows, ObjectTables
    <3>3. t \notin ObjectTables \cup EventTables
      BY <3>1 DEF ObjectTables, EventTables, PowerTables
    <3>4. opts.calls \/ opts.callchains
      BY <1>2, <3>1, <3>2, <3>3 DEF UnknownCalls, Tables, CallTables
    <3>5. QED
      BY <2>1, <2>3, <3>4 DEF UnknownCalls
  <2>4. QED
    BY <2>2, <2>3, ReferencedTables
<1>3. \A t \in AllTables : begun[t] \subseteq {Unknown}
  OBVIOUS
<1> HIDE DEF begun
<1>4. RefersIn(begun)
  <2>1. ASSUME NEW t \in AllTables, NEW r \in begun[t], NEW u \in References(t)
        PROVE  r.ref \in Ids(begun, u)
    <3>1. r = Unknown /\ begun[u] = {Unknown}
      BY <1>2, <1>3
    <3>2. QED
      BY <3>1 DEF Ids, Unknown
  <2>2. QED
    BY <2>1 DEF RefersIn
<1>5. \A t \in Tables(opts) : \A u \in References(t) : Unknown \in begun[u]
  BY <1>2, TablesKnown, ExportAssumption DEF ListsInv
<1>6. QED
  BY <1>1, <1>4, <1>5 DEF RefsInv

LEMMA HandleRefs ==
    ASSUME ListsInv, RefsInv, PassedOn, NEW t \in Records, Handle(t)
    PROVE  RefsInv'
<1>1. t \in Tables(opts) /\ t \in AllTables
  BY ExportAssumption DEF Records
<1>2. phase = "collecting" /\ UNCHANGED <<phase, opts>>
  BY DEF Handle
<1>3. PICK ref \in Referable(t) :
        LET row == [id |-> NextId(t), ref |-> ref]
        IN  lists' = [lists EXCEPT ![t] = @ \cup {row}]
  BY DEF Handle
<1> DEFINE row == [id |-> NextId(t), ref |-> ref]
<1>4. \A u \in References(t) : row.ref \in Ids(lists, u)
  BY <1>1, <1>2, ReferableIds
<1>5. RefersIn(lists') /\ \A u \in AllTables : lists[u] \subseteq lists'[u]
  BY <1>1, <1>2, <1>3, <1>4, RefersGrows DEF RefsInv, ListsInv
<1>6. ASSUME NEW w \in Tables(opts), NEW u \in References(w)
      PROVE  Unknown \in lists'[u]
  <2>1. u \in AllTables
    BY TablesKnown, ReferencedTables, ExportAssumption
       DEF ListsInv, UnknownRows, AllTables, Tables, CallTables
  <2>2. QED
    BY <1>2, <1>5, <2>1 DEF RefsInv
<1>7. QED
  BY <1>2, <1>5, <1>6 DEF RefsInv

LEMMA SynthRefs ==
    ASSUME ListsInv, RefsInv, PassedOn, Handlers \subseteq SoundHandlers,
           NEW t \in Records \cap Synthesized, HandleSynth(t)
    PROVE  RefsInv'
<1>1. t \in Tables(opts) /\ t \in AllTables /\ t # "samples" /\ SynthList(t) = t
  BY SynthTables DEF Records, SoundHandlers
<1>2. "samples" \in Tables(opts) /\ "samples" \in AllTables
  BY DEF Tables, ObjectTables, AllTables
<1>3. phase = "collecting" /\ UNCHANGED <<phase, opts>>
  BY DEF HandleSynth
<1>4. PICK ref \in Referable("samples") :
        LET sample == [id |-> NextId("samples"), ref |-> ref]
            row == [id |-> sample.id, ref |-> sample.id]
        IN  lists' = [lists EXCEPT !["samples"] = @ \cup {sample}, ![t] = @ \cup {row}]
  BY <1>1 DEF HandleSynth
<1> DEFINE sample == [id |-> NextId("samples"), ref |-> ref]
           row == [id |-> sample.id, ref |-> sample.id]
           mid == [lists EXCEPT !["samples"] = @ \cup {sample}]
<1>5. lists' = [mid EXCEPT ![t] = @ \cup {row}]
  <2>1. lists' = [lists EXCEPT !["samples"] = @ \cup {sample}, ![t] = @ \cup {row}]
    BY <1>4
  <2> HIDE DEF sample, row
  <2>2. QED
    BY <1>1, <1>2, <2>1, TwoUpdates DEF ListsInv
<1>6. sample \in Row
  BY <1>2, <1>4, NewRow
<1>6a. row.ref = sample.id
  OBVIOUS
<1> HIDE DEF row
<1>7. ListsOK(mid)
  BY <1>2, <1>6, ListGrows DEF ListsInv
<1>8. RefersIn(mid) /\ \A u \in AllTables : lists[u] \subseteq mid[u]
  <2>1. \A u \in References("samples") : sample.ref \in Ids(lists, u)
    BY <1>2, <1>3, <1>4, ReferableIds
  <2>2. QED
    BY <1>2, <1>3, <2>1, RefersGrows DEF RefsInv, ListsInv
<1>9. sample \in mid["samples"]
  BY <1>2 DEF ListsInv, ListsOK
<1> HIDE DEF mid
<1>10. \A u \in References(t) : row.ref \in Ids(mid, u)
  <2>1. References(t) = {"samples"}
    BY <1>1, ReferencedTables
  <2>2. row.ref = sample.id
    BY <1>6a
  <2>3. QED
    BY <1>9, <2>1, <2>2 DEF Ids
<1>11. RefersIn(lists') /\ \A u \in AllTables : mid[u] \subseteq lists'[u]
  BY <1>1, <1>5, <1>7, <1>8, <1>10, RefersGrows
<1>12. ASSUME NEW w \in Tables(opts), NEW u \in References(w)
       PROVE  Unknown \in lists'[u]
  <2>1. u \in AllTables
    BY TablesKnown, ReferencedTables, ExportAssumption
       DEF ListsInv, UnknownRows, AllTables, Tables, CallTables
  <2>2. QED
    BY <1>3, <1>8, <1>11, <2>1 DEF RefsInv
<1>13. QED
  BY <1>3, <1>11, <1>12 DEF RefsInv

LEMMA RefsInvCorrect ==
    ASSUME Handlers \subseteq SoundHandlers
    PROVE  Spec => []RefsInv
<1>1. Init => RefsInv
  BY DEF Init, ExportInit, RefsInv
<1>2. RefsInv /\ ListsInv /\ PassedOn /\ [Next]_vars => RefsInv'
  <2> SUFFICES ASSUME RefsInv, ListsInv, PassedOn, [Next]_vars PROVE RefsInv'
    OBVIOUS
  <2>1. CASE TraceBegin
    BY <2>1, BegunRefs
  <2>2. ASSUME NEW t \in Records \ Synthesized, Handle(t) PROVE RefsInv'
    BY <2>2, HandleRefs
  <2>3. ASSUME NEW t \in Records \cap Synthesized, HandleSynth(t) PROVE RefsInv'
    BY <2>3, SynthRefs
  <2>4. CASE CreateDatabase \/ InsertData \/ DropUnused \/ TraceEnd \/ Killed \/ Refuse
    BY <2>4 DEF CreateDatabase, InsertData, DropUnused, Drop, NextBlock, TraceEnd, Killed, Refuse,
                RefsInv
  <2>5. CASE SessionNext \/ UNCHANGED vars
    BY <2>5 DEF SessionNext, Definitions, Setup, TimeSeriesPrep, EventsPrep, PlotTimeSeries,
                Teardown, vars, exportVars, RefsInv
  <2>6. QED
    BY <2>1, <2>2, <2>3, <2>4, <2>5 DEF Next, Exporting, Analysing, ExportNext, ScriptSteps
<1>3. QED
  BY <1>1, <1>2, ListsInvCorrect, PassedOnCorrect, PTL DEF Spec

\* the joins of tables that hold their lists
LEMMA LoadedJoins ==
    ASSUME ListsInv, TablesInv, RefsInv, phase \in {"inserting", "dropping", "done"}
    PROVE  JoinsComplete
<1> SUFFICES ASSUME NEW t \in DOMAIN db, NEW r \in db[t], NEW u \in References(t)
             PROVE  u \in DOMAIN db /\ r.ref \in Ids(db, u)
  BY DEF JoinsComplete, Ids
<1>1. t \in AllTables /\ u \in AllTables
  BY TablesKnown, ReferencedTables, ExportAssumption
     DEF ListsInv, TablesInv, UnknownRows, AllTables, Tables, CallTables
<1>2. r \in lists[t] /\ RowsOf(u) = lists[u]
  <2>1. CASE phase = "inserting"
    <3>1. t \in Inserted /\ r \in lists[t]
      BY <1>1, <2>1 DEF TablesInv, RowsOf
    <3>2. PICK j \in 1 .. step - 1 : InsertOrder[j] = t
      BY <3>1 DEF Inserted
    <3>3. j \in 1 .. 19
      BY <3>2 DEF ListsInv
    <3>4. PICK i \in 1 .. j : InsertOrder[i] = u
      BY <3>2, <3>3, InsertOrderSound
    <3>5. i \in 1 .. step - 1
      BY <3>2, <3>4 DEF ListsInv
    <3>6. u \in Inserted
      BY <3>4, <3>5 DEF Inserted
    <3>7. QED
      BY <1>1, <2>1, <3>1, <3>6 DEF TablesInv
  <2>2. CASE phase \in {"dropping", "done"}
    BY <1>1, <2>2 DEF TablesInv, RowsOf
  <2>3. QED
    BY <2>1, <2>2
<1>3. r.ref \in Ids(lists, u)
  BY <1>1, <1>2 DEF RefsInv, RefersIn
<1>4. lists[u] # {}
  BY <1>3 DEF Ids
<1>5. QED
  BY <1>2, <1>3, <1>4 DEF RowsOf, Ids

(* Whatever a killed script leaves, in the middle of the inserts or of the  *)
(* drops, every row refers to rows that are there: the joins of the views   *)
(* leave none out.                                                          *)
THEOREM JoinsCompleteCorrect ==
    ASSUME Handlers \subseteq SoundHandlers
    PROVE  Spec => []JoinsComplete
<1> DEFINE Loaded == phase \in {"inserting", "dropping", "done"}
<1>1. Init => JoinsComplete
  BY DEF Init, ExportInit, JoinsComplete
<1>2. /\ JoinsComplete /\ TablesInv /\ (Loaded => JoinsComplete)' /\ [Next]_vars
      => JoinsComplete'
  <2> SUFFICES ASSUME JoinsComplete, TablesInv, Loaded' => JoinsComplete', [Next]_vars
               PROVE  JoinsComplete'
    OBVIOUS
  <2>1. CASE Loaded'
    BY <2>1
  <2>2. CASE UNCHANGED db
    BY <2>2 DEF JoinsComplete
  <2>3. CASE CreateDatabase
    BY <2>3 DEF CreateDatabase, JoinsComplete
  <2>4. CASE EventsPrep
    <3>1. db' = [t \in DOMAIN db \ {"context_switches"} |-> db[t]]
      BY <2>4 DEF EventsPrep
    <3>2. ASSUME NEW t \in DOMAIN db
          PROVE  "context_switches" \notin References(t)
      BY ReferencedTables DEF TablesInv, UnknownRows, ObjectTables
    <3>3. QED
      BY <3>1, <3>2 DEF JoinsComplete
  <2>5. QED
    BY <2>1, <2>2, <2>3, <2>4
       DEF Next, Exporting, Analysing, ExportNext, ScriptSteps, TraceBegin, InsertData,
           DropUnused, Drop, NextBlock, Handle, HandleSynth, TraceEnd, Killed, Refuse, SessionNext,
           Definitions, Setup, TimeSeriesPrep, PlotTimeSeries, Teardown, vars, exportVars
<1>3. ListsInv /\ TablesInv /\ RefsInv => (Loaded => JoinsComplete)
  BY LoadedJoins
<1> HIDE DEF Loaded
<1>4. QED
  BY <1>1, <1>2, <1>3, ListsInvCorrect, TablesInvCorrect, RefsInvCorrect, PTL DEF Spec


-----------------------------------------------------------------------------
(* Views *)

Behind(v, i) == v \in views => \E k \in 1 .. i - 1 : doomed[k] = v

(* A table is dropped after the views that read it.                         *)
ViewsInv ==
    /\ views \subseteq Views(opts)
    /\ phase \in {"created", "collecting", "inserting"} => views = Views(opts)
    /\ phase = "dropping" => \A i \in 1 .. Len(doomed) : doomed[i] \in EventTables =>
         /\ Behind(ViewOf[doomed[i]], i)
         /\ doomed[i] \in ViewOverPower => Behind("power_events_view", i)

\* the next name to drop is read by no view
LEMMA NextIsUnread ==
    ASSUME ListsInv, DropInv, ViewsInv, phase = "dropping", doomed # <<>>, NEW v \in views
    PROVE  Head(doomed) \notin Reads(v)
<1>1. /\ doomed \in Seq(Droppable) /\ 1 \in 1 .. Len(doomed)
      /\ Head(doomed) = doomed[1] /\ doomed[1] \in Droppable
  BY DEF DropInv
<1>2. \A w : Behind(w, 1) => w \notin views
  BY DEF Behind
<1>3. ASSUME doomed[1] \in Reads(v)
      PROVE  FALSE
  <2>1. /\ doomed[1] \in EventTables
        /\ \/ v = ViewOf[doomed[1]]
           \/ v = "power_events_view" /\ doomed[1] \in ViewOverPower
    BY <1>1, <1>3, Readers, ExportAssumption DEF ListsInv, ViewsInv, Droppable
  <2>2. v \notin views
    BY <1>1, <1>2, <2>1 DEF ViewsInv
  <2>3. QED
    BY <2>2
<1>4. QED
  BY <1>1, <1>3

LEMMA DropViews ==
    ASSUME ListsInv, TablesInv, DropInv, ViewsInv, ViewsReadable, DropUnused
    PROVE  ViewsInv' /\ ViewsReadable'
<1>1. phase = "dropping" /\ phase' \in {"dropping", "done", "failed"} /\ UNCHANGED opts
  BY DEF DropUnused, Drop, NextBlock
<1>2. CASE doomed # <<>> /\ phase' # "failed"
  <2>1. PICK h, s : h = Head(doomed) /\ s = Tail(doomed)
    OBVIOUS
  <2>2. /\ views' = views \ {h} /\ DOMAIN db' = DOMAIN db \ {h}
        /\ doomed' = s /\ phase' = "dropping"
    BY <1>1, <1>2, <2>1 DEF DropUnused, Drop, NextBlock
  <2>3. ViewsReadable'
    BY <1>1, <1>2, <2>1, <2>2, NextIsUnread DEF ViewsReadable
  <2>4. /\ Len(doomed) \in Nat /\ Len(s) = Len(doomed) - 1 /\ h = doomed[1]
        /\ \A i \in 1 .. Len(s) : s[i] = doomed[i + 1]
    BY <1>2, <2>1 DEF DropInv
  <2>5. ASSUME NEW i \in 1 .. Len(s), NEW v, Behind(v, i + 1)
        PROVE  Behind(v, i)'
    <3>1. SUFFICES ASSUME v \in views \ {h} PROVE \E k \in 1 .. i - 1 : s[k] = v
      BY <2>2 DEF Behind
    <3>2. PICK k \in 1 .. i : doomed[k] = v
      BY <2>5, <3>1 DEF Behind
    <3>3. k # 1
      BY <2>4, <3>1, <3>2
    <3>4. k - 1 \in 1 .. i - 1 /\ s[k - 1] = doomed[k]
      BY <2>4, <3>2, <3>3
    <3>5. QED
      BY <3>2, <3>4
  <2>6. ASSUME NEW i \in 1 .. Len(s), s[i] \in EventTables
        PROVE  Behind(ViewOf[s[i]], i + 1)
               /\ (s[i] \in ViewOverPower => Behind("power_events_view", i + 1))
    <3>1. i + 1 \in 1 .. Len(doomed) /\ s[i] = doomed[i + 1]
      BY <2>4
    <3>2. QED
      BY <1>1, <2>6, <3>1 DEF ViewsInv
  <2>7. views' \subseteq Views(opts')
    BY <1>1, <2>2 DEF ViewsInv
  <2>8. ASSUME NEW i \in 1 .. Len(s), s[i] \in EventTables
        PROVE  /\ \A v : v = ViewOf[s[i]] => Behind(v, i)'
               /\ s[i] \in ViewOverPower => Behind("power_events_view", i)'
    BY <2>5, <2>6, <2>8
  <2>9. QED
    BY <2>2, <2>3, <2>7, <2>8 DEF ViewsInv
<1>3. CASE doomed = <<>>
  <2>1. UNCHANGED <<views, db>>
    BY <1>3 DEF DropUnused, Drop, NextBlock
  <2>2. ViewsReadable'
    BY <1>1, <2>1 DEF ViewsReadable
  <2>3. views' \subseteq Views(opts')
    BY <1>1, <2>1 DEF ViewsInv
  <2>4. CASE phase' = "done"
    BY <2>2, <2>3, <2>4 DEF ViewsInv
  <2>5. CASE phase' = "dropping"
    <3>1. PICK s : s = Block
      OBVIOUS
    <3>2. doomed' = s /\ SafeDrops(s)
      BY <1>1, <1>3, <2>5, <3>1, BlockSafe DEF DropUnused, Drop, NextBlock, ListsInv
    <3>3. ASSUME NEW i \in 1 .. Len(s), s[i] \in EventTables
          PROVE  /\ \A v : v = ViewOf[s[i]] => Behind(v, i)'
                 /\ s[i] \in ViewOverPower => Behind("power_events_view", i)'
      BY <3>2, <3>3 DEF SafeDrops, Behind
    <3>4. QED
      BY <2>2, <2>3, <2>5, <3>2, <3>3 DEF ViewsInv
  <2>6. phase' # "failed"
    BY <1>1, <1>3 DEF DropUnused, Drop, NextBlock
  <2>7. QED
    BY <1>1, <2>4, <2>5, <2>6
<1>4. CASE doomed # <<>> /\ phase' = "failed"
  <2>1. UNCHANGED <<views, db>>
    BY <1>1, <1>4 DEF DropUnused, Drop, NextBlock
  <2>2. QED
    BY <1>1, <1>4, <2>1 DEF ViewsInv, ViewsReadable
<1>5. QED
  BY <1>2, <1>3, <1>4

LEMMA ViewsInvCorrect == Spec => [](ViewsInv /\ ViewsReadable)
<1>1. Init => ViewsInv /\ ViewsReadable
  BY DEF Init, ExportInit, ViewsInv, ViewsReadable
<1>2. /\ ListsInv /\ SessionInv /\ TablesInv /\ DropInv /\ ViewsInv /\ ViewsReadable
      /\ [Next]_vars
      => (ViewsInv /\ ViewsReadable)'
  <2> SUFFICES ASSUME ListsInv, SessionInv, TablesInv, DropInv, ViewsInv, ViewsReadable,
                      [Next]_vars
               PROVE  ViewsInv' /\ ViewsReadable'
    OBVIOUS
  <2>1. CASE CreateDatabase
    <3>1. opts \in AllOptions /\ UNCHANGED opts
      BY <2>1, ExportAssumption DEF CreateDatabase, ListsInv
    <3>2. DOMAIN db' = Tables(opts) /\ views' = Views(opts) /\ phase' = "created"
      BY <2>1 DEF CreateDatabase
    <3>3. QED
      BY <3>1, <3>2, ReadsExists DEF ViewsInv, ViewsReadable
  <2>2. CASE \/ TraceBegin \/ TraceEnd \/ InsertData \/ Killed \/ Refuse
             \/ \E t \in Records \ Synthesized : Handle(t)
             \/ \E t \in Records \cap Synthesized : HandleSynth(t)
    <3>1. /\ UNCHANGED <<opts, views, doomed>> /\ phase \notin {"start", "analysed"}
          /\ phase' \in {"created", "collecting", "inserting"} =>
               phase \in {"created", "collecting", "inserting"}
          /\ phase' = "dropping" => phase = "inserting"
      BY <2>2 DEF TraceBegin, TraceEnd, InsertData, Killed, Refuse, Handle, HandleSynth
    <3>2. DOMAIN db' = DOMAIN db
      BY <2>2 DEF TraceBegin, TraceEnd, InsertData, Killed, Refuse, Handle, HandleSynth
    <3>3. phase' = "dropping" => Len(doomed) = 0
      BY <3>1 DEF DropInv
    <3>4. QED
      BY <3>1, <3>2, <3>3 DEF ViewsInv, ViewsReadable
  <2>3. CASE DropUnused
    BY <2>3, DropViews
  <2>4. CASE Definitions
    BY <2>4 DEF Definitions, ViewsInv, ViewsReadable
  <2>5. CASE EventsPrep
    <3>1. conn # NoConn /\ db # <<>>
      BY <2>5 DEF EventsPrep, NoConn
    <3>2. phase = "analysed" /\ UNCHANGED <<phase, opts, views>>
      BY <2>5, <3>1 DEF SessionInv, TablesInv, EventsPrep
    <3>3. QED
      BY <3>2 DEF ViewsInv, ViewsReadable
  <2>6. CASE Setup \/ TimeSeriesPrep \/ PlotTimeSeries \/ Teardown \/ UNCHANGED vars
    BY <2>6 DEF Setup, TimeSeriesPrep, PlotTimeSeries, Teardown, vars, exportVars,
                ViewsInv, ViewsReadable, Behind
  <2>7. QED
    BY <2>1, <2>2, <2>3, <2>4, <2>5, <2>6
       DEF Next, Exporting, Analysing, ExportNext, ScriptSteps, SessionNext
<1>3. QED
  BY <1>1, <1>2, ListsInvCorrect, SessionInvCorrect, TablesInvCorrect, PTL DEF Spec

(* A view of the database never reads a table or a view that is not there,  *)
(* not between two drops of trace_end either, and not in what a script      *)
(* leaves that failed or was killed.                                        *)
THEOREM ViewsReadableCorrect == Spec => []ViewsReadable
BY ViewsInvCorrect, PTL
-----------------------------------------------------------------------------
(* What trace_end drops is there *)

\* what the blocks of drops from the b-th on may drop
PowerNames == ViewOverPower \cup {ViewOf[t] : t \in ViewOverPower} \cup {"power_events_view"}
NamesOf(t) == {t, ViewOf[t]}
DropNames(b) == (IF b <= 1 THEN NamesOf("ptwrite") ELSE {})
                  \cup (IF b <= 2 THEN PowerNames ELSE {})
                  \cup (IF b <= 3 THEN NamesOf("context_switches") ELSE {})
                  \cup (IF b <= 4 THEN NamesOf("auxtrace_errors") ELSE {})

\* the tables that the b-th block asks about
Asked(b) == CASE b = 1 -> {"ptwrite"}
              [] b = 2 -> ViewOverPower
              [] b = 3 -> {"context_switches"}
              [] b = 4 -> {"auxtrace_errors"}

Distinct(s, N) == /\ s \in Seq(N)
                  /\ \A i, j \in 1 .. Len(s) : s[i] = s[j] => i = j

(* No name is left to be dropped twice, and none that a later block drops is *)
(* gone.                                                                     *)
LeftInv ==
    phase = "dropping" =>
        /\ DropNames(step) \subseteq views \cup DOMAIN db
        /\ Distinct(doomed, (views \cup DOMAIN db) \ DropNames(step))

(* "DROP VIEW" and "DROP TABLE" (export_to_duckdb.py:647-649) find what they *)
(* name, and is_table_empty the table it asks about: no statement after the *)
(* inserts raises.                                                           *)
DropsFindNames ==
    phase = "dropping" =>
        /\ \A i \in DOMAIN doomed : doomed[i] \in views \cup DOMAIN db
        /\ doomed = <<>> /\ step <= 4 => Asked(step) \subseteq DOMAIN db

LEMMA DistinctWider ==
    ASSUME NEW s, NEW A, NEW B, Distinct(s, A), A \subseteq B
    PROVE  Distinct(s, B)
BY DEF Distinct

LEMMA DistinctConcat ==
    ASSUME NEW s, NEW r, NEW A, NEW B, Distinct(s, A), Distinct(r, B), A \cap B = {}
    PROVE  Distinct(s \o r, A \cup B)
<1> DEFINE q == s \o r
           n == Len(s)
<1>1. /\ s \in Seq(A \cup B) /\ r \in Seq(A \cup B) /\ n \in Nat /\ Len(r) \in Nat
      /\ \A i \in 1 .. n : s[i] \in A
      /\ \A i \in 1 .. Len(r) : r[i] \in B
  BY DEF Distinct
<1>2. /\ q \in Seq(A \cup B) /\ Len(q) = n + Len(r)
      /\ \A i \in 1 .. n : q[i] = s[i]
      /\ \A i \in n + 1 .. n + Len(r) : q[i] = r[i - n]
  BY <1>1
<1> HIDE DEF q, n
<1>3. ASSUME NEW i \in 1 .. Len(q), NEW j \in 1 .. Len(q), q[i] = q[j]
      PROVE  i = j
  <2>1. CASE i <= n /\ j <= n
    BY <1>1, <1>2, <1>3, <2>1 DEF Distinct, n
  <2>2. CASE i > n /\ j > n
    <3>1. i - n \in 1 .. Len(r) /\ j - n \in 1 .. Len(r) /\ r[i - n] = r[j - n]
      BY <1>1, <1>2, <1>3, <2>2
    <3>2. i - n = j - n
      BY <3>1 DEF Distinct
    <3>3. QED
      BY <1>1, <3>2
  <2>3. ASSUME NEW k \in 1 .. n, NEW l \in n + 1 .. n + Len(r), q[k] = q[l]
        PROVE  FALSE
    <3>1. l - n \in 1 .. Len(r)
      BY <1>1
    <3>2. q[k] \in A /\ q[l] \in B
      BY <1>1, <1>2, <3>1
    <3>3. QED
      BY <2>3, <3>2
  <2>4. CASE i <= n /\ j > n
    BY <1>1, <1>2, <1>3, <2>3, <2>4
  <2>5. CASE i > n /\ j <= n
    BY <1>1, <1>2, <1>3, <2>3, <2>5
  <2>6. QED
    BY <1>1, <1>2, <2>1, <2>2, <2>4, <2>5
<1>4. QED
  BY <1>2, <1>3 DEF Distinct, q

\* names of different tables and of their views differ
LEMMA NamesDiffer ==
    /\ \A t \in EventTables : /\ ViewOf[t] \notin EventTables
                              /\ ViewOf[t] # "power_events_view" /\ t # "power_events_view"
    /\ \A t, u \in EventTables : t # u => ViewOf[t] # ViewOf[u]
    /\ {"ptwrite", "context_switches", "auxtrace_errors"} \cup ViewOverPower \subseteq EventTables
BY DEF ViewOf, EventTables, PowerTables, ViewOverPower

LEMMA DroppedDistinct ==
    ASSUME NEW t \in EventTables
    PROVE  Distinct(Dropped(t), NamesOf(t))
<1> DEFINE s == <<ViewOf[t], t>>
<1>1. s \in Seq(NamesOf(t)) /\ Len(s) = 2 /\ s[1] = ViewOf[t] /\ s[2] = t
  BY DEF NamesOf
<1>2. ViewOf[t] # t
  BY NamesDiffer
<1> HIDE DEF s
<1>3. Distinct(s, NamesOf(t))
  BY <1>1, <1>2 DEF Distinct
<1>4. QED
  BY <1>3 DEF Dropped, s

LEMMA EmptyDistinct == \A N : Distinct(<<>>, N)
BY DEF Distinct

LEMMA DropMoreDistinct ==
    ASSUME NEW s, NEW A, Distinct(s, A), NEW t \in EventTables, NamesOf(t) \cap A = {}
    PROVE  Distinct(s \o Dropped(t), A \cup NamesOf(t))
BY DroppedDistinct, DistinctConcat

LEMMA PowerBlockDistinct == Distinct(PowerBlock, PowerNames)
<1>1. CASE \A t \in PowerTables : IsTableEmpty(t)
  <2> DEFINE A0 == {"power_events_view"}
             A1 == A0 \cup NamesOf("mwait")
             A2 == A1 \cup NamesOf("pwre")
             A3 == A2 \cup NamesOf("exstop")
             A4 == A3 \cup NamesOf("pwrx")
             A5 == A4 \cup NamesOf("cbr")
             s0 == <<"power_events_view">>
             s1 == s0 \o Dropped("mwait")
             s2 == s1 \o Dropped("pwre")
             s3 == s2 \o Dropped("exstop")
             s4 == s3 \o Dropped("pwrx")
  <2>1. {"mwait", "pwre", "exstop", "pwrx", "cbr"} \subseteq EventTables
    BY DEF EventTables, PowerTables
  <2>2. /\ NamesOf("mwait") \cap A0 = {} /\ NamesOf("pwre") \cap A1 = {}
        /\ NamesOf("exstop") \cap A2 = {} /\ NamesOf("pwrx") \cap A3 = {}
        /\ NamesOf("cbr") \cap A4 = {}
    BY DEF NamesOf, ViewOf
  <2>3. Distinct(s0, A0)
    BY DEF Distinct
  <2>4. A5 = PowerNames /\ A4 \subseteq PowerNames
    BY DEF PowerNames, NamesOf, ViewOverPower, PowerTables
  <2>5. PowerBlock = s4 \o (IF IsTableEmpty("cbr") THEN Dropped("cbr") ELSE <<>>)
    BY <1>1 DEF PowerBlock
  <2> HIDE DEF A0, s0
  <2>6. Distinct(s1, A1)
    BY <2>1, <2>2, <2>3, DropMoreDistinct
  <2> HIDE DEF A1, s1
  <2>7. Distinct(s2, A2)
    BY <2>1, <2>2, <2>6, DropMoreDistinct
  <2> HIDE DEF A2, s2
  <2>8. Distinct(s3, A3)
    BY <2>1, <2>2, <2>7, DropMoreDistinct
  <2> HIDE DEF A3, s3
  <2>9. Distinct(s4, A4)
    BY <2>1, <2>2, <2>8, DropMoreDistinct
  <2> HIDE DEF A4, s4
  <2>10. Distinct(s4 \o Dropped("cbr"), A5)
    BY <2>1, <2>2, <2>9, DropMoreDistinct
  <2> HIDE DEF A5
  <2>11. s4 \o <<>> = s4
    BY <2>9 DEF Distinct
  <2>12. Distinct(s4, PowerNames)
    BY <2>4, <2>9, DistinctWider
  <2>13. QED
    BY <2>4, <2>5, <2>10, <2>11, <2>12
<1>2. CASE ~\A t \in PowerTables : IsTableEmpty(t)
  BY <1>2, EmptyDistinct DEF PowerBlock
<1>3. QED
  BY <1>1, <1>2

\* a block drops, each once, names that no later one drops
LEMMA BlockDistinct ==
    ASSUME step \in 1 .. 4
    PROVE  Distinct(Block, DropNames(step) \ DropNames(step + 1))
<1>1. ASSUME NEW t \in {"ptwrite", "context_switches", "auxtrace_errors"}
      PROVE  Distinct(IF IsTableEmpty(t) THEN Dropped(t) ELSE <<>>, NamesOf(t))
  BY DroppedDistinct, EmptyDistinct, NamesDiffer
<1>2. /\ DropNames(1) \ DropNames(2) = NamesOf("ptwrite")
      /\ DropNames(2) \ DropNames(3) = PowerNames
      /\ DropNames(3) \ DropNames(4) = NamesOf("context_switches")
      /\ DropNames(4) \ DropNames(5) = NamesOf("auxtrace_errors")
  BY DEF DropNames, NamesOf, PowerNames, ViewOverPower, PowerTables, ViewOf
<1>3. CASE step = 1
  <2>1. Block = IF IsTableEmpty("ptwrite") THEN Dropped("ptwrite") ELSE <<>>
    BY <1>3 DEF Block
  <2>2. Distinct(Block, NamesOf("ptwrite"))
    BY <1>1, <2>1
  <2>3. QED
    BY <1>2, <1>3, <2>2
<1>4. CASE step = 2
  <2>1. Block = PowerBlock
    BY <1>4 DEF Block
  <2>2. QED
    BY <1>2, <1>4, <2>1, PowerBlockDistinct
<1>5. CASE step = 3
  <2>1. Block = IF IsTableEmpty("context_switches") THEN Dropped("context_switches") ELSE <<>>
    BY <1>5 DEF Block
  <2>2. Distinct(Block, NamesOf("context_switches"))
    BY <1>1, <2>1
  <2>3. QED
    BY <1>2, <1>5, <2>2
<1>6. CASE step = 4
  <2>1. Block = IF IsTableEmpty("auxtrace_errors") THEN Dropped("auxtrace_errors") ELSE <<>>
    BY <1>6 DEF Block
  <2>2. Distinct(Block, NamesOf("auxtrace_errors"))
    BY <1>1, <2>1
  <2>3. QED
    BY <1>2, <1>6, <2>2
<1>7. QED
  BY <1>3, <1>4, <1>5, <1>6

LEMMA AllNames ==
    ASSUME NEW o \in AllOptions
    PROVE  DropNames(1) \subseteq Views(o) \cup Tables(o)
BY DEF DropNames, NamesOf, PowerNames, ViewOverPower, Views, EventViews, Tables, EventTables

LEMMA AskedNames ==
    ASSUME NEW b \in 1 .. 4
    PROVE  Asked(b) \subseteq DropNames(b) \cap AllTables
<1>1. b = 1 \/ b = 2 \/ b = 3 \/ b = 4
  OBVIOUS
<1>2. QED
  BY <1>1 DEF Asked, DropNames, NamesOf, PowerNames, ViewOverPower, AllTables, Tables, EventTables

LEMMA DropLeft ==
    ASSUME ListsInv, LeftInv, DropUnused
    PROVE  LeftInv'
<1>1. phase = "dropping"
  BY DEF DropUnused, Drop, NextBlock
<1>2. CASE phase' # "dropping"
  BY <1>2 DEF LeftInv
<1>3. CASE doomed # <<>> /\ phase' = "dropping"
  <2>1. PICK h, s : h = Head(doomed) /\ s = Tail(doomed)
    OBVIOUS
  <2>2. /\ views' = views \ {h} /\ DOMAIN db' = DOMAIN db \ {h}
        /\ doomed' = s /\ UNCHANGED step
    BY <1>3, <2>1 DEF DropUnused, Drop, NextBlock
  <2> DEFINE N == (views \cup DOMAIN db) \ DropNames(step)
  <2>3. Distinct(doomed, N)
    BY <1>1 DEF LeftInv
  <2> HIDE DEF N
  <2>4. /\ Len(doomed) \in Nat /\ Len(s) = Len(doomed) - 1 /\ h = doomed[1]
        /\ 1 \in 1 .. Len(doomed)
        /\ s \in Seq(N) /\ \A i \in 1 .. Len(s) : s[i] = doomed[i + 1]
    BY <1>3, <2>1, <2>3 DEF Distinct
  <2>5. h \in N
    BY <2>3, <2>4 DEF Distinct
  <2>6. \A i \in 1 .. Len(s) : i + 1 \in 1 .. Len(doomed) /\ s[i] \in N
    BY <2>4
  <2>7. \A i \in 1 .. Len(s) : s[i] \in N \ {h}
    BY <2>3, <2>4, <2>6 DEF Distinct
  <2>8. \A i, j \in 1 .. Len(s) : s[i] = s[j] => i = j
    BY <2>3, <2>4, <2>6 DEF Distinct
  <2>9. Distinct(s, N \ {h})
    BY <2>4, <2>7, <2>8 DEF Distinct
  <2>10. N \ {h} = (views' \cup DOMAIN db') \ DropNames(step')
    BY <2>2 DEF N
  <2>11. DropNames(step') \subseteq views' \cup DOMAIN db'
    BY <1>1, <2>2, <2>5 DEF LeftInv, N
  <2>12. QED
    BY <2>2, <2>9, <2>10, <2>11 DEF LeftInv
<1>4. CASE doomed = <<>> /\ phase' = "dropping"
  <2>1. /\ step \in 1 .. 4 /\ step' = step + 1 /\ doomed' = Block
        /\ UNCHANGED <<views, db>>
    BY <1>1, <1>4 DEF DropUnused, Drop, NextBlock, ListsInv
  <2>2. Distinct(Block, DropNames(step) \ DropNames(step + 1))
    BY <2>1, BlockDistinct
  <2>3. DropNames(step) \subseteq views \cup DOMAIN db
    BY <1>1 DEF LeftInv
  <2>4. DropNames(step + 1) \subseteq DropNames(step)
    BY <2>1 DEF DropNames
  <2>5. Distinct(Block, (views \cup DOMAIN db) \ DropNames(step + 1))
    BY <2>2, <2>3, DistinctWider
  <2>6. PICK s : s = Block
    OBVIOUS
  <2>7. QED
    BY <2>1, <2>3, <2>4, <2>5, <2>6 DEF LeftInv
<1>5. QED
  BY <1>2, <1>3, <1>4

(* Every view and table that trace_end drops is there when it is dropped,    *)
(* and every table it asks about when it is asked: Drop never fails, and a  *)
(* script that is past the inserts gets to its end.                          *)
THEOREM DropsFindNamesCorrect == Spec => []DropsFindNames
<1>1. Init => LeftInv
  BY DEF Init, ExportInit, LeftInv
<1>2. ListsInv /\ SessionInv /\ TablesInv /\ DropInv /\ ViewsInv /\ LeftInv /\ [Next]_vars
      => LeftInv'
  <2> SUFFICES ASSUME ListsInv, SessionInv, TablesInv, DropInv, ViewsInv, LeftInv, [Next]_vars
               PROVE  LeftInv'
    OBVIOUS
  <2>1. CASE InsertData
    <3>1. CASE phase' # "dropping"
      BY <3>1 DEF LeftInv
    <3>2. CASE phase' = "dropping"
      <4>1. /\ phase = "inserting" /\ UNCHANGED <<opts, views, doomed>> /\ step' = 1
            /\ DOMAIN db' = DOMAIN db
        BY <2>1, <3>2 DEF InsertData
      <4>2. views = Views(opts) /\ DOMAIN db = Tables(opts) /\ doomed = <<>> /\ opts \in AllOptions
        BY <4>1, ExportAssumption DEF ListsInv, TablesInv, DropInv, ViewsInv
      <4>3. QED
        BY <4>1, <4>2, AllNames, EmptyDistinct DEF LeftInv
    <3>3. QED
      BY <3>1, <3>2
  <2>2. CASE DropUnused
    BY <2>2, DropLeft
  <2>3. CASE phase' # "dropping"
    BY <2>3 DEF LeftInv
  <2>4. CASE UNCHANGED <<phase, views, db, step, doomed>>
    BY <2>4 DEF LeftInv
  <2>5. CASE EventsPrep
    <3>1. conn # NoConn /\ phase' = phase
      BY <2>5 DEF EventsPrep, NoConn
    <3>2. QED
      BY <2>3, <3>1 DEF SessionInv
  <2>6. QED
    BY <2>1, <2>2, <2>3, <2>4, <2>5
       DEF Next, Exporting, Analysing, ExportNext, ScriptSteps, CreateDatabase, TraceBegin,
           Handle, HandleSynth, TraceEnd, Killed, Refuse, SessionNext, Definitions, Setup,
           TimeSeriesPrep, PlotTimeSeries, Teardown, vars, exportVars
<1>3. ListsInv /\ TablesInv /\ ViewsInv /\ LeftInv => DropsFindNames
  <2> SUFFICES ASSUME ListsInv, TablesInv, ViewsInv, LeftInv, phase = "dropping"
               PROVE  /\ \A i \in DOMAIN doomed : doomed[i] \in views \cup DOMAIN db
                      /\ step <= 4 => Asked(step) \subseteq DOMAIN db
    BY DEF DropsFindNames
  <2>1. \A i \in DOMAIN doomed : doomed[i] \in views \cup DOMAIN db
    BY DEF LeftInv, Distinct
  <2>2. views \cap AllTables = {}
    BY NamesApart, ExportAssumption DEF ViewsInv, ListsInv
  <2>3. step <= 4 => Asked(step) \subseteq DropNames(step) \cap AllTables
    BY AskedNames DEF ListsInv
  <2>4. QED
    BY <2>1, <2>2, <2>3 DEF LeftInv
<1>4. QED
  BY <1>1, <1>2, <1>3, ListsInvCorrect, SessionInvCorrect, TablesInvCorrect, ViewsInvCorrect,
     PTL DEF Spec

-----------------------------------------------------------------------------
(* Types *)

LEMMA ExportTypes ==
    ASSUME ListsInv, ExportTypeOK, [Next]_vars
    PROVE  /\ phase' \in {"start", "created", "collecting", "inserting", "dropping",
                          "done", "failed", "killed", "refused", "analysed"}
           /\ \A t \in DOMAIN db' : db'[t] \in SUBSET Row
<1>1. phase' = phase \/ phase' \in {"created", "collecting", "inserting", "dropping", "done",
                                    "failed", "killed", "refused", "analysed"}
  BY DEF Next, Exporting, Analysing, ExportNext, ScriptSteps, CreateDatabase, TraceBegin, InsertData,
         DropUnused, Drop, NextBlock, Handle, HandleSynth, TraceEnd, Killed, Refuse, SessionNext,
         Definitions, Setup, TimeSeriesPrep, EventsPrep, PlotTimeSeries, Teardown, vars, exportVars
<1>2. \A t \in DOMAIN db' : db'[t] \in SUBSET Row
  <2> USE DEF ExportTypeOK
  <2>1. CASE InsertData
    <3>1. PICK table, rows : table = InsertOrder[step] /\ rows = lists[table]
      OBVIOUS
    <3>2. rows \in SUBSET Row
      BY <3>1, InsertOrderCovers DEF ListsInv, ListsOK
    <3>3. db' = db \/ db' = [db EXCEPT ![table] = rows]
      BY <2>1, <3>1 DEF InsertData
    <3>4. QED
      BY <3>2, <3>3
  <2>2. CASE CreateDatabase
    BY <2>2 DEF CreateDatabase
  <2>3. CASE DropUnused \/ EventsPrep
    <3>1. \A t \in DOMAIN db' : t \in DOMAIN db /\ db'[t] = db[t]
      BY <2>3 DEF DropUnused, Drop, NextBlock, EventsPrep
    <3>2. QED
      BY <3>1
  <2>4. CASE UNCHANGED db
    BY <2>4
  <2>5. QED
    BY <2>1, <2>2, <2>3, <2>4
       DEF Next, Exporting, Analysing, ExportNext, ScriptSteps, TraceBegin, Handle, HandleSynth,
           TraceEnd, Killed, Refuse, SessionNext, Definitions, Setup, TimeSeriesPrep,
           PlotTimeSeries, Teardown, vars, exportVars
<1>3. QED
  BY <1>1, <1>2 DEF ExportTypeOK

LEMMA SessionTypes ==
    ASSUME SessionInv, SessionTypeOK, [Next]_vars
    PROVE  SessionTypeOK'
<1> USE SessionAssumption DEF SessionTypeOK
<1>1. CASE UNCHANGED sessionVars
  BY <1>1 DEF sessionVars
<1>2. CASE Definitions
  <2>1. /\ number < MaxConnections /\ number' = number + 1 /\ conn'.number = number + 1
        /\ UNCHANGED <<bounds, spans, onCpu>>
    BY <1>2 DEF Definitions, NoConn
  <2>2. QED
    BY <2>1
<1>3. CASE Setup
  BY <1>3 DEF Setup
<1>4. CASE TimeSeriesPrep
  BY <1>4 DEF TimeSeriesPrep, SessionInv, Connections
<1>5. CASE EventsPrep
  BY <1>5 DEF EventsPrep, SessionInv, Connections
<1>6. CASE PlotTimeSeries \/ Teardown
  BY <1>6 DEF PlotTimeSeries, Teardown, NoConn
<1>7. QED
  BY <1>1, <1>2, <1>3, <1>4, <1>5, <1>6
     DEF Next, Exporting, Analysing, SessionNext, vars

(* Type correctness of the script, its file and the sessions: rows are rows  *)
(* of known tables, views those of the script's options, and who computed a  *)
(* table is a connection that was opened.                                    *)
THEOREM TypeCorrect == Spec => []TypeOK
<1>1. Init => TypeOK
  <2> SUFFICES ASSUME Init PROVE ExportTypeOK /\ SessionTypeOK
    BY DEF TypeOK
  <2>1. SessionTypeOK
    BY SessionAssumption DEF Init, SessionInit, SessionTypeOK, NoConn, Nobody
  <2>2. ListsInv
    BY FS_EmptySet DEF Init, ExportInit, ListsInv, ListsOK, Finite, Unwritten
  <2>3. ExportTypeOK
    BY <2>2, InsertOrderCovers DEF Init, ExportInit, ExportTypeOK, ListsInv, ListsOK
  <2>4. QED
    BY <2>1, <2>3
<1>2. /\ TypeOK /\ ListsInv /\ SessionInv /\ [Next]_vars
      /\ ListsInv' /\ TablesInv' /\ ViewsInv' /\ DropsFindNames'
      => TypeOK'
  <2> SUFFICES ASSUME TypeOK, ListsInv, SessionInv, [Next]_vars,
                      ListsInv', TablesInv', ViewsInv', DropsFindNames'
               PROVE  ExportTypeOK' /\ SessionTypeOK'
    BY DEF TypeOK
  <2>1. SessionTypeOK'
    BY SessionTypes DEF TypeOK
  <2>2. /\ phase' \in {"start", "created", "collecting", "inserting", "dropping",
                       "done", "failed", "killed", "refused", "analysed"}
        /\ \A t \in DOMAIN db' : db'[t] \in SUBSET Row
    BY ExportTypes DEF TypeOK
  <2>3. ExportTypeOK'
    BY <2>2, InsertOrderCovers
       DEF ExportTypeOK, ListsInv, ListsOK, TablesInv, ViewsInv, DropsFindNames
  <2>4. QED
    BY <2>1, <2>3
<1>3. QED
  BY <1>1, <1>2, ListsInvCorrect, SessionInvCorrect, TablesInvCorrect, ViewsInvCorrect,
     DropsFindNamesCorrect, PTL DEF Spec

=============================================================================
