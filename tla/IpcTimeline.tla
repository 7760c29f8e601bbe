------------------------------ MODULE IpcTimeline ------------------------------
(***************************************************************************)
(* The trace as time_series_prep and cdf_prep of SqlUtil see it: samples    *)
(* arrive in time order, and after any number of them the analysis may be   *)
(* run.  The properties say what its tables then mean, for every window.    *)
(***************************************************************************)
EXTENDS SlidingWindow, RangeCdf

CONSTANTS WindowSizes,   \* the values of window_size_cyc that are tried
          InsnCounts, CycCounts, \* what a sample may count
          DurationNs,    \* the 15_000 of SqlUtil.setup
          MaxSamples     \* bound on the length of the trace

ASSUME TimelineAssumption == /\ WindowSizes \subseteq Nat \ {0}
                             /\ InsnCounts \subseteq Nat
                             /\ CycCounts \subseteq Nat \ {0}
                             /\ DurationNs \in Nat \ {0}
                             /\ MaxSamples \in Nat

VARIABLES ranges   \* the table timestamped_ranges

TimelineTypeOK == ranges \in Seq(TimestampedRange)

TimelineInit == ranges = <<>>

LastTime == IF ranges = <<>> THEN 0 ELSE ranges[Len(ranges)].end_time

\* perf exports one more branch sample.  It counts instructions only if it
\* counts cycles; several samples may carry the same timestamp; a nanosecond is
\* a cycle here.
RecordSample ==
    /\ Len(ranges) < MaxSamples
    /\ \E insns \in InsnCounts, cyc \in CycCounts, elapsed \in {0, 1}, begin \in BOOLEAN :
         ranges' = AddSample(ranges, [time |-> LastTime + elapsed * cyc, insn_count |-> insns,
                                      cyc_count |-> cyc, trace_begin |-> begin])

-----------------------------------------------------------------------------
(* SqlUtil.setup: the plots focus on the middle of the trace.                *)

Times == {ranges[i].end_time : i \in DOMAIN ranges}
FirstTime == CHOOSE t \in Times \ {0} : \A u \in Times \ {0} : t <= u
StartNs == FirstTime + (LastTime - FirstTime) \div 2
EndNs == StartNs + DurationNs

\* the table time_bounds: MIN(end_cum_cyc) WHERE end_time > ns
MutCycAt(ns) ==
    LET later == {i \in DOMAIN ranges : ranges[i].end_time > ns} IN
    CHOOSE c \in {ranges[i].end_cum_cyc : i \in later} :
        \A i \in later : c >= ranges[i].end_cum_cyc
CycAt(ns) ==
    LET later == {i \in DOMAIN ranges : ranges[i].end_time > ns} IN
    CHOOSE c \in {ranges[i].end_cum_cyc : i \in later} :
        \A i \in later : c <= ranges[i].end_cum_cyc

\* otherwise a bound is NULL, and int() of it raises
SetupSucceeds == Times \ {0} # {} /\ LastTime > EndNs

-----------------------------------------------------------------------------
\* the cycles of range i are FirstCyc(i) .. ranges[i].end_cum_cyc
FirstCyc(i) == ranges[i].end_cum_cyc - ranges[i].cyc_count + 1
\* how many of them are under the window that ends with cycle e
Overlap(i, e, w) ==
    Cardinality({c \in FirstCyc(i) .. ranges[i].end_cum_cyc : e - w < c /\ c <= e})
Touched(e, w) == {i \in DOMAIN ranges : Overlap(i, e, w) > 0}
Inside(e, w) == {i \in DOMAIN ranges : Overlap(i, e, w) = ranges[i].cyc_count}
Insns(S) == SumFunctionOnSet([i \in DOMAIN ranges |-> ranges[i].insn_count], S)

(* The plotted cycles hold every range that ends within the plotted          *)
(* nanoseconds, also of several that end at the same one.  The two bounds    *)
(* coincide, and the rate of util.py:270 divides by zero, only if there is   *)
(* no such range.                                                            *)
CyclesCoverTimes == SetupSucceeds =>
    /\ CycAt(StartNs) <= CycAt(EndNs)
    /\ CycAt(StartNs) = CycAt(EndNs) <=>
         ~ \E i \in DOMAIN ranges : StartNs < ranges[i].end_time /\ ranges[i].end_time <= EndNs
    /\ \A i \in DOMAIN ranges :
         StartNs < ranges[i].end_time /\ ranges[i].end_time <= EndNs
         => ranges[i].end_cum_cyc \in CycAt(StartNs) .. CycAt(EndNs)

(* "the optimistic and conservative IPC over that same span" (util.py:174):  *)
(* wherever the window ends between the row before and this one, it executed *)
(* at most the optimistic and at least the conservative number of            *)
(* instructions, however each range spread its own.                          *)
BoundsHoldOverSpan == \A w \in WindowSizes : \A s \in Spans(ranges, w) :
    \A e \in SpanStart(ranges, w, s) + 1 .. s.window_end :
        /\ Insns(Touched(e, w)) <= Optimistic(ranges, s)
        /\ Insns(Inside(e, w)) >= Conservative(ranges, s)

(* The rows leave no position out: past the first row every cycle of the     *)
(* trace is the end of a window that lies in exactly one span.               *)
SpansTile == \A w \in WindowSizes : ranges # <<>> =>
    \A e \in ranges[1].end_cum_cyc + 1 .. CumCyc(ranges) :
        Cardinality({s \in Spans(ranges, w) : SpanStart(ranges, w, s) < e /\ e <= s.window_end}) = 1

(* The interpolated number of instructions is what one gets by spreading the *)
(* instructions of every range evenly over its cycles and adding up the      *)
(* window cycle by cycle; so it lies between the two bounds.  A window that   *)
(* begins before the trace does is left out: its missing cycles are charged  *)
(* to the first range, whose instructions then count more than once.         *)
LinearIsPerCycle == \A w \in WindowSizes : \A s \in Spans(ranges, w) :
    s.window_start >= 1 =>
        LET d == FoldFunction(LAMBDA x, y : x * y, 1, [i \in DOMAIN ranges |-> ranges[i].cyc_count])
            spread == [i \in DOMAIN ranges |->
                         (ranges[i].insn_count * Overlap(i, s.window_end, w) * d)
                           \div ranges[i].cyc_count]
        IN /\ LinearInterp(ranges, s, d) = SumFunction(spread)
           /\ LinearInterp(ranges, s, d) <= Optimistic(ranges, s) * d
           /\ LinearInterp(ranges, s, d) >= Conservative(ranges, s) * d

-----------------------------------------------------------------------------
Discarded == Considered(ranges) \ SamplesForCdf(ranges)

(* cumulative_longest_time_to_discard: the ranges discarded are the longest  *)
(* ones, they take no more than that share of the time, and discarding the   *)
(* ranges of the next duration as well would take more.                      *)
DiscardIsMaximal ==
    LET budget == DiscardNum * Cycles(ranges, Considered(ranges))
        next == {i \in SamplesForCdf(ranges) :
                   \A j \in SamplesForCdf(ranges) : ranges[j].cyc_count <= ranges[i].cyc_count}
    IN /\ \A i \in Discarded, j \in SamplesForCdf(ranges) : ranges[i].cyc_count > ranges[j].cyc_count
       /\ Cycles(ranges, Discarded) * DiscardDen <= budget
       /\ next # {} => Cycles(ranges, Discarded \cup next) * DiscardDen > budget
       /\ Considered(ranges) # {} => next # {}

=============================================================================
