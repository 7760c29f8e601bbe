----------------------------- MODULE AnalysisProofs -----------------------------
(***************************************************************************)
(* Proofs about TraceAnalysis for traces of every length and windows of      *)
(* every size: the plotted cycles hold the plotted nanoseconds; the rows of  *)
(* ipc_spans tile the trace, bound what every window of their span executed  *)
(* and interpolate it cycle by cycle; the longest ranges are left out of the *)
(* distribution as the share allows; the system calls that touch a view are  *)
(* listed, and the stretches for which they were on the CPU are drawn.       *)
(***************************************************************************)
EXTENDS TraceAnalysis, FiniteSums

-----------------------------------------------------------------------------
(* The table timestamped_ranges: its rows follow each other in time, each has *)
(* cycles of its own, and so no two end with the same cycle.                 *)

Follows(x, y) ==
    /\ x.end_time <= y.end_time
    /\ x.end_cum_cyc < y.end_cum_cyc
    /\ x.end_cum_cyc <= y.end_cum_cyc - y.cyc_count
    /\ x.end_cum_insns <= y.end_cum_insns - y.insn_count

Ordered(r) ==
    /\ r \in Seq(TimestampedRange)
    /\ \A i \in 1 .. Len(r) : r[i].cyc_count > 0
    /\ \A i, j \in 1 .. Len(r) : i < j => Follows(r[i], r[j])

LEMMA OrderedRows ==
    ASSUME NEW r, Ordered(r)
    PROVE  /\ Len(r) \in Nat
           /\ DOMAIN r = 1 .. Len(r)
           /\ \A i \in DOMAIN r : /\ r[i] \in TimestampedRange
                                  /\ r[i].end_time \in Nat
                                  /\ r[i].end_cum_cyc \in Nat
                                  /\ r[i].end_cum_insns \in Nat
                                  /\ r[i].insn_count \in Nat
                                  /\ r[i].cyc_count \in Nat
<1>1. r \in Seq(TimestampedRange)
  BY DEF Ordered
<1>2. Len(r) \in Nat /\ DOMAIN r = 1 .. Len(r)
  BY <1>1
<1>3. ASSUME NEW i \in DOMAIN r PROVE r[i] \in TimestampedRange
  BY <1>1
<1>4. ASSUME NEW x \in TimestampedRange
      PROVE  /\ x.end_time \in Nat /\ x.end_cum_cyc \in Nat /\ x.end_cum_insns \in Nat
             /\ x.insn_count \in Nat /\ x.cyc_count \in Nat
  BY DEF TimestampedRange
<1>5. QED
  BY <1>2, <1>3, <1>4

LEMMA EndsDiffer ==
    ASSUME NEW r, Ordered(r), NEW i \in DOMAIN r, NEW j \in DOMAIN r,
           r[i].end_cum_cyc = r[j].end_cum_cyc
    PROVE  i = j
<1>1. i \in 1 .. Len(r) /\ j \in 1 .. Len(r) /\ Len(r) \in Nat
  BY OrderedRows
<1>2. ~(i < j) /\ ~(j < i)
  BY <1>1, OrderedRows DEF Ordered, Follows
<1>3. QED
  BY <1>1, <1>2

\* what ended later counts more cycles
LEMMA LaterCountsMore ==
    ASSUME NEW r, Ordered(r), NEW i \in DOMAIN r, NEW j \in DOMAIN r,
           r[i].end_time < r[j].end_time
    PROVE  r[i].end_cum_cyc < r[j].end_cum_cyc
<1>1. i \in 1 .. Len(r) /\ j \in 1 .. Len(r) /\ Len(r) \in Nat
  BY OrderedRows
<1>2. r[i].end_time \in Nat /\ r[j].end_time \in Nat
  BY OrderedRows
<1>3. i # j
  BY <1>2
<1>4. ~(j < i)
  <2>1. j < i => r[j].end_time <= r[i].end_time
    BY <1>1 DEF Ordered, Follows
  <2>2. QED
    BY <2>1, <1>2
<1>5. i < j
  BY <1>1, <1>3, <1>4
<1>6. QED
  BY <1>1, <1>5 DEF Ordered, Follows

\* the ASOF join finds a row, and no row of S ends before it
LEMMA NearestIsLeast ==
    ASSUME NEW r, Ordered(r), NEW S \in SUBSET DOMAIN r, S # {}
    PROVE  /\ Nearest(r, S) \in S
           /\ \A j \in S : r[Nearest(r, S)].end_cum_cyc <= r[j].end_cum_cyc
<1> DEFINE C == {r[i].end_cum_cyc : i \in S}
<1>1. C \in SUBSET Nat /\ C # {}
  BY OrderedRows
<1>2. PICK c \in C : \A d \in C : c <= d
  BY <1>1, LeastOfNats
<1>3. PICK i \in S : c = r[i].end_cum_cyc
  BY <1>2
<1>4. \A j \in S : r[i].end_cum_cyc <= r[j].end_cum_cyc
  BY <1>2, <1>3
<1>5. QED
  BY <1>4 DEF Nearest

-----------------------------------------------------------------------------
(* Every trace is such a table.                                             *)

RangesInv == Ordered(ranges)

LEMMA RangesInit == Init => RangesInv
<1> SUFFICES ASSUME Init PROVE RangesInv
  OBVIOUS
<1>1. ranges = <<>>
  BY DEF Init, TimelineInit
<1>2. QED
  BY <1>1 DEF RangesInv, Ordered

LEMMA AppendOrdered ==
    ASSUME NEW r, Ordered(r), NEW x \in TimestampedRange, x.cyc_count > 0,
           \A i \in DOMAIN r : Follows(r[i], x)
    PROVE  Ordered(Append(r, x))
<1> DEFINE q == Append(r, x)
<1>1. r \in Seq(TimestampedRange) /\ Len(r) \in Nat /\ DOMAIN r = 1 .. Len(r)
  BY DEF Ordered
<1>2. /\ q \in Seq(TimestampedRange)
      /\ Len(q) = Len(r) + 1
      /\ q[Len(r) + 1] = x
      /\ \A i \in 1 .. Len(r) : q[i] = r[i]
  BY <1>1
<1> HIDE DEF q
<1>3. ASSUME NEW i \in 1 .. Len(q), NEW j \in 1 .. Len(q), i < j
      PROVE  Follows(q[i], q[j])
  <2>1. i \in 1 .. Len(r) /\ q[i] = r[i]
    BY <1>1, <1>2, <1>3
  <2>2. CASE j \in 1 .. Len(r)
    <3>1. q[j] = r[j]
      BY <2>2, <1>2
    <3>2. Follows(r[i], r[j])
      BY <2>1, <2>2, <1>3 DEF Ordered
    <3>3. QED
      BY <2>1, <3>1, <3>2
  <2>3. CASE j = Len(r) + 1
    <3>1. q[j] = x
      BY <2>3, <1>2
    <3>2. Follows(r[i], x)
      BY <2>1, <1>1
    <3>3. QED
      BY <2>1, <3>1, <3>2
  <2>4. QED
    BY <2>2, <2>3, <1>1, <1>2
<1>4. \A i \in 1 .. Len(q) : q[i].cyc_count > 0
  BY <1>1, <1>2 DEF Ordered
<1>5. Ordered(q)
  BY <1>2, <1>3, <1>4 DEF Ordered
<1>6. QED
  BY <1>5 DEF q

\* the last row is the last in time and in cycles
LEMMA LastRow ==
    ASSUME NEW r, Ordered(r), r # <<>>
    PROVE  /\ Len(r) \in DOMAIN r
           /\ \A i \in DOMAIN r : /\ r[i].end_time <= r[Len(r)].end_time
                                  /\ r[i].end_cum_cyc <= r[Len(r)].end_cum_cyc
                                  /\ r[i].end_cum_insns <= r[Len(r)].end_cum_insns
<1>1. Len(r) \in Nat /\ DOMAIN r = 1 .. Len(r)
  BY OrderedRows
<1>2. Len(r) # 0
  BY DEF Ordered
<1>3. Len(r) \in DOMAIN r
  BY <1>1, <1>2
<1>4. ASSUME NEW i \in DOMAIN r
      PROVE  /\ r[i].end_time <= r[Len(r)].end_time
             /\ r[i].end_cum_cyc <= r[Len(r)].end_cum_cyc
             /\ r[i].end_cum_insns <= r[Len(r)].end_cum_insns
  <2>1. /\ r[i].end_time \in Nat /\ r[Len(r)].end_time \in Nat
        /\ r[i].end_cum_cyc \in Nat /\ r[Len(r)].end_cum_cyc \in Nat
        /\ r[i].end_cum_insns \in Nat /\ r[Len(r)].end_cum_insns \in Nat
        /\ r[Len(r)].insn_count \in Nat
    BY <1>3, OrderedRows
  <2>2. CASE i = Len(r)
    BY <2>1, <2>2
  <2>3. CASE i < Len(r)
    <3>1. /\ r[i].end_time <= r[Len(r)].end_time
          /\ r[i].end_cum_cyc < r[Len(r)].end_cum_cyc
          /\ r[i].end_cum_insns <= r[Len(r)].end_cum_insns - r[Len(r)].insn_count
      BY <2>3, <1>1, <1>3 DEF Ordered, Follows
    <3>2. QED
      BY <3>1, <2>1
  <2>4. QED
    BY <2>2, <2>3, <1>1
<1>5. QED
  BY <1>3, <1>4

LEMMA RangesStep == RangesInv /\ [Next]_vars => RangesInv'
<1> SUFFICES ASSUME RangesInv, [Next]_vars PROVE RangesInv'
  OBVIOUS
<1> USE TimelineAssumption
<1>1. CASE ranges' = ranges
  BY <1>1 DEF RangesInv
<1>2. CASE RecordSample
  <2>1. PICK insns \in InsnCounts, cyc \in CycCounts, elapsed \in {0, 1}, begin \in BOOLEAN :
           ranges' = AddSample(ranges, [time |-> LastTime + elapsed * cyc, insn_count |-> insns,
                                        cyc_count |-> cyc, trace_begin |-> begin])
    BY <1>2 DEF RecordSample
  <2>2. insns \in Nat /\ cyc \in Nat /\ cyc > 0
    OBVIOUS
  <2>3. elapsed * cyc \in Nat
    <3>1. CASE elapsed = 0
      BY <3>1, <2>2
    <3>2. CASE elapsed = 1
      BY <3>2, <2>2
    <3>3. QED
      BY <3>1, <3>2
  <2> DEFINE gap == elapsed * cyc
             s == [time |-> LastTime + gap, insn_count |-> insns,
                   cyc_count |-> cyc, trace_begin |-> begin]
             x == RangeOf(ranges, s)
  <2>4. ranges' = Append(ranges, x)
    BY <2>1, <2>2 DEF AddSample, Timestamped
  <2>5. gap \in Nat
    BY <2>3
  <2> HIDE DEF gap
  <2>6. Ordered(ranges)
    BY DEF RangesInv
  <2>7. /\ LastTime \in Nat /\ CumCyc(ranges) \in Nat /\ CumInsns(ranges) \in Nat
        /\ \A i \in DOMAIN ranges : /\ ranges[i].end_time <= LastTime
                                    /\ ranges[i].end_cum_cyc <= CumCyc(ranges)
                                    /\ ranges[i].end_cum_insns <= CumInsns(ranges)
    <3>1. CASE ranges = <<>>
      BY <3>1 DEF LastTime, CumCyc, CumInsns
    <3>2. CASE ranges # <<>>
      <4>1. Len(ranges) \in DOMAIN ranges
        BY <3>2, <2>6, LastRow
      <4>2. /\ LastTime = ranges[Len(ranges)].end_time
            /\ CumCyc(ranges) = ranges[Len(ranges)].end_cum_cyc
            /\ CumInsns(ranges) = ranges[Len(ranges)].end_cum_insns
        BY <3>2 DEF LastTime, CumCyc, CumInsns
      <4>3. QED
        BY <3>2, <4>1, <4>2, <2>6, LastRow, OrderedRows
    <3>3. QED
      BY <3>1, <3>2
  <2>8. /\ x.end_time = LastTime + gap
        /\ x.end_cum_cyc = CumCyc(ranges) + cyc
        /\ x.end_cum_insns = CumInsns(ranges) + insns
        /\ x.cyc_count = cyc /\ x.insn_count = insns
        /\ x \in TimestampedRange
    BY <2>2, <2>5, <2>7 DEF RangeOf, TimestampedRange
  <2> HIDE DEF x
  <2>9. ASSUME NEW i \in DOMAIN ranges PROVE Follows(ranges[i], x)
    <3>1. /\ ranges[i].end_time \in Nat
          /\ ranges[i].end_cum_cyc \in Nat
          /\ ranges[i].end_cum_insns \in Nat
      BY <2>6, OrderedRows
    <3>2. QED
      BY <3>1, <2>2, <2>5, <2>7, <2>8 DEF Follows
  <2>10. Ordered(Append(ranges, x))
    BY <2>2, <2>6, <2>8, <2>9, AppendOrdered
  <2>11. QED
    BY <2>4, <2>10 DEF RangesInv
<1>3. QED
  BY <1>1, <1>2 DEF Next, Samples, Calls, vars

LEMMA RangesCorrect == Spec => []RangesInv
<1>1. RangesInv /\ [Next]_vars => RangesInv'
  BY RangesStep
<1>2. QED
  BY RangesInit, <1>1, PTL DEF Spec

-----------------------------------------------------------------------------
(* SqlUtil.setup                                                            *)

\* MIN(end_cum_cyc) WHERE end_time > ns, which is not NULL if the trace goes on
LEMMA CycAtIsLeast ==
    ASSUME RangesInv, ranges # <<>>, NEW ns \in Int, ns < LastTime
    PROVE  /\ \E i \in DOMAIN ranges : /\ ranges[i].end_time > ns
                                       /\ CycAt(ns) = ranges[i].end_cum_cyc
           /\ \A i \in DOMAIN ranges :
                ranges[i].end_time > ns => CycAt(ns) <= ranges[i].end_cum_cyc
<1> DEFINE later == {i \in DOMAIN ranges : ranges[i].end_time > ns}
           C == {ranges[i].end_cum_cyc : i \in later}
<1>1. Ordered(ranges)
  BY DEF RangesInv
<1>2. Len(ranges) \in later
  <2>1. Len(ranges) \in DOMAIN ranges
    BY <1>1, LastRow
  <2>2. ranges[Len(ranges)].end_time \in Nat /\ LastTime = ranges[Len(ranges)].end_time
    BY <2>1, <1>1, OrderedRows DEF LastTime
  <2>3. QED
    BY <2>1, <2>2
<1>3. C \in SUBSET Nat /\ C # {}
  BY <1>1, <1>2, OrderedRows
<1>4. PICK c \in C : \A d \in C : c <= d
  BY <1>3, LeastOfNats
<1>5. \A i \in later : c <= ranges[i].end_cum_cyc
  BY <1>4
<1>6. CycAt(ns) \in C /\ \A i \in later : CycAt(ns) <= ranges[i].end_cum_cyc
  BY <1>4, <1>5 DEF CycAt
<1>7. QED
  BY <1>6

LEMMA FocusOfSetup ==
    ASSUME RangesInv, SetupSucceeds
    PROVE  /\ ranges # <<>>
           /\ StartNs \in Int /\ EndNs \in Int
           /\ StartNs <= EndNs /\ EndNs < LastTime
<1> USE TimelineAssumption
<1>1. Ordered(ranges)
  BY DEF RangesInv
<1>2. Times \ {0} \in SUBSET Nat /\ Times \ {0} # {}
  BY <1>1, OrderedRows DEF Times, SetupSucceeds
<1>3. PICK t \in Times \ {0} : \A u \in Times \ {0} : t <= u
  BY <1>2, LeastOfNats
<1>4. FirstTime \in Nat
  BY <1>2, <1>3 DEF FirstTime
<1>5. ranges # <<>>
  BY <1>2 DEF Times
<1>6. LastTime \in Nat
  BY <1>1, <1>5, LastRow, OrderedRows DEF LastTime
<1>7. StartNs \in Int
  BY <1>4, <1>6 DEF StartNs
<1>8. EndNs \in Int /\ StartNs <= EndNs
  BY <1>7 DEF EndNs
<1>9. LastTime > EndNs
  BY DEF SetupSucceeds
<1>10. QED
  BY <1>5, <1>6, <1>7, <1>8, <1>9

LEMMA RangesCover == RangesInv => CyclesCoverTimes
<1> SUFFICES ASSUME RangesInv, SetupSucceeds
             PROVE  /\ CycAt(StartNs) <= CycAt(EndNs)
                    /\ CycAt(StartNs) = CycAt(EndNs) <=>
                         ~ \E i \in DOMAIN ranges :
                             StartNs < ranges[i].end_time /\ ranges[i].end_time <= EndNs
                    /\ \A i \in DOMAIN ranges :
                         StartNs < ranges[i].end_time /\ ranges[i].end_time <= EndNs
                         => ranges[i].end_cum_cyc \in CycAt(StartNs) .. CycAt(EndNs)
  BY DEF CyclesCoverTimes
<1> DEFINE a == StartNs
           b == EndNs
<1>1. ranges # <<>> /\ a \in Int /\ b \in Int /\ a <= b /\ b < LastTime
  BY FocusOfSetup
<1>2. LastTime \in Nat /\ a < LastTime
  <2>1. LastTime \in Nat
    BY <1>1, LastRow, OrderedRows DEF LastTime, RangesInv
  <2>2. QED
    BY <1>1, <2>1
<1>3. Ordered(ranges)
  BY DEF RangesInv
<1> HIDE DEF a, b
<1>4. PICK j \in DOMAIN ranges : ranges[j].end_time > b /\ CycAt(b) = ranges[j].end_cum_cyc
  BY <1>1, CycAtIsLeast
<1>5. \A i \in DOMAIN ranges : ranges[i].end_time > a => CycAt(a) <= ranges[i].end_cum_cyc
  BY <1>1, <1>2, CycAtIsLeast
<1>6. PICK k \in DOMAIN ranges : CycAt(a) = ranges[k].end_cum_cyc
  BY <1>1, <1>2, CycAtIsLeast
<1>7. CycAt(a) \in Nat /\ CycAt(b) \in Nat /\ ranges[j].end_time \in Nat
  BY <1>3, <1>4, <1>6, OrderedRows
<1>8. CycAt(a) <= CycAt(b)
  BY <1>1, <1>4, <1>5, <1>7
<1>9. ASSUME NEW i \in DOMAIN ranges, a < ranges[i].end_time, ranges[i].end_time <= b
      PROVE  ranges[i].end_cum_cyc \in CycAt(a) .. CycAt(b) /\ CycAt(a) < CycAt(b)
  <2>1. ranges[i].end_time \in Nat /\ ranges[i].end_cum_cyc \in Nat
    BY <1>3, OrderedRows
  <2>2. CycAt(a) <= ranges[i].end_cum_cyc
    BY <1>5, <1>9, <1>1, <2>1
  <2>3. ranges[i].end_time < ranges[j].end_time
    BY <1>1, <1>4, <1>7, <1>9, <2>1
  <2>4. ranges[i].end_cum_cyc < CycAt(b)
    BY <1>3, <1>4, <2>3, LaterCountsMore
  <2>5. QED
    BY <1>7, <2>1, <2>2, <2>4
<1>10. ASSUME ~ \E i \in DOMAIN ranges : a < ranges[i].end_time /\ ranges[i].end_time <= b
       PROVE  CycAt(a) = CycAt(b)
  <2>1. ASSUME NEW i \in DOMAIN ranges
        PROVE  ranges[i].end_time > a <=> ranges[i].end_time > b
    <3>1. ranges[i].end_time \in Nat
      BY OrderedRows, <1>3
    <3>2. QED
      BY <1>1, <1>10, <3>1
  <2>2. {i \in DOMAIN ranges : ranges[i].end_time > a} = {i \in DOMAIN ranges : ranges[i].end_time > b}
    BY <2>1
  <2>3. QED
    BY <2>2 DEF CycAt
<1>11. QED
  BY <1>7, <1>8, <1>9, <1>10 DEF a, b

(* The bounds that setup computes from the table time_bounds hold between   *)
(* them every range that ends in the plotted nanoseconds, whatever the trace *)
(* and the duration, also when several ranges end at one nanosecond; and     *)
(* they coincide just if there is none.                                      *)
THEOREM CyclesCoverTimesCorrect == Spec => []CyclesCoverTimes
<1>1. RangesInv => CyclesCoverTimes
  BY RangesCover
<1>2. QED
  BY RangesCorrect, <1>1, PTL

-----------------------------------------------------------------------------
(* The rows of ipc_spans. A window ends where a range ends, or w - 1 cycles   *)
(* after; in the second case no range ends there, for the row would be the   *)
(* same span as the row of that range.                                      *)

LEMMA LeadingEnds ==
    ASSUME NEW r, Ordered(r), NEW w \in Nat \ {0}, NEW l \in DOMAIN r
    PROVE  /\ LeadingWindow(r, l, w) \in Spans(r, w)
           /\ LeadingWindow(r, l, w).window_end = r[l].end_cum_cyc
<1>1. /\ LeadingWindow(r, l, w).window_end = r[l].end_cum_cyc
      /\ LeadingWindow(r, l, w).side = "leading"
  BY DEF LeadingWindow
<1>2. LeadingWindow(r, l, w) \in Windows(r, w)
  BY DEF Windows
<1>3. QED
  BY <1>1, <1>2 DEF Spans

LEMMA TrailingEnds ==
    ASSUME NEW r, Ordered(r), NEW w \in Nat \ {0}, NEW t \in DOMAIN r,
           LeadingCandidates(r, t, w) # {},
           TrailingWindow(r, t, w) \in Spans(r, w)
    PROVE  /\ TrailingWindow(r, t, w).window_end = r[t].end_cum_cyc + w - 1
           /\ \A i \in DOMAIN r : r[i].end_cum_cyc # r[t].end_cum_cyc + w - 1
<1> DEFINE l == Nearest(r, LeadingCandidates(r, t, w))
           e == r[t].end_cum_cyc + w - 1
<1>1. /\ TrailingWindow(r, t, w).window_end = e
      /\ TrailingWindow(r, t, w).side = "trailing"
      /\ TrailingWindow(r, t, w).is_span_aliased <=> e = r[l].end_cum_cyc
  BY DEF TrailingWindow
<1>2. e # r[l].end_cum_cyc
  BY <1>1 DEF Spans
<1>3. LeadingCandidates(r, t, w) \in SUBSET DOMAIN r
  BY DEF LeadingCandidates
<1>4. /\ l \in LeadingCandidates(r, t, w)
      /\ \A j \in LeadingCandidates(r, t, w) : r[l].end_cum_cyc <= r[j].end_cum_cyc
  BY <1>3, NearestIsLeast
<1>5. r[l].end_cum_cyc >= e
  BY <1>4 DEF LeadingCandidates
<1>6. /\ \A i \in DOMAIN r : r[i].end_cum_cyc \in Nat
      /\ r[l].end_cum_cyc \in Nat /\ e \in Int
  <2>1. l \in DOMAIN r
    BY <1>3, <1>4
  <2>2. \A i \in DOMAIN r : r[i].end_cum_cyc \in Nat
    BY OrderedRows
  <2>3. QED
    BY <2>1, <2>2
<1>7. ASSUME NEW i \in DOMAIN r, r[i].end_cum_cyc = e PROVE FALSE
  <2>1. r[i].end_cum_cyc >= e
    BY <1>6, <1>7
  <2>2. i \in LeadingCandidates(r, t, w)
    BY <2>1 DEF LeadingCandidates
  <2>3. r[l].end_cum_cyc <= e
    BY <1>4, <1>7, <2>2
  <2>4. QED
    BY <1>2, <1>5, <1>6, <2>3
<1>8. QED
  BY <1>1, <1>7

\* where a row of ipc_spans comes from
LEMMA SpanCases ==
    ASSUME NEW r, NEW w, NEW s \in Spans(r, w)
    PROVE  \/ \E l \in DOMAIN r : s = LeadingWindow(r, l, w)
           \/ \E t \in DOMAIN r : /\ s = TrailingWindow(r, t, w)
                                  /\ LeadingCandidates(r, t, w) # {}
BY DEF Spans, Windows

\* one row per position
LEMMA EndsNameSpans ==
    ASSUME NEW r, Ordered(r), NEW w \in Nat \ {0},
           NEW s \in Spans(r, w), NEW q \in Spans(r, w), s.window_end = q.window_end
    PROVE  s = q
<1>1. \A i \in DOMAIN r : r[i].end_cum_cyc \in Nat
  BY OrderedRows
<1>2. CASE \E l \in DOMAIN r : s = LeadingWindow(r, l, w)
  <2>1. PICK l \in DOMAIN r : s = LeadingWindow(r, l, w)
    BY <1>2
  <2>2. s.window_end = r[l].end_cum_cyc
    BY <2>1, LeadingEnds
  <2>3. CASE \E k \in DOMAIN r : q = LeadingWindow(r, k, w)
    <3>1. PICK k \in DOMAIN r : q = LeadingWindow(r, k, w)
      BY <2>3
    <3>2. q.window_end = r[k].end_cum_cyc
      BY <3>1, LeadingEnds
    <3>3. k = l
      BY <2>2, <3>2, EndsDiffer
    <3>4. QED
      BY <2>1, <3>1, <3>3
  <2>4. CASE \E t \in DOMAIN r : q = TrailingWindow(r, t, w) /\ LeadingCandidates(r, t, w) # {}
    <3>1. PICK t \in DOMAIN r : q = TrailingWindow(r, t, w) /\ LeadingCandidates(r, t, w) # {}
      BY <2>4
    <3>2. QED
      BY <2>2, <3>1, TrailingEnds
  <2>5. QED
    BY <2>3, <2>4, SpanCases
<1>3. CASE \E t \in DOMAIN r : s = TrailingWindow(r, t, w) /\ LeadingCandidates(r, t, w) # {}
  <2>1. PICK t \in DOMAIN r : s = TrailingWindow(r, t, w) /\ LeadingCandidates(r, t, w) # {}
    BY <1>3
  <2>2. /\ s.window_end = r[t].end_cum_cyc + w - 1
        /\ \A i \in DOMAIN r : r[i].end_cum_cyc # s.window_end
    BY <2>1, TrailingEnds
  <2>3. CASE \E k \in DOMAIN r : q = LeadingWindow(r, k, w)
    <3>1. PICK k \in DOMAIN r : q = LeadingWindow(r, k, w)
      BY <2>3
    <3>2. QED
      BY <2>2, <3>1, LeadingEnds
  <2>4. CASE \E u \in DOMAIN r : q = TrailingWindow(r, u, w) /\ LeadingCandidates(r, u, w) # {}
    <3>1. PICK u \in DOMAIN r : q = TrailingWindow(r, u, w) /\ LeadingCandidates(r, u, w) # {}
      BY <2>4
    <3>2. q.window_end = r[u].end_cum_cyc + w - 1
      BY <3>1, TrailingEnds
    <3>3. r[u].end_cum_cyc = r[t].end_cum_cyc
      <4>1. r[u].end_cum_cyc + w - 1 = r[t].end_cum_cyc + w - 1
        BY <2>2, <3>2
      <4>2. r[u].end_cum_cyc \in Nat /\ r[t].end_cum_cyc \in Nat /\ w \in Nat
        BY <1>1
      <4> QED
        BY <4>1, <4>2
    <3>4. u = t
      BY <3>3, EndsDiffer
    <3>5. QED
      BY <2>1, <3>1, <3>4
  <2>5. QED
    BY <2>3, <2>4, SpanCases
<1>4. QED
  BY <1>2, <1>3, SpanCases

LEMMA SpanEndsAreCycles ==
    ASSUME NEW r, Ordered(r), NEW w \in Nat \ {0}, NEW s \in Spans(r, w)
    PROVE  s.window_end \in Nat
<1>1. \A i \in DOMAIN r : r[i].end_cum_cyc \in Nat
  BY OrderedRows
<1>2. CASE \E l \in DOMAIN r : s = LeadingWindow(r, l, w)
  BY <1>1, <1>2, LeadingEnds
<1>3. CASE \E t \in DOMAIN r : s = TrailingWindow(r, t, w) /\ LeadingCandidates(r, t, w) # {}
  <2>1. PICK t \in DOMAIN r : s = TrailingWindow(r, t, w) /\ LeadingCandidates(r, t, w) # {}
    BY <1>3
  <2>2. s.window_end = r[t].end_cum_cyc + w - 1
    BY <2>1, TrailingEnds
  <2>3. QED
    BY <1>1, <2>2
<1>4. QED
  BY <1>2, <1>3, SpanCases

\* the row that ends at or after cycle e, and at no later cycle than any such row
LEMMA SpanOver ==
    ASSUME NEW r, Ordered(r), NEW w \in Nat \ {0}, NEW e \in Int,
           NEW s \in Spans(r, w), e <= s.window_end,
           \A q \in Spans(r, w) : e <= q.window_end => s.window_end <= q.window_end,
           \E q \in Spans(r, w) : q.window_end < e
    PROVE  SpanStart(r, w, s) < e
<1> DEFINE before == {q.window_end : q \in {p \in Spans(r, w) : p.window_end < s.window_end}}
<1>1. s.window_end \in Nat /\ \A q \in Spans(r, w) : q.window_end \in Nat
  BY SpanEndsAreCycles
<1>2. before \in SUBSET Nat /\ \A f \in before : f <= s.window_end
  BY <1>1
<1>3. before # {}
  BY <1>1
<1>4. \E x \in before : \A f \in before : f <= x
  BY <1>1, <1>2, <1>3, GreatestOfNats
<1>5. SpanStart(r, w, s) \in before
  BY <1>3, <1>4 DEF SpanStart
<1>6. \A f \in before : f < e
  BY <1>1
<1>7. QED
  BY <1>5, <1>6

\* and no row that ends later holds e
LEMMA SpanBeyond ==
    ASSUME NEW r, Ordered(r), NEW w \in Nat \ {0}, NEW e \in Int,
           NEW s \in Spans(r, w), e <= s.window_end,
           NEW q \in Spans(r, w), s.window_end < q.window_end
    PROVE  ~(SpanStart(r, w, q) < e)
<1> DEFINE before == {x.window_end : x \in {p \in Spans(r, w) : p.window_end < q.window_end}}
<1>1. q.window_end \in Nat /\ \A p \in Spans(r, w) : p.window_end \in Nat
  BY SpanEndsAreCycles
<1>2. before \in SUBSET Nat /\ \A f \in before : f <= q.window_end
  BY <1>1
<1>3. s.window_end \in before
  OBVIOUS
<1>4. \E x \in before : \A f \in before : f <= x
  BY <1>1, <1>2, <1>3, GreatestOfNats
<1>5. /\ SpanStart(r, w, q) \in before
      /\ \A f \in before : f <= SpanStart(r, w, q)
  BY <1>3, <1>4 DEF SpanStart
<1>6. s.window_end <= SpanStart(r, w, q) /\ SpanStart(r, w, q) \in Nat
  BY <1>2, <1>3, <1>5
<1>7. QED
  BY <1>1, <1>6

LEMMA OneSpan ==
    ASSUME NEW r, Ordered(r), r # <<>>, NEW w \in Nat \ {0},
           NEW e \in r[1].end_cum_cyc + 1 .. CumCyc(r)
    PROVE  Cardinality({s \in Spans(r, w) : SpanStart(r, w, s) < e /\ e <= s.window_end}) = 1
<1> DEFINE over == {q \in Spans(r, w) : e <= q.window_end}
           C == {q.window_end : q \in over}
<1>1. Len(r) \in DOMAIN r /\ 1 \in DOMAIN r
  BY LastRow, OrderedRows
<1>2. CumCyc(r) = r[Len(r)].end_cum_cyc
  BY DEF CumCyc
<1>3. /\ r[1].end_cum_cyc \in Nat /\ r[Len(r)].end_cum_cyc \in Nat
      /\ \A q \in Spans(r, w) : q.window_end \in Nat
  BY <1>1, OrderedRows, SpanEndsAreCycles
<1>4. e \in Int /\ r[1].end_cum_cyc < e /\ e <= r[Len(r)].end_cum_cyc
  BY <1>2, <1>3
<1>5. C \in SUBSET Nat
  BY <1>3
<1>6. C # {}
  <2>1. /\ LeadingWindow(r, Len(r), w) \in Spans(r, w)
        /\ LeadingWindow(r, Len(r), w).window_end = r[Len(r)].end_cum_cyc
    BY <1>1, LeadingEnds
  <2>2. QED
    BY <2>1, <1>4
<1>7. PICK c \in C : \A d \in C : c <= d
  BY <1>5, <1>6, LeastOfNats
<1>8. PICK s \in over : c = s.window_end
  BY <1>7
<1>9. \A q \in Spans(r, w) : e <= q.window_end => s.window_end <= q.window_end
  BY <1>7, <1>8
<1>10. \E q \in Spans(r, w) : q.window_end < e
  <2>1. /\ LeadingWindow(r, 1, w) \in Spans(r, w)
        /\ LeadingWindow(r, 1, w).window_end = r[1].end_cum_cyc
    BY <1>1, LeadingEnds
  <2>2. QED
    BY <2>1, <1>4
<1>11. s \in Spans(r, w) /\ e <= s.window_end
  BY <1>8
<1>12. SpanStart(r, w, s) < e
  BY <1>4, <1>9, <1>10, <1>11, SpanOver
<1>13. ASSUME NEW q \in Spans(r, w), SpanStart(r, w, q) < e, e <= q.window_end
       PROVE  q = s
  <2>1. ~(s.window_end < q.window_end)
    BY <1>4, <1>11, <1>13, SpanBeyond
  <2>2. s.window_end <= q.window_end
    BY <1>9, <1>13
  <2>3. s.window_end = q.window_end
    BY <1>3, <1>11, <2>1, <2>2
  <2>4. QED
    BY <1>11, <2>3, EndsNameSpans
<1>14. {q \in Spans(r, w) : SpanStart(r, w, q) < e /\ e <= q.window_end} = {s}
  BY <1>11, <1>12, <1>13
<1>15. Cardinality({s}) = 1
  BY FS_Singleton
<1>16. QED
  BY <1>14, <1>15

(* The rows of ipc_spans leave no position of the window out and count none  *)
(* twice, for every window size and every trace: of two rows that name the   *)
(* same position time_series_prep keeps one (is_span_aliased), and LAG        *)
(* starts each row where the one before ends.                                *)
THEOREM SpansTileCorrect == Spec => []SpansTile
<1> USE TimelineAssumption
<1>1. RangesInv => SpansTile
  BY OneSpan DEF RangesInv, SpansTile
<1>2. QED
  BY RangesCorrect, <1>1, PTL

-----------------------------------------------------------------------------
(* Which ranges are under the window, anywhere in the span of a row.         *)

\* no row ends inside the span of another
LEMMA NoEndInside ==
    ASSUME NEW r, Ordered(r), NEW w \in Nat \ {0}, NEW s \in Spans(r, w),
           NEW e \in SpanStart(r, w, s) + 1 .. s.window_end,
           NEW q \in Spans(r, w), q.window_end < s.window_end
    PROVE  q.window_end < e
<1> DEFINE before == {x.window_end : x \in {p \in Spans(r, w) : p.window_end < s.window_end}}
<1>1. s.window_end \in Nat /\ \A p \in Spans(r, w) : p.window_end \in Nat
  BY SpanEndsAreCycles
<1>2. before \in SUBSET Nat /\ \A f \in before : f <= s.window_end
  BY <1>1
<1>3. q.window_end \in before
  OBVIOUS
<1>4. \E x \in before : \A f \in before : f <= x
  BY <1>1, <1>2, <1>3, GreatestOfNats
<1>5. /\ SpanStart(r, w, s) \in before
      /\ \A f \in before : f <= SpanStart(r, w, s)
  BY <1>3, <1>4 DEF SpanStart
<1>6. q.window_end <= SpanStart(r, w, s) /\ SpanStart(r, w, s) \in Nat
  BY <1>2, <1>3, <1>5
<1>7. QED
  BY <1>1, <1>6

\* neither does a range, nor a window that begins with the last cycle of one
LEMMA NoEdgeInside ==
    ASSUME NEW r, Ordered(r), NEW w \in Nat \ {0}, NEW s \in Spans(r, w),
           NEW e \in SpanStart(r, w, s) + 1 .. s.window_end,
           NEW i \in DOMAIN r
    PROVE  /\ r[i].end_cum_cyc < s.window_end => r[i].end_cum_cyc < e
           /\ LeadingCandidates(r, i, w) # {} /\ r[i].end_cum_cyc + w - 1 < s.window_end
              => r[i].end_cum_cyc + w - 1 < e
<1>1. ASSUME NEW j \in DOMAIN r, r[j].end_cum_cyc < s.window_end
      PROVE  r[j].end_cum_cyc < e
  <2>1. /\ LeadingWindow(r, j, w) \in Spans(r, w)
        /\ LeadingWindow(r, j, w).window_end = r[j].end_cum_cyc
    BY LeadingEnds
  <2>2. QED
    BY <1>1, <2>1, NoEndInside
<1>2. ASSUME LeadingCandidates(r, i, w) # {}, r[i].end_cum_cyc + w - 1 < s.window_end
      PROVE  r[i].end_cum_cyc + w - 1 < e
  <2> DEFINE q == TrailingWindow(r, i, w)
             l == Nearest(r, LeadingCandidates(r, i, w))
  <2>1. /\ q.window_end = r[i].end_cum_cyc + w - 1
        /\ q.is_span_aliased <=> r[i].end_cum_cyc + w - 1 = r[l].end_cum_cyc
    BY DEF TrailingWindow
  <2>2. q \in Windows(r, w)
    BY <1>2 DEF Windows
  <2>3. CASE q.is_span_aliased
    <3>1. l \in DOMAIN r
      <4>1. LeadingCandidates(r, i, w) \in SUBSET DOMAIN r
        BY DEF LeadingCandidates
      <4>2. QED
        BY <1>2, <4>1, NearestIsLeast
    <3>2. QED
      BY <1>1, <1>2, <2>1, <2>3, <3>1
  <2>4. CASE ~q.is_span_aliased
    <3>1. q \in Spans(r, w)
      BY <2>2, <2>4 DEF Spans
    <3>2. QED
      BY <1>2, <2>1, <3>1, NoEndInside
  <2>5. QED
    BY <2>3, <2>4
<1>3. QED
  BY <1>1, <1>2

\* rows of a table in the order of their last cycles
LEMMA EndsAscend ==
    ASSUME NEW r, Ordered(r), NEW i \in DOMAIN r, NEW j \in DOMAIN r
    PROVE  i < j <=> r[i].end_cum_cyc < r[j].end_cum_cyc
<1>1. i \in 1 .. Len(r) /\ j \in 1 .. Len(r) /\ Len(r) \in Nat
  BY OrderedRows
<1>2. /\ i < j => r[i].end_cum_cyc < r[j].end_cum_cyc
      /\ j < i => r[j].end_cum_cyc < r[i].end_cum_cyc
  BY <1>1 DEF Ordered, Follows
<1>3. r[i].end_cum_cyc \in Nat /\ r[j].end_cum_cyc \in Nat
  BY OrderedRows
<1>4. QED
  BY <1>1, <1>2, <1>3

\* the edges of a row, and whether they are of one range
LEMMA LeadingEdges ==
    ASSUME NEW r, Ordered(r), NEW w \in Nat \ {0}, NEW l \in DOMAIN r
    PROVE  LET s == LeadingWindow(r, l, w) IN
           /\ s.leading = l
           /\ s.trailing \in DOMAIN r
           /\ s.trailing <= l
           /\ s.is_single_range <=> s.trailing = l
           /\ r[s.trailing].end_cum_cyc > r[l].end_cum_cyc - w
           /\ \A i \in DOMAIN r : i < s.trailing => r[i].end_cum_cyc <= r[l].end_cum_cyc - w
<1> DEFINE s == LeadingWindow(r, l, w)
           t == Nearest(r, TrailingCandidates(r, l, w))
<1>1. /\ s.leading = l
      /\ s.trailing = t
      /\ s.is_single_range <=> r[l].end_cum_cyc = r[t].end_cum_cyc
  BY DEF LeadingWindow
<1>2. \A i \in DOMAIN r : r[i].end_cum_cyc \in Nat
  BY OrderedRows
<1>3. TrailingCandidates(r, l, w) \in SUBSET DOMAIN r
  BY DEF TrailingCandidates
<1>4. l \in TrailingCandidates(r, l, w)
  BY <1>2 DEF TrailingCandidates
<1>5. /\ t \in TrailingCandidates(r, l, w)
      /\ \A j \in TrailingCandidates(r, l, w) : r[t].end_cum_cyc <= r[j].end_cum_cyc
  BY <1>3, <1>4, NearestIsLeast
<1>6. t \in DOMAIN r /\ r[t].end_cum_cyc > r[l].end_cum_cyc - w
  BY <1>5 DEF TrailingCandidates
<1>7. t <= l
  <2>1. r[t].end_cum_cyc <= r[l].end_cum_cyc
    BY <1>4, <1>5
  <2>2. ~(l < t)
    BY <1>2, <1>6, <2>1, EndsAscend
  <2>3. t \in Int /\ l \in Int
    BY <1>6, OrderedRows
  <2>4. QED
    BY <2>2, <2>3
<1>8. s.is_single_range <=> t = l
  BY <1>1, <1>6, EndsDiffer
<1>9. ASSUME NEW i \in DOMAIN r, i < t
      PROVE  r[i].end_cum_cyc <= r[l].end_cum_cyc - w
  <2>1. r[i].end_cum_cyc < r[t].end_cum_cyc
    BY <1>6, <1>9, EndsAscend
  <2>2. i \notin TrailingCandidates(r, l, w)
    BY <1>2, <1>5, <1>6, <2>1
  <2>3. QED
    BY <1>2, <2>2 DEF TrailingCandidates
<1> HIDE DEF s, t
<1>10. QED
  BY <1>1, <1>6, <1>7, <1>8, <1>9 DEF s

LEMMA TrailingEdges ==
    ASSUME NEW r, Ordered(r), NEW w \in Nat \ {0}, NEW t \in DOMAIN r,
           LeadingCandidates(r, t, w) # {},
           TrailingWindow(r, t, w) \in Spans(r, w)
    PROVE  LET s == TrailingWindow(r, t, w) IN
           /\ s.trailing = t
           /\ s.leading \in DOMAIN r
           /\ t < s.leading
           /\ ~s.is_single_range
           /\ r[s.leading].end_cum_cyc >= s.window_end
           /\ \A i \in DOMAIN r : i < s.leading => r[i].end_cum_cyc < s.window_end
<1> DEFINE s == TrailingWindow(r, t, w)
           l == Nearest(r, LeadingCandidates(r, t, w))
<1>1. s.trailing = t /\ s.leading = l /\ ~s.is_single_range
  BY DEF TrailingWindow
<1>2. /\ s.window_end = r[t].end_cum_cyc + w - 1
      /\ \A i \in DOMAIN r : r[i].end_cum_cyc # s.window_end
  BY TrailingEnds
<1>3. \A i \in DOMAIN r : r[i].end_cum_cyc \in Nat
  BY OrderedRows
<1>4. LeadingCandidates(r, t, w) \in SUBSET DOMAIN r
  BY DEF LeadingCandidates
<1>5. /\ l \in LeadingCandidates(r, t, w)
      /\ \A j \in LeadingCandidates(r, t, w) : r[l].end_cum_cyc <= r[j].end_cum_cyc
  BY <1>4, NearestIsLeast
<1> HIDE DEF s, l
<1>6. l \in DOMAIN r /\ r[l].end_cum_cyc >= s.window_end
  BY <1>2, <1>5 DEF LeadingCandidates
<1>7. t < l
  <2>1. r[t].end_cum_cyc < r[l].end_cum_cyc
    BY <1>2, <1>3, <1>6
  <2>2. QED
    BY <1>6, <2>1, EndsAscend
<1>8. ASSUME NEW i \in DOMAIN r, i < l
      PROVE  r[i].end_cum_cyc < s.window_end
  <2>1. r[i].end_cum_cyc < r[l].end_cum_cyc
    BY <1>6, <1>8, EndsAscend
  <2>2. i \notin LeadingCandidates(r, t, w)
    BY <1>3, <1>5, <1>6, <2>1
  <2>3. QED
    BY <1>2, <1>3, <2>2 DEF LeadingCandidates
<1>9. QED
  BY <1>1, <1>6, <1>7, <1>8 DEF s

\* a window that ends anywhere in the span of row s begins in its trailing range
\* or, at the head of the trace, before it, and ends in its leading one
LEMMA SpanEdges ==
    ASSUME NEW r, Ordered(r), NEW w \in Nat \ {0}, NEW s \in Spans(r, w),
           NEW e \in SpanStart(r, w, s) + 1 .. s.window_end
    PROVE  /\ s.trailing \in DOMAIN r /\ s.leading \in DOMAIN r
           /\ e <= r[s.leading].end_cum_cyc
           /\ e - w < r[s.trailing].end_cum_cyc
           /\ \A i \in DOMAIN r : i < s.trailing => r[i].end_cum_cyc <= e - w
           /\ \A i \in DOMAIN r : i < s.leading => r[i].end_cum_cyc < e
<1>1. \A i \in DOMAIN r : r[i].end_cum_cyc \in Nat
  BY OrderedRows
<1>2. s.window_end \in Nat
  BY SpanEndsAreCycles
<1>3. e \in Int /\ e <= s.window_end
  <2>1. SpanStart(r, w, s) + 1 .. s.window_end # {}
    OBVIOUS
  <2>2. e <= s.window_end
    BY <1>2
  <2>3. QED
    BY <1>2, <2>2
<1>4. \A i \in DOMAIN r : r[i].end_cum_cyc < s.window_end => r[i].end_cum_cyc < e
  BY NoEdgeInside
<1>5. \A i \in DOMAIN r :
        LeadingCandidates(r, i, w) # {} /\ r[i].end_cum_cyc + w - 1 < s.window_end
        => r[i].end_cum_cyc + w - 1 < e
  BY NoEdgeInside
<1>6. CASE \E l \in DOMAIN r : s = LeadingWindow(r, l, w)
  <2>1. PICK l \in DOMAIN r : s = LeadingWindow(r, l, w)
    BY <1>6
  <2>2. s.window_end = r[l].end_cum_cyc
    BY <2>1, LeadingEnds
  <2> DEFINE t == s.trailing
  <2>3. /\ s.leading = l
        /\ t \in DOMAIN r
        /\ r[t].end_cum_cyc > r[l].end_cum_cyc - w
        /\ \A i \in DOMAIN r : i < t => r[i].end_cum_cyc <= r[l].end_cum_cyc - w
    BY <2>1, LeadingEdges
  <2> HIDE DEF t
  <2>4. ASSUME NEW i \in DOMAIN r, i < t
        PROVE  r[i].end_cum_cyc <= e - w
    <3>1. r[i].end_cum_cyc <= r[l].end_cum_cyc - w
      BY <2>3, <2>4
    <3>2. l \in LeadingCandidates(r, i, w)
      BY <1>1, <3>1 DEF LeadingCandidates
    <3>3. r[i].end_cum_cyc + w - 1 < s.window_end
      BY <1>1, <2>2, <3>1
    <3>4. r[i].end_cum_cyc + w - 1 < e
      BY <1>5, <3>2, <3>3
    <3>5. QED
      BY <1>1, <1>3, <3>4
  <2>5. ASSUME NEW i \in DOMAIN r, i < l
        PROVE  r[i].end_cum_cyc < e
    BY <1>4, <2>2, <2>5, EndsAscend
  <2>6. e <= r[l].end_cum_cyc /\ e - w < r[t].end_cum_cyc
    BY <1>1, <1>3, <2>2, <2>3
  <2>7. QED
    BY <2>3, <2>4, <2>5, <2>6 DEF t
<1>7. CASE \E t \in DOMAIN r : s = TrailingWindow(r, t, w) /\ LeadingCandidates(r, t, w) # {}
  <2>1. PICK t \in DOMAIN r : s = TrailingWindow(r, t, w) /\ LeadingCandidates(r, t, w) # {}
    BY <1>7
  <2>2. s.window_end = r[t].end_cum_cyc + w - 1
    BY <2>1, TrailingEnds
  <2> DEFINE l == s.leading
  <2>3. /\ s.trailing = t
        /\ l \in DOMAIN r
        /\ r[l].end_cum_cyc >= s.window_end
        /\ \A i \in DOMAIN r : i < l => r[i].end_cum_cyc < s.window_end
    BY <2>1, TrailingEdges
  <2> HIDE DEF l
  <2>4. ASSUME NEW i \in DOMAIN r, i < t
        PROVE  r[i].end_cum_cyc <= e - w
    <3>1. r[i].end_cum_cyc < r[t].end_cum_cyc
      BY <2>4, EndsAscend
    <3>2. r[i].end_cum_cyc + w - 1 < s.window_end
      BY <1>1, <2>2, <3>1
    <3>3. l \in LeadingCandidates(r, i, w)
      BY <1>1, <1>2, <2>3, <3>2 DEF LeadingCandidates
    <3>4. r[i].end_cum_cyc + w - 1 < e
      BY <1>5, <3>2, <3>3
    <3>5. QED
      BY <1>1, <1>3, <3>4
  <2>5. ASSUME NEW i \in DOMAIN r, i < l
        PROVE  r[i].end_cum_cyc < e
    BY <1>4, <2>3, <2>5
  <2>6. e <= r[l].end_cum_cyc /\ e - w < r[t].end_cum_cyc
    BY <1>1, <1>2, <1>3, <2>2, <2>3
  <2>7. QED
    BY <2>1, <2>3, <2>4, <2>5, <2>6 DEF l
<1>8. QED
  BY <1>6, <1>7, SpanCases

\* a range under the window shares a cycle with it
LEMMA TouchedShares ==
    ASSUME RangesInv, NEW w \in Nat \ {0}, NEW e \in Int, NEW i \in Touched(e, w)
    PROVE  /\ i \in DOMAIN ranges
           /\ e - w < ranges[i].end_cum_cyc
           /\ FirstCyc(i) <= e
<1> DEFINE C == {c \in FirstCyc(i) .. ranges[i].end_cum_cyc : e - w < c /\ c <= e}
<1>1. i \in DOMAIN ranges /\ Cardinality(C) > 0
  BY DEF Touched, Overlap
<1> HIDE DEF C
<1>2. C # {}
  <2>1. SUFFICES ASSUME C = {} PROVE FALSE
    OBVIOUS
  <2>2. Cardinality(C) = 0
    BY <2>1, FS_EmptySet
  <2>3. QED
    BY <1>1, <2>2
<1>3. ranges[i].end_cum_cyc \in Nat /\ FirstCyc(i) \in Int
  BY <1>1, OrderedRows DEF RangesInv, FirstCyc
<1>4. PICK c \in FirstCyc(i) .. ranges[i].end_cum_cyc : e - w < c /\ c <= e
  BY <1>2 DEF C
<1>5. c \in Int /\ FirstCyc(i) <= c /\ c <= ranges[i].end_cum_cyc
  BY <1>3, <1>4
<1>6. QED
  BY <1>1, <1>3, <1>4, <1>5

\* and one that lies between the ends of the window is inside it
LEMMA InsideIfBetween ==
    ASSUME RangesInv, NEW w \in Nat \ {0}, NEW e \in Int, NEW i \in DOMAIN ranges,
           e - w < FirstCyc(i), ranges[i].end_cum_cyc <= e
    PROVE  i \in Inside(e, w)
<1> DEFINE C == {c \in FirstCyc(i) .. ranges[i].end_cum_cyc : e - w < c /\ c <= e}
           a == FirstCyc(i)
           b == ranges[i].end_cum_cyc
<1>1. /\ b \in Nat /\ ranges[i].cyc_count \in Nat /\ ranges[i].cyc_count > 0
      /\ a = b - ranges[i].cyc_count + 1
  BY OrderedRows DEF RangesInv, FirstCyc, Ordered
<1> HIDE DEF a, b
<1>2. e - w < a /\ b <= e
  BY DEF a, b
<1>3. \A c \in a .. b : e - w < c /\ c <= e
  BY <1>1, <1>2
<1>4. C = a .. b
  BY <1>3 DEF a, b
<1> HIDE DEF C
<1>5. a \in Int /\ b \in Int
  BY <1>1
<1>6. Cardinality(a .. b) = IF a > b THEN 0 ELSE b - a + 1
  BY <1>5, FS_Interval
<1>7. Cardinality(C) = IF a > b THEN 0 ELSE b - a + 1
  BY <1>4, <1>6
<1>8. Cardinality(C) = ranges[i].cyc_count
  BY <1>1, <1>7
<1>9. QED
  BY <1>8 DEF Inside, Overlap, C

(* What the bounds of BoundsHoldOverSpan are sums over: wherever the window   *)
(* ends between the row before and this one, no range is under it but those  *)
(* from the trailing to the leading one, and every range strictly between    *)
(* these two is wholly inside.                                              *)
SpansNameRanges == \A w \in WindowSizes : \A s \in Spans(ranges, w) :
    \A e \in SpanStart(ranges, w, s) + 1 .. s.window_end :
        /\ Touched(e, w) \subseteq s.trailing .. s.leading
        /\ s.trailing + 1 .. s.leading - 1 \subseteq Inside(e, w)

LEMMA RangesOfSpan ==
    ASSUME RangesInv, NEW w \in Nat \ {0}, NEW s \in Spans(ranges, w),
           NEW e \in SpanStart(ranges, w, s) + 1 .. s.window_end
    PROVE  /\ Touched(e, w) \subseteq s.trailing .. s.leading
           /\ s.trailing + 1 .. s.leading - 1 \subseteq Inside(e, w)
<1> DEFINE t == s.trailing
           l == s.leading
<1>1. Ordered(ranges)
  BY DEF RangesInv
<1>2. /\ t \in DOMAIN ranges /\ l \in DOMAIN ranges
      /\ e <= ranges[l].end_cum_cyc
      /\ e - w < ranges[t].end_cum_cyc
      /\ \A i \in DOMAIN ranges : i < t => ranges[i].end_cum_cyc <= e - w
      /\ \A i \in DOMAIN ranges : i < l => ranges[i].end_cum_cyc < e
  BY <1>1, SpanEdges
<1> HIDE DEF t, l
<1>3. e \in Int
  BY <1>1, SpanEndsAreCycles
<1>4. DOMAIN ranges = 1 .. Len(ranges) /\ Len(ranges) \in Nat
  BY <1>1, OrderedRows
<1>5. ASSUME NEW i \in DOMAIN ranges, NEW j \in DOMAIN ranges, i < j
      PROVE  ranges[i].end_cum_cyc < FirstCyc(j)
  <2>1. Follows(ranges[i], ranges[j])
    BY <1>1, <1>4, <1>5 DEF Ordered
  <2>2. /\ ranges[i].end_cum_cyc \in Nat /\ ranges[j].end_cum_cyc \in Nat
        /\ ranges[j].cyc_count \in Nat
    BY <1>1, OrderedRows
  <2>3. QED
    BY <2>1, <2>2 DEF Follows, FirstCyc
<1>6. \A i \in DOMAIN ranges : ranges[i].end_cum_cyc \in Nat /\ FirstCyc(i) \in Int
  BY <1>1, OrderedRows DEF FirstCyc
<1>7. ASSUME NEW i \in Touched(e, w) PROVE i \in t .. l
  <2>1. /\ i \in DOMAIN ranges
        /\ e - w < ranges[i].end_cum_cyc
        /\ FirstCyc(i) <= e
    BY <1>3, TouchedShares
  <2>2. ~(i < t)
    BY <1>2, <1>3, <1>6, <2>1
  <2>3. ~(l < i)
    <3>1. SUFFICES ASSUME l < i PROVE FALSE
      OBVIOUS
    <3>2. ranges[l].end_cum_cyc < FirstCyc(i)
      BY <1>2, <1>5, <2>1, <3>1
    <3>3. QED
      BY <1>2, <1>3, <1>6, <2>1, <3>2
  <2>4. QED
    BY <1>2, <1>4, <2>1, <2>2, <2>3
<1>8. ASSUME NEW i \in t + 1 .. l - 1 PROVE i \in Inside(e, w)
  <2>1. i \in DOMAIN ranges /\ t < i /\ i < l
    BY <1>2, <1>4
  <2>2. ranges[i].end_cum_cyc <= e
    BY <1>2, <1>3, <1>6, <2>1
  <2>3. ranges[t].end_cum_cyc < FirstCyc(i)
    BY <1>2, <1>5, <2>1
  <2>4. e - w < FirstCyc(i)
    BY <1>2, <1>3, <1>6, <2>1, <2>3
  <2>5. QED
    BY <1>3, <2>1, <2>2, <2>4, InsideIfBetween
<1>9. QED
  BY <1>7, <1>8 DEF t, l

(* The trailing and the leading range that time_series_prep names for a row  *)
(* are right at every position of its span, not only at its end.             *)
THEOREM SpansNameRangesCorrect == Spec => []SpansNameRanges
<1> USE TimelineAssumption
<1>1. RangesInv => SpansNameRanges
  BY RangesOfSpan DEF SpansNameRanges
<1>2. QED
  BY RangesCorrect, <1>1, PTL

-----------------------------------------------------------------------------
(* The three numbers of instructions of a row.                              *)

\* no cycle and no instruction lies between one range and the next, or before
\* the first
Adjacent(r) == \A j \in 1 .. Len(r) :
    /\ r[j].end_cum_cyc - r[j].cyc_count = IF j = 1 THEN 0 ELSE r[j - 1].end_cum_cyc
    /\ r[j].end_cum_insns - r[j].insn_count = IF j = 1 THEN 0 ELSE r[j - 1].end_cum_insns

LEMMA AdjacentInit == Init => Adjacent(ranges)
<1> SUFFICES ASSUME Init PROVE Adjacent(ranges)
  OBVIOUS
<1>1. ranges = <<>>
  BY DEF Init, TimelineInit
<1>2. QED
  BY <1>1 DEF Adjacent

LEMMA AdjacentStep == RangesInv /\ Adjacent(ranges) /\ [Next]_vars => Adjacent(ranges)'
<1> SUFFICES ASSUME RangesInv, Adjacent(ranges), [Next]_vars PROVE Adjacent(ranges')
  OBVIOUS
<1> USE TimelineAssumption
<1>1. CASE ranges' = ranges
  BY <1>1
<1>2. CASE RecordSample
  <2>1. PICK insns \in InsnCounts, cyc \in CycCounts, elapsed \in {0, 1}, begin \in BOOLEAN :
           ranges' = AddSample(ranges, [time |-> LastTime + elapsed * cyc, insn_count |-> insns,
                                        cyc_count |-> cyc, trace_begin |-> begin])
    BY <1>2 DEF RecordSample
  <2> DEFINE s == [time |-> LastTime + elapsed * cyc, insn_count |-> insns,
                   cyc_count |-> cyc, trace_begin |-> begin]
             x == RangeOf(ranges, s)
             n == Len(ranges)
  <2>2. /\ cyc \in Nat /\ s.cyc_count = cyc /\ cyc > 0
        /\ insns \in Nat /\ s.insn_count = insns
    OBVIOUS
  <2>3. ranges' = Append(ranges, x)
    BY <2>1, <2>2 DEF AddSample, Timestamped
  <2>4. /\ x.end_cum_cyc = CumCyc(ranges) + cyc /\ x.cyc_count = cyc
        /\ x.end_cum_insns = CumInsns(ranges) + insns /\ x.insn_count = insns
    BY <2>2 DEF RangeOf
  <2> HIDE DEF x
  <2>5. /\ n \in Nat /\ ranges \in Seq(TimestampedRange)
        /\ DOMAIN ranges = 1 .. n
    BY OrderedRows DEF RangesInv, Ordered
  <2>6. /\ CumCyc(ranges) = (IF n = 0 THEN 0 ELSE ranges[n].end_cum_cyc)
        /\ CumInsns(ranges) = (IF n = 0 THEN 0 ELSE ranges[n].end_cum_insns)
        /\ CumCyc(ranges) \in Nat /\ CumInsns(ranges) \in Nat
    <3>1. CASE ranges = <<>>
      BY <3>1 DEF CumCyc, CumInsns
    <3>2. CASE ranges # <<>>
      <4>1. /\ n \in DOMAIN ranges
            /\ ranges[n].end_cum_cyc \in Nat /\ ranges[n].end_cum_insns \in Nat
        BY <3>2, LastRow, OrderedRows DEF RangesInv
      <4>2. n # 0
        BY <4>1, <2>5
      <4>3. QED
        BY <3>2, <4>1, <4>2 DEF CumCyc, CumInsns
    <3>3. QED
      BY <3>1, <3>2
  <2>7. /\ Len(ranges') = n + 1
        /\ ranges'[n + 1] = x
        /\ \A i \in 1 .. n : ranges'[i] = ranges[i]
    BY <2>3, <2>5
  <2>8. ASSUME NEW j \in 1 .. Len(ranges')
        PROVE  /\ ranges'[j].end_cum_cyc - ranges'[j].cyc_count
                    = IF j = 1 THEN 0 ELSE ranges'[j - 1].end_cum_cyc
               /\ ranges'[j].end_cum_insns - ranges'[j].insn_count
                    = IF j = 1 THEN 0 ELSE ranges'[j - 1].end_cum_insns
    <3>1. CASE j \in 1 .. n
      <4>1. ranges'[j] = ranges[j] /\ (j # 1 => ranges'[j - 1] = ranges[j - 1])
        BY <2>5, <2>7, <3>1
      <4>2. /\ ranges[j].end_cum_cyc - ranges[j].cyc_count
                 = IF j = 1 THEN 0 ELSE ranges[j - 1].end_cum_cyc
            /\ ranges[j].end_cum_insns - ranges[j].insn_count
                 = IF j = 1 THEN 0 ELSE ranges[j - 1].end_cum_insns
        BY <3>1 DEF Adjacent
      <4>3. QED
        BY <4>1, <4>2
    <3>2. CASE j = n + 1
      <4>1. /\ ranges'[j].end_cum_cyc - ranges'[j].cyc_count = CumCyc(ranges)
            /\ ranges'[j].end_cum_insns - ranges'[j].insn_count = CumInsns(ranges)
        BY <2>2, <2>4, <2>6, <2>7, <3>2
      <4>2. n # 0 => ranges'[n] = ranges[n]
        BY <2>5, <2>7
      <4>3. QED
        BY <2>5, <2>6, <3>2, <4>1, <4>2
    <3>3. QED
      BY <2>5, <2>7, <3>1, <3>2
  <2>9. QED
    BY <2>8 DEF Adjacent
<1>3. QED
  BY <1>1, <1>2 DEF Next, Samples, Calls, vars

LEMMA AdjacentCorrect == Spec => []Adjacent(ranges)
<1>1. RangesInv /\ Adjacent(ranges) /\ [Next]_vars => Adjacent(ranges)'
  BY AdjacentStep
<1>2. QED
  BY RangesCorrect, AdjacentInit, <1>1, PTL DEF Spec

LEMMA ProductGrows ==
    ASSUME NEW k \in Nat, NEW a \in Nat, NEW b \in Nat, a <= b
    PROVE  k * a <= k * b
<1> DEFINE z == b - a
<1>1. z \in Nat /\ b = a + z
  OBVIOUS
<1> HIDE DEF z
<1>2. k * b = k * a + k * z
  BY <1>1
<1>3. k * a \in Nat /\ k * z \in Nat
  BY <1>1
<1>4. QED
  BY <1>2, <1>3

\* a share of the instructions of a range is no more than all of them
LEMMA ShareBounded ==
    ASSUME NEW x \in Nat, NEW c \in Nat, NEW d \in Nat, NEW k \in Nat \ {0}, c <= k
    PROVE  (x * c * d) \div k \in 0 .. x * d
<1> DEFINE m == x * d
           p == x * c * d
           q == p \div k
<1>1. m \in Nat /\ p \in Nat /\ p = m * c
  OBVIOUS
<1> HIDE DEF m, p
<1>2. q \in Nat /\ k * q <= p
  BY <1>1
<1> HIDE DEF q
<1>3. p <= k * m
  <2>1. m * c <= m * k
    BY <1>1, ProductGrows
  <2>2. m * k = k * m
    BY <1>1
  <2>3. QED
    BY <1>1, <2>1, <2>2
<1>4. q <= m
  <2>1. SUFFICES ASSUME m + 1 <= q PROVE FALSE
    BY <1>1, <1>2
  <2>2. k * (m + 1) <= k * q
    BY <1>1, <1>2, <2>1, ProductGrows
  <2>3. k * (m + 1) = k * m + k
    BY <1>1
  <2>4. k * m \in Nat /\ k * q \in Nat /\ k > 0
    BY <1>1, <1>2
  <2>5. QED
    BY <1>1, <1>2, <1>3, <2>2, <2>3, <2>4
<1>5. QED
  BY <1>1, <1>2, <1>4 DEF q, p, m

\* how much of its two outer ranges a row counts
LEMMA PartsOfSpan ==
    ASSUME NEW r, Ordered(r), Adjacent(r), NEW w \in Nat \ {0}, NEW s \in Spans(r, w),
           s.window_start >= 1
    PROVE  /\ s.trailing \in DOMAIN r /\ s.leading \in DOMAIN r
           /\ TrailingCyc(r, s) \in 0 .. r[s.trailing].cyc_count
           /\ LeadingCyc(r, s) \in 0 .. r[s.leading].cyc_count
           /\ LeadingInsns(r, s) \in Nat
           /\ InteriorInsns(r, s) \in Nat
<1>1. DOMAIN r = 1 .. Len(r) /\ Len(r) \in Nat
  BY OrderedRows
<1>2. \A i \in DOMAIN r : /\ r[i].end_cum_cyc \in Nat /\ r[i].cyc_count \in Nat
                          /\ r[i].end_cum_insns \in Nat /\ r[i].insn_count \in Nat
                          /\ r[i].cyc_count > 0
  BY OrderedRows DEF Ordered
<1>3. \A j \in DOMAIN r : /\ j = 1 => r[j].end_cum_cyc = r[j].cyc_count
                          /\ j # 1 => /\ j - 1 \in DOMAIN r
                                      /\ r[j - 1].end_cum_cyc = r[j].end_cum_cyc - r[j].cyc_count
  <2>1. SUFFICES ASSUME NEW j \in DOMAIN r
                 PROVE  /\ j = 1 => r[j].end_cum_cyc = r[j].cyc_count
                        /\ j # 1 => /\ j - 1 \in DOMAIN r
                                    /\ r[j - 1].end_cum_cyc = r[j].end_cum_cyc - r[j].cyc_count
    OBVIOUS
  <2>2. r[j].end_cum_cyc - r[j].cyc_count = IF j = 1 THEN 0 ELSE r[j - 1].end_cum_cyc
    BY <1>1 DEF Adjacent
  <2>3. QED
    BY <1>1, <1>2, <2>2
<1>4. \A i, j \in DOMAIN r : i < j => r[i].end_cum_insns <= r[j].end_cum_insns - r[j].insn_count
  BY <1>1 DEF Ordered, Follows
<1>5. CASE \E l \in DOMAIN r : s = LeadingWindow(r, l, w)
  <2>1. PICK l \in DOMAIN r : s = LeadingWindow(r, l, w)
    BY <1>5
  <2> DEFINE t == s.trailing
             start == s.window_start
  <2>2. /\ s.leading = l
        /\ t \in DOMAIN r
        /\ t <= l
        /\ s.is_single_range <=> t = l
        /\ r[t].end_cum_cyc > r[l].end_cum_cyc - w
        /\ \A i \in DOMAIN r : i < t => r[i].end_cum_cyc <= r[l].end_cum_cyc - w
    <3> DEFINE v == LeadingWindow(r, l, w)
    <3>1. /\ v.leading = l
          /\ v.trailing \in DOMAIN r
          /\ v.trailing <= l
          /\ v.is_single_range <=> v.trailing = l
          /\ r[v.trailing].end_cum_cyc > r[l].end_cum_cyc - w
          /\ \A i \in DOMAIN r : i < v.trailing => r[i].end_cum_cyc <= r[l].end_cum_cyc - w
      BY LeadingEdges
    <3> HIDE DEF v
    <3>2. s = v
      BY <2>1 DEF v
    <3>3. QED
      BY <3>1, <3>2
  <2>3. s.window_end = r[l].end_cum_cyc /\ start = r[l].end_cum_cyc - (w - 1) /\ start >= 1
    BY <2>1 DEF LeadingWindow
  <2>4. /\ TrailingCyc(r, s) = r[t].end_cum_cyc - start + 1
        /\ LeadingCyc(r, s) = IF t = l THEN 0 ELSE r[l].cyc_count - (r[l].end_cum_cyc - r[l].end_cum_cyc)
        /\ LeadingInsns(r, s) = IF t = l THEN 0 ELSE r[l].insn_count
        /\ InteriorInsns(r, s) = IF t = l THEN 0
                                 ELSE (r[l].end_cum_insns - r[l].insn_count) - r[t].end_cum_insns
    BY <2>2, <2>3 DEF TrailingCyc, LeadingCyc, LeadingInsns, InteriorInsns
  <2> HIDE DEF t, start
  <2>5. TrailingCyc(r, s) \in 0 .. r[t].cyc_count
    <3>1. CASE t = 1
      <4>1. r[t].end_cum_cyc = r[t].cyc_count
        BY <1>3, <2>2, <3>1
      <4>2. QED
        BY <1>2, <2>2, <2>3, <2>4, <4>1
    <3>2. CASE t # 1
      <4>1. t - 1 \in DOMAIN r /\ r[t - 1].end_cum_cyc = r[t].end_cum_cyc - r[t].cyc_count
        BY <1>3, <2>2, <3>2
      <4>2. r[t - 1].end_cum_cyc <= r[l].end_cum_cyc - w
        BY <1>1, <2>2, <4>1
      <4>3. QED
        BY <1>2, <2>2, <2>3, <2>4, <4>1, <4>2
    <3>3. QED
      BY <3>1, <3>2
  <2>6. LeadingCyc(r, s) \in 0 .. r[l].cyc_count /\ LeadingInsns(r, s) \in Nat
    BY <1>2, <2>4
  <2>7. InteriorInsns(r, s) \in Nat
    <3>1. CASE t = l
      BY <2>4, <3>1
    <3>2. CASE t # l
      <4>1. t < l
        BY <1>1, <2>2, <3>2
      <4>2. r[t].end_cum_insns <= r[l].end_cum_insns - r[l].insn_count
        BY <1>4, <2>2, <4>1
      <4>3. QED
        BY <1>2, <2>2, <2>4, <3>2, <4>2
    <3>3. QED
      BY <3>1, <3>2
  <2>8. QED
    BY <2>2, <2>5, <2>6, <2>7 DEF t
<1>6. CASE \E t \in DOMAIN r : s = TrailingWindow(r, t, w) /\ LeadingCandidates(r, t, w) # {}
  <2>1. PICK t \in DOMAIN r : s = TrailingWindow(r, t, w) /\ LeadingCandidates(r, t, w) # {}
    BY <1>6
  <2> DEFINE l == s.leading
             end == s.window_end
  <2>2. /\ s.trailing = t
        /\ l \in DOMAIN r
        /\ t < l
        /\ ~s.is_single_range
        /\ r[l].end_cum_cyc >= end
        /\ \A i \in DOMAIN r : i < l => r[i].end_cum_cyc < end
    BY <2>1, TrailingEdges
  <2>3. s.window_start = r[t].end_cum_cyc
    BY <2>1 DEF TrailingWindow
  <2>4. end \in Nat
    BY SpanEndsAreCycles
  <2>5. /\ TrailingCyc(r, s) = r[t].end_cum_cyc - r[t].end_cum_cyc + 1
        /\ LeadingCyc(r, s) = r[l].cyc_count - (r[l].end_cum_cyc - end)
        /\ LeadingInsns(r, s) = r[l].insn_count
        /\ InteriorInsns(r, s) = (r[l].end_cum_insns - r[l].insn_count) - r[t].end_cum_insns
    BY <2>2, <2>3 DEF TrailingCyc, LeadingCyc, LeadingInsns, InteriorInsns
  <2> HIDE DEF l, end
  <2>6. TrailingCyc(r, s) \in 0 .. r[t].cyc_count
    BY <1>2, <2>5
  <2>7. LeadingCyc(r, s) \in 0 .. r[l].cyc_count
    <3>1. l # 1
      BY <1>1, <2>2
    <3>2. l - 1 \in DOMAIN r /\ r[l - 1].end_cum_cyc = r[l].end_cum_cyc - r[l].cyc_count
      BY <1>3, <2>2, <3>1
    <3>3. r[l - 1].end_cum_cyc < end
      BY <1>1, <2>2, <3>2
    <3>4. QED
      BY <1>2, <2>2, <2>4, <2>5, <3>2, <3>3
  <2>8. LeadingInsns(r, s) \in Nat /\ InteriorInsns(r, s) \in Nat
    <3>1. r[t].end_cum_insns <= r[l].end_cum_insns - r[l].insn_count
      BY <1>4, <2>2
    <3>2. QED
      BY <1>2, <2>2, <2>5, <3>1
  <2>9. QED
    BY <2>2, <2>6, <2>7, <2>8 DEF l
<1>7. QED
  BY <1>5, <1>6, SpanCases

\* the interpolation lies between them
LEMMA InterpolationOfSpan ==
    ASSUME RangesInv, Adjacent(ranges), NEW w \in Nat \ {0}, NEW s \in Spans(ranges, w),
           s.window_start >= 1, NEW d \in Nat
    PROVE  /\ Conservative(ranges, s) * d <= LinearInterp(ranges, s, d)
           /\ LinearInterp(ranges, s, d) <= Optimistic(ranges, s) * d
<1> DEFINE t == s.trailing
           l == s.leading
           ti == ranges[t].insn_count
           li == LeadingInsns(ranges, s)
           ii == InteriorInsns(ranges, s)
           st == (ti * TrailingCyc(ranges, s) * d) \div ranges[t].cyc_count
           sl == (li * LeadingCyc(ranges, s) * d) \div ranges[l].cyc_count
<1>1. /\ t \in DOMAIN ranges /\ l \in DOMAIN ranges
      /\ TrailingCyc(ranges, s) \in 0 .. ranges[t].cyc_count
      /\ LeadingCyc(ranges, s) \in 0 .. ranges[l].cyc_count
      /\ li \in Nat /\ ii \in Nat
  BY PartsOfSpan DEF RangesInv
<1>2. /\ ranges[t].cyc_count \in Nat \ {0} /\ ranges[l].cyc_count \in Nat \ {0}
      /\ ti \in Nat
  BY <1>1, OrderedRows DEF RangesInv, Ordered
<1>3. st \in 0 .. ti * d
  BY <1>1, <1>2, ShareBounded
<1>4. sl \in 0 .. li * d
  BY <1>1, <1>2, ShareBounded
<1>5. /\ LinearInterp(ranges, s, d) = st + sl + ii * d
      /\ Conservative(ranges, s) = ii
      /\ Optimistic(ranges, s) = ti + li + ii
  BY DEF LinearInterp, Conservative, Optimistic
<1> HIDE DEF st, sl, ti, li, ii
<1>6. (ti + li + ii) * d = ti * d + li * d + ii * d
  BY <1>1, <1>2
<1>7. ti * d \in Nat /\ li * d \in Nat /\ ii * d \in Nat
  BY <1>1, <1>2
<1>8. QED
  BY <1>3, <1>4, <1>5, <1>6, <1>7

LEMMA SpanRuns ==
    ASSUME NEW r, Ordered(r), NEW w \in Nat \ {0}, NEW s \in Spans(r, w)
    PROVE  /\ s.trailing \in DOMAIN r /\ s.leading \in DOMAIN r
           /\ s.trailing <= s.leading
           /\ s.is_single_range <=> s.trailing = s.leading
<1>1. DOMAIN r = 1 .. Len(r) /\ Len(r) \in Nat
  BY OrderedRows
<1>2. CASE \E l \in DOMAIN r : s = LeadingWindow(r, l, w)
  BY <1>2, LeadingEdges
<1>3. CASE \E t \in DOMAIN r : s = TrailingWindow(r, t, w) /\ LeadingCandidates(r, t, w) # {}
  <2>1. PICK t \in DOMAIN r : s = TrailingWindow(r, t, w) /\ LeadingCandidates(r, t, w) # {}
    BY <1>3
  <2>2. s.trailing = t /\ s.leading \in DOMAIN r /\ t < s.leading /\ ~s.is_single_range
    BY <2>1, TrailingEdges
  <2>3. QED
    BY <1>1, <2>2
<1>4. QED
  BY <1>2, <1>3, SpanCases

\* the bounds of a row as sums over its ranges
LEMMA BoundsAreSums ==
    ASSUME RangesInv, Adjacent(ranges), NEW w \in Nat \ {0}, NEW s \in Spans(ranges, w)
    PROVE  /\ Insns(s.trailing .. s.leading) = Optimistic(ranges, s)
           /\ Conservative(ranges, s) = IF s.trailing + 1 <= s.leading - 1
                                        THEN Insns(s.trailing + 1 .. s.leading - 1) ELSE 0
<1> DEFINE t == s.trailing
           l == s.leading
           f == [i \in DOMAIN ranges |-> ranges[i].insn_count]
           cum == [i \in DOMAIN ranges |-> ranges[i].end_cum_insns]
<1>1. Ordered(ranges) /\ DOMAIN ranges = 1 .. Len(ranges) /\ Len(ranges) \in Nat
  BY OrderedRows DEF RangesInv
<1>2. t \in 1 .. Len(ranges) /\ l \in 1 .. Len(ranges) /\ t <= l /\ (s.is_single_range <=> t = l)
  BY <1>1, SpanRuns
<1>3. \A i \in 1 .. Len(ranges) : /\ f[i] = ranges[i].insn_count
                                  /\ cum[i] = ranges[i].end_cum_insns
                                  /\ f[i] \in Nat /\ cum[i] \in Nat
  BY <1>1, OrderedRows
<1>4. \A S : Insns(S) = SumFunctionOnSet(f, S)
  BY DEF Insns
<1> HIDE DEF f, cum
<1>5. \A i \in 2 .. Len(ranges) : i - 1 \in 1 .. Len(ranges) /\ cum[i] = cum[i - 1] + f[i]
  <2>1. SUFFICES ASSUME NEW i \in 2 .. Len(ranges)
                 PROVE  i - 1 \in 1 .. Len(ranges) /\ cum[i] = cum[i - 1] + f[i]
    OBVIOUS
  <2>2. i \in 1 .. Len(ranges) /\ i - 1 \in 1 .. Len(ranges) /\ i # 1
    BY <1>1
  <2>3. ranges[i].end_cum_insns - ranges[i].insn_count = ranges[i - 1].end_cum_insns
    BY <2>2 DEF Adjacent
  <2>4. cum[i] - f[i] = cum[i - 1]
    BY <1>3, <2>2, <2>3
  <2>5. QED
    BY <1>3, <2>2, <2>4
<1>6. /\ Optimistic(ranges, s) = IF t = l THEN f[t] ELSE f[t] + cum[l] - cum[t]
      /\ Conservative(ranges, s) = IF t = l THEN 0 ELSE cum[l] - f[l] - cum[t]
  <2>1. /\ f[t] = ranges[t].insn_count /\ f[l] = ranges[l].insn_count
        /\ cum[t] = ranges[t].end_cum_insns /\ cum[l] = ranges[l].end_cum_insns
        /\ f[t] \in Nat /\ f[l] \in Nat /\ cum[t] \in Nat /\ cum[l] \in Nat
    BY <1>2, <1>3
  <2>2. /\ LeadingInsns(ranges, s) = IF t = l THEN 0 ELSE f[l]
        /\ InteriorInsns(ranges, s) = IF t = l THEN 0 ELSE cum[l] - f[l] - cum[t]
    BY <1>2, <2>1 DEF LeadingInsns, InteriorInsns
  <2>3. /\ Optimistic(ranges, s) = f[t] + LeadingInsns(ranges, s) + InteriorInsns(ranges, s)
        /\ Conservative(ranges, s) = InteriorInsns(ranges, s)
    BY <2>1 DEF Optimistic, Conservative
  <2> HIDE DEF t, l
  <2>4. QED
    BY <2>1, <2>2, <2>3
<1> HIDE DEF t, l
<1>7. ASSUME NEW a \in 1 .. Len(ranges), NEW b \in 1 .. Len(ranges), a <= b
      PROVE  Insns(a .. b) = cum[b] - cum[a] + f[a]
  <2>1. a .. b \subseteq 1 .. Len(ranges) /\ a + 1 .. b \subseteq 2 .. Len(ranges)
    BY <1>1
  <2>2. Totals(cum, f, a, b)
    BY <1>3, <1>5, <2>1 DEF Totals
  <2>3. QED
    BY <1>4, <1>7, <2>2, SumOfInterval
<1>8. Insns(t .. l) = Optimistic(ranges, s)
  <2>1. Insns(t .. l) = cum[l] - cum[t] + f[t]
    BY <1>2, <1>7
  <2>2. /\ f[t] \in Nat /\ f[l] \in Nat /\ cum[t] \in Nat /\ cum[l] \in Nat
    BY <1>2, <1>3
  <2>3. QED
    BY <1>6, <2>1, <2>2
<1>9. ASSUME t + 1 <= l - 1 PROVE Insns(t + 1 .. l - 1) = Conservative(ranges, s)
  <2> DEFINE u == t + 1
             v == l - 1
  <2>1. /\ u \in 2 .. Len(ranges) /\ u \in 1 .. Len(ranges) /\ u - 1 = t
        /\ l \in 2 .. Len(ranges) /\ v \in 1 .. Len(ranges) /\ l - 1 = v
        /\ t # l /\ u <= v
    BY <1>1, <1>2, <1>9
  <2> HIDE DEF u, v
  <2>2. Insns(u .. v) = cum[v] - cum[u] + f[u]
    BY <1>7, <2>1
  <2>3. cum[u] = cum[t] + f[u]
    BY <1>5, <2>1
  <2>4. cum[l] = cum[v] + f[l]
    BY <1>5, <2>1
  <2>5. /\ f[u] \in Nat /\ f[l] \in Nat /\ cum[t] \in Nat /\ cum[l] \in Nat
        /\ cum[u] \in Nat /\ cum[v] \in Nat
    BY <1>2, <1>3, <2>1
  <2>6. Conservative(ranges, s) = cum[l] - f[l] - cum[t]
    BY <1>6, <2>1
  <2>7. Insns(u .. v) = Conservative(ranges, s)
    BY <2>2, <2>3, <2>4, <2>5, <2>6
  <2>8. QED
    BY <2>7 DEF u, v
<1>10. ASSUME ~(t + 1 <= l - 1) PROVE Conservative(ranges, s) = 0
  <2>1. CASE t = l
    BY <1>6, <2>1
  <2>2. CASE t # l
    <3>1. l = t + 1 /\ l \in 2 .. Len(ranges) /\ l - 1 = t
      BY <1>1, <1>2, <1>10, <2>2
    <3>2. cum[l] = cum[t] + f[l]
      BY <1>5, <3>1
    <3>3. f[l] \in Nat /\ cum[t] \in Nat /\ cum[l] \in Nat
      BY <1>2, <1>3
    <3>4. QED
      BY <1>6, <2>2, <3>2, <3>3
  <2>3. QED
    BY <2>1, <2>2
<1>11. QED
  BY <1>8, <1>9, <1>10 DEF t, l

LEMMA BoundsOfSpan ==
    ASSUME RangesInv, Adjacent(ranges), NEW w \in Nat \ {0}, NEW s \in Spans(ranges, w),
           NEW e \in SpanStart(ranges, w, s) + 1 .. s.window_end
    PROVE  /\ Insns(Touched(e, w)) <= Optimistic(ranges, s)
           /\ Insns(Inside(e, w)) >= Conservative(ranges, s)
<1> DEFINE f == [i \in DOMAIN ranges |-> ranges[i].insn_count]
           t == s.trailing
           l == s.leading
<1>1. Ordered(ranges) /\ DOMAIN ranges = 1 .. Len(ranges) /\ Len(ranges) \in Nat
  BY OrderedRows DEF RangesInv
<1>2. t \in 1 .. Len(ranges) /\ l \in 1 .. Len(ranges)
  BY <1>1, SpanRuns
<1>3. \A i \in DOMAIN ranges : f[i] \in Nat
  BY <1>1, OrderedRows
<1>4. Touched(e, w) \subseteq t .. l /\ t + 1 .. l - 1 \subseteq Inside(e, w)
  BY RangesOfSpan
<1>5. Inside(e, w) \subseteq DOMAIN ranges /\ t .. l \subseteq DOMAIN ranges
  <2>1. t .. l \subseteq 1 .. Len(ranges)
    BY <1>1, <1>2
  <2>2. QED
    BY <1>1, <2>1 DEF Inside
<1>6. /\ Insns(t .. l) = Optimistic(ranges, s)
      /\ Conservative(ranges, s) = IF t + 1 <= l - 1 THEN Insns(t + 1 .. l - 1) ELSE 0
  BY BoundsAreSums
<1>7. \A S : Insns(S) = SumFunctionOnSet(f, S)
  BY DEF Insns
<1> HIDE DEF f, t, l
<1>8. IsFiniteSet(1 .. Len(ranges))
  BY <1>1, FS_Interval
<1>9. IsFiniteSet(t .. l) /\ IsFiniteSet(Inside(e, w))
  BY <1>1, <1>5, <1>8, FS_Subset
<1>10. SumFunctionOnSet(f, Touched(e, w)) <= SumFunctionOnSet(f, t .. l)
  BY <1>3, <1>4, <1>5, <1>9, SumGrows
<1>11. SumFunctionOnSet(f, Inside(e, w)) \in Nat
  BY <1>3, <1>5, <1>9, SumNat
<1>12. /\ SumFunctionOnSet(f, t + 1 .. l - 1) <= SumFunctionOnSet(f, Inside(e, w))
       /\ SumFunctionOnSet(f, t + 1 .. l - 1) \in Nat
  BY <1>3, <1>4, <1>5, <1>9, SumGrows
<1>13. QED
  BY <1>6, <1>7, <1>10, <1>11, <1>12

(* The optimistic and the conservative number of instructions of a row of     *)
(* ipc_spans bound what any window ending in its span can have executed, for *)
(* every trace and every window size.                                       *)
THEOREM BoundsHoldOverSpanCorrect == Spec => []BoundsHoldOverSpan
<1> USE TimelineAssumption
<1>1. RangesInv /\ Adjacent(ranges) => BoundsHoldOverSpan
  BY BoundsOfSpan DEF BoundsHoldOverSpan
<1>2. QED
  BY RangesCorrect, AdjacentCorrect, <1>1, PTL


-----------------------------------------------------------------------------
(* The interpolation, cycle by cycle.                                       *)

\* the ranges under the window of a row at the end of its span
LEMMA SpanAtEnd ==
    ASSUME NEW r, Ordered(r), NEW w \in Nat \ {0}, NEW s \in Spans(r, w)
    PROVE  /\ s.window_end \in Nat
           /\ s.window_start = s.window_end - w + 1
           /\ s.window_start <= r[s.trailing].end_cum_cyc
           /\ r[s.trailing].end_cum_cyc <= s.window_end
           /\ s.window_end <= r[s.leading].end_cum_cyc
           /\ \A i \in DOMAIN r : i < s.trailing => r[i].end_cum_cyc < s.window_start
           /\ \A i \in DOMAIN r : i < s.leading => r[i].end_cum_cyc <= s.window_end
<1>1. \A i \in DOMAIN r : r[i].end_cum_cyc \in Nat
  BY OrderedRows
<1>2. s.window_end \in Nat
  BY SpanEndsAreCycles
<1>3. DOMAIN r \in SUBSET Nat
  BY OrderedRows
<1>4. CASE \E l \in DOMAIN r : s = LeadingWindow(r, l, w)
  <2>1. PICK l \in DOMAIN r : s = LeadingWindow(r, l, w)
    BY <1>4
  <2> DEFINE t == s.trailing
  <2>2. /\ s.leading = l /\ t \in DOMAIN r /\ t <= l
        /\ r[t].end_cum_cyc > r[l].end_cum_cyc - w
        /\ \A i \in DOMAIN r : i < t => r[i].end_cum_cyc <= r[l].end_cum_cyc - w
    BY <2>1, LeadingEdges
  <2>3. s.window_end = r[l].end_cum_cyc /\ s.window_start = r[l].end_cum_cyc - (w - 1)
    BY <2>1 DEF LeadingWindow
  <2>4. r[t].end_cum_cyc <= r[l].end_cum_cyc
    <3>1. CASE t = l
      BY <1>1, <3>1
    <3>2. CASE t < l
      BY <1>1, <2>2, <3>2, EndsAscend
    <3>3. QED
      BY <1>3, <2>2, <3>1, <3>2
  <2>5. \A i \in DOMAIN r : i < l => r[i].end_cum_cyc <= r[l].end_cum_cyc
    BY <1>1, EndsAscend
  <2> HIDE DEF t
  <2>6. /\ s.window_start = s.window_end - w + 1
        /\ s.window_start <= r[t].end_cum_cyc
        /\ \A i \in DOMAIN r : i < t => r[i].end_cum_cyc < s.window_start
    BY <1>1, <2>2, <2>3
  <2>7. QED
    BY <1>1, <1>2, <2>2, <2>3, <2>4, <2>5, <2>6 DEF t
<1>5. CASE \E t \in DOMAIN r : s = TrailingWindow(r, t, w) /\ LeadingCandidates(r, t, w) # {}
  <2>1. PICK t \in DOMAIN r : s = TrailingWindow(r, t, w) /\ LeadingCandidates(r, t, w) # {}
    BY <1>5
  <2> DEFINE l == s.leading
  <2>2. /\ s.trailing = t /\ l \in DOMAIN r /\ t < l
        /\ r[l].end_cum_cyc >= s.window_end
        /\ \A i \in DOMAIN r : i < l => r[i].end_cum_cyc < s.window_end
    BY <2>1, TrailingEdges
  <2>3. s.window_end = r[t].end_cum_cyc + w - 1 /\ s.window_start = r[t].end_cum_cyc
    BY <2>1 DEF TrailingWindow
  <2>4. \A i \in DOMAIN r : i < t => r[i].end_cum_cyc < r[t].end_cum_cyc
    BY EndsAscend
  <2> HIDE DEF l
  <2>5. /\ s.window_start = s.window_end - w + 1
        /\ r[t].end_cum_cyc <= s.window_end
        /\ \A i \in DOMAIN r : i < l => r[i].end_cum_cyc <= s.window_end
    BY <1>1, <1>2, <2>2, <2>3
  <2>6. QED
    BY <1>1, <1>2, <2>2, <2>3, <2>4, <2>5 DEF l
<1>6. QED
  BY <1>4, <1>5, SpanCases

LEMMA OverlapCount ==
    ASSUME RangesInv, NEW w \in Nat \ {0}, NEW e \in Int, NEW i \in DOMAIN ranges,
           NEW a \in Int, NEW b \in Int, a <= b + 1,
           \A c \in Int : (c \in FirstCyc(i) .. ranges[i].end_cum_cyc /\ e - w < c /\ c <= e)
                          <=> (a <= c /\ c <= b)
    PROVE  Overlap(i, e, w) = b - a + 1
<1> DEFINE C == {c \in FirstCyc(i) .. ranges[i].end_cum_cyc : e - w < c /\ c <= e}
<1>1. FirstCyc(i) \in Int /\ ranges[i].end_cum_cyc \in Int
  BY OrderedRows DEF RangesInv, FirstCyc
<1>2. C \subseteq Int
  BY <1>1
<1>3. C = a .. b
  BY <1>2
<1>4. Cardinality(a .. b) = IF a > b THEN 0 ELSE b - a + 1
  BY FS_Interval
<1> HIDE DEF C
<1>5. Cardinality(C) = b - a + 1
  BY <1>3, <1>4
<1>6. QED
  BY <1>5 DEF Overlap, C

\* what of its ranges the window of a row counts is what is under it
LEMMA OverlapsOfSpan ==
    ASSUME RangesInv, Adjacent(ranges), NEW w \in Nat \ {0}, NEW s \in Spans(ranges, w),
           s.window_start >= 1, NEW i \in DOMAIN ranges
    PROVE  /\ i = s.trailing => Overlap(i, s.window_end, w) = TrailingCyc(ranges, s)
           /\ i = s.leading /\ ~s.is_single_range
                => Overlap(i, s.window_end, w) = LeadingCyc(ranges, s)
           /\ s.trailing < i /\ i < s.leading
                => Overlap(i, s.window_end, w) = ranges[i].cyc_count
           /\ i < s.trailing \/ s.leading < i => Overlap(i, s.window_end, w) = 0
<1> DEFINE e == s.window_end
           b == s.window_start
           t == s.trailing
           l == s.leading
           end(j) == ranges[j].end_cum_cyc
           n == ranges[i].cyc_count
<1>1. Ordered(ranges) /\ DOMAIN ranges \in SUBSET Nat
  BY OrderedRows DEF RangesInv
<1>2. /\ t \in DOMAIN ranges /\ l \in DOMAIN ranges /\ t <= l
      /\ s.is_single_range <=> t = l
  BY <1>1, SpanRuns
<1>3. /\ e \in Nat /\ b = e - w + 1 /\ b <= end(t) /\ end(t) <= e /\ e <= end(l)
      /\ \A j \in DOMAIN ranges : j < t => end(j) < b
      /\ \A j \in DOMAIN ranges : j < l => end(j) <= e
  BY <1>1, SpanAtEnd
<1>4. \A j \in DOMAIN ranges : end(j) \in Nat
  BY <1>1, OrderedRows
<1>5. n \in Nat /\ n > 0 /\ FirstCyc(i) = end(i) - n + 1
  BY <1>1, OrderedRows DEF Ordered, FirstCyc
<1>6. \A j \in DOMAIN ranges : j < i => end(j) < FirstCyc(i)
  <2>1. SUFFICES ASSUME NEW j \in DOMAIN ranges, j < i PROVE end(j) < FirstCyc(i)
    OBVIOUS
  <2>2. Follows(ranges[j], ranges[i])
    BY <1>1, <2>1, OrderedRows DEF Ordered
  <2>3. end(j) <= end(i) - n
    BY <2>2 DEF Follows
  <2>4. QED
    BY <1>4, <1>5, <2>3
<1>7. /\ TrailingCyc(ranges, s) = end(t) - b + 1
      /\ TrailingCyc(ranges, s) \in 0 .. ranges[t].cyc_count
      /\ t # l => LeadingCyc(ranges, s) = ranges[l].cyc_count - (end(l) - e)
      /\ LeadingCyc(ranges, s) \in 0 .. ranges[l].cyc_count
  BY <1>1, <1>2, PartsOfSpan DEF TrailingCyc, LeadingCyc
<1> HIDE DEF e, b, t, l, end, n
<1>8. b \in Int /\ end(i) \in Nat /\ end(t) \in Nat /\ end(l) \in Nat /\ FirstCyc(i) \in Int
  BY <1>2, <1>3, <1>4, <1>5
<1>9. \A c \in Int : c \in FirstCyc(i) .. end(i) <=> FirstCyc(i) <= c /\ c <= end(i)
  BY <1>8
<1>10. \A c \in Int : (e - w < c /\ c <= e) <=> (b <= c /\ c <= e)
  BY <1>3
<1>11. ASSUME NEW x \in Int, NEW y \in Int, x <= y + 1,
              \A c \in Int : (FirstCyc(i) <= c /\ c <= end(i) /\ b <= c /\ c <= e)
                             <=> (x <= c /\ c <= y)
       PROVE  Overlap(i, e, w) = y - x + 1
  <2>1. \A c \in Int : (c \in FirstCyc(i) .. ranges[i].end_cum_cyc /\ e - w < c /\ c <= e)
                       <=> (x <= c /\ c <= y)
    BY <1>9, <1>10, <1>11 DEF end
  <2>2. e \in Int
    BY <1>3
  <2>3. QED
    BY <1>11, <2>1, <2>2, OverlapCount
<1>12. ASSUME i = t PROVE Overlap(i, e, w) = TrailingCyc(ranges, s)
  <2>1. FirstCyc(i) <= b /\ end(i) <= e /\ b <= end(i)
    BY <1>3, <1>5, <1>7, <1>8, <1>12 DEF n
  <2>2. Overlap(i, e, w) = end(i) - b + 1
    <3>1. \A c \in Int : (FirstCyc(i) <= c /\ c <= end(i) /\ b <= c /\ c <= e)
                         <=> (b <= c /\ c <= end(i))
      BY <1>3, <1>8, <2>1
    <3>2. b <= end(i) + 1
      BY <1>8, <2>1
    <3>3. end(i) \in Int
      BY <1>8
    <3>4. QED
      BY <1>8, <1>11, <3>1, <3>2, <3>3
  <2>3. QED
    BY <1>7, <1>12, <2>2
<1>13. ASSUME i = l, ~s.is_single_range PROVE Overlap(i, e, w) = LeadingCyc(ranges, s)
  <2>1. t # l /\ t < i
    BY <1>1, <1>2, <1>13
  <2>2. b <= FirstCyc(i) /\ e <= end(i)
    BY <1>2, <1>3, <1>6, <1>8, <1>13, <2>1
  <2>3. LeadingCyc(ranges, s) = e - FirstCyc(i) + 1 /\ FirstCyc(i) <= e + 1
    BY <1>3, <1>5, <1>7, <1>8, <1>13, <2>1 DEF n
  <2>4. Overlap(i, e, w) = e - FirstCyc(i) + 1
    <3>1. \A c \in Int : (FirstCyc(i) <= c /\ c <= end(i) /\ b <= c /\ c <= e)
                         <=> (FirstCyc(i) <= c /\ c <= e)
      BY <1>3, <1>8, <2>2
    <3>2. e \in Int
      BY <1>3
    <3>3. QED
      BY <1>8, <1>11, <2>3, <3>1, <3>2
  <2>5. QED
    BY <2>3, <2>4
<1>14. ASSUME t < i, i < l PROVE Overlap(i, e, w) = n
  <2>1. b <= FirstCyc(i) /\ end(i) <= e
    BY <1>2, <1>3, <1>6, <1>8, <1>14
  <2>2. \A c \in Int : (FirstCyc(i) <= c /\ c <= end(i) /\ b <= c /\ c <= e)
                       <=> (FirstCyc(i) <= c /\ c <= end(i))
    BY <1>3, <1>8, <2>1
  <2>3. FirstCyc(i) <= end(i) + 1 /\ end(i) - FirstCyc(i) + 1 = n
    BY <1>5, <1>8
  <2>4. Overlap(i, e, w) = end(i) - FirstCyc(i) + 1
    BY <1>8, <1>11, <2>2, <2>3
  <2>5. QED
    BY <2>3, <2>4
<1>15. ASSUME i < t \/ l < i PROVE Overlap(i, e, w) = 0
  <2>1. end(i) < b \/ e < FirstCyc(i)
    BY <1>2, <1>3, <1>6, <1>8, <1>15
  <2>2. \A c \in Int : (FirstCyc(i) <= c /\ c <= end(i) /\ b <= c /\ c <= e)
                       <=> (1 <= c /\ c <= 0)
    BY <1>3, <1>8, <2>1
  <2>3. Overlap(i, e, w) = 0 - 1 + 1
    BY <1>11, <2>2
  <2>4. QED
    BY <2>3
<1>16. QED
  BY <1>12, <1>13, <1>14, <1>15 DEF e, t, l, n


LEMMA ShareOfAll ==
    ASSUME NEW x \in Nat, NEW d \in Nat, NEW k \in Nat \ {0}
    PROVE  (x * k * d) \div k = x * d
<1> DEFINE m == x * d
           p == x * k * d
           q == p \div k
<1>1. m \in Nat /\ p \in Nat /\ p = k * m
  OBVIOUS
<1> HIDE DEF m, p
<1>2. q \in Nat /\ k * q <= p /\ p < k * q + k
  BY <1>1
<1> HIDE DEF q
<1>3. k * m \in Nat /\ k * q \in Nat /\ k > 0
  BY <1>1, <1>2
<1>4. q <= m
  <2>1. SUFFICES ASSUME m + 1 <= q PROVE FALSE
    BY <1>1, <1>2
  <2>2. k * (m + 1) <= k * q /\ k * (m + 1) = k * m + k
    BY <1>1, <1>2, <2>1, ProductGrows
  <2>3. QED
    BY <1>1, <1>2, <1>3, <2>2
<1>5. m <= q
  <2>1. SUFFICES ASSUME q + 1 <= m PROVE FALSE
    BY <1>1, <1>2
  <2>2. k * (q + 1) <= k * m /\ k * (q + 1) = k * q + k
    BY <1>1, <1>2, <2>1, ProductGrows
  <2>3. QED
    BY <1>1, <1>2, <1>3, <2>2
<1>6. QED
  BY <1>1, <1>2, <1>4, <1>5 DEF q, p, m

\* the instructions of range i that a window ending with cycle e has, if they
\* are spread evenly over its cycles; times d
SpreadOver(e, w, d) ==
    [i \in DOMAIN ranges |-> (ranges[i].insn_count * Overlap(i, e, w) * d) \div ranges[i].cyc_count]

\* how a row's ranges contribute to that
LEMMA SpreadOfSpan ==
    ASSUME RangesInv, Adjacent(ranges), NEW w \in Nat \ {0}, NEW s \in Spans(ranges, w),
           s.window_start >= 1, NEW d \in Nat, NEW i \in DOMAIN ranges
    PROVE  LET x == SpreadOver(s.window_end, w, d)[i] IN
           /\ x \in Nat
           /\ i = s.trailing =>
                x = (ranges[i].insn_count * TrailingCyc(ranges, s) * d) \div ranges[i].cyc_count
           /\ i = s.leading /\ ~s.is_single_range =>
                x = (ranges[i].insn_count * LeadingCyc(ranges, s) * d) \div ranges[i].cyc_count
           /\ s.trailing < i /\ i < s.leading => x = ranges[i].insn_count * d
           /\ i < s.trailing \/ s.leading < i => x = 0
<1> DEFINE e == s.window_end
           t == s.trailing
           l == s.leading
           c == Overlap(i, e, w)
           k == ranges[i].cyc_count
           n == ranges[i].insn_count
           x == SpreadOver(e, w, d)[i]
<1>1. Ordered(ranges) /\ DOMAIN ranges \in SUBSET Nat
  BY OrderedRows DEF RangesInv
<1>2. n \in Nat /\ k \in Nat \ {0}
  BY <1>1, OrderedRows DEF Ordered
<1>3. x = (n * c * d) \div k
  BY DEF SpreadOver
<1>4. /\ i = t => c = TrailingCyc(ranges, s)
      /\ i = l /\ ~s.is_single_range => c = LeadingCyc(ranges, s)
      /\ t < i /\ i < l => c = k
      /\ i < t \/ l < i => c = 0
  BY OverlapsOfSpan
<1>5. /\ t \in DOMAIN ranges /\ l \in DOMAIN ranges /\ t <= l
      /\ s.is_single_range <=> t = l
  BY <1>1, SpanRuns
<1>6. /\ i = t => TrailingCyc(ranges, s) \in 0 .. k
      /\ i = l => LeadingCyc(ranges, s) \in 0 .. k
  BY <1>1, PartsOfSpan
<1> HIDE DEF e, t, l, c, k, n, x
<1>7. c \in 0 .. k
  <2>1. i = t \/ (i = l /\ t # l) \/ (t < i /\ i < l) \/ i < t \/ l < i
    BY <1>1, <1>5
  <2>2. QED
    BY <1>2, <1>4, <1>5, <1>6, <2>1
<1>8. x \in Nat
  <2>1. c \in Nat /\ c <= k
    BY <1>2, <1>7
  <2>2. (n * c * d) \div k \in 0 .. n * d
    BY <1>2, <2>1, ShareBounded
  <2>3. QED
    BY <1>2, <1>3, <2>2
<1>9. ASSUME t < i, i < l PROVE x = n * d
  BY <1>2, <1>3, <1>4, <1>9, ShareOfAll
<1>10. ASSUME i < t \/ l < i PROVE x = 0
  <2>1. c = 0
    BY <1>4, <1>10
  <2>2. n * c * d = 0
    BY <1>2, <2>1
  <2>3. 0 \div k = 0
    BY <1>2
  <2>4. QED
    BY <1>3, <2>2, <2>3
<1>11. QED
  BY <1>3, <1>4, <1>8, <1>9, <1>10 DEF e, t, l, k, n, x

LEMMA InterpolationIsSum ==
    ASSUME RangesInv, Adjacent(ranges), NEW w \in Nat \ {0}, NEW s \in Spans(ranges, w),
           s.window_start >= 1, NEW d \in Nat
    PROVE  LinearInterp(ranges, s, d) = SumFunction(SpreadOver(s.window_end, w, d))
<1> DEFINE t == s.trailing
           l == s.leading
           g == SpreadOver(s.window_end, w, d)
           D == DOMAIN ranges
           f == [i \in D |-> ranges[i].insn_count]
           ii == Conservative(ranges, s)
           inner == t + 1 .. l - 1
<1>1. Ordered(ranges) /\ D = 1 .. Len(ranges) /\ Len(ranges) \in Nat
  BY OrderedRows DEF RangesInv
<1>2. t \in D /\ l \in D /\ t <= l /\ (s.is_single_range <=> t = l)
  BY <1>1, SpanRuns
<1>3. /\ \A i \in D : g[i] \in Nat
      /\ g[t] = (ranges[t].insn_count * TrailingCyc(ranges, s) * d) \div ranges[t].cyc_count
      /\ t # l => g[l] = (ranges[l].insn_count * LeadingCyc(ranges, s) * d) \div ranges[l].cyc_count
      /\ \A i \in D : t < i /\ i < l => g[i] = ranges[i].insn_count * d
      /\ \A i \in D : i < t \/ l < i => g[i] = 0
  BY <1>2, SpreadOfSpan
<1>4. IsFiniteSet(D) /\ DOMAIN g = D
  <2>1. IsFiniteSet(1 .. Len(ranges))
    BY <1>1, FS_Interval
  <2>2. QED
    BY <1>1, <2>1 DEF SpreadOver
<1>5. ii = InteriorInsns(ranges, s) /\ ii \in Nat
  BY <1>1, PartsOfSpan DEF Conservative
<1>6. ii = IF t + 1 <= l - 1 THEN SumFunctionOnSet(f, inner) ELSE 0
  BY BoundsAreSums DEF Insns
<1>7. \A i \in D : f[i] = ranges[i].insn_count /\ f[i] \in Nat
  BY <1>1, OrderedRows
<1>8. LinearInterp(ranges, s, d) = IF t = l THEN g[t] ELSE g[t] + g[l] + ii * d
  <2>1. CASE t = l
    <3>1. LeadingInsns(ranges, s) = 0 /\ LeadingCyc(ranges, s) = 0 /\ InteriorInsns(ranges, s) = 0
      BY <1>2, <2>1 DEF LeadingInsns, LeadingCyc, InteriorInsns
    <3>2. ranges[l].cyc_count \in Nat \ {0}
      BY <1>1, <1>2, OrderedRows DEF Ordered
    <3>3. (0 * 0 * d) \div ranges[l].cyc_count = 0
      BY <3>2
    <3>4. LinearInterp(ranges, s, d) = g[t] + 0 + 0 * d
      BY <1>3, <3>1, <3>3 DEF LinearInterp
    <3>5. g[t] \in Nat
      BY <1>2, <1>3
    <3>6. QED
      BY <2>1, <3>4, <3>5
  <2>2. CASE t # l
    <3>1. LeadingInsns(ranges, s) = ranges[l].insn_count
      BY <1>2, <2>2 DEF LeadingInsns
    <3>2. QED
      BY <1>3, <1>5, <2>2, <3>1 DEF LinearInterp
  <2>3. QED
    BY <2>1, <2>2
<1> HIDE DEF t, l, g, D, f, ii
<1>9. t .. l \subseteq D /\ IsFiniteSet(t .. l) /\ IsFiniteSet(inner) /\ inner \subseteq D
  <2>1. t .. l \subseteq D /\ inner \subseteq D
    BY <1>1, <1>2
  <2>2. QED
    BY <1>4, <2>1, FS_Subset
<1>10. SumFunction(g) = SumFunctionOnSet(g, t .. l)
  <2>1. \A i \in D \ (t .. l) : g[i] = 0
    BY <1>1, <1>2, <1>3
  <2>2. \A i \in t .. l : g[i] \in Int
    BY <1>3, <1>9
  <2>3. SumFunctionOnSet(g, D) = SumFunctionOnSet(g, t .. l)
    BY <1>4, <1>9, <2>1, <2>2, SumWithin
  <2>4. QED
    BY <1>4, <2>3 DEF SumFunction
<1>11. CASE t = l
  <2> DEFINE A == {t}
  <2>1. t .. l = A /\ A \ {t} = {} /\ t \in A
    BY <1>1, <1>2, <1>11
  <2>2. IsFiniteSet(A) /\ (\A i \in A : g[i] \in Int) /\ g[t] \in Nat
    <3>1. g[t] \in Nat
      BY <1>2, <1>3
    <3>2. IsFiniteSet(A)
      BY <1>9, <2>1
    <3>3. QED
      BY <3>1, <3>2
  <2> HIDE DEF A
  <2>3. SumFunctionOnSet(g, A) = g[t] + SumFunctionOnSet(g, A \ {t})
    BY <2>1, <2>2, SumRemove
  <2>4. SumFunctionOnSet(g, A \ {t}) = 0
    BY <2>1, SumEmpty
  <2>5. SumFunction(g) = g[t]
    BY <1>10, <2>1, <2>2, <2>3, <2>4
  <2>6. LinearInterp(ranges, s, d) = SumFunction(g)
    BY <1>8, <1>11, <2>5
  <2>7. QED
    BY <2>6 DEF g
<1>12. CASE t # l
  <2> DEFINE A == t .. l
             B == A \ {t}
  <2>1. t \in A /\ l \in B /\ B \ {l} = inner /\ B \subseteq A
    BY <1>1, <1>2, <1>12
  <2>2. IsFiniteSet(B) /\ \A i \in A : g[i] \in Int
    BY <1>3, <1>9, <2>1, FS_Subset
  <2>3. IsFiniteSet(A) /\ SumFunction(g) = SumFunctionOnSet(g, A)
    BY <1>9, <1>10
  <2> HIDE DEF A
  <2>4. SumFunctionOnSet(g, A) = g[t] + SumFunctionOnSet(g, B)
    BY <2>1, <2>2, <2>3, SumRemove
  <2> HIDE DEF B
  <2>5. SumFunctionOnSet(g, B) = g[l] + SumFunctionOnSet(g, inner)
    <3>1. \A i \in B : g[i] \in Int
      BY <2>1, <2>2
    <3>2. SumFunctionOnSet(g, B) = g[l] + SumFunctionOnSet(g, B \ {l})
      BY <2>1, <2>2, <3>1, SumRemove
    <3>3. QED
      BY <2>1, <3>2
  <2>6. SumFunctionOnSet(g, inner) = SumFunctionOnSet(f, inner) * d
    <3>1. \A i \in inner : f[i] \in Int /\ g[i] = f[i] * d
      <4>1. SUFFICES ASSUME NEW i \in inner PROVE f[i] \in Int /\ g[i] = f[i] * d
        OBVIOUS
      <4>2. i \in D /\ t < i /\ i < l
        BY <1>1, <1>2, <1>9
      <4>3. QED
        BY <1>3, <1>7, <4>2
    <3>2. d \in Int /\ IsFiniteSet(inner)
      BY <1>9
    <3> HIDE DEF inner
    <3>3. QED
      BY <3>1, <3>2, SumScaled
  <2>7. SumFunctionOnSet(f, inner) = ii
    <3>1. CASE t + 1 <= l - 1
      BY <1>6, <3>1
    <3>2. CASE ~(t + 1 <= l - 1)
      <4>1. inner = {}
        BY <1>1, <1>2, <3>2
      <4>2. QED
        BY <1>6, <3>2, <4>1, SumEmpty
    <3>3. QED
      BY <3>1, <3>2
  <2>8. g[t] \in Nat /\ g[l] \in Nat /\ ii * d \in Nat
    BY <1>2, <1>3, <1>5
  <2>9. SumFunctionOnSet(g, inner) = ii * d
    BY <2>6, <2>7
  <2>10. SumFunctionOnSet(g, A) = g[t] + (g[l] + ii * d)
    BY <2>4, <2>5, <2>9
  <2>11. LinearInterp(ranges, s, d) = g[t] + g[l] + ii * d
    BY <1>8, <1>12
  <2> DEFINE z == ii * d
  <2> HIDE DEF z
  <2>12. g[t] + g[l] + z = g[t] + (g[l] + z)
    BY <2>8 DEF z
  <2>13. SumFunction(g) = g[t] + (g[l] + z)
    BY <2>3, <2>10 DEF z
  <2>14. LinearInterp(ranges, s, d) = SumFunction(g)
    BY <2>11, <2>12, <2>13 DEF z
  <2>15. QED
    BY <2>14 DEF g
<1>13. QED
  BY <1>11, <1>12 DEF g

(* The interpolation of time_series_prep, computed from three running totals, *)
(* is what one gets cycle by cycle, for every trace and every window that     *)
(* begins within it.                                                        *)
THEOREM LinearIsPerCycleCorrect == Spec => []LinearIsPerCycle
<1> USE TimelineAssumption
<1>1. ASSUME RangesInv, Adjacent(ranges), NEW w \in WindowSizes, NEW s \in Spans(ranges, w),
             s.window_start >= 1
      PROVE  LET d == FoldFunction(LAMBDA x, y : x * y, 1,
                                   [i \in DOMAIN ranges |-> ranges[i].cyc_count])
                 spread == [i \in DOMAIN ranges |->
                              (ranges[i].insn_count * Overlap(i, s.window_end, w) * d)
                                \div ranges[i].cyc_count]
             IN /\ LinearInterp(ranges, s, d) = SumFunction(spread)
                /\ LinearInterp(ranges, s, d) <= Optimistic(ranges, s) * d
                /\ LinearInterp(ranges, s, d) >= Conservative(ranges, s) * d
  <2> DEFINE k == [i \in DOMAIN ranges |-> ranges[i].cyc_count]
             d == FoldFunction(LAMBDA x, y : x * y, 1, k)
  <2>1. w \in Nat \ {0}
    OBVIOUS
  <2>2. d \in Nat
    <3>1. DOMAIN k = 1 .. Len(ranges) /\ Len(ranges) \in Nat /\ \A i \in DOMAIN k : k[i] \in Nat
      BY <1>1, OrderedRows DEF RangesInv
    <3>2. IsFiniteSet(DOMAIN k)
      <4>1. IsFiniteSet(1 .. Len(ranges))
        BY <3>1, FS_Interval
      <4>2. QED
        BY <3>1, <4>1
    <3> HIDE DEF k
    <3>3. QED
      BY <3>1, <3>2, ProductNat
  <2> HIDE DEF d
  <2>3. LinearInterp(ranges, s, d) = SumFunction(SpreadOver(s.window_end, w, d))
    BY <1>1, <2>1, <2>2, InterpolationIsSum
  <2>4. /\ Conservative(ranges, s) * d <= LinearInterp(ranges, s, d)
        /\ LinearInterp(ranges, s, d) <= Optimistic(ranges, s) * d
    BY <1>1, <2>1, <2>2, InterpolationOfSpan
  <2>5. LinearInterp(ranges, s, d) >= Conservative(ranges, s) * d
    BY <2>4
  <2>6. QED
    BY <2>3, <2>4, <2>5 DEF d, SpreadOver
<1>2. RangesInv /\ Adjacent(ranges) => LinearIsPerCycle
  BY <1>1 DEF LinearIsPerCycle
<1>3. QED
  BY RangesCorrect, AdjacentCorrect, <1>2, PTL


-----------------------------------------------------------------------------
(* The ranges left out of the distribution of durations.                    *)

\* what cdf_prep adds up
LEMMA CyclesOf ==
    ASSUME NEW r, Ordered(r), NEW S \in SUBSET DOMAIN r
    PROVE  /\ IsFiniteSet(S)
           /\ Cycles(r, S) \in Nat
           /\ \A T \in SUBSET S : Cycles(r, T) <= Cycles(r, S)
           /\ \A i \in S : r[i].cyc_count <= Cycles(r, S)
<1> DEFINE f == [i \in DOMAIN r |-> r[i].cyc_count]
<1>1. DOMAIN r = 1 .. Len(r) /\ Len(r) \in Nat
  BY OrderedRows
<1>2. IsFiniteSet(1 .. Len(r))
  BY <1>1, FS_Interval
<1>3. IsFiniteSet(S)
  BY <1>1, <1>2, FS_Subset
<1>4. \A i \in S : f[i] \in Nat /\ f[i] = r[i].cyc_count
  BY OrderedRows
<1>5. \A T : Cycles(r, T) = SumFunctionOnSet(f, T)
  BY DEF Cycles
<1> HIDE DEF f
<1>6. Cycles(r, S) \in Nat
  BY <1>3, <1>4, <1>5, SumNat
<1>7. ASSUME NEW T \in SUBSET S PROVE Cycles(r, T) <= Cycles(r, S)
  <2>1. SumFunctionOnSet(f, T) <= SumFunctionOnSet(f, S)
    BY <1>3, <1>4, SumGrows
  <2>2. QED
    BY <1>5, <2>1
<1>8. ASSUME NEW i \in S PROVE r[i].cyc_count <= Cycles(r, S)
  <2>1. SumFunctionOnSet(f, S) = f[i] + SumFunctionOnSet(f, S \ {i})
    BY <1>3, <1>4, SumRemove
  <2>2. SumFunctionOnSet(f, S \ {i}) \in Nat
    <3>1. IsFiniteSet(S \ {i}) /\ \A x \in S \ {i} : f[x] \in Nat
      BY <1>3, <1>4, FS_Subset
    <3>2. QED
      BY <3>1, SumNat
  <2>3. QED
    BY <1>4, <1>5, <2>1, <2>2
<1>9. QED
  BY <1>3, <1>6, <1>7, <1>8

\* a shortest and a longest range of a set
LEMMA ShortestAndLongest ==
    ASSUME NEW r, Ordered(r), NEW S \in SUBSET DOMAIN r, S # {}
    PROVE  /\ \E i \in S : \A j \in S : r[i].cyc_count <= r[j].cyc_count
           /\ \E i \in S : \A j \in S : r[j].cyc_count <= r[i].cyc_count
<1> DEFINE N == {r[i].cyc_count : i \in S}
<1>1. N \in SUBSET Nat /\ N # {}
  BY OrderedRows
<1>2. Cycles(r, S) \in Nat /\ \A x \in N : x <= Cycles(r, S)
  BY CyclesOf
<1>3. \E x \in N : \A y \in N : x <= y
  BY <1>1, LeastOfNats
<1>4. \E x \in N : \A y \in N : y <= x
  <2> HIDE DEF N
  <2>1. QED
    BY <1>1, <1>2, GreatestOfNats
<1>5. QED
  BY <1>3, <1>4

LEMMA DiscardOfRanges == RangesInv => DiscardIsMaximal
<1> SUFFICES ASSUME RangesInv PROVE DiscardIsMaximal
  OBVIOUS
<1> DEFINE C == Considered(ranges)
           S == SamplesForCdf(ranges)
           D == Discarded
           cyc(i) == ranges[i].cyc_count
           Longer(i) == {j \in C : cyc(j) >= cyc(i)}
           total == Cycles(ranges, C)
           budget == DiscardNum * total
           next == {i \in S : \A j \in S : cyc(j) <= cyc(i)}
<1>1. Ordered(ranges)
  BY DEF RangesInv
<1>2. C \in SUBSET DOMAIN ranges /\ S \in SUBSET C /\ D = C \ S
  BY DEF Considered, SamplesForCdf, Discarded
<1>3. \A i \in DOMAIN ranges : cyc(i) \in Nat /\ cyc(i) > 0
  BY <1>1, OrderedRows DEF Ordered
<1>4. \A T \in SUBSET DOMAIN ranges :
         /\ Cycles(ranges, T) \in Nat
         /\ \A U \in SUBSET T : Cycles(ranges, U) <= Cycles(ranges, T)
  BY <1>1, CyclesOf
<1>5. \A i \in C : /\ i \in S <=> Cycles(ranges, Longer(i)) * DiscardDen > budget
                   /\ Longer(i) \in SUBSET C
  BY DEF SamplesForCdf, CumCycles
<1>6. DiscardNum \in Nat /\ DiscardDen \in Nat \ {0} /\ DiscardNum < DiscardDen
  BY DiscardAssumption
<1>7. total \in Nat /\ budget \in Nat
  BY <1>2, <1>4, <1>6
<1>8. /\ \A i, j \in C : j \in Longer(i) <=> cyc(j) >= cyc(i)
      /\ \A i \in next : i \in S /\ \A j \in S : cyc(j) <= cyc(i)
      /\ \A i \in S : (\A j \in S : cyc(j) <= cyc(i)) => i \in next
  OBVIOUS
<1>9. \A i \in C : /\ Cycles(ranges, Longer(i)) \in Nat
                   /\ i \in S <=> Cycles(ranges, Longer(i)) * DiscardDen > budget
  BY <1>2, <1>4, <1>5
<1>10. DiscardIsMaximal <=>
         /\ \A i \in D, j \in S : cyc(i) > cyc(j)
         /\ Cycles(ranges, D) * DiscardDen <= budget
         /\ next # {} => Cycles(ranges, D \cup next) * DiscardDen > budget
         /\ C # {} => next # {}
  BY DEF DiscardIsMaximal
<1>11. next \subseteq S
  OBVIOUS
<1> HIDE DEF C, S, D, cyc, Longer, total, budget, next
<1>12. ASSUME NEW x \in Nat, NEW y \in Nat, x <= y PROVE x * DiscardDen <= y * DiscardDen
  <2>1. DiscardDen * x <= DiscardDen * y
    BY <1>6, <1>12, ProductGrows
  <2>2. QED
    BY <1>6, <2>1
<1>13. ASSUME NEW i \in C, NEW T \in SUBSET C, T \subseteq Longer(i), i \notin S
       PROVE  Cycles(ranges, T) * DiscardDen <= budget
  <2>1. Longer(i) \in SUBSET DOMAIN ranges /\ T \in SUBSET Longer(i) /\ T \in SUBSET DOMAIN ranges
    BY <1>2, <1>5, <1>13
  <2>2. /\ Cycles(ranges, T) <= Cycles(ranges, Longer(i))
        /\ Cycles(ranges, T) \in Nat /\ Cycles(ranges, Longer(i)) \in Nat
    BY <1>4, <2>1
  <2>3. Cycles(ranges, T) * DiscardDen <= Cycles(ranges, Longer(i)) * DiscardDen
    BY <1>12, <2>2
  <2>4. ~(Cycles(ranges, Longer(i)) * DiscardDen > budget)
    BY <1>9, <1>13
  <2>5. Cycles(ranges, T) * DiscardDen \in Nat /\ Cycles(ranges, Longer(i)) * DiscardDen \in Nat
    BY <1>6, <2>2
  <2>6. QED
    BY <1>7, <2>3, <2>4, <2>5
<1>14. ASSUME NEW i \in C, NEW T \in SUBSET C, Longer(i) \subseteq T, i \in S
       PROVE  Cycles(ranges, T) * DiscardDen > budget
  <2>1. T \in SUBSET DOMAIN ranges /\ Longer(i) \in SUBSET T
    BY <1>2, <1>14
  <2>2. /\ Cycles(ranges, Longer(i)) <= Cycles(ranges, T)
        /\ Cycles(ranges, T) \in Nat /\ Cycles(ranges, Longer(i)) \in Nat
    BY <1>4, <1>9, <2>1
  <2>3. Cycles(ranges, Longer(i)) * DiscardDen <= Cycles(ranges, T) * DiscardDen
    BY <1>12, <2>2
  <2>4. Cycles(ranges, Longer(i)) * DiscardDen > budget
    BY <1>9, <1>14
  <2>5. Cycles(ranges, T) * DiscardDen \in Nat /\ Cycles(ranges, Longer(i)) * DiscardDen \in Nat
    BY <1>6, <2>2
  <2>6. QED
    BY <1>7, <2>3, <2>4, <2>5
<1>15. ASSUME NEW i \in D, NEW j \in S PROVE cyc(i) > cyc(j)
  <2>1. i \in C /\ i \notin S /\ j \in C
    BY <1>2
  <2>2. SUFFICES ASSUME cyc(i) <= cyc(j) PROVE FALSE
    BY <1>2, <1>3, <2>1
  <2>3. ASSUME NEW k \in Longer(j) PROVE k \in Longer(i)
    <3>1. k \in C
      BY <1>5, <2>1
    <3>2. cyc(k) >= cyc(j) /\ cyc(k) \in Nat /\ cyc(j) \in Nat /\ cyc(i) \in Nat
      BY <1>2, <1>3, <1>8, <2>1, <3>1
    <3>3. QED
      BY <1>8, <2>1, <2>2, <3>1, <3>2
  <2>4. Longer(j) \in SUBSET C /\ Longer(j) \subseteq Longer(i)
    BY <1>5, <2>1, <2>3
  <2>5. Cycles(ranges, Longer(j)) * DiscardDen <= budget
    BY <1>13, <2>1, <2>4
  <2>6. Cycles(ranges, Longer(j)) * DiscardDen > budget /\ Cycles(ranges, Longer(j)) \in Nat
    BY <1>9, <2>1
  <2>7. Cycles(ranges, Longer(j)) * DiscardDen \in Nat
    BY <1>6, <2>6
  <2>8. QED
    BY <1>7, <2>5, <2>6, <2>7
<1>16. Cycles(ranges, D) * DiscardDen <= budget
  <2>1. CASE D = {}
    <3>1. Cycles(ranges, D) = 0
      BY <2>1, SumEmpty DEF Cycles
    <3>2. QED
      BY <1>6, <1>7, <3>1
  <2>2. CASE D # {}
    <3>1. D \in SUBSET DOMAIN ranges /\ D \in SUBSET C
      BY <1>2
    <3>2. PICK m \in D : \A j \in D : cyc(m) <= cyc(j)
      BY <1>1, <2>2, <3>1, ShortestAndLongest DEF cyc
    <3>3. m \in C /\ m \notin S
      BY <1>2
    <3>4. ASSUME NEW j \in D PROVE j \in Longer(m)
      <4>1. j \in C /\ cyc(m) <= cyc(j) /\ cyc(m) \in Nat /\ cyc(j) \in Nat
        BY <1>3, <3>1, <3>2
      <4>2. QED
        BY <1>8, <3>3, <4>1
    <3>5. D \subseteq Longer(m)
      BY <3>4
    <3>6. QED
      BY <1>13, <3>1, <3>3, <3>5
  <2>3. QED
    BY <2>1, <2>2
<1>17. ASSUME next # {} PROVE Cycles(ranges, D \cup next) * DiscardDen > budget
  <2>1. PICK i \in next : TRUE
    BY <1>17
  <2>2. i \in S /\ i \in C /\ \A j \in S : cyc(j) <= cyc(i)
    BY <1>2, <1>8
  <2>3. ASSUME NEW j \in Longer(i) PROVE j \in D \cup next
    <3>1. j \in C /\ cyc(j) >= cyc(i) /\ cyc(j) \in Nat /\ cyc(i) \in Nat
      BY <1>2, <1>3, <1>5, <1>8, <2>2
    <3>2. CASE j \in S
      <4>1. \A k \in S : cyc(k) <= cyc(j)
        <5>1. SUFFICES ASSUME NEW k \in S PROVE cyc(k) <= cyc(j)
          OBVIOUS
        <5>2. cyc(k) <= cyc(i) /\ cyc(k) \in Nat
          BY <1>2, <1>3, <2>2
        <5>3. QED
          BY <3>1, <5>2
      <4>2. QED
        BY <1>8, <3>2, <4>1
    <3>3. QED
      BY <1>2, <3>1, <3>2
  <2>4. D \cup next \in SUBSET C /\ Longer(i) \subseteq D \cup next
    BY <1>2, <1>11, <2>3
  <2>5. QED
    BY <1>14, <2>2, <2>4
<1>18. ASSUME C # {} PROVE next # {}
  <2>1. PICK m \in C : \A j \in C : cyc(m) <= cyc(j)
    BY <1>1, <1>2, <1>18, ShortestAndLongest DEF cyc
  <2>2. Longer(m) = C
    <3>1. ASSUME NEW j \in C PROVE j \in Longer(m)
      <4>1. cyc(m) <= cyc(j) /\ cyc(m) \in Nat /\ cyc(j) \in Nat
        BY <1>2, <1>3, <2>1
      <4>2. QED
        BY <1>8, <4>1
    <3>2. QED
      BY <1>5, <3>1
  <2>3. total > 0
    <3>1. cyc(m) <= total /\ cyc(m) > 0 /\ cyc(m) \in Nat
      BY <1>1, <1>2, <1>3, CyclesOf DEF cyc, total
    <3>2. QED
      BY <1>7, <3>1
  <2>4. total * DiscardDen > budget
    <3> DEFINE gap == DiscardDen - DiscardNum
    <3>1. gap \in Nat \ {0} /\ DiscardDen = DiscardNum + gap
      BY <1>6
    <3> HIDE DEF gap
    <3>2. total * DiscardDen = DiscardNum * total + total * gap
      BY <1>6, <1>7, <3>1
    <3>3. total * 1 <= total * gap
      BY <1>7, <3>1, ProductGrows
    <3>4. budget = DiscardNum * total /\ total * gap \in Nat
      BY <1>7, <3>1 DEF budget
    <3>5. QED
      BY <1>7, <2>3, <3>2, <3>3, <3>4
  <2>5. m \in S
    BY <1>9, <2>1, <2>2, <2>4 DEF total
  <2>6. S \in SUBSET DOMAIN ranges /\ S # {}
    BY <1>2, <2>5
  <2>7. PICK i \in S : \A j \in S : cyc(j) <= cyc(i)
    BY <1>1, <2>6, ShortestAndLongest DEF cyc
  <2>8. QED
    BY <1>8, <2>7
<1>19. QED
  BY <1>10, <1>15, <1>16, <1>17, <1>18

(* cumulative_longest_time_to_discard is honoured for every trace and every   *)
(* share below one: the running sum over the longest ranges first cuts the   *)
(* ranges at one duration, within the share, and as far as it allows.        *)
THEOREM DiscardIsMaximalCorrect == Spec => []DiscardIsMaximal
<1>1. RangesInv => DiscardIsMaximal
  BY DiscardOfRanges
<1>2. QED
  BY RangesCorrect, <1>1, PTL

-----------------------------------------------------------------------------
(* The traced CPU: every timestamp is used once, and the table calls holds   *)
(* four rows of each system call that returned and two of each switch.       *)

EntryRow(s) == [id |-> IdAt(s.entry, 1), parent |-> 0, symbol |-> "entry_SYSCALL_64",
                call_time |-> s.entry, return_time |-> s.exit]
DoRow(s) == [id |-> IdAt(s.entry, 2), parent |-> IdAt(s.entry, 1), symbol |-> "do_syscall_64",
             call_time |-> s.inner, return_time |-> s.back]
PathRow(s) == [id |-> IdAt(s.entry, 3), parent |-> IdAt(s.entry, 2), symbol |-> "x64_sys_call",
               call_time |-> s.inner, return_time |-> s.back]
CallRow(s) == [id |-> IdAt(s.entry, 4), parent |-> IdAt(s.entry, 3), symbol |-> "the call",
               call_time |-> s.inner, return_time |-> s.back]
RowsOf(s) == {EntryRow(s), DoRow(s), PathRow(s), CallRow(s)}

TaskRow(t, parent) == [id |-> IdAt(t, 0), parent |-> parent, symbol |-> "prepare_task_switch",
                       call_time |-> t, return_time |-> t]
SpaceRow(t, parent) == [id |-> IdAt(t, 1), parent |-> parent, symbol |-> "switch_mm_irqs_off",
                        call_time |-> t + 1, return_time |-> t + 1]

\* the timestamps at which a system call was entered
Begun == {s.entry : s \in syscalls}
           \cup {open[t].entry : t \in {u \in Threads : open[u] # NoCall}}

SyscallOK(s, time) ==
    /\ s.entry \in 1 .. time /\ s.inner = s.entry + 1
    /\ s.back \in 1 .. time /\ s.inner < s.back /\ s.exit = s.back + 1 /\ s.exit <= time
    /\ s.id = IdAt(s.entry, 4)
OpenOK(o, time) == /\ o.entry \in 1 .. time /\ o.inner = o.entry + 1 /\ o.inner <= time
                   /\ o.since \in o.entry .. time

\* every timestamp is used once
TimesInv ==
    /\ now \in Nat
    /\ running \in Threads
    /\ open \in [Threads -> [entry : Nat, inner : Nat, since : Nat]]
    /\ \A s \in syscalls : SyscallOK(s, now)
    /\ \A s, r \in syscalls : s.entry = r.entry => s = r
    /\ \A t \in Threads : open[t] # NoCall => /\ OpenOK(open[t], now)
                                              /\ \A s \in syscalls : s.entry # open[t].entry
                                              /\ open[t].entry # open[Other(t)].entry

\* a switch at t, within the system call that was entered at e or in user code
InCall(t, e) == /\ e \in Begun /\ e < t
                /\ \A s \in syscalls : s.entry = e => t + 1 < s.exit
IsSwitch(c) == \E t \in 1 .. now :
    /\ t + 1 <= now
    /\ t \notin Begun
    /\ c = TaskRow(t, c.parent) \/ c = SpaceRow(t, c.parent)
    /\ TaskRow(t, c.parent) \in calls /\ SpaceRow(t, c.parent) \in calls
    /\ c.parent = 0 \/ \E e \in Begun : c.parent = IdAt(e, 4) /\ InCall(t, e)

CallsInv ==
    /\ Root \in calls
    /\ \A s \in syscalls : RowsOf(s) \subseteq calls
    /\ \A c \in calls : c = Root \/ (\E s \in syscalls : c \in RowsOf(s)) \/ IsSwitch(c)

\* neither a switch nor the end of a system call lies between two timestamps
Undisturbed(from, to) ==
    /\ \A c \in calls : c.symbol = "switch_mm_irqs_off" => ~(from < c.call_time /\ c.call_time < to)
    /\ \A s \in syscalls : ~(from < s.exit /\ s.exit < to)
SwitchedAt(time) == \E c \in calls : c.symbol = "switch_mm_irqs_off" /\ c.call_time = time

IsStretch(x) ==
    /\ x.from \in Nat /\ x.to \in Nat /\ x.from < x.to /\ x.to <= now
    /\ Undisturbed(x.from, x.to)
    /\ \E e \in Begun :
         /\ x.id = IdAt(e, 4)
         /\ e <= x.from
         /\ x.from = e \/ SwitchedAt(x.from)
         /\ SwitchedAt(x.to) \/ \E s \in syscalls : s.entry = e /\ s.exit = x.to
         /\ \A s \in syscalls : s.entry = e => x.to <= s.exit

StretchesInv ==
    /\ \A x \in stretches : IsStretch(x)
    /\ open[running] # NoCall =>
         /\ Undisturbed(open[running].since, now + 1)
         /\ open[running].since = open[running].entry \/ SwitchedAt(open[running].since)

SyscallsInv == TimesInv /\ CallsInv /\ StretchesInv

LEMMA OtherThread == ASSUME NEW t \in Threads
                     PROVE  /\ Other(t) \in Threads
                            /\ Other(t) # t
                            /\ Other(Other(t)) = t
                            /\ \A u \in Threads : u # t => u = Other(t)
BY DEF Threads, Other

\* what the machine does to its timestamps
LEMMA TimesInit == Init => TimesInv
<1> SUFFICES ASSUME Init PROVE TimesInv
  OBVIOUS
<1>1. open \in [Threads -> [entry : Nat, inner : Nat, since : Nat]]
  BY DEF Init, SyscallInit, NoCall
<1>2. \A t \in Threads : open[t] = NoCall
  BY DEF Init, SyscallInit
<1> QED
  BY <1>1, <1>2 DEF Init, SyscallInit, TimesInv, Threads

LEMMA TimesStep == TimesInv /\ [Next]_vars => TimesInv'
<1> SUFFICES ASSUME TimesInv, [Next]_vars PROVE TimesInv'
  OBVIOUS
<1>0. /\ now \in Nat
      /\ running \in Threads
      /\ open \in [Threads -> [entry : Nat, inner : Nat, since : Nat]]
      /\ \A s \in syscalls : SyscallOK(s, now)
      /\ \A s, r \in syscalls : s.entry = r.entry => s = r
      /\ \A t \in Threads : open[t] # NoCall => /\ OpenOK(open[t], now)
                                                /\ \A s \in syscalls : s.entry # open[t].entry
                                                /\ open[t].entry # open[Other(t)].entry
  BY DEF TimesInv
<1>1. CASE UNCHANGED sysVars
  BY <1>1, <1>0 DEF sysVars, TimesInv, SyscallOK, OpenOK
<1>2. CASE EnterSyscall
  <2> DEFINE new == [entry |-> now + 1, inner |-> now + 2, since |-> now + 1]
  <2>1. /\ now' = now + 2 /\ running' = running /\ syscalls' = syscalls
        /\ open' = [open EXCEPT ![running] = new]
    BY <1>2 DEF EnterSyscall
  <2>2. /\ now' \in Nat /\ new \in [entry : Nat, inner : Nat, since : Nat]
    BY <1>0, <2>1
  <2>3. /\ open'[running] = new
        /\ \A t \in Threads : t # running => open'[t] = open[t]
        /\ open' \in [Threads -> [entry : Nat, inner : Nat, since : Nat]]
    BY <1>0, <2>1, <2>2
  <2>4. \A s \in syscalls : SyscallOK(s, now') /\ s.entry <= now
    BY <1>0, <2>1 DEF SyscallOK
  <2>5. OpenOK(new, now')
    BY <1>0, <2>1 DEF OpenOK
  <2>6. \A t \in Threads : open[t].entry <= now
    BY <1>0 DEF OpenOK, NoCall
  <2>7. \A t \in Threads : open[t] # NoCall => OpenOK(open'[t], now') \/ t = running
    BY <1>0, <2>1, <2>3 DEF OpenOK
  <2>8. new.entry = now + 1
    OBVIOUS
  <2>10. ASSUME NEW t \in Threads, open'[t] # NoCall
         PROVE  /\ OpenOK(open'[t], now')
                /\ \A s \in syscalls' : s.entry # open'[t].entry
                /\ open'[t].entry # open'[Other(t)].entry
    <3> HIDE DEF new
    <3>1. CASE t = running
      <4>1. open'[Other(t)] = open[Other(t)] /\ open[Other(t)].entry <= now
        BY <2>3, <2>6, <3>1, OtherThread
      <4> QED
        BY <1>0, <2>1, <2>3, <2>4, <2>5, <2>8, <3>1, <4>1
    <3>2. CASE t # running
      <4>1. open'[t] = open[t] /\ open[t].entry <= now
        BY <2>3, <2>6, <3>2
      <4>2. Other(t) = running
        BY <1>0, <3>2, OtherThread
      <4>3. OpenOK(open'[t], now')
        BY <4>1, <2>10, <2>7, <3>2
      <4> QED
        BY <1>0, <2>1, <2>3, <2>8, <3>2, <4>1, <4>2, <4>3, <2>10
    <3> QED
      BY <3>1, <3>2
  <2> QED
    BY <1>0, <2>1, <2>2, <2>3, <2>4, <2>10 DEF TimesInv
<1>3. CASE ReturnFromSyscall
  <2> DEFINE o == open[running]
             new == [id |-> IdAt(o.entry, 4), entry |-> o.entry, inner |-> o.inner,
                     back |-> now + 1, exit |-> now + 2]
  <2>1. /\ now' = now + 2 /\ running' = running /\ syscalls' = syscalls \cup {new}
        /\ open' = [open EXCEPT ![running] = NoCall] /\ o # NoCall
    BY <1>3 DEF ReturnFromSyscall
  <2>2. /\ now' \in Nat /\ NoCall \in [entry : Nat, inner : Nat, since : Nat]
    BY <1>0, <2>1 DEF NoCall
  <2>3. /\ open'[running] = NoCall
        /\ \A t \in Threads : t # running => open'[t] = open[t]
        /\ open' \in [Threads -> [entry : Nat, inner : Nat, since : Nat]]
    BY <1>0, <2>1, <2>2
  <2>4. OpenOK(o, now)
    BY <1>0, <2>1
  <2>5. SyscallOK(new, now')
    BY <1>0, <2>1, <2>4 DEF OpenOK, SyscallOK
  <2>6. \A s \in syscalls : SyscallOK(s, now')
    BY <1>0, <2>1 DEF SyscallOK
  <2>7. new.entry = o.entry
    OBVIOUS
  <2>8. \A s \in syscalls : s.entry # o.entry
    BY <1>0, <2>1
  <2>9. \A t \in Threads : open[t] # NoCall => OpenOK(open[t], now')
    BY <1>0, <2>1 DEF OpenOK
  <2> HIDE DEF new
  <2>10. ASSUME NEW t \in Threads, open'[t] # NoCall
         PROVE  /\ OpenOK(open'[t], now')
                /\ \A s \in syscalls' : s.entry # open'[t].entry
                /\ open'[t].entry # open'[Other(t)].entry
    <3>1. t # running /\ open'[t] = open[t] /\ Other(t) = running
      BY <1>0, <2>3, <2>10, OtherThread
    <3>2. OpenOK(open'[t], now')
      BY <2>9, <2>10, <3>1, <2>1 DEF OpenOK
    <3>3. open[t].entry # 0 /\ open'[Other(t)].entry = 0
      BY <1>0, <3>1, <2>3, <2>10 DEF OpenOK, NoCall
    <3>4. open[t].entry # new.entry
      BY <1>0, <2>7, <2>10, <3>1
    <3> QED
      BY <1>0, <2>1, <2>10, <3>1, <3>2, <3>3, <3>4
  <2>11. \A s, r \in syscalls' : s.entry = r.entry => s = r
    BY <1>0, <2>1, <2>7, <2>8
  <2> QED
    BY <1>0, <2>1, <2>2, <2>3, <2>5, <2>6, <2>10, <2>11 DEF TimesInv
<1>4. CASE SwitchThreads
  <2> DEFINE u == Other(running)
             new == IF open[u] = NoCall THEN open[u] ELSE [open[u] EXCEPT !.since = now + 2]
  <2>1. /\ now' = now + 2 /\ running' = u /\ syscalls' = syscalls
        /\ open' = [open EXCEPT ![u] = new]
    BY <1>4 DEF SwitchThreads
  <2>2. u \in Threads /\ now' \in Nat
    BY <1>0, <2>1, OtherThread
  <2>3. new \in [entry : Nat, inner : Nat, since : Nat]
    BY <1>0, <2>2
  <2>4. /\ open'[u] = new
        /\ \A t \in Threads : t # u => open'[t] = open[t]
        /\ open' \in [Threads -> [entry : Nat, inner : Nat, since : Nat]]
    BY <1>0, <2>1, <2>2, <2>3
  <2>5. /\ open[u] # NoCall => OpenOK(new, now')
        /\ open[u] = NoCall <=> new = NoCall
        /\ new.entry = open[u].entry
    BY <1>0, <2>1, <2>2 DEF OpenOK, NoCall
  <2>6. \A t \in Threads : open[t] # NoCall => OpenOK(open[t], now')
    BY <1>0, <2>1 DEF OpenOK
  <2>7. \A s \in syscalls : SyscallOK(s, now')
    BY <1>0, <2>1 DEF SyscallOK
  <2>8. \A t \in Threads : /\ open'[t].entry = open[t].entry
                           /\ open'[t] # NoCall => open[t] # NoCall /\ OpenOK(open'[t], now')
    <3> HIDE DEF u, new
    <3> TAKE t \in Threads
    <3>1. CASE t = u
      BY <2>4, <2>5, <3>1, <2>1 DEF OpenOK
    <3>2. CASE t # u
      <4>1. open'[t] = open[t]
        BY <2>4, <3>2
      <4> QED
        BY <2>6, <4>1, <2>1 DEF OpenOK
    <3> QED
      BY <3>1, <3>2
  <2>9. \A t \in Threads : open'[t] # NoCall =>
            /\ OpenOK(open'[t], now')
            /\ \A s \in syscalls' : s.entry # open'[t].entry
            /\ open'[t].entry # open'[Other(t)].entry
    <3> HIDE DEF u, new
    <3> QED
      BY <1>0, <2>1, <2>8, OtherThread
  <2> HIDE DEF u, new
  <2> QED
    BY <1>0, <2>1, <2>2, <2>4, <2>7, <2>9 DEF TimesInv
<1> QED
  BY <1>1, <1>2, <1>3, <1>4 DEF Next, Samples, Calls, SyscallNext, vars

\* what a step does to the timestamps at which system calls were entered
LEMMA BegunStep ==
  /\ TimesInv => Begun \subseteq 1 .. now
  /\ TimesInv /\ EnterSyscall => Begun' = Begun \cup {now + 1}
  /\ TimesInv /\ ReturnFromSyscall => Begun' = Begun
  /\ TimesInv /\ SwitchThreads => Begun' = Begun
<1> SUFFICES ASSUME TimesInv
             PROVE  /\ Begun \subseteq 1 .. now
                    /\ EnterSyscall => Begun' = Begun \cup {now + 1}
                    /\ ReturnFromSyscall => Begun' = Begun
                    /\ SwitchThreads => Begun' = Begun
  OBVIOUS
<1>0. /\ now \in Nat /\ running \in Threads
      /\ open \in [Threads -> [entry : Nat, inner : Nat, since : Nat]]
      /\ \A s \in syscalls : SyscallOK(s, now)
      /\ \A t \in Threads : open[t] # NoCall => OpenOK(open[t], now)
  BY DEF TimesInv
<1>1. Begun \subseteq 1 .. now
  BY <1>0 DEF Begun, SyscallOK, OpenOK
<1>2. ASSUME EnterSyscall PROVE Begun' = Begun \cup {now + 1}
  <2> DEFINE new == [entry |-> now + 1, inner |-> now + 2, since |-> now + 1]
  <2>1. /\ syscalls' = syscalls /\ open[running] = NoCall
        /\ open' = [open EXCEPT ![running] = new]
    BY <1>2 DEF EnterSyscall
  <2>2. new.entry = now + 1 /\ new # NoCall
    BY <1>0 DEF NoCall
  <2>3. open'[running] = new /\ \A t \in Threads : t # running => open'[t] = open[t]
    BY <1>0, <2>1
  <2> HIDE DEF new
  <2> QED
    BY <1>0, <2>1, <2>2, <2>3 DEF Begun
<1>3. ASSUME ReturnFromSyscall PROVE Begun' = Begun
  <2> DEFINE o == open[running]
             new == [id |-> IdAt(o.entry, 4), entry |-> o.entry, inner |-> o.inner,
                     back |-> now + 1, exit |-> now + 2]
  <2>1. /\ syscalls' = syscalls \cup {new} /\ o # NoCall
        /\ open' = [open EXCEPT ![running] = NoCall]
    BY <1>3 DEF ReturnFromSyscall
  <2>2. new.entry = o.entry
    OBVIOUS
  <2>3. open'[running] = NoCall /\ \A t \in Threads : t # running => open'[t] = open[t]
    BY <1>0, <2>1
  <2> HIDE DEF new
  <2> QED
    BY <1>0, <2>1, <2>2, <2>3 DEF Begun
<1>4. ASSUME SwitchThreads PROVE Begun' = Begun
  <2> DEFINE u == Other(running)
             new == IF open[u] = NoCall THEN open[u] ELSE [open[u] EXCEPT !.since = now + 2]
  <2>1. syscalls' = syscalls /\ open' = [open EXCEPT ![u] = new]
    BY <1>4 DEF SwitchThreads
  <2>2. u \in Threads
    BY <1>0, OtherThread
  <2>3. new.entry = open[u].entry /\ (new = NoCall <=> open[u] = NoCall)
    BY <1>0, <2>2 DEF NoCall, OpenOK
  <2>4. open'[u] = new /\ \A t \in Threads : t # u => open'[t] = open[t]
    BY <1>0, <2>1, <2>2
  <2> HIDE DEF u, new
  <2> QED
    BY <2>1, <2>2, <2>3, <2>4 DEF Begun
<1> QED
  BY <1>1, <1>2, <1>3, <1>4

\* what it does to the table
LEMMA CallsInit == Init => CallsInv
BY DEF Init, SyscallInit, CallsInv

LEMMA CallsStep == TimesInv /\ CallsInv /\ [Next]_vars => CallsInv'
<1> SUFFICES ASSUME TimesInv, CallsInv, [Next]_vars PROVE CallsInv'
  OBVIOUS
<1>0. /\ now \in Nat /\ running \in Threads
      /\ open \in [Threads -> [entry : Nat, inner : Nat, since : Nat]]
      /\ \A s \in syscalls : SyscallOK(s, now)
      /\ \A t \in Threads : open[t] # NoCall => /\ OpenOK(open[t], now)
                                                /\ \A s \in syscalls : s.entry # open[t].entry
      /\ Begun \subseteq 1 .. now
  BY BegunStep DEF TimesInv
<1>1. CASE UNCHANGED sysVars
  BY <1>1 DEF sysVars, CallsInv, IsSwitch, InCall, Begun
<1>2. ASSUME now' = now + 2, Begun \subseteq Begun', Begun' \subseteq Begun \cup {now + 1},
             calls \subseteq calls', \A s \in syscalls' : s \in syscalls \/ s.exit = now + 2,
             NEW c \in calls, IsSwitch(c)
      PROVE  IsSwitch(c)'
  <2>1. PICK t \in 1 .. now :
          /\ t + 1 <= now
          /\ t \notin Begun
          /\ c = TaskRow(t, c.parent) \/ c = SpaceRow(t, c.parent)
          /\ TaskRow(t, c.parent) \in calls /\ SpaceRow(t, c.parent) \in calls
          /\ c.parent = 0 \/ \E e \in Begun : c.parent = IdAt(e, 4) /\ InCall(t, e)
    BY <1>2 DEF IsSwitch
  <2>2. \A e \in Begun : InCall(t, e) => InCall(t, e)'
    BY <1>0, <1>2, <2>1 DEF InCall
  <2>3. t \in 1 .. now' /\ t + 1 <= now' /\ t \notin Begun'
    BY <1>0, <1>2, <2>1
  <2> QED
    BY <1>2, <2>1, <2>2, <2>3 DEF IsSwitch
<1>3. CASE EnterSyscall
  BY <1>3, <1>2, BegunStep DEF EnterSyscall, CallsInv
<1>4. CASE ReturnFromSyscall
  <2> DEFINE o == open[running]
             new == [id |-> IdAt(o.entry, 4), entry |-> o.entry, inner |-> o.inner,
                     back |-> now + 1, exit |-> now + 2]
  <2>1. /\ now' = now + 2 /\ syscalls' = syscalls \cup {new} /\ Begun' = Begun
        /\ calls' = calls \cup RowsOf(new)
    BY <1>4, BegunStep DEF ReturnFromSyscall, RowsOf, EntryRow, DoRow, PathRow, CallRow
  <2>2. new.exit = now + 2
    OBVIOUS
  <2> HIDE DEF new
  <2>3. \A c \in calls : IsSwitch(c) => IsSwitch(c)'
    BY <1>2, <2>1, <2>2
  <2> QED
    BY <2>1, <2>3 DEF CallsInv
<1>5. CASE SwitchThreads
  <2>0. PICK o, t, parent : /\ o = open[running] /\ t = now + 1
                            /\ parent = IF o = NoCall THEN 0 ELSE IdAt(o.entry, 4)
    OBVIOUS
  <2>1. /\ now' = now + 2 /\ syscalls' = syscalls /\ Begun' = Begun
        /\ calls' = calls \cup {TaskRow(t, parent), SpaceRow(t, parent)}
    <3>1. now + 2 = t + 1
      BY <1>0, <2>0
    <3> QED
      BY <1>5, <2>0, <3>1, BegunStep DEF SwitchThreads, TaskRow, SpaceRow
  <2>2. \A c \in calls : IsSwitch(c) => IsSwitch(c)'
    BY <1>2, <2>1
  <2>3. /\ TaskRow(t, parent).parent = parent
        /\ SpaceRow(t, parent).parent = parent
    BY DEF TaskRow, SpaceRow
  <2>4. parent = 0 \/ \E e \in Begun : parent = IdAt(e, 4) /\ InCall(t, e)'
    <3>1. CASE o = NoCall
      BY <2>0, <3>1
    <3>2. CASE o # NoCall
      <4>1. o.entry \in Begun /\ o.entry \in 1 .. now
        BY <1>0, <2>0, <3>2 DEF Begun
      <4>2. InCall(t, o.entry)'
        BY <1>0, <2>0, <2>1, <3>2, <4>1 DEF InCall
      <4> QED
        BY <2>0, <3>2, <4>1, <4>2
    <3> QED
      BY <3>1, <3>2
  <2>5. t \in 1 .. now' /\ t + 1 <= now' /\ t \notin Begun'
    BY <1>0, <2>0, <2>1
  <2>6. ASSUME NEW c \in {TaskRow(t, parent), SpaceRow(t, parent)} PROVE IsSwitch(c)'
    BY <2>1, <2>3, <2>4, <2>5, <2>6 DEF IsSwitch
  <2> QED
    BY <2>1, <2>2, <2>6 DEF CallsInv
<1> QED
  BY <1>1, <1>3, <1>4, <1>5 DEF Next, Samples, Calls, SyscallNext, vars

\* the fields of the four rows of a system call
LEMMA RowFields ==
  ASSUME NEW s
  PROVE  /\ EntryRow(s).symbol = "entry_SYSCALL_64" /\ DoRow(s).symbol = "do_syscall_64"
         /\ PathRow(s).symbol = "x64_sys_call" /\ CallRow(s).symbol = "the call"
         /\ EntryRow(s).id = IdAt(s.entry, 1) /\ DoRow(s).id = IdAt(s.entry, 2)
         /\ PathRow(s).id = IdAt(s.entry, 3) /\ CallRow(s).id = IdAt(s.entry, 4)
         /\ EntryRow(s).parent = 0 /\ DoRow(s).parent = IdAt(s.entry, 1)
         /\ PathRow(s).parent = IdAt(s.entry, 2) /\ CallRow(s).parent = IdAt(s.entry, 3)
         /\ EntryRow(s).call_time = s.entry /\ EntryRow(s).return_time = s.exit
         /\ \A c \in {DoRow(s), PathRow(s), CallRow(s)} :
                c.call_time = s.inner /\ c.return_time = s.back
         /\ \A c \in RowsOf(s) : /\ c.symbol # "switch_mm_irqs_off"
                                /\ c.symbol # "prepare_task_switch"
<1>1. /\ EntryRow(s).symbol = "entry_SYSCALL_64" /\ DoRow(s).symbol = "do_syscall_64"
      /\ PathRow(s).symbol = "x64_sys_call" /\ CallRow(s).symbol = "the call"
  BY DEF EntryRow, DoRow, PathRow, CallRow
<1>2. /\ "entry_SYSCALL_64" # "switch_mm_irqs_off" /\ "do_syscall_64" # "switch_mm_irqs_off"
      /\ "x64_sys_call" # "switch_mm_irqs_off" /\ "the call" # "switch_mm_irqs_off"
      /\ "entry_SYSCALL_64" # "prepare_task_switch" /\ "do_syscall_64" # "prepare_task_switch"
      /\ "x64_sys_call" # "prepare_task_switch" /\ "the call" # "prepare_task_switch"
  OBVIOUS
<1>3. \A c \in RowsOf(s) : c.symbol # "switch_mm_irqs_off" /\ c.symbol # "prepare_task_switch"
  BY <1>1, <1>2 DEF RowsOf
<1> QED
  BY <1>1, <1>3 DEF EntryRow, DoRow, PathRow, CallRow

\* where the switches of the address space are
LEMMA SpaceSwitches ==
  ASSUME TimesInv, CallsInv, NEW c \in calls, c.symbol = "switch_mm_irqs_off"
  PROVE  \E t \in 1 .. now : /\ t + 1 <= now
                             /\ c = SpaceRow(t, c.parent)
                             /\ TaskRow(t, c.parent) \in calls
<1>1. IsSwitch(c)
  <2>1. Root.symbol # "switch_mm_irqs_off"
    BY DEF Root
  <2> QED
    BY <2>1, RowFields DEF CallsInv
<1> QED
  BY <1>1 DEF IsSwitch, TaskRow

\* what it does to the stretches
LEMMA StretchesInit == Init => StretchesInv
BY DEF Init, SyscallInit, StretchesInv, Threads

LEMMA StretchesStep == TimesInv /\ CallsInv /\ StretchesInv /\ [Next]_vars => StretchesInv'
<1> SUFFICES ASSUME TimesInv, CallsInv, StretchesInv, [Next]_vars PROVE StretchesInv'
  OBVIOUS
<1>0. /\ now \in Nat /\ running \in Threads
      /\ open \in [Threads -> [entry : Nat, inner : Nat, since : Nat]]
      /\ \A s \in syscalls : SyscallOK(s, now)
      /\ \A t \in Threads : open[t] # NoCall => /\ OpenOK(open[t], now)
                                                /\ open[t].entry \in Begun
                                                /\ \A s \in syscalls : s.entry # open[t].entry
  BY DEF TimesInv, Begun
<1>1. \A c \in calls : c.symbol = "switch_mm_irqs_off" => c.call_time \in 1 .. now
  BY <1>0, SpaceSwitches DEF SpaceRow
<1>2. CASE UNCHANGED sysVars
  BY <1>2 DEF sysVars, StretchesInv, IsStretch, Undisturbed, SwitchedAt, Begun
<1>3. ASSUME now' = now + 2, Begun \subseteq Begun', calls \subseteq calls',
             syscalls \subseteq syscalls',
             \A s \in syscalls' : s \in syscalls \/ s.exit = now + 2,
             \A c \in calls' : \/ c \in calls \/ c.symbol # "switch_mm_irqs_off"
                               \/ c.call_time = now + 2
      PROVE  /\ \A x \in stretches : IsStretch(x)'
             /\ \A from, to \in Nat :
                  Undisturbed(from, to) /\ to <= now + 2 => Undisturbed(from, to)'
             /\ \A time : SwitchedAt(time) => SwitchedAt(time)'
  <2>1. \A from, to \in Nat : Undisturbed(from, to) /\ to <= now + 2 => Undisturbed(from, to)'
    BY <1>0, <1>3 DEF Undisturbed
  <2>2. \A time : SwitchedAt(time) => SwitchedAt(time)'
    BY <1>3 DEF SwitchedAt
  <2>3. ASSUME NEW x \in stretches PROVE IsStretch(x)'
    <3>1. /\ x.from \in Nat /\ x.to \in Nat /\ x.from < x.to /\ x.to <= now
          /\ Undisturbed(x.from, x.to)
      BY DEF StretchesInv, IsStretch
    <3>2. PICK e \in Begun :
             /\ x.id = IdAt(e, 4)
             /\ e <= x.from
             /\ x.from = e \/ SwitchedAt(x.from)
             /\ SwitchedAt(x.to) \/ \E s \in syscalls : s.entry = e /\ s.exit = x.to
             /\ \A s \in syscalls : s.entry = e => x.to <= s.exit
      BY DEF StretchesInv, IsStretch
    <3>3. x.to <= now' /\ x.to <= now + 2
      BY <1>0, <1>3, <3>1
    <3>4. Undisturbed(x.from, x.to)'
      BY <2>1, <3>1, <3>3
    <3>5. \A s \in syscalls' : s.entry = e => x.to <= s.exit
      BY <1>3, <3>2, <3>3
    <3> QED
      BY <1>3, <2>2, <3>1, <3>2, <3>3, <3>4, <3>5 DEF IsStretch
  <2> QED
    BY <2>1, <2>2, <2>3
<1>4. CASE EnterSyscall
  <2>1. /\ now' = now + 2 /\ UNCHANGED <<running, calls, syscalls, stretches>>
        /\ Begun \subseteq Begun'
        /\ open' = [open EXCEPT ![running] =
                      [entry |-> now + 1, inner |-> now + 2, since |-> now + 1]]
    BY <1>4, BegunStep DEF EnterSyscall
  <2>2. open'[running'].since = now + 1 /\ open'[running'].entry = now + 1
    BY <1>0, <2>1
  <2>3. PICK from, to \in Nat : from = now + 1 /\ to = now + 3
    BY <1>0
  <2>4. Undisturbed(from, to)'
    BY <1>0, <1>1, <2>1, <2>3 DEF Undisturbed, SyscallOK
  <2>5. from = open'[running'].since /\ to = now' + 1
    BY <1>0, <2>1, <2>2, <2>3
  <2> QED
    BY <1>3, <2>1, <2>2, <2>4, <2>5 DEF StretchesInv
<1>5. CASE ReturnFromSyscall
  <2>0. PICK o : o = open[running]
    OBVIOUS
  <2> DEFINE new == [id |-> IdAt(o.entry, 4), entry |-> o.entry, inner |-> o.inner,
                     back |-> now + 1, exit |-> now + 2]
             y == [id |-> IdAt(o.entry, 4), from |-> o.since, to |-> now + 2]
  <2>1. /\ now' = now + 2 /\ running' = running /\ syscalls' = syscalls \cup {new}
        /\ open' = [open EXCEPT ![running] = NoCall] /\ o # NoCall
        /\ calls' = calls \cup RowsOf(new)
        /\ stretches' = stretches \cup {y}
        /\ Begun' = Begun
    BY <1>5, <2>0, BegunStep DEF ReturnFromSyscall, RowsOf, EntryRow, DoRow, PathRow, CallRow
  <2>2. /\ new.exit = now + 2 /\ new.entry = o.entry
        /\ y.id = IdAt(o.entry, 4) /\ y.from = o.since /\ y.to = now + 2
    OBVIOUS
  <2>3. \A c \in RowsOf(new) : c.symbol # "switch_mm_irqs_off"
    BY RowFields
  <2> HIDE DEF new, y
  <2>4. /\ \A x \in stretches : IsStretch(x)'
        /\ \A time : SwitchedAt(time) => SwitchedAt(time)'
    BY <1>3, <2>1, <2>2, <2>3
  <2>5. PICK z : z = y
    OBVIOUS
  <2>6. IsStretch(z)'
    <3>1. /\ z.from \in Nat /\ z.to \in Nat /\ z.from < z.to /\ z.to <= now'
          /\ o.entry \in Begun /\ o.entry <= z.from
      BY <1>0, <2>0, <2>1, <2>2, <2>5 DEF OpenOK
    <3>2. Undisturbed(z.from, z.to)'
      BY <1>0, <1>1, <2>0, <2>1, <2>2, <2>3, <2>5 DEF StretchesInv, Undisturbed, SyscallOK
    <3>3. z.from = o.entry \/ SwitchedAt(z.from)'
      BY <2>0, <2>1, <2>2, <2>4, <2>5 DEF StretchesInv
    <3>4. \E s \in syscalls' : s.entry = o.entry /\ s.exit = z.to
      BY <2>1, <2>2, <2>5
    <3>5. \A s \in syscalls' : s.entry = o.entry => z.to <= s.exit
      BY <1>0, <2>0, <2>1, <2>2, <2>5
    <3> QED
      BY <2>1, <2>2, <2>5, <3>1, <3>2, <3>3, <3>4, <3>5 DEF IsStretch
  <2>7. open'[running'] = NoCall
    BY <1>0, <2>1
  <2> QED
    BY <2>1, <2>4, <2>5, <2>6, <2>7 DEF StretchesInv
<1>6. CASE SwitchThreads
  <2>0. PICK o, t, parent : /\ o = open[running] /\ t = now + 1
                            /\ parent = IF o = NoCall THEN 0 ELSE IdAt(o.entry, 4)
    OBVIOUS
  <2> DEFINE u == Other(running)
             y == [id |-> IdAt(o.entry, 4), from |-> o.since, to |-> now + 2]
  <2>1. /\ now' = now + 2 /\ syscalls' = syscalls /\ Begun' = Begun /\ running' = u
        /\ calls' = calls \cup {TaskRow(t, parent), SpaceRow(t, parent)}
        /\ stretches' = IF o = NoCall THEN stretches ELSE stretches \cup {y}
        /\ open' = [open EXCEPT ![u] = IF @ = NoCall THEN @ ELSE [@ EXCEPT !.since = now + 2]]
    <3>1. now + 2 = t + 1
      BY <1>0, <2>0
    <3> QED
      BY <1>6, <2>0, <3>1, BegunStep DEF SwitchThreads, TaskRow, SpaceRow
  <2>2. /\ TaskRow(t, parent).symbol # "switch_mm_irqs_off"
        /\ SpaceRow(t, parent).symbol = "switch_mm_irqs_off"
        /\ SpaceRow(t, parent).call_time = now + 2
    BY <1>0, <2>0 DEF TaskRow, SpaceRow
  <2>3. y.id = IdAt(o.entry, 4) /\ y.from = o.since /\ y.to = now + 2
    OBVIOUS
  <2>4. /\ \A x \in stretches : IsStretch(x)'
        /\ \A time : SwitchedAt(time) => SwitchedAt(time)'
    BY <1>3, <2>1, <2>2
  <2>5. PICK z : z = y
    OBVIOUS
  <2>6. PICK to, next \in Nat : to = now + 2 /\ next = now + 3
    BY <1>0
  <2> HIDE DEF y
  <2>7. SwitchedAt(to)'
    BY <2>1, <2>2, <2>6 DEF SwitchedAt
  <2>8. ASSUME o # NoCall PROVE IsStretch(z)'
    <3>1. /\ z.from \in Nat /\ z.to \in Nat /\ z.from < z.to /\ z.to <= now'
          /\ o.entry \in Begun /\ o.entry <= z.from
      BY <1>0, <2>0, <2>1, <2>3, <2>5, <2>8 DEF OpenOK
    <3>2. Undisturbed(z.from, z.to)'
      BY <1>0, <1>1, <2>0, <2>1, <2>2, <2>3, <2>5, <2>8 DEF StretchesInv, Undisturbed, SyscallOK
    <3>3. z.from = o.entry \/ SwitchedAt(z.from)'
      BY <2>0, <2>1, <2>3, <2>4, <2>5, <2>8 DEF StretchesInv
    <3>4. \A s \in syscalls' : s.entry # o.entry
      BY <1>0, <2>0, <2>1, <2>8
    <3> QED
      BY <2>1, <2>3, <2>5, <2>6, <2>7, <3>1, <3>2, <3>3, <3>4 DEF IsStretch
  <2>9. u \in Threads
    BY <1>0, OtherThread
  <2>10. open'[u] # NoCall => open'[u].since = to
    BY <1>0, <2>1, <2>6, <2>9
  <2>11. Undisturbed(to, next)'
    BY <1>0, <1>1, <2>1, <2>2, <2>6 DEF Undisturbed, SyscallOK
  <2>12. next = now' + 1
    BY <1>0, <2>1, <2>6
  <2>13. \A x \in stretches' : IsStretch(x)'
    BY <2>1, <2>4, <2>5, <2>8
  <2> HIDE DEF u
  <2> QED
    BY <2>1, <2>7, <2>10, <2>11, <2>12, <2>13 DEF StretchesInv
<1> QED
  BY <1>2, <1>4, <1>5, <1>6 DEF Next, Samples, Calls, SyscallNext, vars

LEMMA SyscallsCorrect == Spec => []SyscallsInv
<1>1. Init => SyscallsInv
  BY TimesInit, CallsInit, StretchesInit DEF SyscallsInv
<1>2. SyscallsInv /\ [Next]_vars => SyscallsInv'
  BY TimesStep, CallsStep, StretchesStep DEF SyscallsInv
<1> QED
  BY <1>1, <1>2, PTL DEF Spec

-----------------------------------------------------------------------------
(* The hierarchy of calls.  A recursive function is known only when one that *)
(* solves its equation exists: seven rounds of it, from anywhere, give one,    *)
(* because no call has more than five callers.                               *)

Alone(T, c) == c.id = 0 \/ {p \in T : p.id = c.parent} = {}
Caller(T, c) == CHOOSE p \in {p \in T : p.id = c.parent} : TRUE
Round(T, h) == [c \in T |-> IF Alone(T, c) THEN <<c>> ELSE <<c>> \o h[Caller(T, c)]]
Agree(T, rank, k, h, g) == \A c \in T : rank[c] <= k => h[c] = g[c]

\* callers have a lower rank, and there are six ranks
LEMMA HierarchyUnfolds ==
  ASSUME NEW T, NEW rank \in [T -> 0 .. 5],
         \A c, p \in T : ~Alone(T, c) /\ p.id = c.parent => rank[p] < rank[c]
  PROVE  Hierarchy(T) = Round(T, Hierarchy(T))
<1>1. \A c \in T : ~Alone(T, c) => Caller(T, c) \in T /\ rank[Caller(T, c)] < rank[c]
  <2> TAKE c \in T
  <2> HAVE ~Alone(T, c)
  <2>1. Caller(T, c) \in {p \in T : p.id = c.parent}
    BY DEF Alone, Caller
  <2> QED
    BY <2>1
<1>2. ASSUME NEW k \in -1 .. 4, NEW h, NEW g, Agree(T, rank, k, h, g)
      PROVE  Agree(T, rank, k + 1, Round(T, h), Round(T, g))
  <2> SUFFICES ASSUME NEW c \in T, rank[c] <= k + 1 PROVE Round(T, h)[c] = Round(T, g)[c]
    BY DEF Agree
  <2>1. CASE Alone(T, c)
    BY <2>1 DEF Round
  <2>2. CASE ~Alone(T, c)
    <3>1. Caller(T, c) \in T /\ rank[Caller(T, c)] <= k
      BY <1>1, <2>2
    <3>2. h[Caller(T, c)] = g[Caller(T, c)]
      BY <1>2, <3>1 DEF Agree
    <3> QED
      BY <2>2, <3>2 DEF Round
  <2> QED
    BY <2>1, <2>2
<1> DEFINE h0 == Round(T, <<>>)
           h1 == Round(T, h0)
           h2 == Round(T, h1)
           h3 == Round(T, h2)
           h4 == Round(T, h3)
           h5 == Round(T, h4)
           h6 == Round(T, h5)
<1>3. Agree(T, rank, -1, <<>>, h0)
  BY DEF Agree
<1>4. Agree(T, rank, 0, h0, h1)
  <2> HIDE DEF h0
  <2>1. Agree(T, rank, -1 + 1, Round(T, <<>>), Round(T, h0))
    BY <1>2, <1>3
  <2> QED
    BY <2>1 DEF h0
<1> HIDE DEF h0
<1>5. Agree(T, rank, 1, h1, h2)
  BY <1>2, <1>4
<1>6. Agree(T, rank, 2, h2, h3)
  BY <1>2, <1>5
<1>7. Agree(T, rank, 3, h3, h4)
  BY <1>2, <1>6
<1>8. Agree(T, rank, 4, h4, h5)
  BY <1>2, <1>7
<1>9. Agree(T, rank, 5, h5, h6)
  BY <1>2, <1>8
<1>10. h5 = h6
  <2>1. \A c \in T : h5[c] = h6[c]
    BY <1>9 DEF Agree
  <2> HIDE DEF h4
  <2>2. h5 = [c \in T |-> h5[c]] /\ h6 = [c \in T |-> h6[c]]
    BY DEF Round
  <2> HIDE DEF h5, h6
  <2> QED
    BY <2>1, <2>2
<1> HIDE DEF h0, h1, h2, h3, h4, h5
<1>11. \E up : up = Round(T, up)
  BY <1>10
<1>12. Hierarchy(T) = CHOOSE up : up = Round(T, up)
  BY DEF Hierarchy, Round, Alone, Caller
<1> QED
  BY <1>11, <1>12

LEMMA IdsDiffer ==
  ASSUME NEW a \in Nat, NEW b \in Nat, NEW k \in 0 .. 4, NEW l \in 0 .. 4, IdAt(a, k) = IdAt(b, l)
  PROVE  a = b /\ k = l
BY DEF IdAt

\* what has the identifier of row 0, or of a row of the system call entered at e
LEMMA RowsById ==
  ASSUME TimesInv, CallsInv, NEW p \in calls
  PROVE  /\ p.id = 0 => p = Root
         /\ \A e \in Begun, k \in 1 .. 4 : p.id = IdAt(e, k) =>
              \E s \in syscalls : /\ s.entry = e
                                  /\ \/ k = 1 /\ p = EntryRow(s)
                                     \/ k = 2 /\ p = DoRow(s)
                                     \/ k = 3 /\ p = PathRow(s)
                                     \/ k = 4 /\ p = CallRow(s)
<1>0. now \in Nat /\ Begun \subseteq 1 .. now /\ \A s \in syscalls : SyscallOK(s, now)
  BY BegunStep DEF TimesInv
<1>1. CASE p = Root
  BY <1>0, <1>1 DEF Root, IdAt
<1>2. CASE \E s \in syscalls : p \in RowsOf(s)
  <2>1. PICK s \in syscalls : p \in RowsOf(s)
    BY <1>2
  <2>2. s.entry \in 1 .. now
    BY <1>0 DEF SyscallOK
  <2>3. PICK k \in 1 .. 4 : /\ p.id = IdAt(s.entry, k)
                            /\ \/ k = 1 /\ p = EntryRow(s)
                               \/ k = 2 /\ p = DoRow(s)
                               \/ k = 3 /\ p = PathRow(s)
                               \/ k = 4 /\ p = CallRow(s)
    <3>1. CASE p = EntryRow(s)
      <4>1. 1 \in 1 .. 4
        OBVIOUS
      <4>2. EntryRow(s).id = IdAt(s.entry, 1)
        BY RowFields
      <4>3. p.id = IdAt(s.entry, 1)
        BY <3>1, <4>2
      <4> QED
        BY <3>1, <4>1, <4>3
    <3>2. CASE p = DoRow(s)
      <4>1. 2 \in 1 .. 4
        OBVIOUS
      <4>2. DoRow(s).id = IdAt(s.entry, 2)
        BY RowFields
      <4>3. p.id = IdAt(s.entry, 2)
        BY <3>2, <4>2
      <4> QED
        BY <3>2, <4>1, <4>3
    <3>3. CASE p = PathRow(s)
      <4>1. 3 \in 1 .. 4
        OBVIOUS
      <4>2. PathRow(s).id = IdAt(s.entry, 3)
        BY RowFields
      <4>3. p.id = IdAt(s.entry, 3)
        BY <3>3, <4>2
      <4> QED
        BY <3>3, <4>1, <4>3
    <3>4. CASE p = CallRow(s)
      <4>1. 4 \in 1 .. 4
        OBVIOUS
      <4>2. CallRow(s).id = IdAt(s.entry, 4)
        BY RowFields
      <4>3. p.id = IdAt(s.entry, 4)
        BY <3>4, <4>2
      <4> QED
        BY <3>4, <4>1, <4>3
    <3> QED
      BY <2>1, <3>1, <3>2, <3>3, <3>4 DEF RowsOf
  <2>4. p.id # 0
    BY <1>0, <2>2, <2>3 DEF IdAt
  <2>5. \A e \in Begun, l \in 1 .. 4 : p.id = IdAt(e, l) => e = s.entry /\ l = k
    <3> TAKE e \in Begun, l \in 1 .. 4
    <3>1. e \in Nat /\ s.entry \in Nat /\ k \in 0 .. 4 /\ l \in 0 .. 4
      BY <1>0, <2>2
    <3> QED
      BY <2>3, <3>1, IdsDiffer
  <2> QED
    BY <2>3, <2>4, <2>5
<1>3. CASE IsSwitch(p)
  <2>1. PICK t \in 1 .. now : /\ t \notin Begun
                              /\ p = TaskRow(t, p.parent) \/ p = SpaceRow(t, p.parent)
    BY <1>3 DEF IsSwitch
  <2>2. p.id = IdAt(t, 0) \/ p.id = IdAt(t, 1)
    BY <2>1 DEF TaskRow, SpaceRow
  <2>3. p.id # 0
    BY <1>0, <2>1, <2>2 DEF IdAt
  <2>4. \A e \in Begun, l \in 1 .. 4 : p.id # IdAt(e, l)
    BY <1>0, <2>1, <2>2, IdsDiffer
  <2> QED
    BY <2>3, <2>4
<1> QED
  BY <1>1, <1>2, <1>3 DEF CallsInv

\* the callers of each row
LEMMA Callers ==
  ASSUME TimesInv, CallsInv
  PROVE  /\ {p \in calls : p.id = 0} = {Root}
         /\ \A s \in syscalls : /\ {p \in calls : p.id = IdAt(s.entry, 1)} = {EntryRow(s)}
                                /\ {p \in calls : p.id = IdAt(s.entry, 2)} = {DoRow(s)}
                                /\ {p \in calls : p.id = IdAt(s.entry, 3)} = {PathRow(s)}
                                /\ {p \in calls : p.id = IdAt(s.entry, 4)} = {CallRow(s)}
         /\ \A e \in Begun : (\A s \in syscalls : s.entry # e)
                               => {p \in calls : p.id = IdAt(e, 4)} = {}
<1>1. Root \in calls /\ Root.id = 0
  BY DEF CallsInv, Root
<1>2. \A s \in syscalls : RowsOf(s) \subseteq calls /\ s.entry \in Begun
  BY DEF CallsInv, Begun
<1>3. \A s, r \in syscalls : s.entry = r.entry => s = r
  BY DEF TimesInv
<1>4. {p \in calls : p.id = 0} = {Root}
  BY <1>1, RowsById
<1>5. ASSUME NEW s \in syscalls
      PROVE  /\ {p \in calls : p.id = IdAt(s.entry, 1)} = {EntryRow(s)}
             /\ {p \in calls : p.id = IdAt(s.entry, 2)} = {DoRow(s)}
             /\ {p \in calls : p.id = IdAt(s.entry, 3)} = {PathRow(s)}
             /\ {p \in calls : p.id = IdAt(s.entry, 4)} = {CallRow(s)}
  <2>1. {EntryRow(s), DoRow(s), PathRow(s), CallRow(s)} \subseteq calls
    BY <1>2 DEF RowsOf
  <2>2. \A p \in calls, k \in 1 .. 4 : p.id = IdAt(s.entry, k) =>
                                  \/ k = 1 /\ p = EntryRow(s)
                                  \/ k = 2 /\ p = DoRow(s)
                                  \/ k = 3 /\ p = PathRow(s)
                                  \/ k = 4 /\ p = CallRow(s)
    BY <1>2, <1>3, RowsById
  <2>3. 1 \in 1 .. 4 /\ 2 \in 1 .. 4 /\ 3 \in 1 .. 4 /\ 4 \in 1 .. 4 /\ 1 # 2 /\ 1 # 3 /\ 1 # 4
        /\ 2 # 3 /\ 2 # 4 /\ 3 # 4
    OBVIOUS
  <2>4. /\ EntryRow(s).id = IdAt(s.entry, 1) /\ DoRow(s).id = IdAt(s.entry, 2)
        /\ PathRow(s).id = IdAt(s.entry, 3) /\ CallRow(s).id = IdAt(s.entry, 4)
    BY RowFields
  <2>5. {p \in calls : p.id = IdAt(s.entry, 1)} = {EntryRow(s)}
    BY <2>1, <2>2, <2>3, <2>4
  <2>6. {p \in calls : p.id = IdAt(s.entry, 2)} = {DoRow(s)}
    BY <2>1, <2>2, <2>3, <2>4
  <2>7. {p \in calls : p.id = IdAt(s.entry, 3)} = {PathRow(s)}
    BY <2>1, <2>2, <2>3, <2>4
  <2>8. {p \in calls : p.id = IdAt(s.entry, 4)} = {CallRow(s)}
    BY <2>1, <2>2, <2>3, <2>4
  <2> QED
    BY <2>5, <2>6, <2>7, <2>8
<1>6. ASSUME NEW e \in Begun, \A s \in syscalls : s.entry # e
      PROVE  {p \in calls : p.id = IdAt(e, 4)} = {}
  BY <1>6, RowsById
<1> QED
  BY <1>4, <1>5, <1>6

\* a switch was made by user code, or within a system call that has returned, or
\* within one that has not
LEMMA SwitchCallers ==
  ASSUME TimesInv, CallsInv, NEW c \in calls, IsSwitch(c)
  PROVE  /\ c.id # 0
         /\ c.symbol = "switch_mm_irqs_off" \/ c.symbol = "prepare_task_switch"
         /\ \/ c.parent = 0
            \/ {p \in calls : p.id = c.parent} = {}
            \/ \E s \in syscalls : /\ c.parent = IdAt(s.entry, 4)
                                   /\ c.call_time \in s.entry .. s.exit
                                   /\ c.return_time = c.call_time
<1>0. now \in Nat /\ Begun \subseteq 1 .. now /\ \A s \in syscalls : SyscallOK(s, now)
  BY BegunStep DEF TimesInv
<1>1. PICK t \in 1 .. now :
        /\ c = TaskRow(t, c.parent) \/ c = SpaceRow(t, c.parent)
        /\ c.parent = 0 \/ \E e \in Begun : c.parent = IdAt(e, 4) /\ InCall(t, e)
  BY DEF IsSwitch
<1>2. /\ c.id = IdAt(t, 0) \/ c.id = IdAt(t, 1)
      /\ c.symbol = "switch_mm_irqs_off" \/ c.symbol = "prepare_task_switch"
      /\ c.call_time \in {t, t + 1} /\ c.return_time = c.call_time
  BY <1>1 DEF TaskRow, SpaceRow
<1>3. c.id # 0
  BY <1>0, <1>1, <1>2 DEF IdAt
<1>4. ASSUME c.parent # 0, {p \in calls : p.id = c.parent} # {}
      PROVE  \E s \in syscalls : c.parent = IdAt(s.entry, 4) /\ c.call_time \in s.entry .. s.exit
  <2>1. PICK e \in Begun : c.parent = IdAt(e, 4) /\ InCall(t, e)
    BY <1>1, <1>4
  <2>2. PICK s \in syscalls : s.entry = e
    BY <1>4, <2>1, Callers
  <2>3. e < t /\ t + 1 < s.exit
    BY <2>1, <2>2 DEF InCall
  <2> QED
    BY <1>0, <1>2, <2>1, <2>2, <2>3 DEF SyscallOK
<1> QED
  BY <1>2, <1>3, <1>4

LEMMA Prefixed ==
  /\ \A a, b : <<a>> \o <<b>> = <<a, b>>
  /\ \A a, b, c : <<a>> \o <<b, c>> = <<a, b, c>>
  /\ \A a, b, c, d : <<a>> \o <<b, c, d>> = <<a, b, c, d>>
  /\ \A a, b, c, d, e : <<a>> \o <<b, c, d, e>> = <<a, b, c, d, e>>
  /\ \A a, b, c, d, e, f : <<a>> \o <<b, c, d, e, f>> = <<a, b, c, d, e, f>>
<1>1. ASSUME NEW a, NEW b PROVE <<a>> \o <<b>> = <<a, b>>
  <2> DEFINE q == <<a>> \o <<b>>
             r == <<a, b>>
  <2>1. q = [i \in 1 .. 2 |-> q[i]] /\ r = [i \in 1 .. 2 |-> r[i]]
    OBVIOUS
  <2>2. \A i \in 1 .. 2 : q[i] = r[i]
    OBVIOUS
  <2> QED
    BY <2>1, <2>2
<1>2. ASSUME NEW a, NEW b, NEW c PROVE <<a>> \o <<b, c>> = <<a, b, c>>
  <2> DEFINE q == <<a>> \o <<b, c>>
             r == <<a, b, c>>
  <2>1. q = [i \in 1 .. 3 |-> q[i]] /\ r = [i \in 1 .. 3 |-> r[i]]
    OBVIOUS
  <2>2. \A i \in 1 .. 3 : q[i] = r[i]
    OBVIOUS
  <2> QED
    BY <2>1, <2>2
<1>3. ASSUME NEW a, NEW b, NEW c, NEW d PROVE <<a>> \o <<b, c, d>> = <<a, b, c, d>>
  <2> DEFINE q == <<a>> \o <<b, c, d>>
             r == <<a, b, c, d>>
  <2>1. q = [i \in 1 .. 4 |-> q[i]] /\ r = [i \in 1 .. 4 |-> r[i]]
    OBVIOUS
  <2>2. \A i \in 1 .. 4 : q[i] = r[i]
    OBVIOUS
  <2> QED
    BY <2>1, <2>2
<1>4. ASSUME NEW a, NEW b, NEW c, NEW d, NEW e PROVE <<a>> \o <<b, c, d, e>> = <<a, b, c, d, e>>
  <2> DEFINE q == <<a>> \o <<b, c, d, e>>
             r == <<a, b, c, d, e>>
  <2>1. q = [i \in 1 .. 5 |-> q[i]] /\ r = [i \in 1 .. 5 |-> r[i]]
    OBVIOUS
  <2>2. \A i \in 1 .. 5 : q[i] = r[i]
    OBVIOUS
  <2> QED
    BY <2>1, <2>2
<1>5. ASSUME NEW a, NEW b, NEW c, NEW d, NEW e, NEW f
      PROVE  <<a>> \o <<b, c, d, e, f>> = <<a, b, c, d, e, f>>
  <2> DEFINE q == <<a>> \o <<b, c, d, e, f>>
             r == <<a, b, c, d, e, f>>
  <2>1. q = [i \in 1 .. 6 |-> q[i]] /\ r = [i \in 1 .. 6 |-> r[i]]
    OBVIOUS
  <2>2. \A i \in 1 .. 6 : q[i] = r[i]
    OBVIOUS
  <2> QED
    BY <2>1, <2>2
<1> QED
  BY <1>1, <1>2, <1>3, <1>4, <1>5

\* the hierarchy of each row
LEMMA Hierarchies ==
  ASSUME TimesInv, CallsInv
  PROVE  /\ Hierarchy(calls)[Root] = <<Root>>
         /\ \A s \in syscalls :
              /\ Hierarchy(calls)[EntryRow(s)] = <<EntryRow(s), Root>>
              /\ Hierarchy(calls)[DoRow(s)] = <<DoRow(s), EntryRow(s), Root>>
              /\ Hierarchy(calls)[PathRow(s)] = <<PathRow(s), DoRow(s), EntryRow(s), Root>>
              /\ Hierarchy(calls)[CallRow(s)] =
                   <<CallRow(s), PathRow(s), DoRow(s), EntryRow(s), Root>>
         /\ \A c \in calls : IsSwitch(c) =>
              \/ Hierarchy(calls)[c] = <<c, Root>>
              \/ Hierarchy(calls)[c] = <<c>>
              \/ \E s \in syscalls :
                   /\ c.call_time \in s.entry .. s.exit /\ c.return_time = c.call_time
                   /\ Hierarchy(calls)[c] =
                        <<c, CallRow(s), PathRow(s), DoRow(s), EntryRow(s), Root>>
<1> DEFINE rank == [c \in calls |-> IF c.symbol = "unknown" THEN 0
                                    ELSE IF c.symbol = "entry_SYSCALL_64" THEN 1
                                    ELSE IF c.symbol = "do_syscall_64" THEN 2
                                    ELSE IF c.symbol = "x64_sys_call" THEN 3
                                    ELSE IF c.symbol = "the call" THEN 4 ELSE 5]
           up == Hierarchy(calls)
<1>0. /\ Root \in calls /\ \A s \in syscalls : RowsOf(s) \subseteq calls
      /\ \A c \in calls : c = Root \/ (\E s \in syscalls : c \in RowsOf(s)) \/ IsSwitch(c)
      /\ now \in Nat /\ \A s \in syscalls : SyscallOK(s, now)
  BY DEF CallsInv, TimesInv
<1>1. Root.id = 0 /\ Root.symbol = "unknown"
  BY DEF Root
<1>2. \A s \in syscalls : \A c \in RowsOf(s) : c.id # 0
  <2> TAKE s \in syscalls
  <2>1. s.entry \in 1 .. now
    BY <1>0 DEF SyscallOK
  <2>2. IdAt(s.entry, 1) # 0 /\ IdAt(s.entry, 2) # 0 /\ IdAt(s.entry, 3) # 0 /\ IdAt(s.entry, 4) # 0
    BY <1>0, <2>1 DEF IdAt
  <2>3. /\ EntryRow(s).id = IdAt(s.entry, 1) /\ DoRow(s).id = IdAt(s.entry, 2)
        /\ PathRow(s).id = IdAt(s.entry, 3) /\ CallRow(s).id = IdAt(s.entry, 4)
    BY RowFields
  <2> QED
    BY <2>2, <2>3 DEF RowsOf
<1>3. rank[Root] = 0
  BY <1>0, <1>1
<1>4. \A s \in syscalls : /\ EntryRow(s) \in calls /\ DoRow(s) \in calls
                          /\ PathRow(s) \in calls /\ CallRow(s) \in calls
  BY <1>0 DEF RowsOf
<1>5. \A s \in syscalls : /\ rank[EntryRow(s)] = 1 /\ rank[DoRow(s)] = 2
                          /\ rank[PathRow(s)] = 3 /\ rank[CallRow(s)] = 4
  BY <1>4, RowFields
<1>6. \A c \in calls : IsSwitch(c) => rank[c] = 5
  BY SwitchCallers
<1>7. rank \in [calls -> 0 .. 5]
  OBVIOUS
<1> HIDE DEF rank
<1>8. ASSUME NEW c \in calls, NEW p \in calls, ~Alone(calls, c), p.id = c.parent
      PROVE  rank[p] < rank[c]
  <2>1. c.id # 0
    BY <1>8 DEF Alone
  <2>2. CASE \E s \in syscalls : c \in RowsOf(s)
    <3>1. PICK s \in syscalls : c \in RowsOf(s)
      BY <2>2
    <3>2. \/ c = EntryRow(s) /\ c.parent = 0
          \/ c = DoRow(s) /\ c.parent = IdAt(s.entry, 1)
          \/ c = PathRow(s) /\ c.parent = IdAt(s.entry, 2)
          \/ c = CallRow(s) /\ c.parent = IdAt(s.entry, 3)
      BY <3>1, RowFields DEF RowsOf
    <3>3. \/ c = EntryRow(s) /\ p = Root
          \/ c = DoRow(s) /\ p = EntryRow(s)
          \/ c = PathRow(s) /\ p = DoRow(s)
          \/ c = CallRow(s) /\ p = PathRow(s)
      BY <1>8, <3>2, Callers
    <3> QED
      BY <1>3, <1>5, <3>3
  <2>3. CASE IsSwitch(c)
    <3>1. p \in {q \in calls : q.id = c.parent}
      BY <1>8
    <3>2. p = Root \/ \E s \in syscalls : p = CallRow(s)
      BY <1>8, <2>3, <3>1, Callers, SwitchCallers
    <3> QED
      BY <1>3, <1>5, <1>6, <2>3, <3>2
  <2> QED
    BY <1>0, <1>1, <2>1, <2>2, <2>3
<1>9. up = Round(calls, up)
  BY <1>7, <1>8, HierarchyUnfolds
<1> HIDE DEF up
<1>10. \A c \in calls : /\ Alone(calls, c) => up[c] = <<c>>
                        /\ ~Alone(calls, c) => up[c] = <<c>> \o up[Caller(calls, c)]
  BY <1>9 DEF Round
<1>11. \A c \in calls : \A p :
         c.id # 0 /\ {q \in calls : q.id = c.parent} = {p} => up[c] = <<c>> \o up[p]
  BY <1>10 DEF Alone, Caller
<1>12. up[Root] = <<Root>>
  BY <1>0, <1>1, <1>10 DEF Alone
<1>13. ASSUME NEW s \in syscalls
       PROVE  /\ up[EntryRow(s)] = <<EntryRow(s), Root>>
              /\ up[DoRow(s)] = <<DoRow(s), EntryRow(s), Root>>
              /\ up[PathRow(s)] = <<PathRow(s), DoRow(s), EntryRow(s), Root>>
              /\ up[CallRow(s)] = <<CallRow(s), PathRow(s), DoRow(s), EntryRow(s), Root>>
  <2>1. \A c \in {EntryRow(s), DoRow(s), PathRow(s), CallRow(s)} : c \in calls /\ c.id # 0
    BY <1>2, <1>4 DEF RowsOf
  <2>2. /\ EntryRow(s).parent = 0 /\ DoRow(s).parent = IdAt(s.entry, 1)
        /\ PathRow(s).parent = IdAt(s.entry, 2) /\ CallRow(s).parent = IdAt(s.entry, 3)
    BY RowFields
  <2>3. up[EntryRow(s)] = <<EntryRow(s), Root>>
    <3>1. {q \in calls : q.id = EntryRow(s).parent} = {Root}
      BY <2>2, Callers
    <3>2. up[EntryRow(s)] = <<EntryRow(s)>> \o up[Root]
      BY <1>11, <2>1, <3>1
    <3>3. <<EntryRow(s)>> \o <<Root>> = <<EntryRow(s), Root>>
      BY Prefixed
    <3> QED
      BY <1>12, <3>2, <3>3
  <2>4. up[DoRow(s)] = <<DoRow(s), EntryRow(s), Root>>
    <3>1. {q \in calls : q.id = DoRow(s).parent} = {EntryRow(s)}
      BY <2>2, Callers
    <3>2. up[DoRow(s)] = <<DoRow(s)>> \o up[EntryRow(s)]
      BY <1>11, <2>1, <3>1
    <3>3. <<DoRow(s)>> \o <<EntryRow(s), Root>> = <<DoRow(s), EntryRow(s), Root>>
      BY Prefixed
    <3> QED
      BY <2>3, <3>2, <3>3
  <2>5. up[PathRow(s)] = <<PathRow(s), DoRow(s), EntryRow(s), Root>>
    <3>1. {q \in calls : q.id = PathRow(s).parent} = {DoRow(s)}
      BY <2>2, Callers
    <3>2. up[PathRow(s)] = <<PathRow(s)>> \o up[DoRow(s)]
      BY <1>11, <2>1, <3>1
    <3>3. <<PathRow(s)>> \o <<DoRow(s), EntryRow(s), Root>>
            = <<PathRow(s), DoRow(s), EntryRow(s), Root>>
      BY Prefixed
    <3> QED
      BY <2>4, <3>2, <3>3
  <2>6. up[CallRow(s)] = <<CallRow(s), PathRow(s), DoRow(s), EntryRow(s), Root>>
    <3>1. {q \in calls : q.id = CallRow(s).parent} = {PathRow(s)}
      BY <2>2, Callers
    <3>2. up[CallRow(s)] = <<CallRow(s)>> \o up[PathRow(s)]
      BY <1>11, <2>1, <3>1
    <3>3. <<CallRow(s)>> \o <<PathRow(s), DoRow(s), EntryRow(s), Root>>
            = <<CallRow(s), PathRow(s), DoRow(s), EntryRow(s), Root>>
      BY Prefixed
    <3> QED
      BY <2>5, <3>2, <3>3
  <2> QED
    BY <2>3, <2>4, <2>5, <2>6
<1>14. ASSUME NEW c \in calls, IsSwitch(c)
       PROVE  \/ up[c] = <<c, Root>>
              \/ up[c] = <<c>>
              \/ \E s \in syscalls :
                   /\ c.call_time \in s.entry .. s.exit /\ c.return_time = c.call_time
                   /\ up[c] = <<c, CallRow(s), PathRow(s), DoRow(s), EntryRow(s), Root>>
  <2>1. c.id # 0
    BY <1>14, SwitchCallers
  <2>2. CASE c.parent = 0
    <3>1. up[c] = <<c>> \o up[Root]
      BY <1>11, <2>1, <2>2, Callers
    <3> QED
      BY <1>12, <3>1, Prefixed
  <2>3. CASE {p \in calls : p.id = c.parent} = {}
    BY <1>10, <2>3 DEF Alone
  <2>4. ASSUME NEW s \in syscalls, c.parent = IdAt(s.entry, 4)
        PROVE  up[c] = <<c, CallRow(s), PathRow(s), DoRow(s), EntryRow(s), Root>>
    <3>1. {p \in calls : p.id = c.parent} = {CallRow(s)}
      BY <2>4, Callers
    <3>2. up[c] = <<c>> \o up[CallRow(s)]
      BY <1>11, <2>1, <3>1
    <3>3. <<c>> \o <<CallRow(s), PathRow(s), DoRow(s), EntryRow(s), Root>>
            = <<c, CallRow(s), PathRow(s), DoRow(s), EntryRow(s), Root>>
      BY Prefixed
    <3> QED
      BY <1>13, <3>2, <3>3
  <2> QED
    BY <1>14, <2>2, <2>3, <2>4, SwitchCallers
<1> QED
  BY <1>12, <1>13, <1>14 DEF up

\* what of a system call the view shows
LEMMA RowsInView ==
  ASSUME NEW v, v.start_ns \in Nat, v.start_ns > 0
  PROVE  /\ ~InView(Root, v)
         /\ \A s : /\ InView(EntryRow(s), v) <=> Between(s.entry, v) \/ Between(s.exit, v)
                   /\ \A c \in {DoRow(s), PathRow(s), CallRow(s)} :
                        InView(c, v) <=> Between(s.inner, v) \/ Between(s.back, v)
         /\ \A s \in syscalls : s \in Touching(v) <=> /\ InView(CallRow(s), v)
                                                      /\ InView(EntryRow(s), v)
<1>1. Root.call_time = 0 /\ Root.return_time = 0
  BY DEF Root
<1>2. ~InView(Root, v)
  BY <1>1 DEF InView, Between
<1>3. \A s : InView(EntryRow(s), v) <=> Between(s.entry, v) \/ Between(s.exit, v)
  BY RowFields DEF InView
<1>4. \A s : \A c \in {DoRow(s), PathRow(s), CallRow(s)} :
                InView(c, v) <=> Between(s.inner, v) \/ Between(s.back, v)
  <2> TAKE s
  <2>1. \A c \in {DoRow(s), PathRow(s), CallRow(s)} :
          c.call_time = s.inner /\ c.return_time = s.back
    BY RowFields
  <2> QED
    BY <2>1 DEF InView
<1> QED
  BY <1>2, <1>3, <1>4 DEF Touching

\* the filter finds the system calls that touch the view, and no other row when
\* none straddles a border
LEMMA Filtered ==
  ASSUME TimesInv, CallsInv, NEW v \in Views
  PROVE  /\ \A s \in Touching(v) : CallRow(s) \in Agged(calls, v)
         /\ Straddling(v) = {} =>
              \A c \in Agged(calls, v) : \E s \in Touching(v) : c = CallRow(s)
<1>0. /\ now \in Nat /\ v.start_ns \in Nat /\ v.start_ns > 0 /\ v.end_ns \in Nat
      /\ \A s \in syscalls : SyscallOK(s, now) /\ RowsOf(s) \subseteq calls
  BY DEF TimesInv, CallsInv, Views
<1> DEFINE up == Hierarchy(calls)
<1>1. ASSUME NEW s \in syscalls, NEW q, q = <<CallRow(s), PathRow(s), DoRow(s), EntryRow(s), Root>>
      PROVE  IsSyscall(q, v) <=> s \in Touching(v)
  <2>1. /\ DOMAIN q = 1 .. 5
        /\ q[1] = CallRow(s) /\ q[2] = PathRow(s) /\ q[3] = DoRow(s) /\ q[4] = EntryRow(s)
        /\ q[5] = Root
    BY <1>1
  <2>2. /\ InView(q[1], v) <=> InView(CallRow(s), v)
        /\ InView(q[2], v) <=> InView(CallRow(s), v)
        /\ InView(q[3], v) <=> InView(CallRow(s), v)
        /\ InView(q[4], v) <=> InView(EntryRow(s), v)
        /\ ~InView(q[5], v)
    BY <1>0, <2>1, RowsInView
  <2>3. /\ q[1].symbol = "the call" /\ q[2].symbol = "x64_sys_call"
        /\ q[3].symbol = "do_syscall_64" /\ q[4].symbol = "entry_SYSCALL_64"
    BY <2>1, RowFields
  <2>4. ASSUME s \in Touching(v) PROVE IsSyscall(q, v)
    <3>1. Shown(q, v) = 1 .. 4
      BY <1>0, <2>1, <2>2, <2>4, RowsInView DEF Shown
    <3>2. <<q[2].symbol, q[3].symbol, q[4].symbol>> = SyscallPath
      BY <2>3 DEF SyscallPath
    <3>3. 1 \in 1 .. 4 /\ 2 \in 1 .. 4 /\ 3 \in 1 .. 4 /\ 4 \in 1 .. 4
          /\ 1 < 2 /\ 2 < 3 /\ 3 < 4 /\ \A i \in 1 .. 4 : i <= 4 => i \in {1, 2, 3, 4}
      OBVIOUS
    <3> QED
      BY <3>1, <3>2, <3>3 DEF IsSyscall
  <2>5. ASSUME IsSyscall(q, v) PROVE s \in Touching(v)
    <3>1. PICK b \in Shown(q, v), d \in Shown(q, v) :
             q[b].symbol = "x64_sys_call" /\ q[d].symbol = "entry_SYSCALL_64"
      BY <2>5 DEF IsSyscall, SyscallPath
    <3>2. b \in {1, 2, 3, 4} /\ d \in {1, 2, 3, 4}
      BY <2>1, <2>2, <3>1 DEF Shown
    <3>3. b = 2 /\ d = 4
      BY <2>3, <3>1, <3>2
    <3> QED
      BY <1>0, <2>2, <3>1, <3>3, RowsInView DEF Shown
  <2> QED
    BY <2>4, <2>5
<1>2. ASSUME NEW q, DOMAIN q \subseteq 1 .. 3 PROVE ~IsSyscall(q, v)
  BY <1>2 DEF IsSyscall, Shown
<1>3. ASSUME NEW s \in syscalls, NEW q, q = <<PathRow(s), DoRow(s), EntryRow(s), Root>>
      PROVE  ~IsSyscall(q, v)
  <2>1. DOMAIN q = 1 .. 4 /\ q[4] = Root
    BY <1>3
  <2>2. Shown(q, v) \subseteq 1 .. 3
    BY <1>0, <2>1, RowsInView DEF Shown
  <2> QED
    BY <2>2 DEF IsSyscall
<1>4. ASSUME NEW s \in syscalls, NEW c \in calls, IsSwitch(c), Straddling(v) = {}, NEW q,
             c.call_time \in s.entry .. s.exit, c.return_time = c.call_time,
             q = <<c, CallRow(s), PathRow(s), DoRow(s), EntryRow(s), Root>>
      PROVE  ~IsSyscall(q, v)
  <2>1. /\ DOMAIN q = 1 .. 6
        /\ q[1] = c /\ q[2] = CallRow(s) /\ q[3] = PathRow(s) /\ q[4] = DoRow(s)
        /\ q[5] = EntryRow(s) /\ q[6] = Root
    BY <1>4
  <2>2. /\ InView(q[2], v) <=> InView(CallRow(s), v)
        /\ InView(q[3], v) <=> InView(CallRow(s), v)
        /\ InView(q[4], v) <=> InView(CallRow(s), v)
        /\ InView(q[5], v) <=> InView(EntryRow(s), v)
        /\ ~InView(q[6], v)
    BY <1>0, <2>1, RowsInView
  <2>3. /\ q[1].symbol = "switch_mm_irqs_off" \/ q[1].symbol = "prepare_task_switch"
        /\ q[2].symbol = "the call" /\ q[3].symbol = "x64_sys_call"
        /\ q[4].symbol = "do_syscall_64" /\ q[5].symbol = "entry_SYSCALL_64"
    BY <1>4, <2>1, RowFields, SwitchCallers
  <2> SUFFICES ASSUME IsSyscall(q, v) PROVE FALSE
    OBVIOUS
  <2>4. PICK a, b, c1, d \in Shown(q, v) :
           /\ a < b /\ b < c1 /\ c1 < d
           /\ \A i \in Shown(q, v) : i <= d => i \in {a, b, c1, d}
           /\ q[b].symbol = "x64_sys_call" /\ q[d].symbol = "entry_SYSCALL_64"
    BY DEF IsSyscall, SyscallPath
  <2>5. b = 3 /\ d = 5
    <3>1. b \in {1, 2, 3, 4, 5} /\ d \in {1, 2, 3, 4, 5}
      BY <2>1, <2>2, <2>4 DEF Shown
    <3> QED
      BY <2>3, <2>4, <3>1
  <2>6. InView(CallRow(s), v) /\ InView(EntryRow(s), v)
    BY <2>2, <2>4, <2>5 DEF Shown
  <2>7. Between(s.entry, v) /\ Between(s.exit, v)
    BY <1>0, <1>4, <2>6, RowsInView DEF Straddling, Between
  <2>8. InView(c, v)
    BY <1>0, <1>4, <2>7 DEF InView, Between, SyscallOK
  <2>9. 1 \in Shown(q, v) /\ 2 \in Shown(q, v)
    BY <2>1, <2>2, <2>6, <2>8 DEF Shown
  <2> QED
    BY <2>4, <2>5, <2>9 DEF Shown
<1>5. \A s \in Touching(v) : CallRow(s) \in Agged(calls, v)
  BY <1>0, <1>1, Hierarchies DEF Touching, Agged, RowsOf
<1>6. ASSUME Straddling(v) = {}, NEW c \in Agged(calls, v)
      PROVE  \E s \in Touching(v) : c = CallRow(s)
  <2>1. c \in calls /\ IsSyscall(up[c], v)
    BY DEF Agged
  <2> HIDE DEF up
  <2>2. c # Root
    <3>1. up[Root] = <<Root>>
      BY Hierarchies DEF up
    <3>2. DOMAIN up[Root] \subseteq 1 .. 3
      BY <3>1
    <3> QED
      BY <1>2, <2>1, <3>2
  <2>3. ASSUME NEW s \in syscalls, c \in RowsOf(s) PROVE \E r \in Touching(v) : c = CallRow(r)
    <3>1. c # EntryRow(s)
      <4>1. up[EntryRow(s)] = <<EntryRow(s), Root>>
        BY Hierarchies DEF up
      <4>2. DOMAIN up[EntryRow(s)] \subseteq 1 .. 3
        BY <4>1
      <4> QED
        BY <1>2, <2>1, <4>2
    <3>2. c # DoRow(s)
      <4>1. up[DoRow(s)] = <<DoRow(s), EntryRow(s), Root>>
        BY Hierarchies DEF up
      <4>2. DOMAIN up[DoRow(s)] \subseteq 1 .. 3
        BY <4>1
      <4> QED
        BY <1>2, <2>1, <4>2
    <3>3. c # PathRow(s)
      <4>1. up[PathRow(s)] = <<PathRow(s), DoRow(s), EntryRow(s), Root>>
        BY Hierarchies DEF up
      <4> QED
        BY <1>3, <2>1, <4>1
    <3>4. up[CallRow(s)] = <<CallRow(s), PathRow(s), DoRow(s), EntryRow(s), Root>>
      BY Hierarchies DEF up
    <3>5. c = CallRow(s)
      BY <2>3, <3>1, <3>2, <3>3 DEF RowsOf
    <3> QED
      BY <1>1, <2>1, <3>4, <3>5
  <2>4. ~IsSwitch(c)
    <3> SUFFICES ASSUME IsSwitch(c) PROVE FALSE
      OBVIOUS
    <3>1. up[c] # <<c, Root>>
      <4> SUFFICES ASSUME up[c] = <<c, Root>> PROVE FALSE
        OBVIOUS
      <4>1. DOMAIN up[c] \subseteq 1 .. 3
        OBVIOUS
      <4> QED
        BY <1>2, <2>1, <4>1
    <3>2. up[c] # <<c>>
      <4> SUFFICES ASSUME up[c] = <<c>> PROVE FALSE
        OBVIOUS
      <4>1. DOMAIN up[c] \subseteq 1 .. 3
        OBVIOUS
      <4> QED
        BY <1>2, <2>1, <4>1
    <3>3. PICK s \in syscalls :
             /\ c.call_time \in s.entry .. s.exit /\ c.return_time = c.call_time
             /\ up[c] = <<c, CallRow(s), PathRow(s), DoRow(s), EntryRow(s), Root>>
      BY <2>1, <3>1, <3>2, Hierarchies DEF up
    <3> QED
      BY <1>4, <1>6, <2>1, <3>3
  <2> QED
    BY <2>1, <2>2, <2>3, <2>4 DEF CallsInv
<1> QED
  BY <1>5, <1>6

\* the row of full_syscalls of a system call that touches the view
LEMMA ListedAs ==
  ASSUME TimesInv, CallsInv, NEW v \in Views, NEW s \in Touching(v)
  PROVE  [call_id |-> CallRow(s).id,
          call_time |-> IF InView(Entry(calls, CallRow(s)), v)
                        THEN Entry(calls, CallRow(s)).call_time ELSE NULL,
          return_time |-> IF InView(Entry(calls, CallRow(s)), v)
                          THEN Entry(calls, CallRow(s)).return_time ELSE NULL]
           = [call_id |-> s.id, call_time |-> s.entry, return_time |-> s.exit]
<1>1. s \in syscalls /\ SyscallOK(s, now) /\ v.start_ns \in Nat /\ v.start_ns > 0
  BY DEF Touching, TimesInv, Views
<1>2. Hierarchy(calls)[CallRow(s)] = <<CallRow(s), PathRow(s), DoRow(s), EntryRow(s), Root>>
  BY <1>1, Hierarchies
<1>3. Entry(calls, CallRow(s)) = EntryRow(s)
  BY <1>2 DEF Entry
<1>4. InView(EntryRow(s), v)
  BY <1>1, RowsInView
<1>5. CallRow(s).id = s.id /\ EntryRow(s).call_time = s.entry /\ EntryRow(s).return_time = s.exit
  BY <1>1, RowFields DEF SyscallOK
<1> QED
  BY <1>3, <1>4, <1>5

LEMMA ListedOf == TimesInv /\ CallsInv => SyscallsListed
<1> SUFFICES ASSUME TimesInv, CallsInv, NEW v \in Views
             PROVE  LET touching == {[call_id |-> s.id, call_time |-> s.entry,
                                      return_time |-> s.exit] : s \in Touching(v)}
                    IN /\ touching \subseteq FullSyscalls(calls, v)
                       /\ Straddling(v) = {} => FullSyscalls(calls, v) = touching
  BY DEF SyscallsListed
<1> DEFINE row(c) == [call_id |-> c.id,
                      call_time |-> IF InView(Entry(calls, c), v)
                                    THEN Entry(calls, c).call_time ELSE NULL,
                      return_time |-> IF InView(Entry(calls, c), v)
                                      THEN Entry(calls, c).return_time ELSE NULL]
           listed(s) == [call_id |-> s.id, call_time |-> s.entry, return_time |-> s.exit]
<1>1. FullSyscalls(calls, v) = {row(c) : c \in Agged(calls, v)}
  BY DEF FullSyscalls
<1>2. \A s \in Touching(v) : row(CallRow(s)) = listed(s)
  BY ListedAs
<1> HIDE DEF row, listed
<1>3. {listed(s) : s \in Touching(v)} \subseteq FullSyscalls(calls, v)
  BY <1>1, <1>2, Filtered
<1>4. ASSUME Straddling(v) = {}
      PROVE  FullSyscalls(calls, v) \subseteq {listed(s) : s \in Touching(v)}
  BY <1>1, <1>2, <1>4, Filtered
<1> QED
  BY <1>3, <1>4 DEF listed

(* The system calls that touch the view are listed, each with the times of   *)
(* its entry; and nothing else is, when none straddles a border of the view  *)
(* (events_prep, util.py:281).                                               *)
THEOREM SyscallsListedCorrect == Spec => []SyscallsListed
BY SyscallsCorrect, ListedOf, PTL DEF SyscallsInv

-----------------------------------------------------------------------------
\* every switch of the address space in the view is a switch point, and nothing
\* else is
LEMMA PointsOfSwitches ==
  ASSUME TimesInv, CallsInv, NEW v \in Views
  PROVE  /\ \A time : SwitchedAt(time) /\ Between(time, v)
                        => [time |-> time, call_id |-> NULL] \in SwitchPoints(calls, v)
         /\ \A p \in SwitchPoints(calls, v) : SwitchedAt(p.time)
<1>0. now \in Nat /\ v.start_ns \in Nat /\ v.start_ns > 0
  BY DEF TimesInv, Views
<1>1. ASSUME NEW time, SwitchedAt(time)
      PROVE  time \in {c.smio.time : c \in ContextSwitches(calls)}
  <2>1. PICK c \in calls : c.symbol = "switch_mm_irqs_off" /\ c.call_time = time
    BY <1>1 DEF SwitchedAt
  <2>2. PICK t \in 1 .. now : c = SpaceRow(t, c.parent) /\ TaskRow(t, c.parent) \in calls
    BY <2>1, SpaceSwitches
  <2> DEFINE p == TaskRow(t, c.parent)
             s == [time |-> c.call_time, id |-> c.id]
  <2>3. c.call_time = t + 1 /\ p.call_time = t /\ p.symbol = "prepare_task_switch"
    BY <2>2 DEF SpaceRow, TaskRow
  <2>4. s \in SwitchMm(calls)
    BY <2>1 DEF SwitchMm, CallsOf
  <2>5. \A r \in SwitchMm(calls) : r.time \in Nat
    BY <1>0, SpaceSwitches DEF SwitchMm, CallsOf, SpaceRow
  <2>6. s \in After(SwitchMm(calls), p.call_time)
    <3>1. s.time = t + 1
      BY <2>3
    <3>2. \A r \in SwitchMm(calls) : r.time > t => t + 1 <= r.time
      BY <1>0, <2>5
    <3> HIDE DEF s, p
    <3> QED
      BY <1>0, <2>3, <2>4, <3>1, <3>2 DEF After
  <2>7. s.time = time
    BY <2>1
  <2>8. p \in CallsOf(calls, "prepare_task_switch")
    BY <2>2, <2>3 DEF CallsOf
  <2> HIDE DEF s, p
  <2>9. [pts |-> p, smio |-> s] \in ContextSwitches(calls)
    <3> DEFINE next == After(SwitchMm(calls), p.call_time)
               rows == IF next = {} THEN {[time |-> NULL, id |-> NULL]} ELSE next
    <3>1. s \in rows
      BY <2>6
    <3> HIDE DEF rows
    <3>2. [pts |-> p, smio |-> s] \in {[pts |-> p, smio |-> r] : r \in rows}
      BY <3>1
    <3> QED
      BY <2>8, <3>2 DEF ContextSwitches, rows
  <2> QED
    BY <2>7, <2>9
<1>2. ASSUME NEW c \in ContextSwitches(calls), c.smio.time # NULL PROVE SwitchedAt(c.smio.time)
  <2>1. PICK p \in CallsOf(calls, "prepare_task_switch") :
          LET next == After(SwitchMm(calls), p.call_time) IN
          c \in {[pts |-> p, smio |-> s] :
                   s \in IF next = {} THEN {[time |-> NULL, id |-> NULL]} ELSE next}
    BY DEF ContextSwitches
  <2>2. c.smio \in SwitchMm(calls)
    BY <1>2, <2>1 DEF After
  <2> QED
    BY <2>2 DEF SwitchMm, CallsOf, SwitchedAt
<1>3. ~Between(NULL, v)
  BY <1>0 DEF Between, NULL
<1>4. \A p \in SwitchPoints(calls, v) : SwitchedAt(p.time)
  BY <1>2, <1>3 DEF SwitchPoints
<1>5. \A time : SwitchedAt(time) /\ Between(time, v)
                  => [time |-> time, call_id |-> NULL] \in SwitchPoints(calls, v)
  BY <1>1 DEF SwitchPoints
<1> QED
  BY <1>4, <1>5

LEMMA DrawnOf == SyscallsInv => StretchesDrawn
<1> SUFFICES ASSUME SyscallsInv, NEW v \in Views, NEW x \in stretches, Straddling(v) = {},
                    x.id \in {f.call_id : f \in FullSyscalls(calls, v)}
             PROVE  \E r \in OnCpuSyscalls(calls, v) : r.start.time = x.from /\ r.end.time = x.to
  BY DEF StretchesDrawn
<1>0. /\ TimesInv /\ CallsInv /\ IsStretch(x)
      /\ now \in Nat /\ v.start_ns \in Nat /\ v.end_ns \in Nat /\ v.start_ns > 0
      /\ Begun \subseteq 1 .. now
      /\ \A s \in syscalls : SyscallOK(s, now)
  BY BegunStep DEF SyscallsInv, StretchesInv, TimesInv, Views
<1> DEFINE listed(s) == [call_id |-> s.id, call_time |-> s.entry, return_time |-> s.exit]
<1>1. FullSyscalls(calls, v) = {listed(s) : s \in Touching(v)}
  BY <1>0, ListedOf DEF SyscallsListed
<1>2. PICK s \in Touching(v) : s.id = x.id
  BY <1>1
<1>3. s \in syscalls /\ SyscallOK(s, now) /\ Between(s.entry, v) /\ Between(s.exit, v)
  BY <1>0, <1>2 DEF Touching, Straddling, Between
<1>4. /\ x.from \in Nat /\ x.to \in Nat /\ x.from < x.to /\ Undisturbed(x.from, x.to)
      /\ s.entry <= x.from /\ x.to <= s.exit
      /\ x.from = s.entry \/ SwitchedAt(x.from)
      /\ x.to = s.exit \/ SwitchedAt(x.to)
  <2>1. PICK e \in Begun :
          /\ x.id = IdAt(e, 4)
          /\ e <= x.from
          /\ x.from = e \/ SwitchedAt(x.from)
          /\ SwitchedAt(x.to) \/ \E r \in syscalls : r.entry = e /\ r.exit = x.to
          /\ \A r \in syscalls : r.entry = e => x.to <= r.exit
    BY <1>0 DEF IsStretch
  <2>2. s.entry = e
    <3>1. e \in Nat
      BY <1>0
    <3>2. s.entry \in Nat /\ s.id = IdAt(s.entry, 4)
      BY <1>0, <1>3 DEF SyscallOK
    <3>3. IdAt(s.entry, 4) = IdAt(e, 4)
      BY <1>2, <2>1, <3>2
    <3> QED
      BY <3>1, <3>2, <3>3, IdsDiffer
  <2> QED
    BY <1>0, <1>3, <2>1, <2>2 DEF IsStretch, TimesInv
<1>5. Between(x.from, v) /\ Between(x.to, v)
  BY <1>0, <1>3, <1>4 DEF Between, SyscallOK
<1>6. PICK start \in RangeStarts(calls, v) : start.time = x.from
  <2>1. CASE x.from = s.entry
    <3> DEFINE start == [time |-> listed(s).call_time, call_id |-> listed(s).call_id]
    <3>1. start \in RangeStarts(calls, v)
      BY <1>1 DEF RangeStarts
    <3>2. start.time = x.from
      BY <2>1
    <3> QED
      BY <3>1, <3>2
  <2>2. CASE SwitchedAt(x.from)
    <3> DEFINE start == [time |-> x.from, call_id |-> NULL]
    <3>1. start \in SwitchPoints(calls, v)
      BY <1>0, <1>5, <2>2, PointsOfSwitches
    <3>2. start.time = x.from
      OBVIOUS
    <3> HIDE DEF start
    <3> QED
      BY <3>1, <3>2 DEF RangeStarts
  <2> QED
    BY <1>4, <2>1, <2>2
<1>7. PICK end \in RangeEnds(calls, v) : end.time = x.to
  <2>1. CASE x.to = s.exit
    <3> DEFINE end == [time |-> listed(s).return_time, call_id |-> listed(s).call_id]
    <3>1. end \in RangeEnds(calls, v)
      BY <1>1 DEF RangeEnds
    <3>2. end.time = x.to
      BY <2>1
    <3> QED
      BY <3>1, <3>2
  <2>2. CASE SwitchedAt(x.to)
    <3> DEFINE end == [time |-> x.to, call_id |-> NULL]
    <3>1. end \in SwitchPoints(calls, v)
      BY <1>0, <1>5, <2>2, PointsOfSwitches
    <3>2. end.time = x.to
      OBVIOUS
    <3> HIDE DEF end
    <3> QED
      BY <3>1, <3>2 DEF RangeEnds
  <2> QED
    BY <1>4, <2>1, <2>2
<1>8. ASSUME NEW r \in RangeEnds(calls, v), r.time > x.from PROVE x.to <= r.time
  <2>1. CASE r \in SwitchPoints(calls, v)
    <3>1. PICK c \in calls : c.symbol = "switch_mm_irqs_off" /\ c.call_time = r.time
      BY <1>0, <2>1, PointsOfSwitches DEF SwitchedAt
    <3>2. c.call_time \in Nat
      BY <1>0, <3>1, SpaceSwitches DEF SpaceRow
    <3> QED
      BY <1>4, <1>8, <3>1, <3>2 DEF Undisturbed
  <2>2. CASE r \notin SwitchPoints(calls, v)
    <3>1. PICK f \in FullSyscalls(calls, v) : r = [time |-> f.return_time, call_id |-> f.call_id]
      BY <2>2 DEF RangeEnds
    <3>2. PICK u \in Touching(v) : f = listed(u)
      BY <1>1, <3>1
    <3>3. r.time = u.exit /\ u \in syscalls /\ u.exit \in Nat
      BY <1>0, <3>1, <3>2 DEF Touching, SyscallOK
    <3> QED
      BY <1>4, <1>8, <3>3 DEF Undisturbed
  <2> QED
    BY <2>1, <2>2
<1>9. end \in After(RangeEnds(calls, v), start.time)
  BY <1>4, <1>6, <1>7, <1>8 DEF After
<1>10. [start |-> start, end |-> end] \in OnCpuSyscalls(calls, v)
  BY <1>9 DEF OnCpuSyscalls
<1> QED
  BY <1>6, <1>7, <1>10

(* In a view that no system call straddles, every stretch for which a listed *)
(* system call was on the CPU is drawn from where it got the CPU to where it *)
(* lost it (on_cpu_syscalls, util.py:401).                                   *)
THEOREM StretchesDrawnCorrect == Spec => []StretchesDrawn
BY SyscallsCorrect, DrawnOf, PTL

-----------------------------------------------------------------------------
(* The table context_switches.                                              *)

LEMMA TaskSwitches ==
  ASSUME TimesInv, CallsInv, NEW c \in calls, c.symbol = "prepare_task_switch"
  PROVE  \E t \in 1 .. now : /\ t + 1 <= now
                             /\ c = TaskRow(t, c.parent)
                             /\ SpaceRow(t, c.parent) \in calls
<1>1. IsSwitch(c)
  <2>1. Root.symbol # "prepare_task_switch"
    BY DEF Root
  <2> QED
    BY <2>1, RowFields DEF CallsInv
<1> QED
  BY <1>1 DEF IsSwitch, SpaceRow

\* the row that follows a task switch in time is its own
LEMMA NextSpace ==
  ASSUME TimesInv, CallsInv, NEW c \in calls, c.symbol = "prepare_task_switch"
  PROVE  After(SwitchMm(calls), c.call_time) = {[time |-> c.call_time + 1, id |-> c.id + 1]}
<1>0. now \in Nat
  BY DEF TimesInv
<1>1. PICK t \in 1 .. now : /\ c = TaskRow(t, c.parent)
                            /\ SpaceRow(t, c.parent) \in calls
  BY TaskSwitches
<1> DEFINE s == [time |-> t + 1, id |-> IdAt(t, 1)]
<1>2. c.call_time = t /\ c.id = IdAt(t, 0) /\ t \in Nat
  BY <1>0, <1>1 DEF TaskRow
<1>3. s \in SwitchMm(calls)
  <2>1. PICK d \in calls : d = SpaceRow(t, c.parent)
    BY <1>1
  <2>2. d.symbol = "switch_mm_irqs_off" /\ d.call_time = t + 1 /\ d.id = IdAt(t, 1)
    BY <2>1 DEF SpaceRow
  <2> QED
    BY <2>2 DEF SwitchMm, CallsOf
<1>4. ASSUME NEW r \in SwitchMm(calls)
      PROVE  \E u \in Nat : r = [time |-> u + 1, id |-> IdAt(u, 1)]
  <2>1. PICK d \in calls : d.symbol = "switch_mm_irqs_off" /\ r = [time |-> d.call_time, id |-> d.id]
    BY DEF SwitchMm, CallsOf
  <2>2. PICK u \in 1 .. now : d = SpaceRow(u, d.parent)
    BY <2>1, SpaceSwitches
  <2>3. d.call_time = u + 1 /\ d.id = IdAt(u, 1)
    BY <2>2 DEF SpaceRow
  <2> QED
    BY <1>0, <2>1, <2>3
<1>5. s.time = t + 1
  OBVIOUS
<1>6. s \in After(SwitchMm(calls), t)
  <2>1. \A r \in SwitchMm(calls) : r.time > t => t + 1 <= r.time
    BY <1>2, <1>4
  <2> HIDE DEF s
  <2> QED
    BY <1>2, <1>3, <1>5, <2>1 DEF After
<1>7. ASSUME NEW r \in After(SwitchMm(calls), t)
      PROVE  r = s
  <2>1. r \in SwitchMm(calls) /\ r.time > t /\ r.time <= t + 1
    BY <1>2, <1>3, <1>5, <1>7 DEF After
  <2>2. PICK u \in Nat : r = [time |-> u + 1, id |-> IdAt(u, 1)]
    BY <1>4, <2>1
  <2>3. u + 1 > t /\ u + 1 <= t + 1
    BY <2>1, <2>2
  <2>4. u = t
    BY <1>2, <2>3
  <2> QED
    BY <2>2, <2>4
<1>8. After(SwitchMm(calls), t) = {s}
  BY <1>6, <1>7
<1>9. s = [time |-> c.call_time + 1, id |-> c.id + 1]
  BY <1>2 DEF IdAt
<1> QED
  BY <1>2, <1>8, <1>9

(* Every switch of the CPU is a row of context_switches and nothing else is, *)
(* and the row joins the two calls of this very switch.                      *)
SwitchesPair ==
    ContextSwitches(calls) = {[pts |-> c, smio |-> [time |-> c.call_time + 1, id |-> c.id + 1]] :
                                c \in CallsOf(calls, "prepare_task_switch")}

LEMMA PairsOf == TimesInv /\ CallsInv => SwitchesPair
<1> SUFFICES ASSUME TimesInv, CallsInv PROVE SwitchesPair
  OBVIOUS
<1> DEFINE mm(c) == [time |-> c.call_time + 1, id |-> c.id + 1]
           next(c) == After(SwitchMm(calls), c.call_time)
           joined(c) == {[pts |-> c, smio |-> s] :
                           s \in IF next(c) = {} THEN {[time |-> NULL, id |-> NULL]} ELSE next(c)}
           tasks == CallsOf(calls, "prepare_task_switch")
<1>1. ContextSwitches(calls) = UNION {joined(c) : c \in tasks}
  BY DEF ContextSwitches
<1>2. ASSUME NEW c \in tasks
      PROVE  joined(c) = {[pts |-> c, smio |-> mm(c)]}
  <2>1. next(c) = {mm(c)}
    BY NextSpace DEF CallsOf
  <2> HIDE DEF next, mm
  <2> QED
    BY <2>1
<1> HIDE DEF joined, tasks, mm
<1>3. UNION {joined(c) : c \in tasks} = {[pts |-> c, smio |-> mm(c)] : c \in tasks}
  BY <1>2
<1> QED
  BY <1>1, <1>3 DEF SwitchesPair, mm, tasks

(* The ASOF join of the two halves of a switch (events_prep, util.py:281)    *)
(* never pairs a task switch with the change of address space of a later     *)
(* one, and leaves none unpaired, on a CPU without an idle thread.           *)
THEOREM SwitchesPairCorrect == Spec => []SwitchesPair
BY SyscallsCorrect, PairsOf, PTL DEF SyscallsInv

-----------------------------------------------------------------------------
(* Types *)

\* what the invariants above do not say
ClockInv == now \in 0 .. MaxTime

LEMMA ClockStep ==
  ASSUME ClockInv, [Next]_vars
  PROVE  ClockInv'
<1>1. now' = now \/ (now' = now + 2 /\ now + 2 <= MaxTime)
  BY DEF Next, Samples, Calls, SyscallNext, EnterSyscall, ReturnFromSyscall, SwitchThreads,
         sysVars, vars
<1> QED
  BY <1>1, SyscallAssumption DEF ClockInv

LEMMA TypesOf == RangesInv /\ SyscallsInv /\ ClockInv => TypeOK
<1> SUFFICES ASSUME RangesInv, SyscallsInv, ClockInv
             PROVE  TimelineTypeOK /\ SyscallTypeOK
  BY DEF TypeOK
<1>1. TimelineTypeOK
  BY DEF RangesInv, Ordered, TimelineTypeOK
<1>2. TimesInv /\ CallsInv /\ StretchesInv /\ now \in Nat
  BY DEF SyscallsInv, TimesInv
<1>3. \A t \in Threads : open[t] = NoCall \/ open[t].entry <= now
  BY <1>2 DEF TimesInv, OpenOK
<1>4. ASSUME NEW c \in calls
      PROVE  c.call_time <= c.return_time /\ c.return_time <= now
  <2>1. CASE c = Root
    BY <1>2, <2>1 DEF Root
  <2>2. ASSUME NEW s \in syscalls, c \in RowsOf(s)
        PROVE  c.call_time <= c.return_time /\ c.return_time <= now
    <3>1. SyscallOK(s, now)
      BY <1>2 DEF TimesInv
    <3>2. \/ c.call_time = s.entry /\ c.return_time = s.exit
          \/ c.call_time = s.inner /\ c.return_time = s.back
      BY <2>2, RowFields DEF RowsOf
    <3> QED
      BY <1>2, <3>1, <3>2 DEF SyscallOK
  <2>3. CASE IsSwitch(c)
    <3>1. PICK t \in 1 .. now : t + 1 <= now /\ (c = TaskRow(t, c.parent) \/ c = SpaceRow(t, c.parent))
      BY <2>3 DEF IsSwitch
    <3>2. \/ c.call_time = t /\ c.return_time = t
          \/ c.call_time = t + 1 /\ c.return_time = t + 1
      BY <3>1 DEF TaskRow, SpaceRow
    <3> QED
      BY <1>2, <3>1, <3>2
  <2> QED
    BY <1>2, <2>1, <2>2, <2>3 DEF CallsInv
<1>5. \A s \in stretches : s.from < s.to /\ s.to <= now
  BY <1>2 DEF StretchesInv, IsStretch
<1> QED
  BY <1>1, <1>2, <1>3, <1>4, <1>5 DEF SyscallTypeOK, TimesInv, ClockInv

(* Type correctness of both timelines: ranges are ranges, every call and     *)
(* every stretch ends after it began and not in the future.                 *)
THEOREM TypeCorrect == Spec => []TypeOK
<1>1. Init => ClockInv
  BY SyscallAssumption DEF Init, SyscallInit, ClockInv
<1>2. ClockInv /\ [Next]_vars => ClockInv'
  BY ClockStep
<1> QED
  BY <1>1, <1>2, TypesOf, RangesCorrect, SyscallsCorrect, PTL DEF Spec

=============================================================================
