----------------------------- MODULE SlidingWindow -----------------------------
(***************************************************************************)
(* SqlUtil.time_series_prep of intel_proc_trace/iptdataframes/util.py: the  *)
(* average of instructions per cycle over a window of w cycles that slides  *)
(* over the trace, whose samples say how many instructions ran between two  *)
(* points but not when.  The table ipc_spans has one row per position at    *)
(* which the set of ranges under the window changes, with bounds that hold  *)
(* for every position since the row before.                                 *)
(*                                                                         *)
(* r is the table timestamped_ranges, a row of which is named by its        *)
(* position; w is the window size in cycles.  Quotients are kept as their   *)
(* numerators: every IPC below is to be divided by w.                       *)
(* Definitions named Mut... are wrong on purpose, to test the properties.   *)
(***************************************************************************)
EXTENDS TimestampedRanges, FiniteSets

\* ASOF JOIN: of the rows in S the one with the nearest, here the smallest, end
Nearest(r, S) == CHOOSE i \in S : \A j \in S : r[i].end_cum_cyc <= r[j].end_cum_cyc

\* the range under the first cycle of the window that ends with range l
TrailingCandidates(r, l, w) == {i \in DOMAIN r : r[i].end_cum_cyc > r[l].end_cum_cyc - w}

\* the range under the last cycle of the window that begins with the last cycle
\* of range t
MutLeadingStrict(r, t, w) == {i \in DOMAIN r : r[i].end_cum_cyc > r[t].end_cum_cyc + w - 1}
LeadingCandidates(r, t, w) == {i \in DOMAIN r : r[i].end_cum_cyc >= r[t].end_cum_cyc + w - 1}

\* this range is the leading edge of the window
LeadingWindow(r, l, w) ==
    LET t == Nearest(r, TrailingCandidates(r, l, w)) IN
    [side |-> "leading", leading |-> l, trailing |-> t,
     window_end |-> r[l].end_cum_cyc,
     window_start |-> r[l].end_cum_cyc - (w - 1),
     is_single_range |-> r[l].end_cum_cyc = r[t].end_cum_cyc,
     is_span_aliased |-> r[l].end_cum_cyc - (w - 1) = r[t].end_cum_cyc]

\* this range is the trailing edge of the window, at a synthesized point
TrailingWindow(r, t, w) ==
    LET l == Nearest(r, LeadingCandidates(r, t, w)) IN
    [side |-> "trailing", leading |-> l, trailing |-> t,
     window_end |-> r[t].end_cum_cyc + w - 1,
     window_start |-> r[t].end_cum_cyc,
     is_single_range |-> FALSE,
     is_span_aliased |-> r[t].end_cum_cyc + w - 1 = r[l].end_cum_cyc]

\* the table sliding_window: a LEFT JOIN on the leading side (the range itself
\* always matches) and an inner join on the trailing side
Windows(r, w) ==
    {LeadingWindow(r, l, w) : l \in DOMAIN r}
      \cup {TrailingWindow(r, t, w) : t \in {i \in DOMAIN r : LeadingCandidates(r, i, w) # {}}}

\* the rows of ipc_spans: of the two sides that give the same span keep one
Spans(r, w) == {s \in Windows(r, w) : ~(s.side = "trailing" /\ s.is_span_aliased)}

-----------------------------------------------------------------------------
(* Instructions and cycles of the trailing, leading and interior ranges at   *)
(* the last position of span s.  A window inside one range counts it as the  *)
(* trailing one.                                                             *)

MutTrailingCyc(r, s) == r[s.trailing].end_cum_cyc - s.window_start
TrailingCyc(r, s) == r[s.trailing].end_cum_cyc - s.window_start + 1

LeadingInsns(r, s) == IF s.is_single_range THEN 0 ELSE r[s.leading].insn_count
LeadingCyc(r, s) ==
    IF s.is_single_range THEN 0
    ELSE r[s.leading].cyc_count - (r[s.leading].end_cum_cyc - s.window_end)

MutInteriorInsns(r, s) == r[s.leading].end_cum_insns - r[s.trailing].end_cum_insns
InteriorInsns(r, s) ==
    IF s.is_single_range THEN 0
    ELSE (r[s.leading].end_cum_insns - r[s.leading].insn_count) - r[s.trailing].end_cum_insns

Optimistic(r, s) == r[s.trailing].insn_count + LeadingInsns(r, s) + InteriorInsns(r, s)
Conservative(r, s) == InteriorInsns(r, s)

\* end_linear_interp_ipc, times w and times the common denominator d: a range
\* only part of whose cycles are in the window counts in proportion
LinearInterp(r, s, d) ==
    LET share(i, insns, cyc) == (insns * cyc * d) \div r[i].cyc_count IN
    share(s.trailing, r[s.trailing].insn_count, TrailingCyc(r, s))
      + share(s.leading, LeadingInsns(r, s), LeadingCyc(r, s))
      + InteriorInsns(r, s) * d

\* span_start_cyc: LAG(window_end_cum_cyc) over the rows by their end; the first
\* row has no width
SpanStart(r, w, s) ==
    LET before == {q.window_end : q \in {p \in Spans(r, w) : p.window_end < s.window_end}} IN
    IF before = {} THEN s.window_end
    ELSE CHOOSE e \in before : \A f \in before : f <= e

=============================================================================
