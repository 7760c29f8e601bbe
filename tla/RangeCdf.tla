-------------------------------- MODULE RangeCdf --------------------------------
(***************************************************************************)
(* SqlUtil.cdf_prep of intel_proc_trace/iptdataframes/util.py: the ranges   *)
(* that count for the distribution of durations, samples_for_cdf, without   *)
(* the longest ones.  r is the table timestamped_ranges.  Ratios are kept   *)
(* as their numerators.  The distribution itself, range_cdf, is left out.   *)
(* Definitions named Mut... are wrong on purpose, to test the properties.   *)
(***************************************************************************)
EXTENDS TimestampedRanges, FiniteSets, Functions

CONSTANTS DiscardNum, DiscardDen  \* cumulative_longest_time_to_discard

ASSUME DiscardAssumption == /\ DiscardNum \in Nat
                            /\ DiscardDen \in Nat \ {0}
                            /\ DiscardNum < DiscardDen

\* the cycles of the ranges in S
Cycles(r, S) == SumFunctionOnSet([i \in DOMAIN r |-> r[i].cyc_count], S)

\* WHERE branch_type_name <> 'trace begin'
Considered(r) == {i \in DOMAIN r : ~r[i].trace_begin}

\* sum(cyc_count) OVER (ORDER BY cyc_count DESC): the frame takes in all peers
MutCumFromShortest(r, i) ==
    Cycles(r, {j \in Considered(r) : r[j].cyc_count <= r[i].cyc_count})
CumCycles(r, i) == Cycles(r, {j \in Considered(r) : r[j].cyc_count >= r[i].cyc_count})

\* the view samples_for_cdf
SamplesForCdf(r) ==
    {i \in Considered(r) : CumCycles(r, i) * DiscardDen > DiscardNum * Cycles(r, Considered(r))}

=============================================================================
