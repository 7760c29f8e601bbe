-------------------------- MODULE TimestampedRanges --------------------------
(***************************************************************************)
(* intel_proc_trace/sql/timestamped_ranges.sql: adjacent samples that carry *)
(* a cycle or instruction count are turned into ranges; the end of a range  *)
(* belongs to it, its start belongs to the range before.  Every window      *)
(* function of the script looks back only ("order by id range unbounded     *)
(* preceding", lag), so that one more sample adds at most one row to the    *)
(* table and changes none: the table is a sequence that grows.              *)
(***************************************************************************)
EXTENDS Integers, Sequences

\* what a sample row of the database says; trace_begin: branch_type_name =
\* 'trace begin', the first sample after the trace was interrupted
Sample == [time : Nat, insn_count : Nat, cyc_count : Nat, trace_begin : BOOLEAN]

TimestampedRange == [end_time : Nat, end_cum_cyc : Nat, end_cum_insns : Nat,
                     insn_count : Nat, cyc_count : Nat, trace_begin : BOOLEAN]

Timestamped(s) == s.insn_count > 0 \/ s.cyc_count > 0

CumCyc(r) == IF r = <<>> THEN 0 ELSE r[Len(r)].end_cum_cyc
CumInsns(r) == IF r = <<>> THEN 0 ELSE r[Len(r)].end_cum_insns

\* the row of a timestamped sample that follows the ranges r
RangeOf(r, s) ==
    [end_time |-> s.time,
     end_cum_cyc |-> CumCyc(r) + s.cyc_count,
     end_cum_insns |-> CumInsns(r) + s.insn_count,
     insn_count |-> s.insn_count,
     cyc_count |-> s.cyc_count,
     trace_begin |-> s.trace_begin]

AddSample(r, s) == IF Timestamped(s) THEN Append(r, RangeOf(r, s)) ELSE r

=============================================================================
