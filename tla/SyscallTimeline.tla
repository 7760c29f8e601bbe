---------------------------- MODULE SyscallTimeline ----------------------------
(***************************************************************************)
(* SqlUtil.events_prep of intel_proc_trace/iptdataframes/util.py: from the  *)
(* calls of a traced CPU to the system calls that touch the plotted window   *)
(* of time (the view, start_ns to end_ns), to the context switches, and to   *)
(* the stretches for which a system call was on the CPU.                     *)
(*                                                                         *)
(* The machine below is the traced CPU: two threads that enter, leave and    *)
(* lose the CPU in user mode or within a system call; it is external.  What  *)
(* the code computes from its calls is a set of operators over the table.    *)
(* Definitions named Mut... are wrong on purpose, to test the properties.   *)
(***************************************************************************)
EXTENDS Integers, Sequences, FiniteSets

CONSTANTS Preemption,   \* whether an interrupt may take the CPU from user code
          MaxTime       \* bound on the length of the trace

ASSUME SyscallAssumption == Preemption \in BOOLEAN /\ MaxTime \in Nat

VARIABLES now,       \* the last timestamp
          running,   \* the thread on the CPU
          open,      \* the system call a thread is in
          calls,     \* the table calls: what has returned
          syscalls,  \* what really happened: the system calls that returned
          stretches  \* and the stretches for which one was on the CPU

sysVars == <<now, running, open, calls, syscalls, stretches>>

Threads == 1 .. 2
Other(t) == 3 - t
NoCall == [entry |-> 0, inner |-> 0, since |-> 0]

\* row 0 stands for what is unknown; it is its own parent
Root == [id |-> 0, parent |-> 0, symbol |-> "unknown", call_time |-> 0, return_time |-> 0]

SyscallPath == <<"x64_sys_call", "do_syscall_64", "entry_SYSCALL_64">>

NULL == -1

-----------------------------------------------------------------------------
(* The table full_syscalls.  v is the view.                                  *)

\* call_hierarchy: a call, its caller, and so on up to row 0
Hierarchy(T) ==
    LET up[c \in T] ==
          LET parents == {p \in T : p.id = c.parent} IN
          IF c.id = 0 \/ parents = {} THEN <<c>>
          ELSE <<c>> \o up[CHOOSE p \in parents : TRUE]
    IN up

Between(time, v) == v.start_ns <= time /\ time <= v.end_ns
MutInView(c, v) == Between(c.call_time, v)
InView(c, v) == Between(c.call_time, v) \/ Between(c.return_time, v)

Shown(q, v) == {i \in DOMAIN q : InView(q[i], v)}

\* list_slice(symbol_list, 2, 4): of the rows shown, by their depth, the second
\* to the fourth
IsSyscall(q, v) == \E a, b, c, d \in Shown(q, v) :
    /\ a < b /\ b < c /\ c < d
    /\ \A i \in Shown(q, v) : i <= d => i \in {a, b, c, d}
    /\ <<q[b].symbol, q[c].symbol, q[d].symbol>> = SyscallPath

\* the calls that are a system call's own function, as far as the view shows
Agged(T, v) ==
    LET up == Hierarchy(T) IN {c \in T : IsSyscall(up[c], v)}

Entry(T, c) == Hierarchy(T)[c][4]   \* depth = 3

FullSyscalls(T, v) ==
    {[call_id |-> c.id,
      call_time |-> IF InView(Entry(T, c), v) THEN Entry(T, c).call_time ELSE NULL,
      return_time |-> IF InView(Entry(T, c), v) THEN Entry(T, c).return_time ELSE NULL] :
        c \in Agged(T, v)}

-----------------------------------------------------------------------------
(* The tables context_switches and on_cpu_syscalls.                          *)

CallsOf(T, name) == {c \in T : c.symbol = name}

\* ASOF: the first row of S after the given time
MutAfter(S, time) ==
    {s \in S : s.time >= time /\ \A r \in S : r.time >= time => s.time <= r.time}
After(S, time) ==
    {s \in S : s.time > time /\ \A r \in S : r.time > time => s.time <= r.time}

SwitchMm(T) == {[time |-> c.call_time, id |-> c.id] : c \in CallsOf(T, "switch_mm_irqs_off")}

\* LEFT JOIN: a task switch that no change of address space follows keeps NULL
ContextSwitches(T) ==
    UNION {LET next == After(SwitchMm(T), p.call_time) IN
           {[pts |-> p, smio |-> s] :
              s \in IF next = {} THEN {[time |-> NULL, id |-> NULL]} ELSE next} :
           p \in CallsOf(T, "prepare_task_switch")}

SwitchPoints(T, v) ==
    {[time |-> t, call_id |-> NULL] :
       t \in {x \in {c.smio.time : c \in ContextSwitches(T)} : Between(x, v)}}

RangeStarts(T, v) ==
    SwitchPoints(T, v) \cup
      {[time |-> s.call_time, call_id |-> s.call_id] : s \in FullSyscalls(T, v)}
RangeEnds(T, v) ==
    SwitchPoints(T, v) \cup
      {[time |-> s.return_time, call_id |-> s.call_id] : s \in FullSyscalls(T, v)}

MutOnCpuSyscalls(T, v) ==
    UNION {{[start |-> s, end |-> e] : e \in MutAfter(RangeEnds(T, v), s.time)} :
             s \in RangeStarts(T, v)}
OnCpuSyscalls(T, v) ==
    UNION {{[start |-> s, end |-> e] : e \in After(RangeEnds(T, v), s.time)} :
             s \in RangeStarts(T, v)}

\* the rows the assertion after the query looks for
Inconsistent(T, v) ==
    {r \in OnCpuSyscalls(T, v) :
        /\ Between(r.start.time, v) \/ Between(r.end.time, v)
        /\ \/ r.start.call_id = NULL /\ r.end.call_id = NULL
           \/ r.start.call_id # NULL /\ r.end.call_id # NULL /\ r.start.call_id # r.end.call_id}

-----------------------------------------------------------------------------
SyscallTypeOK ==
    /\ now \in 0 .. MaxTime
    /\ running \in Threads
    /\ \A t \in Threads : open[t] = NoCall \/ open[t].entry <= now
    /\ \A c \in calls : c.call_time <= c.return_time /\ c.return_time <= now
    /\ \A s \in stretches : s.from < s.to /\ s.to <= now

SyscallInit ==
    /\ now = 0
    /\ running = 1
    /\ open = [t \in Threads |-> NoCall]
    /\ calls = {Root}
    /\ syscalls = {}
    /\ stretches = {}

\* ids are handed out as time passes: a call's is five times its timestamp, and
\* four calls may be made at one timestamp
IdAt(time, level) == 5 * time + level

\* user code executes SYSCALL; the functions below the entry are called at the
\* next timestamp
EnterSyscall ==
    /\ now + 2 <= MaxTime
    /\ open[running] = NoCall
    /\ now' = now + 2
    /\ open' = [open EXCEPT ![running] =
                  [entry |-> now + 1, inner |-> now + 2, since |-> now + 1]]
    /\ UNCHANGED <<running, calls, syscalls, stretches>>

\* they return, then the entry does
ReturnFromSyscall ==
    LET s == open[running]
        row(level, parent, symbol, from, to) ==
          [id |-> IdAt(s.entry, level), parent |-> parent, symbol |-> symbol,
           call_time |-> from, return_time |-> to]
    IN /\ now + 2 <= MaxTime
       /\ s # NoCall
       /\ now' = now + 2
       /\ open' = [open EXCEPT ![running] = NoCall]
       /\ calls' = calls \cup
            {row(1, 0, "entry_SYSCALL_64", s.entry, now + 2),
             row(2, IdAt(s.entry, 1), "do_syscall_64", s.inner, now + 1),
             row(3, IdAt(s.entry, 2), "x64_sys_call", s.inner, now + 1),
             row(4, IdAt(s.entry, 3), "the call", s.inner, now + 1)}
       /\ syscalls' = syscalls \cup
            {[id |-> IdAt(s.entry, 4), entry |-> s.entry, inner |-> s.inner,
              back |-> now + 1, exit |-> now + 2]}
       /\ stretches' = stretches \cup
            {[id |-> IdAt(s.entry, 4), from |-> s.since, to |-> now + 2]}
       /\ UNCHANGED running

\* the thread gives up the CPU within its system call, or an interrupt takes it
\* away; the other thread goes on where it was.  A thread is always ready: the
\* switch to the idle task, which keeps the address space, is left out.
SwitchThreads ==
    LET s == open[running]
        u == Other(running)
        row(level, symbol, time) ==
          [id |-> IdAt(now + 1, level), parent |-> IF s = NoCall THEN 0 ELSE IdAt(s.entry, 4),
           symbol |-> symbol, call_time |-> time, return_time |-> time]
    IN /\ now + 2 <= MaxTime
       /\ s # NoCall \/ Preemption
       /\ now' = now + 2
       /\ running' = u
       /\ calls' = calls \cup {row(0, "prepare_task_switch", now + 1),
                               row(1, "switch_mm_irqs_off", now + 2)}
       /\ stretches' = IF s = NoCall THEN stretches
                       ELSE stretches \cup
                              {[id |-> IdAt(s.entry, 4), from |-> s.since, to |-> now + 2]}
       /\ open' = [open EXCEPT ![u] = IF @ = NoCall THEN @ ELSE [@ EXCEPT !.since = now + 2]]
       /\ UNCHANGED syscalls

SyscallNext == EnterSyscall \/ ReturnFromSyscall \/ SwitchThreads

-----------------------------------------------------------------------------
\* every view that the calls still open lie after: what perf makes of those when
\* the trace ends does not matter then
Views == {v \in [start_ns : 1 .. now, end_ns : 1 .. now] :
            \A t \in Threads : open[t] = NoCall \/ v.end_ns < open[t].entry}

(* The system calls whose own function and whose entry both begin or end in  *)
(* the view, and those that only begin or only end in it.                    *)
Touching(v) == {s \in syscalls : /\ Between(s.inner, v) \/ Between(s.back, v)
                                 /\ Between(s.entry, v) \/ Between(s.exit, v)}
Straddling(v) == {s \in syscalls : Between(s.entry, v) # Between(s.exit, v)}

(* The system calls that touch the view are listed, each with the times of   *)
(* its entry, whatever the filter leaves of the hierarchies; and nothing     *)
(* else is, provided that none straddles a border of the view (of one that   *)
(* does, the functions it called beyond the border are listed as well).      *)
SyscallsListed == \A v \in Views :
    LET touching == {[call_id |-> s.id, call_time |-> s.entry, return_time |-> s.exit] :
                       s \in Touching(v)}
    IN /\ touching \subseteq FullSyscalls(calls, v)
       /\ Straddling(v) = {} => FullSyscalls(calls, v) = touching

(* In a view that no system call straddles, every stretch for which one      *)
(* really was on the CPU is a row of on_cpu_syscalls, from where it got the   *)
(* CPU to where it lost it, however often it did.                            *)
StretchesDrawn == \A v \in Views : \A s \in stretches :
    /\ Straddling(v) = {}
    /\ s.id \in {f.call_id : f \in FullSyscalls(calls, v)}
    => \E r \in OnCpuSyscalls(calls, v) : r.start.time = s.from /\ r.end.time = s.to

(* "inconsistent on-cpu syscalls" (util.py:459): no stretch joins the start  *)
(* of one system call to the end of another, or two switches.                *)
OnCpuConsistent == \A v \in Views : Inconsistent(calls, v) = {}

=============================================================================
