# A verification development for should-I-async

This directory holds TLA+ models of the programs of this repository, the TLC
configurations that check them on small instances, and TLAPS proofs about some
of them for every instance. Paths below are relative to the repository; `src/`
in `PROJECT.json` stands for its root.

## 1. The system

The repository compares ways of doing concurrent I/O. Its parts:

| part | where | state | operations | hard behaviour |
|---|---|---|---|---|
| csgb, futex runner | `rust/csgb/src/lib.rs` | one futex word per thread, the termination flag, iteration counts | `one_iteration`, `on_cancelled`, `run` | interleaving of stores and futex calls, memory order, cancellation |
| csgb, yield / sleep runners | same | the flag | one system call per iteration | none: the threads share only the flag |
| csgb, socket and async runners | same | a socket pair, a `Notify` and a cancellation barrier per pair | blocking and async read/write | EOF on cancellation, permits, a panic noticed late |
| Go tcpecho | `golang/internal/echo/tcp.go`, `golang/cmd/tcpecho/main.go` | connections, dial semaphore, start barrier, two error groups, metrics, stop channel | `RunClients`, `Accept`, the round-trip loop, shutdown | start barrier and retries, cancellation, EOF, watchdog |
| container1 event loop | `harness/golang/internal/eventloop/command.go` | processes, context, one waiter and one watcher per process, errors | `RunCommands` | failures while starting, joining, cancelling |
| container1 output | `harness/golang/internal/harnessio/*.go` | pipes, scanners, the morphing writer, the locked stdout | `Write`, `Close`, line scanning | concurrent writers, line integrity, flushing at exit |
| Java echo | `javaecho/app/src/main/java/javaecho/*.java` | `ShutdownCoordinator` locks, registrations, sockets, metrics | client, server, shutdown hook | the hook racing with start-up, timeouts |
| Rust syncserver | `rust/syncserver` | a listener and connections | echo server, parked clients | threads that never end |
| container runner scripts | `harness/*.bash` | background jobs and their exit status | start, trap TERM, join | which job's status wins |
| trial driver | `harness/harness.py` | two child processes, a future for each and one for a signal | run one trial, remove its containers | whichever of four things comes first; cannot run as committed |
| processor-trace export | `intel_proc_trace/export_to_duckdb.py` | lists of rows, then the database file | the handlers `perf script` calls, `trace_end` | rows in the wrong list, views over dropped tables, a kill in the middle |
| processor-trace analysis | `intel_proc_trace/iptdataframes/util.py`, `sql/timestamped_ranges.sql` | derived tables of the database | `setup`, `time_series_prep`, `cdf_prep`, `events_prep` | boundaries: ties, windows inside one range, calls that straddle the view |
| notebook | `intel_proc_trace/pt.ipy` | a connection and its attributes, a figure | cells, in any order | stale tables and attributes |

How they interact: `container1` runs as process 1 of a container and starts a
server or a client (tcpecho, javaecho, csgb) together with profilers; SIGTERM is
passed on to each of them and their output is merged, line by line, into one
log. The echo clients and servers talk over TCP. The trial driver starts the
containers. `perf script` calls the export, which writes a database file once;
the notebook reads it, any number of times, and adds tables of its own.

What makes each part correct is stated as properties in its module; the code
lines at risk are the `hazards` of `PROJECT.json`.

## 2. What is hard, and what makes each part correct

- **Futex runner.** Two threads hand over to each other through two 32-bit words,
  with `FUTEX_WAIT` testing the word in the kernel. Correct means: no wakeup is
  lost, the two threads never sleep together, and after the flag is raised every
  thread returns although its partner may sleep, may be about to sleep, or may
  have returned. The stores are `Release` and the flag is loaded `Relaxed`, so a
  store may become visible after a later load.
- **Event loop.** Processes end in any way and at any time while others are still
  being started; the context can be cancelled from four places. Correct means:
  what was started is joined, what failed is reported, the run ends when the
  first command ends or any fails, and it ends for no other reason.
- **tcpecho.** Clients dial under a semaphore, may retry their first iteration,
  and meet at a barrier after it; two error groups, an `AfterFunc` per
  connection, a stop channel and the listener are closed in any order. Correct
  means: the barrier is exact whatever is retried or fails, nothing hangs, an
  interrupted client says so, a stopped one does not fail, both sides count
  alike, nothing stays open.
- **Output.** Three goroutines pass one stream on through two synchronous pipes, and
  the first line decides where the rest goes while the next chunk is being
  written. Correct means: the same bytes in the same order, whole lines, no Write
  or Close that waits for ever, an error wherever a byte is lost.
- **Trial driver.** A child may fail to start, end, or run on, and a signal or the
  timeout may come at any point. Correct means: both children are ended and
  collected before their containers are removed, and the driver exits after them.
- **Export.** Every record must reach the table of its type (one does not, finding 3),
  every join of a view must find its rows whatever a kill leaves, no view may outlive
  its tables, and no insert or drop may raise at the end of a long export.
- **Analysis.** Windows over samples of unknown inner structure must count every
  cycle once and bound what is not known; system calls must be cut at context
  switches and at the borders of the plot.
- **Notebook.** A figure must not show what another connection computed.
- **Planned parts.** The Java programs must stop once and in order whatever the shutdown hook meets; the
  async runners must not lose a permit or wait for a partner that is gone.

`PROJECT.json` lists the code line of each hazard and the properties that cover it.

## 3. Modules

| module | models | composes |
|---|---|---|
| `Runner` | abstract: what `run` and the `Runner` trait promise (`rust/csgb/src/lib.rs:22-68`) | - |
| `FutexPair` | `run_futex`, `FutexRunner`, the loop of `run`, the signal handler | implements `Runner` |
| `FutexPairProofs` | proofs about `FutexPair` | |
| `Supervisor` | abstract: what `RunCommands` promises (`command.go:29-254`) | - |
| `EventLoop` | `RunCommands`, `startCommands`, `joinCommands` with os/exec's goroutines | implements `Supervisor` |
| `EventLoopProofs` | proofs about `EventLoop` | |
| `TcpConnection` | package net and TCP as `tcp.go` uses them (external) | - |
| `EchoRun` | abstract: what `RunClients` promises (`golang/internal/echo/tcp.go:232-326`) | - |
| `EchoClients` | `RunClients` down to the client's side of `runRoundTripLoop` | extends `TcpConnection` |
| `EchoServer` | `Accept`, `handleConnection`, the server's side of the loop | extends `TcpConnection` |
| `TcpEcho` | both joined, with what `main.go` and `TestServe` do around them; all properties | extends both, implements `EchoRun` |
| `EchoProofs` | proofs about `TcpEcho`: the barrier, what is left open, who has sent, read and counted which line; that it implements `EchoRun` | |
| `OutputWriter` | `MorphingWriter`, `ScanningWriter` and the log writer around one stream | - |
| `OutputProofs` | proofs about `OutputWriter` | |
| `TrialDriver` | `harness.py`: `main`, the first class `Trial`, `BgProcess`; proved only, no run | - |
| `TrialProofs` | proofs about `TrialDriver` | |
| `TimestampedRanges` | `timestamped_ranges.sql` | - |
| `SlidingWindow` | `SqlUtil.time_series_prep`, as operators on the ranges | extends `TimestampedRanges` |
| `RangeCdf` | `samples_for_cdf` of `SqlUtil.cdf_prep` | extends `TimestampedRanges` |
| `IpcTimeline` | `SqlUtil.setup`; the samples perf delivers; the properties of the two above | extends both |
| `SyscallTimeline` | `SqlUtil.events_prep`, over the calls of a traced CPU | - |
| `TraceAnalysis` | the two timelines side by side | extends both |
| `AnalysisProofs` | proofs about the windows and the system calls of `TraceAnalysis` | |
| `TraceSchema` | tables, views and references of the export | - |
| `TraceExport` | one run of the export script under `perf script` | extends `TraceSchema` |
| `AnalysisSession` | the cells of `pt.ipy` over `SqlUtil` | extends `TraceExport` |
| `TraceDatabase` | the export and the sessions on one database file | extends `AnalysisSession` |
| `ExportProofs` | proofs about `TraceDatabase` | |
| `FiniteSums` | facts about sums over finite sets, used by `EchoProofs` and `AnalysisProofs`; models nothing | |

Definitions named `Mut...` are wrong on purpose. Each is a plausible slip in the
definition that follows it (a barrier left out, a counter changed once too
often); swapped in for that definition, it makes a property fail. No
specification uses them. Which one breaks which property is listed under
`mutants` in `PROJECT.json`.

### Correspondence with the code

**FutexPair.** `pc[t]` is the next visible step of a thread: a load of the flag,
a store, a futex call. `futex` holds the words by thread index; `Futex1`,
`Futex2`, `In`, `Out` are the index arithmetic of `run_futex`. `CheckTerm` is the
top of the loop in `run`; `Store`, `Wake`, `Wait`, `Reset` are the steps of
`one_iteration` in the order of the role (the first thread wakes then waits);
`OnCancelled` is four steps. `StoreBuffers` chooses the memory model: with TRUE
the store of 0 that ends `wait_on_futex` is visible only after `Drain`, which may
come after the next load of the flag, but not after the thread's next store or
futex call. `Interrupted` is `EINTR`. `U16` is the width of `num_pairs * 2`.

**EventLoop.** `main` is where `RunCommands` is. `proc`, `watcher` and `waiter`
are the process, exec.Cmd's goroutine that watches the context, and the goroutine
of `joinCommands` of each command. `Cmd.Start` is two steps because the test of
the context comes before the fork; `Cmd.Wait` is two because the watcher may
still signal a process that has exited. `errs` is the joined error as a set.
Arguments, environment expansion and log lines are left out.

**Supervisor** has no goroutine, process or watcher: a command is live from its start
until it is collected, and a run may be stopped at any time. `spare` is the command
whose `Cmd.Start` had passed the test of the context when the run was stopped: it
may still start. Mapped to it, `BeginStart` and everything os/exec does is a
stutter, `SpawnWaiters` is `Join`, and `HandleFinished` is `Collect`. Its fairness says
that a run that is stopped starts no more, joins, and collects all that is live.

**TcpConnection.** A connection is a pair of a client and the number of its
attempt. `link` is its life up to `Accept`, `inbox` the line on its way in each
direction (the protocol never has two), `closed` the ends closed by their own
program, `rst` the ends a reset has reached. A read returns data, EOF, a reset
or "closed", or blocks; which one a reset end returns when both apply is left
open. `Faults` lists what may go wrong besides: `refuse` (a dial fails), `drop`
(the accept queue has no room), `accept` (`Accept` fails on an open listener, for want
of a descriptor, say), `ctx` (the context ends).

**EchoClients, EchoServer.** `cpc` and `hpc` are the blocking call each goroutine
is at. `attempt` is the loop of `runClientWithRetry`, `iter` that of
`runRoundTripLoop`, `waitGroup` and `reached` the barrier with its flag
`reachedBarrier`, `held` the semaphore. An error is "retriable" or "fatal", which
is all `isErrorRetriable` tells apart. `CloseClientConn` and `CloseServerConn` are
the `AfterFunc`s, which may run at any point between their registration and the
return of their function. What a line says, log messages, the sleep of the
server and the statistics over the counts are left out.

**TcpEcho.** `NumIterations > 0` is `TestServe`: clients that make that many round
trips, a listener closed when they are done. `NumIterations = 0` is the two
programs: either side gets its signal at any time.

**EchoRun.** A client is idle, dialing, connected or at its end, with the number of
its attempts and of its round trips: nothing of connections, handlers, the semaphore
or the wait group. What those are for is in the guards: at most `SemLimit` clients
dial, one starts over only before its first round trip, makes a second one only when
all others have made one or ended, ends well only with all of them, and fails only if
it was interrupted, if another has failed, or at the end of its attempts without a round trip.
`TcpEcho` maps its clients to these phases by `Phase`; writing, reading and waiting at the barrier are
steps that `EchoRun` does not see.

**OutputWriter.** A byte is its position in the stream, a Write the interval of
its positions. `copier` is `io.Copy` of os/exec, then `Close` and the return of
main; `morpher` is the goroutine of `NewMorphingWriter`, `scanner` that of
`NewScanningWriter`. `got` counts what the morpher has read, `taken` and `printed`
what the scanner has read and written; `forwarded` is what the morphed writer was
given so far, `ends` the places where a Write of it ended. `json` says what the
first line is, and so where the stream goes. A stream that is not JSON is logged one record per Write.
One stream is modelled: `LockingWriter` makes the Write of a line one step, so
streams meet only there and in the log's own scanner, which is not shared here.

**TrialDriver.** `main` is the statement the main thread is at, `proc` and `future`
the children and the futures, `raised` an exception on its way out. The class
`SignalManager` is missing from the repository and taken to be what its two calls
say; the second class `Trial` of the file, unfinished, is left out. `docker rm` may
fail at any time: a container may still run, or never have been created, also when
`docker run` was started and has ended. It must fail when a child has not exited.

**TimestampedRanges, SlidingWindow, RangeCdf, IpcTimeline.** A table is a sequence
or a set of records. The SQL is translated clause by clause: an ASOF join is a
choice of the nearest row, a window function an operator on the rows before.
Quotients are kept as numerators. `RecordSample` is perf: samples in the order of
time, several at one timestamp; every range has at least one cycle (one without
would make the interpolation divide by zero, for which the query puts 10000).

**SyscallTimeline.** The machine (`EnterSyscall`, `ReturnFromSyscall`,
`SwitchThreads`) is external: two threads on one CPU whose calls fill the table.
It has no idle thread and no two events at one timestamp. What the code
computes is in `FullSyscalls`, `ContextSwitches` and `OnCpuSyscalls`.

**TraceSchema, TraceExport.** A row is its id and the id by which it refers to
other tables. A row of `samples` refers to `branch_types` too, whose row 0 ("no branch")
is perf's, passed before any record. A view is named by the script's name for it (`ViewOf`). `lists` are the module's lists, `db` and `views` the file. Every
insert and every drop is a step that commits by itself, so `Killed` may come
between any two; either fails as its statement does (no such table, a row that does not
fit, a key that is taken, no such name). `delivered` remembers what perf passed, to compare.

**AnalysisSession.** `conn` is the `SqlUtil` object with the attributes it has so
far; `bounds`, `spans` and `onCpu` say who filled the tables of that name. A cell
that raises before it has changed anything is no step.

## 4. Runs

| run | instance | shows |
|---|---|---|
| `futex_pair` | 1 pair, 3 iterations | no deadlock, no lost wakeup, termination; implements `Runner` with its liveness |
| `futex_delayed_store` | 1 pair, 2 iterations, delayed stores | no deadlock before cancellation |
| `futex_delayed_cancel` | the same | **violated**: `NoDeadlock` |
| `event_loop` | 3 commands | everything started is joined and reported, a run is not cancelled without a reason, the first end and any failure end it; implements `Supervisor` with its liveness, so that a cancelled run ends |
| `echo_faults` | 2 clients, semaphore 1, 2 round trips, dials fail, connections dropped | the start barrier is exact and holds, the count of `TestServe`, server failures follow client failures, the run ends; implements `EchoRun` |
| `echo_timeout` | 1 client, 2 round trips, every fault, `accept` and `ctx` too | interruption is reported, nothing is left open |
| `echo_stop` | 2 clients, no limit, signals at any time | both sides count alike, stopping the clients fails nobody, stopping ends the run |
| `analysis` | 3 samples; 16 points of time, preemption | windows tile the trace, bounds hold for every position, interpolation is per cycle, the discard is maximal; system calls and stretches are listed |
| `analysis_on_cpu` | the same, no preemption | **violated**: `OnCpuConsistent` |
| `export` | 2 records, all options, all handlers but ptwrite; 2 connections | nothing lost but ptwrite, joins complete after a kill, views readable, figures fresh; the export gets to its end, unless it was called with callchains alone |
| `export_ptwrite` | 2 records, all options, all handlers; no session | **violated**: `NothingLost` |
| `output` | 5 bytes, chunks up to 4, buffer 2, lines up to 3 | same bytes in order or a failure, flush at close, whole lines, nobody waits for ever |

### Bounds, and why they are enough

- One pair of threads: a pair shares only the flag with the others, and the proofs
  cover every number of pairs. Three iterations let each thread be in any
  iteration while the other is one ahead or behind. `MaxCount` stops a thread
  before a further iteration only while the flag is down.
- Three commands give a first one, one that fails and a bystander, and let a start
  fail after two have started.
- Two clients with one semaphore slot: one dials or is at the barrier while the
  other waits, fails or retries. `EchoProofs` covers every number. Three attempts is the code's own bound.
  Two round trips separate the first iteration (retriable, barrier) from the
  rest. `MaxIter` bounds a client without limit the same way: at the bound it
  waits to be stopped. It is not a limit of the code, and no liveness property
  speaks of a client that was not stopped.
- Three samples give a window a trailing, an interior and a leading range; windows
  of 1 to 4 cycles over ranges of 1 to 3 lie within a range, end on its border and
  span all three. Sixteen points of time hold two system calls with a switch
  inside one, or one call switched out and back; the view is every interval of
  them. A trace has samples or calls, not both, as no table is made of both.
- Two records are a row and the row it refers to, in either of two tables, or an
  event with its sample; two connections are the stale one and the new one. The
  database of an analysed trace has one record, since a session only asks which
  tables there are and whether there is a sample.
- Five bytes with chunks of up to 4, a buffer of 2 and lines of up to 3 let the
  first line end before, in and after a buffer and a chunk, a chunk be cut by the
  morph, and a line be too long. Every set of positions is tried for the newlines.
- The context ends, and `Accept` fails on an open listener, with a single client only:
  with two the graph outgrows a run of a few minutes. The proofs cover the safety half for
  every number and all faults. Liveness is not claimed with `accept`: in `TestServe` only
  the clients' return closes the listener, and a client in its queue is never answered.
- `TrialDriver` has no constants and no run: its theorems are about all there is.

### Fairness

- `FutexPair`: weak fairness of every thread and of every delayed store; nothing
  of signals or of `EINTR`. Threads are OS threads, a store is never delayed for ever.
- `EventLoop`: weak fairness of the goroutines, and of the exit of a process that
  was sent SIGTERM. The code assumes the latter: it sets no `WaitDelay` and never
  sends SIGKILL. Nothing is assumed of a process that was not signalled.
- `TcpEcho`: weak fairness of each goroutine, of the `AfterFunc`s and of the close
  of the listener once it is due. Nothing is assumed of faults, signals, the
  context, or of a reset's arrival; a write to a closed peer may go unanswered,
  and then the reader finds EOF.

- `OutputWriter`: weak fairness of the three goroutines; none of the process that
  writes the stream, nor of its end.
- `TrialDriver`: none. The driver need not exit: when `docker rm` fails the signal
  manager is not closed (`harness.py:290-291`), and the interpreter waits for its thread.
- `TraceDatabase`: weak fairness of the script's own steps and of the end of the
  trace, which is finite. Nothing is assumed of records, kills or the user.

### What the violated runs say

1. `futex_delayed_cancel`: the Release store of 0 (`lib.rs:151`) may be overtaken
   by the Relaxed load of the flag (`lib.rs:51`) and then erase the 1 a cancelling
   partner stored: the thread sleeps for ever.
2. `analysis_on_cpu`: the filter on the time bounds (`util.py:328-333`) comes after
   the recursion over the calls, row by row. Of a system call that straddles a
   bound, a function called beyond it (`prepare_task_switch`) drops out of its own
   group, whose rest then looks like a system call and is listed as one, with the
   times of `do_syscall_64`. The assertion at `util.py:458` then fails, although
   nothing was preempted.
3. `export_ptwrite`: the handler of `ptwrite` records appends its row to the list of
   `calls` (`export_to_duckdb.py:799`). Called with `calls`, the script inserts it
   there, finds the table `ptwrite` empty and drops it with its view as "unused"
   (681-683). In other interleavings its key clashes with a call's, or the table
   `calls` is not there, and `trace_end` fails; `ExportEnds` exempts those.

Modelled as the code does it, and at odds with what a comment says, without a run
of their own:

- `num_pairs * 2` in `u16` is 0 for 32768 pairs in a release build (`lib.rs:177`).
- A command that handles SIGTERM and exits 0 is reported as failed, because
  `Cmd.Wait` then returns the context's error (`command.go:148`, against 144-146).
  `FailuresReported` says that of the commands that exit 0 only such a one, and one whose
  output could not be copied, is reported.
- A client stopped between its dial and its first line makes the server's handler
  fail, and with it every other connection of the server (`tcp.go:351`, against
  25-26). `ClientStopIsGraceful` shows that the clients do not fail.
- A handler's error closes all connections but not the listener, so the server goes
  on accepting, and closing, new ones (`tcp.go:197`, against `golang/README.md:5`).
- A first chunk longer than the buffer that is cut by the morph is written to the
  delegate a second time, from its start; the Write then claims more bytes than it
  was given, and the copy fails (`morphingwriter.go:85-97`, against 19-21).
  `SameBytesOrFailure` says that this is the only way.
- Output that is not JSON is logged one record per Write, not per line
  (`loggingwriter.go:47`, against `main.go:66`); the scanner behind the log ends for
  good at a record over 64 KB, and the logger drops the error. No scanning writer
  is closed at exit, so what its goroutine has not written by then is lost.
- With `callchains` but not `calls`, which the usage message offers (88-91), a row for the
  missing table `calls` is collected (`export_to_duckdb.py:633-635`) and `trace_end` fails.
  `ExportEnds` names this as the one set of options with which the script does not get
  to its end.
- A cell that raises half way leaves the curves of an earlier run in the figure
  (`pt.ipy:143`): `FigureIsFresh` speaks of figures that are complete.
- If the client of a trial fails to start, nobody ends the server, and the driver
  waits for it at its exit (`harness.py:165`). If `docker rm` fails, it waits for a signal.

Seen while reading and not modelled: `GetMorphedWriter` panics always
(`morphingwriter.go:112-122`; nothing calls it); `dialAndTest` only dials, although
its comment says it reads (`tcp.go:60-62`); `Dialer.ConnResetCount` is never
incremented; the closure in `Combined` shadows `err`, so its short circuit never
acts (`tcp.go:131-140`); `handleConnection` never returns `io.EOF`
(`tcp.go:329`); a futex wakeup that comes late can wake a partner that already
consumed the hand-over, so that the two counts of a pair may drift apart.

## 5. Proofs

TLAPS checks these for every value of the constants, from the assumptions named in
the modules only (`ParametersAssumption`, `NumCommandsAssumption`,
`ConnectionAssumption`, `ClientsAssumption`, `TimelineAssumption` and so on). Where a theorem needs
more of a constant, its statement says so, and this section too.

- **FutexPairProofs.** `TypeCorrect`; `IInvCorrect`; from it `WakeupsNotLost` and
  `DeadlockFreeBeforeCancel` in both memory models; `DeadlockFree` without
  delayed stores; `FutexImplementsRunner`, the safety half of the refinement. That no
  two threads of a pair sleep together is not inductive: `TokenInv` adds that
  while the first thread is on its way to sleep and unanswered and the second has
  nothing left to send, the second one's word is raised. `ReleaseInv` does the
  same for cancellation: a thread past its release leaves its partner's word
  raised as long as the partner may still sleep. It fails with delayed stores,
  which is finding 1. The refinement maps a step within an iteration to a
  stutter; it needs `BoundInv`, that a thread inside an iteration has not used up
  the bound.
- **EventLoopProofs.** `TypeCorrect`, `JoinsAll`, `ReportsFailures`. The receive
  loop counts; `LastFinished` shows that the count reaches the number of started
  commands exactly when no waiter is left. The invariant ties each process to its
  watcher and its waiter, and follows an error from where it arises to `errs`; `ReportInv`
  goes back, from a reported command to how its process ended and what `Cmd.Wait` made of it.
  `CancelsForAReason` is an action property: of the steps that end the context it
  needs only that a count of finished commands that ends the run was reached by
  the first command or with an error (`FinishHasReason`).
  `EventLoopImplementsSupervisor` is the safety half of `ImplementsSupervisor`: it
  needs that the count of the receive loop and the set of live commands agree
  in both directions (`LoopEndsWithLastLive`), and that the caller reaches the join
  only after the last start or with the context done (`JoinInv`).
- **EchoProofs**, the clients. `DoneOnce` and `BarrierCorrect` from `BarrierInv`: a client has
  called Done exactly if its iteration count is positive, so one that is dialled
  again has not, and the wait group is the number of those left.
  `EchoTypeCorrect`: the types, where the wait group's needs `BarrierInv`.
  `NothingLeftCorrect` from `LeavesInv`: the semaphore is held exactly by those
  who dial, every attempt but the current one left its connection closed or never
  had one, and a handler exists exactly for each accepted connection.
- **EchoProofs**, the protocol. Everything rests on one invariant per connection, `EchoInv`:
  a single line goes back and forth, so that at any time it is at the client, on
  its way, at the handler or on its way back, and each place fixes by how much the
  two counts differ (`PairInv`). It has to speak of connections that were given up as
  well, whose handlers may still run: such a connection was dropped before it was
  accepted, or closed by a server that had counted nothing on it (`OldInv`).
  From it:
  - `CountsAgreeCorrect`.
  - `NilMeansCompleteCorrect`, with `CountInv` and `LimitInv`: the count is the iteration, and the
    top of the loop is the only way out without an error.
  - `RoundTripsCountedCorrect`, from `EachRoundTripCountedCorrect`, which says it of each client and
    connection: the handler of a client's last connection counts all of its round trips, the
    others none, and the sum follows (`CountsAddUp`).
  - `HandlersFollowClientsCorrect`, through `CalmInv`: while no client has failed, nothing closes
    a connection early, but for a client that gives up one nobody accepted. Its
    hypothesis is `NumIterations > 0`, that is, `TestServe`: clients that are told to stop do
    make handlers fail (section 4).
  - `ClientStopIsGracefulCorrect`, through `StopInv`: a client stopped before its first line
    breaks its handler and so every other connection, but then the barrier has let
    nobody past the first round trip (`StoppedEarly`), where a reset is retried, and the
    second attempt ends at the top of the loop; and the listener stays open, since accepting does not
    end before it is closed (`AcceptInv`). Its hypothesis `Faults \subseteq {"ctx"}` says that
    no dial is refused, no connection dropped and `Accept` fails only on a closed listener;
    otherwise clients do fail.
- **EchoProofs**, the refinement. `EchoImplementsRun` proves all of `ImplementsEchoRun`, which is
  safety. A step of `TcpEcho` moves at most one client (`OneMoves`). The limit on dials needs that the
  semaphore is held exactly by those who dial (`LeavesInv`), a second round trip that the
  barrier's count is exact (`BarrierInv`), the good end `LimitInv`. The hard part is why a client
  may fail (`FirstFailure`): while nothing has failed and nothing was interrupted, neither end
  closes a connection in use, so that all a client can see is a refused dial or
  the reset of a connection nobody accepted, both of which are retried; hence the first client
  to fail has used up its attempts without a round trip. This is read off `CalmInv`, the invariant
  behind `HandlersFollowClients`.
- **OutputProofs.** `SameBytesOrFailureCorrect`, `CloseFlushesCorrect`, `LinesInOrderCorrect`,
  `TypeCorrect`. `FlowInv` says which bytes were forwarded for each place the copier and the
  morpher can be at: none while the first line is being looked for, then the line,
  then all that the morpher has read, and once it is done all but the Write at
  hand. A Write that the morph cuts in two is the one case in which it says nothing.
  `LineInv` adds that what was printed ends with a line, and that a scanner that
  goes on has taken all that was forwarded when a Write to it is over.
- **ExportProofs.** `NothingLostCorrect`, `JoinsCompleteCorrect`, `ViewsReadableCorrect`,
  `FigureIsFreshCorrect`, `TypeCorrect`, and `DropsFindNamesCorrect`, which no run states.
  `TablesInv` says which of the tables are written at each step of `trace_end`;
  that a row's references are in the file before it then follows from the order of the
  inserts (`InsertOrderCovers`, `InsertOrderSound`: the order of the script puts
  every table after those it refers to), and stays true while empty tables are
  dropped because a table that is referred to is not empty. `ViewsInv` says that a view is
  there only with what it reads. `DropsFindNamesCorrect` says that `Drop` never
  takes its failing branch, a `DROP` of a name that is not there.
  `LeftInv` says that the names a block still has to drop are there, each once, and that
  none of them is a name of a later block. `SessionInv` ties what a connection believes it has
  computed to who filled the tables. The first two assume
  `Handlers \subseteq SoundHandlers`: perf delivers no `ptwrite` record (section 4). No theorem
  restricts the options.
- **AnalysisProofs.** `CyclesCoverTimesCorrect`, `SpansTileCorrect`, `BoundsHoldOverSpanCorrect`,
  `LinearIsPerCycleCorrect`, `DiscardIsMaximalCorrect`, `SyscallsListedCorrect`, `StretchesDrawnCorrect`,
  `TypeCorrect`, and two that no run states, `SpansNameRangesCorrect` and `SwitchesPairCorrect`. First the ranges:
  `RangesInv` says of the table that rows follow each other in time and each has
  cycles of its own; `Adjacent` that no cycle and no instruction lies between two rows. All
  else is about the operators, for any such table and window size: two rows of
  `ipc_spans` never end at one cycle (`EndsNameSpans`: that is what dropping the
  aliased trailing side is for), no range and no window edge ends inside the span of a
  row (`NoEdgeInside`), and hence the trailing and leading range named for the end of
  a span are right anywhere in it (`SpansNameRanges`). The three running totals that
  `time_series_prep` subtracts are then sums over the ranges from one to the other
  (`BoundsAreSums`), which bound the sums over the ranges under the window; and each range
  counts for as many cycles as the window has of it (`OverlapsOfSpan`), so that the
  interpolation is a sum over all ranges. `DiscardOfRanges` needs only that a longer range
  has a smaller running sum.

  Then the calls. `SyscallsInv` says of the traced CPU that each timestamp is used
  once (`TimesInv`), that the table `calls` holds four rows of every system call that returned
  and two of every switch, made within it or not (`CallsInv`), and that neither a switch
  nor the end of a system call lies within a stretch (`StretchesInv`). The recursive query
  over `calls` is a recursive function, of which nothing is known until its
  equation is shown to have a solution: no call has more than five callers, so seven rounds
  of the equation reach one (`HierarchyUnfolds`), and the hierarchy of each kind of row can be
  written down (`Hierarchies`). Of these the filter keeps a system call's own function
  just if it touches the view. The only other row it could keep is a switch, of which
  it would have to show the callers but not the switch itself: no view does, unless the
  system call straddles its border (`Filtered`). This is the hypothesis of both
  theorems, and without it the assertion fails (section 4). `SwitchesPairCorrect` needs none: in
  the whole table each task switch is joined to the change of address space of its own switch.
- **FiniteSums.** The library has no theorem about folds, and its induction theorems
  cannot be used here. What an operator's parameter prevents for any formula works
  for one: a smallest set for which the formula fails, which exists because cardinalities
  are well-founded, gives the contradiction. `SolutionExists` shows in this way that the recursion
  behind `SumFunctionOnSet` has a solution, whatever order the fold takes; the rest
  (`SumRemove`, `SumUnion`, `SumGrows`, `SumConstant`, `SumScaled`, `SumOfInterval`) follows from it.
- **TrialProofs.** `TypeCorrect`, `RunLeavesNothingCorrect`, `NoOrphansCorrect` from
  `TrialInv`: where the main thread is tells which children were started, a
  future is done only if its child has exited, and past the wait both are.

Model-checked only:

- every liveness property (`Termination`, `EndOfOneEndsRun`, `RunEnds`,
  `ClientsStop`, `BothStop`, `WritesReturn`, `ExportEnds`, the liveness of
  `ImplementsRunner` and of `ImplementsSupervisor`), because the prover has no rule for fairness and `ENABLED`.

`TypeOK` of a module states its types; it is not among the runs' properties but proved, for
every module that composes others or stands alone: `FutexPair`, `EventLoop`, `TcpEcho`,
`TrialDriver`, `OutputWriter`, `TraceAnalysis` and `TraceDatabase`.

## 6. What is not modelled

Time: the two-second watchdogs, sleeps and durations. Pure data: argument and
environment expansion, JSON, log wording, statistics, `range_cdf` and its
percentages, `errors_and_ranges`, what a figure looks like. `golang/internal/util/errgroup.go` (commented out),
`rust/csgb/src/exec.rs` (experiments), container, Gradle and build files, the
older notebook `pt.ipynb` (its first cell fails, and it reads two SQL files that do
not exist), `overlapping.py` (nobody calls it). The log that several streams of
container1 share. The parts planned below.

## 7. Plan

In order of weight:

1. *(done)* `Runner`, `FutexPair`: the program's own synchronization; refinement.
2. *(done)* `EventLoop`; *(done)* `TcpConnection`, `EchoClients`, `EchoServer`, `TcpEcho`, and
   `EchoRun`, which it implements, with the proof.
3. *(done)* `OutputWriter`, one stream. Left: two streams and the log they share.
   *(done)* `TrialDriver`; *(done)* the trace modules, `TimestampedRanges` to
   `TraceDatabase`.
4. Java echo: `ShutdownCoordinator` against the shutdown hook and start-up, the
   two-phase client, the server; composed with `TcpConnection`. Abstract
   specification: stop is requested once, then everything registered ends.
5. csgb's socket and async runners, each shown to implement `Runner`.
6. *(done)* `Supervisor`, which `EventLoop` implements, with the proof of its safety half.
7. Runner scripts (exit status), syncserver.

Proofs still worth doing: the safety half of the refinements of 4 and 5 as they are
written; abstract specifications of `OutputWriter` (bytes in order, or a failure) and of
`TrialDriver` (what is started is ended) that the two implement.
