------------------------------ MODULE FutexPair ------------------------------
(***************************************************************************)
(* run_futex of rust/csgb/src/lib.rs: pairs of threads that hand a wakeup   *)
(* back and forth through two futexes until the termination flag is raised. *)
(* Every access another thread can observe (the load of the flag, a store   *)
(* to a futex word, the FUTEX_WAIT and FUTEX_WAKE calls) is a step.         *)
(* Definitions named Mut... are wrong on purpose: variants a plausible bug  *)
(* would give, which the properties are tested against.                     *)
(*                                                                         *)
(* StoreBuffers chooses the memory model.  FALSE: sequential consistency.   *)
(* TRUE: the Release store that ends wait_on_futex may become visible after *)
(* the Relaxed load of the flag that follows it, as x86 and AArch64 allow.  *)
(* A thread's stores stay in order and a futex call waits for them.         *)
(***************************************************************************)
EXTENDS Integers, FiniteSets

CONSTANTS NumPairs,      \* the THREAD_PAIRS argument
          U16,           \* number of values of a u16: 65536
          MaxCount,      \* bound on the iterations of one thread
          StoreBuffers   \* whether stores may be delayed

ASSUME ParametersAssumption ==
    /\ NumPairs \in Nat \ {0}
    /\ U16 = 65536
    /\ NumPairs < U16
    /\ MaxCount \in Nat
    /\ StoreBuffers \in BOOLEAN

\* let num_threads = num_pairs * 2, in u16 arithmetic of a release build
NumThreads == (NumPairs * 2) % U16
Threads == 0 .. NumThreads - 1

IsFirst(t) == t % 2 = 0
Futex1(t) == IF IsFirst(t) THEN t ELSE t - 1
Futex2(t) == Futex1(t) + 1
Partner(t) == IF IsFirst(t) THEN t + 1 ELSE t - 1

\* the futex a thread waits on, and the one it wakes its partner through
In(t) == IF IsFirst(t) THEN Futex1(t) ELSE Futex2(t)
Out(t) == IF IsFirst(t) THEN Futex2(t) ELSE Futex1(t)

VARIABLES term,     \* the AtomicBool raised by SIGTERM and SIGINT
          futex,    \* the word of each futex
          pc,       \* the step each thread takes next
          pending,  \* threads whose store of 0 to In(t) is not yet visible
          count     \* iterations each thread has made

vars == <<term, futex, pc, pending, count>>

Iterating == {"store", "wake", "wait", "blocked", "reset"}
Cancelling == {"cancelStore1", "cancelWake1", "cancelStore2", "cancelWake2"}
Labels == {"check", "done"} \cup Iterating \cup Cancelling

TypeOK == /\ term \in BOOLEAN
          /\ futex \in [Threads -> {0, 1}]
          /\ pc \in [Threads -> Labels]
          /\ pending \in SUBSET Threads
          /\ count \in [Threads -> Nat]

Init == /\ term = FALSE
        /\ futex = [f \in Threads |-> 0]
        /\ pc = [t \in Threads |-> "check"]
        /\ pending = {}
        /\ count = [t \in Threads |-> 0]

-----------------------------------------------------------------------------
(* The signal handler registered by main. *)
Cancel == /\ ~term
          /\ term' = TRUE
          /\ UNCHANGED <<futex, pc, pending, count>>

GoTo(t, label) == pc' = [pc EXCEPT ![t] = label]

MutBothWaitFirst(t) ==
    /\ pc[t] = "check"
    /\ \/ term /\ GoTo(t, "cancelStore1")
       \/ ~term /\ count[t] < MaxCount /\ GoTo(t, "wait")
    /\ UNCHANGED <<term, futex, pending, count>>

\* the top of the loop of `run`: load the flag, then cancel or iterate
CheckTerm(t) ==
    /\ pc[t] = "check"
    /\ \/ term /\ GoTo(t, "cancelStore1")
       \/ /\ ~term
          /\ count[t] < MaxCount
          /\ GoTo(t, IF IsFirst(t) THEN "store" ELSE "wait")
    /\ UNCHANGED <<term, futex, pending, count>>

\* wake_futex, first line
StoreOne(t, from, f, to) ==
    /\ pc[t] = from
    /\ t \notin pending
    /\ futex' = [futex EXCEPT ![f] = 1]
    /\ GoTo(t, to)
    /\ UNCHANGED <<term, pending, count>>

\* wake_futex, second line: only the thread u with In(u) = f ever waits on f
WakeOne(t, from, f, to) ==
    /\ pc[t] = from
    /\ pc' = [u \in Threads |-> IF u = t THEN to
                                ELSE IF pc[u] = "blocked" /\ In(u) = f
                                     THEN "reset" ELSE pc[u]]
    /\ UNCHANGED <<term, futex, pending>>

\* futex.wait(0): sleeps only if the kernel still finds the word to be 0
Wait(t) ==
    /\ pc[t] = "wait"
    /\ t \notin pending
    /\ GoTo(t, IF futex[In(t)] = 0 THEN "blocked" ELSE "reset")
    /\ UNCHANGED <<term, futex, pending, count>>

\* a signal delivered to the sleeper: WaitError::Interrupted => continue
Interrupted(t) ==
    /\ pc[t] = "blocked"
    /\ GoTo(t, "wait")
    /\ UNCHANGED <<term, futex, pending, count>>

CountIteration(t) == count' = [count EXCEPT ![t] = @ + 1]

MutResetSkipsFlag(t) ==
    /\ pc[t] = "reset"
    /\ count[t] < MaxCount
    /\ futex' = [futex EXCEPT ![In(t)] = 0]
    /\ GoTo(t, "store")
    /\ IF IsFirst(t) THEN CountIteration(t) ELSE UNCHANGED count
    /\ UNCHANGED <<term, pending>>

\* the store of 0 that ends wait_on_futex; it ends the first thread's iteration
Reset(t) ==
    /\ pc[t] = "reset"
    /\ IF StoreBuffers
       THEN pending' = pending \cup {t} /\ UNCHANGED futex
       ELSE futex' = [futex EXCEPT ![In(t)] = 0] /\ UNCHANGED pending
    /\ IF IsFirst(t)
       THEN GoTo(t, "check") /\ CountIteration(t)
       ELSE GoTo(t, "store") /\ UNCHANGED count
    /\ UNCHANGED term

\* the delayed store reaches memory
Drain(t) ==
    /\ t \in pending
    /\ futex' = [futex EXCEPT ![In(t)] = 0]
    /\ pending' = pending \ {t}
    /\ UNCHANGED <<term, pc, count>>

\* wake_futex inside one_iteration; it ends the second thread's iteration
Store(t) == StoreOne(t, "store", Out(t), "wake")
MutStoreOnly(t) ==
    /\ pc[t] = "wake"
    /\ GoTo(t, IF IsFirst(t) THEN "wait" ELSE "check")
    /\ IF IsFirst(t) THEN UNCHANGED count ELSE CountIteration(t)
    /\ UNCHANGED <<term, futex, pending>>
Wake(t) == IF IsFirst(t)
           THEN WakeOne(t, "wake", Out(t), "wait") /\ UNCHANGED count
           ELSE WakeOne(t, "wake", Out(t), "check") /\ CountIteration(t)

MutCancelOneFutex(t, f) ==
    \/ StoreOne(t, "cancelStore1", f, "cancelWake1")
    \/ WakeOne(t, "cancelWake1", f, "done") /\ UNCHANGED count
MutCancelOwnFutex(t) == MutCancelOneFutex(t, In(t))
MutCancelFirstFutex(t) == MutCancelOneFutex(t, Futex1(t))

\* on_cancelled wakes through both futexes, whichever one the partner waits on
OnCancelled(t) ==
    \/ StoreOne(t, "cancelStore1", Futex1(t), "cancelWake1")
    \/ WakeOne(t, "cancelWake1", Futex1(t), "cancelStore2") /\ UNCHANGED count
    \/ StoreOne(t, "cancelStore2", Futex2(t), "cancelWake2")
    \/ WakeOne(t, "cancelWake2", Futex2(t), "done") /\ UNCHANGED count

OneIteration(t) == Store(t) \/ Wake(t) \/ Wait(t) \/ Reset(t)

Thread(t) == CheckTerm(t) \/ OneIteration(t) \/ OnCancelled(t)

AllDone == \A t \in Threads : pc[t] = "done"

\* every handle is joined and run_futex returns
Returned == AllDone /\ UNCHANGED vars

Next == \/ Cancel
        \/ Returned
        \/ \E t \in Threads : Thread(t) \/ Drain(t) \/ Interrupted(t)

\* the OS runs every thread that can run and stores are not delayed for ever;
\* nothing is assumed of signals
Fairness == \A t \in Threads : WF_vars(Thread(t)) /\ WF_vars(Drain(t))

Spec == Init /\ [][Next]_vars /\ Fairness

-----------------------------------------------------------------------------
(* A pair never comes to rest: no thread sleeps in FUTEX_WAIT while its      *)
(* partner sleeps too or has returned.  (Runner: on_cancelled "ensuring that *)
(* no deadlock occurs", lib.rs:24-27.)                                       *)
NoDeadlock == \A t \in Threads :
    pc[t] = "blocked" => pc[Partner(t)] \notin {"blocked", "done"}

(* Until the flag is raised the pair never comes to rest even when stores    *)
(* are delayed: the store of 0 is always followed by a futex call before     *)
(* the thread can sleep again.                                               *)
NoDeadlockBeforeCancel == ~term => NoDeadlock

(* No lost wakeup: a thread sleeps on a word that is already 1 only while    *)
(* its partner is between the store and the FUTEX_WAKE of the same futex.    *)
AboutToWake(t) ==
    \/ pc[t] = "wake"
    \/ pc[t] = IF IsFirst(t) THEN "cancelWake2" ELSE "cancelWake1"
NoLostWakeup == \A t \in Threads :
    pc[t] = "blocked" /\ futex[In(t)] = 1 => AboutToWake(Partner(t))

(* Raising the flag ends the run: every thread returns, whatever it was      *)
(* doing.                                                                    *)
Termination == term ~> AllDone

(* The futex runner does what `run` promises of any runner.                  *)
Abstract == INSTANCE Runner WITH
    running <- {t \in Threads : pc[t] # "done"},
    finishing <- IF term THEN {t \in Threads : pc[t] \in Iterating} ELSE {}
ImplementsRunner == Abstract!Spec

=============================================================================
