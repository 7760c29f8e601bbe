--------------------------- MODULE FutexPairProofs ---------------------------
(***************************************************************************)
(* Proofs about FutexPair for every number of pairs.  The argument has two *)
(* parts.  Whatever the memory model, a wakeup is never lost and the two   *)
(* threads of a pair never sleep together (IInv).  When stores are not     *)
(* delayed, a thread that has cancelled leaves its partner's futex raised  *)
(* as long as the partner may still sleep on it (ReleaseInv).              *)
(***************************************************************************)
EXTENDS FutexPair, TLAPS

-----------------------------------------------------------------------------
(* The index arithmetic of run_futex pairs the threads up: a thread waits   *)
(* on the futex of its own index and wakes the futex of its partner's.      *)
LEMMA ThreadsEven ==
    /\ NumThreads \in Nat
    /\ NumThreads % 2 = 0
BY ParametersAssumption DEF NumThreads

LEMMA PairFacts ==
    ASSUME NEW t \in Threads
    PROVE  /\ Partner(t) \in Threads
           /\ Partner(t) # t
           /\ Partner(Partner(t)) = t
           /\ IsFirst(Partner(t)) <=> ~IsFirst(t)
           /\ In(t) = t
           /\ Out(t) = Partner(t)
           /\ Futex1(t) = IF IsFirst(t) THEN t ELSE Partner(t)
           /\ Futex2(t) = IF IsFirst(t) THEN Partner(t) ELSE t
BY ThreadsEven DEF Threads, Partner, IsFirst, In, Out, Futex1, Futex2

-----------------------------------------------------------------------------
(* The inductive invariant.                                                *)

(* A delayed store belongs to a thread that makes no futex call before the  *)
(* store is visible.                                                        *)
PendingInv == \A t \in pending :
    pc[t] \in IF IsFirst(t) THEN {"check", "store", "cancelStore1"} ELSE {"store"}

(* While the first thread is on its way to sleep and has not been answered, *)
(* and the second thread has nothing left to send, the second thread's      *)
(* futex is raised: a pair never loses both of its wakeups.                 *)
TokenInv == \A t \in Threads :
    /\ IsFirst(t)
    /\ pc[t] \in {"wake", "wait", "blocked"}
    /\ futex[In(t)] = 0
    /\ pc[Partner(t)] \in {"wake", "check", "wait", "blocked"}
    => futex[Out(t)] = 1

CancelInv == \A t \in Threads : pc[t] \in Cancelling \cup {"done"} => term

IInv == TypeOK /\ PendingInv /\ NoLostWakeup /\ TokenInv /\ CancelInv

LEMMA InitTypeOK == Init => TypeOK
<1> SUFFICES ASSUME Init PROVE TypeOK
  OBVIOUS
<1>1. pc \in [Threads -> Labels]
  BY DEF Init, Labels
<1>2. futex \in [Threads -> {0, 1}] /\ count \in [Threads -> Nat]
  BY DEF Init
<1>3. term \in BOOLEAN /\ pending \in SUBSET Threads
  BY DEF Init
<1>4. QED
  BY <1>1, <1>2, <1>3 DEF TypeOK

(* Type correctness: every step of run_futex keeps the futex words, the     *)
(* program counters and the iteration counts in range.                      *)
THEOREM TypeCorrect == Spec => []TypeOK
<1>1. Init => TypeOK
  BY InitTypeOK
<1>2. TypeOK /\ [Next]_vars => TypeOK'
  <2> SUFFICES ASSUME TypeOK, [Next]_vars PROVE TypeOK'
    OBVIOUS
  <2> USE DEF TypeOK, Labels, Iterating, Cancelling, GoTo, CountIteration
  <2>1. CASE Cancel
    BY <2>1 DEF Cancel
  <2>2. ASSUME NEW t \in Threads, CheckTerm(t) PROVE TypeOK'
    BY <2>2 DEF CheckTerm
  <2>3. ASSUME NEW t \in Threads, Store(t) PROVE TypeOK'
    BY <2>3, PairFacts DEF Store, StoreOne
  <2>4. ASSUME NEW t \in Threads, Wake(t) PROVE TypeOK'
    BY <2>4 DEF Wake, WakeOne
  <2>5. ASSUME NEW t \in Threads, Wait(t) PROVE TypeOK'
    BY <2>5 DEF Wait
  <2>6. ASSUME NEW t \in Threads, Reset(t) PROVE TypeOK'
    BY <2>6, PairFacts DEF Reset
  <2>7. ASSUME NEW t \in Threads, OnCancelled(t) PROVE TypeOK'
    BY <2>7, PairFacts DEF OnCancelled, StoreOne, WakeOne
  <2>8. ASSUME NEW t \in Threads, Drain(t) \/ Interrupted(t) PROVE TypeOK'
    BY <2>8, PairFacts DEF Drain, Interrupted
  <2>9. CASE UNCHANGED vars
    BY <2>9 DEF vars
  <2>10. QED
    BY <2>1, <2>2, <2>3, <2>4, <2>5, <2>6, <2>7, <2>8, <2>9
       DEF Next, Returned, Thread, OneIteration
<1>3. QED
  BY <1>1, <1>2, PTL DEF Spec

(* A futex never loses a wakeup, two threads of a pair never sleep at the   *)
(* same time, and a delayed store never falls behind a futex call: the part *)
(* of the argument that holds in either memory model.                       *)
THEOREM IInvCorrect == Spec => []IInv
<1>1. Init => IInv
  <2> SUFFICES ASSUME Init PROVE IInv
    OBVIOUS
  <2>1. TypeOK
    BY InitTypeOK
  <2>2. QED
    BY <2>1 DEF Init, IInv, PendingInv, NoLostWakeup, TokenInv, CancelInv, Cancelling
<1>2. IInv /\ TypeOK' /\ [Next]_vars => IInv'
  <2> SUFFICES ASSUME IInv, TypeOK', [Next]_vars PROVE IInv'
    OBVIOUS
  <2> USE PairFacts DEF IInv, TypeOK, PendingInv, NoLostWakeup, TokenInv, CancelInv,
          AboutToWake, Cancelling, GoTo
  <2>1. CASE Cancel
    BY <2>1 DEF Cancel
  <2>2. ASSUME NEW t \in Threads, CheckTerm(t) PROVE IInv'
    BY <2>2 DEF CheckTerm
  <2>3. ASSUME NEW t \in Threads, Store(t) PROVE IInv'
    BY <2>3 DEF Store, StoreOne
  <2>4. ASSUME NEW t \in Threads, Wake(t) PROVE IInv'
    BY <2>4 DEF Wake, WakeOne
  <2>5. ASSUME NEW t \in Threads, Wait(t) PROVE IInv'
    BY <2>5 DEF Wait
  <2>6. ASSUME NEW t \in Threads, Reset(t) PROVE IInv'
    BY <2>6 DEF Reset
  <2>7. ASSUME NEW t \in Threads, OnCancelled(t) PROVE IInv'
    BY <2>7 DEF OnCancelled, StoreOne, WakeOne
  <2>8. ASSUME NEW t \in Threads, Drain(t) \/ Interrupted(t) PROVE IInv'
    BY <2>8 DEF Drain, Interrupted
  <2>9. CASE UNCHANGED vars
    BY <2>9 DEF vars
  <2>10. QED
    BY <2>1, <2>2, <2>3, <2>4, <2>5, <2>6, <2>7, <2>8, <2>9
       DEF Next, Returned, Thread, OneIteration
<1>3. QED
  BY <1>1, <1>2, TypeCorrect, PTL DEF Spec

-----------------------------------------------------------------------------
(* Until the flag is raised a pair never comes to rest, in either memory    *)
(* model and for any number of pairs.                                       *)
THEOREM DeadlockFreeBeforeCancel == Spec => []NoDeadlockBeforeCancel
<1>1. IInv => NoDeadlockBeforeCancel
  <2> SUFFICES ASSUME IInv, ~term, NEW t \in Threads,
                      pc[t] = "blocked", pc[Partner(t)] \in {"blocked", "done"}
               PROVE  FALSE
    BY DEF NoDeadlockBeforeCancel, NoDeadlock
  <2>1. pc[Partner(t)] = "blocked"
    BY PairFacts DEF IInv, CancelInv
  <2>2. futex[t] = 0 /\ futex[Partner(t)] = 0
    BY <2>1, PairFacts DEF IInv, TypeOK, NoLostWakeup, AboutToWake
  <2>3. QED
    BY <2>1, <2>2, PairFacts DEF IInv, TokenInv
<1>2. QED
  BY <1>1, IInvCorrect, PTL

(* FUTEX_WAIT and FUTEX_WAKE never miss each other: a thread asleep on a    *)
(* raised futex is about to be woken.                                       *)
THEOREM WakeupsNotLost == Spec => []NoLostWakeup
BY IInvCorrect, PTL DEF IInv

-----------------------------------------------------------------------------
(* Cancellation, with stores that are not delayed.                          *)

\* t has run the store of on_cancelled to the futex its partner waits on
HasReleased(t) ==
    pc[t] \in {"cancelWake2", "done"} \cup
        IF IsFirst(t) THEN {} ELSE {"cancelWake1", "cancelStore2"}

\* t may still sleep before it loads the flag again
MaySleep(t) ==
    pc[t] \in {"wait", "blocked"} \cup IF IsFirst(t) THEN {"store", "wake"} ELSE {}

ReleaseInv == \A t \in Threads :
    HasReleased(Partner(t)) /\ MaySleep(t) => futex[In(t)] = 1

SCInv == ~StoreBuffers /\ pending = {} /\ ReleaseInv

(* With sequentially consistent stores a pair never comes to rest at all:   *)
(* a thread that returns has released its partner (lib.rs:24-27,169-173).   *)
THEOREM DeadlockFree == Spec /\ ~StoreBuffers => []NoDeadlock
<1>1. Init /\ ~StoreBuffers => SCInv
  BY PairFacts DEF Init, SCInv, ReleaseInv, HasReleased
<1>2. IInv /\ SCInv /\ IInv' /\ [Next]_vars => SCInv'
  <2> SUFFICES ASSUME IInv, SCInv, IInv', [Next]_vars PROVE SCInv'
    OBVIOUS
  <2> USE PairFacts DEF IInv, SCInv, TypeOK, CancelInv, ReleaseInv, HasReleased, MaySleep,
          Cancelling, GoTo
  <2>1. CASE Cancel
    BY <2>1 DEF Cancel
  <2>2. ASSUME NEW t \in Threads, CheckTerm(t) PROVE SCInv'
    BY <2>2 DEF CheckTerm
  <2>3. ASSUME NEW t \in Threads, Store(t) PROVE SCInv'
    BY <2>3 DEF Store, StoreOne
  <2>4. ASSUME NEW t \in Threads, Wake(t) PROVE SCInv'
    BY <2>4 DEF Wake, WakeOne
  <2>5. ASSUME NEW t \in Threads, Wait(t) PROVE SCInv'
    BY <2>5 DEF Wait
  <2>6. ASSUME NEW t \in Threads, Reset(t) PROVE SCInv'
    BY <2>6 DEF Reset
  <2>7. ASSUME NEW t \in Threads, OnCancelled(t) PROVE SCInv'
    BY <2>7 DEF OnCancelled, StoreOne, WakeOne
  <2>8. ASSUME NEW t \in Threads, Drain(t) \/ Interrupted(t)
        PROVE  SCInv'
    BY <2>8 DEF Drain, Interrupted
  <2>9. CASE UNCHANGED vars
    BY <2>9 DEF vars
  <2>10. QED
    BY <2>1, <2>2, <2>3, <2>4, <2>5, <2>6, <2>7, <2>8, <2>9
       DEF Next, Returned, Thread, OneIteration
<1>3. IInv /\ SCInv => NoDeadlock
  <2> SUFFICES ASSUME IInv, SCInv, NEW t \in Threads,
                      pc[t] = "blocked", pc[Partner(t)] \in {"blocked", "done"}
               PROVE  FALSE
    BY DEF NoDeadlock
  <2>1. futex[t] = 0
    BY PairFacts DEF IInv, TypeOK, NoLostWakeup, AboutToWake
  <2>2. pc[Partner(t)] = "blocked"
    BY <2>1, PairFacts DEF SCInv, ReleaseInv, HasReleased, MaySleep
  <2>3. futex[Partner(t)] = 0
    BY <2>2, PairFacts DEF IInv, TypeOK, NoLostWakeup, AboutToWake
  <2>4. QED
    BY <2>1, <2>2, <2>3, PairFacts DEF IInv, TokenInv
<1>4. QED
  BY <1>1, <1>2, <1>3, IInvCorrect, PTL DEF Spec

-----------------------------------------------------------------------------
(* The futex runner takes no step that Runner does not allow, in either      *)
(* memory model.                                                            *)

Running == {t \in Threads : pc[t] # "done"}
Finishing == IF term THEN {t \in Threads : pc[t] \in Iterating} ELSE {}

(* A thread inside an iteration has not used up the bound on the count.     *)
BoundInv == \A t \in Threads : pc[t] \in Iterating => count[t] < MaxCount

(* A step within an iteration, or within on_cancelled, changes nothing that  *)
(* Runner speaks of.                                                        *)
LEMMA WithinIsStutter ==
    ASSUME UNCHANGED <<term, count>>,
           \A t \in Threads : /\ pc'[t] = "done" <=> pc[t] = "done"
                              /\ pc'[t] \in Iterating <=> pc[t] \in Iterating
    PROVE  UNCHANGED Abstract!vars
<1>1. Running' = Running /\ Finishing' = Finishing
  BY DEF Running, Finishing
<1>2. QED
  BY <1>1 DEF Abstract!vars, Running, Finishing

(* The end of an iteration is Runner's Iterate.                             *)
LEMMA EndIsIterate ==
    ASSUME TypeOK, BoundInv, NEW t \in Threads, pc[t] \in Iterating,
           count' = [count EXCEPT ![t] = @ + 1], UNCHANGED term,
           pc'[t] = "check",
           \A u \in Threads \ {t} : /\ pc'[u] = "done" <=> pc[u] = "done"
                                    /\ pc'[u] \in Iterating <=> pc[u] \in Iterating
    PROVE  Abstract!Next
<1>1. Running' = Running /\ t \in Running
  BY DEF Running, Iterating
<1>2. Finishing' = Finishing \ {t} /\ (term => t \in Finishing)
  BY DEF Finishing, Iterating
<1>3. Abstract!Iterate(t)
  BY <1>1, <1>2 DEF Abstract!Iterate, Running, Finishing, BoundInv
<1>4. QED
  BY <1>3 DEF Abstract!Next

THEOREM FutexImplementsRunner == Spec => Abstract!Safety
<1>1. Init => BoundInv /\ Abstract!Init
  BY DEF Init, BoundInv, Iterating, Abstract!Init
<1>2. IInv /\ BoundInv /\ [Next]_vars => BoundInv'
  <2> SUFFICES ASSUME IInv, BoundInv, [Next]_vars PROVE BoundInv'
    OBVIOUS
  <2> USE PairFacts DEF IInv, TypeOK, BoundInv, Iterating, GoTo, CountIteration
  <2>1. CASE Cancel \/ Returned
    BY <2>1 DEF Cancel, Returned, vars
  <2>2. ASSUME NEW t \in Threads, CheckTerm(t) PROVE BoundInv'
    BY <2>2 DEF CheckTerm
  <2>3. ASSUME NEW t \in Threads, Store(t) \/ Wake(t) PROVE BoundInv'
    BY <2>3 DEF Store, StoreOne, Wake, WakeOne
  <2>4. ASSUME NEW t \in Threads, Wait(t) \/ Reset(t) PROVE BoundInv'
    BY <2>4 DEF Wait, Reset
  <2>5. ASSUME NEW t \in Threads, OnCancelled(t) PROVE BoundInv'
    BY <2>5 DEF OnCancelled, StoreOne, WakeOne
  <2>6. ASSUME NEW t \in Threads, Drain(t) \/ Interrupted(t) PROVE BoundInv'
    BY <2>6 DEF Drain, Interrupted
  <2>7. CASE UNCHANGED vars
    BY <2>7 DEF vars
  <2>8. QED
    BY <2>1, <2>2, <2>3, <2>4, <2>5, <2>6, <2>7 DEF Next, Thread, OneIteration
<1>3. IInv /\ BoundInv /\ [Next]_vars => [Abstract!Next]_(Abstract!vars)
  <2> SUFFICES ASSUME IInv, BoundInv, [Next]_vars
               PROVE  Abstract!Next \/ UNCHANGED Abstract!vars
    OBVIOUS
  <2> USE PairFacts DEF IInv, TypeOK, GoTo
  <2>1. CASE Cancel
    <3>1. Running' = Running /\ Finishing = {} /\ Finishing' \subseteq Running
      BY <2>1 DEF Cancel, Running, Finishing, Iterating
    <3>2. Abstract!Cancel
      BY <2>1, <3>1 DEF Cancel, Abstract!Cancel, Running, Finishing
    <3>3. QED
      BY <3>2 DEF Abstract!Next
  <2>2. ASSUME NEW t \in Threads, CheckTerm(t) PROVE UNCHANGED Abstract!vars
    <3>1. CASE term
      BY <2>2, <3>1, WithinIsStutter DEF CheckTerm, Iterating
    <3>2. CASE ~term
      <4>1. Running' = Running /\ Finishing' = Finishing /\ UNCHANGED <<term, count>>
        BY <2>2, <3>2 DEF CheckTerm, Running, Finishing
      <4>2. QED
        BY <4>1 DEF Abstract!vars, Running, Finishing
    <3>3. QED
      BY <3>1, <3>2
  <2>3. ASSUME NEW t \in Threads, Store(t) \/ Wait(t) \/ Drain(t) \/ Interrupted(t)
        PROVE  UNCHANGED Abstract!vars
    BY <2>3, WithinIsStutter DEF Store, StoreOne, Wait, Drain, Interrupted, Iterating
  <2>4. ASSUME NEW t \in Threads, Wake(t)
        PROVE  Abstract!Next \/ UNCHANGED Abstract!vars
    <3>1. CASE IsFirst(t)
      BY <2>4, <3>1, WithinIsStutter DEF Wake, WakeOne, Iterating
    <3>2. CASE ~IsFirst(t)
      BY <2>4, <3>2, EndIsIterate DEF Wake, WakeOne, CountIteration, Iterating
    <3>3. QED
      BY <3>1, <3>2
  <2>5. ASSUME NEW t \in Threads, Reset(t)
        PROVE  Abstract!Next \/ UNCHANGED Abstract!vars
    <3>1. CASE IsFirst(t)
      BY <2>5, <3>1, EndIsIterate DEF Reset, CountIteration, Iterating
    <3>2. CASE ~IsFirst(t)
      BY <2>5, <3>2, WithinIsStutter DEF Reset, Iterating
    <3>3. QED
      BY <3>1, <3>2
  <2>6. ASSUME NEW t \in Threads, OnCancelled(t)
        PROVE  Abstract!Next \/ UNCHANGED Abstract!vars
    <3>1. CASE pc[t] = "cancelWake2"
      <4>1. /\ WakeOne(t, "cancelWake2", Futex2(t), "done") /\ UNCHANGED count
            /\ term
        BY <2>6, <3>1 DEF OnCancelled, StoreOne, WakeOne, CancelInv, Cancelling
      <4>2. /\ t \in Running \ Finishing /\ Running' = Running \ {t}
            /\ Finishing' = Finishing
        BY <3>1, <4>1 DEF WakeOne, Running, Finishing, Iterating
      <4>3. Abstract!Return(t)
        BY <4>1, <4>2 DEF Abstract!Return, WakeOne, Running, Finishing
      <4>4. QED
        BY <4>3 DEF Abstract!Next
    <3>2. CASE pc[t] # "cancelWake2"
      BY <2>6, <3>2, WithinIsStutter DEF OnCancelled, StoreOne, WakeOne, Iterating
    <3>3. QED
      BY <3>1, <3>2
  <2>7. CASE UNCHANGED vars
    BY <2>7, WithinIsStutter DEF vars
  <2>8. QED
    BY <2>1, <2>2, <2>3, <2>4, <2>5, <2>6, <2>7 DEF Next, Returned, Thread, OneIteration
<1>4. QED
  BY <1>1, <1>2, <1>3, IInvCorrect, PTL DEF Spec, Abstract!Safety

=============================================================================
