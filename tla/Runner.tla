------------------------------- MODULE Runner -------------------------------
(***************************************************************************)
(* What `run` and the Runner trait of rust/csgb/src/lib.rs promise, without *)
(* saying how an iteration is made.  A group of threads iterates until the  *)
(* termination flag is raised; a thread caught inside an iteration finishes *)
(* it, no thread begins another, and every thread returns.  The runners     *)
(* that link two threads (FutexPair) are shown to implement this module.    *)
(***************************************************************************)
EXTENDS Naturals

CONSTANTS Threads,    \* the spawned threads
          MaxCount    \* bound on the iterations of one thread

VARIABLES term,       \* the AtomicBool raised by SIGTERM and SIGINT
          running,    \* threads that have not returned from their loop
          finishing,  \* threads inside the last iteration they will make
          count       \* iterations each thread has made

vars == <<term, running, finishing, count>>

Init == /\ term = FALSE
        /\ running = Threads
        /\ finishing = {}
        /\ count = [t \in Threads |-> 0]

Cancel == /\ ~term
          /\ term' = TRUE
          /\ finishing' \in SUBSET running
          /\ UNCHANGED <<running, count>>

Iterate(t) == /\ t \in running
              /\ term => t \in finishing
              /\ count[t] < MaxCount
              /\ count' = [count EXCEPT ![t] = @ + 1]
              /\ finishing' = finishing \ {t}
              /\ UNCHANGED <<term, running>>

Return(t) == /\ term
             /\ t \in running \ finishing
             /\ running' = running \ {t}
             /\ UNCHANGED <<term, finishing, count>>

Next == Cancel \/ \E t \in Threads : Iterate(t) \/ Return(t)

\* what a runner may do, and that it does not stop half-way once cancelled
Safety == Init /\ [][Next]_vars

Spec == /\ Safety
        /\ \A t \in Threads : WF_vars(Return(t)) /\ WF_vars(term /\ Iterate(t))

=============================================================================
