------------------------------- MODULE EchoRun -------------------------------
(***************************************************************************)
(* What RunClients of golang/internal/echo/tcp.go promises, without the     *)
(* network, the server, the semaphore and the wait group: each client tries *)
(* a few times to connect, a limited number of them at once; it may start   *)
(* over only until it has made its first round trip; it makes a second one  *)
(* only when all others have made one or ended; it ends well only with all  *)
(* the round trips it was told to make.  The first client that fails was    *)
(* interrupted, or has tried as often as it may without a round trip.       *)
(* TcpEcho is shown to implement this module.                               *)
(***************************************************************************)
EXTENDS Naturals, FiniteSets

CONSTANTS Clients,         \* the clients of the run
          SemLimit,        \* how many may connect at once
          NumIterations,   \* the round trips of a client; 0 until it is stopped
          MaxRetries       \* how often a client tries to connect

VARIABLES phase,         \* where each client is; "nil" and "err" are its ends
          tries,         \* its attempts, with the current one
          rounds,        \* its round trips
          interrupted    \* the context of the run has ended

vars == <<phase, tries, rounds, interrupted>>

Init == /\ phase = [c \in Clients |-> "idle"]
        /\ tries = [c \in Clients |-> 1]
        /\ rounds = [c \in Clients |-> 0]
        /\ interrupted = FALSE

Dialing == {c \in Clients : phase[c] = "dialing"}

Running(c) == phase[c] \in {"idle", "dialing", "connected"}

Move(c, p) == phase' = [phase EXCEPT ![c] = p]

Interrupt == /\ ~interrupted
             /\ interrupted' = TRUE
             /\ UNCHANGED <<phase, tries, rounds>>

Dial(c) == /\ phase[c] = "idle"
           /\ Cardinality(Dialing) < SemLimit
           /\ Move(c, "dialing")
           /\ UNCHANGED <<tries, rounds, interrupted>>

Connect(c) == /\ phase[c] = "dialing"
              /\ Move(c, "connected")
              /\ UNCHANGED <<tries, rounds, interrupted>>

StartOver(c) == /\ phase[c] \in {"dialing", "connected"}
                /\ rounds[c] = 0
                /\ tries[c] < MaxRetries
                /\ tries' = [tries EXCEPT ![c] = @ + 1]
                /\ Move(c, "idle")
                /\ UNCHANGED <<rounds, interrupted>>

RoundTrip(c) == /\ phase[c] = "connected"
                /\ NumIterations > 0 => rounds[c] < NumIterations
                /\ rounds[c] > 0 => \A d \in Clients : Running(d) => rounds[d] > 0
                /\ rounds' = [rounds EXCEPT ![c] = @ + 1]
                /\ UNCHANGED <<phase, tries, interrupted>>

End(c) == /\ phase[c] = "connected"
          /\ NumIterations > 0 => rounds[c] = NumIterations
          /\ Move(c, "nil")
          /\ UNCHANGED <<tries, rounds, interrupted>>

\* of a run without a limit, which is stopped at any time, nothing is said here
Fail(c) == /\ Running(c)
           /\ \/ NumIterations = 0
              \/ interrupted
              \/ \E d \in Clients : phase[d] = "err"
              \/ phase[c] # "idle" /\ rounds[c] = 0 /\ tries[c] = MaxRetries
           /\ Move(c, "err")
           /\ UNCHANGED <<tries, rounds, interrupted>>

Next == \/ Interrupt
        \/ \E c \in Clients : \/ Dial(c) \/ Connect(c) \/ StartOver(c)
                              \/ RoundTrip(c) \/ End(c) \/ Fail(c)

Spec == Init /\ [][Next]_vars

=============================================================================
