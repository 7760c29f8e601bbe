---------------------------- MODULE TcpConnection ----------------------------
(***************************************************************************)
(* What golang/internal/echo/tcp.go sees of TCP through package net: a      *)
(* listener, its accept queue, and connections whose two ends read, write   *)
(* and close.  The echo protocol never has more than one line under way in  *)
(* each direction, so an inbox holds at most one.  Only this module is a    *)
(* model of code outside the repository.                                    *)
(***************************************************************************)
EXTENDS Naturals, FiniteSets

CONSTANTS Clients,   \* the client goroutines of RunClients
          Faults     \* which network faults may happen: see FaultKinds

\* "refuse": a dial fails for a passing reason; "drop": the peer resets a
\* connection that was never accepted; "accept": accepting fails, for want of
\* descriptors say; "ctx": the parent context ends
FaultKinds == {"refuse", "drop", "accept", "ctx"}

ASSUME ConnectionAssumption == IsFiniteSet(Clients) /\ Faults \subseteq FaultKinds

MaxRetries == 3
Conns == Clients \X (1 .. MaxRetries)   \* a client's attempts, one connection each
Sides == {"client", "server"}
Peer(s) == IF s = "client" THEN "server" ELSE "client"

VARIABLES ctxDone,    \* the context handed to RunClients and to Accept has ended
          listening,  \* the listener is open
          link,       \* life of a connection up to listener.Accept
          inbox,      \* lines that have arrived and are not read yet
          closed,     \* ends closed by their own program
          rst         \* ends where an RST from the peer has arrived

netVars == <<ctxDone, listening, link, inbox, closed, rst>>
endVars == <<inbox, closed, rst>>

NetTypeOK == /\ ctxDone \in BOOLEAN
             /\ listening \in BOOLEAN
             /\ link \in [Conns -> {"none", "queued", "accepted", "dropped"}]
             /\ inbox \in [Conns \X Sides -> 0 .. 1]
             /\ closed \in SUBSET (Conns \X Sides)
             /\ rst \in SUBSET (Conns \X Sides)

NetInit == /\ ctxDone = FALSE
           /\ listening = TRUE
           /\ link = [k \in Conns |-> "none"]
           /\ inbox = [e \in Conns \X Sides |-> 0]
           /\ closed = {}
           /\ rst = {}

-----------------------------------------------------------------------------
\* conn.Read: what it returns now; the empty set means that it blocks
ReadResults(k, s) ==
    IF <<k, s>> \in closed THEN {"closed"}
    ELSE IF inbox[<<k, s>>] = 1 THEN {"data"}
    ELSE IF <<k, s>> \in rst
         THEN IF <<k, Peer(s)>> \in closed THEN {"reset", "eof"} ELSE {"reset"}
    ELSE IF <<k, Peer(s)>> \in closed THEN {"eof"}
    ELSE {}

Consume(k, s) == /\ inbox' = [inbox EXCEPT ![<<k, s>>] = 0]
                 /\ UNCHANGED <<closed, rst>>

\* conn.Write
WriteResult(k, s) == IF <<k, s>> \in closed THEN "closed"
                     ELSE IF <<k, s>> \in rst THEN "reset" ELSE "ok"

\* a line sent to a closed peer is answered by an RST, sooner or later
Deliver(k, s) ==
    IF <<k, Peer(s)>> \in closed
    THEN rst' \in {rst, rst \cup {<<k, s>>}} /\ UNCHANGED <<inbox, closed>>
    ELSE inbox' = [inbox EXCEPT ![<<k, Peer(s)>>] = 1] /\ UNCHANGED <<closed, rst>>

\* conn.Close: idempotent; the peer gets an RST if a line was left unread
Close(k, s) ==
    /\ closed' = closed \cup {<<k, s>>}
    /\ rst' = IF <<k, s>> \notin closed /\ inbox[<<k, s>>] = 1
              THEN rst \cup {<<k, Peer(s)>>} ELSE rst
    /\ UNCHANGED inbox

\* a connection completes its handshake and waits to be accepted
Connect(k) == link' = [link EXCEPT ![k] = "queued"]

\* listener.Close resets the connections that were not accepted
CloseListener ==
    /\ listening
    /\ listening' = FALSE
    /\ link' = [k \in Conns |-> IF link[k] = "queued" THEN "dropped" ELSE link[k]]
    /\ rst' = rst \cup {<<k, "client">> : k \in {j \in Conns : link[j] = "queued"}}
    /\ UNCHANGED <<ctxDone, inbox, closed>>

\* the server's kernel resets a connection it has no room to queue
Drop(k) == /\ "drop" \in Faults
           /\ link[k] = "queued"
           /\ link' = [link EXCEPT ![k] = "dropped"]
           /\ rst' = rst \cup {<<k, "client">>}
           /\ UNCHANGED <<ctxDone, listening, inbox, closed>>

EndContext == /\ "ctx" \in Faults
              /\ ~ctxDone
              /\ ctxDone' = TRUE
              /\ UNCHANGED <<listening, link, inbox, closed, rst>>

=============================================================================
