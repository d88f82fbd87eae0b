--------------------------- MODULE ReliableChannel ---------------------------
(***************************************************************************)
(* What the message layer promises for the reliable stream of each client  *)
(* to the server application, said without datagrams, queues or sequence   *)
(* numbers.  Messages are the numbers 1, 2, ... of the client's pushes.    *)
(* The server may receive the stream in several sessions, one after the    *)
(* other; each starts at the first message and is gapless.                 *)
(***************************************************************************)
EXTENDS Naturals, Sequences

CONSTANT Clients

VARIABLES
    sent,       \* client -> number of messages pushed
    live,       \* client -> the sender still exists
    confirmed,  \* client -> messages the sender regards as delivered
    open,       \* client -> the server has a session for it
    got,        \* client -> what the application got in that session
    ever        \* client -> everything it got in any session

chanVars == <<sent, live, confirmed, open, got, ever>>

Init ==
    /\ sent = [c \in Clients |-> 0]
    /\ live = [c \in Clients |-> TRUE]
    /\ confirmed = [c \in Clients |-> 0]
    /\ open = [c \in Clients |-> FALSE]
    /\ got = [c \in Clients |-> << >>]
    /\ ever = [c \in Clients |-> {}]

Send(c) ==
    /\ live[c]
    /\ sent' = [sent EXCEPT ![c] = @ + 1]
    /\ UNCHANGED <<live, confirmed, open, got, ever>>

(* The sender may regard a message as delivered only after it was.  *)
Confirm(c) ==
    /\ live[c]
    /\ confirmed[c] + 1 \in ever[c]
    /\ confirmed' = [confirmed EXCEPT ![c] = @ + 1]
    /\ UNCHANGED <<sent, live, open, got, ever>>

Abandon(c) ==
    /\ live[c]
    /\ live' = [live EXCEPT ![c] = FALSE]
    /\ confirmed' = [confirmed EXCEPT ![c] = 0]
    /\ UNCHANGED <<sent, open, got, ever>>

(* The first message opens a session.  *)
Open(c) ==
    /\ ~open[c]
    /\ sent[c] >= 1
    /\ open' = [open EXCEPT ![c] = TRUE]
    /\ got' = [got EXCEPT ![c] = <<1>>]
    /\ ever' = [ever EXCEPT ![c] = @ \cup {1}]
    /\ UNCHANGED <<sent, live, confirmed>>

Deliver(c) ==
    /\ open[c]
    /\ Len(got[c]) < sent[c]
    /\ got' = [got EXCEPT ![c] = Append(@, Len(@) + 1)]
    /\ ever' = [ever EXCEPT ![c] = @ \cup {Len(got[c]) + 1}]
    /\ UNCHANGED <<sent, live, confirmed, open>>

(* A delivered message that ends the session.  *)
DeliverAndClose(c) ==
    /\ open[c]
    /\ Len(got[c]) < sent[c]
    /\ open' = [open EXCEPT ![c] = FALSE]
    /\ got' = [got EXCEPT ![c] = << >>]
    /\ ever' = [ever EXCEPT ![c] = @ \cup {Len(got[c]) + 1}]
    /\ UNCHANGED <<sent, live, confirmed>>

Close(c) ==
    /\ open[c]
    /\ open' = [open EXCEPT ![c] = FALSE]
    /\ got' = [got EXCEPT ![c] = << >>]
    /\ UNCHANGED <<sent, live, confirmed, ever>>

Next ==
    \E c \in Clients :
        \/ Send(c) \/ Confirm(c) \/ Abandon(c)
        \/ Open(c) \/ Deliver(c) \/ DeliverAndClose(c) \/ Close(c)

Spec == Init /\ [][Next]_chanVars
=============================================================================
