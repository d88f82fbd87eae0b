-------------------------- MODULE MessageSequencer --------------------------
(***************************************************************************)
(* The reliable/unreliable message layer of Goat Attack                    *)
(* (src/Engine/src/MessageSequencer.cpp): one server and its clients, each *)
(* running cycle() on a UDP socket.  The same class plays both roles.  An  *)
(* "end" <<r, c>> is the place of one SequencerHeap: <<"server", c>> is    *)
(* the heap the server keeps for the address of client c, <<"client", c>>  *)
(* is heaps[0] of client c.                                                *)
(*                                                                         *)
(* The network is the set of all datagrams ever sent: a datagram may be    *)
(* received never (loss), at any later time (reordering, delay) and again  *)
(* (duplication), also after the heap that sent it is gone.                *)
(*                                                                         *)
(* Time is abstracted: a resend or a ping may be due at any cycle.  Module *)
(* HeapTimers has the clock.                                               *)
(***************************************************************************)
EXTENDS Naturals, Sequences, FiniteSets

CONSTANTS
    NoHeap,       \* a heap pointer that is null
    Clients,      \* the client sockets; a client never logs in twice
    BadLogin,     \* the clients whose password or protocol version is wrong
    MaxHeaps,     \* max_heaps, the num_players setting
    MaxResends,   \* MaxResends
    MaxPings,     \* PingTimeout / PingInterval
    Unsolicited,  \* bound: the unreliable commands an end sends on its own: pairs of
                  \*        "client" or "server" and "Ping" or "State"
    MaxPush,      \* bound: reliable messages pushed per heap
    MaxUnrel,     \* bound: unreliable datagrams sent per heap
    MaxSessions,  \* bound: heaps the server creates per client address
    MaxQueue      \* bound: length of in_queue

ASSUME ConstAssumption ==
    /\ BadLogin \subseteq Clients
    /\ IsFiniteSet(Clients)
    /\ MaxHeaps \in Nat
    /\ MaxResends \in Nat \ {0}
    /\ MaxPings \in Nat
    /\ {MaxPush, MaxUnrel, MaxSessions, MaxQueue} \subseteq Nat

VARIABLES
    heap,        \* end -> its SequencerHeap, or NoHeap
    net,         \* every datagram sent so far
    phase,       \* client -> where its application is in login / logout
    players,     \* client -> Player objects the server application holds for it
    session,     \* client -> heaps the server has created for it so far
    pushed,      \* history: end -> reliable messages pushed on its present heap
    given        \* history: end -> every reliable message its application has
                 \*   ever received, as <<session of the sender, number>>

vars == <<heap, net, phase, players, session, pushed, given>>

Ends == {"client", "server"} \X Clients
Peer(e) == <<IF e[1] = "client" THEN "server" ELSE "client", e[2]>>
ServerEnd(c) == <<"server", c>>
ClientEnd(c) == <<"client", c>>

ReliableCmds   == {"Login", "Logout", "Data"}
Refusals       == {"ServerFull", "WrongPassword"}
UnreliableCmds == Refusals \cup {"Ack", "Ping", "Pong", "State"}

(* A queued message.  The session and the number of its push stand for the *)
(* content; the protocol itself only sees seq_no and cmd.                  *)
QueueMessage == [seq_no: Nat, cmd: ReliableCmds, num: Nat, sess: Nat]

(* A datagram.  For an Ack, num is the acknowledged sequence number.       *)
Datagram == [to: Ends, reliable: {TRUE}, seq_no: Nat, cmd: ReliableCmds,
             num: Nat, sess: Nat]
       \cup [to: Ends, reliable: {FALSE}, seq_no: Nat, cmd: UnreliableCmds,
             num: Nat, sess: Nat]

Heap == [last_send_rel: Nat, last_send_unrel: Nat,
         last_recv_rel: Nat, last_recv_unrel: Nat,
         in_queue: Seq(QueueMessage), out_queue: Seq(QueueMessage),
         resends: Nat,             \* of the head of out_queue
         sent_pings: Nat,
         deferred_kill: BOOLEAN,
         logged_in: BOOLEAN,       \* event_login was raised for this heap
         delivered: Seq(Nat \X Nat)] \* history: the reliable messages given to
                                   \* the application, as <<session, number>>

ASSUME NoHeapAssumption == NoHeap \notin Heap

NewHeap == [last_send_rel |-> 0, last_send_unrel |-> 0,
            last_recv_rel |-> 0, last_recv_unrel |-> 0,
            in_queue |-> << >>, out_queue |-> << >>,
            resends |-> 0, sent_pings |-> 0,
            deferred_kill |-> FALSE, logged_in |-> FALSE,
            delivered |-> << >>]

Alive(e) == heap[e] # NoHeap
SessionOf(e) == IF e[1] = "server" THEN session[e[2]] ELSE 1
ServerHeaps == {c \in Clients : Alive(ServerEnd(c))}

-----------------------------------------------------------------------------
(* Sending.                                                                *)

(* slack_send of an unreliable datagram from end e, whose heap is h.  *)
Unreliable(e, h, cmd, n) ==
    [to |-> Peer(e), reliable |-> FALSE, seq_no |-> h.last_send_unrel + 1,
     cmd |-> cmd, num |-> n, sess |-> 0]

CountUnrel(h) == [h EXCEPT !.last_send_unrel = @ + 1]

(* slack_send of the head of out_queue.  *)
Reliable(e, m) ==
    [to |-> Peer(e), reliable |-> TRUE, seq_no |-> m.seq_no,
     cmd |-> m.cmd, num |-> m.num, sess |-> m.sess]

(* A refusal: sequence number 0, not tied to any heap.  *)
Refusal(c, cmd) ==
    [to |-> ClientEnd(c), reliable |-> FALSE, seq_no |-> 0,
     cmd |-> cmd, num |-> 0, sess |-> 0]

(* push() with NetFlagsReliable, on heap h of end e.  *)
Pushed(e, h, cmd) ==
    [h EXCEPT !.last_send_rel = @ + 1,
              !.out_queue = Append(@, [seq_no |-> h.last_send_rel + 1, cmd |-> cmd,
                                       num |-> pushed[e] + 1, sess |-> SessionOf(e)])]

PushReliable(e, cmd) ==
    /\ Alive(e)
    /\ pushed[e] < MaxPush
    /\ heap' = [heap EXCEPT ![e] = Pushed(e, heap[e], cmd)]
    /\ pushed' = [pushed EXCEPT ![e] = @ + 1]
    /\ UNCHANGED <<net, players, session, given>>

-----------------------------------------------------------------------------
(* The end of a heap.                                                      *)

(* event_logout of the server application deletes the Player; the client   *)
(* application is told and keeps no state here.                            *)
(* Mutant: as if both applications shared the code.                        *)
PlayersAfterAnyLogout(e) == [players EXCEPT ![e[2]] = @ - 1]

PlayersAfterLogout(e) ==
    IF e[1] = "server" /\ players[e[2]] > 0
    THEN [players EXCEPT ![e[2]] = @ - 1] ELSE players

(* Mutant: the heap goes without an event_logout.  *)
KillSilently(e, out) ==
    /\ heap' = [heap EXCEPT ![e] = NoHeap]
    /\ net' = net \cup out
    /\ UNCHANGED <<phase, players, session, pushed, given>>

(* kill_heap_with_logout(): nothing is sent to the peer.  out is what this *)
(* cycle has sent before.                                                  *)
Kill(e, out) ==
    /\ heap' = [heap EXCEPT ![e] = NoHeap]
    /\ net' = net \cup out
    /\ players' = PlayersAfterLogout(e)
    /\ UNCHANGED <<phase, session, pushed, given>>

-----------------------------------------------------------------------------
(* The visit of one heap in the loop of cycle(): deferred kill first, then *)
(* the head of in_queue.  h is the heap as the receiving part of the same  *)
(* cycle has left it, out what that part has sent.                         *)

(* Mutant: a gap in the sequence is accepted.  *)
ReadyAfterGap(h) == /\ h.in_queue # << >>
                    /\ Head(h.in_queue).seq_no > h.last_recv_rel

Ready(h) == /\ h.in_queue # << >>
            /\ Head(h.in_queue).seq_no = h.last_recv_rel + 1

(* The head of in_queue goes to the application and is acknowledged after  *)
(* that; a Logout then deletes the heap.                                   *)
IsLogin(e, m) == m.cmd = "Login" /\ e[1] = "server"

Taken(e, h) ==
    LET m == Head(h.in_queue) IN
    [h EXCEPT !.in_queue = Tail(@),
              !.last_recv_rel = m.seq_no,
              !.logged_in = @ \/ IsLogin(e, m),
              !.delivered = Append(@, <<m.sess, m.num>>)]

Deliver(e, h, out) ==
    LET m == Head(h.in_queue) IN
    /\ h.last_send_unrel < MaxUnrel
    /\ heap' = [heap EXCEPT ![e] = IF m.cmd = "Logout" THEN NoHeap
                                   ELSE CountUnrel(Taken(e, h))]
    /\ net' = net \cup out \cup {Unreliable(e, h, "Ack", m.seq_no)}
    /\ players' = IF IsLogin(e, m) THEN [players EXCEPT ![e[2]] = @ + 1]
                  ELSE IF m.cmd = "Logout" THEN PlayersAfterLogout(e) ELSE players
    /\ given' = [given EXCEPT ![e] = @ \cup {<<m.sess, m.num>>}]

Visit(e, h, out) ==
    \/ /\ h.deferred_kill
       /\ heap' = [heap EXCEPT ![e] = NoHeap]
       /\ net' = net \cup out
       /\ players' = PlayersAfterLogout(e)
       /\ UNCHANGED given
    \/ /\ ~h.deferred_kill
       /\ ~Ready(h)
       /\ heap' = [heap EXCEPT ![e] = h]
       /\ net' = net \cup out
       /\ UNCHANGED <<players, given>>
    \/ /\ ~h.deferred_kill
       /\ Ready(h)
       /\ Deliver(e, h, out)

-----------------------------------------------------------------------------
(* The receiving part of cycle().                                          *)

(* sorted_insert() puts m behind the messages that do not come after it.   *)
InsertedAt(q, m, k) ==
    [i \in 1 .. Len(q) + 1 |-> IF i <= k THEN q[i]
                               ELSE IF i = k + 1 THEN m ELSE q[i - 1]]

SortedPlace(q, m, k) ==
    /\ \A i \in 1 .. k : q[i].seq_no <= m.seq_no
    /\ k < Len(q) => q[k + 1].seq_no > m.seq_no

AsQueued(d) == [seq_no |-> d.seq_no, cmd |-> d.cmd, num |-> d.num, sess |-> d.sess]

(* Mutant: no test whether the message has been delivered before.  *)
EnqueueAlways(e, h, d) ==
    /\ Len(h.in_queue) < MaxQueue
    /\ \E k \in 0 .. Len(h.in_queue) :
         /\ SortedPlace(h.in_queue, d, k)
         /\ Visit(e, [h EXCEPT !.in_queue = InsertedAt(h.in_queue, AsQueued(d), k)], {})

(* A reliable message that may still be wanted is queued, ...  *)
Enqueue(e, h, d) ==
    /\ d.seq_no > h.last_recv_rel
    /\ Len(h.in_queue) < MaxQueue
    /\ \E k \in 0 .. Len(h.in_queue) :
         /\ SortedPlace(h.in_queue, d, k)
         /\ Visit(e, [h EXCEPT !.in_queue = InsertedAt(h.in_queue, AsQueued(d), k)], {})

(* Mutant: off by one, the message that is due next counts as delivered.  *)
AckOneMore(e, h, d) ==
    /\ d.seq_no <= h.last_recv_rel + 1
    /\ h.last_send_unrel < MaxUnrel
    /\ Visit(e, CountUnrel(h), {Unreliable(e, h, "Ack", d.seq_no)})

(* ... one that has been delivered is acknowledged once more.  *)
AckAgain(e, h, d) ==
    /\ d.seq_no <= h.last_recv_rel
    /\ h.last_send_unrel < MaxUnrel
    /\ Visit(e, CountUnrel(h), {Unreliable(e, h, "Ack", d.seq_no)})

ReceiveReliable(e, d) ==
    /\ d \in net /\ d.to = e /\ Alive(e)
    /\ d.reliable
    /\ d.cmd # "Login"          \* a Login for an existing heap is ignored
    /\ Enqueue(e, heap[e], d) \/ AckAgain(e, heap[e], d)
    /\ UNCHANGED <<phase, session, pushed>>

(* An acknowledgement pops the head of out_queue if it names that message; *)
(* the one for the Login raises event_login in the client.                 *)
Popped(h) == [h EXCEPT !.out_queue = Tail(@),
                       !.resends = 0,
                       !.logged_in = @ \/ Head(h.out_queue).cmd = "Login"]

Acknowledged(h, n) ==
    IF h.out_queue # << >> /\ Head(h.out_queue).seq_no = n THEN Popped(h) ELSE h

(* An unreliable datagram is processed at once if it is newer than every   *)
(* one before it, and dropped otherwise.                                   *)
ReceiveUnreliable(e, d) ==
    LET h == [heap[e] EXCEPT !.last_recv_unrel = d.seq_no] IN
    /\ d \in net /\ d.to = e /\ Alive(e)
    /\ ~d.reliable /\ d.cmd \notin Refusals
    /\ d.seq_no > heap[e].last_recv_unrel
    /\ \/ d.cmd = "Ack"   /\ Visit(e, Acknowledged(h, d.num), {})
       \/ d.cmd = "Pong"  /\ Visit(e, [h EXCEPT !.sent_pings = 0], {})
       \/ d.cmd = "State" /\ Visit(e, h, {})
       \/ /\ d.cmd = "Ping"
          /\ h.last_send_unrel < MaxUnrel
          /\ Visit(e, CountUnrel(h), {Unreliable(e, h, "Pong", 0)})
    /\ UNCHANGED <<phase, session, pushed>>

RoomForHeap == Cardinality(ServerHeaps) < MaxHeaps

(* A Login from an address without a heap: a new heap, if the password and *)
(* protocol version are right and there is room, otherwise a refusal.      *)
AcceptLogin(c, d) ==
    LET e == ServerEnd(c) IN
    /\ d \in net /\ d.to = e /\ d.cmd = "Login" /\ ~Alive(e)
    /\ c \notin BadLogin
    /\ RoomForHeap
    /\ session[c] < MaxSessions
    /\ session' = [session EXCEPT ![c] = @ + 1]
    /\ pushed' = [pushed EXCEPT ![e] = 0]
    /\ Enqueue(e, NewHeap, d)
    /\ UNCHANGED phase

RefuseLogin(c, d) ==
    /\ d \in net /\ d.to = ServerEnd(c) /\ d.cmd = "Login"
    /\ ~Alive(ServerEnd(c))
    /\ \/ /\ c \in BadLogin
          /\ net' = net \cup {Refusal(c, "WrongPassword")}
       \/ /\ c \notin BadLogin
          /\ ~RoomForHeap
          /\ net' = net \cup {Refusal(c, "ServerFull")}
    /\ UNCHANGED <<heap, phase, players, session, pushed, given>>

(* A refusal makes the client drop its heap, in whatever state it is.  *)
ReceiveRefusal(c, d) ==
    /\ d \in net /\ d.to = ClientEnd(c) /\ d.cmd \in Refusals
    /\ Alive(ClientEnd(c))
    /\ heap' = [heap EXCEPT ![ClientEnd(c)] = NoHeap]
    /\ phase' = [phase EXCEPT ![c] = "denied"]
    /\ UNCHANGED <<net, players, session, pushed, given>>

-----------------------------------------------------------------------------
(* The rest of the loop of cycle(), for one heap.                          *)

(* A cycle in which nothing is received visits the heap too.  *)
VisitOnly(e) ==
    /\ Alive(e)
    /\ heap[e].deferred_kill \/ Ready(heap[e])
    /\ Visit(e, heap[e], {})
    /\ UNCHANGED <<phase, session, pushed>>

(* Mutant: no stop-and-wait, the newest message goes out.  *)
DueNewest(h) == h.out_queue[Len(h.out_queue)]

Due(h) == Head(h.out_queue)

(* Once more the head of out_queue; after too many times the heap goes.    *)
Resend(e) ==
    /\ Alive(e)
    /\ ~heap[e].deferred_kill
    /\ heap[e].out_queue # << >>
    /\ IF heap[e].resends + 1 > MaxResends
       THEN Kill(e, {})                               \* TooManyResends
       ELSE /\ heap' = [heap EXCEPT ![e].resends = @ + 1]
            /\ net' = net \cup {Reliable(e, Due(heap[e]))}
            /\ UNCHANGED <<phase, players, session, pushed, given>>

(* A ping is due; after too many without a pong the heap goes.  *)
Pinged(h) == [CountUnrel(h) EXCEPT !.sent_pings = h.sent_pings + 1]

Ping(e) ==
    LET ping == {Unreliable(e, heap[e], "Ping", 0)} IN
    /\ <<e[1], "Ping">> \in Unsolicited
    /\ Alive(e)
    /\ ~heap[e].deferred_kill
    /\ heap[e].last_send_unrel < MaxUnrel
    /\ IF heap[e].sent_pings + 1 > MaxPings
       THEN Kill(e, ping)                             \* PingTimeout
       ELSE /\ heap' = [heap EXCEPT ![e] = Pinged(heap[e])]
            /\ net' = net \cup ping
            /\ UNCHANGED <<phase, players, session, pushed, given>>

-----------------------------------------------------------------------------
(* The applications.                                                       *)

Login(c) ==
    /\ phase[c] = "new"
    /\ phase' = [phase EXCEPT ![c] = "running"]
    /\ PushReliable(ClientEnd(c), "Login")

(* The client sends only after event_login has set conn; the server        *)
(* application sends and broadcasts whenever the heap exists.              *)
PushData(e) ==
    /\ Alive(e)
    /\ heap[e].logged_in
    /\ e[1] = "client" => phase[e[2]] = "running"
    /\ PushReliable(e, "Data")
    /\ UNCHANGED phase

PushState(e) ==
    /\ <<e[1], "State">> \in Unsolicited
    /\ Alive(e)
    /\ heap[e].logged_in
    /\ e[1] = "client" => phase[e[2]] = "running"
    /\ heap[e].last_send_unrel < MaxUnrel
    /\ heap' = [heap EXCEPT ![e] = CountUnrel(@)]
    /\ net' = net \cup {Unreliable(e, heap[e], "State", 0)}
    /\ UNCHANGED <<phase, players, session, pushed, given>>

(* The application calls kill() for a connection (/kick, force quit).  *)
Kick(c) ==
    /\ Alive(ServerEnd(c))
    /\ heap' = [heap EXCEPT ![ServerEnd(c)].deferred_kill = TRUE]
    /\ UNCHANGED <<net, phase, players, session, pushed, given>>

(* Client::thread: logout(), then cycles as long as they find work.  *)
Logout(c) ==
    /\ phase[c] = "running"
    /\ Alive(ClientEnd(c))
    /\ phase' = [phase EXCEPT ![c] = "quitting"]
    /\ PushReliable(ClientEnd(c), "Logout")

(* The cycles end when nothing came in and nothing was due: the head of    *)
(* out_queue has been sent at least once.                                  *)
Stop(c) ==
    LET h == heap[ClientEnd(c)] IN
    /\ phase[c] = "quitting"
    /\ Alive(ClientEnd(c)) => h.out_queue = << >> \/ h.resends > 0
    /\ phase' = [phase EXCEPT ![c] = "stopped"]
    /\ heap' = [heap EXCEPT ![ClientEnd(c)] = NoHeap]
    /\ UNCHANGED <<net, players, session, pushed, given>>

(* The client process dies.  *)
Crash(c) ==
    /\ Alive(ClientEnd(c))
    /\ phase' = [phase EXCEPT ![c] = "crashed"]
    /\ heap' = [heap EXCEPT ![ClientEnd(c)] = NoHeap]
    /\ UNCHANGED <<net, players, session, pushed, given>>

-----------------------------------------------------------------------------
Init ==
    /\ heap = [e \in Ends |-> IF e[1] = "client" THEN NewHeap ELSE NoHeap]
    /\ net = {}
    /\ phase = [c \in Clients |-> "new"]
    /\ players = [c \in Clients |-> 0]
    /\ session = [c \in Clients |-> 0]
    /\ pushed = [e \in Ends |-> 0]
    /\ given = [e \in Ends |-> {}]

Cycle ==
    \/ \E e \in Ends : \/ VisitOnly(e) \/ Resend(e) \/ Ping(e)
                       \/ \E d \in net : ReceiveReliable(e, d) \/ ReceiveUnreliable(e, d)
    \/ \E c \in Clients : \E d \in net :
         AcceptLogin(c, d) \/ RefuseLogin(c, d) \/ ReceiveRefusal(c, d)

Application ==
    \/ \E e \in Ends : PushData(e) \/ PushState(e)
    \/ \E c \in Clients : Login(c) \/ Kick(c) \/ Logout(c) \/ Stop(c) \/ Crash(c)

Next == Cycle \/ Application

Spec == Init /\ [][Next]_vars

-----------------------------------------------------------------------------
TypeOK ==
    /\ heap \in [Ends -> Heap \cup {NoHeap}]
    /\ net \subseteq Datagram
    /\ phase \in [Clients -> {"new", "running", "quitting", "stopped", "crashed", "denied"}]
    /\ players \in [Clients -> Nat]
    /\ session \in [Clients -> Nat]
    /\ pushed \in [Ends -> Nat]
    /\ given \in [Ends -> SUBSET (Nat \X Nat)]

(***************************************************************************)
(* Safety.                                                                 *)
(***************************************************************************)

(* The layer implements the abstract stream of module ReliableChannel.     *)
Channel == INSTANCE ReliableChannel WITH
    sent <- [c \in Clients |-> pushed[ClientEnd(c)]],
    live <- [c \in Clients |-> Alive(ClientEnd(c))],
    confirmed <- [c \in Clients |->
                    IF Alive(ClientEnd(c))
                    THEN pushed[ClientEnd(c)] - Len(heap[ClientEnd(c)].out_queue)
                    ELSE 0],
    open <- [c \in Clients |-> Alive(ServerEnd(c))],
    got <- [c \in Clients |->
              IF Alive(ServerEnd(c))
              THEN [i \in DOMAIN heap[ServerEnd(c)].delivered |->
                      heap[ServerEnd(c)].delivered[i][2]]
              ELSE << >>],
    ever <- [c \in Clients |-> {g[2] : g \in given[ServerEnd(c)]}]

(* Every step of the protocol is a step of that stream or leaves it alone. *)
ImplementsChannel == Channel!Spec

(* What the server application receives in one session is exactly what the *)
(* client pushed, from its Login on, in order, nothing missing and nothing *)
(* twice, whatever is lost, repeated or delayed - also in a session that a *)
(* late copy of the Login has opened (cycle(), the in_queue).              *)
ClientStreamInOrder ==
    \A c \in Clients : Alive(ServerEnd(c)) =>
        LET h == heap[ServerEnd(c)] IN
        /\ Len(h.delivered) = h.last_recv_rel
        /\ \A i \in DOMAIN h.delivered : h.delivered[i] = <<1, i>>

(* The client application receives message numbers without gap or repeat;  *)
(* when the server has opened several sessions for its address, it never   *)
(* falls back from a later session to an earlier one.                      *)
ServerStreamInOrder ==
    \A c \in Clients : Alive(ClientEnd(c)) =>
        LET got == heap[ClientEnd(c)].delivered IN
        /\ \A i \in DOMAIN got : got[i][2] = i
        /\ \A i, j \in DOMAIN got : i < j => got[i][1] <= got[j][1]

(* A message that has left the client's out_queue has been given to the    *)
(* server application: an acknowledgement is never for less.               *)
Confirmed(e) == 1 .. pushed[e] - Len(heap[e].out_queue)
AckedByServerIsDelivered ==
    \A c \in Clients : Alive(ClientEnd(c)) =>
        \A n \in Confirmed(ClientEnd(c)) : <<1, n>> \in given[ServerEnd(c)]

(* The same in the other direction, as long as the server has opened one   *)
(* session for the address only.  (A second session starts counting at one *)
(* and takes acknowledgements meant for the first.)                        *)
AckedByClientIsDelivered ==
    \A c \in Clients : Alive(ServerEnd(c)) /\ session[c] = 1 =>
        \A n \in Confirmed(ServerEnd(c)) : <<1, n>> \in given[ClientEnd(c)]

(* The stream from the server to a client keeps both promises.             *)
ServerStreamSound == ServerStreamInOrder /\ AckedByClientIsDelivered

(* Stop-and-wait: between two cycles no reliable message waits in an       *)
(* in_queue, so none can block the queue, as long as the address had one   *)
(* session (cycle() takes one message from in_queue per visit).            *)
InQueueDrained ==
    \A e \in Ends : Alive(e) /\ session[e[2]] <= 1 /\ ~heap[e].deferred_kill =>
        heap[e].in_queue = << >>

(* event_login and event_logout alternate for an address, so the server    *)
(* application holds one Player exactly for the addresses with a heap      *)
(* (Server::event_login, Server::event_logout).                            *)
OnePlayerPerHeap ==
    \A c \in Clients : players[c] = IF Alive(ServerEnd(c)) THEN 1 ELSE 0

-----------------------------------------------------------------------------
(* What makes the client's stream safe, as an inductive invariant.  n is   *)
(* the number of messages the client has pushed, g what the server         *)
(* application has ever received from it.                                  *)

(* m is the client's message number m.num, with that sequence number.      *)
Genuine(m, n) ==
    /\ m.num \in 1 .. n
    /\ m.seq_no = m.num
    /\ m.sess = 1
    /\ m.cmd = "Login" => m.num = 1

(* h, of the client, holds its last pushes, numbered without a gap, ...    *)
SentInv(h, n) ==
    /\ h.last_send_rel = n
    /\ Len(h.out_queue) <= n
    /\ \A i \in 1 .. Len(h.out_queue) :
         /\ Genuine(h.out_queue[i], n)
         /\ h.out_queue[i].num = n - Len(h.out_queue) + i

(* ... and those it does not hold any more have arrived.                   *)
AckedInv(h, n, g) == \A i \in 1 .. n - Len(h.out_queue) : <<1, i>> \in g

(* h, of the server, has delivered 1 .. last_recv_rel.                     *)
ReceivedInv(h, n, g) ==
    /\ \A i \in 1 .. Len(h.in_queue) : Genuine(h.in_queue[i], n)
    /\ Len(h.delivered) = h.last_recv_rel
    /\ h.last_recv_rel <= n
    /\ \A i \in 1 .. h.last_recv_rel : h.delivered[i] = <<1, i>> /\ <<1, i>> \in g

(* Whatever is on its way to the server is a message of the client, an     *)
(* acknowledgement on its way to the client is for a delivered one.        *)
Harmless(d, n, g) ==
    \A c \in Clients :
        /\ d.reliable /\ d.to = ServerEnd(c) => Genuine(d, n[ClientEnd(c)])
        /\ d.cmd = "Ack" /\ d.to = ClientEnd(c) => <<1, d.num>> \in g[ServerEnd(c)]

SenderInv ==
    \A c \in Clients : Alive(ClientEnd(c)) =>
        /\ SentInv(heap[ClientEnd(c)], pushed[ClientEnd(c)])
        /\ AckedInv(heap[ClientEnd(c)], pushed[ClientEnd(c)], given[ServerEnd(c)])

ReceiverInv ==
    \A c \in Clients : Alive(ServerEnd(c)) =>
        /\ heap[ServerEnd(c)].last_recv_rel >= 1
        /\ ReceivedInv(heap[ServerEnd(c)], pushed[ClientEnd(c)], given[ServerEnd(c)])

NetInv == \A d \in net : Harmless(d, pushed, given)

(* A client that has not pushed its Login has pushed nothing.              *)
LoginInv == \A c \in Clients : phase[c] = "new" => pushed[ClientEnd(c)] = 0

(* Whatever loss, repetition and delay do, these facts hold between any    *)
(* two steps of cycle() and the applications; the properties of the        *)
(* client's stream follow from them.                                       *)
StreamInv ==
    /\ SenderInv
    /\ ReceiverInv
    /\ NetInv
    /\ LoginInv
    /\ OnePlayerPerHeap
=============================================================================
