--------------------------- MODULE Messages_proofs ---------------------------
(***************************************************************************)
(* The message layer, for every set of clients and every value of the      *)
(* other constants.  First the types of module MessageSequencer and the    *)
(* client's reliable stream, of which StreamInv is inductive; then both    *)
(* directions as the applications see them; then the buffer of module      *)
(* StackedSend, into which the server stacks its packets.                  *)
(***************************************************************************)
EXTENDS MessageSequencer, StackedSend, Sequence_lemmas

-----------------------------------------------------------------------------
(* What the operators on heaps and datagrams return.                       *)

LEMMA EndFacts ==
    /\ \A c \in Clients : ClientEnd(c) \in Ends /\ ServerEnd(c) \in Ends
    /\ \A c, k \in Clients : ClientEnd(c) # ServerEnd(k)
    /\ \A e \in Ends : /\ Peer(e) \in Ends
                       /\ e[2] \in Clients
                       /\ e = ClientEnd(e[2]) \/ e = ServerEnd(e[2])
                       /\ e[1] = "client" <=> e = ClientEnd(e[2])
                       /\ e[1] = "server" <=> e = ServerEnd(e[2])
    /\ \A c \in Clients : /\ Peer(ClientEnd(c)) = ServerEnd(c)
                          /\ Peer(ServerEnd(c)) = ClientEnd(c)
BY DEF Ends, Peer, ClientEnd, ServerEnd

LEMMA NewHeapType == NewHeap \in Heap
BY DEF NewHeap, Heap, QueueMessage

(* Fields of a heap keep their type when a field is overwritten.  *)
LEMMA HeapFields ==
    ASSUME NEW h \in Heap
    PROVE  /\ h.last_send_rel \in Nat /\ h.last_send_unrel \in Nat
           /\ h.last_recv_rel \in Nat /\ h.last_recv_unrel \in Nat
           /\ h.in_queue \in Seq(QueueMessage) /\ h.out_queue \in Seq(QueueMessage)
           /\ h.resends \in Nat /\ h.sent_pings \in Nat
           /\ h.deferred_kill \in BOOLEAN /\ h.logged_in \in BOOLEAN
           /\ h.delivered \in Seq(Nat \X Nat)
BY DEF Heap

LEMMA HeapWithNat ==
    ASSUME NEW h \in Heap, NEW n \in Nat
    PROVE  /\ [h EXCEPT !.last_send_unrel = n] \in Heap
           /\ [h EXCEPT !.last_recv_unrel = n] \in Heap
           /\ [h EXCEPT !.sent_pings = n] \in Heap
           /\ [h EXCEPT !.resends = n] \in Heap
BY DEF Heap

LEMMA HeapWithQueue ==
    ASSUME NEW h \in Heap, NEW q \in Seq(QueueMessage)
    PROVE  [h EXCEPT !.in_queue = q] \in Heap
BY DEF Heap

LEMMA HeapPushed ==
    ASSUME NEW h \in Heap, NEW n \in Nat, NEW q \in Seq(QueueMessage)
    PROVE  [h EXCEPT !.last_send_rel = n, !.out_queue = q] \in Heap
BY DEF Heap

LEMMA HeapPopped ==
    ASSUME NEW h \in Heap, NEW b \in BOOLEAN, NEW q \in Seq(QueueMessage)
    PROVE  [h EXCEPT !.out_queue = q, !.resends = 0, !.logged_in = b] \in Heap
BY DEF Heap

LEMMA HeapDelivered ==
    ASSUME NEW h \in Heap, NEW n \in Nat, NEW q \in Seq(QueueMessage),
           NEW b \in BOOLEAN, NEW s \in Seq(Nat \X Nat)
    PROVE  [h EXCEPT !.in_queue = q, !.last_recv_rel = n, !.logged_in = b,
                     !.delivered = s] \in Heap
BY DEF Heap

LEMMA UnrelType ==
    ASSUME NEW e \in Ends, NEW h \in Heap, NEW n \in Nat,
           NEW cmd \in {"Ack", "Ping", "Pong", "State"}
    PROVE  /\ Unreliable(e, h, cmd, n) \in Datagram
           /\ CountUnrel(h) \in Heap
<1>1. Peer(e) \in Ends
  BY EndFacts
<1>2. h.last_send_unrel + 1 \in Nat
  BY HeapFields
<1>3. Unreliable(e, h, cmd, n) \in Datagram
  BY <1>1, <1>2 DEF Unreliable, Datagram, UnreliableCmds
<1>4. [h EXCEPT !.last_send_unrel = h.last_send_unrel + 1] \in Heap
  BY <1>2, HeapWithNat
<1>5. CountUnrel(h) \in Heap
  BY <1>4, Zenon DEF CountUnrel
<1> QED BY <1>3, <1>5

LEMMA InsertType ==
    ASSUME NEW q \in Seq(QueueMessage), NEW m \in QueueMessage,
           NEW k \in 0 .. Len(q)
    PROVE  /\ InsertedAt(q, m, k) \in Seq(QueueMessage)
           /\ Len(InsertedAt(q, m, k)) = Len(q) + 1
           /\ \A i \in 1 .. Len(q) + 1 :
                InsertedAt(q, m, k)[i] \in {q[j] : j \in 1 .. Len(q)} \cup {m}
BY DEF InsertedAt

LEMMA QueueHead ==
    ASSUME NEW h \in Heap, h.in_queue # << >>
    PROVE  /\ Head(h.in_queue) \in QueueMessage
           /\ Head(h.in_queue) = h.in_queue[1]
           /\ 1 \in 1 .. Len(h.in_queue)
           /\ Head(h.in_queue).seq_no \in Nat
           /\ Head(h.in_queue).num \in Nat
           /\ Head(h.in_queue).sess \in Nat
           /\ Tail(h.in_queue) \in Seq(QueueMessage)
           /\ Len(Tail(h.in_queue)) = Len(h.in_queue) - 1
           /\ \A i \in 1 .. Len(h.in_queue) - 1 : Tail(h.in_queue)[i] = h.in_queue[i + 1]
<1> DEFINE q == h.in_queue
<1>1. q \in Seq(QueueMessage) /\ q # << >>
  BY HeapFields
<1>2. /\ Head(q) \in QueueMessage
      /\ Head(q) = q[1]
      /\ Tail(q) \in Seq(QueueMessage)
      /\ Len(Tail(q)) = Len(q) - 1
      /\ 1 \in 1 .. Len(q)
      /\ \A i \in 1 .. Len(q) - 1 : Tail(q)[i] = q[i + 1]
  <2> HIDE DEF q
  <2> QED BY <1>1
<1>3. /\ Head(q).seq_no \in Nat
      /\ Head(q).num \in Nat
      /\ Head(q).sess \in Nat
  BY <1>2 DEF QueueMessage
<1> QED BY <1>2, <1>3

LEMMA TakenType ==
    ASSUME NEW e \in Ends, NEW h \in Heap, h.in_queue # << >>
    PROVE  Taken(e, h) \in Heap
<1> DEFINE m == Head(h.in_queue)
           n == m.seq_no
           q == Tail(h.in_queue)
           b == h.logged_in \/ IsLogin(e, m)
           s == Append(h.delivered, <<m.sess, m.num>>)
<1>1. n \in Nat /\ q \in Seq(QueueMessage) /\ m.sess \in Nat /\ m.num \in Nat
  BY QueueHead
<1>2. b \in BOOLEAN
  BY HeapFields DEF IsLogin
<1>3. s \in Seq(Nat \X Nat)
  BY <1>1, HeapFields
<1>4. Taken(e, h) = [h EXCEPT !.in_queue = q, !.last_recv_rel = n,
                              !.logged_in = b, !.delivered = s]
  BY DEF Taken
<1>5. [h EXCEPT !.in_queue = q, !.last_recv_rel = n,
                !.logged_in = b, !.delivered = s] \in Heap
  <2> HIDE DEF m, n, q, b, s
  <2> QED BY <1>1, <1>2, <1>3, HeapDelivered
<1> QED BY <1>4, <1>5

LEMMA VisitType ==
    ASSUME TypeOK, NEW e \in Ends, NEW h \in Heap, NEW out \in SUBSET Datagram,
           Visit(e, h, out)
    PROVE  /\ heap' \in [Ends -> Heap \cup {NoHeap}]
           /\ net' \subseteq Datagram
           /\ players' \in [Clients -> Nat]
           /\ given' \in [Ends -> SUBSET (Nat \X Nat)]
<1> USE DEF TypeOK
<1>1. PlayersAfterLogout(e) \in [Clients -> Nat]
  BY EndFacts DEF PlayersAfterLogout
<1>2. CASE h.deferred_kill
  BY <1>1, <1>2 DEF Visit
<1>3. CASE ~h.deferred_kill /\ ~Ready(h)
  BY <1>3 DEF Visit
<1>4. CASE ~h.deferred_kill /\ Ready(h)
  <2> DEFINE m == Head(h.in_queue)
             ack == Unreliable(e, h, "Ack", m.seq_no)
  <2>0. Deliver(e, h, out)
    BY <1>4 DEF Visit
  <2>1. m \in QueueMessage /\ m.seq_no \in Nat /\ m.sess \in Nat /\ m.num \in Nat
    BY <1>4, QueueHead DEF Ready
  <2>2. CountUnrel(Taken(e, h)) \in Heap
    BY <1>4, TakenType, UnrelType DEF Ready
  <2>3. ack \in Datagram
    BY <2>1, UnrelType
  <2>4. heap' \in [Ends -> Heap \cup {NoHeap}]
    BY <2>0, <2>2 DEF Deliver
  <2>5. net' = net \cup out \cup {ack}
    BY <2>0 DEF Deliver
  <2>6. net' \subseteq Datagram
    <3> HIDE DEF ack
    <3> QED BY <2>3, <2>5
  <2>7. players' \in [Clients -> Nat]
    BY <1>1, <2>0, EndFacts DEF Deliver
  <2>8. given' \in [Ends -> SUBSET (Nat \X Nat)]
    BY <2>0, <2>1 DEF Deliver
  <2> QED BY <2>4, <2>6, <2>7, <2>8
<1> QED BY <1>2, <1>3, <1>4

-----------------------------------------------------------------------------
(* Type correctness.                                                       *)

LEMMA AsQueuedType ==
    ASSUME NEW d \in Datagram, d.cmd \in ReliableCmds
    PROVE  AsQueued(d) \in QueueMessage
BY DEF AsQueued, QueueMessage, Datagram

LEMMA EnqueueType ==
    ASSUME TypeOK, NEW e \in Ends, NEW h \in Heap, NEW d \in Datagram,
           d.cmd \in ReliableCmds, Enqueue(e, h, d)
    PROVE  \E h1 \in Heap : Visit(e, h1, {})
<1>1. PICK k \in 0 .. Len(h.in_queue) :
        Visit(e, [h EXCEPT !.in_queue = InsertedAt(h.in_queue, AsQueued(d), k)], {})
  BY Zenon DEF Enqueue
<1> DEFINE q == InsertedAt(h.in_queue, AsQueued(d), k)
<1>2. q \in Seq(QueueMessage)
  BY HeapFields, AsQueuedType, InsertType
<1>3. [h EXCEPT !.in_queue = q] \in Heap
  <2> HIDE DEF q
  <2> QED BY <1>2, HeapWithQueue
<1> QED BY <1>1, <1>3

LEMMA QueueTail ==
    ASSUME NEW h \in Heap, h.out_queue # << >>
    PROVE  /\ Head(h.out_queue) \in QueueMessage
           /\ Head(h.out_queue) = h.out_queue[1]
           /\ Tail(h.out_queue) \in Seq(QueueMessage)
           /\ Len(Tail(h.out_queue)) = Len(h.out_queue) - 1
           /\ Len(h.out_queue) \in Nat /\ Len(h.out_queue) > 0
           /\ \A i \in 1 .. Len(h.out_queue) - 1 :
                Tail(h.out_queue)[i] = h.out_queue[i + 1]
<1> DEFINE q == h.out_queue
<1>1. q \in Seq(QueueMessage) /\ q # << >>
  BY HeapFields
<1> HIDE DEF q
<1>2. /\ Head(q) \in QueueMessage
      /\ Head(q) = q[1]
      /\ Tail(q) \in Seq(QueueMessage)
      /\ Len(Tail(q)) = Len(q) - 1
      /\ Len(q) \in Nat /\ Len(q) > 0
      /\ \A i \in 1 .. Len(q) - 1 : Tail(q)[i] = q[i + 1]
  BY <1>1
<1> QED BY <1>2 DEF q

LEMMA AcknowledgedType ==
    ASSUME NEW h \in Heap, NEW n \in Nat
    PROVE  Acknowledged(h, n) \in Heap
<1>1. CASE h.out_queue = << >>
  BY <1>1 DEF Acknowledged
<1>2. CASE h.out_queue # << >>
  <2> DEFINE b == h.logged_in \/ Head(h.out_queue).cmd = "Login"
             q == Tail(h.out_queue)
  <2>1. b \in BOOLEAN /\ q \in Seq(QueueMessage)
    BY <1>2, HeapFields, QueueTail
  <2>2. Popped(h) = [h EXCEPT !.out_queue = q, !.resends = 0, !.logged_in = b]
    BY DEF Popped
  <2>3. [h EXCEPT !.out_queue = q, !.resends = 0, !.logged_in = b] \in Heap
    <3> HIDE DEF b, q
    <3> QED BY <2>1, HeapPopped
  <2> QED BY <2>2, <2>3 DEF Acknowledged
<1> QED BY <1>1, <1>2

LEMMA PushedType ==
    ASSUME TypeOK, NEW e \in Ends, NEW h \in Heap, NEW cmd \in ReliableCmds
    PROVE  /\ Pushed(e, h, cmd) \in Heap
           /\ Len(Pushed(e, h, cmd).out_queue) = Len(h.out_queue) + 1
           /\ \A i \in 1 .. Len(h.out_queue) :
                Pushed(e, h, cmd).out_queue[i] = h.out_queue[i]
           /\ Pushed(e, h, cmd).out_queue[Len(h.out_queue) + 1]
                = [seq_no |-> h.last_send_rel + 1, cmd |-> cmd,
                   num |-> pushed[e] + 1, sess |-> SessionOf(e)]
<1> DEFINE n == h.last_send_rel + 1
           m == [seq_no |-> n, cmd |-> cmd, num |-> pushed[e] + 1, sess |-> SessionOf(e)]
           q == Append(h.out_queue, m)
<1>1. n \in Nat
  BY HeapFields
<1>2. pushed[e] + 1 \in Nat /\ SessionOf(e) \in Nat
  BY EndFacts DEF TypeOK, SessionOf
<1>3. m \in QueueMessage
  BY <1>1, <1>2 DEF QueueMessage
<1>4. /\ q \in Seq(QueueMessage)
      /\ Len(q) = Len(h.out_queue) + 1
      /\ \A i \in 1 .. Len(h.out_queue) : q[i] = h.out_queue[i]
      /\ q[Len(h.out_queue) + 1] = m
  <2> HIDE DEF m
  <2> QED BY <1>3, HeapFields
<1>5. Pushed(e, h, cmd) = [h EXCEPT !.last_send_rel = n, !.out_queue = q]
  BY DEF Pushed
<1>6. [h EXCEPT !.last_send_rel = n, !.out_queue = q] \in Heap
  <2> HIDE DEF n, q
  <2> QED BY <1>1, <1>4, HeapPushed
<1>7. Pushed(e, h, cmd).out_queue = q
  BY <1>5 DEF Heap
<1> QED BY <1>4, <1>5, <1>6, <1>7

LEMMA DatagramFields ==
    ASSUME NEW d \in Datagram
    PROVE  /\ d.to \in Ends /\ d.seq_no \in Nat /\ d.num \in Nat /\ d.sess \in Nat
           /\ d.reliable \in BOOLEAN
           /\ d.reliable <=> d.cmd \in ReliableCmds
BY DEF Datagram, UnreliableCmds, ReliableCmds, Refusals

LEMMA ReliableType ==
    ASSUME NEW e \in Ends, NEW m \in QueueMessage
    PROVE  Reliable(e, m) \in Datagram
BY EndFacts DEF Reliable, Datagram, QueueMessage

LEMMA RefusalType ==
    ASSUME NEW c \in Clients, NEW cmd \in Refusals
    PROVE  Refusal(c, cmd) \in Datagram
BY EndFacts DEF Refusal, Datagram, UnreliableCmds

LEMMA KillType ==
    ASSUME TypeOK, NEW e \in Ends, NEW out \in SUBSET Datagram, Kill(e, out)
    PROVE  TypeOK'
<1>1. PlayersAfterLogout(e) \in [Clients -> Nat]
  BY EndFacts DEF PlayersAfterLogout, TypeOK
<1> QED BY <1>1 DEF Kill, TypeOK

LEMMA AliveHeap ==
    ASSUME TypeOK, NEW e \in Ends, Alive(e)
    PROVE  heap[e] \in Heap
BY DEF TypeOK, Alive

LEMMA TypeStep == TypeOK /\ [Next]_vars => TypeOK'
<1> SUFFICES ASSUME TypeOK, [Next]_vars PROVE TypeOK'
  OBVIOUS
<1>1. ASSUME NEW e \in Ends, VisitOnly(e) PROVE TypeOK'
  <2>1. heap[e] \in Heap /\ Visit(e, heap[e], {})
    BY <1>1, AliveHeap DEF VisitOnly
  <2> QED BY <1>1, <2>1, VisitType DEF VisitOnly, TypeOK
<1>2. ASSUME NEW e \in Ends, Resend(e) PROVE TypeOK'
  <2> DEFINE h == heap[e]
             n == h.resends + 1
  <2>1. h \in Heap /\ n \in Nat
    BY <1>2, AliveHeap, HeapFields DEF Resend
  <2>2. [h EXCEPT !.resends = n] \in Heap
    <3> HIDE DEF h, n
    <3> QED BY <2>1, HeapWithNat
  <2>3. Reliable(e, Due(h)) \in Datagram
    BY <1>2, <2>1, QueueTail, ReliableType DEF Resend, Due
  <2>4. CASE n > MaxResends
    BY <1>2, <2>4, KillType DEF Resend
  <2>5. CASE ~(n > MaxResends)
    <3>1. /\ heap' = [heap EXCEPT ![e] = [h EXCEPT !.resends = n]]
          /\ net' = net \cup {Reliable(e, Due(h))}
          /\ UNCHANGED <<phase, players, session, pushed, given>>
      BY <1>2, <2>5 DEF Resend
    <3> HIDE DEF h, n
    <3> QED BY <2>2, <2>3, <3>1 DEF TypeOK
  <2> QED BY <2>4, <2>5
<1>3. ASSUME NEW e \in Ends, Ping(e) PROVE TypeOK'
  <2> DEFINE h == heap[e]
             n == h.sent_pings + 1
             ping == {Unreliable(e, h, "Ping", 0)}
  <2>1. h \in Heap /\ n \in Nat
    BY <1>3, AliveHeap, HeapFields DEF Ping
  <2>2. ping \subseteq Datagram /\ CountUnrel(h) \in Heap
    BY <2>1, UnrelType
  <2>3. CASE n > MaxPings
    BY <1>3, <2>2, <2>3, KillType DEF Ping
  <2>4. CASE ~(n > MaxPings)
    <3> DEFINE h1 == CountUnrel(h)
    <3>1. [h1 EXCEPT !.sent_pings = n] \in Heap
      <4>1. h1 \in Heap
        BY <2>2
      <4> HIDE DEF h1, n
      <4> QED BY <2>1, <4>1, HeapWithNat
    <3>2. /\ heap' = [heap EXCEPT ![e] = Pinged(h)]
          /\ net' = net \cup ping
          /\ UNCHANGED <<phase, players, session, pushed, given>>
      BY <1>3, <2>4 DEF Ping
    <3>3. Pinged(h) \in Heap
      BY <3>1 DEF Pinged
    <3> HIDE DEF h, h1, n, ping
    <3> QED BY <2>2, <3>2, <3>3 DEF TypeOK
  <2> QED BY <2>3, <2>4
<1>4. ASSUME NEW e \in Ends, NEW d \in net, ReceiveReliable(e, d) PROVE TypeOK'
  <2> DEFINE h == heap[e]
  <2>1. h \in Heap /\ d \in Datagram /\ d.cmd \in ReliableCmds
    BY <1>4, AliveHeap, DatagramFields DEF ReceiveReliable, TypeOK
  <2>2. \E h1 \in Heap, out \in SUBSET Datagram : Visit(e, h1, out)
    <3>1. CASE Enqueue(e, h, d)
      BY <2>1, <3>1, EnqueueType
    <3>2. CASE AckAgain(e, h, d)
      BY <2>1, <3>2, UnrelType, DatagramFields DEF AckAgain
    <3> QED BY <1>4, <3>1, <3>2 DEF ReceiveReliable
  <2> QED BY <1>4, <2>2, VisitType DEF ReceiveReliable, TypeOK
<1>5. ASSUME NEW e \in Ends, NEW d \in net, ReceiveUnreliable(e, d) PROVE TypeOK'
  <2> DEFINE n == d.seq_no
             h == [heap[e] EXCEPT !.last_recv_unrel = n]
  <2>1. heap[e] \in Heap /\ n \in Nat /\ d.num \in Nat
    BY <1>5, AliveHeap, DatagramFields DEF ReceiveUnreliable, TypeOK
  <2>2. h \in Heap
    <3> HIDE DEF n
    <3> QED BY <2>1, HeapWithNat
  <2>3. [h EXCEPT !.sent_pings = 0] \in Heap
    <3> HIDE DEF h
    <3> QED BY <2>2, HeapWithNat
  <2>4. \E h1 \in Heap, out \in SUBSET Datagram : Visit(e, h1, out)
    <3>1. \/ Visit(e, Acknowledged(h, d.num), {})
          \/ Visit(e, [h EXCEPT !.sent_pings = 0], {})
          \/ Visit(e, h, {})
          \/ Visit(e, CountUnrel(h), {Unreliable(e, h, "Pong", 0)})
      BY <1>5 DEF ReceiveUnreliable
    <3>2. Acknowledged(h, d.num) \in Heap
      <4> HIDE DEF h
      <4> QED BY <2>1, <2>2, AcknowledgedType
    <3>3. CountUnrel(h) \in Heap /\ Unreliable(e, h, "Pong", 0) \in Datagram
      <4> HIDE DEF h
      <4> QED BY <2>2, UnrelType
    <3> HIDE DEF h
    <3> QED BY <2>2, <2>3, <3>1, <3>2, <3>3
  <2> QED BY <1>5, <2>4, VisitType DEF ReceiveUnreliable, TypeOK
<1>6. ASSUME NEW c \in Clients, NEW d \in net, AcceptLogin(c, d) PROVE TypeOK'
  <2>1. ServerEnd(c) \in Ends /\ d \in Datagram /\ d.cmd \in ReliableCmds
    BY <1>6, EndFacts DEF AcceptLogin, TypeOK, ReliableCmds
  <2>2. \E h1 \in Heap : Visit(ServerEnd(c), h1, {})
    BY <1>6, <2>1, NewHeapType, EnqueueType DEF AcceptLogin
  <2> QED BY <1>6, <2>1, <2>2, VisitType DEF AcceptLogin, TypeOK
<1>7. ASSUME NEW c \in Clients, NEW d \in net, RefuseLogin(c, d) PROVE TypeOK'
  BY <1>7, RefusalType DEF RefuseLogin, TypeOK, Refusals
<1>8. ASSUME NEW c \in Clients, NEW d \in net, ReceiveRefusal(c, d) PROVE TypeOK'
  BY <1>8 DEF ReceiveRefusal, TypeOK
<1>9. ASSUME NEW e \in Ends, NEW cmd \in ReliableCmds, PushReliable(e, cmd),
             phase' \in [Clients -> {"new", "running", "quitting", "stopped",
                                     "crashed", "denied"}]
      PROVE  TypeOK'
  <2>1. Pushed(e, heap[e], cmd) \in Heap
    BY <1>9, AliveHeap, PushedType DEF PushReliable
  <2> QED BY <1>9, <2>1 DEF PushReliable, TypeOK
<1>10. ASSUME NEW e \in Ends, PushData(e) PROVE TypeOK'
  BY <1>9, <1>10 DEF PushData, ReliableCmds, TypeOK
<1>11. ASSUME NEW e \in Ends, PushState(e) PROVE TypeOK'
  <2>1. CountUnrel(heap[e]) \in Heap /\ Unreliable(e, heap[e], "State", 0) \in Datagram
    BY <1>11, AliveHeap, UnrelType DEF PushState
  <2> QED BY <1>11, <2>1 DEF PushState, TypeOK
<1>12. ASSUME NEW c \in Clients, Login(c) PROVE TypeOK'
  BY <1>9, <1>12, EndFacts DEF Login, ReliableCmds, TypeOK
<1>13. ASSUME NEW c \in Clients, Logout(c) PROVE TypeOK'
  BY <1>9, <1>13, EndFacts DEF Logout, ReliableCmds, TypeOK
<1>14. ASSUME NEW c \in Clients, Kick(c) PROVE TypeOK'
  <2>1. heap[ServerEnd(c)] \in Heap /\ ServerEnd(c) \in Ends
    BY <1>14, AliveHeap, EndFacts DEF Kick
  <2>2. [heap[ServerEnd(c)] EXCEPT !.deferred_kill = TRUE] \in Heap
    BY <2>1 DEF Heap
  <2> QED BY <1>14, <2>1, <2>2 DEF Kick, TypeOK
<1>15. ASSUME NEW c \in Clients, Stop(c) \/ Crash(c) PROVE TypeOK'
  BY <1>15 DEF Stop, Crash, TypeOK
<1>16. CASE UNCHANGED vars
  BY <1>16 DEF vars, TypeOK
<1> QED
  BY <1>1, <1>2, <1>3, <1>4, <1>5, <1>6, <1>7, <1>8, <1>10, <1>11, <1>12,
     <1>13, <1>14, <1>15, <1>16 DEF Next, Cycle, Application

(* Every variable keeps its type: queues hold reliable messages only, and  *)
(* no sequence number or Player count ever leaves the natural numbers.     *)
THEOREM TypeCorrect == Spec => []TypeOK
<1>1. Init => TypeOK
  BY NewHeapType DEF Init, TypeOK
<1> QED BY <1>1, TypeStep, PTL DEF Spec

-----------------------------------------------------------------------------
(* The stream to the server.                                               *)

(* h1 differs from h only in what the stream does not depend on.           *)
Same(h1, h) ==
    /\ h1.last_send_rel = h.last_send_rel /\ h1.last_recv_rel = h.last_recv_rel
    /\ h1.in_queue = h.in_queue /\ h1.out_queue = h.out_queue
    /\ h1.delivered = h.delivered

LEMMA SameFields ==
    ASSUME NEW h \in Heap
    PROVE  /\ \A n \in Nat : /\ Same([h EXCEPT !.last_recv_unrel = n], h)
                             /\ Same([h EXCEPT !.sent_pings = n], h)
                             /\ Same([h EXCEPT !.resends = n], h)
           /\ Same([h EXCEPT !.deferred_kill = TRUE], h)
           /\ Same(CountUnrel(h), h)
           /\ Same(Pinged(h), h)
BY DEF Same, CountUnrel, Pinged, Heap

LEMMA SameInv ==
    ASSUME NEW h \in Heap, NEW h1 \in Heap, Same(h1, h), NEW n, NEW g
    PROVE  /\ SentInv(h, n) => SentInv(h1, n)
           /\ AckedInv(h, n, g) => AckedInv(h1, n, g)
           /\ ReceivedInv(h, n, g) => ReceivedInv(h1, n, g)
BY DEF Same, SentInv, AckedInv, ReceivedInv

LEMMA GenuineMono ==
    ASSUME NEW m, NEW n \in Nat, NEW k \in Nat, n <= k, Genuine(m, n)
    PROVE  Genuine(m, k)
BY DEF Genuine

LEMMA ReceivedMono ==
    ASSUME NEW h \in Heap, NEW n \in Nat, NEW k \in Nat, n <= k,
           NEW g, NEW f, g \subseteq f, ReceivedInv(h, n, g)
    PROVE  ReceivedInv(h, k, f)
<1>1. \A i \in 1 .. Len(h.in_queue) : Genuine(h.in_queue[i], k)
  BY GenuineMono DEF ReceivedInv
<1>2. h.last_recv_rel \in Nat
  BY HeapFields
<1> QED BY <1>1, <1>2 DEF ReceivedInv

LEMMA AckedMono ==
    ASSUME NEW h, NEW n, NEW g, NEW f, g \subseteq f, AckedInv(h, n, g)
    PROVE  AckedInv(h, n, f)
BY DEF AckedInv

LEMMA HarmlessMono ==
    ASSUME NEW d, NEW n \in [Ends -> Nat], NEW k \in [Ends -> Nat], NEW g, NEW f,
           \A c \in Clients : /\ n[ClientEnd(c)] <= k[ClientEnd(c)]
                              /\ g[ServerEnd(c)] \subseteq f[ServerEnd(c)],
           Harmless(d, n, g)
    PROVE  Harmless(d, k, f)
<1> SUFFICES ASSUME NEW c \in Clients
             PROVE  /\ d.reliable /\ d.to = ServerEnd(c) => Genuine(d, k[ClientEnd(c)])
                    /\ d.cmd = "Ack" /\ d.to = ClientEnd(c)
                         => <<1, d.num>> \in f[ServerEnd(c)]
  BY DEF Harmless
<1>1. n[ClientEnd(c)] \in Nat /\ k[ClientEnd(c)] \in Nat
  BY EndFacts
<1> QED BY <1>1, GenuineMono DEF Harmless

-----------------------------------------------------------------------------
(* What the operations of cycle() do to the parts of the invariant.        *)

LEMMA SentParts ==
    ASSUME NEW h \in Heap, NEW n \in Nat, h.last_send_rel = n, Len(h.out_queue) <= n,
           \A i \in 1 .. Len(h.out_queue) :
             Genuine(h.out_queue[i], n) /\ h.out_queue[i].num = n - Len(h.out_queue) + i
    PROVE  SentInv(h, n)
BY DEF SentInv

LEMMA Shifted ==
    ASSUME NEW n \in Nat, NEW l \in Nat, NEW j, NEW i \in Nat, NEW k, k = n + 1, j = l + 1
    PROVE  n - l + i = k - j + i
OBVIOUS

LEMMA PushedSent ==
    ASSUME TypeOK, NEW c \in Clients, NEW h \in Heap, NEW cmd \in ReliableCmds,
           SentInv(h, pushed[ClientEnd(c)]),
           cmd = "Login" => pushed[ClientEnd(c)] = 0
    PROVE  SentInv(Pushed(ClientEnd(c), h, cmd), pushed[ClientEnd(c)] + 1)
<1>1. pushed[ClientEnd(c)] \in Nat /\ ClientEnd(c) \in Ends /\ SessionOf(ClientEnd(c)) = 1
  BY EndFacts DEF TypeOK, SessionOf, ClientEnd
<1> SUFFICES ASSUME NEW n \in Nat, n = pushed[ClientEnd(c)], NEW k \in Nat, k = n + 1
             PROVE  SentInv(Pushed(ClientEnd(c), h, cmd), k)
  BY <1>1
<1> DEFINE e == ClientEnd(c)
           h1 == Pushed(e, h, cmd)
           m == [seq_no |-> h.last_send_rel + 1, cmd |-> cmd, num |-> k, sess |-> 1]
           q == h.out_queue
           r == h1.out_queue
<1>2. h.last_send_rel = n /\ Len(q) <= n /\ Len(q) \in Nat
  BY HeapFields DEF SentInv
<1>3. \A i \in 1 .. Len(q) : Genuine(q[i], n) /\ q[i].num = n - Len(q) + i
  BY DEF SentInv
<1>4. Genuine(m, k) /\ m.num = k
  BY <1>1, <1>2 DEF Genuine
<1>5. h1 \in Heap /\ h1.last_send_rel = k
  BY <1>1, <1>2, PushedType DEF Pushed, Heap
<1>6. /\ Len(r) = Len(q) + 1
      /\ \A i \in 1 .. Len(q) : r[i] = q[i]
      /\ r[Len(q) + 1] = m
  BY <1>1, PushedType
<1> HIDE DEF m, q, r
<1>7. \A i \in 1 .. Len(r) : Genuine(r[i], k) /\ r[i].num = k - Len(r) + i
  <2> TAKE i \in 1 .. Len(r)
  <2>1. CASE i = Len(q) + 1
    BY <1>2, <1>4, <1>6, <2>1
  <2>2. CASE i \in 1 .. Len(q)
    <3>1. r[i].num = n - Len(q) + i /\ Genuine(r[i], n)
      BY <1>3, <1>6, <2>2
    <3>2. n <= k
      OBVIOUS
    <3>3. Genuine(r[i], k)
      BY <3>1, <3>2, GenuineMono, Zenon
    <3>4. Len(r) = Len(q) + 1 /\ Len(q) \in Nat
      BY <1>2, <1>6, Zenon
    <3>5. i \in Nat
      BY <3>4, <2>2
    <3>6. n - Len(q) + i = k - Len(r) + i
      BY SMTT(30), <3>4, <3>5, Shifted
    <3>7. r[i].num = k - Len(r) + i
      BY <3>1, <3>6, Zenon
    <3> QED BY <3>3, <3>7, Zenon
  <2> QED BY <1>2, <1>6, <2>1, <2>2
<1>8. Len(r) <= k
  BY <1>2, <1>6
<1> HIDE DEF h1
<1>9. SentInv(h1, k)
  BY <1>5, <1>7, <1>8, SentParts DEF r
<1> QED BY <1>9, Zenon DEF h1, e

LEMMA PushedAcked ==
    ASSUME TypeOK, NEW c \in Clients, NEW h \in Heap, NEW cmd \in ReliableCmds, NEW g,
           Len(h.out_queue) <= pushed[ClientEnd(c)],
           AckedInv(h, pushed[ClientEnd(c)], g)
    PROVE  AckedInv(Pushed(ClientEnd(c), h, cmd), pushed[ClientEnd(c)] + 1, g)
<1> DEFINE n == pushed[ClientEnd(c)]
           l == Len(h.out_queue)
           k == Len(Pushed(ClientEnd(c), h, cmd).out_queue)
<1>1. n \in Nat /\ l \in Nat
  BY EndFacts, HeapFields DEF TypeOK
<1>2. k = l + 1
  BY ZenonT(40), EndFacts, PushedType
<1>3. (n + 1) - k = n - l
  <2> HIDE DEF n, l, k
  <2> QED BY <1>1, <1>2
<1> QED BY <1>3 DEF AckedInv

LEMMA AcknowledgedSent ==
    ASSUME NEW h \in Heap, NEW n \in Nat, NEW k \in Nat, NEW g,
           SentInv(h, n), AckedInv(h, n, g), <<1, k>> \in g
    PROVE  SentInv(Acknowledged(h, k), n) /\ AckedInv(Acknowledged(h, k), n, g)
<1>1. CASE ~(h.out_queue # << >> /\ Head(h.out_queue).seq_no = k)
  BY <1>1 DEF Acknowledged
<1>2. CASE h.out_queue # << >> /\ Head(h.out_queue).seq_no = k
  <2> DEFINE h1 == Acknowledged(h, k)
             q == h.out_queue
             r == Tail(h.out_queue)
             l == Len(h.out_queue)
  <2>1. h1.out_queue = r /\ h1.last_send_rel = h.last_send_rel
    BY <1>2 DEF Acknowledged, Popped, Heap
  <2>2. /\ l \in Nat /\ l > 0 /\ Len(r) = l - 1
        /\ Head(q) = q[1]
        /\ \A i \in 1 .. l - 1 : r[i] = q[i + 1]
    BY <1>2, QueueTail
  <2>3. /\ l <= n /\ h.last_send_rel = n
        /\ \A i \in 1 .. l : Genuine(q[i], n) /\ q[i].num = n - l + i
    BY DEF SentInv
  <2> HIDE DEF h1, q, r, l
  <2>4. q[1].num = n - l + 1 /\ q[1].seq_no = q[1].num
    BY <2>2, <2>3 DEF Genuine
  <2>5. k = n - l + 1
    BY <1>2, <2>2, <2>4 DEF q
  <2>6. \A i \in 1 .. Len(r) : Genuine(r[i], n) /\ r[i].num = n - Len(r) + i
    <3> TAKE i \in 1 .. Len(r)
    <3>1. r[i] = q[i + 1] /\ i + 1 \in 1 .. l
      BY <2>2
    <3> QED BY <2>2, <2>3, <3>1
  <2>7. SentInv(h1, n)
    BY <2>1, <2>2, <2>3, <2>6 DEF SentInv
  <2>8. \A i \in 1 .. n - Len(r) : <<1, i>> \in g
    <3> TAKE i \in 1 .. n - Len(r)
    <3>1. CASE i = k
      BY <3>1
    <3>2. CASE i \in 1 .. n - l
      BY <3>2 DEF AckedInv, l
    <3> QED BY <2>2, <2>3, <2>5, <3>1, <3>2
  <2> QED BY <2>1, <2>7, <2>8 DEF AckedInv, h1
<1> QED BY <1>1, <1>2

(* Inserting a genuine message leaves a queue of genuine messages.         *)
LEMMA EnqueueReceived ==
    ASSUME NEW h \in Heap, NEW d \in Datagram, d.cmd \in ReliableCmds,
           NEW k \in 0 .. Len(h.in_queue), NEW n, NEW g,
           ReceivedInv(h, n, g), Genuine(d, n)
    PROVE  LET h1 == [h EXCEPT !.in_queue = InsertedAt(h.in_queue, AsQueued(d), k)]
           IN  /\ h1 \in Heap
               /\ ReceivedInv(h1, n, g)
               /\ h1.last_recv_rel = h.last_recv_rel
               /\ h1.deferred_kill = h.deferred_kill
<1> DEFINE q == h.in_queue
           m == AsQueued(d)
           r == InsertedAt(q, m, k)
           h1 == [h EXCEPT !.in_queue = r]
<1>1. q \in Seq(QueueMessage) /\ m \in QueueMessage
  BY HeapFields, AsQueuedType
<1>2. /\ r \in Seq(QueueMessage)
      /\ Len(r) = Len(q) + 1
      /\ \A i \in 1 .. Len(q) + 1 : r[i] \in {q[j] : j \in 1 .. Len(q)} \cup {m}
  BY <1>1, InsertType
<1>3. Genuine(m, n)
  BY DEF AsQueued, Genuine
<1>4. \A i \in 1 .. Len(q) : Genuine(q[i], n)
  BY DEF ReceivedInv
<1>5. \A i \in 1 .. Len(r) : Genuine(r[i], n)
  <2> HIDE DEF q, m, r
  <2> QED BY <1>2, <1>3, <1>4
<1> HIDE DEF r
<1>6. h1 \in Heap
  BY <1>2, HeapWithQueue
<1>7. /\ h1.in_queue = r /\ h1.last_recv_rel = h.last_recv_rel
      /\ h1.delivered = h.delivered /\ h1.deferred_kill = h.deferred_kill
  BY DEF Heap
<1>8. ReceivedInv(h1, n, g)
  <2> HIDE DEF h1
  <2> QED BY <1>5, <1>7 DEF ReceivedInv
<1> QED BY <1>6, <1>7, <1>8 DEF r

(* Delivering the head of in_queue extends the prefix by one.              *)
LEMMA TakenReceived ==
    ASSUME NEW e \in Ends, NEW h \in Heap, NEW n \in Nat, NEW g,
           ReceivedInv(h, n, g), Ready(h)
    PROVE  LET m == Head(h.in_queue) IN
           /\ Genuine(m, n)
           /\ m.num = h.last_recv_rel + 1
           /\ CountUnrel(Taken(e, h)).last_recv_rel = h.last_recv_rel + 1
           /\ ReceivedInv(CountUnrel(Taken(e, h)), n, g \cup {<<m.sess, m.num>>})
<1> DEFINE m == Head(h.in_queue)
           t == Taken(e, h)
           l == h.last_recv_rel
           f == g \cup {<<m.sess, m.num>>}
           s == h.delivered
           q == h.in_queue
           r == Tail(h.in_queue)
<1>1. /\ m = q[1] /\ 1 \in 1 .. Len(q)
      /\ Len(r) = Len(q) - 1
      /\ \A i \in 1 .. Len(q) - 1 : r[i] = q[i + 1]
  BY QueueHead DEF Ready
<1>2. Genuine(m, n) /\ m.seq_no = l + 1 /\ l \in Nat
  BY <1>1, HeapFields DEF ReceivedInv, Ready
<1>3. m.num = l + 1 /\ m.sess = 1 /\ l + 1 <= n
  BY <1>2 DEF Genuine
<1>4. /\ t.in_queue = r /\ t.last_recv_rel = m.seq_no
      /\ t.delivered = Append(s, <<m.sess, m.num>>)
  BY DEF Taken, Heap
<1>5. t \in Heap /\ CountUnrel(t) \in Heap /\ Same(CountUnrel(t), t)
  BY TakenType, UnrelType, SameFields DEF Ready
<1>6. s \in Seq(Nat \X Nat) /\ Len(s) = l
  BY HeapFields DEF ReceivedInv
<1>7. \A i \in 1 .. l : s[i] = <<1, i>> /\ <<1, i>> \in g
  BY DEF ReceivedInv
<1>8. \A i \in 1 .. Len(q) : Genuine(q[i], n)
  BY DEF ReceivedInv
<1>9. ReceivedInv(t, n, f)
  <2> HIDE DEF m, t, l, s, q, r
  <2>1. \A i \in 1 .. Len(r) : Genuine(r[i], n)
    BY <1>1, <1>8
  <2>2. Len(t.delivered) = l + 1
    BY <1>4, <1>6
  <2>3. ASSUME NEW i \in 1 .. l + 1
        PROVE  t.delivered[i] = <<1, i>> /\ <<1, i>> \in f
    <3>1. CASE i = l + 1
      BY <1>2, <1>3, <1>4, <1>6, <3>1
    <3>2. CASE i \in 1 .. l
      BY <1>2, <1>4, <1>6, <1>7, <3>2
    <3> QED BY <1>2, <3>1, <3>2
  <2> QED BY <1>2, <1>3, <1>4, <2>1, <2>2, <2>3 DEF ReceivedInv
<1>10. ReceivedInv(CountUnrel(t), n, f) /\ CountUnrel(t).last_recv_rel = l + 1
  <2> HIDE DEF t, f, l, m
  <2> QED BY <1>2, <1>4, <1>5, <1>9, SameInv DEF Same
<1> QED BY <1>2, <1>3, <1>10

-----------------------------------------------------------------------------
(* From the end a step touches to the whole invariant: e has heap h1 after *)
(* the step, which has sent the datagrams in out.                          *)
Touches(e, h1, out) ==
    /\ heap' = [heap EXCEPT ![e] = h1]
    /\ net' = net \cup out
    /\ \A x \in Ends : given[x] \subseteq given'[x]
    /\ \A c \in Clients :
         /\ pushed[ClientEnd(c)] <= pushed'[ClientEnd(c)]
         /\ e # ClientEnd(c) => pushed'[ClientEnd(c)] = pushed[ClientEnd(c)]
    /\ \A d \in out : Harmless(d, pushed', given')

SenderAfter(e, h1) ==
    \A c \in Clients : e = ClientEnd(c) /\ h1 # NoHeap =>
        /\ SentInv(h1, pushed'[e])
        /\ AckedInv(h1, pushed'[e], given'[ServerEnd(c)])

ReceiverAfter(e, h1) ==
    \A c \in Clients : e = ServerEnd(c) /\ h1 # NoHeap =>
        /\ h1.last_recv_rel >= 1
        /\ ReceivedInv(h1, pushed[ClientEnd(c)], given'[e])

PlayersAfter(e, h1) ==
    \A c \in Clients : players'[c] = IF e = ServerEnd(c)
                                      THEN IF h1 = NoHeap THEN 0 ELSE 1
                                      ELSE players[c]

LEMMA FrameOfStep ==
    ASSUME TypeOK, TypeOK', StreamInv, NEW e \in Ends, NEW h1, NEW out,
           Touches(e, h1, out), SenderAfter(e, h1), ReceiverAfter(e, h1),
           PlayersAfter(e, h1), LoginInv'
    PROVE  StreamInv'
<1> USE DEF Touches, SenderAfter, ReceiverAfter, PlayersAfter
<1>1. /\ heap \in [Ends -> Heap \cup {NoHeap}]
      /\ pushed \in [Ends -> Nat] /\ pushed' \in [Ends -> Nat]
  BY DEF TypeOK
<1>2. /\ heap'[e] = h1
      /\ \A x \in Ends \ {e} : heap'[x] = heap[x]
  BY <1>1
<1>3. SenderInv'
  <2> SUFFICES ASSUME NEW c \in Clients, heap'[ClientEnd(c)] # NoHeap
               PROVE  /\ SentInv(heap'[ClientEnd(c)], pushed'[ClientEnd(c)])
                      /\ AckedInv(heap'[ClientEnd(c)], pushed'[ClientEnd(c)],
                                  given'[ServerEnd(c)])
    BY DEF SenderInv, Alive
  <2>1. ClientEnd(c) \in Ends /\ ServerEnd(c) \in Ends
    BY EndFacts
  <2>2. CASE e = ClientEnd(c)
    BY <1>2, <2>2
  <2>3. CASE e # ClientEnd(c)
    <3>1. /\ heap'[ClientEnd(c)] = heap[ClientEnd(c)]
          /\ pushed'[ClientEnd(c)] = pushed[ClientEnd(c)]
          /\ given[ServerEnd(c)] \subseteq given'[ServerEnd(c)]
      BY <1>2, <2>1, <2>3
    <3>2. /\ SentInv(heap[ClientEnd(c)], pushed[ClientEnd(c)])
          /\ AckedInv(heap[ClientEnd(c)], pushed[ClientEnd(c)], given[ServerEnd(c)])
      BY <3>1 DEF StreamInv, SenderInv, Alive
    <3> QED BY <3>1, <3>2, AckedMono
  <2> QED BY <2>2, <2>3
<1>4. ReceiverInv'
  <2> SUFFICES ASSUME NEW c \in Clients, heap'[ServerEnd(c)] # NoHeap
               PROVE  /\ heap'[ServerEnd(c)].last_recv_rel >= 1
                      /\ ReceivedInv(heap'[ServerEnd(c)], pushed'[ClientEnd(c)],
                                     given'[ServerEnd(c)])
    BY DEF ReceiverInv, Alive
  <2>1. ClientEnd(c) \in Ends /\ ServerEnd(c) \in Ends /\ ClientEnd(c) # ServerEnd(c)
    BY EndFacts
  <2>2. CASE e = ServerEnd(c)
    BY <1>2, <2>1, <2>2
  <2>3. CASE e # ServerEnd(c)
    <3>1. /\ heap'[ServerEnd(c)] = heap[ServerEnd(c)]
          /\ pushed[ClientEnd(c)] <= pushed'[ClientEnd(c)]
          /\ pushed[ClientEnd(c)] \in Nat /\ pushed'[ClientEnd(c)] \in Nat
          /\ given[ServerEnd(c)] \subseteq given'[ServerEnd(c)]
          /\ heap[ServerEnd(c)] \in Heap
      BY <1>1, <1>2, <2>1, <2>3
    <3>2. /\ heap[ServerEnd(c)].last_recv_rel >= 1
          /\ ReceivedInv(heap[ServerEnd(c)], pushed[ClientEnd(c)], given[ServerEnd(c)])
      BY <3>1 DEF StreamInv, ReceiverInv, Alive
    <3> QED BY <3>1, <3>2, ReceivedMono
  <2> QED BY <2>2, <2>3
<1>5. NetInv'
  <2> SUFFICES ASSUME NEW d \in net PROVE Harmless(d, pushed', given')
    BY DEF NetInv
  <2>1. Harmless(d, pushed, given)
    BY DEF StreamInv, NetInv
  <2> QED BY <1>1, <2>1, EndFacts, HarmlessMono
<1>7. OnePlayerPerHeap'
  <2> SUFFICES ASSUME NEW c \in Clients
               PROVE  players'[c] = IF heap'[ServerEnd(c)] # NoHeap THEN 1 ELSE 0
    BY DEF OnePlayerPerHeap, Alive
  <2>1. CASE e = ServerEnd(c)
    BY <1>2, <2>1
  <2>2. CASE e # ServerEnd(c)
    BY <1>2, <2>2, EndFacts DEF StreamInv, OnePlayerPerHeap, Alive
  <2> QED BY <2>1, <2>2
<1> QED BY <1>3, <1>4, <1>5, <1>7 DEF StreamInv

(* The same for a step at a client's end, ...                              *)
LEMMA FrameClient ==
    ASSUME TypeOK, TypeOK', StreamInv, NEW c \in Clients, NEW h1, NEW out,
           heap' = [heap EXCEPT ![ClientEnd(c)] = h1],
           net' = net \cup out,
           \A x \in Ends : given[x] \subseteq given'[x],
           players' = players,
           pushed[ClientEnd(c)] <= pushed'[ClientEnd(c)],
           \A k \in Clients \ {c} : pushed'[ClientEnd(k)] = pushed[ClientEnd(k)],
           h1 # NoHeap =>
             /\ SentInv(h1, pushed'[ClientEnd(c)])
             /\ AckedInv(h1, pushed'[ClientEnd(c)], given'[ServerEnd(c)]),
           \A d \in out : Harmless(d, pushed', given'),
           LoginInv'
    PROVE  StreamInv'
<1> DEFINE e == ClientEnd(c)
<1>1. e \in Ends
  BY EndFacts
<1>2. \A k \in Clients : e # ServerEnd(k) /\ (e = ClientEnd(k) => k = c)
  BY DEF ClientEnd, ServerEnd
<1>3. Touches(e, h1, out)
  <2>1. \A k \in Clients : pushed[ClientEnd(k)] \in Nat
    BY EndFacts DEF TypeOK
  <2> QED BY <1>2, <2>1 DEF Touches
<1>4. SenderAfter(e, h1) /\ ReceiverAfter(e, h1)
  BY <1>2 DEF SenderAfter, ReceiverAfter
<1>5. PlayersAfter(e, h1)
  BY <1>2 DEF PlayersAfter
<1> HIDE DEF e
<1> QED BY <1>1, <1>3, <1>4, <1>5, FrameOfStep

(* ... and at the server's end of a client.                                *)
LEMMA FrameServer ==
    ASSUME TypeOK, TypeOK', StreamInv, NEW c \in Clients, NEW h1, NEW out,
           heap' = [heap EXCEPT ![ServerEnd(c)] = h1],
           net' = net \cup out,
           \A x \in Ends : given[x] \subseteq given'[x],
           \A k \in Clients : pushed'[ClientEnd(k)] = pushed[ClientEnd(k)],
           h1 # NoHeap =>
             /\ h1.last_recv_rel >= 1
             /\ ReceivedInv(h1, pushed[ClientEnd(c)], given'[ServerEnd(c)]),
           players' = [players EXCEPT ![c] = IF h1 = NoHeap THEN 0 ELSE 1],
           \A d \in out : Harmless(d, pushed', given'),
           phase' = phase
    PROVE  StreamInv'
<1> DEFINE e == ServerEnd(c)
<1>1. e \in Ends
  BY EndFacts
<1>2. \A k \in Clients : e # ClientEnd(k) /\ (e = ServerEnd(k) <=> k = c)
  BY DEF ClientEnd, ServerEnd
<1>3. Touches(e, h1, out)
  <2>1. \A k \in Clients : pushed[ClientEnd(k)] \in Nat
    BY EndFacts DEF TypeOK
  <2> QED BY <1>2, <2>1 DEF Touches
<1>4. SenderAfter(e, h1) /\ ReceiverAfter(e, h1)
  BY <1>2 DEF SenderAfter, ReceiverAfter
<1>5. PlayersAfter(e, h1)
  <2> HIDE DEF e
  <2> QED BY <1>2 DEF PlayersAfter, TypeOK
<1>6. LoginInv'
  BY DEF LoginInv, StreamInv
<1> HIDE DEF e
<1> QED BY <1>1, <1>3, <1>4, <1>5, <1>6, FrameOfStep

(* A datagram is harmless if it is neither reliable nor an acknowledgement, *)
LEMMA HarmlessOther ==
    ASSUME NEW d, NEW n, NEW g, ~d.reliable, d.cmd # "Ack"
    PROVE  Harmless(d, n, g)
BY DEF Harmless

(* an acknowledgement from the client, or from the server of a delivered   *)
(* message, ...                                                            *)
LEMMA HarmlessAck ==
    ASSUME NEW c \in Clients, NEW d, NEW n, NEW g, ~d.reliable,
           \/ d.to = ServerEnd(c)
           \/ d.to = ClientEnd(c) /\ <<1, d.num>> \in g[ServerEnd(c)]
    PROVE  Harmless(d, n, g)
BY DEF Harmless, ClientEnd, ServerEnd

(* ... or a reliable message from the server, or a genuine one of the client. *)
LEMMA HarmlessReliable ==
    ASSUME NEW c \in Clients, NEW d, NEW n, NEW g, d.cmd # "Ack",
           \/ d.to = ClientEnd(c)
           \/ d.to = ServerEnd(c) /\ Genuine(d, n[ClientEnd(c)])
    PROVE  Harmless(d, n, g)
<1>1. \A k \in Clients : d.to = ServerEnd(k) => d.to = ServerEnd(c) /\ k = c
  BY DEF ClientEnd, ServerEnd
<1>2. \A k \in Clients : ClientEnd(c) # ServerEnd(k)
  BY EndFacts
<1> QED BY <1>1, <1>2, Zenon DEF Harmless

(* What is sent without a number of the client is harmless.                *)
LEMMA SentHarmless ==
    ASSUME NEW c \in Clients, NEW h, NEW k, NEW n, NEW g
    PROVE  /\ \A cmd \in {"Ping", "Pong", "State"} : \A e \in Ends :
                Harmless(Unreliable(e, h, cmd, k), n, g)
           /\ Harmless(Unreliable(ClientEnd(c), h, "Ack", k), n, g)
           /\ <<1, k>> \in g[ServerEnd(c)] =>
                Harmless(Unreliable(ServerEnd(c), h, "Ack", k), n, g)
           /\ \A cmd \in Refusals : Harmless(Refusal(c, cmd), n, g)
<1>1. Peer(ClientEnd(c)) = ServerEnd(c) /\ Peer(ServerEnd(c)) = ClientEnd(c)
  BY EndFacts
<1>2. ASSUME NEW cmd \in {"Ping", "Pong", "State"}, NEW e \in Ends
      PROVE  Harmless(Unreliable(e, h, cmd, k), n, g)
  BY HarmlessOther DEF Unreliable
<1>3. ASSUME NEW cmd \in Refusals
      PROVE  Harmless(Refusal(c, cmd), n, g)
  BY HarmlessOther DEF Refusal, Refusals
<1>4. /\ ~Unreliable(ClientEnd(c), h, "Ack", k).reliable
      /\ Unreliable(ClientEnd(c), h, "Ack", k).to = ServerEnd(c)
      /\ ~Unreliable(ServerEnd(c), h, "Ack", k).reliable
      /\ Unreliable(ServerEnd(c), h, "Ack", k).to = ClientEnd(c)
      /\ Unreliable(ServerEnd(c), h, "Ack", k).num = k
  BY <1>1 DEF Unreliable
<1>5. Harmless(Unreliable(ClientEnd(c), h, "Ack", k), n, g)
  BY <1>4, HarmlessAck
<1>6. ASSUME <<1, k>> \in g[ServerEnd(c)]
      PROVE  Harmless(Unreliable(ServerEnd(c), h, "Ack", k), n, g)
  BY <1>4, <1>6, HarmlessAck
<1> QED BY <1>2, <1>3, <1>5, <1>6

(* So is a queued message of the server, and a genuine one of the client.  *)
LEMMA ReliableHarmless ==
    ASSUME NEW c \in Clients, NEW m \in QueueMessage, NEW n, NEW g
    PROVE  /\ Harmless(Reliable(ServerEnd(c), m), n, g)
           /\ Genuine(m, n[ClientEnd(c)]) => Harmless(Reliable(ClientEnd(c), m), n, g)
<1> DEFINE ds == Reliable(ServerEnd(c), m)
           dc == Reliable(ClientEnd(c), m)
<1>1. m.cmd # "Ack"
  BY DEF QueueMessage, ReliableCmds
<1>2. /\ ds.to = ClientEnd(c) /\ ds.cmd # "Ack"
      /\ dc.cmd # "Ack" /\ dc.to = ServerEnd(c) /\ dc.cmd = m.cmd /\ dc.num = m.num
      /\ dc.seq_no = m.seq_no /\ dc.sess = m.sess
  BY <1>1, EndFacts DEF Reliable
<1> HIDE DEF ds, dc
<1>3. Genuine(m, n[ClientEnd(c)]) => Genuine(dc, n[ClientEnd(c)])
  BY <1>2 DEF Genuine
<1>4. Harmless(ds, n, g)
  BY <1>2, HarmlessReliable
<1>5. Genuine(m, n[ClientEnd(c)]) => Harmless(dc, n, g)
  BY <1>2, <1>3, HarmlessReliable
<1> QED BY <1>4, <1>5 DEF ds, dc

(* A visit of the client's heap h.                                         *)
LEMMA VisitClient ==
    ASSUME TypeOK, TypeOK', StreamInv, NEW c \in Clients, NEW h \in Heap,
           NEW out,
           Visit(ClientEnd(c), h, out),
           SentInv(h, pushed[ClientEnd(c)]),
           AckedInv(h, pushed[ClientEnd(c)], given[ServerEnd(c)]),
           \A d \in out : Harmless(d, pushed, given),
           phase' = phase, pushed' = pushed
    PROVE  StreamInv'
<1> DEFINE e == ClientEnd(c)
<1>1. e \in Ends /\ ServerEnd(c) \in Ends /\ e # ServerEnd(c) /\ e[1] # "server"
  BY EndFacts
<1>2. pushed[e] \in Nat /\ pushed[e] <= pushed'[e]
  BY <1>1 DEF TypeOK
<1>3. LoginInv'
  BY DEF LoginInv, StreamInv
<1>4. PlayersAfterLogout(e) = players
  BY <1>1 DEF PlayersAfterLogout
<1>5. CASE h.deferred_kill
  <2>1. heap' = [heap EXCEPT ![e] = NoHeap] /\ net' = net \cup out
        /\ players' = players /\ given' = given
    BY <1>4, <1>5 DEF Visit
  <2> QED BY <1>2, <1>3, <2>1, FrameClient
<1>6. CASE ~h.deferred_kill /\ ~Ready(h)
  <2>1. heap' = [heap EXCEPT ![e] = h] /\ net' = net \cup out
        /\ players' = players /\ given' = given
    BY <1>6 DEF Visit
  <2> QED BY <1>2, <1>3, <2>1, FrameClient
<1>7. CASE ~h.deferred_kill /\ Ready(h)
  <2> DEFINE m == Head(h.in_queue)
             t == Taken(e, h)
             h1 == IF m.cmd = "Logout" THEN NoHeap ELSE CountUnrel(t)
             o1 == out \cup {Unreliable(e, h, "Ack", m.seq_no)}
  <2>1. /\ heap' = [heap EXCEPT ![e] = h1]
        /\ net' = net \cup o1
        /\ players' = players
        /\ given' = [given EXCEPT ![e] = @ \cup {<<m.sess, m.num>>}]
    BY <1>1, <1>4, <1>7 DEF Visit, Deliver, IsLogin
  <2>2. /\ \A x \in Ends : given[x] \subseteq given'[x]
        /\ given'[ServerEnd(c)] = given[ServerEnd(c)]
    <3> HIDE DEF m, e
    <3> QED BY <1>1, <2>1 DEF TypeOK
  <2>3. t \in Heap /\ CountUnrel(t) \in Heap /\ Same(CountUnrel(t), t)
    BY <1>1, <1>7, TakenType, UnrelType, SameFields DEF Ready
  <2>4. SentInv(t, pushed[e]) /\ AckedInv(t, pushed[e], given[ServerEnd(c)])
    <3>1. t.last_send_rel = h.last_send_rel /\ t.out_queue = h.out_queue
      BY DEF Taken, Heap
    <3> HIDE DEF t
    <3> QED BY <3>1 DEF SentInv, AckedInv
  <2>5. h1 # NoHeap => SentInv(h1, pushed'[e]) /\ AckedInv(h1, pushed'[e], given'[ServerEnd(c)])
    <3> HIDE DEF t, m
    <3> QED BY <2>2, <2>3, <2>4, SameInv
  <2>6. \A d \in o1 : Harmless(d, pushed', given')
    <3>1. \A d \in out : Harmless(d, pushed', given')
      BY <2>2, EndFacts, HarmlessMono DEF TypeOK
    <3>2. Harmless(Unreliable(e, h, "Ack", m.seq_no), pushed', given')
      BY SentHarmless
    <3> QED BY <3>1, <3>2
  <2> HIDE DEF m, t, h1, o1
  <2> QED BY <1>2, <1>3, <2>1, <2>2, <2>5, <2>6, FrameClient
<1> QED BY <1>5, <1>6, <1>7

(* A visit of the server's heap h: the heap of a logged in client, or a    *)
(* new one whose Login is about to be delivered.                           *)
LoggedIn(c, h) == h.last_recv_rel >= 1 /\ players[c] = 1
LoggingIn(c, h) == /\ h.last_recv_rel = 0 /\ players[c] = 0
                   /\ ~h.deferred_kill /\ Ready(h)
                   /\ Head(h.in_queue).cmd = "Login"

LEMMA VisitServer ==
    ASSUME TypeOK, TypeOK', StreamInv, NEW c \in Clients, NEW h \in Heap,
           NEW out,
           Visit(ServerEnd(c), h, out),
           ReceivedInv(h, pushed[ClientEnd(c)], given[ServerEnd(c)]),
           LoggedIn(c, h) \/ LoggingIn(c, h),
           \A d \in out : Harmless(d, pushed, given),
           phase' = phase,
           \A k \in Clients : pushed'[ClientEnd(k)] = pushed[ClientEnd(k)]
    PROVE  StreamInv'
<1> DEFINE e == ServerEnd(c)
<1>1. e \in Ends /\ ClientEnd(c) \in Ends /\ e[1] = "server" /\ e[2] = c
  BY EndFacts DEF ServerEnd
<1>2. /\ pushed[ClientEnd(c)] \in Nat
      /\ players \in [Clients -> Nat]
      /\ \A x \in Heap : x # NoHeap
  BY <1>1, NoHeapAssumption DEF TypeOK
<1>3. players[c] = 1 => PlayersAfterLogout(e) = [players EXCEPT ![c] = 0]
  BY <1>1 DEF PlayersAfterLogout
<1>4. players[c] = 1 => players = [players EXCEPT ![c] = 1]
  BY <1>2
<1>5. \A f : (\A x \in Ends : given[x] \subseteq f[x]) =>
        \A d \in out : Harmless(d, pushed', f)
  <2>1. \A k \in Clients : pushed[ClientEnd(k)] <= pushed'[ClientEnd(k)]
    BY EndFacts DEF TypeOK
  <2> QED BY <2>1, EndFacts, HarmlessMono DEF TypeOK
<1>6. CASE h.deferred_kill
  <2>1. /\ heap' = [heap EXCEPT ![e] = NoHeap] /\ net' = net \cup out
        /\ players' = [players EXCEPT ![c] = 0] /\ given' = given
    BY <1>3, <1>6 DEF Visit, LoggedIn, LoggingIn
  <2>2. players' = [players EXCEPT ![c] = IF NoHeap = NoHeap THEN 0 ELSE 1]
    BY <2>1
  <2> QED BY <1>5, <2>1, <2>2, FrameServer
<1>7. CASE ~h.deferred_kill /\ ~Ready(h)
  <2>1. /\ heap' = [heap EXCEPT ![e] = h] /\ net' = net \cup out
        /\ players' = players /\ given' = given /\ LoggedIn(c, h)
    BY <1>7 DEF Visit, LoggingIn
  <2>2. players' = [players EXCEPT ![c] = IF h = NoHeap THEN 0 ELSE 1]
    BY <1>2, <1>4, <2>1 DEF LoggedIn
  <2> QED BY <1>5, <2>1, <2>2, FrameServer DEF LoggedIn
<1>8. CASE ~h.deferred_kill /\ Ready(h)
  <2> DEFINE m == Head(h.in_queue)
             t == CountUnrel(Taken(e, h))
             h1 == IF m.cmd = "Logout" THEN NoHeap ELSE t
             o1 == out \cup {Unreliable(e, h, "Ack", m.seq_no)}
  <2>1. /\ heap' = [heap EXCEPT ![e] = h1]
        /\ net' = net \cup o1
        /\ players' = IF m.cmd = "Login" THEN [players EXCEPT ![c] = @ + 1]
                      ELSE IF m.cmd = "Logout" THEN PlayersAfterLogout(e) ELSE players
        /\ given' = [given EXCEPT ![e] = @ \cup {<<m.sess, m.num>>}]
    BY <1>1, <1>8 DEF Visit, Deliver, IsLogin
  <2>2. /\ \A x \in Ends : given[x] \subseteq given'[x]
        /\ given'[e] = given[e] \cup {<<m.sess, m.num>>}
    <3> HIDE DEF m, e
    <3> QED BY <1>1, <2>1 DEF TypeOK
  <2>3. t \in Heap
    BY <1>1, <1>8, TakenType, UnrelType DEF Ready
  <2>4. /\ Genuine(m, pushed[ClientEnd(c)])
        /\ m.num = h.last_recv_rel + 1
        /\ t.last_recv_rel = h.last_recv_rel + 1
        /\ ReceivedInv(t, pushed[ClientEnd(c)], given'[e])
    <3>1. /\ Genuine(m, pushed[ClientEnd(c)])
          /\ m.num = h.last_recv_rel + 1
          /\ t.last_recv_rel = h.last_recv_rel + 1
          /\ ReceivedInv(t, pushed[ClientEnd(c)], given[e] \cup {<<m.sess, m.num>>})
      BY <1>1, <1>2, <1>8, TakenReceived
    <3> QED BY <2>2, <3>1
  <2>5. h.last_recv_rel \in Nat
    BY HeapFields
  <2> HIDE DEF m, t
  <2>6. t.last_recv_rel >= 1
    BY <2>4, <2>5
  <2>7. players' = [players EXCEPT ![c] = IF h1 = NoHeap THEN 0 ELSE 1]
    <3>1. CASE m.cmd = "Login"
      <4>1. h.last_recv_rel = 0
        BY <2>4, <2>5, <3>1 DEF Genuine
      <4>2. players[c] = 0
        BY <4>1 DEF LoggedIn, LoggingIn
      <4>3. h1 # NoHeap
        BY <1>2, <2>3, <3>1
      <4> QED BY <1>2, <2>1, <3>1, <4>2, <4>3
    <3>2. CASE m.cmd # "Login"
      <4>1. players[c] = 1
        BY <3>2 DEF LoggedIn, LoggingIn, m
      <4>2. CASE m.cmd = "Logout"
        BY <1>3, <2>1, <3>2, <4>1, <4>2
      <4>3. CASE m.cmd # "Logout"
        <5>1. h1 # NoHeap
          BY <1>2, <2>3, <4>3
        <5> QED BY <1>4, <2>1, <3>2, <4>1, <4>3, <5>1
      <4> QED BY <4>2, <4>3
    <3> QED BY <3>1, <3>2
  <2>8. \A d \in o1 : Harmless(d, pushed', given')
    <3>1. Harmless(Unreliable(e, h, "Ack", m.seq_no), pushed', given')
      <4>1. <<1, m.seq_no>> \in given'[e]
        BY <2>2, <2>4 DEF Genuine
      <4> QED BY <4>1, SentHarmless
    <3> QED BY <1>5, <2>2, <3>1
  <2>9. h1 # NoHeap => h1 = t
    OBVIOUS
  <2> HIDE DEF h1, o1
  <2>10. h1 # NoHeap => /\ h1.last_recv_rel >= 1
                        /\ ReceivedInv(h1, pushed[ClientEnd(c)], given'[e])
    BY <2>4, <2>6, <2>9
  <2> QED BY <2>1, <2>2, <2>7, <2>8, <2>10, FrameServer
<1> QED BY <1>6, <1>7, <1>8

-----------------------------------------------------------------------------
(* Every step of cycle() and of the applications preserves StreamInv, so   *)
(* it holds always, and with it what the client's reliable stream and the  *)
(* login bookkeeping of the server promise.                                *)

(* What StreamInv says of a heap that exists.                              *)
LEMMA ClientHeap ==
    ASSUME TypeOK, StreamInv, NEW c \in Clients, Alive(ClientEnd(c))
    PROVE  /\ heap[ClientEnd(c)] \in Heap
           /\ SentInv(heap[ClientEnd(c)], pushed[ClientEnd(c)])
           /\ AckedInv(heap[ClientEnd(c)], pushed[ClientEnd(c)], given[ServerEnd(c)])
           /\ pushed[ClientEnd(c)] \in Nat
<1>1. ClientEnd(c) \in Ends
  BY EndFacts
<1>2. heap[ClientEnd(c)] \in Heap /\ pushed[ClientEnd(c)] \in Nat
  BY <1>1, AliveHeap DEF TypeOK
<1> QED BY <1>2 DEF StreamInv, SenderInv

LEMMA ServerHeap ==
    ASSUME TypeOK, StreamInv, NEW c \in Clients, Alive(ServerEnd(c))
    PROVE  /\ heap[ServerEnd(c)] \in Heap
           /\ ReceivedInv(heap[ServerEnd(c)], pushed[ClientEnd(c)], given[ServerEnd(c)])
           /\ heap[ServerEnd(c)].last_recv_rel >= 1
           /\ players[c] = 1
           /\ pushed[ClientEnd(c)] \in Nat
<1>1. ClientEnd(c) \in Ends /\ ServerEnd(c) \in Ends
  BY EndFacts
<1>2. heap[ServerEnd(c)] \in Heap /\ pushed[ClientEnd(c)] \in Nat
  BY <1>1, AliveHeap DEF TypeOK
<1>3. players[c] = 1
  BY DEF StreamInv, OnePlayerPerHeap
<1> QED BY <1>2, <1>3 DEF StreamInv, ReceiverInv

(* A step that changes of one heap nothing the stream depends on.          *)
LEMMA Keep ==
    ASSUME TypeOK, TypeOK', StreamInv, NEW e \in Ends, Alive(e),
           NEW h1 \in Heap, NEW out, Same(h1, heap[e]),
           heap' = [heap EXCEPT ![e] = h1], net' = net \cup out,
           \A d \in out : Harmless(d, pushed, given),
           UNCHANGED <<phase, players, pushed, given>>
    PROVE  StreamInv'
<1>1. LoginInv'
  BY DEF StreamInv, LoginInv
<1>2. e[2] \in Clients /\ h1 # NoHeap
  BY EndFacts, NoHeapAssumption
<1>3. \A d \in out : Harmless(d, pushed', given')
  OBVIOUS
<1>4. ASSUME NEW c \in Clients, e = ClientEnd(c)
      PROVE  StreamInv'
  <2>1. SentInv(h1, pushed[e]) /\ AckedInv(h1, pushed[e], given[ServerEnd(c)])
    BY <1>4, ClientHeap, SameInv
  <2>2. pushed[e] <= pushed'[e]
    BY <1>4, ClientHeap
  <2> QED BY <1>1, <1>3, <1>4, <2>1, <2>2, FrameClient
<1>5. ASSUME NEW c \in Clients, e = ServerEnd(c)
      PROVE  StreamInv'
  <2>1. /\ ReceivedInv(h1, pushed[ClientEnd(c)], given[e])
        /\ h1.last_recv_rel >= 1
        /\ players[c] = 1
    BY <1>5, ServerHeap, SameInv DEF Same
  <2>2. players' = [players EXCEPT ![c] = IF h1 = NoHeap THEN 0 ELSE 1]
    BY <1>2, <2>1 DEF TypeOK
  <2> QED BY <1>3, <1>5, <2>1, <2>2, FrameServer
<1> QED BY <1>2, <1>4, <1>5, EndFacts

(* A step in which a heap goes, with the event_logout of its application.  *)
LEMMA Dropped ==
    ASSUME TypeOK, TypeOK', StreamInv, NEW e \in Ends,
           e[1] = "server" => Alive(e), NEW out,
           heap' = [heap EXCEPT ![e] = NoHeap], net' = net \cup out,
           players' = PlayersAfterLogout(e),
           \A d \in out : Harmless(d, pushed, given),
           \A c \in Clients : phase'[c] = "new" => phase[c] = "new",
           UNCHANGED <<pushed, given>>
    PROVE  StreamInv'
<1>1. LoginInv'
  BY DEF StreamInv, LoginInv
<1>2. e[2] \in Clients
  BY EndFacts
<1>3. \A d \in out : Harmless(d, pushed', given')
  OBVIOUS
<1>4. ASSUME NEW c \in Clients, e = ClientEnd(c)
      PROVE  StreamInv'
  <2>1. players' = players
    BY <1>4, EndFacts DEF PlayersAfterLogout
  <2>2. pushed[e] \in Nat
    BY DEF TypeOK
  <2>3. pushed[e] <= pushed'[e]
    BY <2>2
  <2> QED BY <1>1, <1>3, <1>4, <2>1, <2>3, FrameClient
<1>5. ASSUME NEW c \in Clients, e = ServerEnd(c)
      PROVE  StreamInv'
  <2>1. e[1] = "server" /\ e[2] = c
    BY <1>5 DEF ServerEnd
  <2>2. players[c] = 1
    BY <1>5, <2>1, ServerHeap
  <2>3. players' = [players EXCEPT ![c] = IF NoHeap = NoHeap THEN 0 ELSE 1]
    BY <2>1, <2>2 DEF PlayersAfterLogout
  <2>4. /\ SenderAfter(e, NoHeap) /\ ReceiverAfter(e, NoHeap)
        /\ PlayersAfter(e, NoHeap)
    <3>1. SenderAfter(e, NoHeap) /\ ReceiverAfter(e, NoHeap)
      BY DEF SenderAfter, ReceiverAfter
    <3>2. players \in [Clients -> Nat]
      BY DEF TypeOK
    <3>3. \A k \in Clients : e = ServerEnd(k) <=> k = c
      BY <1>5 DEF ServerEnd
    <3>4. players' = [players EXCEPT ![c] = 0]
      BY <2>3
    <3>5. PlayersAfter(e, NoHeap)
      BY <3>2, <3>3, <3>4 DEF PlayersAfter
    <3> QED BY <3>1, <3>5
  <2>5. Touches(e, NoHeap, out)
    <3>1. \A k \in Clients : pushed[ClientEnd(k)] \in Nat
      BY EndFacts DEF TypeOK
    <3> QED BY <1>3, <3>1 DEF Touches
  <2> QED BY <1>1, <2>4, <2>5, FrameOfStep
<1> QED BY <1>2, <1>4, <1>5, EndFacts

-----------------------------------------------------------------------------
(* What an arriving datagram does.                                         *)

LEMMA AckLeavesReceived ==
    ASSUME NEW h \in Heap, NEW k
    PROVE  /\ Acknowledged(h, k).in_queue = h.in_queue
           /\ Acknowledged(h, k).last_recv_rel = h.last_recv_rel
           /\ Acknowledged(h, k).delivered = h.delivered
BY DEF Acknowledged, Popped, Heap

LEMMA InsertLeavesSent ==
    ASSUME NEW h \in Heap, NEW q \in Seq(QueueMessage)
    PROVE  /\ [h EXCEPT !.in_queue = q].last_send_rel = h.last_send_rel
           /\ [h EXCEPT !.in_queue = q].out_queue = h.out_queue
BY DEF Heap

(* The acknowledgement that AckAgain repeats is for a delivered message.   *)
LEMMA AckAgainStep ==
    ASSUME TypeOK, TypeOK', StreamInv, NEW e \in Ends, NEW d \in net,
           d.to = e, d.reliable, Alive(e), AckAgain(e, heap[e], d),
           phase' = phase, pushed' = pushed
    PROVE  StreamInv'
<1> DEFINE h == heap[e]
           h1 == CountUnrel(h)
           a == Unreliable(e, h, "Ack", d.seq_no)
<1>1. h \in Heap /\ h1 \in Heap /\ Same(h1, h)
  BY AliveHeap, UnrelType, SameFields
<1>2. Visit(e, h1, {a}) /\ d.seq_no <= h.last_recv_rel /\ d \in Datagram
  BY DEF AckAgain, TypeOK
<1> HIDE DEF h1, a
<1>3. ASSUME NEW c \in Clients, e = ClientEnd(c)
      PROVE  StreamInv'
  <2>1. /\ SentInv(h1, pushed[ClientEnd(c)])
        /\ AckedInv(h1, pushed[ClientEnd(c)], given[ServerEnd(c)])
    BY <1>1, <1>3, ClientHeap, SameInv
  <2>2. Harmless(a, pushed, given)
    BY <1>3, SentHarmless DEF a
  <2> QED BY <1>1, <1>2, <1>3, <2>1, <2>2, VisitClient
<1>4. ASSUME NEW c \in Clients, e = ServerEnd(c)
      PROVE  StreamInv'
  <2>1. /\ ReceivedInv(h, pushed[ClientEnd(c)], given[e])
        /\ h.last_recv_rel >= 1 /\ h.last_recv_rel \in Nat
        /\ players[c] = 1
    BY <1>1, <1>4, ServerHeap, HeapFields
  <2>2. ReceivedInv(h1, pushed[ClientEnd(c)], given[e]) /\ LoggedIn(c, h1)
    BY <1>1, <2>1, SameInv DEF LoggedIn, Same
  <2>3. Genuine(d, pushed[ClientEnd(c)])
    BY <1>4 DEF StreamInv, NetInv, Harmless
  <2>4. d.seq_no \in 1 .. h.last_recv_rel
    BY <1>2, <2>1, <2>3, DatagramFields DEF Genuine
  <2>5. <<1, d.seq_no>> \in given[e]
    BY <2>1, <2>4 DEF ReceivedInv
  <2>6. Harmless(a, pushed, given)
    BY <1>4, <2>5, SentHarmless DEF a
  <2> QED BY <1>1, <1>2, <1>4, <2>2, <2>6, VisitServer
<1> QED BY <1>3, <1>4, EndFacts

LEMMA EnqueueStep ==
    ASSUME TypeOK, TypeOK', StreamInv, NEW e \in Ends, NEW d \in net,
           d.to = e, d.reliable, Alive(e), Enqueue(e, heap[e], d),
           phase' = phase, pushed' = pushed
    PROVE  StreamInv'
<1> DEFINE h == heap[e]
<1>1. h \in Heap
  BY AliveHeap
<1>2. d \in Datagram /\ d.cmd \in ReliableCmds
  BY DatagramFields DEF TypeOK
<1>3. PICK k \in 0 .. Len(h.in_queue) :
        Visit(e, [h EXCEPT !.in_queue = InsertedAt(h.in_queue, AsQueued(d), k)], {})
  BY Zenon DEF Enqueue
<1> DEFINE q == InsertedAt(h.in_queue, AsQueued(d), k)
           h1 == [h EXCEPT !.in_queue = q]
<1>4. q \in Seq(QueueMessage) /\ h1 \in Heap
  BY <1>1, <1>2, HeapFields, AsQueuedType, InsertType, HeapWithQueue
<1>5. ASSUME NEW c \in Clients, e = ClientEnd(c)
      PROVE  StreamInv'
  <2>1. SentInv(h, pushed[e]) /\ AckedInv(h, pushed[e], given[ServerEnd(c)])
    BY <1>5, ClientHeap
  <2>2. h1.last_send_rel = h.last_send_rel /\ h1.out_queue = h.out_queue
    <3> HIDE DEF h, q
    <3> QED BY <1>1, <1>4, InsertLeavesSent
  <2> HIDE DEF h1, h
  <2>3. SentInv(h1, pushed[e]) /\ AckedInv(h1, pushed[e], given[ServerEnd(c)])
    BY <2>1, <2>2 DEF SentInv, AckedInv
  <2>4. Visit(e, h1, {})
    BY <1>3 DEF h1
  <2> QED BY <1>4, <1>5, <2>3, <2>4, VisitClient
<1>6. ASSUME NEW c \in Clients, e = ServerEnd(c)
      PROVE  StreamInv'
  <2>1. /\ ReceivedInv(h, pushed[ClientEnd(c)], given[e])
        /\ h.last_recv_rel >= 1
        /\ players[c] = 1
    BY <1>6, ServerHeap
  <2>2. Genuine(d, pushed[ClientEnd(c)])
    BY <1>6 DEF StreamInv, NetInv, Harmless
  <2> HIDE DEF h
  <2>3. ReceivedInv(h1, pushed[ClientEnd(c)], given[e]) /\ h1.last_recv_rel = h.last_recv_rel
    BY <1>1, <1>2, <2>1, <2>2, EnqueueReceived
  <2> HIDE DEF h1
  <2>4. LoggedIn(c, h1)
    BY <2>1, <2>3 DEF LoggedIn
  <2>5. Visit(e, h1, {})
    BY <1>3 DEF h1, h
  <2> QED BY <1>4, <1>6, <2>3, <2>4, <2>5, VisitServer
<1> QED BY <1>5, <1>6, EndFacts

LEMMA UnreliableStep ==
    ASSUME TypeOK, TypeOK', StreamInv, NEW e \in Ends, NEW d \in net,
           ReceiveUnreliable(e, d)
    PROVE  StreamInv'
<1> DEFINE g == heap[e]
           h == [g EXCEPT !.last_recv_unrel = d.seq_no]
           ha == Acknowledged(h, d.num)
           hp == [h EXCEPT !.sent_pings = 0]
           pong == Unreliable(e, h, "Pong", 0)
<1>1. /\ d \in Datagram /\ d.seq_no \in Nat /\ d.num \in Nat
      /\ d.to = e /\ Alive(e)
      /\ phase' = phase /\ pushed' = pushed
  BY DatagramFields DEF TypeOK, ReceiveUnreliable
<1>2. g \in Heap /\ h \in Heap /\ Same(h, g)
  BY <1>1, AliveHeap, HeapWithNat, SameFields
<1>3. \/ d.cmd = "Ack" /\ Visit(e, ha, {})
      \/ Visit(e, hp, {})
      \/ Visit(e, h, {})
      \/ Visit(e, CountUnrel(h), {pong})
  BY Zenon DEF ReceiveUnreliable
<1> HIDE DEF h, g, ha
<1>4. ha \in Heap
  BY <1>1, <1>2, AcknowledgedType DEF ha
<1>5. /\ hp \in Heap /\ Same(hp, h)
      /\ CountUnrel(h) \in Heap /\ Same(CountUnrel(h), h)
  BY <1>2, HeapWithNat, UnrelType, SameFields
<1>6. Same(hp, g) /\ Same(CountUnrel(h), g)
  BY <1>2, <1>5 DEF Same
<1>7. Harmless(pong, pushed, given)
  BY <1>1, EndFacts, SentHarmless
<1> HIDE DEF hp, pong
<1>8. ASSUME NEW c \in Clients, e = ClientEnd(c)
      PROVE  StreamInv'
  <2>1. SentInv(g, pushed[e]) /\ AckedInv(g, pushed[e], given[ServerEnd(c)])
        /\ pushed[e] \in Nat
    BY <1>1, <1>8, ClientHeap DEF g
  <2>2. ASSUME NEW x \in Heap, Same(x, g)
        PROVE  SentInv(x, pushed[e]) /\ AckedInv(x, pushed[e], given[ServerEnd(c)])
    BY <1>2, <2>1, <2>2, SameInv
  <2>3. CASE d.cmd = "Ack" /\ Visit(e, ha, {})
    <3>1. <<1, d.num>> \in given[ServerEnd(c)]
      BY <1>1, <1>8, <2>3 DEF StreamInv, NetInv, Harmless
    <3>2. SentInv(h, pushed[e]) /\ AckedInv(h, pushed[e], given[ServerEnd(c)])
      BY <1>2, <2>2
    <3>3. SentInv(ha, pushed[e]) /\ AckedInv(ha, pushed[e], given[ServerEnd(c)])
      BY <1>1, <1>2, <2>1, <3>1, <3>2, AcknowledgedSent DEF ha
    <3> QED BY <1>1, <1>4, <1>8, <2>3, <3>3, VisitClient
  <2>4. CASE Visit(e, hp, {})
    BY <1>1, <1>5, <1>6, <1>8, <2>2, <2>4, VisitClient
  <2>5. CASE Visit(e, h, {})
    BY <1>1, <1>2, <1>8, <2>2, <2>5, VisitClient
  <2>6. CASE Visit(e, CountUnrel(h), {pong})
    BY <1>1, <1>5, <1>6, <1>7, <1>8, <2>2, <2>6, VisitClient
  <2> QED BY <1>3, <2>3, <2>4, <2>5, <2>6
<1>9. ASSUME NEW c \in Clients, e = ServerEnd(c)
      PROVE  StreamInv'
  <2>1. /\ ReceivedInv(g, pushed[ClientEnd(c)], given[e])
        /\ g.last_recv_rel >= 1
        /\ players[c] = 1
    BY <1>1, <1>9, ServerHeap DEF g
  <2>2. ASSUME NEW x \in Heap, Same(x, g)
        PROVE  ReceivedInv(x, pushed[ClientEnd(c)], given[e]) /\ LoggedIn(c, x)
    <3>1. ReceivedInv(x, pushed[ClientEnd(c)], given[e])
      BY <1>2, <2>1, <2>2, SameInv
    <3> QED BY <2>1, <2>2, <3>1 DEF LoggedIn, Same
  <2>3. CASE Visit(e, ha, {})
    <3>1. /\ ha.in_queue = g.in_queue /\ ha.last_recv_rel = g.last_recv_rel
          /\ ha.delivered = g.delivered
      BY <1>1, <1>2, AckLeavesReceived DEF ha, Same
    <3>2. ReceivedInv(ha, pushed[ClientEnd(c)], given[e]) /\ LoggedIn(c, ha)
      BY <2>1, <3>1 DEF ReceivedInv, LoggedIn
    <3> QED BY <1>1, <1>4, <1>9, <2>3, <3>2, VisitServer
  <2>4. CASE Visit(e, hp, {})
    BY <1>1, <1>5, <1>6, <1>9, <2>2, <2>4, VisitServer
  <2>5. CASE Visit(e, h, {})
    BY <1>1, <1>2, <1>9, <2>2, <2>5, VisitServer
  <2>6. CASE Visit(e, CountUnrel(h), {pong})
    BY <1>1, <1>5, <1>6, <1>7, <1>9, <2>2, <2>6, VisitServer
  <2> QED BY <1>3, <2>3, <2>4, <2>5, <2>6
<1> QED BY <1>8, <1>9, EndFacts

(* A cycle in which nothing arrives.                                       *)
LEMMA VisitOnlyStep ==
    ASSUME TypeOK, TypeOK', StreamInv, NEW e \in Ends, VisitOnly(e)
    PROVE  StreamInv'
<1>1. Alive(e) /\ Visit(e, heap[e], {}) /\ phase' = phase /\ pushed' = pushed
  BY DEF VisitOnly
<1>2. ASSUME NEW c \in Clients, e = ClientEnd(c)
      PROVE  StreamInv'
  BY <1>1, <1>2, ClientHeap, VisitClient
<1>3. ASSUME NEW c \in Clients, e = ServerEnd(c)
      PROVE  StreamInv'
  <2>1. LoggedIn(c, heap[e])
    BY <1>1, <1>3, ServerHeap DEF LoggedIn
  <2> QED BY <1>1, <1>3, <2>1, ServerHeap, VisitServer
<1> QED BY <1>2, <1>3, EndFacts

(* A new heap delivers its Login in the same cycle.                        *)
(* A Login is delivered in the cycle that makes the heap.                  *)
LEMMA AcceptLoginVisit ==
    ASSUME TypeOK, StreamInv, NEW c \in Clients, NEW d \in net,
           AcceptLogin(c, d)
    PROVE  /\ \E h \in Heap :
                /\ Visit(ServerEnd(c), h, {}) /\ LoggingIn(c, h)
                /\ ReceivedInv(h, pushed[ClientEnd(c)], given[ServerEnd(c)])
           /\ \A k \in Clients : pushed'[ClientEnd(k)] = pushed[ClientEnd(k)]
<1> DEFINE e == ServerEnd(c)
           n == pushed[ClientEnd(c)]
           g == given[e]
<1>1. /\ e \in Ends /\ ClientEnd(c) \in Ends /\ n \in Nat
      /\ \A k \in Clients : ClientEnd(k) # e /\ ClientEnd(k) \in Ends
  BY EndFacts DEF TypeOK
<1>2. /\ d.to = e /\ d.cmd = "Login" /\ ~Alive(e) /\ phase' = phase
      /\ pushed' = [pushed EXCEPT ![e] = 0]
      /\ Enqueue(e, NewHeap, d)
  BY DEF AcceptLogin
<1>3. d \in Datagram /\ d.cmd \in ReliableCmds /\ d.reliable
  BY <1>2, DatagramFields DEF TypeOK, ReliableCmds
<1>4. Genuine(d, n)
  BY <1>2, <1>3 DEF StreamInv, NetInv, Harmless
<1>5. /\ NewHeap.in_queue = << >> /\ NewHeap.last_recv_rel = 0
      /\ NewHeap.delivered = << >> /\ ~NewHeap.deferred_kill
  BY DEF NewHeap
<1>6. ReceivedInv(NewHeap, n, g)
  <2> HIDE DEF n, g
  <2>1. Len(NewHeap.in_queue) = 0 /\ Len(NewHeap.delivered) = 0 /\ 1 .. 0 = {}
    BY <1>5
  <2> QED BY <1>1, <1>5, <2>1 DEF ReceivedInv
<1> DEFINE q == InsertedAt(<< >>, AsQueued(d), 0)
           h1 == [NewHeap EXCEPT !.in_queue = q]
<1>7. Visit(e, h1, {})
  <2>1. PICK k \in 0 .. Len(NewHeap.in_queue) :
          Visit(e, [NewHeap EXCEPT !.in_queue =
                      InsertedAt(NewHeap.in_queue, AsQueued(d), k)], {})
    BY <1>2, Zenon DEF Enqueue
  <2>2. k = 0
    BY <1>5
  <2> QED BY <1>5, <2>1, <2>2
<1>8. /\ h1 \in Heap /\ ReceivedInv(h1, n, g) /\ h1.last_recv_rel = 0
      /\ ~h1.deferred_kill
  <2> DEFINE k == 0
  <2>1. k \in 0 .. Len(NewHeap.in_queue)
    BY <1>5
  <2>2. h1 = [NewHeap EXCEPT !.in_queue = InsertedAt(NewHeap.in_queue, AsQueued(d), k)]
    BY <1>5
  <2> HIDE DEF n, g, h1, k
  <2> QED BY <1>3, <1>4, <1>5, <1>6, <2>1, <2>2, NewHeapType, EnqueueReceived
<1>9. h1.in_queue = q
  BY DEF NewHeap
<1>10. Len(q) = 1 /\ q[1] = AsQueued(d)
  BY DEF InsertedAt
<1>11. /\ h1.in_queue # << >> /\ Head(h1.in_queue) = AsQueued(d)
  <2> HIDE DEF q, h1
  <2>1. Len(h1.in_queue) = 1 /\ h1.in_queue[1] = AsQueued(d)
    BY <1>9, <1>10
  <2>2. h1.in_queue # << >>
    BY <2>1
  <2> QED BY <1>8, <2>1, <2>2, QueueHead
<1>12. players[c] = 0
  BY <1>2 DEF StreamInv, OnePlayerPerHeap
<1>13. LoggingIn(c, h1)
  <2>1. AsQueued(d).cmd = "Login" /\ AsQueued(d).seq_no = 1
    BY <1>2, <1>4 DEF AsQueued, Genuine
  <2> HIDE DEF h1
  <2> QED BY <1>8, <1>11, <1>12, <2>1 DEF LoggingIn, Ready
<1>14. \A k \in Clients : pushed'[ClientEnd(k)] = pushed[ClientEnd(k)]
  BY <1>1, <1>2 DEF TypeOK
<1> HIDE DEF h1
<1> QED BY <1>7, <1>8, <1>13, <1>14

LEMMA AcceptLoginStep ==
    ASSUME TypeOK, TypeOK', StreamInv, NEW c \in Clients, NEW d \in net,
           AcceptLogin(c, d)
    PROVE  StreamInv'
<1>1. phase' = phase
  BY DEF AcceptLogin
<1> QED BY <1>1, AcceptLoginVisit, VisitServer

LEMMA RefuseLoginStep ==
    ASSUME TypeOK, TypeOK', StreamInv, NEW c \in Clients, NEW d \in net,
           RefuseLogin(c, d)
    PROVE  StreamInv'
<1> DEFINE e == ServerEnd(c)
<1>1. /\ UNCHANGED <<heap, phase, players, session, pushed, given>>
      /\ ~Alive(e)
  BY DEF RefuseLogin
<1>2. PICK cmd \in Refusals : net' = net \cup {Refusal(c, cmd)}
  BY DEF RefuseLogin, Refusals
<1>3. Harmless(Refusal(c, cmd), pushed, given)
  BY SentHarmless
<1>4. heap' = [heap EXCEPT ![e] = NoHeap]
  BY <1>1, EndFacts DEF TypeOK, Alive
<1>5. players[c] = 0
  BY <1>1 DEF StreamInv, OnePlayerPerHeap
<1>6. players' = [players EXCEPT ![c] = IF NoHeap = NoHeap THEN 0 ELSE 1]
  BY <1>1, <1>5 DEF TypeOK
<1> DEFINE out == {Refusal(c, cmd)}
<1>7. \A x \in out : Harmless(x, pushed', given')
  BY <1>1, <1>3
<1>8. /\ \A x \in Ends : given[x] \subseteq given'[x]
      /\ \A k \in Clients : pushed'[ClientEnd(k)] = pushed[ClientEnd(k)]
      /\ phase' = phase
  BY <1>1
<1>9. ReceiverAfter(e, NoHeap) /\ SenderAfter(e, NoHeap) /\ PlayersAfter(e, NoHeap)
  BY <1>6, EndFacts DEF ReceiverAfter, SenderAfter, PlayersAfter, TypeOK, ServerEnd
<1>10. Touches(e, NoHeap, out)
  <2>1. \A k \in Clients : pushed[ClientEnd(k)] \in Nat
    BY EndFacts DEF TypeOK
  <2> QED BY <1>2, <1>4, <1>7, <1>8, <2>1 DEF Touches
<1>11. LoginInv'
  BY <1>1 DEF StreamInv, LoginInv
<1> QED BY <1>9, <1>10, <1>11, EndFacts, FrameOfStep

LEMMA ClientGoes ==
    ASSUME TypeOK, TypeOK', StreamInv, NEW c \in Clients,
           heap' = [heap EXCEPT ![ClientEnd(c)] = NoHeap],
           UNCHANGED <<net, players, pushed, given>>,
           \A k \in Clients : phase'[k] = "new" => phase[k] = "new"
    PROVE  StreamInv'
<1>1. /\ ClientEnd(c) \in Ends /\ ClientEnd(c)[1] # "server"
      /\ PlayersAfterLogout(ClientEnd(c)) = players
  BY EndFacts DEF PlayersAfterLogout
<1> DEFINE out == {}
<1>2. /\ net' = net \cup out
      /\ \A d \in out : Harmless(d, pushed, given)
      /\ players' = PlayersAfterLogout(ClientEnd(c))
      /\ pushed' = pushed /\ given' = given
  BY <1>1
<1> HIDE DEF out
<1> QED BY <1>1, <1>2, Dropped

LEMMA ReceiveRefusalStep ==
    ASSUME TypeOK, TypeOK', StreamInv, NEW c \in Clients, NEW d \in net,
           ReceiveRefusal(c, d)
    PROVE  StreamInv'
<1>1. \A k \in Clients : phase'[k] = "new" => phase[k] = "new"
  BY DEF ReceiveRefusal, TypeOK
<1> QED BY <1>1, ClientGoes DEF ReceiveRefusal

-----------------------------------------------------------------------------
(* The rest of cycle().                                                    *)

LEMMA KillStep ==
    ASSUME TypeOK, TypeOK', StreamInv, NEW e \in Ends, Alive(e), NEW out,
           Kill(e, out), \A d \in out : Harmless(d, pushed, given)
    PROVE  StreamInv'
BY Dropped DEF Kill

LEMMA ResendStep ==
    ASSUME TypeOK, TypeOK', StreamInv, NEW e \in Ends, Resend(e)
    PROVE  StreamInv'
<1> DEFINE h == heap[e]
           n == h.resends + 1
           m == Due(h)
<1>1. h \in Heap /\ Alive(e) /\ h.out_queue # << >>
  BY AliveHeap DEF Resend
<1>2. CASE n > MaxResends
  <2>1. Kill(e, {})
    BY <1>2 DEF Resend
  <2> QED BY <1>1, <2>1, KillStep
<1>3. CASE ~(n > MaxResends)
  <2>1. /\ heap' = [heap EXCEPT ![e] = [h EXCEPT !.resends = n]]
        /\ net' = net \cup {Reliable(e, m)}
        /\ UNCHANGED <<phase, players, session, pushed, given>>
    BY <1>3 DEF Resend
  <2>2. /\ m \in QueueMessage /\ m = h.out_queue[1]
        /\ 1 \in 1 .. Len(h.out_queue)
    BY <1>1, QueueTail DEF Due
  <2>3. n \in Nat
    BY <1>1, HeapFields
  <2> HIDE DEF h, m, n
  <2>4. [h EXCEPT !.resends = n] \in Heap /\ Same([h EXCEPT !.resends = n], h)
    BY <1>1, <2>3, HeapWithNat, SameFields
  <2>5. Harmless(Reliable(e, m), pushed, given)
    <3>1. ASSUME NEW c \in Clients, e = ClientEnd(c)
          PROVE  Harmless(Reliable(e, m), pushed, given)
      <4>1. Genuine(m, pushed[ClientEnd(c)])
        BY <1>1, <2>2, <3>1, ClientHeap DEF SentInv, h
      <4> QED BY <2>2, <3>1, <4>1, ReliableHarmless
    <3>2. ASSUME NEW c \in Clients, e = ServerEnd(c)
          PROVE  Harmless(Reliable(e, m), pushed, given)
      BY <2>2, <3>2, ReliableHarmless
    <3> QED BY <3>1, <3>2, EndFacts
  <2> DEFINE out == {Reliable(e, m)}
  <2>6. \A d \in out : Harmless(d, pushed, given)
    BY <2>5
  <2>7. net' = net \cup out
    BY <2>1
  <2> HIDE DEF out
  <2> QED BY <1>1, <2>1, <2>4, <2>6, <2>7, Keep DEF h
<1> QED BY <1>2, <1>3

LEMMA PingStep ==
    ASSUME TypeOK, TypeOK', StreamInv, NEW e \in Ends, Ping(e)
    PROVE  StreamInv'
<1> DEFINE h == heap[e]
           ping == {Unreliable(e, h, "Ping", 0)}
<1>1. h \in Heap /\ Alive(e)
  BY AliveHeap DEF Ping
<1>2. \A d \in ping : Harmless(d, pushed, given)
  <2>1. e[2] \in Clients
    BY EndFacts
  <2> QED BY <2>1, SentHarmless
<1>3. \/ Kill(e, ping)
      \/ /\ heap' = [heap EXCEPT ![e] = Pinged(h)]
         /\ net' = net \cup ping
         /\ UNCHANGED <<phase, players, session, pushed, given>>
  BY Zenon DEF Ping
<1>4. Same(Pinged(h), h) /\ Pinged(h) \in Heap
  <2>1. CountUnrel(h) \in Heap /\ h.sent_pings + 1 \in Nat
    BY <1>1, UnrelType, HeapFields
  <2> QED BY <1>1, <2>1, SameFields, HeapWithNat DEF Pinged
<1> HIDE DEF ping
<1> QED BY <1>1, <1>2, <1>3, <1>4, KillStep, Keep

-----------------------------------------------------------------------------
(* The applications.                                                       *)

LEMMA PushedFields ==
    ASSUME NEW e \in Ends, NEW h \in Heap, NEW cmd
    PROVE  /\ Pushed(e, h, cmd).in_queue = h.in_queue
           /\ Pushed(e, h, cmd).last_recv_rel = h.last_recv_rel
           /\ Pushed(e, h, cmd).delivered = h.delivered
BY DEF Pushed, Heap

LEMMA PushClient ==
    ASSUME TypeOK, TypeOK', StreamInv, NEW c \in Clients, NEW cmd \in ReliableCmds,
           PushReliable(ClientEnd(c), cmd),
           cmd = "Login" => pushed[ClientEnd(c)] = 0,
           phase'[c] # "new",
           \A k \in Clients : phase'[k] = "new" => phase[k] = "new"
    PROVE  StreamInv'
<1> DEFINE e == ClientEnd(c)
           h == heap[e]
           h1 == Pushed(e, h, cmd)
           out == {}
<1>1. e \in Ends /\ \A k \in Clients \ {c} : ClientEnd(k) \in Ends /\ ClientEnd(k) # e
  BY EndFacts DEF ClientEnd
<1>2. /\ Alive(e) /\ h \in Heap /\ h1 \in Heap
      /\ heap' = [heap EXCEPT ![e] = h1]
      /\ pushed' = [pushed EXCEPT ![e] = @ + 1]
      /\ net' = net \cup out
      /\ \A d \in out : Harmless(d, pushed', given')
      /\ players' = players /\ given' = given
  BY <1>1, AliveHeap, PushedType DEF PushReliable
<1>3. /\ SentInv(h, pushed[e]) /\ AckedInv(h, pushed[e], given[ServerEnd(c)])
      /\ pushed[e] \in Nat
  BY <1>2, ClientHeap
<1> HIDE DEF e, h, h1, out
<1>4. pushed'[e] = pushed[e] + 1 /\ \A x \in Ends \ {e} : pushed'[x] = pushed[x]
  BY <1>1, <1>2 DEF TypeOK
<1>5. SentInv(h1, pushed'[e])
  BY <1>2, <1>3, <1>4, PushedSent DEF h1, e
<1>6. AckedInv(h1, pushed'[e], given'[ServerEnd(c)])
  BY <1>2, <1>3, <1>4, PushedAcked DEF h1, e, SentInv
<1>7. pushed[e] <= pushed'[e]
  BY <1>3, <1>4
<1>8. \A k \in Clients \ {c} : pushed'[ClientEnd(k)] = pushed[ClientEnd(k)]
  BY <1>1, <1>4
<1>9. LoginInv'
  BY <1>8 DEF StreamInv, LoginInv
<1> QED BY <1>2, <1>5, <1>6, <1>7, <1>8, <1>9, FrameClient DEF e

LEMMA PushServer ==
    ASSUME TypeOK, TypeOK', StreamInv, NEW c \in Clients, NEW cmd \in ReliableCmds,
           PushReliable(ServerEnd(c), cmd), phase' = phase
    PROVE  StreamInv'
<1> DEFINE e == ServerEnd(c)
           h == heap[e]
           h1 == Pushed(e, h, cmd)
           out == {}
<1>1. e \in Ends /\ \A k \in Clients : ClientEnd(k) \in Ends /\ ClientEnd(k) # e
  BY EndFacts
<1>2. /\ Alive(e) /\ h \in Heap /\ h1 \in Heap
      /\ heap' = [heap EXCEPT ![e] = h1]
      /\ pushed' = [pushed EXCEPT ![e] = @ + 1]
      /\ net' = net \cup out
      /\ \A d \in out : Harmless(d, pushed', given')
      /\ players' = players /\ given' = given
  BY <1>1, AliveHeap, PushedType DEF PushReliable
<1>3. /\ ReceivedInv(h, pushed[ClientEnd(c)], given[e])
      /\ h.last_recv_rel >= 1 /\ players[c] = 1
  BY <1>2, ServerHeap
<1> HIDE DEF e, h, h1, out
<1>4. \A k \in Clients : pushed'[ClientEnd(k)] = pushed[ClientEnd(k)]
  BY <1>1, <1>2 DEF TypeOK
<1>5. /\ h1.in_queue = h.in_queue /\ h1.last_recv_rel = h.last_recv_rel
      /\ h1.delivered = h.delivered
  BY <1>1, <1>2, PushedFields DEF h1
<1>6. ReceivedInv(h1, pushed[ClientEnd(c)], given'[e]) /\ h1.last_recv_rel >= 1
  BY <1>2, <1>3, <1>5 DEF ReceivedInv
<1>7. players' = [players EXCEPT ![c] = IF h1 = NoHeap THEN 0 ELSE 1]
  <2>1. h1 # NoHeap
    BY <1>2, NoHeapAssumption
  <2> QED BY <1>2, <1>3, <2>1 DEF TypeOK
<1> QED BY <1>2, <1>4, <1>6, <1>7, FrameServer DEF e

LEMMA ApplicationStep ==
    ASSUME TypeOK, TypeOK', StreamInv, Application
    PROVE  StreamInv'
<1>1. ASSUME NEW e \in Ends, PushData(e) PROVE StreamInv'
  <2>1. /\ PushReliable(e, "Data") /\ phase' = phase
        /\ e[1] = "client" => phase'[e[2]] # "new"
    BY <1>1 DEF PushData
  <2>2. "Data" \in ReliableCmds
    BY DEF ReliableCmds
  <2>3. CASE e = ClientEnd(e[2])
    BY <2>1, <2>2, <2>3, EndFacts, PushClient
  <2>4. CASE e = ServerEnd(e[2])
    BY <2>1, <2>2, <2>4, EndFacts, PushServer
  <2> QED BY <2>3, <2>4, EndFacts
<1>2. ASSUME NEW e \in Ends, PushState(e) PROVE StreamInv'
  <2> DEFINE out == {Unreliable(e, heap[e], "State", 0)}
  <2>1. /\ heap' = [heap EXCEPT ![e] = CountUnrel(heap[e])]
        /\ net' = net \cup out /\ Alive(e)
        /\ UNCHANGED <<phase, players, session, pushed, given>>
    BY <1>2 DEF PushState
  <2>2. heap[e] \in Heap
    BY <2>1, AliveHeap
  <2>3. CountUnrel(heap[e]) \in Heap /\ Same(CountUnrel(heap[e]), heap[e])
    BY <2>2, UnrelType, SameFields
  <2>4. \A d \in out : Harmless(d, pushed, given)
    <3>1. e[2] \in Clients
      BY EndFacts
    <3> QED BY <3>1, SentHarmless
  <2> HIDE DEF out
  <2> QED BY <2>1, <2>3, <2>4, Keep
<1>3. ASSUME NEW c \in Clients, Login(c) PROVE StreamInv'
  <2>1. /\ PushReliable(ClientEnd(c), "Login")
        /\ phase[c] = "new" /\ phase' = [phase EXCEPT ![c] = "running"]
    BY <1>3 DEF Login
  <2>2. pushed[ClientEnd(c)] = 0
    BY <2>1 DEF StreamInv, LoginInv
  <2>3. phase'[c] # "new" /\ \A k \in Clients : phase'[k] = "new" => phase[k] = "new"
    BY <2>1 DEF TypeOK
  <2>4. "Login" \in ReliableCmds
    BY DEF ReliableCmds
  <2> QED BY <2>1, <2>2, <2>3, <2>4, PushClient
<1>4. ASSUME NEW c \in Clients, Kick(c) PROVE StreamInv'
  <2> DEFINE e == ServerEnd(c)
             h1 == [heap[e] EXCEPT !.deferred_kill = TRUE]
             out == {}
  <2>1. /\ e \in Ends /\ Alive(e) /\ heap[e] \in Heap
        /\ heap' = [heap EXCEPT ![e] = h1] /\ net' = net \cup out
        /\ \A d \in out : Harmless(d, pushed, given)
        /\ UNCHANGED <<phase, players, session, pushed, given>>
    BY <1>4, EndFacts, AliveHeap DEF Kick
  <2>2. h1 \in Heap /\ Same(h1, heap[e])
    <3>1. h1 \in Heap
      BY <2>1 DEF Heap
    <3> QED BY <2>1, <3>1, SameFields
  <2> HIDE DEF e, h1, out
  <2> QED BY <2>1, <2>2, Keep
<1>5. ASSUME NEW c \in Clients, Logout(c) PROVE StreamInv'
  <2>1. /\ PushReliable(ClientEnd(c), "Logout")
        /\ phase' = [phase EXCEPT ![c] = "quitting"]
    BY <1>5 DEF Logout
  <2>2. phase'[c] # "new" /\ \A k \in Clients : phase'[k] = "new" => phase[k] = "new"
    BY <2>1 DEF TypeOK
  <2>3. "Logout" \in ReliableCmds
    BY DEF ReliableCmds
  <2> QED BY <2>1, <2>2, <2>3, PushClient
<1>6. ASSUME NEW c \in Clients, Stop(c) PROVE StreamInv'
  <2>1. \A k \in Clients : phase'[k] = "new" => phase[k] = "new"
    BY <1>6 DEF Stop, TypeOK
  <2> QED BY <1>6, <2>1, ClientGoes DEF Stop
<1>7. ASSUME NEW c \in Clients, Crash(c) PROVE StreamInv'
  <2>1. \A k \in Clients : phase'[k] = "new" => phase[k] = "new"
    BY <1>7 DEF Crash, TypeOK
  <2> QED BY <1>7, <2>1, ClientGoes DEF Crash
<1> QED BY <1>1, <1>2, <1>3, <1>4, <1>5, <1>6, <1>7 DEF Application

LEMMA CycleStep ==
    ASSUME TypeOK, TypeOK', StreamInv, Cycle
    PROVE  StreamInv'
<1>1. ASSUME NEW e \in Ends, NEW d \in net, ReceiveReliable(e, d)
      PROVE  StreamInv'
  BY <1>1, EnqueueStep, AckAgainStep DEF ReceiveReliable
<1> QED BY <1>1, VisitOnlyStep, ResendStep, PingStep, UnreliableStep,
           AcceptLoginStep, RefuseLoginStep, ReceiveRefusalStep DEF Cycle

LEMMA StutterStep ==
    ASSUME StreamInv, UNCHANGED vars
    PROVE  StreamInv'
BY DEF StreamInv, SenderInv, ReceiverInv, NetInv, LoginInv, OnePlayerPerHeap,
       Alive, vars

LEMMA StreamInit == Init => StreamInv
<1> SUFFICES ASSUME Init PROVE StreamInv
  OBVIOUS
<1>1. \A c \in Clients : /\ heap[ClientEnd(c)] = NewHeap
                          /\ heap[ServerEnd(c)] = NoHeap
                          /\ pushed[ClientEnd(c)] = 0
  BY EndFacts DEF Init, ClientEnd, ServerEnd
<1>2. /\ NewHeap.last_send_rel = 0 /\ NewHeap.out_queue = << >>
      /\ Len(NewHeap.out_queue) = 0 /\ 1 .. 0 = {} /\ 0 - 0 = 0
  BY DEF NewHeap
<1>3. SentInv(NewHeap, 0) /\ \A g : AckedInv(NewHeap, 0, g)
  BY <1>2 DEF SentInv, AckedInv
<1>4. SenderInv
  BY <1>1, <1>3 DEF SenderInv
<1>5. ReceiverInv /\ OnePlayerPerHeap
  BY <1>1 DEF ReceiverInv, OnePlayerPerHeap, Alive, Init
<1>6. NetInv /\ LoginInv
  BY <1>1 DEF NetInv, LoginInv, Init
<1> QED BY <1>4, <1>5, <1>6 DEF StreamInv

-----------------------------------------------------------------------------
(* StreamInv holds in every reachable state (all of cycle(), push(),       *)
(* kill() and the applications' calls).                                    *)
THEOREM StreamCorrect == Spec => []StreamInv
<1>1. TypeOK /\ TypeOK' /\ StreamInv /\ [Next]_vars => StreamInv'
  BY CycleStep, ApplicationStep, StutterStep DEF Next
<1> QED BY <1>1, StreamInit, TypeCorrect, PTL DEF Spec

(* Exactly what the client pushed, in order: cycle(), the in_queue.        *)
THEOREM ClientStreamCorrect == Spec => []ClientStreamInOrder
<1>1. TypeOK /\ StreamInv => ClientStreamInOrder
  <2> SUFFICES ASSUME TypeOK, StreamInv, NEW c \in Clients, Alive(ServerEnd(c))
               PROVE  LET h == heap[ServerEnd(c)] IN
                      /\ Len(h.delivered) = h.last_recv_rel
                      /\ \A i \in DOMAIN h.delivered : h.delivered[i] = <<1, i>>
    BY DEF ClientStreamInOrder
  <2> DEFINE h == heap[ServerEnd(c)]
  <2>1. h \in Heap /\ ReceivedInv(h, pushed[ClientEnd(c)], given[ServerEnd(c)])
    BY ServerHeap
  <2>2. h.delivered \in Seq(Nat \X Nat)
    BY <2>1, HeapFields
  <2> HIDE DEF h
  <2>3. /\ Len(h.delivered) = h.last_recv_rel
        /\ \A i \in 1 .. h.last_recv_rel : h.delivered[i] = <<1, i>>
    BY <2>1 DEF ReceivedInv
  <2>4. DOMAIN h.delivered = 1 .. h.last_recv_rel
    BY <2>2, <2>3
  <2> QED BY <2>3, <2>4 DEF h
<1> QED BY <1>1, StreamCorrect, TypeCorrect, PTL

(* A message is not given up by the client's out_queue before the server   *)
(* application has received it: process_incoming(), ack().                 *)
THEOREM AckedByServerCorrect == Spec => []AckedByServerIsDelivered
<1>1. StreamInv => AckedByServerIsDelivered
  BY DEF StreamInv, SenderInv, AckedInv, AckedByServerIsDelivered, Confirmed
<1> QED BY <1>1, StreamCorrect, PTL

(* event_login and event_logout alternate: Server::event_login and         *)
(* Server::event_logout, called from cycle() and kill_heap_with_logout().  *)
THEOREM PlayersCorrect == Spec => []OnePlayerPerHeap
<1>1. StreamInv => OnePlayerPerHeap
  BY DEF StreamInv
<1> QED BY <1>1, StreamCorrect, PTL

-----------------------------------------------------------------------------
(***************************************************************************)
(* Both directions as the applications see them.  The way to the server    *)
(* implements the stream of module ReliableChannel: each step of cycle()   *)
(* and of the applications is a step of the stream of one client, or       *)
(* leaves all streams alone.  On the way back a second session of the      *)
(* server counts from one again while datagrams of the first are still     *)
(* under way, so what the client receives is a mixture of sessions; what   *)
(* holds of it is ServerStreamSound, and InQueueDrained of the queues.     *)
(***************************************************************************)

(* What the channel sees of client c.  *)
SentBy(c) == pushed[ClientEnd(c)]
LiveOf(c) == Alive(ClientEnd(c))
ConfirmedOf(c) ==
    IF Alive(ClientEnd(c))
    THEN pushed[ClientEnd(c)] - Len(heap[ClientEnd(c)].out_queue) ELSE 0
OpenOf(c) == Alive(ServerEnd(c))
GotOf(c) ==
    IF Alive(ServerEnd(c))
    THEN [i \in DOMAIN heap[ServerEnd(c)].delivered |-> heap[ServerEnd(c)].delivered[i][2]]
    ELSE << >>
EverOf(c) == {g[2] : g \in given[ServerEnd(c)]}

SenderUnmoved(c) ==
    SentBy(c)' = SentBy(c) /\ LiveOf(c)' = LiveOf(c) /\ ConfirmedOf(c)' = ConfirmedOf(c)
ReceiverUnmoved(c) ==
    OpenOf(c)' = OpenOf(c) /\ GotOf(c)' = GotOf(c) /\ EverOf(c)' = EverOf(c)
Unmoved(c) == SenderUnmoved(c) /\ ReceiverUnmoved(c)
OthersUnmoved(c) == \A k \in Clients \ {c} : Unmoved(k)

(* ... and of all of them.  *)
Sents == [c \in Clients |-> SentBy(c)]
Lives == [c \in Clients |-> LiveOf(c)]
Confirmeds == [c \in Clients |-> ConfirmedOf(c)]
OpenOnes == [c \in Clients |-> OpenOf(c)]
Gots == [c \in Clients |-> GotOf(c)]
Evers == [c \in Clients |-> EverOf(c)]

LEMMA ChannelRests ==
    ASSUME \A c \in Clients : Unmoved(c)
    PROVE  UNCHANGED Channel!chanVars
BY DEF Unmoved, SenderUnmoved, ReceiverUnmoved, Channel!chanVars, SentBy, LiveOf, ConfirmedOf,
       OpenOf, GotOf, EverOf

LEMMA SendersRest ==
    ASSUME \A c \in Clients : SenderUnmoved(c)
    PROVE  UNCHANGED <<Sents, Lives, Confirmeds>>
BY DEF SenderUnmoved, Sents, Lives, Confirmeds

LEMMA ReceiversRest ==
    ASSUME \A c \in Clients : ReceiverUnmoved(c)
    PROVE  UNCHANGED <<OpenOnes, Gots, Evers>>
BY DEF ReceiverUnmoved, OpenOnes, Gots, Evers

(* Where one client's view changes and the others' do not.  *)
LEMMA ChannelSends ==
    ASSUME NEW c \in Clients, OthersUnmoved(c), ReceiverUnmoved(c),
           LiveOf(c), LiveOf(c)' = LiveOf(c), SentBy(c)' = SentBy(c) + 1,
           ConfirmedOf(c)' = ConfirmedOf(c)
    PROVE  Channel!Send(c)
<1>1. Sents' = [Sents EXCEPT ![c] = @ + 1]
  BY DEF OthersUnmoved, Unmoved, SenderUnmoved, Sents
<1>2. UNCHANGED <<Lives, Confirmeds>>
  BY DEF OthersUnmoved, Unmoved, SenderUnmoved, Lives, Confirmeds
<1>3. UNCHANGED <<OpenOnes, Gots, Evers>>
  BY ReceiversRest DEF OthersUnmoved, Unmoved
<1>4. Lives[c]
  BY DEF Lives
<1> QED
  BY <1>1, <1>2, <1>3, <1>4
  DEF Channel!Send, Sents, Lives, Confirmeds, OpenOnes, Gots, Evers, SentBy, LiveOf, ConfirmedOf,
      OpenOf, GotOf, EverOf

LEMMA ChannelConfirms ==
    ASSUME NEW c \in Clients, OthersUnmoved(c), ReceiverUnmoved(c),
           LiveOf(c), LiveOf(c)' = LiveOf(c), SentBy(c)' = SentBy(c),
           ConfirmedOf(c)' = ConfirmedOf(c) + 1, ConfirmedOf(c) + 1 \in EverOf(c)
    PROVE  Channel!Confirm(c)
<1>1. Confirmeds' = [Confirmeds EXCEPT ![c] = @ + 1]
  BY DEF OthersUnmoved, Unmoved, SenderUnmoved, Confirmeds
<1>2. UNCHANGED <<Sents, Lives>>
  BY DEF OthersUnmoved, Unmoved, SenderUnmoved, Sents, Lives
<1>3. UNCHANGED <<OpenOnes, Gots, Evers>>
  BY ReceiversRest DEF OthersUnmoved, Unmoved
<1>4. Lives[c] /\ Confirmeds[c] + 1 \in Evers[c]
  BY DEF Lives, Confirmeds, Evers
<1> QED
  BY <1>1, <1>2, <1>3, <1>4
  DEF Channel!Confirm, Sents, Lives, Confirmeds, OpenOnes, Gots, Evers, SentBy, LiveOf, ConfirmedOf,
      OpenOf, GotOf, EverOf

LEMMA ChannelAbandons ==
    ASSUME NEW c \in Clients, OthersUnmoved(c), ReceiverUnmoved(c),
           LiveOf(c), LiveOf(c)' = FALSE, SentBy(c)' = SentBy(c), ConfirmedOf(c)' = 0
    PROVE  Channel!Abandon(c)
<1>1. Confirmeds' = [Confirmeds EXCEPT ![c] = 0]
  BY DEF OthersUnmoved, Unmoved, SenderUnmoved, Confirmeds
<1>2. Lives' = [Lives EXCEPT ![c] = FALSE]
  BY DEF OthersUnmoved, Unmoved, SenderUnmoved, Lives
<1>3. UNCHANGED Sents
  BY DEF OthersUnmoved, Unmoved, SenderUnmoved, Sents
<1>4. UNCHANGED <<OpenOnes, Gots, Evers>>
  BY ReceiversRest DEF OthersUnmoved, Unmoved
<1>5. Lives[c]
  BY DEF Lives
<1> QED
  BY <1>1, <1>2, <1>3, <1>4, <1>5
  DEF Channel!Abandon, Sents, Lives, Confirmeds, OpenOnes, Gots, Evers, SentBy, LiveOf, ConfirmedOf,
      OpenOf, GotOf, EverOf

LEMMA ChannelCloses ==
    ASSUME NEW c \in Clients, OthersUnmoved(c), SenderUnmoved(c),
           OpenOf(c), OpenOf(c)' = FALSE, GotOf(c)' = << >>, EverOf(c)' = EverOf(c)
    PROVE  Channel!Close(c)
<1>1. OpenOnes' = [OpenOnes EXCEPT ![c] = FALSE]
  BY DEF OthersUnmoved, Unmoved, ReceiverUnmoved, OpenOnes
<1>2. Gots' = [Gots EXCEPT ![c] = << >>]
  BY DEF OthersUnmoved, Unmoved, ReceiverUnmoved, Gots
<1>3. UNCHANGED Evers
  BY DEF OthersUnmoved, Unmoved, ReceiverUnmoved, Evers
<1>4. UNCHANGED <<Sents, Lives, Confirmeds>>
  BY SendersRest DEF OthersUnmoved, Unmoved
<1>5. OpenOnes[c]
  BY DEF OpenOnes
<1> QED
  BY <1>1, <1>2, <1>3, <1>4, <1>5
  DEF Channel!Close, Sents, Lives, Confirmeds, OpenOnes, Gots, Evers, SentBy, LiveOf, ConfirmedOf,
      OpenOf, GotOf, EverOf

LEMMA ChannelOpens ==
    ASSUME NEW c \in Clients, OthersUnmoved(c), SenderUnmoved(c), ~OpenOf(c), SentBy(c) >= 1,
           OpenOf(c)' = TRUE, GotOf(c)' = << 1 >>, EverOf(c)' = EverOf(c) \cup {1}
    PROVE  Channel!Open(c)
<1>1. OpenOnes' = [OpenOnes EXCEPT ![c] = TRUE]
  BY DEF OthersUnmoved, Unmoved, ReceiverUnmoved, OpenOnes
<1>2. Gots' = [Gots EXCEPT ![c] = <<1>>]
  BY DEF OthersUnmoved, Unmoved, ReceiverUnmoved, Gots
<1>3. Evers' = [Evers EXCEPT ![c] = @ \cup {1}]
  BY DEF OthersUnmoved, Unmoved, ReceiverUnmoved, Evers
<1>4. UNCHANGED <<Sents, Lives, Confirmeds>>
  BY SendersRest DEF OthersUnmoved, Unmoved
<1>5. ~OpenOnes[c] /\ Sents[c] >= 1
  BY DEF OpenOnes, Sents
<1> QED
  BY <1>1, <1>2, <1>3, <1>4, <1>5
  DEF Channel!Open, Sents, Lives, Confirmeds, OpenOnes, Gots, Evers, SentBy, LiveOf, ConfirmedOf,
      OpenOf, GotOf, EverOf

LEMMA ChannelDelivers ==
    ASSUME NEW c \in Clients, OthersUnmoved(c), SenderUnmoved(c), OpenOf(c),
           Len(GotOf(c)) < SentBy(c), EverOf(c)' = EverOf(c) \cup {Len(GotOf(c)) + 1}
    PROVE  /\ OpenOf(c)' = OpenOf(c) /\ GotOf(c)' = Append(GotOf(c), Len(GotOf(c)) + 1) =>
                 Channel!Deliver(c)
           /\ OpenOf(c)' = FALSE /\ GotOf(c)' = << >> => Channel!DeliverAndClose(c)
<1>1. Evers' = [Evers EXCEPT ![c] = @ \cup {Len(Gots[c]) + 1}]
  BY DEF OthersUnmoved, Unmoved, ReceiverUnmoved, Evers, Gots
<1>2. UNCHANGED <<Sents, Lives, Confirmeds>>
  BY SendersRest DEF OthersUnmoved, Unmoved
<1>3. OpenOnes[c] /\ Len(Gots[c]) < Sents[c]
  BY DEF OpenOnes, Sents, Gots
<1>4. ASSUME OpenOf(c)' = OpenOf(c), GotOf(c)' = Append(GotOf(c), Len(GotOf(c)) + 1)
      PROVE  Channel!Deliver(c)
  <2>1. UNCHANGED OpenOnes
    BY <1>4 DEF OthersUnmoved, Unmoved, ReceiverUnmoved, OpenOnes
  <2>2. Gots' = [Gots EXCEPT ![c] = Append(@, Len(@) + 1)]
    BY <1>4 DEF OthersUnmoved, Unmoved, ReceiverUnmoved, Gots
  <2> QED
    BY <1>1, <1>2, <1>3, <2>1, <2>2
    DEF Channel!Deliver, Sents, Lives, Confirmeds, OpenOnes, Gots, Evers, SentBy, LiveOf, ConfirmedOf,
        OpenOf, GotOf, EverOf
<1>5. ASSUME OpenOf(c)' = FALSE, GotOf(c)' = << >>
      PROVE  Channel!DeliverAndClose(c)
  <2>1. OpenOnes' = [OpenOnes EXCEPT ![c] = FALSE]
    BY <1>5 DEF OthersUnmoved, Unmoved, ReceiverUnmoved, OpenOnes
  <2>2. Gots' = [Gots EXCEPT ![c] = << >>]
    BY <1>5 DEF OthersUnmoved, Unmoved, ReceiverUnmoved, Gots
  <2> QED
    BY <1>1, <1>2, <1>3, <2>1, <2>2
    DEF Channel!DeliverAndClose, Sents, Lives, Confirmeds, OpenOnes, Gots, Evers, SentBy, LiveOf, ConfirmedOf,
        OpenOf, GotOf, EverOf
<1> QED
  BY <1>4, <1>5

-----------------------------------------------------------------------------
(* What a step at one end leaves alone.  *)
LEMMA OneEnd ==
    ASSUME TypeOK, NEW e \in Ends, NEW x, heap' = [heap EXCEPT ![e] = x],
           \A k \in Ends \ {e} : given'[k] = given[k],
           \A k \in Clients : ClientEnd(k) # e => pushed'[ClientEnd(k)] = pushed[ClientEnd(k)]
    PROVE  /\ heap'[e] = x
           /\ \A c \in Clients : e \in {ClientEnd(c), ServerEnd(c)} => OthersUnmoved(c)
           /\ \A c \in Clients : e = ClientEnd(c) => ReceiverUnmoved(c)
           /\ \A c \in Clients : e = ServerEnd(c) => SenderUnmoved(c)
<1>1. heap'[e] = x /\ \A k \in Ends \ {e} : heap'[k] = heap[k]
  BY DEF TypeOK
<1>2. ASSUME NEW c \in Clients, e # ClientEnd(c) PROVE SenderUnmoved(c)
  <2>1. ClientEnd(c) \in Ends \ {e}
    BY <1>2, EndFacts
  <2> QED
    BY <1>1, <1>2, <2>1 DEF SenderUnmoved, SentBy, LiveOf, ConfirmedOf, Alive
<1>3. ASSUME NEW c \in Clients, e # ServerEnd(c) PROVE ReceiverUnmoved(c)
  <2>1. ServerEnd(c) \in Ends \ {e}
    BY <1>3, EndFacts
  <2> QED
    BY <1>1, <1>3, <2>1 DEF ReceiverUnmoved, OpenOf, GotOf, EverOf, Alive
<1>4. \A c \in Clients : e = ClientEnd(c) => e # ServerEnd(c)
  BY EndFacts
<1>5. ASSUME NEW c \in Clients, e \in {ClientEnd(c), ServerEnd(c)}, NEW k \in Clients \ {c}
      PROVE  Unmoved(k)
  <2>1. e # ClientEnd(k) /\ e # ServerEnd(k)
    BY <1>5, EndFacts DEF ClientEnd, ServerEnd
  <2> QED
    BY <1>2, <1>3, <2>1 DEF Unmoved
<1> QED
  BY <1>1, <1>2, <1>3, <1>4, <1>5 DEF OthersUnmoved

(* A step at the end of a client: it pushes nothing, and its heap goes, or *)
(* its out_queue stays, or loses a head that has arrived.                  *)
LEMMA ClientEndRefines ==
    ASSUME TypeOK, NEW c \in Clients, Alive(ClientEnd(c)), NEW x,
           heap' = [heap EXCEPT ![ClientEnd(c)] = x],
           \A k \in Ends \ {ClientEnd(c)} : given'[k] = given[k],
           \A k \in Clients : pushed'[ClientEnd(k)] = pushed[ClientEnd(k)],
           \/ x = NoHeap
           \/ x # NoHeap /\ Len(x.out_queue) = Len(heap[ClientEnd(c)].out_queue)
           \/ /\ x # NoHeap /\ Len(x.out_queue) = Len(heap[ClientEnd(c)].out_queue) - 1
              /\ <<1, pushed[ClientEnd(c)] - Len(heap[ClientEnd(c)].out_queue) + 1>>
                    \in given[ServerEnd(c)]
    PROVE  [Channel!Next]_Channel!chanVars
<1> DEFINE e == ClientEnd(c)
           n == pushed[e]
           l == Len(heap[e].out_queue)
<1>1. e \in Ends /\ heap'[e] = x /\ OthersUnmoved(c) /\ ReceiverUnmoved(c)
  BY EndFacts, OneEnd
<1>2. SentBy(c)' = SentBy(c) /\ LiveOf(c) = TRUE /\ ConfirmedOf(c) = n - l
  BY DEF SentBy, LiveOf, ConfirmedOf, Alive
<1>3. CASE x = NoHeap
  <2>1. LiveOf(c)' = FALSE /\ ConfirmedOf(c)' = 0
    BY <1>1, <1>3 DEF LiveOf, ConfirmedOf, Alive
  <2> QED
    BY <1>1, <1>2, <2>1, ChannelAbandons DEF Channel!Next
<1>4. CASE x # NoHeap
  <2>1. LiveOf(c)' = TRUE /\ ConfirmedOf(c)' = n - Len(x.out_queue)
    BY <1>1, <1>4 DEF LiveOf, ConfirmedOf, Alive
  <2>2. CASE Len(x.out_queue) = l
    BY <1>1, <1>2, <2>1, <2>2, ChannelRests DEF Unmoved, OthersUnmoved, SenderUnmoved
  <2>3. CASE Len(x.out_queue) = l - 1 /\ <<1, n - l + 1>> \in given[ServerEnd(c)]
    <3>1. n \in Nat /\ heap[e] \in Heap
      BY <1>1, AliveHeap DEF TypeOK
    <3>2. l \in Nat
      BY <3>1, HeapFields, LenProperties
    <3> HIDE DEF n, l
    <3>3. n - (l - 1) = n - l + 1
      BY <3>1, <3>2
    <3>4. ConfirmedOf(c)' = ConfirmedOf(c) + 1
      BY <1>2, <2>1, <2>3, <3>3
    <3>5. ConfirmedOf(c) + 1 \in EverOf(c)
      BY <1>2, <2>3 DEF EverOf
    <3> QED
      BY <1>1, <1>2, <2>1, <3>4, <3>5, ChannelConfirms DEF Channel!Next
  <2> QED
    BY <1>4, <2>2, <2>3
<1> QED
  BY <1>3, <1>4

LEMMA VisitIs ==
    ASSUME TypeOK, NEW e \in Ends, NEW h \in Heap, NEW out, Visit(e, h, out)
    PROVE  /\ \A k \in Ends \ {e} : given'[k] = given[k]
           /\ \/ h.deferred_kill /\ heap' = [heap EXCEPT ![e] = NoHeap] /\ given' = given
              \/ ~Ready(h) /\ heap' = [heap EXCEPT ![e] = h] /\ given' = given
              \/ /\ Ready(h)
                 /\ given'[e] = given[e]
                       \cup {<<Head(h.in_queue).sess, Head(h.in_queue).num>>}
                 /\ \/ /\ Head(h.in_queue).cmd = "Logout"
                       /\ heap' = [heap EXCEPT ![e] = NoHeap]
                    \/ /\ Head(h.in_queue).cmd # "Logout"
                       /\ heap' = [heap EXCEPT ![e] = CountUnrel(Taken(e, h))]
<1>1. given \in [Ends -> SUBSET (Nat \X Nat)]
  BY DEF TypeOK
<1> QED
  BY <1>1 DEF Visit, Deliver

LEMMA TakenLeavesSent ==
    ASSUME NEW e \in Ends, NEW h \in Heap, Ready(h)
    PROVE  CountUnrel(Taken(e, h)) \in Heap /\ CountUnrel(Taken(e, h)).out_queue = h.out_queue
<1>1. Taken(e, h) \in Heap /\ CountUnrel(Taken(e, h)) \in Heap
  BY TakenType, UnrelType DEF Ready
<1>2. Taken(e, h).out_queue = h.out_queue
  BY DEF Taken, Heap
<1>3. CountUnrel(Taken(e, h)).out_queue = Taken(e, h).out_queue
  BY <1>1, SameFields DEF Same
<1> QED
  BY <1>1, <1>2, <1>3

LEMMA VisitClientRefines ==
    ASSUME TypeOK, NEW c \in Clients, Alive(ClientEnd(c)), NEW h \in Heap, NEW out,
           Visit(ClientEnd(c), h, out),
           \A k \in Clients : pushed'[ClientEnd(k)] = pushed[ClientEnd(k)],
           \/ Len(h.out_queue) = Len(heap[ClientEnd(c)].out_queue)
           \/ /\ Len(h.out_queue) = Len(heap[ClientEnd(c)].out_queue) - 1
              /\ <<1, pushed[ClientEnd(c)] - Len(heap[ClientEnd(c)].out_queue) + 1>>
                    \in given[ServerEnd(c)]
    PROVE  [Channel!Next]_Channel!chanVars
<1> DEFINE e == ClientEnd(c)
<1>1. e \in Ends
  BY EndFacts
<1>2. /\ \A k \in Ends \ {e} : given'[k] = given[k]
      /\ \E x : /\ heap' = [heap EXCEPT ![e] = x]
                /\ \/ x = NoHeap
                   \/ x \in Heap /\ x.out_queue = h.out_queue
  BY <1>1, VisitIs, TakenLeavesSent
<1>3. NoHeap \notin Heap
  BY NoHeapAssumption
<1> QED
  BY <1>2, <1>3, ClientEndRefines

(* The stream as far as a heap of the server has received it.              *)
Count(n) == [i \in 1 .. n |-> i]

LEMMA CountIs ==
    ASSUME NEW n \in Nat
    PROVE  /\ Len(Count(n)) = n /\ Append(Count(n), n + 1) = Count(n + 1)
           /\ Count(1) = <<1>>
<1>1. \A k \in Nat : Count(k) \in Seq(Nat) /\ Len(Count(k)) = k
  BY DEF Count
<1>2. Append(Count(n), n + 1) \in Seq(Nat) /\ Len(Append(Count(n), n + 1)) = n + 1
  BY <1>1
<1>3. \A i \in 1 .. n + 1 : Append(Count(n), n + 1)[i] = Count(n + 1)[i]
  <2> SUFFICES ASSUME NEW i \in 1 .. n + 1
               PROVE  Append(Count(n), n + 1)[i] = Count(n + 1)[i]
    OBVIOUS
  <2>1. Count(n + 1)[i] = i
    BY DEF Count
  <2>2. CASE i = n + 1
    BY <1>1, <2>1, <2>2
  <2>3. CASE i \in 1 .. n
    BY <1>1, <2>1, <2>3 DEF Count
  <2>4. i = n + 1 \/ i \in 1 .. n
    OBVIOUS
  <2> QED
    BY <2>2, <2>3, <2>4, Zenon
<1>4. Append(Count(n), n + 1) = Count(n + 1)
  BY <1>1, <1>2, <1>3, SeqEqual
<1>5. Count(1) = <<1>>
  BY DEF Count
<1> QED
  BY <1>1, <1>4, <1>5

LEMMA ReceivedIsCount ==
    ASSUME NEW h \in Heap, NEW n, NEW g, ReceivedInv(h, n, g)
    PROVE  [i \in DOMAIN h.delivered |-> h.delivered[i][2]] = Count(h.last_recv_rel)
<1>1. h.delivered \in Seq(Nat \X Nat) /\ h.last_recv_rel \in Nat
  BY HeapFields
<1>2. DOMAIN h.delivered = 1 .. h.last_recv_rel
  BY <1>1, LenProperties DEF ReceivedInv
<1>3. \A i \in 1 .. h.last_recv_rel : h.delivered[i][2] = i
  <2>1. \A i \in 1 .. h.last_recv_rel : h.delivered[i] = <<1, i>>
    BY DEF ReceivedInv
  <2>2. \A i : <<1, i>>[2] = i
    OBVIOUS
  <2> QED
    BY <2>1, <2>2, Zenon
<1> QED
  BY <1>2, <1>3 DEF Count

LEMMA VisitServerRefines ==
    ASSUME TypeOK, StreamInv, NEW c \in Clients, NEW h \in Heap, NEW out,
           Visit(ServerEnd(c), h, out),
           ReceivedInv(h, pushed[ClientEnd(c)], given[ServerEnd(c)]),
           \A k \in Clients : pushed'[ClientEnd(k)] = pushed[ClientEnd(k)],
           IF Alive(ServerEnd(c)) THEN h.last_recv_rel = heap[ServerEnd(c)].last_recv_rel
           ELSE LoggingIn(c, h)
    PROVE  [Channel!Next]_Channel!chanVars
<1> DEFINE e == ServerEnd(c)
           n == pushed[ClientEnd(c)]
           l == h.last_recv_rel
           m == Head(h.in_queue)
           y == CountUnrel(Taken(e, h))
<1>1. e \in Ends /\ n \in Nat /\ l \in Nat
  BY EndFacts, HeapFields DEF TypeOK
<1>2. \A k \in Ends \ {e} : given'[k] = given[k]
  BY <1>1, VisitIs
<1>3. ASSUME NEW x, heap' = [heap EXCEPT ![e] = x]
      PROVE  heap'[e] = x /\ OthersUnmoved(c) /\ SenderUnmoved(c)
  BY <1>1, <1>2, <1>3, OneEnd
<1>4. SentBy(c) = n
  BY DEF SentBy
<1>5. GotOf(c) = IF Alive(e) THEN Count(l) ELSE << >>
  <2>1. ASSUME Alive(e) PROVE GotOf(c) = Count(l)
    <3>1. heap[e] \in Heap /\ ReceivedInv(heap[e], n, given[e])
      BY <2>1, ServerHeap
    <3>2. [i \in DOMAIN heap[e].delivered |-> heap[e].delivered[i][2]] = Count(l)
      BY <2>1, <3>1, ReceivedIsCount
    <3> QED
      BY <2>1, <3>2 DEF GotOf
  <2> QED
    BY <2>1 DEF GotOf
<1>6. ASSUME NEW x \in Heap, heap' = [heap EXCEPT ![e] = x], NEW g,
             ReceivedInv(x, n, g)
      PROVE  OpenOf(c)' = TRUE /\ GotOf(c)' = Count(x.last_recv_rel)
  <2>1. heap'[e] = x /\ x # NoHeap
    BY <1>3, <1>6, NoHeapAssumption
  <2>2. [i \in DOMAIN x.delivered |-> x.delivered[i][2]] = Count(x.last_recv_rel)
    BY <1>6, ReceivedIsCount
  <2> QED
    BY <2>1, <2>2 DEF OpenOf, GotOf, Alive
<1>7. ASSUME heap' = [heap EXCEPT ![e] = NoHeap]
      PROVE  OpenOf(c)' = FALSE /\ GotOf(c)' = << >>
  <2>1. heap'[e] = NoHeap
    BY <1>3, <1>7
  <2> QED
    BY <2>1 DEF OpenOf, GotOf, Alive
<1>8. given' = given => EverOf(c)' = EverOf(c)
  BY DEF EverOf
<1>9. ASSUME Ready(h), given'[e] = given[e] \cup {<<m.sess, m.num>>}
      PROVE  /\ l < n /\ EverOf(c)' = EverOf(c) \cup {l + 1}
             /\ y \in Heap /\ y.last_recv_rel = l + 1
             /\ \E g : ReceivedInv(y, n, g)
  <2>1. /\ Genuine(m, n) /\ m.num = l + 1 /\ y.last_recv_rel = l + 1
        /\ ReceivedInv(y, n, given[e] \cup {<<m.sess, m.num>>})
    BY <1>1, <1>9, TakenReceived
  <2>2. l + 1 \in 1 .. n
    BY <2>1 DEF Genuine
  <2>3. y \in Heap
    BY <1>1, <1>9, TakenLeavesSent
  <2> HIDE DEF m
  <2>4. <<m.sess, m.num>>[2] = l + 1
    BY <2>1
  <2>5. EverOf(c)' = EverOf(c) \cup {l + 1}
    BY <1>9, <2>4 DEF EverOf
  <2> HIDE DEF y, l, n
  <2> QED
    BY <1>1, <2>1, <2>2, <2>3, <2>5
<1> HIDE DEF l, n, y, m
<1>10. CASE Alive(e)
  <2>1. OpenOf(c) = TRUE /\ GotOf(c) = Count(l) /\ Len(GotOf(c)) = l
    BY <1>1, <1>5, <1>10, CountIs DEF OpenOf, Alive
  <2>2. CASE heap' = [heap EXCEPT ![e] = NoHeap] /\ given' = given
    BY <1>3, <1>7, <1>8, <2>1, <2>2, ChannelCloses DEF Channel!Next
  <2>3. CASE heap' = [heap EXCEPT ![e] = h] /\ given' = given
    <3>1. OpenOf(c)' = OpenOf(c) /\ GotOf(c)' = GotOf(c) /\ EverOf(c)' = EverOf(c)
      BY <1>6, <1>8, <2>1, <2>3 DEF l, n
    <3> QED
      BY <1>3, <2>3, <3>1, ChannelRests DEF Unmoved, OthersUnmoved, ReceiverUnmoved
  <2>4. CASE /\ Ready(h) /\ given'[e] = given[e] \cup {<<m.sess, m.num>>}
             /\ heap' = [heap EXCEPT ![e] = NoHeap]
    BY <1>3, <1>4, <1>7, <1>9, <2>1, <2>4, ChannelDelivers DEF Channel!Next
  <2>5. CASE /\ Ready(h) /\ given'[e] = given[e] \cup {<<m.sess, m.num>>}
             /\ heap' = [heap EXCEPT ![e] = y]
    <3>1. OpenOf(c)' = TRUE /\ GotOf(c)' = Count(l + 1)
      BY <1>6, <1>9, <2>5
    <3>2. GotOf(c)' = Append(GotOf(c), Len(GotOf(c)) + 1)
      BY <1>1, <2>1, <3>1, CountIs
    <3> QED
      BY <1>3, <1>4, <1>9, <2>1, <2>5, <3>1, <3>2, ChannelDelivers DEF Channel!Next
  <2> QED
    BY <1>1, <2>2, <2>3, <2>4, <2>5, VisitIs DEF y, m
<1>11. CASE ~Alive(e)
  <2>1. l = 0 /\ ~h.deferred_kill /\ Ready(h) /\ m.cmd = "Login"
    BY <1>11 DEF LoggingIn, l, m
  <2>2. /\ given'[e] = given[e] \cup {<<m.sess, m.num>>}
        /\ heap' = [heap EXCEPT ![e] = y]
    BY <1>1, <2>1, VisitIs DEF y, m
  <2>3. OpenOf(c)' = TRUE /\ GotOf(c)' = <<1>> /\ n >= 1 /\ EverOf(c)' = EverOf(c) \cup {1}
    <3>1. /\ l < n /\ EverOf(c)' = EverOf(c) \cup {l + 1}
          /\ y \in Heap /\ y.last_recv_rel = l + 1
          /\ \E g : ReceivedInv(y, n, g)
      BY <1>9, <2>1, <2>2
    <3>2. l + 1 = 1 /\ n >= 1
      BY <1>1, <2>1, <3>1
    <3>3. OpenOf(c)' = TRUE /\ GotOf(c)' = Count(1)
      BY <1>6, <2>2, <3>1, <3>2
    <3> QED
      BY <3>1, <3>2, <3>3, CountIs
  <2>4. ~OpenOf(c)
    BY <1>11 DEF OpenOf
  <2> QED
    BY <1>3, <1>4, <2>2, <2>3, <2>4, ChannelOpens DEF Channel!Next
<1> QED
  BY <1>10, <1>11

-----------------------------------------------------------------------------
(* Every operation, in the order of Next.  *)
LEMMA VisitRefines ==
    ASSUME TypeOK, StreamInv, NEW e \in Ends, Alive(e), NEW h \in Heap, Same(h, heap[e]), NEW out,
           Visit(e, h, out), pushed' = pushed
    PROVE  [Channel!Next]_Channel!chanVars
<1>1. ASSUME NEW c \in Clients, e = ClientEnd(c)
      PROVE  [Channel!Next]_Channel!chanVars
  BY <1>1, VisitClientRefines DEF Same
<1>2. ASSUME NEW c \in Clients, e = ServerEnd(c)
      PROVE  [Channel!Next]_Channel!chanVars
  <2>1. /\ heap[e] \in Heap
        /\ ReceivedInv(heap[e], pushed[ClientEnd(c)], given[e])
    BY <1>2, ServerHeap
  <2>2. ReceivedInv(h, pushed[ClientEnd(c)], given[e]) /\ h.last_recv_rel = heap[e].last_recv_rel
    BY <2>1, SameInv DEF Same
  <2> QED
    BY <1>2, <2>2, VisitServerRefines
<1> QED
  BY <1>1, <1>2, EndFacts

LEMMA AckAgainRefines ==
    ASSUME TypeOK, StreamInv, NEW e \in Ends, NEW d \in net, Alive(e), AckAgain(e, heap[e], d),
           pushed' = pushed
    PROVE  [Channel!Next]_Channel!chanVars
<1>1. heap[e] \in Heap
  BY AliveHeap
<1>2. CountUnrel(heap[e]) \in Heap /\ Same(CountUnrel(heap[e]), heap[e])
  BY <1>1, UnrelType, SameFields
<1> QED
  BY <1>2, VisitRefines DEF AckAgain

LEMMA EnqueueRefines ==
    ASSUME TypeOK, StreamInv, NEW e \in Ends, NEW d \in net, d.to = e, d.reliable, Alive(e),
           Enqueue(e, heap[e], d), pushed' = pushed
    PROVE  [Channel!Next]_Channel!chanVars
<1> DEFINE h == heap[e]
<1>1. h \in Heap
  BY AliveHeap
<1>2. d \in Datagram /\ d.cmd \in ReliableCmds
  BY DatagramFields DEF TypeOK
<1>3. PICK k \in 0 .. Len(h.in_queue) :
        Visit(e, [h EXCEPT !.in_queue = InsertedAt(h.in_queue, AsQueued(d), k)], {})
  BY Zenon DEF Enqueue
<1> DEFINE q == InsertedAt(h.in_queue, AsQueued(d), k)
           h1 == [h EXCEPT !.in_queue = q]
<1>4. q \in Seq(QueueMessage) /\ h1 \in Heap
  BY <1>1, <1>2, HeapFields, AsQueuedType, InsertType, HeapWithQueue
<1>5. ASSUME NEW c \in Clients, e = ClientEnd(c)
      PROVE  [Channel!Next]_Channel!chanVars
  <2>1. h1.out_queue = h.out_queue
    <3> HIDE DEF h, q
    <3> QED BY <1>1, <1>4, InsertLeavesSent
  <2> HIDE DEF h1
  <2>2. Visit(e, h1, {})
    BY <1>3 DEF h1
  <2> QED
    BY <1>4, <1>5, <2>1, <2>2, VisitClientRefines
<1>6. ASSUME NEW c \in Clients, e = ServerEnd(c)
      PROVE  [Channel!Next]_Channel!chanVars
  <2>1. ReceivedInv(h, pushed[ClientEnd(c)], given[e])
    BY <1>6, ServerHeap
  <2>2. Genuine(d, pushed[ClientEnd(c)])
    BY <1>6 DEF StreamInv, NetInv, Harmless
  <2> HIDE DEF h
  <2>3. ReceivedInv(h1, pushed[ClientEnd(c)], given[e]) /\ h1.last_recv_rel = h.last_recv_rel
    BY <1>1, <1>2, <2>1, <2>2, EnqueueReceived
  <2> HIDE DEF h1
  <2>4. Visit(e, h1, {})
    BY <1>3 DEF h1, h
  <2>5. h1.last_recv_rel = heap[e].last_recv_rel
    BY <2>3 DEF h
  <2> QED
    BY <1>4, <1>6, <2>3, <2>4, <2>5, VisitServerRefines
<1> QED
  BY <1>5, <1>6, EndFacts

(* An acknowledgement takes the head of out_queue, if it names it.         *)
LEMMA AcknowledgedIs ==
    ASSUME NEW h \in Heap, NEW n \in Nat, NEW k \in Nat, SentInv(h, n)
    PROVE  \/ Acknowledged(h, k).out_queue = h.out_queue
           \/ /\ Len(Acknowledged(h, k).out_queue) = Len(h.out_queue) - 1
              /\ k = n - Len(h.out_queue) + 1
<1>1. CASE ~(h.out_queue # << >> /\ Head(h.out_queue).seq_no = k)
  BY <1>1 DEF Acknowledged
<1>2. CASE h.out_queue # << >> /\ Head(h.out_queue).seq_no = k
  <2>1. /\ Head(h.out_queue) = h.out_queue[1] /\ Len(h.out_queue) \in Nat /\ Len(h.out_queue) > 0
        /\ Len(Tail(h.out_queue)) = Len(h.out_queue) - 1
    BY <1>2, QueueTail
  <2>2. Acknowledged(h, k).out_queue = Tail(h.out_queue)
    BY <1>2 DEF Acknowledged, Popped, Heap
  <2>3. 1 \in 1 .. Len(h.out_queue)
    BY <2>1
  <2>4. h.out_queue[1].num = n - Len(h.out_queue) + 1 /\ h.out_queue[1].seq_no = h.out_queue[1].num
    BY <2>3 DEF SentInv, Genuine
  <2> QED
    BY <1>2, <2>1, <2>2, <2>4
<1> QED
  BY <1>1, <1>2

LEMMA UnreliableRefines ==
    ASSUME TypeOK, StreamInv, NEW e \in Ends, NEW d \in net, ReceiveUnreliable(e, d)
    PROVE  [Channel!Next]_Channel!chanVars
<1> DEFINE g == heap[e]
           h == [g EXCEPT !.last_recv_unrel = d.seq_no]
           ha == Acknowledged(h, d.num)
           hp == [h EXCEPT !.sent_pings = 0]
           pong == Unreliable(e, h, "Pong", 0)
<1>1. /\ d \in Datagram /\ d.seq_no \in Nat /\ d.num \in Nat
      /\ d.to = e /\ Alive(e) /\ pushed' = pushed
  BY DatagramFields DEF TypeOK, ReceiveUnreliable
<1>2. g \in Heap /\ h \in Heap /\ Same(h, g)
  BY <1>1, AliveHeap, HeapWithNat, SameFields
<1>3. \/ d.cmd = "Ack" /\ Visit(e, ha, {})
      \/ Visit(e, hp, {})
      \/ Visit(e, h, {})
      \/ Visit(e, CountUnrel(h), {pong})
  BY Zenon DEF ReceiveUnreliable
<1> HIDE DEF h, ha
<1>4. ha \in Heap
  BY <1>1, <1>2, AcknowledgedType DEF ha
<1>5. /\ hp \in Heap /\ Same(hp, h)
      /\ CountUnrel(h) \in Heap /\ Same(CountUnrel(h), h)
  BY <1>2, HeapWithNat, UnrelType, SameFields
<1>6. Same(hp, g) /\ Same(CountUnrel(h), g)
  BY <1>2, <1>5 DEF Same
<1> HIDE DEF hp, pong, g
<1>7. CASE d.cmd = "Ack" /\ Visit(e, ha, {})
  <2>1. ASSUME NEW c \in Clients, e = ClientEnd(c)
        PROVE  [Channel!Next]_Channel!chanVars
    <3> DEFINE n == pushed[e]
    <3>1. SentInv(g, n) /\ n \in Nat
      BY <1>1, <2>1, ClientHeap DEF g
    <3>2. SentInv(h, n) /\ h.out_queue = g.out_queue
      BY <1>2, <3>1, SameInv DEF Same
    <3>3. <<1, d.num>> \in given[ServerEnd(c)]
      BY <1>1, <1>7, <2>1 DEF StreamInv, NetInv, Harmless
    <3>4. \/ Len(ha.out_queue) = Len(g.out_queue)
          \/ /\ Len(ha.out_queue) = Len(g.out_queue) - 1
             /\ <<1, n - Len(g.out_queue) + 1>> \in given[ServerEnd(c)]
      <4> HIDE DEF n
      <4>1. \/ ha.out_queue = h.out_queue
            \/ /\ Len(ha.out_queue) = Len(h.out_queue) - 1
               /\ d.num = n - Len(h.out_queue) + 1
        BY <1>1, <1>2, <3>1, <3>2, AcknowledgedIs DEF ha
      <4> QED
        BY <3>2, <3>3, <4>1
    <3> QED
      BY <1>1, <1>4, <1>7, <2>1, <3>4, VisitClientRefines DEF g
  <2>2. ASSUME NEW c \in Clients, e = ServerEnd(c)
        PROVE  [Channel!Next]_Channel!chanVars
    <3>1. ReceivedInv(g, pushed[ClientEnd(c)], given[e])
      BY <1>1, <2>2, ServerHeap DEF g
    <3>2. /\ ha.in_queue = g.in_queue /\ ha.last_recv_rel = g.last_recv_rel
          /\ ha.delivered = g.delivered
      BY <1>1, <1>2, AckLeavesReceived DEF ha, Same
    <3>3. ReceivedInv(ha, pushed[ClientEnd(c)], given[e])
      BY <3>1, <3>2 DEF ReceivedInv
    <3> QED
      BY <1>1, <1>4, <1>7, <2>2, <3>2, <3>3, VisitServerRefines DEF g
  <2> QED
    BY <2>1, <2>2, EndFacts
<1>8. CASE Visit(e, hp, {})
  BY <1>1, <1>5, <1>6, <1>8, VisitRefines DEF g
<1>9. CASE Visit(e, h, {})
  BY <1>1, <1>2, <1>9, VisitRefines DEF g
<1>10. CASE Visit(e, CountUnrel(h), {pong})
  BY <1>1, <1>5, <1>6, <1>10, VisitRefines DEF g
<1> QED
  BY <1>3, <1>7, <1>8, <1>9, <1>10

(* A heap that changes in nothing the stream depends on, or goes.          *)
LEMMA KeepRefines ==
    ASSUME TypeOK, StreamInv, NEW e \in Ends, Alive(e), NEW x \in Heap, Same(x, heap[e]),
           heap' = [heap EXCEPT ![e] = x], UNCHANGED <<pushed, given>>
    PROVE  [Channel!Next]_Channel!chanVars
<1>1. ASSUME NEW c \in Clients, e = ClientEnd(c)
      PROVE  [Channel!Next]_Channel!chanVars
  <2>1. x # NoHeap
    BY NoHeapAssumption
  <2> QED
    BY <1>1, <2>1, ClientEndRefines DEF Same
<1>2. ASSUME NEW c \in Clients, e = ServerEnd(c)
      PROVE  [Channel!Next]_Channel!chanVars
  <2>1. heap'[e] = x /\ OthersUnmoved(c) /\ SenderUnmoved(c) /\ x # NoHeap
    BY <1>2, OneEnd, NoHeapAssumption
  <2>2. OpenOf(c)' = OpenOf(c) /\ GotOf(c)' = GotOf(c) /\ EverOf(c)' = EverOf(c)
    BY <1>2, <2>1 DEF OpenOf, GotOf, EverOf, Alive, Same
  <2> QED
    BY <2>1, <2>2, ChannelRests DEF OthersUnmoved, Unmoved, ReceiverUnmoved
<1> QED
  BY <1>1, <1>2, EndFacts

LEMMA DropRefines ==
    ASSUME TypeOK, StreamInv, NEW e \in Ends, Alive(e),
           heap' = [heap EXCEPT ![e] = NoHeap], UNCHANGED <<pushed, given>>
    PROVE  [Channel!Next]_Channel!chanVars
<1>1. ASSUME NEW c \in Clients, e = ClientEnd(c)
      PROVE  [Channel!Next]_Channel!chanVars
  BY <1>1, ClientEndRefines
<1>2. ASSUME NEW c \in Clients, e = ServerEnd(c)
      PROVE  [Channel!Next]_Channel!chanVars
  <2>1. heap'[e] = NoHeap /\ OthersUnmoved(c) /\ SenderUnmoved(c)
    BY <1>2, OneEnd
  <2>2. OpenOf(c) /\ OpenOf(c)' = FALSE /\ GotOf(c)' = << >> /\ EverOf(c)' = EverOf(c)
    BY <1>2, <2>1 DEF OpenOf, GotOf, EverOf, Alive
  <2> QED
    BY <2>1, <2>2, ChannelCloses DEF Channel!Next
<1> QED
  BY <1>1, <1>2, EndFacts

LEMMA RestRefines ==
    ASSUME UNCHANGED <<heap, pushed, given>>
    PROVE  [Channel!Next]_Channel!chanVars
<1>1. \A c \in Clients : Unmoved(c)
  BY DEF Unmoved, SenderUnmoved, ReceiverUnmoved, SentBy, LiveOf, ConfirmedOf, OpenOf, GotOf, EverOf,
         Alive
<1> QED
  BY <1>1, ChannelRests

LEMMA CycleRefines ==
    ASSUME TypeOK, StreamInv, Cycle
    PROVE  [Channel!Next]_Channel!chanVars
<1>1. ASSUME NEW e \in Ends, NEW d \in net, ReceiveReliable(e, d)
      PROVE  [Channel!Next]_Channel!chanVars
  BY <1>1, EnqueueRefines, AckAgainRefines DEF ReceiveReliable
<1>2. ASSUME NEW e \in Ends, VisitOnly(e)
      PROVE  [Channel!Next]_Channel!chanVars
  <2>1. heap[e] \in Heap /\ Same(heap[e], heap[e]) /\ Alive(e)
    BY <1>2, AliveHeap DEF VisitOnly, Same
  <2> QED
    BY <1>2, <2>1, VisitRefines DEF VisitOnly
<1>3. ASSUME NEW e \in Ends, Resend(e)
      PROVE  [Channel!Next]_Channel!chanVars
  <2>1. heap[e] \in Heap /\ Alive(e) /\ heap[e].resends + 1 \in Nat
    BY <1>3, AliveHeap, HeapFields DEF Resend
  <2>2. CASE Kill(e, {})
    BY <2>1, <2>2, DropRefines DEF Kill
  <2>3. CASE /\ heap' = [heap EXCEPT ![e].resends = @ + 1]
             /\ UNCHANGED <<pushed, given>>
    <3>1. heap' = [heap EXCEPT ![e] = [heap[e] EXCEPT !.resends = heap[e].resends + 1]]
      BY <2>3 DEF TypeOK
    <3> QED
      BY <2>1, <2>3, <3>1, SameFields, HeapWithNat, KeepRefines
  <2> QED
    BY <1>3, <2>2, <2>3 DEF Resend
<1>4. ASSUME NEW e \in Ends, Ping(e)
      PROVE  [Channel!Next]_Channel!chanVars
  <2>1. heap[e] \in Heap /\ Alive(e)
    BY <1>4, AliveHeap DEF Ping
  <2>2. Pinged(heap[e]) \in Heap /\ Same(Pinged(heap[e]), heap[e])
    <3>1. CountUnrel(heap[e]) \in Heap /\ heap[e].sent_pings + 1 \in Nat
      BY <2>1, UnrelType, HeapFields
    <3> QED
      BY <2>1, <3>1, HeapWithNat, SameFields DEF Pinged
  <2>3. \/ heap' = [heap EXCEPT ![e] = NoHeap] /\ UNCHANGED <<pushed, given>>
        \/ heap' = [heap EXCEPT ![e] = Pinged(heap[e])] /\ UNCHANGED <<pushed, given>>
    BY <1>4 DEF Ping, Kill
  <2> QED
    BY <2>1, <2>2, <2>3, KeepRefines, DropRefines
<1>5. ASSUME NEW c \in Clients, NEW d \in net, AcceptLogin(c, d)
      PROVE  [Channel!Next]_Channel!chanVars
  <2>1. ~Alive(ServerEnd(c))
    BY <1>5 DEF AcceptLogin
  <2> QED
    BY <1>5, <2>1, AcceptLoginVisit, VisitServerRefines
<1>6. ASSUME NEW c \in Clients, NEW d \in net, RefuseLogin(c, d)
      PROVE  [Channel!Next]_Channel!chanVars
  BY <1>6, RestRefines DEF RefuseLogin
<1>7. ASSUME NEW c \in Clients, NEW d \in net, ReceiveRefusal(c, d)
      PROVE  [Channel!Next]_Channel!chanVars
  BY <1>7, DropRefines, EndFacts DEF ReceiveRefusal
<1> QED
  BY <1>1, <1>2, <1>3, <1>4, <1>5, <1>6, <1>7, UnreliableRefines DEF Cycle

LEMMA PushRefines ==
    ASSUME TypeOK, StreamInv, NEW e \in Ends, NEW cmd \in ReliableCmds, PushReliable(e, cmd)
    PROVE  [Channel!Next]_Channel!chanVars
<1> DEFINE h == heap[e]
           x == Pushed(e, h, cmd)
<1>1. /\ Alive(e) /\ h \in Heap /\ pushed[e] \in Nat
      /\ heap' = [heap EXCEPT ![e] = x] /\ given' = given
      /\ pushed' = [pushed EXCEPT ![e] = @ + 1]
  BY AliveHeap DEF PushReliable, TypeOK
<1>2. /\ x \in Heap
      /\ Len(x.out_queue) = Len(h.out_queue) + 1
      /\ x.delivered = h.delivered
  <2> HIDE DEF h
  <2>1. x \in Heap /\ Len(x.out_queue) = Len(h.out_queue) + 1
    BY <1>1, PushedType
  <2>2. x.delivered = h.delivered
    BY <1>1, PushedFields
  <2> QED
    BY <2>1, <2>2
<1>3. x # NoHeap /\ Len(h.out_queue) \in Nat
  BY <1>1, <1>2, NoHeapAssumption, HeapFields, LenProperties
<1>4. \A k \in Ends \ {e} : pushed'[k] = pushed[k]
  BY <1>1 DEF TypeOK
<1>5. pushed'[e] = pushed[e] + 1
  BY <1>1 DEF TypeOK
<1> HIDE DEF x
<1>6. ASSUME NEW c \in Clients, e = ClientEnd(c)
      PROVE  [Channel!Next]_Channel!chanVars
  <2>1. heap'[e] = x /\ OthersUnmoved(c) /\ ReceiverUnmoved(c)
    BY ZenonT(40), <1>1, <1>4, <1>6, OneEnd, EndFacts
  <2>2. LiveOf(c) /\ LiveOf(c)' = LiveOf(c) /\ SentBy(c)' = SentBy(c) + 1
    BY <1>1, <1>3, <1>5, <1>6, <2>1 DEF LiveOf, SentBy, Alive
  <2>3. pushed'[e] - Len(x.out_queue) = pushed[e] - Len(h.out_queue)
    BY <1>1, <1>2, <1>3, <1>5
  <2>4. ConfirmedOf(c)' = ConfirmedOf(c)
    BY <1>1, <1>3, <1>6, <2>1, <2>3 DEF ConfirmedOf, Alive
  <2> QED
    BY <2>1, <2>2, <2>4, ChannelSends DEF Channel!Next
<1>7. ASSUME NEW c \in Clients, e = ServerEnd(c)
      PROVE  [Channel!Next]_Channel!chanVars
  <2>1. heap'[e] = x /\ OthersUnmoved(c) /\ SenderUnmoved(c)
    BY ZenonT(40), <1>1, <1>4, <1>7, OneEnd, EndFacts
  <2>2. OpenOf(c)' = OpenOf(c) /\ GotOf(c)' = GotOf(c) /\ EverOf(c)' = EverOf(c)
    BY <1>1, <1>2, <1>3, <1>7, <2>1 DEF OpenOf, GotOf, EverOf, Alive
  <2> QED
    BY <2>1, <2>2, ChannelRests DEF OthersUnmoved, Unmoved, ReceiverUnmoved
<1> QED
  BY <1>6, <1>7, EndFacts

LEMMA ApplicationRefines ==
    ASSUME TypeOK, StreamInv, Application
    PROVE  [Channel!Next]_Channel!chanVars
<1>1. {"Login", "Logout", "Data"} \subseteq ReliableCmds
  BY DEF ReliableCmds
<1>2. ASSUME NEW e \in Ends, PushData(e)
      PROVE  [Channel!Next]_Channel!chanVars
  BY <1>1, <1>2, PushRefines DEF PushData
<1>3. ASSUME NEW e \in Ends, PushState(e)
      PROVE  [Channel!Next]_Channel!chanVars
  <2>1. Alive(e) /\ heap' = [heap EXCEPT ![e] = CountUnrel(@)] /\ UNCHANGED <<pushed, given>>
    BY <1>3 DEF PushState
  <2>2. heap[e] \in Heap /\ heap' = [heap EXCEPT ![e] = CountUnrel(heap[e])]
    BY <2>1, AliveHeap
  <2> QED
    BY <2>1, <2>2, UnrelType, SameFields, KeepRefines
<1>4. ASSUME NEW c \in Clients, Login(c) \/ Logout(c)
      PROVE  [Channel!Next]_Channel!chanVars
  BY <1>1, <1>4, PushRefines, EndFacts DEF Login, Logout
<1>5. ASSUME NEW c \in Clients, Kick(c)
      PROVE  [Channel!Next]_Channel!chanVars
  <2> DEFINE e == ServerEnd(c)
             x == [heap[e] EXCEPT !.deferred_kill = TRUE]
  <2>1. e \in Ends /\ Alive(e) /\ heap[e] \in Heap
    BY <1>5, EndFacts, AliveHeap DEF Kick
  <2>2. heap' = [heap EXCEPT ![e] = x] /\ UNCHANGED <<pushed, given>>
    BY <1>5 DEF Kick
  <2>3. x \in Heap /\ Same(x, heap[e])
    BY <2>1, SameFields DEF Heap
  <2> QED
    BY <2>1, <2>2, <2>3, KeepRefines
<1>6. ASSUME NEW c \in Clients, Stop(c) \/ Crash(c)
      PROVE  [Channel!Next]_Channel!chanVars
  <2>1. /\ heap' = [heap EXCEPT ![ClientEnd(c)] = NoHeap] /\ UNCHANGED <<pushed, given>>
        /\ ClientEnd(c) \in Ends
    BY <1>6, EndFacts DEF Stop, Crash
  <2>2. CASE Alive(ClientEnd(c))
    BY <2>1, <2>2, DropRefines
  <2>3. CASE ~Alive(ClientEnd(c))
    <3>1. heap' = heap
      BY <2>1, <2>3 DEF Alive, TypeOK
    <3> QED
      BY <2>1, <3>1, RestRefines
  <2> QED
    BY <2>2, <2>3
<1> QED
  BY <1>2, <1>3, <1>4, <1>5, <1>6 DEF Application

LEMMA InitRefines == Init => Channel!Init
<1> SUFFICES ASSUME Init PROVE Channel!Init
  OBVIOUS
<1>1. \A c \in Clients : /\ heap[ClientEnd(c)] = NewHeap /\ heap[ServerEnd(c)] = NoHeap
                          /\ pushed[ClientEnd(c)] = 0 /\ given[ServerEnd(c)] = {}
  BY EndFacts DEF Init, ClientEnd, ServerEnd
<1>2. NewHeap # NoHeap /\ Len(NewHeap.out_queue) = 0
  BY NewHeapType, NoHeapAssumption DEF NewHeap
<1>3. 0 - 0 = 0
  OBVIOUS
<1>4. \A c \in Clients : /\ SentBy(c) = 0 /\ LiveOf(c) = TRUE /\ ConfirmedOf(c) = 0
                          /\ OpenOf(c) = FALSE /\ GotOf(c) = << >> /\ EverOf(c) = {}
  BY <1>1, <1>2, <1>3 DEF SentBy, LiveOf, ConfirmedOf, OpenOf, GotOf, EverOf, Alive
<1>5. /\ Sents = [c \in Clients |-> 0] /\ Lives = [c \in Clients |-> TRUE]
      /\ Confirmeds = [c \in Clients |-> 0] /\ OpenOnes = [c \in Clients |-> FALSE]
      /\ Gots = [c \in Clients |-> << >>] /\ Evers = [c \in Clients |-> {}]
  BY <1>4 DEF Sents, Lives, Confirmeds, OpenOnes, Gots, Evers
<1> QED
  BY <1>5 DEF Channel!Init, Sents, Lives, Confirmeds, OpenOnes, Gots, Evers, SentBy, LiveOf, ConfirmedOf,
              OpenOf, GotOf, EverOf

(* Seen as ReliableChannel sees it, every behaviour of the message layer   *)
(* is one of the stream: what is lost, repeated, delayed or abandoned in   *)
(* cycle() is a step of the stream of one client, or none.                 *)
THEOREM ChannelCorrect == Spec => ImplementsChannel
<1>1. TypeOK /\ StreamInv /\ [Next]_vars => [Channel!Next]_Channel!chanVars
  BY CycleRefines, ApplicationRefines, RestRefines DEF Next, vars
<1> QED
  BY <1>1, InitRefines, TypeCorrect, StreamCorrect, PTL DEF Spec, ImplementsChannel, Channel!Spec

-----------------------------------------------------------------------------
(* The way back.                                                           *)

(* The client application has received number k: its heap has counted that *)
(* far, and in the first session it is that session's message.             *)
Has(c, k) ==
    /\ Alive(ClientEnd(c)) => k <= heap[ClientEnd(c)].last_recv_rel
    /\ session[c] <= 1 => <<1, k>> \in given[ClientEnd(c)]

(* m, of the server, was sent when all before it had arrived, whatever     *)
(* session they came from.                                                 *)
InTurn(c, m) ==
    /\ m.num >= 1 /\ m.seq_no = m.num /\ m.sess \in 1 .. session[c]
    /\ Alive(ClientEnd(c)) =>
         /\ m.num - 1 <= heap[ClientEnd(c)].last_recv_rel
         /\ \A i \in 1 .. m.num - 1 : heap[ClientEnd(c)].delivered[i][1] <= m.sess

(* The same of m of the client.                                            *)
InClientsTurn(c, m) == \A i \in 1 .. m.num - 1 : <<1, i>> \in given[ServerEnd(c)]

(* Stop-and-wait, of a datagram: in whatever order they arrive.            *)
Backed(d) ==
    \A c \in Clients :
        /\ d.reliable /\ d.to = ClientEnd(c) => InTurn(c, d)
        /\ d.reliable /\ d.to = ServerEnd(c) => InClientsTurn(c, d)
        /\ d.cmd = "Ack" /\ d.to = ServerEnd(c) => Has(c, d.num)

(* h, of the server, holds the last pushes of session s.                   *)
Numbered(h, n, s) ==
    /\ h.last_send_rel = n /\ Len(h.out_queue) <= n
    /\ \A i \in 1 .. Len(h.out_queue) :
         /\ h.out_queue[i].num = n - Len(h.out_queue) + i
         /\ h.out_queue[i].seq_no = h.out_queue[i].num
         /\ h.out_queue[i].sess = s

SendsBack(c) ==
    Alive(ServerEnd(c)) =>
        LET h == heap[ServerEnd(c)]
            n == pushed[ServerEnd(c)] IN
        /\ session[c] >= 1
        /\ Numbered(h, n, session[c])
        /\ \A k \in 1 .. n - Len(h.out_queue) : Has(c, k)

(* h, of the client, has delivered one message of every number, of         *)
(* sessions that never fall back, and nothing waits.                       *)
InSequence(h, s, g) ==
    /\ h.in_queue = << >>
    /\ Len(h.delivered) = h.last_recv_rel
    /\ \A i \in 1 .. h.last_recv_rel :
         /\ h.delivered[i][2] = i
         /\ h.delivered[i][1] \in 1 .. s
         /\ <<h.delivered[i][1], i>> \in g
         /\ \A j \in i .. h.last_recv_rel : h.delivered[i][1] <= h.delivered[j][1]

HearsBack(c) ==
    Alive(ClientEnd(c)) => InSequence(heap[ClientEnd(c)], session[c], given[ClientEnd(c)])

(* h, of the first session of the server, has received all that the server *)
(* application has ever received from the address.                         *)
CaughtUp(h, g) == h.in_queue = << >> /\ \A i \in Nat : <<1, i>> \in g => i <= h.last_recv_rel

FirstSession(c) ==
    /\ session[c] = 0 => given[ServerEnd(c)] = {} /\ ~Alive(ServerEnd(c))
    /\ session[c] = 1 /\ Alive(ServerEnd(c)) => CaughtUp(heap[ServerEnd(c)], given[ServerEnd(c)])

ReturnInv ==
    /\ \A c \in Clients : SendsBack(c) /\ HearsBack(c) /\ FirstSession(c)
    /\ \A d \in net : Backed(d)

-----------------------------------------------------------------------------
(* What has arrived stays so.  A step may only add to what the invariant   *)
(* counts on.                                                              *)
Grows(c) ==
    /\ session[c] <= session'[c]
    /\ given[ClientEnd(c)] \subseteq given'[ClientEnd(c)]
    /\ given[ServerEnd(c)] \subseteq given'[ServerEnd(c)]
    /\ heap'[ClientEnd(c)] # NoHeap =>
         /\ heap[ClientEnd(c)] # NoHeap
         /\ heap[ClientEnd(c)].last_recv_rel <= heap'[ClientEnd(c)].last_recv_rel
         /\ \A i \in 1 .. heap[ClientEnd(c)].last_recv_rel :
              heap'[ClientEnd(c)].delivered[i] = heap[ClientEnd(c)].delivered[i]

LEMMA Numbers ==
    ASSUME TypeOK, NEW c \in Clients
    PROVE  /\ session[c] \in Nat /\ pushed[ServerEnd(c)] \in Nat
           /\ heap[ClientEnd(c)] # NoHeap => heap[ClientEnd(c)] \in Heap
           /\ heap[ServerEnd(c)] # NoHeap => heap[ServerEnd(c)] \in Heap
BY EndFacts DEF TypeOK

LEMMA NumbersNext ==
    ASSUME TypeOK', NEW c \in Clients
    PROVE  /\ session'[c] \in Nat /\ pushed'[ServerEnd(c)] \in Nat
           /\ heap'[ClientEnd(c)] # NoHeap => heap'[ClientEnd(c)] \in Heap
           /\ heap'[ServerEnd(c)] # NoHeap => heap'[ServerEnd(c)] \in Heap
BY EndFacts DEF TypeOK

LEMMA HasGrows ==
    ASSUME TypeOK, TypeOK', NEW c \in Clients, Grows(c), NEW k \in Nat, Has(c, k)
    PROVE  Has(c, k)'
<1>1. heap'[ClientEnd(c)] # NoHeap =>
         /\ heap[ClientEnd(c)].last_recv_rel \in Nat /\ heap'[ClientEnd(c)].last_recv_rel \in Nat
  BY Numbers, NumbersNext, HeapFields DEF Grows
<1>2. session[c] \in Nat /\ session'[c] \in Nat
  BY Numbers, NumbersNext
<1> QED BY <1>1, <1>2 DEF Has, Grows, Alive

LEMMA InTurnGrows ==
    ASSUME TypeOK, TypeOK', NEW c \in Clients, Grows(c), NEW d \in Datagram, InTurn(c, d)
    PROVE  InTurn(c, d)'
<1>1. heap'[ClientEnd(c)] # NoHeap =>
         /\ heap[ClientEnd(c)].last_recv_rel \in Nat /\ heap'[ClientEnd(c)].last_recv_rel \in Nat
  BY Numbers, NumbersNext, HeapFields DEF Grows
<1>2. session[c] \in Nat /\ session'[c] \in Nat /\ d.num \in Nat /\ d.sess \in Nat
  BY Numbers, NumbersNext, DatagramFields
<1>3. d.sess \in 1 .. session'[c]
  BY <1>2 DEF InTurn, Grows
<1>4. ASSUME heap'[ClientEnd(c)] # NoHeap
      PROVE  /\ d.num - 1 <= heap'[ClientEnd(c)].last_recv_rel
             /\ \A i \in 1 .. d.num - 1 : heap'[ClientEnd(c)].delivered[i][1] <= d.sess
  <2>1. /\ d.num - 1 <= heap[ClientEnd(c)].last_recv_rel
        /\ \A i \in 1 .. d.num - 1 : heap[ClientEnd(c)].delivered[i][1] <= d.sess
    BY <1>4 DEF InTurn, Grows, Alive
  <2>2. d.num - 1 <= heap'[ClientEnd(c)].last_recv_rel
    BY <1>1, <1>2, <1>4, <2>1 DEF Grows
  <2>3. \A i \in 1 .. d.num - 1 : heap'[ClientEnd(c)].delivered[i] = heap[ClientEnd(c)].delivered[i]
    BY <1>1, <1>2, <1>4, <2>1 DEF Grows
  <2> QED BY <2>1, <2>2, <2>3
<1> QED BY <1>3, <1>4 DEF InTurn, Alive

LEMMA BackedGrows ==
    ASSUME TypeOK, TypeOK', \A c \in Clients : Grows(c), NEW d \in Datagram, Backed(d)
    PROVE  Backed(d)'
<1> SUFFICES ASSUME NEW c \in Clients
             PROVE  /\ d.reliable /\ d.to = ClientEnd(c) => InTurn(c, d)'
                    /\ d.reliable /\ d.to = ServerEnd(c) => InClientsTurn(c, d)'
                    /\ d.cmd = "Ack" /\ d.to = ServerEnd(c) => Has(c, d.num)'
  BY DEF Backed
<1>1. InClientsTurn(c, d) => InClientsTurn(c, d)'
  BY DEF InClientsTurn, Grows
<1>2. d.num \in Nat
  BY DatagramFields
<1>3. InTurn(c, d) => InTurn(c, d)'
  BY InTurnGrows
<1>4. Has(c, d.num) => Has(c, d.num)'
  <2> DEFINE k == d.num
  <2>1. k \in Nat
    BY <1>2
  <2> HIDE DEF k
  <2>2. Has(c, k) => Has(c, k)'
    BY <2>1, HasGrows
  <2> QED BY <2>2 DEF k
<1> QED BY <1>1, <1>3, <1>4 DEF Backed

(* Who rests keeps what the invariant says of him.                         *)
Rests(c) ==
    /\ heap'[ClientEnd(c)] = heap[ClientEnd(c)] /\ heap'[ServerEnd(c)] = heap[ServerEnd(c)]
    /\ given'[ClientEnd(c)] = given[ClientEnd(c)] /\ given'[ServerEnd(c)] = given[ServerEnd(c)]
    /\ pushed'[ServerEnd(c)] = pushed[ServerEnd(c)] /\ session'[c] = session[c]

LEMMA RestGrows ==
    ASSUME TypeOK, NEW c \in Clients, Rests(c)
    PROVE  Grows(c)
<1>1. heap[ClientEnd(c)] # NoHeap => heap[ClientEnd(c)].last_recv_rel \in Nat
  BY Numbers, HeapFields
<1> QED BY <1>1, Numbers DEF Rests, Grows

LEMMA ReturnAt ==
    ASSUME TypeOK, TypeOK', ReturnInv, NEW c \in Clients, NEW out,
           \A k \in Clients \ {c} : Rests(k),
           Grows(c), SendsBack(c)', HearsBack(c)', FirstSession(c)',
           net' = net \cup out, \A d \in out : Backed(d) \/ Backed(d)'
    PROVE  ReturnInv'
<1>1. \A k \in Clients : Grows(k)
  BY RestGrows
<1>2. ASSUME NEW k \in Clients, k # c
      PROVE  SendsBack(k)' /\ HearsBack(k)' /\ FirstSession(k)'
  <2>1. SendsBack(k) /\ HearsBack(k) /\ FirstSession(k) /\ Rests(k)
    BY <1>2 DEF ReturnInv
  <2>2. \A n : Has(k, n) => Has(k, n)'
    BY <2>1 DEF Has, Rests, Alive
  <2>3. SendsBack(k)'
    BY <2>1, <2>2 DEF SendsBack, Rests, Alive
  <2> QED BY <2>1, <2>3 DEF HearsBack, FirstSession, Rests, Alive
<1>3. ASSUME NEW d \in net' PROVE Backed(d)'
  <2>1. d \in Datagram
    BY DEF TypeOK
  <2>2. Backed(d) \/ Backed(d)'
    BY DEF ReturnInv
  <2> QED BY <1>1, <2>1, <2>2, BackedGrows
<1> QED BY <1>2, <1>3 DEF ReturnInv

(* A step at the client's end: it has sent out, acknowledgements among it, *)
(* of what it has received by now.                                         *)
Acks(c, h1, d) ==
    /\ ~d.reliable /\ d.to = ServerEnd(c)
    /\ h1 # NoHeap => d.num <= h1.last_recv_rel
    /\ session[c] <= 1 => <<1, d.num>> \in given'[ClientEnd(c)]

LEMMA AtClient ==
    ASSUME TypeOK, TypeOK', ReturnInv, NEW c \in Clients, NEW h1, NEW out,
           heap' = [heap EXCEPT ![ClientEnd(c)] = h1], net' = net \cup out,
           session' = session, \A k \in Clients : pushed'[ServerEnd(k)] = pushed[ServerEnd(k)],
           \A x \in Ends \ {ClientEnd(c)} : given'[x] = given[x],
           given[ClientEnd(c)] \subseteq given'[ClientEnd(c)],
           h1 # NoHeap =>
             /\ Alive(ClientEnd(c))
             /\ heap[ClientEnd(c)].last_recv_rel <= h1.last_recv_rel
             /\ \A i \in 1 .. heap[ClientEnd(c)].last_recv_rel :
                  h1.delivered[i] = heap[ClientEnd(c)].delivered[i]
             /\ InSequence(h1, session[c], given'[ClientEnd(c)]),
           \A d \in out : Backed(d) \/ Acks(c, h1, d)
    PROVE  ReturnInv'
<1>1. /\ heap'[ClientEnd(c)] = h1
      /\ \A x \in Ends \ {ClientEnd(c)} : heap'[x] = heap[x]
  BY EndFacts DEF TypeOK
<1>2. \A k \in Clients : /\ ServerEnd(k) \in Ends \ {ClientEnd(c)}
                         /\ k # c => ClientEnd(k) \in Ends \ {ClientEnd(c)}
  BY EndFacts DEF ClientEnd
<1>3. \A k \in Clients \ {c} : Rests(k)
  BY <1>1, <1>2 DEF Rests
<1>4. Grows(c)
  BY <1>1, <1>2, Numbers DEF Grows, Alive
<1>5. SendsBack(c)'
  <2>1. \A n \in Nat : Has(c, n) => Has(c, n)'
    BY <1>4, HasGrows
  <2>2. SendsBack(c) /\ heap'[ServerEnd(c)] = heap[ServerEnd(c)]
    BY <1>1, <1>2 DEF ReturnInv
  <2> QED BY <2>1, <2>2 DEF SendsBack, Alive
<1>6. HearsBack(c)'
  BY <1>1 DEF HearsBack, Alive
<1>7. FirstSession(c)'
  BY <1>1, <1>2 DEF ReturnInv, FirstSession, Alive
<1>8. ASSUME NEW d \in out, Acks(c, h1, d) PROVE Backed(d)'
  <2>1. d \in Datagram /\ d.num \in Nat /\ d.to # ClientEnd(c)
    BY <1>8, DatagramFields, EndFacts DEF TypeOK, Acks
  <2>2. \A k \in Clients : d.to = ServerEnd(k) => k = c
    BY <1>8 DEF Acks, ServerEnd
  <2>3. Has(c, d.num)'
    BY <1>1, <1>8 DEF Acks, Has, Alive
  <2> QED BY <1>8, <2>2, <2>3 DEF Backed, Acks
<1> QED BY <1>3, <1>4, <1>5, <1>6, <1>7, <1>8, ReturnAt

(* A step at the server's end of a client.                                 *)
LEMMA AtServer ==
    ASSUME TypeOK, TypeOK', ReturnInv, NEW c \in Clients, NEW h1, NEW out,
           heap' = [heap EXCEPT ![ServerEnd(c)] = h1], net' = net \cup out,
           \A k \in Clients \ {c} :
             session'[k] = session[k] /\ pushed'[ServerEnd(k)] = pushed[ServerEnd(k)],
           session[c] <= session'[c],
           \A x \in Ends \ {ServerEnd(c)} : given'[x] = given[x],
           given[ServerEnd(c)] \subseteq given'[ServerEnd(c)],
           h1 # NoHeap =>
             /\ session'[c] >= 1
             /\ Numbered(h1, pushed'[ServerEnd(c)], session'[c])
             /\ \A n \in 1 .. pushed'[ServerEnd(c)] - Len(h1.out_queue) : Has(c, n)
             /\ session'[c] = 1 => CaughtUp(h1, given'[ServerEnd(c)]),
           session'[c] = 0 => given'[ServerEnd(c)] = {} /\ h1 = NoHeap,
           \A d \in out : Backed(d)
    PROVE  ReturnInv'
<1>1. /\ heap'[ServerEnd(c)] = h1
      /\ \A x \in Ends \ {ServerEnd(c)} : heap'[x] = heap[x]
  BY EndFacts DEF TypeOK
<1>2. \A k \in Clients : /\ ClientEnd(k) \in Ends \ {ServerEnd(c)}
                         /\ k # c => ServerEnd(k) \in Ends \ {ServerEnd(c)}
  BY EndFacts DEF ServerEnd
<1>3. \A k \in Clients \ {c} : Rests(k)
  BY <1>1, <1>2 DEF Rests
<1>4. Grows(c)
  <2>1. heap'[ClientEnd(c)] = heap[ClientEnd(c)] /\ given'[ClientEnd(c)] = given[ClientEnd(c)]
    BY <1>1, <1>2
  <2>2. heap[ClientEnd(c)] # NoHeap => heap[ClientEnd(c)].last_recv_rel \in Nat
    BY Numbers, HeapFields
  <2> QED BY <2>1, <2>2 DEF Grows
<1>5. SendsBack(c)'
  <2>1. \A n \in Nat : Has(c, n) => Has(c, n)'
    BY <1>4, HasGrows
  <2> QED BY <1>1, <2>1 DEF SendsBack, Alive
<1>6. HearsBack(c)'
  <2>1. HearsBack(c)
    BY DEF ReturnInv
  <2>2. heap'[ClientEnd(c)] = heap[ClientEnd(c)] /\ given'[ClientEnd(c)] = given[ClientEnd(c)]
    BY <1>1, <1>2
  <2>3. session[c] \in Nat /\ session'[c] \in Nat
    BY Numbers, NumbersNext
  <2>4. \A h, g : InSequence(h, session[c], g) => InSequence(h, session'[c], g)
    <3>1. 1 .. session[c] \subseteq 1 .. session'[c]
      BY <2>3
    <3> QED BY <3>1 DEF InSequence
  <2> QED BY <2>1, <2>2, <2>4 DEF HearsBack, Alive
<1>7. FirstSession(c)'
  BY <1>1 DEF FirstSession, Alive
<1> QED BY <1>3, <1>4, <1>5, <1>6, <1>7, ReturnAt

-----------------------------------------------------------------------------
(* What is sent.                                                           *)

LEMMA OthersBacked ==
    ASSUME NEW c \in Clients, NEW d, ~d.reliable, d.cmd # "Ack" \/ d.to = ClientEnd(c)
    PROVE  Backed(d)
BY EndFacts DEF Backed

LEMMA SentBacked ==
    ASSUME NEW c \in Clients, NEW h, NEW k
    PROVE  /\ \A cmd \in {"Ping", "Pong", "State"} : \A e \in Ends : Backed(Unreliable(e, h, cmd, k))
           /\ Backed(Unreliable(ServerEnd(c), h, "Ack", k))
           /\ \A cmd \in Refusals : Backed(Refusal(c, cmd))
<1>1. ASSUME NEW cmd \in {"Ping", "Pong", "State"}, NEW e \in Ends
      PROVE  Backed(Unreliable(e, h, cmd, k))
  BY OthersBacked DEF Unreliable
<1>2. Backed(Unreliable(ServerEnd(c), h, "Ack", k))
  <2>1. Unreliable(ServerEnd(c), h, "Ack", k).to = ClientEnd(c) /\ ~Unreliable(ServerEnd(c), h, "Ack", k).reliable
    BY EndFacts DEF Unreliable
  <2> QED BY <2>1, OthersBacked
<1>3. ASSUME NEW cmd \in Refusals PROVE Backed(Refusal(c, cmd))
  BY OthersBacked DEF Refusal, Refusals
<1> QED BY <1>1, <1>2, <1>3

LEMMA ReliableBacked ==
    ASSUME NEW c \in Clients, NEW m \in QueueMessage
    PROVE  /\ InTurn(c, m) => Backed(Reliable(ServerEnd(c), m))
           /\ InClientsTurn(c, m) => Backed(Reliable(ClientEnd(c), m))
<1>1. m.cmd # "Ack"
  BY DEF QueueMessage, ReliableCmds
<1>2. ASSUME InTurn(c, m) PROVE Backed(Reliable(ServerEnd(c), m))
  <2> DEFINE d == Reliable(ServerEnd(c), m)
  <2>1. /\ d.to = ClientEnd(c) /\ d.cmd = m.cmd /\ d.num = m.num /\ d.seq_no = m.seq_no
        /\ d.sess = m.sess
    BY EndFacts DEF Reliable
  <2> HIDE DEF d
  <2>2. InTurn(c, d)
    BY <1>2, <2>1 DEF InTurn
  <2>3. \A k \in Clients : d.to # ServerEnd(k) /\ (d.to = ClientEnd(k) => k = c)
    BY <2>1, EndFacts DEF ClientEnd
  <2>4. Backed(d)
    BY <2>2, <2>3 DEF Backed
  <2> QED BY <2>4 DEF d
<1>3. ASSUME InClientsTurn(c, m) PROVE Backed(Reliable(ClientEnd(c), m))
  <2> DEFINE d == Reliable(ClientEnd(c), m)
  <2>1. d.to = ServerEnd(c) /\ d.cmd = m.cmd /\ d.num = m.num
    BY EndFacts DEF Reliable
  <2> HIDE DEF d
  <2>2. InClientsTurn(c, d)
    BY <1>3, <2>1 DEF InClientsTurn
  <2>3. \A k \in Clients : d.to # ClientEnd(k) /\ (d.to = ServerEnd(k) => k = c)
    BY <2>1, EndFacts DEF ServerEnd
  <2>4. Backed(d)
    BY <1>1, <2>1, <2>2, <2>3 DEF Backed
  <2> QED BY <2>4 DEF d
<1> QED BY <1>2, <1>3

-----------------------------------------------------------------------------
(* A visit of a heap: what Visit does, in the three cases.                 *)

LEMMA VisitCases ==
    ASSUME TypeOK, NEW e \in Ends, NEW h \in Heap, NEW out, Visit(e, h, out)
    PROVE  LET m == Head(h.in_queue) IN
           /\ \A x \in Ends \ {e} : given'[x] = given[x]
           /\ \/ /\ heap' = [heap EXCEPT ![e] = NoHeap] /\ net' = net \cup out /\ given' = given
              \/ /\ ~Ready(h)
                 /\ heap' = [heap EXCEPT ![e] = h] /\ net' = net \cup out /\ given' = given
              \/ /\ Ready(h)
                 /\ net' = net \cup (out \cup {Unreliable(e, h, "Ack", m.seq_no)})
                 /\ given'[e] = given[e] \cup {<<m.sess, m.num>>}
                 /\ \/ heap' = [heap EXCEPT ![e] = NoHeap]
                    \/ heap' = [heap EXCEPT ![e] = CountUnrel(Taken(e, h))]
<1>1. given \in [Ends -> SUBSET (Nat \X Nat)]
  BY DEF TypeOK
<1> QED BY <1>1 DEF Visit, Deliver

LEMMA TakenIs ==
    ASSUME NEW e \in Ends, NEW h \in Heap, Ready(h)
    PROVE  LET m == Head(h.in_queue)
               y == CountUnrel(Taken(e, h))
           IN  /\ y \in Heap /\ m \in QueueMessage
               /\ y.in_queue = Tail(h.in_queue) /\ y.out_queue = h.out_queue
               /\ y.last_send_rel = h.last_send_rel
               /\ m.seq_no = h.last_recv_rel + 1
               /\ y.last_recv_rel = h.last_recv_rel + 1
               /\ Len(y.delivered) = Len(h.delivered) + 1
               /\ \A i \in 1 .. Len(h.delivered) : y.delivered[i] = h.delivered[i]
               /\ y.delivered[Len(h.delivered) + 1] = <<m.sess, m.num>>
<1> DEFINE m == Head(h.in_queue)
           t == Taken(e, h)
           s == h.delivered
<1>1. t \in Heap /\ CountUnrel(t) \in Heap /\ Same(CountUnrel(t), t) /\ m \in QueueMessage
  BY TakenType, UnrelType, SameFields, QueueHead DEF Ready
<1>2. /\ t.in_queue = Tail(h.in_queue) /\ t.out_queue = h.out_queue
      /\ t.last_send_rel = h.last_send_rel /\ t.last_recv_rel = m.seq_no
      /\ t.delivered = Append(s, <<m.sess, m.num>>)
  BY DEF Taken, Heap
<1>3. m.seq_no = h.last_recv_rel + 1
  BY DEF Ready
<1>4. s \in Seq(Nat \X Nat) /\ <<m.sess, m.num>> \in Nat \X Nat
  BY <1>1, HeapFields DEF QueueMessage
<1>5. /\ Len(Append(s, <<m.sess, m.num>>)) = Len(s) + 1
      /\ \A i \in 1 .. Len(s) : Append(s, <<m.sess, m.num>>)[i] = s[i]
      /\ Append(s, <<m.sess, m.num>>)[Len(s) + 1] = <<m.sess, m.num>>
  <2> HIDE DEF s
  <2> QED BY <1>4
<1> HIDE DEF t
<1> QED BY <1>1, <1>2, <1>3, <1>5 DEF Same, t

(* h is heap[e] but for what may be queued in it: nothing waits, or only   *)
(* the message that is due.                                                *)
Served(h) ==
    \/ h.in_queue = << >>
    \/ Ready(h) /\ Tail(h.in_queue) = << >>

LEMMA DeliveredOrderly ==
    ASSUME NEW h \in Heap, NEW y \in Heap, NEW s \in Nat, NEW g, NEW m \in QueueMessage,
           Len(h.delivered) = h.last_recv_rel,
           \A i \in 1 .. h.last_recv_rel :
             /\ h.delivered[i][2] = i
             /\ h.delivered[i][1] \in 1 .. s
             /\ <<h.delivered[i][1], i>> \in g
             /\ \A j \in i .. h.last_recv_rel : h.delivered[i][1] <= h.delivered[j][1],
           y.in_queue = << >>, y.last_recv_rel = h.last_recv_rel + 1,
           Len(y.delivered) = h.last_recv_rel + 1,
           \A i \in 1 .. h.last_recv_rel : y.delivered[i] = h.delivered[i],
           y.delivered[h.last_recv_rel + 1] = <<m.sess, m.num>>,
           m.num = h.last_recv_rel + 1, m.sess \in 1 .. s,
           \A i \in 1 .. h.last_recv_rel : h.delivered[i][1] <= m.sess
    PROVE  InSequence(y, s, g \cup {<<m.sess, m.num>>})
<1> DEFINE n == h.last_recv_rel
           f == g \cup {<<m.sess, m.num>>}
<1>1. n \in Nat /\ m.sess \in Nat
  BY HeapFields DEF QueueMessage
<1>2. y.delivered[n + 1][1] = m.sess /\ y.delivered[n + 1][2] = n + 1
  OBVIOUS
<1>3. ASSUME NEW i \in 1 .. n + 1
      PROVE  /\ y.delivered[i][2] = i
             /\ y.delivered[i][1] \in 1 .. s
             /\ <<y.delivered[i][1], i>> \in f
             /\ \A j \in i .. n + 1 : y.delivered[i][1] <= y.delivered[j][1]
  <2>1. CASE i = n + 1
    <3>1. \A j \in i .. n + 1 : j = i
      BY <1>1, <2>1
    <3>2. <<m.sess, n + 1>> \in f /\ m.sess \in 1 .. s
      OBVIOUS
    <3>3. \A j \in i .. n + 1 : y.delivered[i][1] <= y.delivered[j][1]
      <4> HIDE DEF n
      <4> QED BY <1>1, <1>2, <2>1, <3>1
    <3> HIDE DEF f, n
    <3> QED BY <1>2, <2>1, <3>2, <3>3
  <2>2. CASE i \in 1 .. n
    <3>1. /\ h.delivered[i][2] = i /\ h.delivered[i][1] \in 1 .. s
          /\ <<h.delivered[i][1], i>> \in f /\ y.delivered[i] = h.delivered[i]
          /\ h.delivered[i][1] <= m.sess
      BY <2>2
    <3>2. ASSUME NEW j \in i .. n + 1 PROVE y.delivered[i][1] <= y.delivered[j][1]
      <4>1. CASE j = n + 1
        BY <1>2, <3>1, <4>1
      <4>2. CASE j \in i .. n
        <5>1. j \in 1 .. n
          BY <2>2, <4>2
        <5>2. y.delivered[j] = h.delivered[j] /\ h.delivered[i][1] <= h.delivered[j][1]
          BY <2>2, <4>2, <5>1
        <5> QED BY <3>1, <5>2
      <4> QED BY <1>1, <2>2, <4>1, <4>2
    <3> HIDE DEF f, n
    <3> QED BY <3>1, <3>2
  <2> QED BY <1>1, <2>1, <2>2
<1> HIDE DEF f
<1> QED BY <1>3 DEF InSequence, f

LEMMA VisitAtClient ==
    ASSUME TypeOK, TypeOK', ReturnInv, NEW c \in Clients, Alive(ClientEnd(c)), NEW h \in Heap, NEW out,
           Visit(ClientEnd(c), h, out), session' = session, pushed' = pushed,
           h.delivered = heap[ClientEnd(c)].delivered,
           h.last_recv_rel = heap[ClientEnd(c)].last_recv_rel,
           Served(h), h.in_queue # << >> => InTurn(c, Head(h.in_queue)),
           \A d \in out : Backed(d)
    PROVE  ReturnInv'
<1> DEFINE e == ClientEnd(c)
           m == Head(h.in_queue)
           n == h.last_recv_rel
           y == CountUnrel(Taken(e, h))
<1>1. e \in Ends /\ session[c] \in Nat /\ n \in Nat
  BY EndFacts, Numbers, HeapFields
<1>2. InSequence(heap[e], session[c], given[e])
  BY DEF ReturnInv, HearsBack
<1>3. /\ Len(h.delivered) = n
      /\ \A i \in 1 .. n :
             /\ h.delivered[i][2] = i
             /\ h.delivered[i][1] \in 1 .. session[c]
             /\ <<h.delivered[i][1], i>> \in given[e]
             /\ \A j \in i .. n : h.delivered[i][1] <= h.delivered[j][1]
  BY <1>2 DEF InSequence
<1>4. \A x \in Ends \ {e} : given'[x] = given[x]
  BY <1>1, VisitCases
<1>5. \A k \in Clients : pushed'[ServerEnd(k)] = pushed[ServerEnd(k)]
  OBVIOUS
<1>6. heap[e].last_recv_rel <= n /\ \A i \in 1 .. heap[e].last_recv_rel : h.delivered[i] = heap[e].delivered[i]
  BY <1>1
<1>7. CASE heap' = [heap EXCEPT ![e] = NoHeap] /\ net' = net \cup out /\ given' = given
  BY <1>4, <1>5, <1>7, AtClient
<1>8. CASE ~Ready(h) /\ heap' = [heap EXCEPT ![e] = h] /\ net' = net \cup out /\ given' = given
  <2>1. h.in_queue = << >>
    BY <1>8 DEF Served
  <2>2. InSequence(h, session[c], given[e])
    BY <1>3, <2>1 DEF InSequence
  <2>3. /\ \A x \in Ends \ {e} : given'[x] = given[x]
        /\ given[e] \subseteq given'[e] /\ InSequence(h, session[c], given'[e])
    BY <1>8, <2>2
  <2> QED BY <1>5, <1>6, <1>8, <2>3, AtClient
<1>9. CASE /\ Ready(h)
           /\ net' = net \cup (out \cup {Unreliable(e, h, "Ack", m.seq_no)})
           /\ given'[e] = given[e] \cup {<<m.sess, m.num>>}
           /\ \/ heap' = [heap EXCEPT ![e] = NoHeap]
              \/ heap' = [heap EXCEPT ![e] = y]
  <2>1. /\ h.in_queue # << >> /\ Tail(h.in_queue) = << >> /\ InTurn(c, m)
    <3>1. h.in_queue # << >>
      BY <1>9 DEF Ready
    <3> QED BY <3>1 DEF Served
  <2>2. /\ y \in Heap /\ m \in QueueMessage
        /\ y.in_queue = << >>
        /\ m.seq_no = n + 1
        /\ y.last_recv_rel = n + 1
        /\ Len(y.delivered) = n + 1
        /\ \A i \in 1 .. n : y.delivered[i] = h.delivered[i]
        /\ y.delivered[n + 1] = <<m.sess, m.num>>
    BY ZenonT(40), <1>1, <1>3, <1>9, <2>1, TakenIs
  <2>3. m.num = n + 1 /\ m.sess \in 1 .. session[c]
    BY <2>1, <2>2 DEF InTurn
  <2>4. \A i \in 1 .. n : h.delivered[i][1] <= m.sess
    <3>1. n = m.num - 1
      BY <1>1, <2>3
    <3> QED BY <2>1, <3>1 DEF InTurn
  <2> DEFINE f == given[e] \cup {<<m.sess, m.num>>}
  <2>5. InSequence(y, session[c], f)
    <3> HIDE DEF y, m, e
    <3> QED BY <1>1, <1>3, <2>2, <2>3, <2>4, DeliveredOrderly
  <2> DEFINE a == Unreliable(e, h, "Ack", m.seq_no)
             o == out \cup {a}
  <2>6. ~a.reliable /\ a.to = ServerEnd(c) /\ a.num = n + 1
    BY <2>2, EndFacts DEF Unreliable
  <2>7. given'[e] = f /\ given[e] \subseteq f /\ <<m.sess, m.num>> \in f
    BY <1>9
  <2>8. session[c] <= 1 => m.sess = 1
    BY <1>1, <2>3
  <2>9. Acks(c, y, a) /\ Acks(c, NoHeap, a)
    <3> HIDE DEF y, m, a, e, f, n
    <3>1. <<m.sess, m.num>> \in given'[ClientEnd(c)]
      BY <2>7 DEF e
    <3>2. y.last_recv_rel = n + 1 /\ n + 1 <= n + 1
      BY <1>1, <2>2
    <3> QED BY <2>3, <2>6, <2>8, <3>1, <3>2 DEF Acks
  <2>10. \A d \in o : Backed(d) \/ Acks(c, y, d)
    BY <2>9
  <2>11. \A d \in o : Backed(d) \/ Acks(c, NoHeap, d)
    BY <2>9
  <2>12. /\ heap[e].last_recv_rel <= y.last_recv_rel
         /\ \A i \in 1 .. heap[e].last_recv_rel : y.delivered[i] = heap[e].delivered[i]
    <3> HIDE DEF y
    <3> QED BY <1>1, <2>2
  <2> HIDE DEF y, o, f
  <2>13. CASE heap' = [heap EXCEPT ![e] = NoHeap]
    BY <1>4, <1>5, <1>9, <2>7, <2>11, <2>13, AtClient DEF o
  <2>14. CASE heap' = [heap EXCEPT ![e] = y]
    BY <1>4, <1>5, <1>9, <2>5, <2>7, <2>10, <2>12, <2>14, AtClient DEF o
  <2> QED BY <1>9, <2>13, <2>14 DEF y
<1> QED BY <1>1, <1>7, <1>8, <1>9, VisitCases

(* h is the server's heap with something new; in the first session nothing *)
(* but the message that is due waits in it.                                *)
LEMMA VisitAtServer ==
    ASSUME TypeOK, TypeOK', ReturnInv, NEW c \in Clients, NEW h \in Heap, NEW out,
           Visit(ServerEnd(c), h, out),
           \A k \in Clients \ {c} :
             session'[k] = session[k] /\ pushed'[ServerEnd(k)] = pushed[ServerEnd(k)],
           session[c] <= session'[c], session'[c] >= 1,
           Numbered(h, pushed'[ServerEnd(c)], session'[c]),
           \A n \in 1 .. pushed'[ServerEnd(c)] - Len(h.out_queue) : Has(c, n),
           session'[c] = 1 =>
             /\ Served(h)
             /\ h.in_queue # << >> => Head(h.in_queue).num = Head(h.in_queue).seq_no
             /\ \A i \in Nat : <<1, i>> \in given[ServerEnd(c)] => i <= h.last_recv_rel,
           \A d \in out : Backed(d)
    PROVE  ReturnInv'
<1> DEFINE e == ServerEnd(c)
           m == Head(h.in_queue)
           y == CountUnrel(Taken(e, h))
<1>1. e \in Ends /\ session'[c] \in Nat /\ h.last_recv_rel \in Nat /\ session'[c] # 0
  BY EndFacts, NumbersNext, HeapFields
<1>2. \A x \in Ends \ {e} : given'[x] = given[x]
  BY <1>1, VisitCases
<1>3. CASE heap' = [heap EXCEPT ![e] = NoHeap] /\ net' = net \cup out /\ given' = given
  BY <1>1, <1>2, <1>3, AtServer
<1>4. CASE ~Ready(h) /\ heap' = [heap EXCEPT ![e] = h] /\ net' = net \cup out /\ given' = given
  <2>1. session'[c] = 1 => CaughtUp(h, given'[e])
    BY <1>4 DEF Served, CaughtUp
  <2>2. given[e] \subseteq given'[e]
    BY <1>4
  <2> QED BY <1>1, <1>2, <1>4, <2>1, <2>2, AtServer
<1>5. CASE /\ Ready(h)
           /\ net' = net \cup (out \cup {Unreliable(e, h, "Ack", m.seq_no)})
           /\ given'[e] = given[e] \cup {<<m.sess, m.num>>}
           /\ \/ heap' = [heap EXCEPT ![e] = NoHeap]
              \/ heap' = [heap EXCEPT ![e] = y]
  <2>1. /\ y.in_queue = Tail(h.in_queue) /\ y.out_queue = h.out_queue
        /\ y.last_send_rel = h.last_send_rel
        /\ m.seq_no = h.last_recv_rel + 1
        /\ y.last_recv_rel = h.last_recv_rel + 1
    BY <1>1, <1>5, TakenIs
  <2> DEFINE o == out \cup {Unreliable(e, h, "Ack", m.seq_no)}
  <2>2. \A d \in o : Backed(d)
    BY SentBacked
  <2>3. session'[c] = 1 => CaughtUp(y, given'[e])
    <3> SUFFICES ASSUME session'[c] = 1 PROVE CaughtUp(y, given'[e])
      OBVIOUS
    <3>1. h.in_queue # << >>
      BY <1>5 DEF Ready
    <3>2. y.in_queue = << >> /\ m.num = h.last_recv_rel + 1
      BY <2>1, <3>1 DEF Served
    <3>3. \A i \in Nat : <<1, i>> \in given'[e] => i <= h.last_recv_rel \/ i = m.num
      <4> HIDE DEF m
      <4> QED BY <1>5
    <3>4. \A i \in Nat : <<1, i>> \in given'[e] => i <= y.last_recv_rel
      <4> HIDE DEF m, y
      <4> QED BY <1>1, <2>1, <3>2, <3>3
    <3> HIDE DEF y
    <3> QED BY <3>2, <3>4 DEF CaughtUp
  <2>4. Numbered(y, pushed'[e], session'[c])
    <3> HIDE DEF y
    <3> QED BY <2>1 DEF Numbered
  <2>5. \A n \in 1 .. pushed'[e] - Len(y.out_queue) : Has(c, n)
    BY <2>1
  <2>6. given[e] \subseteq given'[e]
    BY <1>5
  <2> HIDE DEF y, o, m
  <2>7. CASE heap' = [heap EXCEPT ![e] = NoHeap]
    BY <1>1, <1>2, <1>5, <2>2, <2>6, <2>7, AtServer DEF o
  <2>8. CASE heap' = [heap EXCEPT ![e] = y]
    BY <1>1, <1>2, <1>5, <2>2, <2>3, <2>4, <2>5, <2>6, <2>8, AtServer DEF o
  <2> QED BY <1>5, <2>7, <2>8 DEF y
<1> QED BY <1>1, <1>3, <1>4, <1>5, VisitCases

(* Queueing touches the in_queue only; where nothing waits, d waits alone. *)
LEMMA EnqueuedIs ==
    ASSUME NEW e \in Ends, NEW h \in Heap, NEW d \in Datagram, d.cmd \in ReliableCmds,
           Enqueue(e, h, d)
    PROVE  \E x \in Heap :
             /\ Visit(e, x, {})
             /\ x.last_send_rel = h.last_send_rel /\ x.last_recv_rel = h.last_recv_rel
             /\ x.out_queue = h.out_queue /\ x.delivered = h.delivered
             /\ h.in_queue = << >> =>
                  /\ x.in_queue # << >> /\ Tail(x.in_queue) = << >>
                  /\ Head(x.in_queue) = AsQueued(d)
<1>1. PICK k \in 0 .. Len(h.in_queue) :
        Visit(e, [h EXCEPT !.in_queue = InsertedAt(h.in_queue, AsQueued(d), k)], {})
  BY Zenon DEF Enqueue
<1> DEFINE m == AsQueued(d)
           q == InsertedAt(h.in_queue, m, k)
           x == [h EXCEPT !.in_queue = q]
<1>2. q \in Seq(QueueMessage) /\ m \in QueueMessage
  BY HeapFields, AsQueuedType, InsertType
<1>3. x \in Heap
  <2> HIDE DEF q
  <2> QED BY <1>2, HeapWithQueue
<1>4. /\ x.last_send_rel = h.last_send_rel /\ x.last_recv_rel = h.last_recv_rel
      /\ x.out_queue = h.out_queue /\ x.delivered = h.delivered /\ x.in_queue = q
  <2> HIDE DEF q
  <2> QED BY DEF Heap
<1>5. ASSUME h.in_queue = << >>
      PROVE  q # << >> /\ Tail(q) = << >> /\ Head(q) = m
  <2>1. Len(h.in_queue) = 0 /\ k = 0
    BY <1>5
  <2>2. q = [i \in 1 .. 1 |-> m]
    <3> HIDE DEF m
    <3> QED BY <2>1 DEF InsertedAt
  <2>3. q = <<m>>
    <3> HIDE DEF m
    <3> QED BY <2>2
  <2> HIDE DEF q, m
  <2> QED BY <2>3
<1>6. Visit(e, x, {})
  BY <1>1
<1> HIDE DEF x, q, m
<1> QED BY <1>3, <1>4, <1>5, <1>6 DEF m

-----------------------------------------------------------------------------
(* Every step of cycle() and of the applications preserves ReturnInv.      *)

(* What ReturnInv says of a heap that exists.                              *)
LEMMA ClientHears ==
    ASSUME TypeOK, ReturnInv, NEW c \in Clients, Alive(ClientEnd(c))
    PROVE  /\ heap[ClientEnd(c)] \in Heap
           /\ InSequence(heap[ClientEnd(c)], session[c], given[ClientEnd(c)])
           /\ heap[ClientEnd(c)].in_queue = << >> /\ Served(heap[ClientEnd(c)])
           /\ heap[ClientEnd(c)].last_recv_rel \in Nat
BY Numbers, HeapFields DEF ReturnInv, HearsBack, InSequence, Served, Alive

LEMMA ServerSends ==
    ASSUME TypeOK, ReturnInv, NEW c \in Clients, Alive(ServerEnd(c))
    PROVE  /\ heap[ServerEnd(c)] \in Heap
           /\ session[c] \in Nat /\ session[c] >= 1 /\ session[c] <= session[c]
           /\ Numbered(heap[ServerEnd(c)], pushed[ServerEnd(c)], session[c])
           /\ \A n \in 1 .. pushed[ServerEnd(c)] - Len(heap[ServerEnd(c)].out_queue) : Has(c, n)
           /\ session[c] = 1 => /\ CaughtUp(heap[ServerEnd(c)], given[ServerEnd(c)])
                               /\ Served(heap[ServerEnd(c)])
BY Numbers DEF ReturnInv, SendsBack, FirstSession, Served, CaughtUp, Alive

(* A visit of a heap in which nothing has changed that counts here.        *)
LEMMA VisitBack ==
    ASSUME TypeOK, TypeOK', ReturnInv, NEW e \in Ends, Alive(e), NEW h \in Heap, Same(h, heap[e]),
           NEW out, Visit(e, h, out), \A d \in out : Backed(d), session' = session, pushed' = pushed
    PROVE  ReturnInv'
<1>1. ASSUME NEW c \in Clients, e = ClientEnd(c) PROVE ReturnInv'
  <2>1. h.in_queue = << >> /\ Served(h)
    BY <1>1, ClientHears DEF Same, Served
  <2> QED BY <1>1, <2>1, VisitAtClient DEF Same
<1>2. ASSUME NEW c \in Clients, e = ServerEnd(c) PROVE ReturnInv'
  <2>1. /\ session'[c] >= 1 /\ session[c] <= session'[c]
        /\ Numbered(h, pushed'[e], session'[c])
        /\ \A n \in 1 .. pushed'[e] - Len(h.out_queue) : Has(c, n)
    BY <1>2, ServerSends DEF Same, Numbered
  <2>2. session'[c] = 1 =>
             /\ Served(h)
             /\ h.in_queue # << >> => Head(h.in_queue).num = Head(h.in_queue).seq_no
             /\ \A i \in Nat : <<1, i>> \in given[e] => i <= h.last_recv_rel
    BY <1>2, ServerSends DEF Same, Served, CaughtUp
  <2> QED BY <1>2, <2>1, <2>2, VisitAtServer
<1> QED BY <1>1, <1>2, EndFacts

LEMMA EnqueueBack ==
    ASSUME TypeOK, TypeOK', StreamInv, ReturnInv, NEW e \in Ends, NEW d \in net,
           d.to = e, d.reliable, Alive(e), Enqueue(e, heap[e], d), session' = session, pushed' = pushed
    PROVE  ReturnInv'
<1> DEFINE h == heap[e]
<1>1. /\ h \in Heap /\ d \in Datagram /\ d.cmd \in ReliableCmds
      /\ d.num \in Nat /\ d.seq_no \in Nat /\ h.last_recv_rel \in Nat
  BY AliveHeap, DatagramFields, HeapFields DEF TypeOK
<1>2. d.seq_no > h.last_recv_rel
  BY DEF Enqueue
<1>3. PICK x \in Heap :
             /\ Visit(e, x, {})
             /\ x.last_send_rel = h.last_send_rel /\ x.last_recv_rel = h.last_recv_rel
             /\ x.out_queue = h.out_queue /\ x.delivered = h.delivered
             /\ h.in_queue = << >> =>
                  /\ x.in_queue # << >> /\ Tail(x.in_queue) = << >>
                  /\ Head(x.in_queue) = AsQueued(d)
  BY <1>1, EnqueuedIs
<1>4. /\ AsQueued(d).num = d.num /\ AsQueued(d).seq_no = d.seq_no /\ AsQueued(d).sess = d.sess
  BY DEF AsQueued
<1>5. \A z \in {} : Backed(z)
  OBVIOUS
<1>6. ASSUME NEW c \in Clients, e = ClientEnd(c) PROVE ReturnInv'
  <2>1. h.in_queue = << >>
    BY <1>6, ClientHears
  <2>2. InTurn(c, d)
    BY <1>6 DEF ReturnInv, Backed
  <2>3. d.seq_no = h.last_recv_rel + 1
    BY <1>1, <1>2, <1>6, <2>2 DEF InTurn
  <2>4. Served(x)
    BY <1>3, <1>4, <2>1, <2>3 DEF Served, Ready
  <2>5. InTurn(c, Head(x.in_queue))
    BY <1>3, <1>4, <2>1, <2>2 DEF InTurn
  <2> QED BY <1>3, <1>5, <1>6, <2>4, <2>5, VisitAtClient
<1>7. ASSUME NEW c \in Clients, e = ServerEnd(c) PROVE ReturnInv'
  <2>1. /\ session'[c] >= 1 /\ session[c] <= session'[c]
        /\ Numbered(x, pushed'[e], session'[c])
        /\ \A n \in 1 .. pushed'[e] - Len(x.out_queue) : Has(c, n)
    BY <1>3, <1>7, ServerSends DEF Numbered
  <2>2. ASSUME session'[c] = 1
        PROVE  /\ Served(x)
               /\ x.in_queue # << >> => Head(x.in_queue).num = Head(x.in_queue).seq_no
               /\ \A i \in Nat : <<1, i>> \in given[e] => i <= x.last_recv_rel
    <3>1. h.in_queue = << >> /\ \A i \in Nat : <<1, i>> \in given[e] => i <= h.last_recv_rel
      BY <1>7, <2>2, ServerSends DEF CaughtUp
    <3>2. d.seq_no = d.num /\ d.num >= 1
      <4>1. Genuine(d, pushed[ClientEnd(c)])
        BY <1>7 DEF StreamInv, NetInv, Harmless
      <4> QED BY <1>1, <4>1, ServerHeap, <1>7 DEF Genuine
    <3>3. \A i \in 1 .. d.num - 1 : <<1, i>> \in given[e]
      BY <1>7 DEF ReturnInv, Backed, InClientsTurn
    <3>4. d.num - 1 <= h.last_recv_rel
      <4>1. CASE d.num = 1
        BY <1>1, <4>1
      <4>2. CASE d.num # 1
        <5>1. d.num - 1 \in 1 .. d.num - 1 /\ d.num - 1 \in Nat
          BY <1>1, <3>2, <4>2
        <5> QED BY <3>1, <3>3, <5>1
      <4> QED BY <4>1, <4>2
    <3>5. d.seq_no = h.last_recv_rel + 1
      BY <1>1, <1>2, <3>2, <3>4
    <3>6. Served(x)
      BY <1>3, <1>4, <3>1, <3>5 DEF Served, Ready
    <3> QED BY <1>3, <1>4, <3>1, <3>2, <3>6
  <2> QED BY <1>3, <1>5, <1>7, <2>1, <2>2, VisitAtServer
<1> QED BY <1>6, <1>7, EndFacts

LEMMA AckAgainBack ==
    ASSUME TypeOK, TypeOK', ReturnInv, NEW e \in Ends, NEW d \in net,
           d.to = e, d.reliable, Alive(e), AckAgain(e, heap[e], d), session' = session, pushed' = pushed
    PROVE  ReturnInv'
<1> DEFINE h == heap[e]
           x == CountUnrel(h)
           a == Unreliable(e, h, "Ack", d.seq_no)
<1>1. h \in Heap /\ x \in Heap /\ Same(x, h)
  BY AliveHeap, UnrelType, SameFields
<1>2. Visit(e, x, {a}) /\ d.seq_no <= h.last_recv_rel /\ d \in Datagram
  BY DEF AckAgain, TypeOK
<1> HIDE DEF x
<1>3. ASSUME NEW c \in Clients, e = ClientEnd(c) PROVE Backed(a)
  <2>1. /\ InSequence(h, session[c], given[e]) /\ h.last_recv_rel \in Nat /\ session[c] \in Nat
    BY <1>3, ClientHears, Numbers
  <2>2. InTurn(c, d)
    BY <1>3 DEF ReturnInv, Backed
  <2>3. d.seq_no \in 1 .. h.last_recv_rel
    BY <1>2, <2>1, <2>2, DatagramFields DEF InTurn
  <2> DEFINE k == d.seq_no
  <2>4. h.delivered[k][1] \in 1 .. session[c] /\ <<h.delivered[k][1], k>> \in given[e]
    BY <2>1, <2>3 DEF InSequence
  <2>5. session[c] <= 1 => h.delivered[k][1] = 1
    BY <2>1, <2>4
  <2> HIDE DEF k
  <2>6. Has(c, k)
    BY <1>2, <1>3, <2>4, <2>5 DEF Has, k
  <2>7. a.to = ServerEnd(c) /\ ~a.reliable /\ a.num = k
    BY <1>3, EndFacts DEF Unreliable, k
  <2> HIDE DEF a
  <2>8. \A z \in Clients : a.to = ServerEnd(z) => z = c
    BY <2>7 DEF ServerEnd
  <2> QED BY <2>6, <2>7, <2>8 DEF Backed
<1>4. ASSUME NEW c \in Clients, e = ServerEnd(c) PROVE Backed(a)
  BY <1>4, SentBacked
<1>5. \A z \in {a} : Backed(z)
  BY <1>3, <1>4, EndFacts
<1> HIDE DEF a
<1> QED BY <1>1, <1>2, <1>5, VisitBack

(* An acknowledgement for the head of out_queue is one for the next number *)
(* of the stream, whichever session it was meant for.                      *)
LEMMA AcknowledgedNumbered ==
    ASSUME NEW c \in Clients, NEW h \in Heap, NEW n \in Nat, NEW s \in Nat, NEW k \in Nat,
           Numbered(h, n, s), \A i \in 1 .. n - Len(h.out_queue) : Has(c, i), Has(c, k)
    PROVE  /\ Numbered(Acknowledged(h, k), n, s)
           /\ \A i \in 1 .. n - Len(Acknowledged(h, k).out_queue) : Has(c, i)
<1>1. CASE ~(h.out_queue # << >> /\ Head(h.out_queue).seq_no = k)
  BY <1>1 DEF Acknowledged
<1>2. CASE h.out_queue # << >> /\ Head(h.out_queue).seq_no = k
  <2> DEFINE x == Acknowledged(h, k)
             q == h.out_queue
             r == Tail(h.out_queue)
             l == Len(h.out_queue)
  <2>1. x.out_queue = r /\ x.last_send_rel = h.last_send_rel
    BY <1>2 DEF Acknowledged, Popped, Heap
  <2>2. /\ l \in Nat /\ l > 0 /\ Len(r) = l - 1
        /\ Head(q) = q[1]
        /\ \A i \in 1 .. l - 1 : r[i] = q[i + 1]
    BY <1>2, QueueTail
  <2>3. /\ l <= n /\ h.last_send_rel = n
        /\ \A i \in 1 .. l : q[i].num = n - l + i /\ q[i].seq_no = q[i].num /\ q[i].sess = s
    BY DEF Numbered
  <2>4. \A i \in 1 .. n - l : Has(c, i)
    OBVIOUS
  <2>5. Head(q).seq_no = k
    BY <1>2
  <2> HIDE DEF x, q, r, l
  <2>6. k = n - l + 1
    <3>1. 1 \in 1 .. l
      BY <2>2
    <3> QED BY <2>2, <2>3, <2>5, <3>1
  <2>7. \A i \in 1 .. Len(r) : r[i].num = n - Len(r) + i /\ r[i].seq_no = r[i].num /\ r[i].sess = s
    <3> TAKE i \in 1 .. Len(r)
    <3>1. r[i] = q[i + 1] /\ i + 1 \in 1 .. l
      BY <2>2
    <3> QED BY <2>2, <2>3, <3>1
  <2>8. Numbered(x, n, s)
    BY <2>1, <2>2, <2>3, <2>7 DEF Numbered
  <2>9. \A i \in 1 .. n - Len(r) : Has(c, i)
    <3> TAKE i \in 1 .. n - Len(r)
    <3>1. i = k \/ i \in 1 .. n - l
      BY <2>2, <2>3, <2>6
    <3> QED BY <2>4, <3>1
  <2> QED BY <2>1, <2>8, <2>9 DEF x
<1> QED BY <1>1, <1>2

LEMMA UnreliableBack ==
    ASSUME TypeOK, TypeOK', ReturnInv, NEW e \in Ends, NEW d \in net, ReceiveUnreliable(e, d)
    PROVE  ReturnInv'
<1> DEFINE g == heap[e]
           h == [g EXCEPT !.last_recv_unrel = d.seq_no]
           ha == Acknowledged(h, d.num)
           hp == [h EXCEPT !.sent_pings = 0]
           pong == Unreliable(e, h, "Pong", 0)
<1>1. /\ d \in Datagram /\ d.seq_no \in Nat /\ d.num \in Nat
      /\ d.to = e /\ Alive(e)
      /\ session' = session /\ pushed' = pushed
  BY DatagramFields DEF TypeOK, ReceiveUnreliable
<1>2. g \in Heap /\ h \in Heap /\ Same(h, g)
  BY <1>1, AliveHeap, HeapWithNat, SameFields
<1>3. \/ d.cmd = "Ack" /\ Visit(e, ha, {})
      \/ Visit(e, hp, {})
      \/ Visit(e, h, {})
      \/ Visit(e, CountUnrel(h), {pong})
  BY Zenon DEF ReceiveUnreliable
<1>4. \A z \in {pong} : Backed(z)
  <2>1. e[2] \in Clients
    BY EndFacts
  <2> QED BY <2>1, SentBacked
<1> HIDE DEF h, ha, pong
<1>5. /\ hp \in Heap /\ Same(hp, h)
      /\ CountUnrel(h) \in Heap /\ Same(CountUnrel(h), h)
  BY <1>2, HeapWithNat, UnrelType, SameFields
<1>6. Same(hp, g) /\ Same(CountUnrel(h), g)
  BY <1>2, <1>5 DEF Same
<1>7. \A z \in {} : Backed(z)
  OBVIOUS
<1> HIDE DEF hp
<1>8. CASE Visit(e, hp, {}) \/ Visit(e, h, {}) \/ Visit(e, CountUnrel(h), {pong})
  <2> USE DEF g
  <2>1. CASE Visit(e, hp, {})
    BY <1>1, <1>5, <1>6, <1>7, <2>1, VisitBack
  <2>2. CASE Visit(e, h, {})
    BY <1>1, <1>2, <1>7, <2>2, VisitBack
  <2>3. CASE Visit(e, CountUnrel(h), {pong})
    BY <1>1, <1>4, <1>5, <1>6, <2>3, VisitBack
  <2> QED BY <1>8, <2>1, <2>2, <2>3
<1>9. CASE d.cmd = "Ack" /\ Visit(e, ha, {})
  <2>1. ha \in Heap
    BY <1>1, <1>2, AcknowledgedType DEF ha
  <2>2. /\ ha.in_queue = g.in_queue /\ ha.last_recv_rel = g.last_recv_rel
        /\ ha.delivered = g.delivered
    BY <1>1, <1>2, AckLeavesReceived DEF ha, Same
  <2>3. ASSUME NEW c \in Clients, e = ClientEnd(c) PROVE ReturnInv'
    <3>1. ha.in_queue = << >> /\ Served(ha)
      BY <1>1, <2>2, <2>3, ClientHears DEF Served
    <3> QED BY <1>1, <1>7, <1>9, <2>1, <2>2, <2>3, <3>1, VisitAtClient
  <2>4. ASSUME NEW c \in Clients, e = ServerEnd(c) PROVE ReturnInv'
    <3>1. /\ session[c] \in Nat /\ session[c] >= 1 /\ session[c] <= session'[c]
          /\ Numbered(g, pushed[e], session[c]) /\ pushed[e] \in Nat
          /\ \A n \in 1 .. pushed[e] - Len(g.out_queue) : Has(c, n)
          /\ session[c] = 1 => CaughtUp(g, given[e]) /\ Served(g)
      BY <1>1, <2>4, ServerSends, Numbers
    <3>2. Has(c, d.num)
      BY <1>1, <1>9, <2>4 DEF ReturnInv, Backed
    <3>3. Numbered(h, pushed[e], session[c]) /\ h.out_queue = g.out_queue
      BY <1>2, <3>1 DEF Numbered, Same
    <3>4. /\ Numbered(ha, pushed[e], session[c])
          /\ \A n \in 1 .. pushed[e] - Len(ha.out_queue) : Has(c, n)
      BY <1>1, <1>2, <3>1, <3>2, <3>3, AcknowledgedNumbered DEF ha
    <3>5. session'[c] = 1 =>
             /\ Served(ha)
             /\ ha.in_queue # << >> => Head(ha.in_queue).num = Head(ha.in_queue).seq_no
             /\ \A i \in Nat : <<1, i>> \in given[e] => i <= ha.last_recv_rel
      BY <1>1, <2>2, <3>1 DEF CaughtUp, Served
    <3> QED BY <1>1, <1>7, <1>9, <2>1, <2>4, <3>1, <3>4, <3>5, VisitAtServer
  <2> QED BY <2>3, <2>4, EndFacts
<1> QED BY <1>3, <1>8, <1>9

LEMMA AcceptLoginBack ==
    ASSUME TypeOK, TypeOK', StreamInv, ReturnInv, NEW c \in Clients, NEW d \in net, AcceptLogin(c, d)
    PROVE  ReturnInv'
<1> DEFINE e == ServerEnd(c)
<1>1. /\ d.to = e /\ d.cmd = "Login" /\ ~Alive(e) /\ Enqueue(e, NewHeap, d)
      /\ session' = [session EXCEPT ![c] = @ + 1] /\ pushed' = [pushed EXCEPT ![e] = 0]
  BY DEF AcceptLogin
<1>2. d \in Datagram /\ d.cmd \in ReliableCmds /\ d.reliable
  BY <1>1, DatagramFields DEF TypeOK, ReliableCmds
<1>3. /\ session[c] \in Nat /\ session'[c] = session[c] + 1 /\ pushed'[e] = 0
      /\ \A k \in Clients \ {c} :
            session'[k] = session[k] /\ pushed'[ServerEnd(k)] = pushed[ServerEnd(k)]
  <2>1. e \in Ends /\ \A k \in Clients \ {c} : ServerEnd(k) \in Ends /\ ServerEnd(k) # e
    BY EndFacts DEF ServerEnd
  <2> HIDE DEF e
  <2> QED BY <1>1, <2>1 DEF TypeOK
<1>4. session[c] <= session'[c] /\ session'[c] >= 1
  BY <1>3
<1>5. PICK x \in Heap :
             /\ Visit(e, x, {})
             /\ x.last_send_rel = NewHeap.last_send_rel /\ x.last_recv_rel = NewHeap.last_recv_rel
             /\ x.out_queue = NewHeap.out_queue /\ x.delivered = NewHeap.delivered
             /\ NewHeap.in_queue = << >> =>
                  /\ x.in_queue # << >> /\ Tail(x.in_queue) = << >>
                  /\ Head(x.in_queue) = AsQueued(d)
  BY <1>1, <1>2, NewHeapType, EndFacts, EnqueuedIs
<1>6. /\ x.last_send_rel = 0 /\ x.last_recv_rel = 0 /\ x.out_queue = << >> /\ Len(x.out_queue) = 0
      /\ x.in_queue # << >> /\ Tail(x.in_queue) = << >> /\ Head(x.in_queue) = AsQueued(d)
  BY <1>5 DEF NewHeap
<1>7. Numbered(x, pushed'[e], session'[c]) /\ \A n \in 1 .. pushed'[e] - Len(x.out_queue) : Has(c, n)
  <2>1. 1 .. 0 = {} /\ 0 - 0 = 0
    OBVIOUS
  <2> HIDE DEF e
  <2> QED BY <1>3, <1>6, <2>1 DEF Numbered
<1>8. Genuine(d, pushed[ClientEnd(c)])
  BY <1>1, <1>2 DEF StreamInv, NetInv, Harmless
<1>9. AsQueued(d).seq_no = 1 /\ AsQueued(d).num = 1
  BY <1>1, <1>8 DEF AsQueued, Genuine
<1>10. Served(x)
  BY <1>6, <1>9 DEF Served, Ready
<1>11. session'[c] = 1 =>
             /\ Served(x)
             /\ x.in_queue # << >> => Head(x.in_queue).num = Head(x.in_queue).seq_no
             /\ \A i \in Nat : <<1, i>> \in given[e] => i <= x.last_recv_rel
  <2>1. session'[c] = 1 => given[e] = {}
    BY <1>3 DEF ReturnInv, FirstSession
  <2> QED BY <1>6, <1>9, <1>10, <2>1
<1>12. \A z \in {} : Backed(z)
  OBVIOUS
<1> QED BY <1>3, <1>4, <1>5, <1>7, <1>11, <1>12, VisitAtServer

LEMMA SameOrderly ==
    ASSUME NEW h, NEW x, NEW s, NEW g, Same(x, h), InSequence(h, s, g)
    PROVE  InSequence(x, s, g)
<1>1. x.in_queue = h.in_queue /\ x.delivered = h.delivered /\ x.last_recv_rel = h.last_recv_rel
  BY DEF Same
<1> QED BY <1>1 DEF InSequence

(* A step that changes of one heap nothing the streams depend on, ...      *)
LEMMA KeepBack ==
    ASSUME TypeOK, TypeOK', ReturnInv, NEW e \in Ends, Alive(e),
           NEW x \in Heap, NEW out, Same(x, heap[e]),
           heap' = [heap EXCEPT ![e] = x], net' = net \cup out,
           \A d \in out : Backed(d), UNCHANGED <<session, pushed, given>>
    PROVE  ReturnInv'
<1>1. ASSUME NEW c \in Clients, e = ClientEnd(c) PROVE ReturnInv'
  <2>1. InSequence(x, session[c], given[e]) /\ x.last_recv_rel \in Nat
    <3>1. InSequence(heap[e], session[c], given[e])
      BY <1>1, ClientHears
    <3> QED BY <3>1, SameOrderly, HeapFields
  <2>2. /\ heap[e].last_recv_rel <= x.last_recv_rel
        /\ \A i \in 1 .. heap[e].last_recv_rel : x.delivered[i] = heap[e].delivered[i]
        /\ InSequence(x, session[c], given'[e])
    BY <2>1 DEF Same
  <2> QED BY <1>1, <2>2, AtClient
<1>2. ASSUME NEW c \in Clients, e = ServerEnd(c) PROVE ReturnInv'
  <2>1. /\ session'[c] >= 1 /\ session[c] <= session'[c] /\ session'[c] # 0
        /\ Numbered(x, pushed'[e], session'[c])
        /\ \A n \in 1 .. pushed'[e] - Len(x.out_queue) : Has(c, n)
        /\ session'[c] = 1 => CaughtUp(x, given'[e])
    BY <1>2, ServerSends DEF Same, Numbered, CaughtUp
  <2> QED BY <1>2, <2>1, AtServer
<1> QED BY <1>1, <1>2, EndFacts

(* ... one in which a heap goes, and one that only sends.                  *)
LEMMA DropBack ==
    ASSUME TypeOK, TypeOK', ReturnInv, NEW e \in Ends, NEW out,
           heap' = [heap EXCEPT ![e] = NoHeap], net' = net \cup out,
           \A d \in out : Backed(d), UNCHANGED <<session, pushed, given>>
    PROVE  ReturnInv'
<1>1. ASSUME NEW c \in Clients, e = ClientEnd(c) PROVE ReturnInv'
  BY <1>1, AtClient
<1>2. ASSUME NEW c \in Clients, e = ServerEnd(c) PROVE ReturnInv'
  <2>1. session[c] <= session'[c] /\ (session'[c] = 0 => given'[e] = {})
    BY <1>2, Numbers DEF ReturnInv, FirstSession
  <2> QED BY <1>2, <2>1, AtServer
<1> QED BY <1>1, <1>2, EndFacts

LEMMA PushBack ==
    ASSUME TypeOK, TypeOK', ReturnInv, NEW e \in Ends, NEW cmd \in ReliableCmds, PushReliable(e, cmd)
    PROVE  ReturnInv'
<1> DEFINE h == heap[e]
           x == Pushed(e, h, cmd)
           out == {}
<1>1. /\ Alive(e) /\ h \in Heap /\ x \in Heap
      /\ heap' = [heap EXCEPT ![e] = x] /\ pushed' = [pushed EXCEPT ![e] = @ + 1]
      /\ net' = net \cup out /\ session' = session /\ given' = given
      /\ \A d \in out : Backed(d)
  BY AliveHeap, PushedType DEF PushReliable
<1>2. x.in_queue = h.in_queue /\ x.last_recv_rel = h.last_recv_rel /\ x.delivered = h.delivered
  BY <1>1, PushedFields
<1> HIDE DEF out
<1>3. ASSUME NEW c \in Clients, e = ClientEnd(c) PROVE ReturnInv'
  <2>1. \A k \in Clients : pushed'[ServerEnd(k)] = pushed[ServerEnd(k)]
    BY <1>1, <1>3, EndFacts DEF TypeOK
  <2>2. /\ h.last_recv_rel <= x.last_recv_rel
        /\ \A i \in 1 .. h.last_recv_rel : x.delivered[i] = h.delivered[i]
        /\ InSequence(x, session[c], given'[e])
    <3> HIDE DEF x
    <3> QED BY SMTT(30), <1>1, <1>2, <1>3, ClientHears DEF InSequence
  <2> HIDE DEF x
  <2> QED BY <1>1, <1>3, <2>1, <2>2, AtClient
<1>4. ASSUME NEW c \in Clients, e = ServerEnd(c) PROVE ReturnInv'
  <2> DEFINE n == pushed[e]
             l == Len(h.out_queue)
             s == session[c]
             q == h.out_queue
             r == x.out_queue
  <2>1. /\ s \in Nat /\ s >= 1 /\ n \in Nat /\ l \in Nat /\ Numbered(h, n, s)
        /\ \A k \in 1 .. n - l : Has(c, k)
        /\ s = 1 => CaughtUp(h, given[e])
    BY <1>1, <1>4, ServerSends, HeapFields, Numbers
  <2>2. /\ pushed'[e] = n + 1
        /\ \A k \in Clients \ {c} : pushed'[ServerEnd(k)] = pushed[ServerEnd(k)]
    <3>1. \A k \in Clients \ {c} : ServerEnd(k) \in Ends /\ ServerEnd(k) # e
      BY <1>4, EndFacts DEF ServerEnd
    <3> QED BY <1>1, <3>1 DEF TypeOK
  <2>3. SessionOf(e) = s
    BY <1>4 DEF SessionOf, ServerEnd
  <2>4. h.last_send_rel = n /\ l <= n
        /\ \A i \in 1 .. l : q[i].num = n - l + i /\ q[i].seq_no = q[i].num /\ q[i].sess = s
    BY <2>1 DEF Numbered
  <2>5. x.last_send_rel = n + 1
    BY <1>1, <2>4 DEF Pushed, Heap
  <2>6. /\ Len(r) = l + 1
        /\ \A i \in 1 .. l : r[i] = q[i]
        /\ r[l + 1].num = n + 1 /\ r[l + 1].seq_no = n + 1 /\ r[l + 1].sess = s
    <3> DEFINE m == [seq_no |-> h.last_send_rel + 1, cmd |-> cmd,
                     num |-> pushed[e] + 1, sess |-> SessionOf(e)]
    <3>1. /\ Len(r) = l + 1
          /\ \A i \in 1 .. l : r[i] = q[i]
          /\ r[l + 1] = m
      BY <1>1, PushedType
    <3>2. m.num = n + 1 /\ m.seq_no = n + 1 /\ m.sess = s
      BY <2>3, <2>4
    <3> QED BY <3>1, <3>2
  <2> HIDE DEF r, q, l, n, x, s
  <2>7. \A i \in 1 .. Len(r) :
          r[i].num = (n + 1) - Len(r) + i /\ r[i].seq_no = r[i].num /\ r[i].sess = s
    <3> TAKE i \in 1 .. Len(r)
    <3>1. CASE i = l + 1
      BY <2>1, <2>6, <3>1
    <3>2. CASE i \in 1 .. l
      BY SMTT(30), <2>1, <2>4, <2>6, <3>2
    <3> QED BY <2>1, <2>6, <3>1, <3>2
  <2>8. Numbered(x, n + 1, s)
    BY <2>1, <2>4, <2>5, <2>6, <2>7 DEF Numbered, r
  <2>9. (n + 1) - Len(r) = n - l
    BY <2>1, <2>6
  <2>10. \A k \in 1 .. (n + 1) - Len(x.out_queue) : Has(c, k)
    BY <2>1, <2>9 DEF r
  <2>11. /\ session[c] <= session'[c] /\ session'[c] >= 1 /\ session'[c] # 0
         /\ Numbered(x, pushed'[e], session'[c])
         /\ \A k \in 1 .. pushed'[e] - Len(x.out_queue) : Has(c, k)
    BY <1>1, <2>1, <2>2, <2>8, <2>10 DEF s
  <2>12. session'[c] = 1 => CaughtUp(x, given'[e])
    BY <1>1, <1>2, <2>1 DEF CaughtUp, s
  <2>13. /\ given[e] \subseteq given'[e]
         /\ \A k \in Clients \ {c} : session'[k] = session[k]
         /\ \A z \in Ends : given'[z] = given[z]
    BY <1>1
  <2> QED BY <1>1, <1>4, <2>2, <2>11, <2>12, <2>13, AtServer
<1> QED BY <1>3, <1>4, EndFacts

LEMMA ResendBack ==
    ASSUME TypeOK, TypeOK', StreamInv, ReturnInv, NEW e \in Ends, Resend(e)
    PROVE  ReturnInv'
<1> DEFINE h == heap[e]
           n == h.resends + 1
           m == Due(h)
<1>1. h \in Heap /\ Alive(e) /\ h.out_queue # << >> /\ Len(h.out_queue) \in Nat
  BY AliveHeap, HeapFields DEF Resend
<1>2. CASE n > MaxResends
  <2> DEFINE out == {}
  <2>1. /\ heap' = [heap EXCEPT ![e] = NoHeap] /\ net' = net \cup out
        /\ (\A d \in out : Backed(d)) /\ UNCHANGED <<session, pushed, given>>
    BY <1>2 DEF Resend, Kill
  <2> HIDE DEF out
  <2> QED BY <2>1, DropBack
<1>3. CASE ~(n > MaxResends)
  <2>1. /\ heap' = [heap EXCEPT ![e] = [h EXCEPT !.resends = n]]
        /\ net' = net \cup {Reliable(e, m)}
        /\ UNCHANGED <<session, pushed, given>>
    BY <1>3 DEF Resend
  <2>2. m \in QueueMessage /\ m = h.out_queue[1] /\ 1 \in 1 .. Len(h.out_queue)
    BY <1>1, QueueTail DEF Due
  <2>3. n \in Nat
    BY <1>1, HeapFields
  <2>4. ASSUME NEW c \in Clients, e = ClientEnd(c) PROVE Backed(Reliable(e, m))
    <3>1. /\ m.num = pushed[e] - Len(h.out_queue) + 1 /\ pushed[e] \in Nat
          /\ \A i \in 1 .. pushed[e] - Len(h.out_queue) : <<1, i>> \in given[ServerEnd(c)]
      BY <1>1, <2>2, <2>4, ClientHeap DEF SentInv, AckedInv
    <3>2. m.num - 1 = pushed[e] - Len(h.out_queue)
      BY <1>1, <3>1
    <3>3. InClientsTurn(c, m)
      BY <3>1, <3>2 DEF InClientsTurn
    <3> QED BY <2>2, <2>4, <3>3, ReliableBacked
  <2>5. ASSUME NEW c \in Clients, e = ServerEnd(c) PROVE Backed(Reliable(e, m))
    <3> DEFINE k == pushed[e] - Len(h.out_queue)
               l == Len(h.out_queue)
    <3>1. /\ m.num = pushed[e] - l + 1 /\ m.seq_no = m.num /\ m.sess = session[c]
          /\ l <= pushed[e] /\ session[c] \in Nat /\ session[c] >= 1
          /\ \A i \in 1 .. k : Has(c, i)
      <4>1. Numbered(h, pushed[e], session[c])
        BY <1>1, <2>5, ServerSends
      <4> QED BY <1>1, <2>2, <2>5, <4>1, ServerSends DEF Numbered
    <3>2. pushed[e] \in Nat
      BY DEF TypeOK
    <3>3. k \in Nat /\ m.num = k + 1 /\ m.num - 1 = k
      BY <1>1, <3>1, <3>2
    <3> HIDE DEF k
    <3>4. ASSUME Alive(ClientEnd(c))
          PROVE  /\ m.num - 1 <= heap[ClientEnd(c)].last_recv_rel
                 /\ \A i \in 1 .. m.num - 1 : heap[ClientEnd(c)].delivered[i][1] <= m.sess
      <4>1. /\ InSequence(heap[ClientEnd(c)], session[c], given[ClientEnd(c)])
            /\ heap[ClientEnd(c)].last_recv_rel \in Nat
        BY <3>4, ClientHears
      <4>2. k <= heap[ClientEnd(c)].last_recv_rel
        <5>1. CASE k = 0
          BY <4>1, <5>1
        <5>2. CASE k # 0
          <6>1. k \in 1 .. k
            BY <3>3, <5>2
          <6> QED BY <3>1, <3>4, <6>1 DEF Has
        <5> QED BY <5>1, <5>2
      <4>3. \A i \in 1 .. k : heap[ClientEnd(c)].delivered[i][1] \in 1 .. session[c]
        <5>1. \A i \in 1 .. k : i \in 1 .. heap[ClientEnd(c)].last_recv_rel
          BY <3>3, <4>1, <4>2
        <5> QED BY <4>1, <5>1 DEF InSequence
      <4> QED BY <3>1, <3>3, <4>2, <4>3
    <3>5. InTurn(c, m)
      <4>1. m.num >= 1 /\ m.sess \in 1 .. session[c]
        BY <3>1, <3>3
      <4> QED BY <3>1, <3>4, <4>1 DEF InTurn
    <3> QED BY <2>2, <2>5, <3>5, ReliableBacked
  <2> HIDE DEF h, m, n
  <2>6. [h EXCEPT !.resends = n] \in Heap /\ Same([h EXCEPT !.resends = n], h)
    BY <1>1, <2>3, HeapWithNat, SameFields
  <2> DEFINE out == {Reliable(e, m)}
  <2>7. (\A d \in out : Backed(d)) /\ net' = net \cup out
    BY <2>1, <2>4, <2>5, EndFacts
  <2> HIDE DEF out
  <2> QED BY <1>1, <2>1, <2>6, <2>7, KeepBack DEF h
<1> QED BY <1>2, <1>3

LEMMA PingBack ==
    ASSUME TypeOK, TypeOK', ReturnInv, NEW e \in Ends, Ping(e)
    PROVE  ReturnInv'
<1> DEFINE h == heap[e]
           ping == {Unreliable(e, h, "Ping", 0)}
<1>1. h \in Heap /\ Alive(e)
  BY AliveHeap DEF Ping
<1>2. \A d \in ping : Backed(d)
  <2>1. e[2] \in Clients
    BY EndFacts
  <2> QED BY <2>1, SentBacked
<1>3. \/ Kill(e, ping)
      \/ /\ heap' = [heap EXCEPT ![e] = Pinged(h)]
         /\ net' = net \cup ping
         /\ UNCHANGED <<phase, players, session, pushed, given>>
  BY Zenon DEF Ping
<1>4. Same(Pinged(h), h) /\ Pinged(h) \in Heap
  <2>1. CountUnrel(h) \in Heap /\ h.sent_pings + 1 \in Nat
    BY <1>1, UnrelType, HeapFields
  <2> QED BY <1>1, <2>1, SameFields, HeapWithNat DEF Pinged
<1> HIDE DEF ping
<1> QED BY <1>1, <1>2, <1>3, <1>4, DropBack, KeepBack DEF Kill

LEMMA ReturnApplication ==
    ASSUME TypeOK, TypeOK', ReturnInv, Application
    PROVE  ReturnInv'
<1>1. {"Login", "Logout", "Data"} = ReliableCmds
  BY DEF ReliableCmds
<1>2. ASSUME NEW e \in Ends, PushData(e) PROVE ReturnInv'
  BY <1>1, <1>2, PushBack DEF PushData
<1>3. ASSUME NEW c \in Clients, Login(c) \/ Logout(c) PROVE ReturnInv'
  BY <1>1, <1>3, PushBack, EndFacts DEF Login, Logout
<1>4. ASSUME NEW e \in Ends, PushState(e) PROVE ReturnInv'
  <2> DEFINE out == {Unreliable(e, heap[e], "State", 0)}
  <2>1. /\ heap' = [heap EXCEPT ![e] = CountUnrel(heap[e])] /\ net' = net \cup out /\ Alive(e)
        /\ UNCHANGED <<session, pushed, given>>
    BY <1>4 DEF PushState
  <2>2. CountUnrel(heap[e]) \in Heap /\ Same(CountUnrel(heap[e]), heap[e])
    BY <2>1, AliveHeap, UnrelType, SameFields
  <2>3. \A d \in out : Backed(d)
    <3>1. e[2] \in Clients
      BY EndFacts
    <3> QED BY <3>1, SentBacked
  <2> HIDE DEF out
  <2> QED BY <2>1, <2>2, <2>3, KeepBack
<1>5. ASSUME NEW c \in Clients, Kick(c) PROVE ReturnInv'
  <2> DEFINE e == ServerEnd(c)
             x == [heap[e] EXCEPT !.deferred_kill = TRUE]
             out == {}
  <2>1. /\ e \in Ends /\ Alive(e) /\ heap[e] \in Heap
        /\ heap' = [heap EXCEPT ![e] = x] /\ net' = net \cup out
        /\ (\A d \in out : Backed(d)) /\ UNCHANGED <<session, pushed, given>>
    BY <1>5, EndFacts, AliveHeap DEF Kick
  <2>2. x \in Heap /\ Same(x, heap[e])
    <3>1. x \in Heap
      BY <2>1 DEF Heap
    <3> QED BY <2>1, <3>1, SameFields
  <2> HIDE DEF e, x, out
  <2> QED BY <2>1, <2>2, KeepBack
<1>6. ASSUME NEW c \in Clients, Stop(c) \/ Crash(c) PROVE ReturnInv'
  <2> DEFINE out == {}
  <2>1. /\ heap' = [heap EXCEPT ![ClientEnd(c)] = NoHeap] /\ net' = net \cup out
        /\ (\A d \in out : Backed(d)) /\ UNCHANGED <<session, pushed, given>>
    BY <1>6 DEF Stop, Crash
  <2> HIDE DEF out
  <2> QED BY <2>1, EndFacts, DropBack
<1> QED BY <1>2, <1>3, <1>4, <1>5, <1>6 DEF Application

LEMMA ReturnCycle ==
    ASSUME TypeOK, TypeOK', StreamInv, ReturnInv, Cycle
    PROVE  ReturnInv'
<1>1. ASSUME NEW e \in Ends, NEW d \in net, ReceiveReliable(e, d) PROVE ReturnInv'
  BY <1>1, EnqueueBack, AckAgainBack DEF ReceiveReliable
<1>2. ASSUME NEW e \in Ends, VisitOnly(e) PROVE ReturnInv'
  <2>1. Alive(e) /\ heap[e] \in Heap /\ Same(heap[e], heap[e]) /\ \A d \in {} : Backed(d)
    BY <1>2, AliveHeap DEF VisitOnly, Same
  <2> QED BY <1>2, <2>1, VisitBack DEF VisitOnly
<1>3. ASSUME NEW c \in Clients, NEW d \in net, RefuseLogin(c, d) PROVE ReturnInv'
  <2>1. PICK cmd \in Refusals : net' = net \cup {Refusal(c, cmd)}
    BY <1>3 DEF RefuseLogin, Refusals
  <2> DEFINE out == {Refusal(c, cmd)}
  <2>2. (\A z \in out : Backed(z)) /\ net' = net \cup out
    BY <2>1, SentBacked
  <2>3. ~Alive(ServerEnd(c)) /\ UNCHANGED <<heap, session, pushed, given>>
    BY <1>3 DEF RefuseLogin
  <2>4. heap' = [heap EXCEPT ![ServerEnd(c)] = NoHeap]
    BY <2>3, EndFacts DEF TypeOK, Alive
  <2> HIDE DEF out
  <2> QED BY <2>2, <2>3, <2>4, EndFacts, DropBack
<1>4. ASSUME NEW c \in Clients, NEW d \in net, ReceiveRefusal(c, d) PROVE ReturnInv'
  <2> DEFINE out == {}
  <2>1. /\ heap' = [heap EXCEPT ![ClientEnd(c)] = NoHeap] /\ net' = net \cup out
        /\ (\A z \in out : Backed(z)) /\ UNCHANGED <<session, pushed, given>>
    BY <1>4 DEF ReceiveRefusal
  <2> HIDE DEF out
  <2> QED BY <2>1, EndFacts, DropBack
<1> QED BY <1>1, <1>2, <1>3, <1>4, ResendBack, PingBack, UnreliableBack, AcceptLoginBack DEF Cycle

LEMMA ReturnStutter ==
    ASSUME ReturnInv, UNCHANGED vars
    PROVE  ReturnInv'
BY DEF ReturnInv, SendsBack, HearsBack, FirstSession, Backed, Has, InTurn, InClientsTurn, Alive, vars

LEMMA ReturnInit == Init => ReturnInv
<1> SUFFICES ASSUME Init PROVE ReturnInv
  OBVIOUS
<1>1. \A c \in Clients : /\ heap[ClientEnd(c)] = NewHeap /\ heap[ServerEnd(c)] = NoHeap
                         /\ session[c] = 0 /\ given[ServerEnd(c)] = {}
  BY EndFacts DEF Init, ClientEnd, ServerEnd
<1>2. /\ NewHeap.in_queue = << >> /\ NewHeap.last_recv_rel = 0 /\ NewHeap.delivered = << >>
      /\ Len(NewHeap.delivered) = 0 /\ 1 .. 0 = {}
  BY DEF NewHeap
<1>3. \A s, g : InSequence(NewHeap, s, g)
  BY <1>2 DEF InSequence
<1>4. net = {}
  BY DEF Init
<1> QED BY <1>1, <1>3, <1>4 DEF ReturnInv, SendsBack, HearsBack, FirstSession, Alive

-----------------------------------------------------------------------------
(* The invariant of the way back: cycle() sends the head of an out_queue   *)
(* only, and a head leaves it only for the acknowledgement of its number.  *)
THEOREM ReturnCorrect == Spec => []ReturnInv
<1>1. TypeOK /\ TypeOK' /\ StreamInv /\ ReturnInv /\ [Next]_vars => ReturnInv'
  BY ReturnCycle, ReturnApplication, ReturnStutter DEF Next
<1> QED BY <1>1, ReturnInit, TypeCorrect, StreamCorrect, PTL DEF Spec

(* However datagrams are lost, repeated and reordered, event_data gives    *)
(* the client application every number once and in order, never a message  *)
(* of an earlier session after one of a later; and what the server's       *)
(* out_queue has let go in its first session had been delivered.           *)
THEOREM ServerStreamCorrect == Spec => []ServerStreamSound
<1>1. TypeOK /\ ReturnInv => ServerStreamSound
  <2> SUFFICES ASSUME TypeOK, ReturnInv PROVE ServerStreamSound
    OBVIOUS
  <2>1. ServerStreamInOrder
    <3> SUFFICES ASSUME NEW c \in Clients, Alive(ClientEnd(c))
                 PROVE  LET recvd == heap[ClientEnd(c)].delivered IN
                        /\ \A i \in DOMAIN recvd : recvd[i][2] = i
                        /\ \A i, j \in DOMAIN recvd : i < j => recvd[i][1] <= recvd[j][1]
      BY DEF ServerStreamInOrder
    <3> DEFINE h == heap[ClientEnd(c)]
               n == h.last_recv_rel
    <3>1. InSequence(h, session[c], given[ClientEnd(c)]) /\ h \in Heap /\ n \in Nat
      BY ClientHears, AliveHeap, EndFacts
    <3>2. DOMAIN h.delivered = 1 .. n
      BY <3>1, HeapFields DEF InSequence
    <3>3. /\ \A i \in 1 .. n : h.delivered[i][2] = i
          /\ \A i \in 1 .. n : \A j \in i .. n : h.delivered[i][1] <= h.delivered[j][1]
      BY <3>1 DEF InSequence
    <3> HIDE DEF n
    <3> QED BY <3>1, <3>2, <3>3
  <2>2. AckedByClientIsDelivered
    <3> SUFFICES ASSUME NEW c \in Clients, Alive(ServerEnd(c)), session[c] = 1,
                        NEW k \in Confirmed(ServerEnd(c))
                 PROVE  <<1, k>> \in given[ClientEnd(c)]
      BY DEF AckedByClientIsDelivered
    <3>1. Has(c, k)
      BY DEF ReturnInv, SendsBack, Confirmed
    <3> QED BY <3>1 DEF Has
  <2> QED BY <2>1, <2>2 DEF ServerStreamSound
<1> QED BY <1>1, ReturnCorrect, TypeCorrect, PTL

(* cycle() hands over one message of in_queue a visit, and that is enough: *)
(* between two visits nothing waits, so no queue can be blocked.           *)
THEOREM DrainedCorrect == Spec => []InQueueDrained
<1>1. TypeOK /\ ReturnInv => InQueueDrained
  <2> SUFFICES ASSUME TypeOK, ReturnInv, NEW e \in Ends, Alive(e), session[e[2]] <= 1
               PROVE  heap[e].in_queue = << >>
    BY DEF InQueueDrained
  <2>1. ASSUME NEW c \in Clients, e = ClientEnd(c) PROVE heap[e].in_queue = << >>
    BY <2>1, ClientHears DEF InSequence
  <2>2. ASSUME NEW c \in Clients, e = ServerEnd(c) PROVE heap[e].in_queue = << >>
    <3>1. session[c] \in Nat /\ session[c] <= 1
      BY <2>2, Numbers DEF ServerEnd
    <3>2. session[c] # 0 /\ (session[c] = 1 => CaughtUp(heap[e], given[e]))
      BY <2>2 DEF ReturnInv, FirstSession
    <3> QED BY <3>1, <3>2 DEF CaughtUp
  <2> QED BY <2>1, <2>2, EndFacts
<1> QED BY <1>1, ReturnCorrect, TypeCorrect, PTL

-----------------------------------------------------------------------------
(***************************************************************************)
(* The buffer of ClientServer.  Unless a frame's packets are sent through  *)
(* it while others are still stacked (see PacketsArriveWhole), what every  *)
(* packet becomes on the other side is what was stacked, and it fits the   *)
(* receiver's buffer.                                                      *)
(***************************************************************************)

-----------------------------------------------------------------------------
(* The reader.  What it reads from each place on, if every place leads to  *)
(* a later one, is a function that exists: it is built from the end of the *)
(* buffer.                                                                 *)

Follows(f, o, on, hd, nx) == f[o] = IF o \in on THEN <<hd[o]>> \o f[nx[o]] ELSE <<hd[o]>>

LEMMA FromExists ==
    ASSUME NEW n \in Nat, NEW hd \in [0 .. n -> Nat], NEW nx \in [0 .. n -> Nat],
           NEW on \in SUBSET (0 .. n), \A o \in on : nx[o] > o /\ nx[o] <= n
    PROVE  \E f \in [0 .. n -> Seq(Nat)] : \A o \in 0 .. n : Follows(f, o, on, hd, nx)
<1> DEFINE LastOf(m) == n + 1 - m .. n
           Good(f, m) == f \in [LastOf(m) -> Seq(Nat)] /\ \A o \in LastOf(m) : Follows(f, o, on, hd, nx)
           bad == {m \in 0 .. n + 1 : ~ \E f : Good(f, m)}
<1>1. CASE bad # {}
  <2>1. PICK m \in bad : \A k \in bad : m <= k
    <3>1. bad \in SUBSET Nat
      OBVIOUS
    <3> QED BY <1>1, <3>1, LeastExists
  <2>2. m \in 0 .. n + 1
    BY <2>1
  <2>3. CASE m = 0
    <3> DEFINE f == [o \in LastOf(0) |-> << >>]
    <3>1. LastOf(0) = {}
      OBVIOUS
    <3>2. Good(f, 0)
      <4>1. \A o \in LastOf(0) : FALSE
        BY <3>1
      <4>2. f \in [LastOf(0) -> Seq(Nat)]
        BY <4>1
      <4> HIDE DEF f
      <4> QED BY <4>1, <4>2
    <3> QED BY <2>1, <2>3, <3>2
  <2>4. CASE m # 0
    <3>1. m - 1 \in 0 .. n + 1 /\ m - 1 \notin bad
      <4> HIDE DEF bad
      <4> QED BY <2>1, <2>2, <2>4
    <3>2. PICK f : Good(f, m - 1)
      <4> HIDE DEF Good
      <4> QED BY <3>1
    <3> DEFINE x == n + 1 - m
               v == IF x \in on THEN <<hd[x]>> \o f[nx[x]] ELSE <<hd[x]>>
               g == [o \in LastOf(m) |-> IF o = x THEN v ELSE f[o]]
    <3>3. x \in 0 .. n /\ x \in LastOf(m) /\ (\A o \in LastOf(m) : o # x => o \in LastOf(m - 1))
      BY <2>2, <2>4
    <3>4. \A o \in LastOf(m) : o \in on => nx[o] \in LastOf(m - 1) /\ nx[o] \in LastOf(m) /\ nx[o] # x
      BY <2>2, <2>4, SMTT(30)
    <3>5. v \in Seq(Nat)
      <4>1. <<hd[x]>> \in Seq(Nat)
        BY <3>3
      <4>2. x \in on => f[nx[x]] \in Seq(Nat)
        BY <3>2, <3>3, <3>4
      <4> QED BY <4>1, <4>2, ConcatProperties
    <3>6. \A o \in LastOf(m) : g[o] = IF o = x THEN v ELSE f[o]
      OBVIOUS
    <3>7. g \in [LastOf(m) -> Seq(Nat)]
      <4> HIDE DEF v
      <4> QED BY <3>2, <3>3, <3>5
    <3>8. ASSUME NEW o \in LastOf(m) PROVE Follows(g, o, on, hd, nx)
      <4>1. o \in on => g[nx[o]] = f[nx[o]]
        BY <3>4, <3>6
      <4>2. CASE o = x
        BY <3>6, <4>1, <4>2 DEF Follows
      <4>3. CASE o # x
        <5>1. Follows(f, o, on, hd, nx) /\ g[o] = f[o]
          BY <3>2, <3>3, <3>6, <4>3
        <5> HIDE DEF g
        <5> QED BY <4>1, <5>1 DEF Follows
      <4> QED BY <4>2, <4>3
    <3>9. Good(g, m)
      BY <3>7, <3>8
    <3> QED BY <2>1, <3>9
  <2> QED BY <2>3, <2>4
<1>2. CASE bad = {}
  <2>1. n + 1 \in 0 .. n + 1
    OBVIOUS
  <2>2. PICK f : Good(f, n + 1)
    BY <1>2, <2>1
  <2>3. LastOf(n + 1) = 0 .. n
    OBVIOUS
  <2> QED BY <2>2, <2>3
<1> QED BY <1>1, <1>2

Cell == [packet : Nat, size : 0 .. PacketMaxSize, more : BOOLEAN]

LEMMA SizeIs == PacketMaxSize \in Nat /\ Sizes \subseteq 1 .. PacketMaxSize
BY StackAssumption

(* What is read from each place of a buffer on.  *)
LEMMA ReadIs ==
    ASSUME NEW b \in [Offsets -> Cell]
    PROVE  \E f :
              /\ Read(b) = f[0]
              /\ \A o \in Offsets : b[o].size > 0 =>
                    f[o] = IF b[o].more THEN <<b[o].packet>> \o f[o + b[o].size] ELSE <<b[o].packet>>
<1> DEFINE n == 3 * PacketMaxSize
           Final(o) == o \notin Offsets \/ ~IsHeader(b[o])
           Body(g, o) == IF o \notin Offsets \/ ~IsHeader(b[o]) THEN <<0>>
                         ELSE <<b[o].packet>> \o (IF b[o].more THEN g[o + b[o].size] ELSE << >>)
           From[o \in 0 .. 3 * PacketMaxSize] ==
              IF o \notin Offsets \/ ~IsHeader(b[o]) THEN <<0>>
              ELSE <<b[o].packet>> \o (IF b[o].more THEN From[o + b[o].size] ELSE << >>)
           on == {o \in 0 .. n : o \in Offsets /\ IsHeader(b[o]) /\ b[o].more}
           hd == [o \in 0 .. n |-> IF Final(o) THEN 0 ELSE b[o].packet]
           nx == [o \in 0 .. n |-> IF Final(o) THEN 0 ELSE o + b[o].size]
<1>1. n \in Nat /\ Offsets \subseteq 0 .. n
  BY SizeIs DEF Offsets
<1>2. \A o \in Offsets : /\ b[o].packet \in Nat /\ b[o].size \in Nat /\ b[o].more \in BOOLEAN
                         /\ o + b[o].size \in 0 .. n
  BY SizeIs DEF Offsets, Cell
<1>3. hd \in [0 .. n -> Nat] /\ nx \in [0 .. n -> Nat]
  BY <1>1, <1>2
<1>4. \A o \in on : nx[o] > o /\ nx[o] <= n
  BY <1>1, <1>2 DEF IsHeader
<1>5. PICK f \in [0 .. n -> Seq(Nat)] : \A o \in 0 .. n : Follows(f, o, on, hd, nx)
  <2> HIDE DEF n, on, hd, nx
  <2> QED BY <1>1, <1>3, <1>4, FromExists DEF on
<1>6. \A o \in 0 .. n : f[o] = Body(f, o)
  <2> TAKE o \in 0 .. n
  <2>1. f[o] = IF o \in on THEN <<hd[o]>> \o f[nx[o]] ELSE <<hd[o]>>
    BY <1>5 DEF Follows
  <2>2. CASE Final(o)
    BY <2>1, <2>2
  <2>3. CASE ~Final(o)
    <3>1. hd[o] = b[o].packet /\ nx[o] = o + b[o].size
      BY <2>3
    <3>2. <<b[o].packet>> \o << >> = <<b[o].packet>>
      BY <1>2, <2>3, ConcatEmptySeq
    <3> QED BY <2>1, <2>3, <3>1, <3>2
  <2> QED BY <2>2, <2>3
<1>7. f = [o \in 0 .. n |-> Body(f, o)]
  BY <1>5, <1>6
<1>8. From = [o \in 0 .. n |-> Body(From, o)]
  <2>1. \E g : g = [o \in 0 .. n |-> Body(g, o)]
    BY <1>7
  <2> QED BY <2>1, Zenon
<1>9. Read(b) = From[0]
  BY DEF Read
<1>10. ASSUME NEW o \in Offsets, b[o].size > 0
       PROVE  From[o] = IF b[o].more THEN <<b[o].packet>> \o From[o + b[o].size] ELSE <<b[o].packet>>
  <2>1. From[o] = Body(From, o)
    BY <1>1, <1>8
  <2>2. <<b[o].packet>> \o << >> = <<b[o].packet>>
    BY <1>2, ConcatEmptySeq
  <2> HIDE DEF From
  <2> QED BY <1>10, <2>1, <2>2 DEF IsHeader
<1> HIDE DEF From
<1> QED BY <1>9, <1>10
-----------------------------------------------------------------------------
(* The packets that are stacked: C is the set of the places where one      *)
(* begins.                                                                 *)

Chain(b, at, len, C) ==
    /\ C \subseteq Offsets /\ 0 \in C /\ at \in C
    /\ \A o \in C : /\ o <= at /\ b[o].size > 0
                    /\ b[o].more <=> o # at
                    /\ o # at => o + b[o].size \in C
    /\ at + b[at].size = len

LEMMA WrittenIs ==
    ASSUME NEW b \in [Offsets -> Cell], NEW o \in Offsets, NEW n \in Nat,
           NEW size \in 1 .. PacketMaxSize
    PROVE  /\ Written(b, o, n, size) \in [Offsets -> Cell]
           /\ Written(b, o, n, size)[o] = Header(n, size)
           /\ \A p \in Offsets : p < o => Written(b, o, n, size)[p] = b[p]
<1>1. Header(n, size) \in Cell /\ Payload \in Cell
  BY SizeIs DEF Header, Payload, Cell
<1>2. o \in Nat
  BY SizeIs DEF Offsets
<1> QED BY <1>1, <1>2, SizeIs DEF Written, Offsets

LEMMA Associative ==
    ASSUME NEW x \in Nat, NEW s \in Seq(Nat), NEW n \in Nat
    PROVE  (<<x>> \o s) \o <<n>> = <<x>> \o (s \o <<n>>)
<1>1. <<x>> \in Seq(Nat) /\ <<n>> \in Seq(Nat)
  OBVIOUS
<1> DEFINE t == <<x>>
           u == <<n>>
<1> HIDE DEF t, u
<1>2. t \in Seq(Nat) /\ u \in Seq(Nat)
  BY <1>1 DEF t, u
<1>3. (t \o s) \o u = t \o (s \o u)
  BY <1>2, ConcatAssociative, SMTT(30)
<1> QED BY <1>3 DEF t, u

LEMMA AppendedBehind ==
    ASSUME NEW s \in Seq(Nat), NEW t \in Seq(Nat), NEW n \in Nat
    PROVE  Append(s \o t, n) = s \o Append(t, n)
<1>1. /\ s \o t \in Seq(Nat) /\ <<n>> \in Seq(Nat)
      /\ Append(s \o t, n) = (s \o t) \o <<n>> /\ Append(t, n) = t \o <<n>>
  <2>1. s \o t \in Seq(Nat)
    BY ConcatProperties
  <2>2. <<n>> \in Seq(Nat)
    OBVIOUS
  <2> QED BY <2>1, <2>2, AppendIsConcat, Zenon
<1> DEFINE u == <<n>>
<1> HIDE DEF u
<1>2. u \in Seq(Nat)
  BY <1>1 DEF u
<1>3. (s \o t) \o u = s \o (t \o u)
  BY <1>2, ConcatAssociative, SMTT(30)
<1> QED BY <1>1, <1>3 DEF u

(* A message of one packet.  *)
LEMMA ReadOne ==
    ASSUME NEW b \in [Offsets -> Cell], NEW n \in Nat, NEW size \in 1 .. PacketMaxSize
    PROVE  LET w == Written(b, 0, n, size)
           IN  w \in [Offsets -> Cell] /\ Chain(w, 0, size, {0}) /\ Read(w) = <<n>>
<1> DEFINE w == Written(b, 0, n, size)
<1>1. 0 \in Offsets
  BY SizeIs DEF Offsets
<1>2. w \in [Offsets -> Cell] /\ w[0] = Header(n, size)
  BY <1>1, WrittenIs
<1> HIDE DEF w
<1>3. w[0].size = size /\ w[0].packet = n /\ w[0].more = FALSE
  BY <1>2 DEF Header
<1>4. Chain(w, 0, size, {0})
  BY <1>1, <1>3, SizeIs DEF Chain
<1>5. Read(w) = <<n>>
  <2>1. PICK f : /\ Read(w) = f[0]
                 /\ \A o \in Offsets : w[o].size > 0 =>
                       f[o] = IF w[o].more THEN <<w[o].packet>> \o f[o + w[o].size] ELSE <<w[o].packet>>
    BY <1>2, ReadIs
  <2>2. w[0].size > 0
    BY <1>3
  <2> QED BY <1>1, <1>3, <2>1, <2>2, Zenon
<1> QED BY <1>2, <1>4, <1>5 DEF w

(* s is what t is with n at its end.  *)
Longer(s, t, n) == s = Append(t, n)

(* One packet more: the reader finds what it found before, and it.  *)
LEMMA ReadMore ==
    ASSUME NEW b \in [Offsets -> Cell], NEW at, NEW len, NEW C, Chain(b, at, len, C),
           len <= PacketMaxSize, NEW n \in Nat, NEW size \in 1 .. PacketMaxSize,
           NEW w, w = Written(Linked(b, at), len, n, size)
    PROVE  /\ w \in [Offsets -> Cell] /\ Chain(w, len, len + size, C \cup {len})
           /\ len \in Offsets
           /\ Read(b) \in Seq(Nat) /\ Longer(Read(w), Read(b), n)
<1> DEFINE l == Linked(b, at)
<1>1. /\ at \in Offsets /\ at \in Nat /\ at < len /\ len = at + b[at].size
      /\ len \in Offsets /\ len \in Nat /\ Offsets \subseteq Nat
      /\ \A o \in C : o \in Offsets /\ o <= at /\ o < len
  BY SMTT(30), SizeIs DEF Chain, Offsets, Cell
<1>2. /\ l \in [Offsets -> Cell]
      /\ \A o \in Offsets : /\ l[o].size = b[o].size /\ l[o].packet = b[o].packet
                            /\ l[o].more = (b[o].more \/ o = at)
  BY <1>1 DEF Linked, Cell
<1>3. w \in [Offsets -> Cell] /\ w[len] = Header(n, size) /\ \A o \in C : w[o] = l[o]
  <2>1. w = Written(l, len, n, size)
    OBVIOUS
  <2> HIDE DEF l
  <2>3. l \in [Offsets -> Cell] /\ len \in Offsets
    BY <1>1, <1>2
  <2>2. /\ w \in [Offsets -> Cell] /\ w[len] = Header(n, size)
        /\ \A o \in Offsets : o < len => w[o] = l[o]
    <3>1. /\ Written(l, len, n, size) \in [Offsets -> Cell]
          /\ Written(l, len, n, size)[len] = Header(n, size)
          /\ \A o \in Offsets : o < len => Written(l, len, n, size)[o] = l[o]
      BY <2>3, WrittenIs
    <3> QED BY <2>1, <3>1
  <2> QED BY <1>1, <2>2, Zenon
<1> HIDE DEF l
<1>4. w[len].size = size /\ w[len].packet = n /\ w[len].more = FALSE
  BY <1>3 DEF Header
<1>5. \A o \in C : w[o].size = b[o].size /\ w[o].packet = b[o].packet /\ w[o].more = TRUE
  BY <1>1, <1>2, <1>3 DEF Chain
<1>6. Chain(w, len, len + size, C \cup {len})
  <2>1. ASSUME NEW o \in C PROVE o + w[o].size \in C \cup {len}
    BY <1>1, <1>5 DEF Chain
  <2>2. \A o \in C \cup {len} : o <= len /\ w[o].size > 0 /\ (w[o].more <=> o # len)
    <3>1. ASSUME NEW o \in C PROVE o <= len /\ w[o].size > 0 /\ (w[o].more <=> o # len)
      <4>1. o < len /\ o \in Nat /\ len \in Nat
        BY <1>1
      <4>2. w[o].size > 0 /\ w[o].more
        BY <1>5 DEF Chain
      <4> QED BY <4>1, <4>2
    <3>2. len <= len /\ w[len].size > 0 /\ ~w[len].more
      BY <1>1, <1>4
    <3> QED BY <3>1, <3>2
  <2>3. C \cup {len} \subseteq Offsets /\ 0 \in C
    BY <1>1 DEF Chain
  <2> QED BY <1>4, <2>1, <2>2, <2>3 DEF Chain
<1>7. PICK f : /\ Read(b) = f[0]
               /\ \A o \in Offsets : b[o].size > 0 =>
                     f[o] = IF b[o].more THEN <<b[o].packet>> \o f[o + b[o].size] ELSE <<b[o].packet>>
  BY ReadIs
<1>8. PICK g : /\ Read(w) = g[0]
               /\ \A o \in Offsets : w[o].size > 0 =>
                     g[o] = IF w[o].more THEN <<w[o].packet>> \o g[o + w[o].size] ELSE <<w[o].packet>>
  BY <1>3, ReadIs
<1>9. g[len] = <<n>>
  <2>1. len \in Offsets /\ w[len].size > 0
    BY <1>1, <1>4
  <2> QED BY <1>4, <1>8, <2>1, Zenon
<1>10. \A o \in C : g[o] = <<b[o].packet>> \o g[o + b[o].size] /\ b[o].packet \in Nat
  <2> TAKE o \in C
  <2>1. o \in Offsets /\ w[o].size > 0 /\ w[o].more
    BY <1>1, <1>5 DEF Chain
  <2>2. g[o] = <<w[o].packet>> \o g[o + w[o].size]
    BY <1>8, <2>1, Zenon
  <2>3. w[o].packet = b[o].packet /\ w[o].size = b[o].size /\ b[o].packet \in Nat
    BY <1>5, <2>1 DEF Cell
  <2> QED BY <2>2, <2>3, Zenon
<1> DEFINE Fine(o) == f[o] \in Seq(Nat) /\ g[o] = f[o] \o <<n>>
           bad == {k \in Nat : \E o \in C : at - o = k /\ ~Fine(o)}
<1>11. CASE bad # {}
  <2>1. PICK k \in bad : \A j \in bad : k <= j
    BY <1>11, LeastExists
  <2>2. PICK o \in C : at - o = k /\ ~Fine(o)
    BY <2>1
  <2>3. CASE o = at
    <3>1. f[o] = <<b[o].packet>>
      BY <1>1, <1>7, <2>3 DEF Chain
    <3>2. g[o] = <<b[o].packet>> \o <<n>>
      <4>1. o + b[o].size = len
        BY <1>1, <2>3
      <4> QED BY <1>9, <1>10, <4>1, Zenon
    <3>3. <<b[o].packet>> \in Seq(Nat)
      <4>1. b[o].packet \in Nat
        BY <1>10
      <4> QED BY <4>1
    <3> QED BY <2>2, <3>1, <3>2, <3>3, Zenon
  <2>4. CASE o # at
    <3> DEFINE p == o + b[o].size
    <3>1. p \in C /\ b[o].more /\ b[o].size > 0 /\ b[o].size \in Nat
      BY <1>1, <2>4 DEF Chain, Cell
    <3>2. at - p \in Nat /\ at - p < k
      <4>1. o \in Nat /\ p \in Nat /\ p <= at /\ at \in Nat /\ o < p
        <5>1. o \in Nat /\ p \in Nat /\ p <= at /\ at \in Nat
          <6> HIDE DEF p
          <6>1. o \in Offsets /\ p \in Offsets /\ p <= at /\ at \in Nat
            BY <1>1, <3>1, Zenon
          <6>2. o \in Nat /\ p \in Nat
            BY <1>1, <6>1, Zenon
          <6> QED BY <6>1, <6>2
        <5>2. p = o + b[o].size /\ b[o].size \in Nat /\ b[o].size > 0
          BY <3>1
        <5> HIDE DEF p
        <5>3. \A a, v \in Nat : v > 0 => a < a + v
          OBVIOUS
        <5>4. o < p
          BY <5>1, <5>2, <5>3, Zenon
        <5> QED BY <5>1, <5>4
      <4> HIDE DEF p
      <4> QED BY <2>2, <4>1
    <3>3. Fine(p)
      <4> HIDE DEF Fine
      <4>1. at - p \notin bad
        <5> DEFINE i == at - p
        <5>1. i \in Nat /\ i < k /\ k \in Nat
          BY <3>2, <2>1
        <5> HIDE DEF bad, i
        <5>2. i \notin bad
          BY <2>1, <5>1
        <5> QED BY <5>2 DEF i
      <4> QED BY <3>1, <3>2, <4>1
    <3>4. f[o] = <<b[o].packet>> \o f[p]
      BY <1>1, <1>7, <3>1
    <3>5. g[o] = <<b[o].packet>> \o g[p]
      BY <1>10
    <3>6. b[o].packet \in Nat
      BY <1>10
    <3> HIDE DEF p
    <3>7. f[o] \in Seq(Nat)
      BY <3>3, <3>4, <3>6, ConcatProperties
    <3>8. g[o] = f[o] \o <<n>>
      <4>1. <<b[o].packet>> \in Seq(Nat) /\ <<n>> \in Seq(Nat)
        BY <3>6
      <4>2. (<<b[o].packet>> \o f[p]) \o <<n>> = <<b[o].packet>> \o (f[p] \o <<n>>)
        <5>1. f[p] \in Seq(Nat)
          BY <3>3
        <5> QED BY <3>6, <5>1, Associative
      <4> QED BY <3>3, <3>4, <3>5, <4>2, Zenon
    <3> QED BY <2>2, <3>7, <3>8
  <2> QED BY <2>3, <2>4
<1>12. CASE bad = {}
  <2>1. 0 \in C /\ at - 0 \in Nat
    BY <1>1 DEF Chain
  <2>2. Fine(0)
    <3> HIDE DEF Fine
    <3> QED BY <1>12, <2>1
  <2>3. Read(w) = Append(Read(b), n)
    BY <1>7, <1>8, <2>2, AppendIsConcat
  <2>4. Longer(Read(w), Read(b), n)
    BY <2>3 DEF Longer
  <2>5. Read(b) \in Seq(Nat)
    BY <1>1, <1>7, <2>2
  <2> QED BY <1>1, <1>3, <1>6, <2>4, <2>5
<1> QED BY <1>11, <1>12
-----------------------------------------------------------------------------
(* The calls of a handler: what is stacked is followed by another packet   *)
(* for the same clients, or by the flush for them.                         *)

Opens(call) == call.op \in {"stack_send", "stack_synced"}
InStack(call) == Opens(call) \/ call.op \in {"flush_send", "flush_synced"}
Synced(call) == call.op \in {"stack_synced", "flush_synced"}
Continues(d, e) == InStack(e) /\ (Synced(d) <=> Synced(e)) /\ d.to = e.to
Ops == {"stack_send", "stack_synced", "flush_send", "flush_synced", "send", "broadcast", "sync"}
Calls == [op : Ops, to : Peers, size : 1 .. PacketMaxSize]
Orderly(s) ==
    /\ s \in Seq(Calls)
    /\ \A i \in 1 .. Len(s) : Opens(s[i]) => i < Len(s) /\ Continues(s[i], s[i + 1])

LEMMA CallIs ==
    ASSUME NEW op \in Ops, NEW c \in Peers, NEW size \in 1 .. PacketMaxSize
    PROVE  /\ Do(op, c, size) \in Calls
           /\ Do(op, c, size).op = op /\ Do(op, c, size).to = c /\ Do(op, c, size).size = size
BY DEF Do, Calls

LEMMA TailOrderly ==
    ASSUME NEW s, Orderly(s), s # << >>
    PROVE  /\ Orderly(Tail(s)) /\ Head(s) = s[1] /\ s[1] \in Calls
           /\ Opens(s[1]) => Tail(s) # << >> /\ Continues(s[1], Tail(s)[1])
<1>1. /\ s \in Seq(Calls) /\ Len(s) \in Nat /\ Len(s) > 0
      /\ \A i \in 1 .. Len(s) : s[i] \in Calls
  BY DEF Orderly
<1>2. /\ Tail(s) \in Seq(Calls) /\ Len(Tail(s)) = Len(s) - 1
      /\ \A i \in 1 .. Len(s) - 1 : Tail(s)[i] = s[i + 1]
  BY <1>1
<1> DEFINE t == Tail(s)
<1> HIDE DEF t
<1>3. ASSUME NEW i \in 1 .. Len(t), Opens(t[i])
      PROVE  i < Len(t) /\ Continues(t[i], t[i + 1])
  <2>1. i + 1 \in 1 .. Len(s) /\ t[i] = s[i + 1]
    BY <1>1, <1>2 DEF t
  <2>2. i + 1 < Len(s) /\ Continues(s[i + 1], s[i + 1 + 1])
    BY <1>3, <2>1 DEF Orderly
  <2>3. i < Len(t) /\ t[i + 1] = s[i + 1 + 1]
    BY <1>1, <1>2, <2>1, <2>2 DEF t
  <2> QED BY <2>1, <2>2, <2>3
<1>4. Opens(s[1]) => t # << >> /\ Continues(s[1], t[1])
  <2>1. 1 \in 1 .. Len(s)
    BY <1>1
  <2>2. Opens(s[1]) => 1 < Len(s) /\ Continues(s[1], s[1 + 1])
    BY <2>1 DEF Orderly
  <2>3. 1 < Len(s) => t[1] = s[1 + 1] /\ Len(t) > 0
    BY <1>1, <1>2 DEF t
  <2>4. Len(t) > 0 => t # << >>
    OBVIOUS
  <2> QED BY <2>2, <2>3, <2>4, Zenon
<1>5. Head(s) = s[1]
  BY <1>1
<1> QED BY <1>1, <1>2, <1>3, <1>4, <1>5 DEF Orderly, t

LEMMA JoinedOrderly ==
    ASSUME NEW s, NEW t, Orderly(s), Orderly(t)
    PROVE  Orderly(s \o t)
<1> DEFINE u == s \o t
<1>1. /\ s \in Seq(Calls) /\ t \in Seq(Calls) /\ Len(s) \in Nat /\ Len(t) \in Nat
  BY DEF Orderly
<1>2. /\ u \in Seq(Calls) /\ Len(u) = Len(s) + Len(t)
      /\ \A i \in 1 .. Len(s) : u[i] = s[i]
      /\ \A i \in 1 .. Len(t) : u[Len(s) + i] = t[i]
  BY <1>1
<1> HIDE DEF u
<1>3. ASSUME NEW i \in 1 .. Len(u), Opens(u[i])
      PROVE  i < Len(u) /\ Continues(u[i], u[i + 1])
  <2>1. CASE i \in 1 .. Len(s)
    <3>1. i < Len(s) /\ Continues(s[i], s[i + 1])
      BY <1>2, <1>3, <2>1 DEF Orderly
    <3>2. i + 1 \in 1 .. Len(s) /\ i < Len(u)
      BY <1>1, <1>2, <2>1, <3>1
    <3> QED BY <1>2, <2>1, <3>1, <3>2, Zenon
  <2>2. CASE i \notin 1 .. Len(s)
    <3> DEFINE j == i - Len(s)
    <3>1. j \in 1 .. Len(t) /\ i = Len(s) + j
      BY <1>1, <1>2, <2>2
    <3> HIDE DEF j
    <3>2. j < Len(t) /\ Continues(t[j], t[j + 1])
      BY <1>2, <1>3, <3>1 DEF Orderly
    <3>3. j + 1 \in 1 .. Len(t) /\ i + 1 = Len(s) + (j + 1) /\ i < Len(u)
      BY <1>1, <1>2, <3>1, <3>2
    <3>4. u[i] = t[j] /\ u[i + 1] = t[j + 1]
      BY <1>2, <3>1, <3>3
    <3> QED BY <3>2, <3>3, <3>4
  <2> QED BY <2>1, <2>2
<1> QED BY <1>2, <1>3 DEF Orderly, u

(* What is stacked, with the flush behind it.  *)
LEMMA StacksOrderly ==
    ASSUME NEW c \in Peers, NEW sizes \in Seq(Sizes), NEW k \in {"send", "synced"}, NEW op, NEW flush,
           op = (IF k = "send" THEN "stack_send" ELSE "stack_synced"),
           flush = (IF k = "send" THEN "flush_send" ELSE "flush_synced"),
           1 \in 1 .. PacketMaxSize
    PROVE  LET s == Stacks(op, c, sizes) \o <<Do(flush, c, 1)>>
           IN  Orderly(s) /\ s # << >> /\ InStack(s[1]) /\ s[1].to = c /\ (Synced(s[1]) <=> k = "synced")
<1> DEFINE a == Stacks(op, c, sizes)
           z == <<Do(flush, c, 1)>>
           s == a \o z
           n == Len(sizes)
<1>1. n \in Nat /\ \A i \in 1 .. n : sizes[i] \in 1 .. PacketMaxSize
  <2>1. n \in Nat /\ \A i \in 1 .. n : sizes[i] \in Sizes
    OBVIOUS
  <2> QED BY <2>1, SizeIs
<1>2. op \in Ops /\ flush \in Ops
  BY DEF Ops
<1>3. Do(flush, c, 1) \in Calls /\ Do(flush, c, 1).op = flush /\ Do(flush, c, 1).to = c
  BY <1>2, CallIs
<1>4. \A i \in 1 .. n : /\ Do(op, c, sizes[i]) \in Calls
                        /\ Do(op, c, sizes[i]).op = op /\ Do(op, c, sizes[i]).to = c
  BY <1>1, <1>2, CallIs
<1>5. /\ a \in Seq(Calls) /\ Len(a) = n /\ \A i \in 1 .. n : a[i] = Do(op, c, sizes[i])
  BY <1>1, <1>4 DEF Stacks
<1>6. z \in Seq(Calls) /\ Len(z) = 1 /\ z[1] = Do(flush, c, 1)
  BY <1>3
<1> HIDE DEF a, z, n
<1>7. /\ s \in Seq(Calls) /\ Len(s) = n + 1
      /\ \A i \in 1 .. n : s[i] = a[i]
      /\ s[n + 1] = z[1]
  <2>1. /\ s \in Seq(Calls) /\ Len(s) = Len(a) + Len(z)
        /\ \A i \in 1 .. Len(a) : s[i] = a[i]
        /\ \A i \in 1 .. Len(z) : s[Len(a) + i] = z[i]
    BY <1>5, <1>6, ConcatIs
  <2> HIDE DEF s
  <2> QED BY <1>1, <1>5, <1>6, <2>1
<1> HIDE DEF s
<1>8. \A i \in 1 .. n : s[i].op = op /\ s[i].to = c
  BY <1>4, <1>5, <1>7
<1>9. s[n + 1].op = flush /\ s[n + 1].to = c
  BY <1>3, <1>6, <1>7
<1>10. ~Opens(s[n + 1]) /\ InStack(s[n + 1]) /\ (Synced(s[n + 1]) <=> k = "synced")
  BY <1>9 DEF Opens, InStack, Synced
<1>11. \A i \in 1 .. n : InStack(s[i]) /\ (Synced(s[i]) <=> k = "synced")
  BY <1>8 DEF Opens, InStack, Synced
<1>12. \A i \in 1 .. n + 1 : InStack(s[i]) /\ (Synced(s[i]) <=> k = "synced") /\ s[i].to = c
  <2> TAKE i \in 1 .. n + 1
  <2>1. i \in 1 .. n \/ i = n + 1
    BY <1>1
  <2> QED BY <1>8, <1>9, <1>10, <1>11, <2>1
<1>13. ASSUME NEW i \in 1 .. Len(s), Opens(s[i])
       PROVE  i < Len(s) /\ Continues(s[i], s[i + 1])
  <2>1. i # n + 1
    BY <1>10, <1>13
  <2>2. i < Len(s) /\ i \in 1 .. n + 1 /\ i + 1 \in 1 .. n + 1
    BY <1>1, <1>7, <2>1
  <2> QED BY <1>12, <2>2 DEF Continues
<1>14. Len(s) > 0 /\ 1 \in 1 .. n + 1
  BY <1>1, <1>7
<1>15. s # << >>
  BY <1>14
<1> QED BY <1>7, <1>12, <1>13, <1>14, <1>15 DEF Orderly, s, a, z
-----------------------------------------------------------------------------
(* The invariant.  While packets are stacked, the next call is one for the *)
(* same clients, who are missing these packets and no others.              *)

BufferTyped ==
    /\ buffer \in [Offsets -> Cell] /\ pb \in Offsets
    /\ packet_len \in Nat /\ packet_len <= PacketMaxSize
    /\ synced \subseteq Peers /\ packets \in Nat /\ handlers \in Nat
    /\ expected \in [Peers -> Seq(Nat)] /\ got \in [Peers -> Seq(Nat)]

Waiting ==
    IF packet_len = 0 THEN pb = 0
    ELSE calls # << >> /\ InStack(calls[1]) /\ \E C : Chain(buffer, pb, packet_len, C)

(* Whom a call is for, which is in the stack.  *)
For(call, all) == IF Synced(call) THEN all ELSE {call.to}

Missing == IF packet_len = 0 THEN {} ELSE For(calls[1], synced)

BufferSound ==
    /\ BufferTyped /\ Orderly(calls) /\ Waiting
    /\ \A c \in Peers : expected[c] = IF c \in Missing THEN got[c] \o Read(buffer) ELSE got[c]

LEMMA ToIs ==
    ASSUME NEW d \in Calls
    PROVE  /\ InStack(d) => To(d) = For(d, synced)
           /\ d.op = "broadcast" => To(d) = Peers
           /\ d.op = "send" => To(d) = {d.to}
BY DEF To, For, Synced, InStack, Opens

LEMMA ExpectIs ==
    ASSUME expected \in [Peers -> Seq(Nat)], NEW T, NEW n \in Nat
    PROVE  /\ Expect(T, n) \in [Peers -> Seq(Nat)]
           /\ \A c \in Peers : Expect(T, n)[c] = IF c \in T THEN Append(expected[c], n) ELSE expected[c]
BY DEF Expect

LEMMA HandedOnIs ==
    ASSUME got \in [Peers -> Seq(Nat)], NEW T, NEW b, Read(b) \in Seq(Nat)
    PROVE  /\ HandedOn(T, b) \in [Peers -> Seq(Nat)]
           /\ \A c \in Peers : HandedOn(T, b)[c] = IF c \in T THEN got[c] \o Read(b) ELSE got[c]
<1> DEFINE r == Read(b)
<1> HIDE DEF r
<1>1. r \in Seq(Nat)
  BY DEF r
<1>2. \A c \in Peers : got[c] \in Seq(Nat) /\ got[c] \o r \in Seq(Nat)
  BY <1>1, ConcatProperties
<1> QED BY <1>2 DEF HandedOn, r

(* A chain is read as a sequence of packets.  *)
LEMMA ReadTyped ==
    ASSUME BufferTyped, packet_len # 0, Waiting
    PROVE  Read(buffer) \in Seq(Nat)
<1>1. PICK C : Chain(buffer, pb, packet_len, C)
  BY DEF Waiting
<1>2. 1 \in 1 .. PacketMaxSize
  BY <1>1, SizeIs DEF BufferTyped, Chain, Offsets, Cell
<1>3. PICK w : w = Written(Linked(buffer, pb), packet_len, 0, 1)
  OBVIOUS
<1> QED BY <1>1, <1>2, <1>3, ReadMore DEF BufferTyped

(* What the next call sees of the stacked packets.  *)
LEMMA StackStep ==
    ASSUME BufferSound, calls # << >>, Stack(Head(calls)), calls' = Tail(calls), UNCHANGED handlers
    PROVE  BufferSound'
<1> DEFINE d == calls[1]
           T == To(d)
           n == packets + 1
<1>1. /\ Orderly(Tail(calls)) /\ Head(calls) = d /\ d \in Calls
      /\ Opens(d) => Tail(calls) # << >> /\ Continues(d, Tail(calls)[1])
  BY TailOrderly DEF BufferSound
<1>2. Stack(d) /\ Opens(d) /\ d.size \in 1 .. PacketMaxSize /\ d.to \in Peers
  BY <1>1 DEF Stack, Opens, Calls
<1>3. Orderly(calls') /\ calls' # << >> /\ InStack(calls'[1]) /\ For(calls'[1], synced') = T /\ For(d, synced) = T
  <2>1. Continues(d, calls'[1]) /\ calls' # << >> /\ calls'[1] \in Calls
    BY <1>1, <1>2, TailOrderly
  <2>2. synced' = synced
    BY <1>2 DEF Stack
  <2>3. T = For(d, synced)
    BY <1>1, <1>2, ToIs DEF InStack
  <2>4. For(calls'[1], synced') = For(d, synced)
    BY <2>1, <2>2 DEF Continues, For
  <2> QED BY <1>1, <2>1, <2>3, <2>4 DEF Continues
<1>4. n \in Nat /\ packets' = n /\ synced' = synced
  BY <1>2 DEF Stack, BufferSound, BufferTyped
<1>5. /\ expected' \in [Peers -> Seq(Nat)]
      /\ \A c \in Peers : expected'[c] = IF c \in T THEN Append(expected[c], n) ELSE expected[c]
  BY <1>2, <1>4, ExpectIs DEF Stack, BufferSound, BufferTyped
<1>6. CASE packet_len = 0 \/ Full(d.size)
  <2>1. \A c \in Peers : got'[c] = expected[c]
    <3>1. CASE packet_len = 0
      BY <1>2, <3>1 DEF Stack, BufferSound, Missing
    <3>2. CASE packet_len # 0
      <4>1. Full(d.size) /\ packet_len > 0
        BY <1>6, <3>2 DEF BufferSound, BufferTyped
      <4>2. got' = HandedOn(T, buffer)
        BY <1>2, <4>1 DEF Stack
      <4>3. Read(buffer) \in Seq(Nat) /\ got \in [Peers -> Seq(Nat)]
        BY <3>2, ReadTyped DEF BufferSound, BufferTyped
      <4>4. \A c \in Peers : got'[c] = IF c \in T THEN got[c] \o Read(buffer) ELSE got[c]
        BY <4>2, <4>3, HandedOnIs
      <4>5. Missing = T
        BY <1>3, <3>2 DEF Missing
      <4> QED BY <4>4, <4>5 DEF BufferSound
    <3> QED BY <3>1, <3>2
  <2>2. got' \in [Peers -> Seq(Nat)]
    BY <1>2, ReadTyped, HandedOnIs DEF Stack, BufferSound, BufferTyped
  <2>3. buffer' = Written(buffer, 0, n, d.size) /\ pb' = 0 /\ packet_len' = d.size
    BY <1>2, <1>6, SizeIs DEF Stack, BufferSound, BufferTyped, Waiting, Stacked, Behind
  <2>4. /\ buffer' \in [Offsets -> Cell] /\ Chain(buffer', 0, d.size, {0})
        /\ Read(buffer') = <<n>>
    BY <1>2, <1>4, <2>3, ReadOne DEF BufferSound, BufferTyped
  <2>5. BufferTyped'
    BY <1>2, <1>4, <1>5, <2>2, <2>3, <2>4, SizeIs DEF BufferSound, BufferTyped, Offsets
  <2>6. Waiting'
    BY <1>2, <1>3, <2>3, <2>4 DEF Waiting
  <2>7. Missing' = T
    BY <1>2, <1>3, <2>3 DEF Missing
  <2>8. ASSUME NEW c \in Peers
        PROVE  expected'[c] = IF c \in Missing' THEN got'[c] \o Read(buffer') ELSE got'[c]
    <3>1. expected[c] \in Seq(Nat)
      BY DEF BufferSound, BufferTyped
    <3>2. Append(expected[c], n) = expected[c] \o <<n>>
      BY <1>4, <3>1, AppendIsConcat
    <3> QED BY <1>5, <2>1, <2>4, <2>7, <3>2
  <2> QED BY <1>3, <2>5, <2>6, <2>8 DEF BufferSound
<1>7. CASE packet_len # 0 /\ ~Full(d.size)
  <2>1. PICK C : Chain(buffer, pb, packet_len, C)
    BY <1>7 DEF BufferSound, Waiting
  <2>2. /\ buffer' = Written(Linked(buffer, pb), packet_len, n, d.size)
        /\ pb' = packet_len /\ packet_len' = packet_len + d.size /\ got' = got
    <3>1. pb + buffer[pb].size = packet_len
      BY <2>1 DEF Chain
    <3> QED BY <1>2, <1>7, <3>1 DEF Stack, Stacked, Behind
  <2>3. /\ buffer' \in [Offsets -> Cell] /\ Chain(buffer', pb', packet_len', C \cup {packet_len})
        /\ pb' \in Offsets
        /\ Read(buffer) \in Seq(Nat) /\ Read(buffer') = Append(Read(buffer), n)
    <3>1. buffer \in [Offsets -> Cell] /\ packet_len <= PacketMaxSize
      BY DEF BufferSound, BufferTyped
    <3>2. /\ buffer' \in [Offsets -> Cell]
          /\ Chain(buffer', packet_len, packet_len + d.size, C \cup {packet_len})
          /\ packet_len \in Offsets
          /\ Read(buffer) \in Seq(Nat) /\ Read(buffer') = Append(Read(buffer), n)
      <4>1. /\ buffer \in [Offsets -> Cell] /\ Chain(buffer, pb, packet_len, C)
            /\ packet_len <= PacketMaxSize /\ n \in Nat /\ d.size \in 1 .. PacketMaxSize
        BY <1>2, <1>4, <2>1, <3>1
      <4>2. PICK m : m = n
        OBVIOUS
      <4>3. PICK z : z = d.size
        OBVIOUS
      <4>4. PICK w : w = Written(Linked(buffer, pb), packet_len, m, z)
        OBVIOUS
      <4>5. m \in Nat /\ z \in 1 .. PacketMaxSize /\ buffer' = w
        BY <2>2, <4>1, <4>2, <4>3, <4>4
      <4>6. /\ w \in [Offsets -> Cell] /\ Chain(w, packet_len, packet_len + z, C \cup {packet_len})
            /\ packet_len \in Offsets
            /\ Read(buffer) \in Seq(Nat) /\ Longer(Read(w), Read(buffer), m)
        BY <4>1, <4>4, <4>5, ReadMore
      <4> QED BY <4>2, <4>3, <4>5, <4>6 DEF Longer
    <3> QED BY <2>2, <3>2
  <2>4. packet_len' \in Nat /\ packet_len' <= PacketMaxSize /\ packet_len' # 0
    BY <1>2, <1>7, <2>2, SizeIs DEF Full, BufferSound, BufferTyped
  <2>5. BufferTyped'
    BY <1>2, <1>4, <1>5, <2>2, <2>3, <2>4 DEF BufferSound, BufferTyped
  <2>6. Waiting'
    BY <1>3, <2>3, <2>4 DEF Waiting
  <2>7. Missing' = T /\ Missing = T
    BY <1>3, <1>7, <2>4 DEF Missing
  <2>8. ASSUME NEW c \in Peers
        PROVE  expected'[c] = IF c \in Missing' THEN got'[c] \o Read(buffer') ELSE got'[c]
    <3>1. got[c] \in Seq(Nat) /\ expected[c] = IF c \in T THEN got[c] \o Read(buffer) ELSE got[c]
      BY <2>7 DEF BufferSound, BufferTyped
    <3>2. Append(got[c] \o Read(buffer), n) = got[c] \o Append(Read(buffer), n)
      BY <1>4, <2>3, <3>1, AppendedBehind
    <3> QED BY <1>5, <2>2, <2>3, <2>7, <3>1, <3>2
  <2> QED BY <1>3, <2>5, <2>6, <2>8 DEF BufferSound
<1> QED BY <1>6, <1>7

LEMMA FlushStep ==
    ASSUME BufferSound, calls # << >>, Flush(Head(calls)), calls' = Tail(calls), UNCHANGED handlers
    PROVE  BufferSound'
<1> DEFINE d == calls[1]
           T == To(d)
<1>1. Orderly(Tail(calls)) /\ Head(calls) = d /\ d \in Calls
  BY TailOrderly DEF BufferSound
<1>2. Flush(d) /\ InStack(d) /\ T = For(d, synced)
  BY <1>1, ToIs DEF Flush, InStack
<1>3. UNCHANGED <<buffer, synced, packets, expected>> /\ packet_len' = 0 /\ pb' = 0
  BY <1>2 DEF Flush, Rewound, BufferSound, Waiting
<1>4. got' \in [Peers -> Seq(Nat)] /\ \A c \in Peers : got'[c] = expected[c]
  <2>1. CASE packet_len = 0
    BY <1>2, <2>1 DEF Flush, BufferSound, BufferTyped, Missing
  <2>2. CASE packet_len # 0
    <3>1. got' = HandedOn(T, buffer) /\ Missing = T
      BY <1>2, <2>2 DEF Flush, Missing
    <3>2. Read(buffer) \in Seq(Nat) /\ got \in [Peers -> Seq(Nat)]
      BY <2>2, ReadTyped DEF BufferSound, BufferTyped
    <3>3. /\ got' \in [Peers -> Seq(Nat)]
          /\ \A c \in Peers : got'[c] = IF c \in T THEN got[c] \o Read(buffer) ELSE got[c]
      BY <3>1, <3>2, HandedOnIs
    <3> QED BY <3>1, <3>3 DEF BufferSound
  <2> QED BY <2>1, <2>2
<1>5. BufferTyped'
  BY <1>3, <1>4, SizeIs DEF BufferSound, BufferTyped, Offsets
<1>6. Waiting' /\ Missing' = {}
  BY <1>3 DEF Waiting, Missing
<1> QED BY <1>1, <1>3, <1>4, <1>5, <1>6 DEF BufferSound

(* A call that is not of the stack finds nothing stacked.  *)
LEMMA NothingStacked ==
    ASSUME BufferSound, calls # << >>, ~InStack(Head(calls))
    PROVE  packet_len = 0 /\ pb = 0 /\ \A c \in Peers : expected[c] = got[c]
<1>1. Head(calls) = calls[1]
  BY TailOrderly DEF BufferSound
<1>2. packet_len = 0 /\ pb = 0
  BY <1>1 DEF BufferSound, Waiting
<1> QED BY <1>2 DEF BufferSound, Missing

LEMMA SendStep ==
    ASSUME BufferSound, calls # << >>, Send(Head(calls)), calls' = Tail(calls), UNCHANGED handlers
    PROVE  BufferSound'
<1> DEFINE d == Head(calls)
           T == To(d)
           n == packets + 1
<1>1. Orderly(Tail(calls)) /\ d \in Calls
  BY TailOrderly DEF BufferSound
<1>2. Send(d) /\ ~InStack(d) /\ d.size \in 1 .. PacketMaxSize
  BY <1>1 DEF Send, InStack, Opens, Calls
<1>3. packet_len = 0 /\ pb = 0 /\ \A c \in Peers : expected[c] = got[c]
  BY <1>2, NothingStacked
<1>4. n \in Nat /\ packets' = n /\ UNCHANGED <<pb, packet_len, synced>>
  BY <1>2 DEF Send, BufferSound, BufferTyped
<1>5. buffer' \in [Offsets -> Cell] /\ Read(buffer') = <<n>>
  <2>1. buffer' = Written(buffer, 0, n, d.size) /\ buffer \in [Offsets -> Cell]
    BY <1>2 DEF Send, BufferSound, BufferTyped
  <2>2. /\ Written(buffer, 0, n, d.size) \in [Offsets -> Cell]
        /\ Read(Written(buffer, 0, n, d.size)) = <<n>>
    BY <1>2, <1>4, <2>1, ReadOne
  <2> QED BY <2>1, <2>2
<1>6. expected' = Expect(T, n) /\ got' = HandedOn(T, buffer')
  BY <1>2 DEF Send
<1>7. expected \in [Peers -> Seq(Nat)] /\ got \in [Peers -> Seq(Nat)]
  BY DEF BufferSound, BufferTyped
<1> HIDE DEF d, T, n
<1>8. /\ expected' \in [Peers -> Seq(Nat)]
      /\ \A c \in Peers : expected'[c] = IF c \in T THEN Append(expected[c], n) ELSE expected[c]
  BY <1>4, <1>6, <1>7, ExpectIs
<1>9. /\ got' \in [Peers -> Seq(Nat)]
      /\ \A c \in Peers : got'[c] = IF c \in T THEN got[c] \o <<n>> ELSE got[c]
  <2>1. Read(buffer') \in Seq(Nat)
    BY <1>4, <1>5
  <2>2. /\ HandedOn(T, buffer') \in [Peers -> Seq(Nat)]
        /\ \A c \in Peers : HandedOn(T, buffer')[c] = IF c \in T THEN got[c] \o Read(buffer') ELSE got[c]
    BY <1>7, <2>1, HandedOnIs
  <2> QED BY <1>5, <1>6, <2>2
<1>10. BufferTyped'
  BY <1>4, <1>5, <1>8, <1>9 DEF BufferSound, BufferTyped
<1>11. Waiting' /\ Missing' = {}
  BY <1>3, <1>4 DEF Waiting, Missing
<1>12. ASSUME NEW c \in Peers PROVE expected'[c] = got'[c]
  <2>1. expected[c] \in Seq(Nat)
    BY <1>7
  <2>2. Append(expected[c], n) = expected[c] \o <<n>>
    BY <1>4, <2>1, AppendIsConcat
  <2> QED BY <1>3, <1>8, <1>9, <2>2
<1> QED BY <1>1, <1>10, <1>11, <1>12 DEF BufferSound

LEMMA SyncStep ==
    ASSUME BufferSound, calls # << >>, Sync(Head(calls)), calls' = Tail(calls), UNCHANGED handlers
    PROVE  BufferSound'
<1> DEFINE d == Head(calls)
<1>1. Orderly(Tail(calls)) /\ d \in Calls
  BY TailOrderly DEF BufferSound
<1>2. Sync(d) /\ ~InStack(d) /\ d.to \in Peers
  BY <1>1 DEF Sync, InStack, Opens, Calls
<1>3. packet_len = 0 /\ pb = 0 /\ \A c \in Peers : expected[c] = got[c]
  BY <1>2, NothingStacked
<1>4. UNCHANGED <<buffer, pb, packet_len, packets, expected, got>> /\ synced' = synced \cup {d.to}
  BY <1>2 DEF Sync
<1>5. BufferTyped'
  BY <1>2, <1>4 DEF BufferSound, BufferTyped
<1>6. Waiting' /\ Missing' = {}
  BY <1>3, <1>4 DEF Waiting, Missing
<1> QED BY <1>1, <1>3, <1>4, <1>5, <1>6 DEF BufferSound

LEMMA CallStep ==
    ASSUME BufferSound, Call
    PROVE  BufferSound'
BY StackStep, FlushStep, SendStep, SyncStep DEF Call

-----------------------------------------------------------------------------
(* The handlers.  *)

LEMMA OneOrderly ==
    ASSUME NEW d \in Calls, ~Opens(d)
    PROVE  Orderly(<<d>>)
<1>1. <<d>> \in Seq(Calls) /\ Len(<<d>>) = 1 /\ <<d>>[1] = d
  OBVIOUS
<1> QED BY <1>1 DEF Orderly

LEMMA BeforeOrderly ==
    ASSUME NEW d \in Calls, NEW s, Orderly(s), Opens(d), s # << >>, Continues(d, s[1])
    PROVE  Orderly(<<d>> \o s)
<1> DEFINE t == <<d>> \o s
<1>1. s \in Seq(Calls) /\ Len(s) \in Nat /\ Len(s) > 0
  BY DEF Orderly
<1>2. t \in Seq(Calls) /\ Len(t) = Len(s) + 1 /\ t[1] = d /\ \A i \in 1 .. Len(s) : t[i + 1] = s[i]
  <2>1. <<d>> \in Seq(Calls) /\ Len(<<d>>) = 1 /\ <<d>>[1] = d
    OBVIOUS
  <2> DEFINE u == <<d>>
  <2> HIDE DEF u
  <2>2. /\ u \o s \in Seq(Calls) /\ Len(u \o s) = Len(u) + Len(s)
        /\ \A k \in 1 .. Len(u) : (u \o s)[k] = u[k]
        /\ \A k \in 1 .. Len(s) : (u \o s)[Len(u) + k] = s[k]
    BY <1>1, <2>1, ConcatIs DEF u
  <2>3. Len(u) = 1 /\ u[1] = d
    BY <2>1 DEF u
  <2>4. u \o s = t
    BY DEF u
  <2> HIDE DEF t
  <2> QED BY <1>1, <2>2, <2>3, <2>4
<1> HIDE DEF t
<1>3. ASSUME NEW i \in 1 .. Len(t), Opens(t[i])
      PROVE  i < Len(t) /\ Continues(t[i], t[i + 1])
  <2>1. CASE i = 1
    <3>1. 1 \in 1 .. Len(s)
      BY <1>1
    <3>2. t[2] = s[1]
      BY <1>2, <3>1
    <3> QED BY <1>1, <1>2, <2>1, <3>2
  <2>2. CASE i # 1
    <3> DEFINE j == i - 1
    <3>1. j \in 1 .. Len(s) /\ i = j + 1
      BY <1>1, <1>2, <2>2
    <3> HIDE DEF j
    <3>2. t[i] = s[j]
      BY <1>2, <3>1
    <3>3. j < Len(s) /\ Continues(s[j], s[j + 1])
      BY <1>3, <3>1, <3>2 DEF Orderly
    <3>4. j + 1 \in 1 .. Len(s) /\ i < Len(t)
      BY <1>1, <1>2, <3>1, <3>3
    <3>5. t[i + 1] = s[j + 1]
      BY <1>2, <3>1, <3>4
    <3> QED BY <3>2, <3>3, <3>4, <3>5
  <2> QED BY <2>1, <2>2
<1> QED BY <1>2, <1>3 DEF Orderly, t

LEMMA SomeSizesAre ==
    ASSUME NEW s \in SomeSizes
    PROVE  s \in Seq(Sizes)
<1>1. SomeSizes = UNION {[1 .. n -> Sizes] : n \in 0 .. MaxStack}
  BY DEF SomeSizes, BoundedSeq, SeqOf
<1>2. PICK n \in 0 .. MaxStack : s \in [1 .. n -> Sizes]
  BY <1>1
<1>3. n \in Nat
  BY StackAssumption
<1> QED BY <1>2, <1>3

LEMMA PacketsFit ==
    ASSUME NEW size \in Sizes
    PROVE  size \in 1 .. PacketMaxSize /\ 1 \in 1 .. PacketMaxSize
BY SizeIs

LEMMA FrameOrderly ==
    ASSUME NEW c \in Peers, NEW size \in Sizes, NEW sizes \in SomeSizes
    PROVE  Orderly(Frame(c, sizes))
BY PacketsFit, SomeSizesAre, StacksOrderly DEF Frame

LEMMA SendsOrderly ==
    ASSUME NEW c \in Peers, NEW size \in Sizes, NEW op \in {"send", "broadcast", "sync"}, NEW n \in {1, size}
    PROVE  Do(op, c, n) \in Calls /\ Orderly(<<Do(op, c, n)>>)
<1>1. op \in Ops /\ n \in 1 .. PacketMaxSize
  BY PacketsFit DEF Ops
<1>2. Do(op, c, n) \in Calls /\ Do(op, c, n).op = op
  BY <1>1, CallIs
<1> QED BY <1>2, OneOrderly DEF Opens

LEMMA TwoOrderly ==
    ASSUME NEW d \in Calls, NEW e \in Calls, ~Opens(d), ~Opens(e)
    PROVE  Orderly(<<d, e>>)
<1> DEFINE s == <<d, e>>
<1>1. s \in Seq(Calls) /\ Len(s) = 2 /\ s[1] = d /\ s[2] = e
  OBVIOUS
<1> HIDE DEF s
<1>2. \A i \in 1 .. Len(s) : i = 1 \/ i = 2
  BY <1>1
<1>3. \A i \in 1 .. Len(s) : ~Opens(s[i])
  BY <1>1, <1>2
<1> QED BY <1>1, <1>3 DEF Orderly, s

LEMMA EventsOrderly ==
    ASSUME NEW c \in Peers, NEW size \in Sizes, NEW sizes \in SomeSizes
    PROVE  Orderly(EventLogin(c, size)) /\ Orderly(EventLogout(c, sizes))
<1>1. \A op \in {"send", "broadcast", "sync"}, n \in {1, size} :
         Do(op, c, n) \in Calls /\ Orderly(<<Do(op, c, n)>>)
  BY SendsOrderly
<1>2. ~Opens(Do("send", c, size)) /\ ~Opens(Do("broadcast", c, size))
  BY DEF Opens, Do
<1>3. Orderly(EventLogin(c, size))
  BY <1>1, <1>2, TwoOrderly DEF EventLogin
<1>4. Orderly(<<Do("broadcast", c, 1)>>)
  BY <1>1
<1>5. Orderly(EventLogout(c, sizes))
  BY <1>4, FrameOrderly, JoinedOrderly DEF EventLogout
<1> QED BY <1>3, <1>5

(* Without a tournament and with a configuration the map state would be    *)
(* stacked and never flushed.                                              *)
LEMMA SyncOrderly ==
    ASSUME NEW c \in Peers, NEW size \in Sizes, NEW sizes \in SomeSizes, NEW gap \in BOOLEAN,
           ~(gap /\ Config)
    PROVE  Orderly(SyncClient(c, size, sizes, gap))
<1> DEFINE map == Do("stack_send", c, size)
           states == Stacks("stack_send", c, sizes) \o <<Do("flush_send", c, 1)>>
           ready == <<Do("send", c, 1), Do("sync", c, 1)>>
<1>1. Orderly(ready)
  <2>1. Do("send", c, 1) \in Calls /\ Do("sync", c, 1) \in Calls
    BY SendsOrderly
  <2>2. ~Opens(Do("send", c, 1)) /\ ~Opens(Do("sync", c, 1))
    BY DEF Opens, Do
  <2> QED BY <2>1, <2>2, TwoOrderly
<1>2. ready \in Seq(Calls)
  BY <1>1 DEF Orderly
<1>3. CASE gap
  <2>1. SyncClient(c, size, sizes, gap) = (<< >> \o << >>) \o ready
    BY <1>3, StackAssumption DEF SyncClient
  <2> HIDE DEF ready
  <2>2. << >> \o << >> = << >> /\ << >> \o ready = ready
    BY <1>2
  <2> QED BY <1>1, <2>1, <2>2
<1>4. CASE ~gap
  <2>1. SyncClient(c, size, sizes, gap) = (<<map>> \o states) \o ready
    BY <1>4 DEF SyncClient
  <2>2. /\ Orderly(states) /\ states # << >> /\ InStack(states[1]) /\ states[1].to = c
        /\ ~Synced(states[1])
    BY PacketsFit, SomeSizesAre, StacksOrderly
  <2>3. map \in Calls /\ map.op = "stack_send" /\ map.to = c
    BY PacketsFit, CallIs DEF Ops
  <2>4. Opens(map) /\ Continues(map, states[1])
    BY <2>2, <2>3 DEF Opens, Continues, Synced
  <2> HIDE DEF map, states, ready
  <2>5. Orderly(<<map>> \o states)
    BY <2>2, <2>3, <2>4, BeforeOrderly
  <2> QED BY <1>1, <2>1, <2>5, JoinedOrderly
<1> QED BY <1>3, <1>4

LEMMA HandleStep ==
    ASSUME BufferSound, Handle, ~(Config /\ Gaps)
    PROVE  BufferSound'
<1>1. UNCHANGED <<buffer, pb, packet_len, synced, packets, expected, got>> /\ handlers' = handlers + 1
  BY DEF Handle
<1>2. Orderly(calls')
  <2>1. PICK c \in Peers, size \in Sizes, sizes \in SomeSizes :
           \/ \E gap \in {FALSE, Gaps} : calls' = SyncClient(c, size, sizes, gap)
           \/ calls' = Frame(c, sizes)
           \/ calls' = EventLogin(c, size)
           \/ calls' = EventLogout(c, sizes)
    BY DEF Handle
  <2>2. \A gap \in {FALSE, Gaps} : gap \in BOOLEAN /\ ~(gap /\ Config)
    <3>1. Gaps \in BOOLEAN
      BY StackAssumption
    <3> TAKE gap \in {FALSE, Gaps}
    <3>2. CASE gap = FALSE
      BY <3>2, Zenon
    <3>3. CASE gap = Gaps
      BY <3>1, <3>3, Zenon
    <3> QED BY <3>2, <3>3, Zenon
  <2> QED BY <2>1, <2>2, SyncOrderly, FrameOrderly, EventsOrderly
<1>3. packet_len = 0 /\ pb = 0
  BY DEF Handle, BufferSound, Waiting
<1>4. BufferTyped'
  BY <1>1 DEF BufferSound, BufferTyped
<1>5. Waiting' /\ Missing' = {} /\ Missing = {}
  BY <1>1, <1>3 DEF Waiting, Missing
<1> QED BY <1>1, <1>2, <1>4, <1>5 DEF BufferSound

LEMMA BufferInit ==
    ASSUME StackInit
    PROVE  BufferSound
<1>1. Payload \in Cell /\ 0 \in Offsets
  BY SizeIs DEF Payload, Cell, Offsets
<1>2. BufferTyped
  BY <1>1, SizeIs DEF StackInit, BufferTyped
<1>3. Orderly(calls)
  BY DEF StackInit, Orderly
<1> QED BY <1>2, <1>3 DEF StackInit, BufferSound, Waiting, Missing

LEMMA BufferNext ==
    ASSUME ~(Config /\ Gaps), BufferSound, [StackNext]_stackVars
    PROVE  BufferSound'
<1>1. CASE StackNext
  BY <1>1, CallStep, HandleStep DEF StackNext
<1>2. CASE UNCHANGED stackVars
  BY <1>2 DEF stackVars, BufferSound, BufferTyped, Waiting, Missing
<1> QED BY <1>1, <1>2

LEMMA SoundIsWhole ==
    ASSUME BufferSound
    PROVE  PacketsWhole /\ StackTypeOK
<1>1. FitsPacket
  BY DEF BufferSound, BufferTyped, FitsPacket
<1>2. AsMeant
  <2> SUFFICES ASSUME calls = << >> PROVE got = expected
    BY DEF AsMeant
  <2>1. packet_len = 0
    BY DEF BufferSound, Waiting
  <2> QED BY <2>1 DEF BufferSound, BufferTyped, Missing
<1>3. StackTypeOK
  <2>1. Cell \subseteq [packet: Nat, size: Nat, more: BOOLEAN]
    BY DEF Cell
  <2> QED BY <2>1 DEF BufferSound, BufferTyped, StackTypeOK
<1> QED BY <1>1, <1>2, <1>3 DEF PacketsWhole

(* However the server's handlers stack packets, flush and send in between, *)
(* every client reads exactly the packets meant for it, in their order,    *)
(* and no message is longer than a packet may be.  The hypothesis is the   *)
(* one case in which it fails: Server::sync_client stacks the map and then *)
(* calls send_data over it when a configuration is left of an earlier      *)
(* tournament and there is no tournament (run overwritten).                *)
THEOREM PacketsArriveWhole ==
    ASSUME ~(Config /\ Gaps)
    PROVE  StackSpec => []PacketsWhole
<1>1. StackInit => BufferSound
  BY BufferInit
<1>2. BufferSound /\ [StackNext]_stackVars => BufferSound'
  BY BufferNext
<1>3. BufferSound => PacketsWhole
  BY SoundIsWhole
<1> QED BY <1>1, <1>2, <1>3, PTL DEF StackSpec
=============================================================================
