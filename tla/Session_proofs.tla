--------------------------- MODULE Session_proofs ---------------------------
(***************************************************************************)
(* What keeps a session alive and what ends it, for every value of the     *)
(* constants: the ping timeout never strikes early (HeapTimers), the two   *)
(* threads of a client do not work on what the other destroys, and the     *)
(* paks they download are whole and stay (ClientThreads).  Then a session  *)
(* of the map editor, whose thread computes the light map (Editor).        *)
(***************************************************************************)
EXTENDS HeapTimers, ClientThreads, Editor, Sequence_lemmas

-----------------------------------------------------------------------------
(* The timers.                                                             *)

LEMMA Constants ==
    /\ PingTimeout \in Nat /\ PingInterval \in Nat /\ PingInterval > 0
    /\ ShapingEnd \in Nat /\ MaxResends \in Nat /\ MaxPush \in Nat
    /\ MaxThrottle \in Nat /\ StartResendIn \in Nat
    /\ MaxPings \in Nat /\ MaxHistory \in Nat
    /\ MaxHistory >= MaxPings * PingInterval
    /\ Answers \subseteq {"ack", "pong", "logout", "other"}
BY TimerAssumption DEF MaxPings

LEMMA HeapFields ==
    ASSUME NEW g \in Heap
    PROVE  /\ g.out \in Nat /\ g.resends \in Nat /\ g.last_resend \in Nat
           /\ g.since_send \in Nat /\ g.sent_pings \in Nat /\ g.since_ping \in Nat
           /\ g.deferred_kill \in BOOLEAN
BY DEF Heap

(* The updates of a heap, field by field.  *)
AckedAs(g, a) == [FreshHead(g) EXCEPT !.out = a]
ResentAs(g, a, b) == [g EXCEPT !.since_send = 0, !.resends = a, !.last_resend = b]
PingedAs(g, b) == [g EXCEPT !.since_ping = 0, !.sent_pings = b]
TickedAs(g, a, b) == [g EXCEPT !.since_send = a, !.since_ping = b]
PushedAs(g, a) == [g EXCEPT !.out = a]

LEMMA AckedHeap ==
    ASSUME NEW g \in Heap, NEW a \in Nat, NEW k, k = AckedAs(g, a)
    PROVE  /\ k \in Heap /\ k.resends = 0 /\ k.since_ping = g.since_ping
           /\ k.sent_pings = g.sent_pings
<1>1. StartResendIn \in Nat
  BY Constants
<1> QED BY <1>1 DEF FreshHead, Heap, AckedAs

LEMMA PongedHeap ==
    ASSUME NEW g \in Heap, NEW k, k = [g EXCEPT !.sent_pings = 0]
    PROVE  /\ k \in Heap /\ k.resends = g.resends /\ k.out = g.out
           /\ k.sent_pings = 0 /\ k.since_ping = g.since_ping
BY DEF Heap

LEMMA ResentHeap ==
    ASSUME NEW g \in Heap, NEW a \in Nat, NEW b \in Nat
    PROVE  LET k == ResentAs(g, a, b) IN
           /\ k \in Heap /\ k.out = g.out /\ k.since_ping = g.since_ping
           /\ k.sent_pings = g.sent_pings
BY DEF Heap, ResentAs

LEMMA PingedHeap ==
    ASSUME NEW g \in Heap, NEW b \in Nat, NEW k,
           k = PingedAs(g, b)
    PROVE  /\ k \in Heap /\ k.out = g.out /\ k.resends = g.resends
           /\ k.sent_pings = b /\ k.since_ping = 0
BY DEF Heap, PingedAs

LEMMA TickedHeap ==
    ASSUME NEW g \in Heap, NEW a \in Nat, NEW b \in Nat, NEW k,
           k = TickedAs(g, a, b)
    PROVE  /\ k \in Heap /\ k.out = g.out /\ k.resends = g.resends
           /\ k.sent_pings = g.sent_pings /\ k.since_ping = b
BY DEF Heap, TickedAs

LEMMA PushedHeap ==
    ASSUME NEW g \in Heap, NEW a \in Nat, NEW k, k = PushedAs(g, a)
    PROVE  /\ k \in Heap /\ k.out = a /\ k.resends = g.resends
           /\ k.sent_pings = g.sent_pings /\ k.since_ping = g.since_ping
BY DEF Heap, PushedAs

(* One more interval is one more multiple.  *)
LEMMA OneMore ==
    ASSUME NEW n \in Nat, NEW p \in Nat, n > 0
    PROVE  (n - 1) * p + p = n * p
OBVIOUS

LEMMA Monotone ==
    ASSUME NEW n \in Nat, NEW k \in Nat, NEW p \in Nat, n <= k
    PROVE  n * p <= k * p
<1>1. PICK d \in Nat : k = n + d
  <2>1. k = n + (k - n) /\ k - n \in Nat
    OBVIOUS
  <2> QED BY <2>1
<1>2. k * p = n * p + d * p /\ d * p \in Nat /\ n * p \in Nat
  BY <1>1
<1> QED BY <1>2

LEMMA ReceivedFacts ==
    ASSUME TypeOK, TimerInv, NEW r, CanArrive(r)
    PROVE  LET g == Received(r, h) IN
           /\ g \in Heap
           /\ g.resends > 0 => g.out > 0
           /\ g.since_ping = h.since_ping
           /\ g.sent_pings = IF r = "pong" THEN 0 ELSE h.sent_pings
<1>1. h \in Heap /\ StartResendIn \in Nat
  BY Constants DEF TypeOK
<1>2. CASE r = "ack"
  <2>1. h.out - 1 \in Nat
    BY <1>1, <1>2, HeapFields DEF CanArrive, TimerInv
  <2>2. PICK n \in Nat : n = h.out - 1
    BY <2>1
  <2>3. Received(r, h) = AckedAs(h, n)
    BY <1>2, <2>2 DEF Received, AckedAs
  <2>4. /\ Received(r, h) \in Heap /\ Received(r, h).resends = 0
        /\ Received(r, h).since_ping = h.since_ping
        /\ Received(r, h).sent_pings = h.sent_pings
    BY <1>1, <2>3, AckedHeap
  <2> QED BY <1>2, <2>4
<1>3. CASE r = "pong"
  BY <1>1, <1>3 DEF Received, Heap, TimerInv
<1>4. CASE r # "ack" /\ r # "pong"
  BY <1>1, <1>4 DEF Received, TimerInv
<1> QED BY <1>2, <1>3, <1>4

LEMMA ResentFacts ==
    ASSUME NEW g \in Heap, g.resends > 0 => g.out > 0
    PROVE  /\ Resent(g) \in Heap
           /\ Resent(g).resends > 0 => Resent(g).out > 0
           /\ Resent(g).since_ping = g.since_ping
           /\ Resent(g).sent_pings = g.sent_pings
<1>1. CASE ~ResendDue(g)
  BY <1>1 DEF Resent
<1>2. CASE ResendDue(g)
  <2> DEFINE l == IF g.resends + 1 > ShapingEnd
                  THEN AtMost(2 * g.last_resend, MaxThrottle) ELSE g.last_resend
  <2>1. l \in Nat /\ g.resends + 1 \in Nat /\ g.out > 0
    BY <1>2, Constants, HeapFields DEF AtMost, ResendDue
  <2>2. PICK a \in Nat, b \in Nat : a = g.resends + 1 /\ b = l
    BY <2>1
  <2>3. Resent(g) = ResentAs(g, a, b)
    BY <1>2, <2>2 DEF Resent, ResentAs
  <2>4. /\ Resent(g) \in Heap /\ Resent(g).out = g.out
        /\ Resent(g).since_ping = g.since_ping /\ Resent(g).sent_pings = g.sent_pings
    <3> HIDE DEF l
    <3>1. g \in Heap /\ a \in Nat /\ b \in Nat
      BY <2>2
    <3>2. LET k == ResentAs(g, a, b) IN
          /\ k \in Heap /\ k.out = g.out /\ k.since_ping = g.since_ping
          /\ k.sent_pings = g.sent_pings
      BY ONLY <3>1, ResentHeap
    <3> QED BY ONLY <2>3, <3>2
  <2> QED BY <2>1, <2>4
<1> QED BY <1>1, <1>2

LEMMA PingedFacts ==
    ASSUME NEW g \in Heap, NEW s \in Nat,
           g.sent_pings > 0 => \/ s = MaxHistory
                               \/ s >= (g.sent_pings - 1) * PingInterval + g.since_ping
    PROVE  LET k == Pinged(g) IN
           /\ k \in Heap
           /\ k.out = g.out /\ k.resends = g.resends
           /\ k.sent_pings > 0 => \/ s = MaxHistory
                                  \/ s >= (k.sent_pings - 1) * PingInterval + k.since_ping
<1>1. CASE ~PingDue(g)
  BY <1>1 DEF Pinged
<1>2. CASE PingDue(g)
  <2> DEFINE n == g.sent_pings
             k == Pinged(g)
  <2>1. n \in Nat /\ g.since_ping \in Nat /\ g.since_ping >= PingInterval
    BY <1>2, HeapFields DEF PingDue
  <2>2. PICK b \in Nat : b = n + 1
    BY <2>1
  <2>6. k = PingedAs(g, b)
    BY <1>2, <2>2 DEF Pinged, PingedAs
  <2>3. /\ k \in Heap /\ k.out = g.out /\ k.resends = g.resends
        /\ k.sent_pings = n + 1 /\ k.since_ping = 0
    BY SMTT(30), <2>2, <2>6, PingedHeap
  <2> HIDE DEF n, k
  <2>4. s = MaxHistory \/ s >= n * PingInterval
    <3>1. CASE n = 0
      BY <3>1, Constants
    <3>2. CASE n > 0 /\ s # MaxHistory
      <4>1. s >= (n - 1) * PingInterval + g.since_ping
        BY <3>2 DEF n
      <4>2. (n - 1) * PingInterval \in Nat /\ n * PingInterval \in Nat
        BY <2>1, <3>2, Constants
      <4>3. (n - 1) * PingInterval + PingInterval = n * PingInterval
        BY <2>1, <3>2, Constants, OneMore
      <4> QED BY <2>1, <4>1, <4>2, <4>3, Constants
    <3> QED BY <2>1, <3>1, <3>2
  <2>5. (k.sent_pings - 1) * PingInterval + k.since_ping = n * PingInterval
    <3>1. k.sent_pings - 1 = n /\ n * PingInterval \in Nat
      BY <2>1, <2>3, Constants
    <3> QED BY <2>3, <3>1
  <2> QED BY <2>3, <2>4, <2>5 DEF k
<1> QED BY <1>1, <1>2

LEMMA TimerStep == TypeOK /\ TimerInv /\ [Next]_vars => TypeOK' /\ TimerInv'
<1> SUFFICES ASSUME TypeOK, TimerInv, [Next]_vars
             PROVE  TypeOK' /\ TimerInv'
  OBVIOUS
<1>1. /\ h \in Heap /\ silence \in Nat /\ pushed \in Nat
      /\ MaxPings \in Nat
  BY Constants DEF TypeOK
<1>2. CASE Cycle
  <2>1. PICK r \in Answers \cup {"nothing"} :
          LET g == Received(r, h) IN
          /\ CanArrive(r)
          /\ reason' = Outcome(r, g)
          /\ h' = Pinged(Resent(g))
          /\ silence' = IF r = "pong" THEN 0 ELSE silence
    BY <1>2 DEF Cycle
  <2> DEFINE g == Received(r, h)
             g1 == Resent(g)
  <2>2. /\ g \in Heap /\ (g.resends > 0 => g.out > 0)
        /\ g.since_ping = h.since_ping
        /\ g.sent_pings = IF r = "pong" THEN 0 ELSE h.sent_pings
    BY <2>1, ReceivedFacts
  <2>3. silence' \in Nat
    BY <1>1, <2>1
  <2> HIDE DEF g
  <2>4. /\ g1 \in Heap /\ (g1.resends > 0 => g1.out > 0)
        /\ g1.since_ping = g.since_ping /\ g1.sent_pings = g.sent_pings
    BY <2>2, ResentFacts
  <2> HIDE DEF g1
  <2>5. g1.sent_pings > 0 =>
          \/ silence' = MaxHistory
          \/ silence' >= (g1.sent_pings - 1) * PingInterval + g1.since_ping
    <3>1. CASE r = "pong"
      BY <2>2, <2>4, <3>1
    <3>2. CASE r # "pong"
      BY <2>1, <2>2, <2>4, <3>2 DEF TimerInv, PingInv
    <3> QED BY <3>1, <3>2
  <2>6. h' = Pinged(g1)
    BY <2>1 DEF g, g1
  <2>7. /\ h' \in Heap /\ (h'.resends > 0 => h'.out > 0)
        /\ h'.sent_pings > 0 =>
             \/ silence' = MaxHistory
             \/ silence' >= (h'.sent_pings - 1) * PingInterval + h'.since_ping
    BY <2>3, <2>4, <2>5, <2>6, PingedFacts
  <2>8. /\ reason' \in {"alive", "Regular", "PingTimeout", "TooManyResends", "ApplicationQuit"}
        /\ reason' = "PingTimeout" => h'.sent_pings > MaxPings
    BY <2>1, <2>6, Zenon DEF Outcome, MaxPings, g, g1
  <2> QED BY <1>1, <1>2, <2>3, <2>7, <2>8 DEF Cycle, TypeOK, TimerInv, PingInv
<1>3. CASE Tick
  <2> DEFINE n == IF h.resends > 0 THEN h.since_send + 1 ELSE 0
             k == h.since_ping + 1
  <2>1. h' = TickedAs(h, n, k)
    BY <1>3 DEF Tick, TickedAs
  <2>6. n \in Nat /\ k \in Nat
    BY <1>1, HeapFields
  <2>2. /\ h' \in Heap /\ h'.resends = h.resends /\ h'.out = h.out
        /\ h'.sent_pings = h.sent_pings /\ h'.since_ping = h.since_ping + 1
    <3> HIDE DEF n
    <3>1. PICK b \in Nat : b = k
      BY <2>6
    <3> HIDE DEF k
    <3>2. /\ h' \in Heap /\ h'.resends = h.resends /\ h'.out = h.out
          /\ h'.sent_pings = h.sent_pings /\ h'.since_ping = k
      BY <1>1, <2>1, <2>6, TickedHeap
    <3> QED BY <3>2 DEF k
  <2>3. /\ silence' = silence + 1 \/ silence' = MaxHistory
        /\ reason' = reason /\ reason = "alive"
    BY <1>3 DEF Tick, AtMost
  <2>4. PingInv'
    <3>1. ASSUME h.sent_pings > 0, silence' # MaxHistory
          PROVE  silence' >= (h.sent_pings - 1) * PingInterval + (h.since_ping + 1)
      <4>1. silence >= (h.sent_pings - 1) * PingInterval + h.since_ping
        <5>1. silence # MaxHistory
          BY <1>1, <1>3, <3>1, Constants DEF Tick, AtMost
        <5> QED BY <3>1, <5>1 DEF TimerInv, PingInv
      <4>2. (h.sent_pings - 1) * PingInterval \in Nat /\ h.since_ping \in Nat
        BY <1>1, <3>1, HeapFields, Constants
      <4> QED BY <1>1, <2>3, <3>1, <4>1, <4>2
    <3> QED BY <2>2, <3>1 DEF PingInv
  <2>5. TypeOK'
    <3>1. silence' \in Nat /\ pushed' \in Nat
      BY <1>1, <1>3, Constants DEF Tick, AtMost
    <3>2. cycled' \in BOOLEAN /\ reason' = reason
      BY <1>3, Zenon DEF Tick
    <3> QED BY <2>2, <3>1, <3>2 DEF TypeOK
  <2> QED BY <2>2, <2>3, <2>4, <2>5 DEF TimerInv
<1>4. CASE Push
  <2> DEFINE a == h.out + 1
  <2>1. h' = PushedAs(h, a)
    BY <1>4 DEF Push, PushedAs
  <2>4. a \in Nat
    BY <1>1, HeapFields
  <2>2. /\ h' \in Heap /\ h'.resends = h.resends /\ h'.out = h.out + 1
        /\ h'.sent_pings = h.sent_pings /\ h'.since_ping = h.since_ping
    <3> HIDE DEF a
    <3>1. /\ h' \in Heap /\ h'.resends = h.resends /\ h'.out = a
          /\ h'.sent_pings = h.sent_pings /\ h'.since_ping = h.since_ping
      BY <1>1, <2>1, <2>4, PushedHeap
    <3> QED BY <3>1 DEF a
  <2>3. h'.out > 0
    BY <1>1, <2>2, HeapFields
  <2> QED BY <1>1, <1>4, <2>2, <2>3 DEF Push, TypeOK, TimerInv, PingInv
<1>5. CASE Kill
  <2>1. /\ h' \in Heap /\ h'.resends = h.resends /\ h'.out = h.out
        /\ h'.sent_pings = h.sent_pings /\ h'.since_ping = h.since_ping
    BY <1>1, <1>5 DEF Kill, Heap
  <2> QED BY <1>1, <1>5, <2>1 DEF Kill, TypeOK, TimerInv, PingInv
<1>6. CASE UNCHANGED vars
  BY <1>6 DEF vars, TypeOK, TimerInv, PingInv
<1> QED BY <1>2, <1>3, <1>4, <1>5, <1>6 DEF Next

LEMMA TimerInit == Init => TypeOK /\ TimerInv
<1> SUFFICES ASSUME Init PROVE TypeOK /\ TimerInv
  OBVIOUS
<1>1. PICK p \in Nat : p = NeverPinged
  BY Constants DEF NeverPinged
<1>2. h = [out |-> 0, resends |-> 0, last_resend |-> StartResendIn, since_send |-> 0,
           sent_pings |-> 0, since_ping |-> p, deferred_kill |-> FALSE]
  BY <1>1, Zenon DEF Init
<1>3. h \in Heap /\ h.resends = 0 /\ h.sent_pings = 0
  BY <1>2, Constants DEF Heap
<1>4. reason = "alive" /\ cycled \in BOOLEAN
  BY Zenon DEF Init
<1>5. pushed \in Nat /\ silence \in Nat
  BY DEF Init
<1> QED BY <1>3, <1>4, <1>5 DEF TypeOK, TimerInv, PingInv

(* cycle() drops a heap with LogoutReasonPingTimeout only when no Pong has *)
(* arrived for PingTimeout / PingInterval whole intervals.                 *)
THEOREM PingTimeoutCorrect == SafeSpec => []NeverPingedOutEarly
<1>1. TypeOK /\ TimerInv => NeverPingedOutEarly
  <2> SUFFICES ASSUME TypeOK, TimerInv, reason = "PingTimeout"
               PROVE  silence >= MaxPings * PingInterval
    BY DEF NeverPingedOutEarly
  <2> CASE silence = MaxHistory
    BY Constants
  <2> SUFFICES ASSUME silence # MaxHistory
               PROVE  silence >= MaxPings * PingInterval
    OBVIOUS
  <2> DEFINE n == h.sent_pings
  <2>1. n \in Nat /\ h.since_ping \in Nat /\ silence \in Nat /\ MaxPings \in Nat
        /\ PingInterval \in Nat
    BY HeapFields, Constants DEF TypeOK
  <2>2. n > MaxPings /\ silence >= (n - 1) * PingInterval + h.since_ping
    BY <2>1 DEF TimerInv, PingInv
  <2> HIDE DEF n
  <2>3. n - 1 \in Nat /\ MaxPings <= n - 1
    BY <2>1, <2>2
  <2>4. MaxPings * PingInterval <= (n - 1) * PingInterval
    BY <2>1, <2>3, Monotone
  <2>5. MaxPings * PingInterval \in Nat /\ (n - 1) * PingInterval \in Nat
    BY <2>1, <2>3
  <2> QED BY <2>1, <2>2, <2>4, <2>5
<1> QED BY <1>1, TimerInit, TimerStep, PTL DEF SafeSpec

-----------------------------------------------------------------------------
(* What is sent of the paks, as a walk over positions: <<i, 0>> is the     *)
(* header of pak i, <<i, k>> its chunk k, and <<Len(Paks) + 1, 0>> the end.*)
Positions == {p \in (1 .. Len(Paks) + 1) \X Nat :
                IF p[1] <= Len(Paks) THEN p[2] <= Paks[p[1]].chunks ELSE p[2] = 0}
Header(p) == [cmd |-> "header", pak |-> p.name, at |-> p.chunks]
MessageAt(p) == IF p[2] = 0 THEN Header(Paks[p[1]]) ELSE Chunk(Paks[p[1]].name, p[2])
After(p) == IF p[2] < Paks[p[1]].chunks THEN <<p[1], p[2] + 1>> ELSE <<p[1] + 1, 0>>

(* Message m leads from position p to r; only pieces of paks lead on.      *)
OfPak == {"header", "chunk"}
Step(m, p, r) ==
    IF m.cmd \in OfPak THEN p[1] <= Len(Paks) /\ m = MessageAt(p) /\ r = After(p) ELSE r = p

(* The messages of q lead from a to b.                                     *)
Walk(q, a, b) ==
    \E f \in [1 .. Len(q) + 1 -> Positions] :
       /\ f[1] = a /\ f[Len(q) + 1] = b
       /\ \A x \in 1 .. Len(q) : Step(q[x], f[x], f[x + 1])

Message == [cmd : OfPak \cup {"ready", "quit", "status", "refused", "login", "logout"},
            pak : Names \cup {None}, at : Nat]
EventRecord == [event : {"Status", "AccessDenied", "Login", "Logout", "Data"}, msg : Message]
PakRecord == [name : STRING, chunks : Nat \ {0}]
Messages(ev) == [x \in 1 .. Len(ev) |-> ev[x].msg]

(* The server has sent everything before position c, ...                   *)
ServerAt(c) ==
    /\ sync.todo = SubSeq(Paks, c[1], Len(Paks))
    /\ IF sync.left = 0 THEN c[2] = 0
       ELSE c[1] <= Len(Paks) /\ c[2] >= 1 /\ c[2] = Paks[c[1]].chunks - sync.left + 1

(* ... and the client has taken everything before position a.              *)
ClientAt(a) ==
    /\ \A j \in 1 .. Len(Paks) :
         LET have == disk[Paks[j].name] IN
         /\ j < a[1] => have \in {<< >>, Whole(Paks[j])}
         /\ j > a[1] => have = << >>
         /\ j = a[1] /\ file.open = None => have = << >>
         /\ j = a[1] /\ file.open # None => have = SubSeq(Whole(Paks[j]), 1, a[2] - 1)
    /\ file.open # None => /\ a[1] <= Len(Paks) /\ a[2] >= 1
                           /\ file.open = Paks[a[1]].name /\ file.current = file.open
                           /\ file.remaining = Paks[a[1]].chunks - a[2] + 1
    /\ file.open = None /\ file.current # None => disk[file.current] = << >>

Downloading ==
    \E a, b, c \in Positions :
       /\ Walk(wire, b, c) /\ ServerAt(c)
       /\ IF main = "gone"
          THEN file = NoFile /\ \A j \in 1 .. Len(Paks) :
                                  disk[Paks[j].name] \in {<< >>, Whole(Paks[j])}
          ELSE ClientAt(a) /\ Walk(Messages(events), a, b)

ThreadsTyped ==
    /\ wire \in Seq(Message) /\ events \in Seq(EventRecord)
    /\ \A x \in 1 .. Len(events) : events[x].event # "Data" => events[x].msg.cmd \notin OfPak
    /\ sent \in Seq({"hashes", "ack"})
    /\ link \in {"asking", "live", "lost"} /\ thread \in {"running", "done"}
    /\ main \in {"idle", "frame", "stopping", "thrown", "joining", "cleanup", "gone"}
    /\ running \in BOOLEAN /\ conn \in BOOLEAN /\ synced \in BOOLEAN
    /\ sync \in [todo : Seq(PakRecord), left : Nat, state : {"hashes", "synced", "quit"}]
    /\ file \in [open : Names \cup {None}, remaining : Nat, current : Names \cup {None}]
    /\ disk \in [Names -> Seq(Message)]

(* The flag is down only on the way out, and whoever finds it down there   *)
(* has waited for the thread.                                              *)
Lives ==
    /\ main \in {"idle", "frame"} => running
    /\ main = "thrown" /\ ~running => thread = "done"
    /\ ThreadEndsFirst
    /\ link = "asking" => ~conn
    /\ StaleConnAnnounced

-----------------------------------------------------------------------------
(* Paks and positions.                                                     *)

LEMMA PaksTyped ==
    /\ Len(Paks) \in Nat
    /\ \A j \in 1 .. Len(Paks) :
         /\ Paks[j] \in PakRecord /\ Paks[j].chunks \in Nat /\ Paks[j].chunks > 0
         /\ Paks[j].name \in Names /\ Paks[j].name \in STRING /\ Paks[j].name # None
         /\ PakOf(Paks[j].name) = Paks[j]
         /\ \A k \in 1 .. Len(Paks) : Paks[j].name = Paks[k].name => j = k
    /\ \A n \in Names : \E j \in 1 .. Len(Paks) : n = Paks[j].name
<1>1. Paks \in Seq(PakRecord) /\ DOMAIN Paks = 1 .. Len(Paks) /\ Len(Paks) \in Nat
  BY ClientThreadsAssumption DEF PakRecord
<1>2. ASSUME NEW j \in 1 .. Len(Paks)
      PROVE  /\ Paks[j] \in PakRecord /\ Paks[j].chunks \in Nat /\ Paks[j].chunks > 0
             /\ Paks[j].name \in Names /\ Paks[j].name \in STRING /\ Paks[j].name # None
             /\ \A k \in 1 .. Len(Paks) : Paks[j].name = Paks[k].name => j = k
  <2>1. Paks[j] \in PakRecord /\ j \in DOMAIN Paks
    BY <1>1
  <2>2. Paks[j].name \in STRING /\ Paks[j].chunks \in Nat /\ Paks[j].chunks > 0
    BY <2>1 DEF PakRecord
  <2>3. Paks[j].name \in Names
    BY <2>1 DEF Names
  <2>4. \A k \in 1 .. Len(Paks) : Paks[j].name = Paks[k].name => j = k
    BY <1>1, ClientThreadsAssumption
  <2>5. Paks[j].name # None
    BY <2>3, ClientThreadsAssumption
  <2> QED
    BY <2>1, <2>2, <2>3, <2>4, <2>5
<1>3. ASSUME NEW j \in 1 .. Len(Paks)
      PROVE  PakOf(Paks[j].name) = Paks[j]
  <2>1. \A k \in DOMAIN Paks : Paks[k].name = Paks[j].name => k = j
    BY <1>1, <1>2
  <2>2. (CHOOSE k \in DOMAIN Paks : Paks[k].name = Paks[j].name) = j
    BY <1>1, <2>1
  <2> QED
    BY <2>2 DEF PakOf
<1> QED
  BY <1>1, <1>2, <1>3 DEF Names

LEMMA AfterTyped ==
    ASSUME NEW p \in Positions, p[1] <= Len(Paks)
    PROVE  After(p) \in Positions
BY PaksTyped DEF Positions, After

LEMMA WalkNowhere ==
    ASSUME NEW a \in Positions
    PROVE  Walk(<< >>, a, a)
<1> DEFINE f == [x \in {1} |-> a]
<1>1. Len(<< >>) = 0 /\ Len(<< >>) + 1 = 1 /\ 1 .. Len(<< >>) + 1 = {1} /\ 1 .. Len(<< >>) = {}
  OBVIOUS
<1>2. f \in [1 .. Len(<< >>) + 1 -> Positions] /\ f[1] = a /\ f[Len(<< >>) + 1] = a
  BY <1>1
<1> QED
  BY <1>1, <1>2 DEF Walk

LEMMA WalkAppend ==
    ASSUME NEW q \in Seq(Message), NEW m \in Message, NEW a \in Positions, NEW b \in Positions,
           NEW c \in Positions, Walk(q, a, b), Step(m, b, c)
    PROVE  Walk(Append(q, m), a, c)
<1> DEFINE n == Len(q)
<1>1. n \in Nat /\ Len(Append(q, m)) = n + 1
      /\ (\A x \in 1 .. n : Append(q, m)[x] = q[x]) /\ Append(q, m)[n + 1] = m
  OBVIOUS
<1>2. PICK f \in [1 .. n + 1 -> Positions] :
         /\ f[1] = a /\ f[n + 1] = b
         /\ \A x \in 1 .. n : Step(q[x], f[x], f[x + 1])
  BY DEF Walk
<1> DEFINE g == [x \in 1 .. n + 2 |-> IF x <= n + 1 THEN f[x] ELSE c]
<1> HIDE DEF n
<1>3. g \in [1 .. n + 2 -> Positions] /\ g[1] = a /\ g[n + 1] = b /\ g[n + 2] = c
      /\ \A x \in 1 .. n : g[x] = f[x] /\ g[x + 1] = f[x + 1]
  BY <1>1, <1>2
<1> HIDE DEF g
<1>4. \A x \in 1 .. n + 1 : Step(Append(q, m)[x], g[x], g[x + 1])
  <2> TAKE x \in 1 .. n + 1
  <2>1. CASE x = n + 1
    <3>1. x + 1 = n + 2
      BY <1>1, <2>1
    <3> QED
      BY <1>1, <1>3, <2>1, <3>1
  <2>2. CASE x # n + 1
    <3>1. x \in 1 .. n
      BY <1>1, <2>2
    <3> QED
      BY <1>1, <1>2, <1>3, <3>1
  <2> QED
    BY <2>1, <2>2
<1>5. (n + 1) + 1 = n + 2
  BY <1>1
<1> QED
  BY <1>1, <1>3, <1>4, <1>5 DEF Walk

LEMMA WalkTail ==
    ASSUME NEW q \in Seq(Message), q # << >>, NEW a \in Positions, NEW b \in Positions, Walk(q, a, b)
    PROVE  \E c \in Positions : Step(Head(q), a, c) /\ Walk(Tail(q), c, b)
<1> DEFINE n == Len(q)
<1>1. n \in Nat /\ n >= 1 /\ Len(Tail(q)) = n - 1 /\ Head(q) = q[1]
      /\ \A x \in 1 .. n - 1 : Tail(q)[x] = q[x + 1]
  OBVIOUS
<1>2. PICK f \in [1 .. n + 1 -> Positions] :
         /\ f[1] = a /\ f[n + 1] = b
         /\ \A x \in 1 .. n : Step(q[x], f[x], f[x + 1])
  BY DEF Walk
<1> DEFINE g == [x \in 1 .. n |-> f[x + 1]]
<1> HIDE DEF n
<1>3. g \in [1 .. n -> Positions] /\ g[1] = f[2] /\ g[n] = b
      /\ \A x \in 1 .. n - 1 : g[x] = f[x + 1] /\ g[x + 1] = f[(x + 1) + 1]
  BY <1>1, <1>2
<1> HIDE DEF g
<1>4. \A x \in 1 .. n - 1 : Step(Tail(q)[x], g[x], g[x + 1])
  <2> TAKE x \in 1 .. n - 1
  <2>1. x + 1 \in 1 .. n
    BY <1>1
  <2> QED
    BY <1>1, <1>2, <1>3, <2>1
<1>5. (n - 1) + 1 = n /\ 1 \in 1 .. n /\ 1 + 1 = 2 /\ 2 \in 1 .. n + 1
  BY <1>1
<1>6. Walk(Tail(q), f[2], b)
  BY <1>1, <1>3, <1>4, <1>5 DEF Walk
<1> QED
  BY <1>1, <1>2, <1>5, <1>6

LEMMA EventFields ==
    ASSUME NEW ev \in Seq(EventRecord)
    PROVE  \A x \in 1 .. Len(ev) : ev[x] \in EventRecord /\ ev[x].msg \in Message
<1>1. \A e \in EventRecord : e.msg \in Message
  BY DEF EventRecord
<1>2. \A x \in 1 .. Len(ev) : ev[x] \in EventRecord
  OBVIOUS
<1> QED
  BY <1>1, <1>2

LEMMA MessagesAppend ==
    ASSUME NEW ev \in Seq(EventRecord), NEW e \in EventRecord
    PROVE  /\ Messages(ev) \in Seq(Message) /\ e.msg \in Message
           /\ Messages(Append(ev, e)) = Append(Messages(ev), e.msg)
<1>1. e.msg \in Message /\ \A x \in 1 .. Len(ev) : ev[x].msg \in Message
  BY EventFields DEF EventRecord
<1>2. Messages(ev) \in Seq(Message)
  BY <1>1 DEF Messages
<1> QED
  BY <1>1, <1>2 DEF Messages

LEMMA MessagesTail ==
    ASSUME NEW ev \in Seq(EventRecord), ev # << >>
    PROVE  /\ Messages(ev) \in Seq(Message) /\ Messages(ev) # << >>
           /\ Messages(Tail(ev)) = Tail(Messages(ev))
           /\ Head(Messages(ev)) = Head(ev).msg
<1>1. \A x \in 1 .. Len(ev) : ev[x].msg \in Message
  BY EventFields
<1>2. Messages(ev) \in Seq(Message) /\ Len(Messages(ev)) = Len(ev) /\ Len(ev) >= 1
  BY <1>1 DEF Messages
<1> QED
  BY <1>1, <1>2 DEF Messages

(* The paks still to send are the last ones.                               *)
LEMMA TodoIs ==
    ASSUME NEW i \in 1 .. Len(Paks) + 1
    PROVE  LET todo == SubSeq(Paks, i, Len(Paks)) IN
           /\ todo = << >> <=> i = Len(Paks) + 1
           /\ i <= Len(Paks) => /\ Head(todo) = Paks[i]
                                /\ Tail(todo) = SubSeq(Paks, i + 1, Len(Paks))
<1>1. Paks \in Seq(PakRecord) /\ Len(Paks) \in Nat
  BY ClientThreadsAssumption DEF PakRecord
<1>2. SubSeq(Paks, i, Len(Paks)) \in Seq(PakRecord)
      /\ Len(SubSeq(Paks, i, Len(Paks))) = Len(Paks) - i + 1
      /\ \A x \in 1 .. Len(Paks) - i + 1 : SubSeq(Paks, i, Len(Paks))[x] = Paks[i + x - 1]
  BY <1>1
<1>3. SubSeq(Paks, i, Len(Paks)) = << >> <=> i = Len(Paks) + 1
  <2> DEFINE t == SubSeq(Paks, i, Len(Paks))
  <2>1. t \in Seq(PakRecord) /\ Len(t) = Len(Paks) - i + 1
    BY <1>2
  <2> HIDE DEF t
  <2>2. t = << >> <=> Len(t) = 0
    BY <2>1
  <2>3. t = << >> <=> i = Len(Paks) + 1
    BY <1>1, <2>1, <2>2
  <2> QED
    BY <2>3 DEF t
<1>4. ASSUME i <= Len(Paks)
      PROVE  Head(SubSeq(Paks, i, Len(Paks))) = Paks[i]
             /\ Tail(SubSeq(Paks, i, Len(Paks))) = SubSeq(Paks, i + 1, Len(Paks))
  BY <1>1, <1>2, <1>4
<1> QED
  BY <1>3, <1>4

(* One more chunk of a pak.                                                *)
LEMMA WholeIs ==
    ASSUME NEW j \in 1 .. Len(Paks)
    PROVE  LET p == Paks[j]
           IN  /\ Whole(p) \in Seq(Message) /\ Len(Whole(p)) = p.chunks /\ Whole(p) # << >>
               /\ SubSeq(Whole(p), 1, p.chunks) = Whole(p)
               /\ SubSeq(Whole(p), 1, 0) = << >>
               /\ \A k \in 1 .. p.chunks :
                    /\ Append(SubSeq(Whole(p), 1, k - 1), Chunk(p.name, k)) = SubSeq(Whole(p), 1, k)
                    /\ SubSeq(Whole(p), 1, k - 1) # Whole(p)
<1> DEFINE n == Paks[j].chunks
           w == Whole(Paks[j])
<1>1. n \in Nat /\ n > 0 /\ Paks[j].name \in Names
  BY PaksTyped
<1>2. \A k \in 1 .. n : Chunk(Paks[j].name, k) \in Message
  BY <1>1 DEF Chunk, Message, OfPak
<1>3. w \in Seq(Message) /\ Len(w) = n /\ \A k \in 1 .. n : w[k] = Chunk(Paks[j].name, k)
  BY <1>1, <1>2 DEF Whole
<1> HIDE DEF w
<1>4. w # << >> /\ SubSeq(w, 1, n) = w /\ SubSeq(w, 1, 0) = << >>
  BY <1>1, <1>3
<1>5. ASSUME NEW k \in 1 .. n
      PROVE  Append(SubSeq(w, 1, k - 1), w[k]) = SubSeq(w, 1, k) /\ SubSeq(w, 1, k - 1) # w
  <2>1. k - 1 \in 0 .. n /\ k \in 0 .. n /\ k - 1 < n
    BY <1>1
  <2>2. Len(SubSeq(w, 1, k - 1)) = k - 1 /\ Len(SubSeq(w, 1, k)) = k
    BY <1>1, <1>3, <2>1
  <2>3. Append(SubSeq(w, 1, k - 1), w[k]) = SubSeq(w, 1, k)
    BY <1>1, <1>3, <2>1, <2>2
  <2> QED
    BY <1>3, <2>1, <2>2, <2>3
<1> QED
  BY <1>1, <1>3, <1>4, <1>5 DEF w

-----------------------------------------------------------------------------
(* Types.                                                                  *)

LEMMA SayTyped ==
    /\ \A s \in {"ready", "quit", "status", "refused", "login", "logout"} :
         Say(s) \in Message /\ Say(s).cmd = s /\ Say(s).cmd \notin OfPak
    /\ \A e \in {"Status", "AccessDenied", "Login", "Logout", "Data"}, m \in Message :
         Event(e, m) \in EventRecord /\ Event(e, m).msg = m /\ Event(e, m).event = e
BY DEF Say, Message, OfPak, Event, EventRecord

LEMMA PieceTyped ==
    ASSUME NEW p \in Positions, p[1] <= Len(Paks)
    PROVE  MessageAt(p) \in Message /\ MessageAt(p).cmd \in OfPak
<1>1. p[1] \in 1 .. Len(Paks) /\ p[2] \in Nat
  BY PaksTyped DEF Positions
<1>2. Paks[p[1]].name \in Names /\ Paks[p[1]].chunks \in Nat
  BY <1>1, PaksTyped
<1> QED
  BY <1>1, <1>2 DEF MessageAt, Header, Chunk, Message, OfPak

(* A message of a pak is in no event but Data.                             *)
LEMMA Queued ==
    ASSUME ThreadsTyped, NEW e \in {"Status", "AccessDenied", "Login", "Logout", "Data"},
           NEW m \in Message, e # "Data" => m.cmd \notin OfPak, Queue(e, m)
    PROVE  /\ events' \in Seq(EventRecord)
           /\ \A x \in 1 .. Len(events') : events'[x].event # "Data" => events'[x].msg.cmd \notin OfPak
<1>1. events \in Seq(EventRecord) /\ events' = Append(events, Event(e, m))
  BY DEF ThreadsTyped, Queue
<1>2. Event(e, m) \in EventRecord /\ Event(e, m).msg = m /\ Event(e, m).event = e
  BY SayTyped
<1> QED
  BY <1>1, <1>2 DEF ThreadsTyped

LEMMA Dequeued ==
    ASSUME ThreadsTyped, events # << >>
    PROVE  /\ Tail(events) \in Seq(EventRecord)
           /\ \A x \in 1 .. Len(Tail(events)) :
                 Tail(events)[x].event # "Data" => Tail(events)[x].msg.cmd \notin OfPak
           /\ Head(events) \in EventRecord /\ Head(events).msg \in Message
           /\ Head(events).event # "Data" => Head(events).msg.cmd \notin OfPak
<1>1. events \in Seq(EventRecord)
  BY DEF ThreadsTyped
<1>2. Tail(events) \in Seq(EventRecord) /\ Len(Tail(events)) = Len(events) - 1 /\ Head(events) = events[1]
      /\ Len(events) >= 1 /\ \A x \in 1 .. Len(events) - 1 : Tail(events)[x] = events[x + 1]
  BY <1>1
<1>3. events[1] \in EventRecord /\ events[1].msg \in Message
  BY <1>1, <1>2, EventFields
<1> QED
  BY <1>1, <1>2, <1>3 DEF ThreadsTyped

(* What the server sends.                                                  *)
LEMMA SentTyped ==
    ASSUME ThreadsTyped, NEW c \in Positions, ServerAt(c), sync.todo # << >>
    PROVE  /\ c[1] \in 1 .. Len(Paks) /\ Head(sync.todo) = Paks[c[1]]
           /\ Tail(sync.todo) = SubSeq(Paks, c[1] + 1, Len(Paks))
           /\ sync.left = 0 => /\ c = <<c[1], 0>>
                               /\ Pieces(Paks[c[1]]) = <<MessageAt(c), MessageAt(After(c))>>
                               /\ After(c) = <<c[1], 1>> /\ After(c) \in Positions
           /\ sync.left # 0 => Pieces(Paks[c[1]]) = <<MessageAt(c)>>
<1>1. c[1] \in 1 .. Len(Paks) + 1 /\ c[2] \in Nat /\ c = <<c[1], c[2]>>
  BY DEF Positions
<1>2. c[1] # Len(Paks) + 1
  BY <1>1, TodoIs DEF ServerAt
<1>3. c[1] \in 1 .. Len(Paks)
  <2>1. Len(Paks) \in Nat
    BY PaksTyped
  <2> QED
    BY <1>1, <1>2, <2>1
<1>4. Head(sync.todo) = Paks[c[1]] /\ Tail(sync.todo) = SubSeq(Paks, c[1] + 1, Len(Paks))
  <2>1. sync.todo = SubSeq(Paks, c[1], Len(Paks)) /\ c[1] <= Len(Paks)
    BY <1>3 DEF ServerAt
  <2> QED
    BY <1>1, <2>1, TodoIs
<1>5. Paks[c[1]].chunks \in Nat /\ Paks[c[1]].chunks > 0
  BY <1>3, PaksTyped
<1>6. ASSUME sync.left = 0
      PROVE  /\ c = <<c[1], 0>>
             /\ Pieces(Paks[c[1]]) = <<MessageAt(c), MessageAt(After(c))>>
             /\ After(c) = <<c[1], 1>> /\ After(c) \in Positions
  <2>1. c[2] = 0 /\ c = <<c[1], 0>>
    BY <1>1, <1>6 DEF ServerAt
  <2>2. After(c) = <<c[1], 1>>
    BY <1>5, <2>1 DEF After
  <2>3. After(c) \in Positions
    BY <1>3, AfterTyped
  <2>4. <<c[1], 1>>[1] = c[1] /\ <<c[1], 1>>[2] = 1
    OBVIOUS
  <2>5. MessageAt(c) = Header(Paks[c[1]]) /\ MessageAt(After(c)) = Chunk(Paks[c[1]].name, 1)
    BY <2>1, <2>2, <2>4 DEF MessageAt
  <2> QED
    BY <1>6, <2>1, <2>2, <2>3, <2>5 DEF Pieces, Header
<1>7. ASSUME sync.left # 0
      PROVE  Pieces(Paks[c[1]]) = <<MessageAt(c)>>
  <2>1. c[2] >= 1 /\ c[2] = Paks[c[1]].chunks - sync.left + 1 /\ c[2] # 0
    BY <1>1, <1>7 DEF ServerAt
  <2> QED
    BY <1>7, <2>1 DEF Pieces, MessageAt
<1> QED
  BY <1>3, <1>4, <1>6, <1>7

LEMMA TwoAppends ==
    ASSUME NEW q \in Seq(Message), NEW x \in Message, NEW y \in Message
    PROVE  /\ q \o <<x>> = Append(q, x) /\ q \o <<x, y>> = Append(Append(q, x), y)
           /\ Append(q, x) \in Seq(Message) /\ Append(Append(q, x), y) \in Seq(Message)
OBVIOUS

(* The pieces of a pak lead on to where the server is after them.          *)
LEMMA SendPieceWalks ==
    ASSUME ThreadsTyped, NEW b \in Positions, NEW c \in Positions,
           ServerAt(c), Walk(wire, b, c), sync.todo # << >>, SendPiece
    PROVE  /\ wire' \in Seq(Message)
           /\ \E d \in Positions : Walk(wire', b, d) /\ ServerAt(d)'
<1> DEFINE i == c[1]
           n == Paks[i].chunks
<1>1. /\ i \in 1 .. Len(Paks) /\ Head(sync.todo) = Paks[i]
      /\ Tail(sync.todo) = SubSeq(Paks, i + 1, Len(Paks)) /\ sync.todo = SubSeq(Paks, i, Len(Paks))
      /\ c \in (1 .. Len(Paks) + 1) \X Nat
  BY SentTyped DEF ServerAt, Positions
<1>2. n \in Nat /\ n > 0 /\ Len(Paks) \in Nat
  BY <1>1, PaksTyped
<1>3. wire \in Seq(Message) /\ MessageAt(c) \in Message /\ MessageAt(c).cmd \in OfPak
      /\ After(c) \in Positions /\ Step(MessageAt(c), c, After(c))
  <2>1. c[1] <= Len(Paks)
    BY <1>1, <1>2
  <2>2. wire \in Seq(Message) /\ MessageAt(c) \in Message /\ MessageAt(c).cmd \in OfPak
        /\ After(c) \in Positions
    BY <2>1, PieceTyped, AfterTyped DEF ThreadsTyped
  <2> QED
    BY <2>1, <2>2 DEF Step
<1>4. sync.left \in Nat /\ sync \in [todo : Seq(PakRecord), left : Nat, state : {"hashes", "synced", "quit"}]
  BY DEF ThreadsTyped
<1>5. CASE sync.left = 0
  <2> DEFINE d == After(After(c))
  <2>1. /\ c = <<i, 0>> /\ After(c) = <<i, 1>>
        /\ Pieces(Paks[i]) = <<MessageAt(c), MessageAt(After(c))>>
    BY <1>5, SentTyped
  <2>2. <<i, 1>>[1] = i /\ <<i, 1>>[2] = 1
    OBVIOUS
  <2>3. MessageAt(After(c)) \in Message /\ MessageAt(After(c)).cmd \in OfPak
        /\ d \in Positions /\ Step(MessageAt(After(c)), After(c), d)
    BY <1>1, <1>2, <1>3, <2>1, <2>2, PieceTyped, AfterTyped DEF Step
  <2>4. wire' = Append(Append(wire, MessageAt(c)), MessageAt(After(c)))
        /\ Append(wire, MessageAt(c)) \in Seq(Message) /\ wire' \in Seq(Message)
    <3>1. wire' = wire \o <<MessageAt(c), MessageAt(After(c))>>
      BY <1>1, <2>1 DEF SendPiece
    <3> QED
      BY <1>3, <2>3, <3>1, TwoAppends
  <2>5. Walk(wire', b, d)
    BY <1>3, <2>3, <2>4, WalkAppend
  <2>6. sync'.left = n - 1 /\ sync'.todo = IF n - 1 = 0 THEN Tail(sync.todo) ELSE sync.todo
    BY <1>1, <1>4, <1>5 DEF SendPiece
  <2>7. d = IF 1 < n THEN <<i, 2>> ELSE <<i + 1, 0>>
    BY <2>1, <2>2 DEF After
  <2>8. <<i, 2>>[1] = i /\ <<i, 2>>[2] = 2 /\ <<i + 1, 0>>[1] = i + 1 /\ <<i + 1, 0>>[2] = 0
    OBVIOUS
  <2> HIDE DEF d, n, i
  <2>9. CASE 1 < n
    <3>1. d[1] = i /\ d[2] = 2 /\ sync'.left # 0 /\ sync'.todo = sync.todo /\ d[2] = n - sync'.left + 1
      BY <1>2, <2>6, <2>7, <2>8, <2>9
    <3>2. ServerAt(d)'
      BY <1>1, <3>1, PaksTyped DEF ServerAt, n
    <3> QED
      BY <2>3, <2>4, <2>5, <3>2 DEF d
  <2>10. CASE ~(1 < n)
    <3>1. d[1] = i + 1 /\ d[2] = 0 /\ sync'.left = 0 /\ sync'.todo = Tail(sync.todo)
      BY <1>2, <2>6, <2>7, <2>8, <2>10
    <3>2. ServerAt(d)'
      BY <1>1, <3>1 DEF ServerAt
    <3> QED
      BY <2>3, <2>4, <2>5, <3>2 DEF d
  <2> QED
    BY <2>9, <2>10
<1>6. CASE sync.left # 0
  <2> DEFINE d == After(c)
  <2>1. wire' = Append(wire, MessageAt(c)) /\ wire' \in Seq(Message)
    BY ZenonT(40), <1>1, <1>3, <1>6, SentTyped, TwoAppends DEF SendPiece
  <2>2. Walk(wire', b, d)
    BY <1>3, <2>1, WalkAppend
  <2>3. /\ sync'.left = sync.left - 1
        /\ sync'.todo = IF sync.left - 1 = 0 THEN Tail(sync.todo) ELSE sync.todo
    BY <1>1, <1>4, <1>6 DEF SendPiece
  <2>4. c[2] \in Nat /\ c[2] >= 1 /\ c[2] = n - sync.left + 1
    BY <1>1, <1>6 DEF ServerAt
  <2>5. d = IF c[2] < n THEN <<i, c[2] + 1>> ELSE <<i + 1, 0>>
    BY DEF After
  <2>6. <<i, c[2] + 1>>[1] = i /\ <<i, c[2] + 1>>[2] = c[2] + 1 /\ <<i + 1, 0>>[1] = i + 1 /\ <<i + 1, 0>>[2] = 0
    OBVIOUS
  <2>7. d \in Positions
    BY <1>3
  <2> HIDE DEF d, n, i
  <2>8. CASE c[2] < n
    <3>1. d[1] = i /\ d[2] = c[2] + 1 /\ sync'.left # 0 /\ sync'.todo = sync.todo /\ d[2] = n - sync'.left + 1
      BY <1>2, <1>4, <2>3, <2>4, <2>5, <2>6, <2>8
    <3>2. ServerAt(d)'
      BY <1>1, <2>4, <3>1, PaksTyped DEF ServerAt, n
    <3> QED
      BY <2>1, <2>2, <2>7, <3>2
  <2>9. CASE ~(c[2] < n)
    <3>1. d[1] = i + 1 /\ d[2] = 0 /\ sync'.left = 0 /\ sync'.todo = Tail(sync.todo)
      BY <1>2, <1>4, <1>6, <2>3, <2>4, <2>5, <2>6, <2>9
    <3>2. ServerAt(d)'
      BY <1>1, <3>1 DEF ServerAt
    <3> QED
      BY <2>1, <2>2, <2>7, <3>2
  <2> QED
    BY <2>8, <2>9
<1> QED
  BY <1>5, <1>6

-----------------------------------------------------------------------------
(* The client takes the next piece.                                        *)

LEMMA PieceIs ==
    ASSUME NEW a \in Positions, NEW r, NEW m, m.cmd \in OfPak, Step(m, a, r)
    PROVE  /\ a[1] \in 1 .. Len(Paks) /\ a[2] \in 0 .. Paks[a[1]].chunks
           /\ r = After(a) /\ r \in Positions
           /\ m.pak = Paks[a[1]].name
           /\ m.cmd = "header" => a[2] = 0 /\ m.at = Paks[a[1]].chunks /\ r[1] = a[1] /\ r[2] = 1
           /\ m.cmd = "chunk" => /\ a[2] >= 1 /\ m = Chunk(Paks[a[1]].name, a[2])
                                 /\ a[2] < Paks[a[1]].chunks => r[1] = a[1] /\ r[2] = a[2] + 1
                                 /\ a[2] = Paks[a[1]].chunks => r[1] = a[1] + 1 /\ r[2] = 0
<1>1. a[1] <= Len(Paks) /\ m = MessageAt(a) /\ r = After(a)
  BY DEF Step
<1>2. a[1] \in 1 .. Len(Paks) + 1 /\ a[2] \in Nat /\ a[2] <= Paks[a[1]].chunks
  BY <1>1 DEF Positions
<1>3. a[1] \in 1 .. Len(Paks)
  BY <1>1, <1>2, PaksTyped
<1>4. Paks[a[1]].chunks \in Nat /\ Paks[a[1]].chunks > 0
  BY <1>3, PaksTyped
<1>5. r \in Positions
  BY <1>1, AfterTyped
<1>6. m = IF a[2] = 0 THEN [cmd |-> "header", pak |-> Paks[a[1]].name, at |-> Paks[a[1]].chunks]
          ELSE [cmd |-> "chunk", pak |-> Paks[a[1]].name, at |-> a[2]]
  BY <1>1 DEF MessageAt, Header, Chunk
<1>7. /\ m.pak = Paks[a[1]].name
      /\ m.cmd = "header" => a[2] = 0 /\ m.at = Paks[a[1]].chunks
  BY <1>6
<1>8. m.cmd = "chunk" => a[2] # 0 /\ m = Chunk(Paks[a[1]].name, a[2])
  BY <1>6 DEF Chunk
<1>9. r = IF a[2] < Paks[a[1]].chunks THEN <<a[1], a[2] + 1>> ELSE <<a[1] + 1, 0>>
  BY <1>1 DEF After
<1>10. a[2] < Paks[a[1]].chunks => r[1] = a[1] /\ r[2] = a[2] + 1
  BY <1>9
<1>11. a[2] = Paks[a[1]].chunks => r[1] = a[1] + 1 /\ r[2] = 0
  BY <1>2, <1>9
<1>12. a[2] \in 0 .. Paks[a[1]].chunks
  BY <1>2, <1>4
<1>13. m.cmd = "header" => r[1] = a[1] /\ r[2] = 1
  BY <1>4, <1>7, <1>10
<1>14. m.cmd = "chunk" => a[2] >= 1
  BY <1>2, <1>8
<1> QED
  BY <1>1, <1>3, <1>5, <1>7, <1>8, <1>10, <1>11, <1>12, <1>13, <1>14

LEMMA HeaderTaken ==
    ASSUME ThreadsTyped, NEW a \in Positions, NEW r, ClientAt(a), NEW m \in Message,
           m.cmd = "header", Step(m, a, r), XferHeader(m)
    PROVE  /\ ClientAt(r)' /\ disk' = disk
           /\ file' \in [open : Names \cup {None}, remaining : Nat, current : Names \cup {None}]
<1> DEFINE i == a[1]
           n == Paks[i].name
<1>1. /\ i \in 1 .. Len(Paks) /\ a[2] = 0 /\ m.pak = n /\ m.at = Paks[i].chunks
      /\ r[1] = i /\ r[2] = 1
  BY PieceIs DEF OfPak
<1>2. /\ n \in Names /\ n # None /\ Paks[i].chunks \in Nat /\ Len(Paks) \in Nat /\ i \in Nat
      /\ \A j \in 1 .. Len(Paks) : Paks[j].name \in Names /\ (Paks[j].name = n => j = i)
  BY <1>1, PaksTyped
<1>3. file.open = None
  BY <1>1 DEF ClientAt
<1>4. disk[n] = << >>
  BY <1>1, <1>3 DEF ClientAt
<1>5. disk \in [Names -> Seq(Message)] /\ file \in [open : Names \cup {None}, remaining : Nat, current : Names \cup {None}]
  BY DEF ThreadsTyped
<1>6. disk' = disk
  BY <1>1, <1>2, <1>3, <1>4, <1>5 DEF XferHeader
<1>7. SubSeq(Whole(Paks[i]), 1, 0) = << >> /\ r[2] - 1 = 0
  BY <1>1, WholeIs
<1>8. CASE file' = [open |-> m.pak, remaining |-> m.at, current |-> m.pak]
  <2>1. file'.open = n /\ file'.current = n /\ file'.remaining = Paks[i].chunks
        /\ file' \in [open : Names \cup {None}, remaining : Nat, current : Names \cup {None}]
    BY <1>1, <1>2, <1>8
  <2> HIDE DEF n, i
  <2>2. ASSUME NEW j \in 1 .. Len(Paks)
        PROVE  LET have == disk[Paks[j].name] IN
               /\ j < r[1] => have \in {<< >>, Whole(Paks[j])}
               /\ j > r[1] => have = << >>
               /\ j = r[1] => have = SubSeq(Whole(Paks[j]), 1, r[2] - 1)
    BY <1>1, <1>3, <1>4, <1>7 DEF ClientAt, i, n
  <2>3. r[1] <= Len(Paks) /\ r[2] >= 1 /\ file'.open = Paks[r[1]].name
        /\ file'.remaining = Paks[r[1]].chunks - r[2] + 1
    BY <1>1, <1>2, <2>1 DEF n
  <2> QED
    BY <1>2, <1>6, <2>1, <2>2, <2>3 DEF ClientAt
<1>9. CASE file' = [file EXCEPT !.current = m.pak]
  <2>1. file'.open = None /\ file'.current = n
        /\ file' \in [open : Names \cup {None}, remaining : Nat, current : Names \cup {None}]
    BY <1>1, <1>2, <1>3, <1>5, <1>9
  <2> HIDE DEF n, i
  <2>2. ASSUME NEW j \in 1 .. Len(Paks)
        PROVE  LET have == disk[Paks[j].name] IN
               /\ j < r[1] => have \in {<< >>, Whole(Paks[j])}
               /\ j > r[1] => have = << >>
               /\ j = r[1] => have = << >>
    BY <1>1, <1>3, <1>4 DEF ClientAt, i, n
  <2> QED
    BY <1>2, <1>4, <1>6, <2>1, <2>2 DEF ClientAt
<1> QED
  BY <1>3, <1>8, <1>9 DEF XferHeader

LEMMA ChunkTaken ==
    ASSUME ThreadsTyped, NEW a \in Positions, NEW r, ClientAt(a), NEW m \in Message,
           m.cmd = "chunk", Step(m, a, r), XferDataChunk(m)
    PROVE  /\ ClientAt(r)'
           /\ file' \in [open : Names \cup {None}, remaining : Nat, current : Names \cup {None}]
           /\ disk' \in [Names -> Seq(Message)]
           /\ \A k \in 1 .. Len(Paks) : disk[Paks[k].name] = Whole(Paks[k])
                                        => disk'[Paks[k].name] = disk[Paks[k].name]
<1> DEFINE i == a[1]
           n == Paks[i].name
           last == Paks[i].chunks
           w == Whole(Paks[i])
<1>1. /\ i \in 1 .. Len(Paks) /\ a[2] \in 1 .. last /\ m = Chunk(n, a[2])
      /\ a[2] < last => r[1] = i /\ r[2] = a[2] + 1
      /\ a[2] = last => r[1] = i + 1 /\ r[2] = 0
  BY PieceIs DEF OfPak
<1>2. /\ n \in Names /\ n # None /\ last \in Nat /\ Len(Paks) \in Nat /\ i \in Nat /\ a[2] \in Nat
      /\ \A j \in 1 .. Len(Paks) : Paks[j].name \in Names /\ (Paks[j].name = n => j = i)
  BY <1>1, PaksTyped
<1>3. disk \in [Names -> Seq(Message)]
      /\ file \in [open : Names \cup {None}, remaining : Nat, current : Names \cup {None}]
  BY DEF ThreadsTyped
<1>4. /\ SubSeq(w, 1, last) = w /\ SubSeq(w, 1, a[2] - 1) # w
      /\ Append(SubSeq(w, 1, a[2] - 1), m) = SubSeq(w, 1, a[2])
  BY <1>1, WholeIs
<1>5. a[2] < last \/ a[2] = last
  BY <1>1, <1>2
<1>6. CASE file.open = None
  <2>1. file' = file /\ disk' = disk
    BY <1>6 DEF XferDataChunk
  <2> HIDE DEF n, i, last, w
  <2>2. ASSUME NEW j \in 1 .. Len(Paks)
        PROVE  LET have == disk[Paks[j].name] IN
               /\ j < r[1] => have \in {<< >>, Whole(Paks[j])}
               /\ j > r[1] => have = << >>
               /\ j = r[1] => have = << >>
    BY <1>1, <1>2, <1>5, <1>6 DEF ClientAt, i, n
  <2> QED
    BY <1>3, <1>6, <2>1, <2>2 DEF ClientAt
<1>7. CASE file.open # None
  <2>1. /\ file.open = n /\ file.current = n /\ file.remaining = last - a[2] + 1
        /\ disk[n] = SubSeq(w, 1, a[2] - 1)
    BY <1>1, <1>2, <1>7 DEF ClientAt
  <2>2. /\ disk' = [disk EXCEPT ![n] = Append(@, m)]
        /\ file' = IF file.remaining > 1 THEN [file EXCEPT !.remaining = @ - 1] ELSE NoFile
    BY <1>7, <2>1 DEF XferDataChunk
  <2> HIDE DEF n, i, last, w
  <2>3. disk'[n] = SubSeq(w, 1, a[2]) /\ disk' \in [Names -> Seq(Message)]
        /\ \A j \in 1 .. Len(Paks) : j # i => disk'[Paks[j].name] = disk[Paks[j].name]
    <3>1. Append(disk[n], m) = SubSeq(w, 1, a[2]) /\ Append(disk[n], m) \in Seq(Message)
      <4>1. disk[n] \in Seq(Message)
        BY <1>2, <1>3
      <4>2. Append(disk[n], m) \in Seq(Message)
        BY <4>1
      <4>3. Append(disk[n], m) = SubSeq(w, 1, a[2])
        BY <1>4, <2>1, Zenon
      <4> QED
        BY <4>2, <4>3
    <3>2. disk' = [disk EXCEPT ![n] = Append(disk[n], m)]
      BY <2>2
    <3> QED
      BY <1>2, <1>3, <3>1, <3>2
  <2>4. \A k \in 1 .. Len(Paks) : disk[Paks[k].name] = Whole(Paks[k])
                                 => disk'[Paks[k].name] = disk[Paks[k].name]
    BY <1>4, <2>1, <2>3 DEF n, i, w
  <2>5. CASE a[2] < last
    <3>1. r[1] = i /\ r[2] = a[2] + 1 /\ r[2] - 1 = a[2] /\ r[2] >= 1
      BY <1>1, <1>2, <2>5
    <3>2. /\ file' \in [open : Names \cup {None}, remaining : Nat, current : Names \cup {None}]
          /\ file'.open = n /\ file'.current = n /\ file'.remaining = last - r[2] + 1
      <4>1. file.remaining > 1 /\ file.remaining - 1 \in Nat /\ file.remaining - 1 = last - r[2] + 1
        <5>1. file.remaining = last - a[2] + 1 /\ last \in Nat /\ a[2] \in Nat /\ r[2] = a[2] + 1
          BY <1>2, <2>1, <3>1, Zenon
        <5> QED
          BY <2>5, <5>1
      <4>2. file' = [file EXCEPT !.remaining = file.remaining - 1]
        BY <2>2, <4>1
      <4> QED
        BY <1>3, <2>1, <4>1, <4>2
    <3>3. ASSUME NEW j \in 1 .. Len(Paks)
          PROVE  LET have == disk'[Paks[j].name] IN
                 /\ j < r[1] => have \in {<< >>, Whole(Paks[j])}
                 /\ j > r[1] => have = << >>
                 /\ j = r[1] => have = SubSeq(Whole(Paks[j]), 1, r[2] - 1)
      <4>1. CASE j = i
        <5>1. disk'[Paks[j].name] = SubSeq(Whole(Paks[j]), 1, r[2] - 1)
          BY <2>3, <3>1, <4>1 DEF n, w
        <5> QED
          BY <1>2, <3>1, <4>1, <5>1
      <4>2. CASE j # i
        <5>1. disk'[Paks[j].name] = disk[Paks[j].name]
          BY <2>3, <4>2
        <5>2. /\ j < i => disk[Paks[j].name] \in {<< >>, Whole(Paks[j])}
              /\ j > i => disk[Paks[j].name] = << >>
          BY DEF ClientAt, i
        <5> QED
          BY <3>1, <4>2, <5>1, <5>2
      <4> QED
        BY <4>1, <4>2
    <3>4. /\ r[1] <= Len(Paks) /\ Paks[r[1]].name = n /\ Paks[r[1]].chunks = last
          /\ file'.open # None /\ file'.current = file'.open
      BY <1>1, <1>2, <3>1, <3>2 DEF n, i, last
    <3>5. ClientAt(r)'
      BY <3>1, <3>2, <3>3, <3>4 DEF ClientAt
    <3> QED
      BY <2>3, <2>4, <3>2, <3>5
  <2>6. CASE a[2] = last
    <3>1. r[1] = i + 1 /\ r[2] = 0
      BY <1>1, <2>6
    <3>2. file' = NoFile
      BY <1>2, <2>1, <2>2, <2>6
    <3>3. /\ file' \in [open : Names \cup {None}, remaining : Nat, current : Names \cup {None}]
          /\ file'.open = None /\ file'.current = None
      BY <3>2 DEF NoFile
    <3>4. disk'[n] = w
      BY <1>4, <2>3, <2>6
    <3>5. ASSUME NEW j \in 1 .. Len(Paks)
          PROVE  LET have == disk'[Paks[j].name] IN
                 /\ j < r[1] => have \in {<< >>, Whole(Paks[j])}
                 /\ j >= r[1] => have = << >>
      <4>1. CASE j = i
        BY <1>2, <3>1, <3>4, <4>1 DEF i, n, w
      <4>2. CASE j # i
        <5>1. disk'[Paks[j].name] = disk[Paks[j].name]
          BY <2>3, <4>2
        <5>2. /\ j < i => disk[Paks[j].name] \in {<< >>, Whole(Paks[j])}
              /\ j > i => disk[Paks[j].name] = << >>
          BY DEF ClientAt, i
        <5>3. /\ j < r[1] => j < i
              /\ j >= r[1] => j > i
          BY <1>2, <3>1, <4>2
        <5> QED
          BY <5>1, <5>2, <5>3
      <4> QED
        BY <4>1, <4>2
    <3> QED
      BY <1>2, <2>3, <2>4, <3>1, <3>3, <3>5 DEF ClientAt
  <2> QED
    BY <1>5, <2>5, <2>6
<1> QED
  BY <1>6, <1>7

-----------------------------------------------------------------------------
(* The steps.                                                              *)

ThreadsSound == ThreadsTyped /\ Lives /\ Downloading

LEMMA ThreadsTypedInit == ThreadsInit => ThreadsSound
<1> SUFFICES ASSUME ThreadsInit PROVE ThreadsSound
  OBVIOUS
<1>1. Len(Paks) \in Nat /\ Paks \in Seq(PakRecord) /\ SubSeq(Paks, 1, Len(Paks)) = Paks
  BY ClientThreadsAssumption DEF PakRecord
<1>2. ThreadsTyped
  <2>1. << >> \in Seq(Message) /\ << >> \in Seq(EventRecord) /\ Len(<< >>) = 0
        /\ << >> \in Seq({"hashes", "ack"})
    OBVIOUS
  <2>2. sync \in [todo : Seq(PakRecord), left : Nat, state : {"hashes", "synced", "quit"}]
    BY <1>1 DEF ThreadsInit
  <2>3. file \in [open : Names \cup {None}, remaining : Nat, current : Names \cup {None}]
    BY DEF ThreadsInit, NoFile
  <2>4. disk \in [Names -> Seq(Message)]
    BY <2>1 DEF ThreadsInit
  <2>5. wire \in Seq(Message) /\ events \in Seq(EventRecord) /\ sent \in Seq({"hashes", "ack"})
        /\ \A x \in 1 .. Len(events) : events[x].event # "Data" => events[x].msg.cmd \notin OfPak
    BY <2>1 DEF ThreadsInit
  <2> QED
    BY <2>2, <2>3, <2>4, <2>5 DEF ThreadsInit, ThreadsTyped
<1>3. Lives
  BY DEF ThreadsInit, Lives, ThreadEndsFirst, StaleConnAnnounced
<1> DEFINE a == <<1, 0>>
<1>4. a \in Positions /\ a[1] = 1 /\ a[2] = 0
  <2>1. 1 <= Len(Paks) => Paks[1].chunks \in Nat /\ Paks[1].chunks > 0
    BY <1>1, PaksTyped
  <2> QED
    BY <1>1, <2>1 DEF Positions
<1>5. ServerAt(a)
  BY <1>1, <1>4 DEF ServerAt, ThreadsInit
<1>6. Walk(wire, a, a)
  BY <1>4, WalkNowhere DEF ThreadsInit
<1>7. Messages(events) = << >>
  BY DEF ThreadsInit, Messages
<1>8. Walk(Messages(events), a, a)
  BY <1>4, <1>7, WalkNowhere
<1>9. ClientAt(a)
  BY <1>4, PaksTyped DEF ThreadsInit, ClientAt, NoFile
<1>10. main # "gone"
  BY DEF ThreadsInit
<1>11. Downloading
  BY <1>4, <1>5, <1>6, <1>8, <1>9, <1>10 DEF Downloading
<1> QED
  BY <1>2, <1>3, <1>11 DEF ThreadsSound

LEMMA LivesStep ==
    ASSUME ThreadsTyped, Lives, [ThreadsNext]_threads
    PROVE  Lives'
<1> USE DEF Lives, ThreadEndsFirst, StaleConnAnnounced
<1>0. events \in Seq(EventRecord)
  BY DEF ThreadsTyped
<1>1. CASE UNCHANGED threads
  BY <1>1 DEF threads
<1>2. CASE ProcessSyncPak \/ Kick
  BY <1>2 DEF ProcessSyncPak, Kick
<1>3. ASSUME NEW e \in {"Status", "AccessDenied", "Login", "Logout", "Data"}, NEW m, Queue(e, m)
      PROVE  /\ \A k \in DOMAIN events : k \in DOMAIN events' /\ events'[k] = events[k]
             /\ e = "Logout" => \E k \in DOMAIN events' : events'[k].event = "Logout"
  <2>1. events' = Append(events, Event(e, m)) /\ Event(e, m).event = e
    BY <1>3 DEF Queue, Event
  <2>2. Len(events) + 1 \in DOMAIN events' /\ events'[Len(events) + 1] = Event(e, m)
    BY <1>0, <2>1
  <2> QED
    BY <1>0, <2>1, <2>2
<1>4. CASE EventStatus
  BY <1>3, <1>4 DEF EventStatus, Idle
<1>5. CASE EventAccessDenied
  BY <1>3, <1>5 DEF EventAccessDenied, Idle
<1>6. CASE EventLogin
  BY <1>3, <1>6 DEF EventLogin, Idle
<1>7. CASE EventData
  BY <1>3, <1>7 DEF EventData, Idle
<1>8. CASE EventLogout
  BY <1>3, <1>8 DEF EventLogout, Idle
<1>9. CASE ThreadEnds
  BY <1>9 DEF ThreadEnds, Idle
<1>10. CASE Take
  <2>1. /\ main = "idle" /\ events # << >> /\ events' = Tail(events) /\ running /\ UNCHANGED <<link, thread>>
    BY <1>10 DEF Take
  <2>2. \/ main' \in {"idle", "frame"} /\ UNCHANGED <<running, conn>> /\ Head(events).event # "Logout"
        \/ main' = "stopping" /\ UNCHANGED conn
        \/ main' = "stopping" /\ conn' = FALSE
        \/ main' = "thrown" /\ UNCHANGED <<running, conn>>
    BY <1>10 DEF Take, TakeStatus, TakeDenied, TakeLogin, TakeLogout, TakeData, AfterTake
  <2>3. ASSUME Head(events).event # "Logout", NEW k \in DOMAIN events, events[k].event = "Logout"
        PROVE  \E x \in DOMAIN events' : events'[x].event = "Logout"
    <3>1. k \in 1 .. Len(events) /\ Head(events) = events[1] /\ k # 1 /\ Len(Tail(events)) = Len(events) - 1
      BY <1>0, <2>1, <2>3
    <3>2. k - 1 \in DOMAIN events' /\ events'[k - 1] = events[k]
      BY <1>0, <2>1, <3>1
    <3> QED
      BY <2>3, <3>2
  <2>4. CASE main' \in {"idle", "frame"} /\ UNCHANGED <<running, conn>> /\ Head(events).event # "Logout"
    <3>1. conn' /\ link' = "lost" => conn /\ link = "lost" /\ main \in {"idle", "frame"}
      BY <2>1, <2>4
    <3>2. StaleConnAnnounced'
      BY <2>3, <2>4, <3>1
    <3>3. running' /\ (link' = "asking" => ~conn')
      BY <2>1, <2>4
    <3> QED
      BY <2>4, <3>2, <3>3
  <2>5. CASE main' = "stopping" /\ UNCHANGED conn
    BY <2>1, <2>5
  <2>6. CASE main' = "stopping" /\ conn' = FALSE
    BY <2>1, <2>6
  <2>7. CASE main' = "thrown" /\ UNCHANGED <<running, conn>>
    BY <2>1, <2>7
  <2> QED
    BY <2>2, <2>4, <2>5, <2>6, <2>7
<1>11. CASE Frame
  BY <1>11 DEF Frame
<1>12. CASE Joined
  BY <1>12 DEF Joined
<1>13. CASE Destruct
  BY <1>13 DEF Destruct, StopThread
<1>14. CASE DestructJoined
  BY <1>14 DEF DestructJoined
<1>15. CASE Cleanup
  BY <1>15 DEF Cleanup
<1>16. CASE Leave
  BY <1>16 DEF Leave
<1> QED
  BY <1>1, <1>2, <1>4, <1>5, <1>6, <1>7, <1>8, <1>9, <1>10, <1>11, <1>12, <1>13, <1>14, <1>15, <1>16
     DEF ThreadsNext, Network, Main

LEMMA TypedStep ==
    ASSUME ThreadsTyped, Downloading, [ThreadsNext]_threads
    PROVE  ThreadsTyped'
<1> DEFINE Sync == [todo : Seq(PakRecord), left : Nat, state : {"hashes", "synced", "quit"}]
           File == [open : Names \cup {None}, remaining : Nat, current : Names \cup {None}]
<1>0. /\ wire \in Seq(Message) /\ events \in Seq(EventRecord) /\ sync \in Sync /\ file \in File
      /\ disk \in [Names -> Seq(Message)] /\ sent \in Seq({"hashes", "ack"})
  BY DEF ThreadsTyped
<1>01. /\ Append(wire, Say("quit")) \in Seq(Message) /\ Append(wire, Say("ready")) \in Seq(Message)
       /\ \A k \in {"hashes", "synced", "quit"} : [sync EXCEPT !.state = k] \in Sync
  <2>1. Say("quit") \in Message /\ Say("ready") \in Message
    BY SayTyped
  <2>2. Append(wire, Say("quit")) \in Seq(Message) /\ Append(wire, Say("ready")) \in Seq(Message)
    BY <1>0, <2>1
  <2>3. \A k \in {"hashes", "synced", "quit"} : [sync EXCEPT !.state = k] \in Sync
    BY <1>0
  <2> QED
    BY <2>2, <2>3
<1>1. CASE UNCHANGED threads
  BY <1>1 DEF threads, ThreadsTyped
<1>2. CASE ProcessSyncPak
  <2>1. sent' = Tail(sent) /\ sent # << >> /\ sent' \in Seq({"hashes", "ack"})
    BY <1>0, <1>2 DEF ProcessSyncPak
  <2>2. ASSUME sync.todo # << >>, SendPiece
        PROVE  wire' \in Seq(Message) /\ sync' \in Sync
    <3>1. wire' \in Seq(Message)
      BY <2>2, SendPieceWalks DEF Downloading
    <3>2. PICK c \in Positions : ServerAt(c)
      BY DEF Downloading
    <3> DEFINE left == (IF sync.left = 0 THEN Head(sync.todo).chunks ELSE sync.left) - 1
               todo == IF left = 0 THEN Tail(sync.todo) ELSE sync.todo
    <3>3. sync.left \in Nat /\ sync.todo \in Seq(PakRecord) /\ sync.state \in {"hashes", "synced", "quit"}
      BY <1>0
    <3>4. Head(sync.todo) \in PakRecord /\ Tail(sync.todo) \in Seq(PakRecord)
      BY <2>2, <3>3
    <3>5. Head(sync.todo).chunks \in Nat /\ Head(sync.todo).chunks > 0
      BY <3>4 DEF PakRecord
    <3>6. left \in Nat /\ todo \in Seq(PakRecord)
      BY <3>3, <3>4, <3>5
    <3>7. sync' = [sync EXCEPT !.left = left, !.todo = todo]
      BY <2>2 DEF SendPiece
    <3> HIDE DEF left, todo
    <3>8. sync' \in Sync
      BY <1>0, <3>6, <3>7
    <3> QED
      BY <3>1, <3>8
  <2>3. ASSUME TurnOut
        PROVE  wire' \in Seq(Message) /\ sync' \in Sync
    BY <1>0, <1>01, <2>3 DEF TurnOut
  <2>4. ASSUME wire' = Append(wire, Say("ready")), sync' = [sync EXCEPT !.state = "synced"]
        PROVE  wire' \in Seq(Message) /\ sync' \in Sync
    BY <1>0, <1>01, <2>4
  <2>5. wire' \in Seq(Message) /\ sync' \in Sync
    BY <1>2, <2>2, <2>3, <2>4 DEF ProcessSyncPak
  <2> QED
    BY <1>2, <2>1, <2>5 DEF ProcessSyncPak, ThreadsTyped
<1>3. CASE Kick
  <2>1. wire' \in Seq(Message) /\ sync' \in Sync
    BY <1>01, <1>3 DEF Kick
  <2> QED
    BY <1>3, <2>1 DEF Kick, ThreadsTyped
<1>4. CASE EventStatus
  BY <1>4, Queued, SayTyped DEF EventStatus, Idle, ThreadsTyped
<1>5. CASE EventAccessDenied
  BY <1>5, Queued, SayTyped DEF EventAccessDenied, Idle, ThreadsTyped
<1>6. CASE EventLogin
  BY <1>6, Queued, SayTyped DEF EventLogin, Idle, ThreadsTyped
<1>7. CASE EventData
  <2>1. wire # << >> /\ Head(wire) \in Message /\ Tail(wire) \in Seq(Message)
    BY <1>0, <1>7 DEF EventData
  <2> QED
    BY <1>7, <2>1, Queued DEF EventData, Idle, ThreadsTyped
<1>8. CASE EventLogout
  BY <1>8, Queued, SayTyped DEF EventLogout, Idle, ThreadsTyped
<1>9. CASE ThreadEnds
  BY <1>9 DEF ThreadEnds, Idle, ThreadsTyped
<1>10. CASE Take
  <2>1. main = "idle" /\ events # << >> /\ events' = Tail(events) /\ UNCHANGED <<wire, sync, link, thread>>
    BY <1>10 DEF Take
  <2>2. /\ events' \in Seq(EventRecord)
        /\ \A x \in 1 .. Len(events') : events'[x].event # "Data" => events'[x].msg.cmd \notin OfPak
        /\ Head(events).msg \in Message
    BY <2>1, Dequeued
  <2> DEFINE m == Head(events).msg
  <2>3. m.pak \in Names \cup {None} /\ m.at \in Nat
    BY <2>2 DEF Message
  <2> HIDE DEF m
  <2>4. ASSUME XferHeader(m)
        PROVE  file' \in File /\ disk' \in [Names -> Seq(Message)]
    <3>1. /\ [open |-> m.pak, remaining |-> m.at, current |-> m.pak] \in File
          /\ [file EXCEPT !.current = m.pak] \in File
          /\ [disk EXCEPT ![m.pak] = << >>] \in [Names -> Seq(Message)]
      <4>1. [open |-> m.pak, remaining |-> m.at, current |-> m.pak] \in File
        BY <2>3
      <4>2. [file EXCEPT !.current = m.pak] \in File
        BY <1>0, <2>3
      <4>3. << >> \in Seq(Message)
        OBVIOUS
      <4>4. [disk EXCEPT ![m.pak] = << >>] \in [Names -> Seq(Message)]
        BY <1>0, <4>3
      <4> QED
        BY <4>1, <4>2, <4>4
    <3> QED
      BY <1>0, <2>4, <3>1 DEF XferHeader
  <2>5. ASSUME XferDataChunk(m)
        PROVE  file' \in File /\ disk' \in [Names -> Seq(Message)]
    <3>1. CASE file.open = None
      BY <1>0, <2>5, <3>1 DEF XferDataChunk
    <3>2. CASE file.open # None
      <4>1. file.open \in Names /\ file.remaining \in Nat
        BY <1>0, <3>2
      <4>2. m \in Message
        BY <2>2 DEF m
      <4>3. disk' \in [Names -> Seq(Message)]
        <5>1. disk[file.open] \in Seq(Message)
          BY <1>0, <4>1
        <5>2. Append(disk[file.open], m) \in Seq(Message)
          BY <4>2, <5>1
        <5>3. disk' = [disk EXCEPT ![file.open] = Append(disk[file.open], m)]
          BY <2>5, <3>2 DEF XferDataChunk
        <5> QED
          BY <1>0, <5>2, <5>3
      <4>4. NoFile \in File
        BY DEF NoFile
      <4>5. file' \in File
        <5>1. ASSUME file.remaining > 1
              PROVE  [file EXCEPT !.remaining = file.remaining - 1] \in File
          <6>1. file.remaining - 1 \in Nat
            BY <4>1, <5>1
          <6> QED
            BY <1>0, <6>1
        <5>2. file' = IF file.remaining > 1 THEN [file EXCEPT !.remaining = file.remaining - 1] ELSE NoFile
          BY <2>5, <3>2 DEF XferDataChunk
        <5> QED
          BY <4>4, <5>1, <5>2
      <4> QED
        BY <4>3, <4>5
    <3> QED
      BY <3>1, <3>2
  <2>6. file' \in File /\ disk' \in [Names -> Seq(Message)]
    BY <1>0, <1>10, <2>4, <2>5 DEF Take, TakeStatus, TakeDenied, TakeLogin, TakeLogout, TakeData, m
  <2>7. sent' \in Seq({"hashes", "ack"})
    <3>1. Append(sent, "hashes") \in Seq({"hashes", "ack"}) /\ Append(sent, "ack") \in Seq({"hashes", "ack"})
      BY <1>0
    <3>2. sent' \in {sent, Append(sent, "hashes"), Append(sent, "ack")}
      BY <1>10 DEF Take, TakeStatus, TakeDenied, TakeLogin, TakeLogout, TakeData, Acks
    <3> QED
      BY <1>0, <3>1, <3>2
  <2>8. /\ running' \in BOOLEAN /\ conn' \in BOOLEAN /\ synced' \in BOOLEAN
        /\ main' \in {"idle", "frame", "stopping", "thrown"}
    <3>1. running \in BOOLEAN /\ conn \in BOOLEAN /\ synced \in BOOLEAN
      BY DEF ThreadsTyped
    <3> QED
      BY <1>10, <3>1 DEF Take, TakeStatus, TakeDenied, TakeLogin, TakeLogout, TakeData, AfterTake, StopThread
  <2> QED
    BY <2>1, <2>2, <2>6, <2>7, <2>8 DEF ThreadsTyped
<1>11. CASE Frame \/ Joined \/ DestructJoined \/ Leave
  BY <1>11 DEF Frame, Joined, DestructJoined, Leave, ThreadsTyped
<1>12. CASE Destruct
  BY <1>12 DEF Destruct, StopThread, ThreadsTyped
<1>13. CASE Cleanup
  <2>1. NoFile \in File
    BY DEF NoFile
  <2>2. disk' \in [Names -> Seq(Message)]
    BY <1>0, <1>13 DEF Cleanup
  <2>3. << >> \in Seq(EventRecord) /\ Len(<< >>) = 0
    OBVIOUS
  <2> QED
    BY <1>13, <2>1, <2>2, <2>3 DEF Cleanup, ThreadsTyped
<1> QED
  BY <1>1, <1>2, <1>3, <1>4, <1>5, <1>6, <1>7, <1>8, <1>9, <1>10, <1>11, <1>12, <1>13
     DEF ThreadsNext, Network, Main

(* Nothing of a pak is sent, queued, taken or received.                    *)
LEMMA DownloadRests ==
    ASSUME Downloading, UNCHANGED <<wire, file, disk>>, main # "gone", main' # "gone",
           sync'.todo = sync.todo, sync'.left = sync.left, Messages(events') = Messages(events)
    PROVE  Downloading'
<1>1. PICK a, b, c \in Positions :
         /\ Walk(wire, b, c) /\ ServerAt(c) /\ ClientAt(a) /\ Walk(Messages(events), a, b)
  BY DEF Downloading
<1>2. ServerAt(c)' /\ ClientAt(a)'
  BY <1>1 DEF ServerAt, ClientAt
<1> QED
  BY <1>1, <1>2 DEF Downloading

(* A message that is of no pak is queued for the main thread.              *)
LEMMA OtherQueued ==
    ASSUME ThreadsTyped, Downloading, NEW e \in {"Status", "AccessDenied", "Login", "Logout", "Data"},
           NEW m \in Message, m.cmd \notin OfPak, Queue(e, m),
           UNCHANGED <<wire, sync, main, file, disk>>, main # "gone"
    PROVE  Downloading'
<1>1. PICK a, b, c \in Positions :
         /\ Walk(wire, b, c) /\ ServerAt(c) /\ ClientAt(a) /\ Walk(Messages(events), a, b)
  BY DEF Downloading
<1>2. events \in Seq(EventRecord) /\ Event(e, m) \in EventRecord /\ Event(e, m).msg = m
      /\ events' = Append(events, Event(e, m))
  BY SayTyped DEF ThreadsTyped, Queue
<1>3. Messages(events) \in Seq(Message) /\ Messages(events') = Append(Messages(events), m)
  BY <1>2, MessagesAppend
<1>4. Walk(Messages(events'), a, b)
  BY <1>1, <1>3, WalkAppend DEF Step
<1>5. ServerAt(c)' /\ ClientAt(a)'
  BY <1>1 DEF ServerAt, ClientAt
<1> QED
  BY <1>1, <1>4, <1>5 DEF Downloading

LEMMA DownloadStep ==
    ASSUME ThreadsTyped, ThreadEndsFirst, Downloading, [ThreadsNext]_threads
    PROVE  Downloading' /\ CompletePaksStay
<1> DEFINE Same == UNCHANGED <<wire, sync, events, file, disk>>
<1>0. CompletePaksStay <=> \A j \in 1 .. Len(Paks) :
                            disk[Paks[j].name] = Whole(Paks[j]) => disk'[Paks[j].name] = disk[Paks[j].name]
  BY PaksTyped DEF CompletePaksStay
<1>1. ASSUME Same, main # "gone", main' # "gone"
      PROVE  Downloading' /\ CompletePaksStay
  BY <1>0, <1>1, DownloadRests
<1>2. CASE UNCHANGED threads
  <2>1. Downloading'
    BY <1>2 DEF threads, Downloading, ServerAt, ClientAt
  <2> QED
    BY <1>0, <1>2, <2>1 DEF threads
<1>3. CASE ProcessSyncPak
  <2>1. PICK a, b, c \in Positions :
         /\ Walk(wire, b, c) /\ ServerAt(c)
         /\ IF main = "gone"
            THEN file = NoFile /\ \A j \in 1 .. Len(Paks) :
                                    disk[Paks[j].name] \in {<< >>, Whole(Paks[j])}
            ELSE ClientAt(a) /\ Walk(Messages(events), a, b)
    BY DEF Downloading
  <2>2. \E d \in Positions : Walk(wire', b, d) /\ ServerAt(d)'
    <3>1. CASE sync.todo # << >> /\ SendPiece
      BY <2>1, <3>1, SendPieceWalks
    <3>2. ASSUME NEW s \in {"quit", "ready"}, wire' = Append(wire, Say(s)),
                 sync'.todo = sync.todo, sync'.left = sync.left
          PROVE  \E d \in Positions : Walk(wire', b, d) /\ ServerAt(d)'
      <4>1. wire \in Seq(Message) /\ Say(s) \in Message /\ Say(s).cmd \notin OfPak
        BY SayTyped DEF ThreadsTyped
      <4>2. Walk(wire', b, c)
        BY <2>1, <3>2, <4>1, WalkAppend DEF Step
      <4>3. ServerAt(c)'
        BY <2>1, <3>2 DEF ServerAt
      <4> QED
        BY <4>2, <4>3
    <3>3. sync \in [todo : Seq(PakRecord), left : Nat, state : {"hashes", "synced", "quit"}]
      BY DEF ThreadsTyped
    <3>4. CASE TurnOut
      <4>1. wire' = Append(wire, Say("quit")) /\ sync'.todo = sync.todo /\ sync'.left = sync.left
        BY <3>3, <3>4 DEF TurnOut
      <4> QED
        BY <3>2, <4>1
    <3>5. CASE wire' = Append(wire, Say("ready")) /\ sync' = [sync EXCEPT !.state = "synced"]
      <4>1. sync'.todo = sync.todo /\ sync'.left = sync.left
        BY <3>3, <3>5
      <4> QED
        BY <3>2, <3>5, <4>1
    <3> QED
      BY <1>3, <3>1, <3>4, <3>5 DEF ProcessSyncPak
  <2>3. UNCHANGED <<main, events, file, disk>>
    BY <1>3 DEF ProcessSyncPak
  <2>4. ClientAt(a) => ClientAt(a)'
    BY <2>3 DEF ClientAt
  <2>5. Downloading'
    BY <2>1, <2>2, <2>3, <2>4 DEF Downloading
  <2> QED
    BY <1>0, <2>3, <2>5
<1>4. CASE Kick
  <2>1. PICK a, b, c \in Positions :
         /\ Walk(wire, b, c) /\ ServerAt(c)
         /\ IF main = "gone"
            THEN file = NoFile /\ \A j \in 1 .. Len(Paks) :
                                    disk[Paks[j].name] \in {<< >>, Whole(Paks[j])}
            ELSE ClientAt(a) /\ Walk(Messages(events), a, b)
    BY DEF Downloading
  <2>2. /\ wire \in Seq(Message) /\ Say("quit") \in Message /\ Say("quit").cmd \notin OfPak
        /\ sync \in [todo : Seq(PakRecord), left : Nat, state : {"hashes", "synced", "quit"}]
    BY SayTyped DEF ThreadsTyped
  <2>3. /\ wire' = Append(wire, Say("quit")) /\ sync'.todo = sync.todo /\ sync'.left = sync.left
        /\ UNCHANGED <<main, events, file, disk>>
    BY <1>4, <2>2 DEF Kick
  <2>4. Walk(wire', b, c)
    BY <2>1, <2>2, <2>3, WalkAppend DEF Step
  <2>5. ServerAt(c)' /\ (ClientAt(a) => ClientAt(a)')
    BY <2>1, <2>3 DEF ServerAt, ClientAt
  <2>6. Downloading'
    BY <2>1, <2>3, <2>4, <2>5 DEF Downloading
  <2> QED
    BY <1>0, <2>3, <2>6
<1>5. ASSUME thread = "running"
      PROVE  main # "gone"
  BY <1>5 DEF ThreadEndsFirst
<1>6. CASE EventStatus
  <2>1. \E e \in {"Status", "AccessDenied"} : Queue(e, Say("status"))
    BY <1>6 DEF EventStatus
  <2>2. thread = "running" /\ UNCHANGED <<wire, sync, main, file, disk>>
    BY <1>6 DEF EventStatus, Idle
  <2> QED
    BY <1>0, <1>5, <2>1, <2>2, OtherQueued, SayTyped
<1>7. CASE EventAccessDenied
  <2>1. Queue("AccessDenied", Say("refused")) /\ thread = "running" /\ UNCHANGED <<wire, sync, main, file, disk>>
    BY <1>7 DEF EventAccessDenied, Idle
  <2> QED
    BY <1>0, <1>5, <2>1, OtherQueued, SayTyped
<1>8. CASE EventLogin
  <2>1. Queue("Login", Say("login")) /\ thread = "running" /\ UNCHANGED <<wire, sync, main, file, disk>>
    BY <1>8 DEF EventLogin, Idle
  <2> QED
    BY <1>0, <1>5, <2>1, OtherQueued, SayTyped
<1>9. CASE EventLogout
  <2>1. Queue("Logout", Say("logout")) /\ thread = "running" /\ UNCHANGED <<wire, sync, main, file, disk>>
    BY <1>9 DEF EventLogout, Idle
  <2> QED
    BY <1>0, <1>5, <2>1, OtherQueued, SayTyped
<1>10. CASE EventData
  <2>1. /\ wire # << >> /\ wire' = Tail(wire) /\ Queue("Data", Head(wire)) /\ main # "gone" /\ main' # "gone"
        /\ UNCHANGED <<sync, file, disk>>
    BY <1>5, <1>10 DEF EventData, Idle
  <2>2. PICK a, b, c \in Positions :
          /\ Walk(wire, b, c) /\ ServerAt(c) /\ ClientAt(a) /\ Walk(Messages(events), a, b)
    BY <2>1 DEF Downloading
  <2>3. wire \in Seq(Message) /\ events \in Seq(EventRecord) /\ Head(wire) \in Message
    BY <2>1 DEF ThreadsTyped
  <2>4. PICK d \in Positions : Step(Head(wire), b, d) /\ Walk(wire', d, c)
    BY <2>1, <2>2, <2>3, WalkTail
  <2>5. Event("Data", Head(wire)) \in EventRecord /\ Event("Data", Head(wire)).msg = Head(wire)
        /\ events' = Append(events, Event("Data", Head(wire)))
    BY <2>1, <2>3, SayTyped DEF Queue
  <2>6. Messages(events) \in Seq(Message) /\ Messages(events') = Append(Messages(events), Head(wire))
    BY <2>3, <2>5, MessagesAppend
  <2>7. Walk(Messages(events'), a, d)
    BY <2>2, <2>3, <2>4, <2>6, WalkAppend
  <2>8. ServerAt(c)' /\ ClientAt(a)'
    BY <2>1, <2>2 DEF ServerAt, ClientAt
  <2>9. Downloading'
    BY <2>1, <2>4, <2>7, <2>8 DEF Downloading
  <2> QED
    BY <1>0, <2>1, <2>9
<1>11. CASE ThreadEnds
  BY <1>1, <1>5, <1>11 DEF ThreadEnds, Idle
<1>12. CASE Take
  <2>1. /\ main = "idle" /\ main' # "gone" /\ events # << >> /\ events' = Tail(events) /\ UNCHANGED <<wire, sync>>
    BY <1>12 DEF Take, TakeStatus, TakeDenied, TakeLogin, TakeLogout, TakeData, AfterTake
  <2>2. PICK a, b, c \in Positions :
          /\ Walk(wire, b, c) /\ ServerAt(c) /\ ClientAt(a) /\ Walk(Messages(events), a, b)
    BY <2>1 DEF Downloading
  <2> DEFINE m == Head(events).msg
  <2>3. /\ events \in Seq(EventRecord) /\ m \in Message /\ (Head(events).event # "Data" => m.cmd \notin OfPak)
        /\ Messages(events) \in Seq(Message) /\ Messages(events) # << >>
        /\ Messages(events') = Tail(Messages(events)) /\ Head(Messages(events)) = m
    BY <2>1, Dequeued, MessagesTail DEF ThreadsTyped
  <2> HIDE DEF m
  <2>4. PICK r \in Positions : Step(m, a, r) /\ Walk(Messages(events'), r, b)
    BY <2>2, <2>3, WalkTail
  <2>5. CASE m.cmd \notin OfPak
    <3>1. r = a
      BY <2>4, <2>5 DEF Step
    <3>2. UNCHANGED <<file, disk>>
      BY <1>12, <2>5 DEF Take, TakeStatus, TakeDenied, TakeLogin, TakeLogout, TakeData, OfPak, m
    <3>3. ServerAt(c)' /\ ClientAt(a)'
      BY <2>1, <2>2, <3>2 DEF ServerAt, ClientAt
    <3>4. Downloading'
      BY <2>1, <2>2, <2>4, <3>1, <3>3 DEF Downloading
    <3> QED
      BY <1>0, <3>2, <3>4
  <2>6. CASE m.cmd = "header"
    <3>1. XferHeader(m)
      BY <1>12, <2>3, <2>6 DEF Take, TakeStatus, TakeDenied, TakeLogin, TakeLogout, TakeData, OfPak, m
    <3>2. ClientAt(r)' /\ disk' = disk
      BY <2>2, <2>3, <2>4, <2>6, <3>1, HeaderTaken
    <3>3. ServerAt(c)'
      BY <2>1, <2>2 DEF ServerAt
    <3>4. Downloading'
      BY <2>1, <2>2, <2>4, <3>2, <3>3 DEF Downloading
    <3> QED
      BY <1>0, <3>2, <3>4
  <2>7. CASE m.cmd = "chunk"
    <3>1. XferDataChunk(m)
      BY <1>12, <2>3, <2>7 DEF Take, TakeStatus, TakeDenied, TakeLogin, TakeLogout, TakeData, OfPak, m
    <3>2. /\ ClientAt(r)'
          /\ \A k \in 1 .. Len(Paks) : disk[Paks[k].name] = Whole(Paks[k])
                                       => disk'[Paks[k].name] = disk[Paks[k].name]
      BY <2>2, <2>3, <2>4, <2>7, <3>1, ChunkTaken
    <3>3. ServerAt(c)'
      BY <2>1, <2>2 DEF ServerAt
    <3>4. Downloading'
      BY <2>1, <2>2, <2>4, <3>2, <3>3 DEF Downloading
    <3> QED
      BY <1>0, <3>2, <3>4
  <2> QED
    BY <2>5, <2>6, <2>7 DEF OfPak
<1>13. CASE Frame \/ Joined \/ Destruct \/ DestructJoined \/ Leave
  BY <1>1, <1>13 DEF Frame, Joined, Destruct, DestructJoined, Leave
<1>14. CASE Cleanup
  <2>1. /\ main = "cleanup" /\ main' = "gone" /\ file' = NoFile /\ UNCHANGED <<wire, sync>>
        /\ disk' = IF file.current = None THEN disk ELSE [disk EXCEPT ![file.current] = << >>]
    BY <1>14 DEF Cleanup
  <2>2. PICK a, b, c \in Positions :
          /\ Walk(wire, b, c) /\ ServerAt(c) /\ ClientAt(a) /\ Walk(Messages(events), a, b)
    BY <2>1 DEF Downloading
  <2>3. disk \in [Names -> Seq(Message)] /\ file.current \in Names \cup {None}
    BY DEF ThreadsTyped
  <2>4. a[1] \in Nat /\ a[2] \in Nat /\ (a[1] <= Len(Paks) => a[2] <= Paks[a[1]].chunks)
    BY PaksTyped DEF Positions
  <2>5. ASSUME NEW j \in 1 .. Len(Paks)
        PROVE  /\ disk'[Paks[j].name] \in {<< >>, Whole(Paks[j])}
               /\ disk[Paks[j].name] = Whole(Paks[j]) => disk'[Paks[j].name] = disk[Paks[j].name]
    <3> DEFINE n == Paks[j].name
    <3>1. n \in Names /\ Paks[j].chunks \in Nat /\ n # None
      BY PaksTyped
    <3>2. Whole(Paks[j]) # << >>
      BY WholeIs
    <3>3. CASE file.current # n
      <4>1. disk'[n] = disk[n]
        BY <2>1, <2>3, <3>1, <3>3
      <4>2. j # a[1] \/ file.open = None
        BY <2>2, <3>3 DEF ClientAt
      <4>3. disk[n] \in {<< >>, Whole(Paks[j])}
        <5>1. j < a[1] \/ j > a[1] \/ j = a[1]
          BY <2>4
        <5> QED
          BY <2>2, <4>2, <5>1 DEF ClientAt
      <4> QED
        BY <4>1, <4>3
    <3>4. CASE file.current = n
      <4>1. disk'[n] = << >>
        BY <2>1, <2>3, <3>1, <3>4
      <4>2. CASE file.open = None
        BY <2>2, <3>1, <3>2, <3>4, <4>1, <4>2 DEF ClientAt
      <4>3. CASE file.open # None
        <5>1. a[1] <= Len(Paks) /\ a[2] >= 1 /\ n = Paks[a[1]].name /\ a[1] \in 1 .. Len(Paks) + 1
          BY <2>2, <3>4, <4>3 DEF ClientAt, Positions
        <5>2. a[1] \in 1 .. Len(Paks)
          BY <5>1, PaksTyped
        <5>3. j = a[1]
          BY <5>1, <5>2, PaksTyped
        <5>4. disk[n] = SubSeq(Whole(Paks[j]), 1, a[2] - 1) /\ a[2] \in 1 .. Paks[j].chunks
          BY <2>2, <2>4, <4>3, <5>1, <5>3 DEF ClientAt
        <5>5. disk[n] # Whole(Paks[j])
          BY <5>4, WholeIs
        <5> QED
          BY <4>1, <5>5
      <4> QED
        BY <4>2, <4>3
    <3> QED
      BY <3>3, <3>4
  <2>6. ServerAt(c)'
    BY <2>1, <2>2 DEF ServerAt
  <2>7. Downloading'
    BY <2>1, <2>2, <2>5, <2>6 DEF Downloading
  <2> QED
    BY <1>0, <2>5, <2>7
<1> QED
  BY <1>2, <1>3, <1>4, <1>6, <1>7, <1>8, <1>9, <1>10, <1>11, <1>12, <1>13, <1>14
     DEF ThreadsNext, Network, Main

-----------------------------------------------------------------------------
(* The theorems.                                                           *)

LEMMA ThreadsStep ==
    ASSUME ThreadsSound, [ThreadsNext]_threads
    PROVE  ThreadsSound' /\ CompletePaksStay
<1>1. ThreadsTyped /\ Lives /\ Downloading /\ ThreadEndsFirst
  BY DEF ThreadsSound, Lives
<1> QED
  BY <1>1, TypedStep, LivesStep, DownloadStep DEF ThreadsSound

LEMMA Keeps ==
    ASSUME ThreadsSound
    PROVE  DownloadsKept
<1>1. ThreadsTyped /\ Downloading
  BY DEF ThreadsSound
<1>2. ASSUME NEW n \in Names
      PROVE  /\ IsPrefix(disk[n], Whole(PakOf(n)))
             /\ main = "gone" => disk[n] \in {<< >>, Whole(PakOf(n))}
  <2>1. PICK j \in 1 .. Len(Paks) : n = Paks[j].name
    BY PaksTyped
  <2> DEFINE w == Whole(Paks[j])
             k == Paks[j].chunks
  <2>2. PakOf(n) = Paks[j] /\ k \in Nat
    BY <2>1, PaksTyped
  <2>3. w \in Seq(Message) /\ Len(w) = k
    BY WholeIs
  <2>4. /\ disk[n] = << >> \/ disk[n] = w \/ \E x \in 1 .. k : disk[n] = SubSeq(w, 1, x - 1)
        /\ main = "gone" => disk[n] \in {<< >>, w}
    <3>1. CASE main = "gone"
      BY <1>1, <2>1, <3>1 DEF Downloading
    <3>2. CASE main # "gone"
      <4>1. PICK a \in Positions : ClientAt(a)
        BY <1>1, <3>2 DEF Downloading
      <4>2. a[1] \in Nat /\ a[2] \in Nat /\ (a[1] <= Len(Paks) => a[2] <= Paks[a[1]].chunks)
        BY PaksTyped DEF Positions
      <4>3. j < a[1] \/ j > a[1] \/ j = a[1]
        BY <4>2
      <4>4. CASE j = a[1] /\ file.open # None
        <5>1. a[2] >= 1 /\ a[2] <= k /\ disk[n] = SubSeq(w, 1, a[2] - 1)
          BY <2>1, <4>1, <4>2, <4>4 DEF ClientAt
        <5>2. a[2] \in 1 .. k
          BY <2>2, <4>2, <5>1
        <5> QED
          BY <3>2, <5>1, <5>2
      <4> QED
        BY <2>1, <3>2, <4>1, <4>3, <4>4 DEF ClientAt
    <3> QED
      BY <3>1, <3>2
  <2> HIDE DEF w, k
  <2>5. /\ IsPrefix(<< >>, w) /\ IsPrefix(w, w)
        /\ \A x \in 1 .. k : IsPrefix(SubSeq(w, 1, x - 1), w)
    <3>1. IsPrefix(<< >>, w) /\ IsPrefix(w, w)
      BY <2>3 DEF IsPrefix
    <3>2. ASSUME NEW x \in 1 .. k
          PROVE  IsPrefix(SubSeq(w, 1, x - 1), w)
      BY <2>2, <2>3, <3>2 DEF IsPrefix
    <3> QED
      BY <3>1, <3>2
  <2>6. IsPrefix(disk[n], w)
    BY <2>4, <2>5
  <2> QED
    BY <2>2, <2>4, <2>6 DEF w
<1> QED
  BY <1>2 DEF DownloadsKept

(* Whether a session is refused, kicked, times out or is left, no thread   *)
(* works on what the other has destroyed, in any order of the steps of     *)
(* Client::thread and Client::idle.                                        *)
THEOREM ThreadsCorrect == ThreadsSpec => []NothingStale
<1>1. ThreadsSound => NothingStale
  BY DEF ThreadsSound, Lives, NothingStale
<1>2. ThreadsSound /\ [ThreadsNext]_threads => ThreadsSound'
  BY ThreadsStep
<1> QED
  BY <1>1, <1>2, ThreadsTypedInit, PTL DEF ThreadsSpec

(* For any paks of any size, what the client writes of a pak is the pak's  *)
(* beginning, a complete pak stays, and no part is left when the session   *)
(* has ended (the transfer in ClientEvent.cpp, ~Client).                   *)
THEOREM DownloadsCorrect == ThreadsSpec => PaksWhole
<1>1. ThreadsSound /\ [ThreadsNext]_threads => ThreadsSound' /\ CompletePaksStay
  BY ThreadsStep
<1>2. ThreadsSound => DownloadsKept
  BY Keeps
<1>3. ThreadsSound' => DownloadsKept'
  BY <1>2, PTL
<1>4. ThreadsSound /\ [ThreadsNext]_threads => ThreadsSound' /\ [DownloadsKept' /\ CompletePaksStay]_threads
  BY <1>1, <1>3
<1> QED
  BY <1>4, ThreadsTypedInit, PTL DEF ThreadsSpec, PaksWhole

-----------------------------------------------------------------------------
(***************************************************************************)
(* The map editor, for maps of every size.  EditorInv is inductive: the    *)
(* map, the copied part and the files have their types, with no two things *)
(* of a kind at one place; a map without changes is the one on the disk;   *)
(* the chosen picture exists; and the light that the thread has computed   *)
(* so far is that of the first lights of the map, which nobody has changed.*)
(***************************************************************************)

-----------------------------------------------------------------------------
(* Lists of things, of which no two are at the same place.                 *)

Thing == [at : Int \X Int, look : Looks]
ThingLists == {s \in Seq(Thing) : Apart(s)}

(* In a file there may be objects that nobody knows.                       *)
FileThing == [at : Int \X Int, look : Looks \cup Unknown]
FileLists(k) ==
    {s \in Seq(FileThing) : Apart(s) /\ (k # "object" => \A i \in DOMAIN s : s[i].look \in Looks)}

(* Those that are known are left in their order, and apart.                *)
LEMMA KnownIs ==
    ASSUME NEW k, NEW s \in FileLists(k)
    PROVE  Known(k, s) \in ThingLists
<1> DEFINE K == {i \in DOMAIN s : k = "object" => s[i].look \notin Unknown}
           t == Only(s, K)
           c == Cardinality(K)
<1>1. s \in Seq(FileThing) /\ Apart(s) /\ K \in SUBSET DOMAIN s
  BY DEF FileLists
<1>2. \A i \in K : s[i] \in Thing
  <2>1. \A i \in DOMAIN s : s[i] \in FileThing
    BY <1>1, ElementOfSeq
  <2>2. k # "object" => \A i \in DOMAIN s : s[i].look \in Looks
    BY DEF FileLists
  <2> QED BY <2>1, <2>2 DEF FileThing, Thing
<1> HIDE DEF K
<1>3. /\ t \in Seq(FileThing) /\ Len(t) = c /\ c \in Nat
      /\ \A n \in 1 .. c : t[n] = s[NthOf(K, n)] /\ NthOf(K, n) \in K
      /\ \A m, n \in 1 .. c : m # n => NthOf(K, m) # NthOf(K, n)
  BY <1>1, OnlyIs
<1> HIDE DEF t, c
<1>4. DOMAIN t = 1 .. c /\ \A n \in 1 .. c : t[n] \in Thing
  BY <1>2, <1>3
<1>5. t \in Seq(Thing)
  BY <1>3, <1>4
<1>6. Apart(t)
  BY <1>1, <1>3, <1>4 DEF Apart
<1> QED BY <1>5, <1>6 DEF ThingLists, Known, K, t

(* All things of a map are known.                                          *)
LEMMA AllKnown ==
    ASSUME NEW k, NEW s \in ThingLists
    PROVE  Known(k, s) = s /\ s \in FileLists(k)
<1> DEFINE K == {i \in DOMAIN s : k = "object" => s[i].look \notin Unknown}
           t == Only(s, K)
<1>1. s \in Seq(Thing) /\ Apart(s) /\ DOMAIN s = 1 .. Len(s) /\ Len(s) \in Nat
  BY DEF ThingLists
<1>2. \A i \in DOMAIN s : s[i] \in Thing
  BY <1>1, ElementOfSeq
<1>3. \A i \in DOMAIN s : s[i].look \in Looks /\ s[i].look \notin Unknown /\ s[i] \in FileThing
  BY <1>2, EditorAssumption DEF Thing, FileThing
<1>4. K = 1 .. Len(s) /\ IsFiniteSet(K) /\ Cardinality(K) = Len(s)
  <2>1. K = 1 .. Len(s)
    BY <1>1, <1>3
  <2>2. IsFiniteSet(1 .. Len(s)) /\ Cardinality(1 .. Len(s)) = Len(s)
    BY <1>1, FS_Interval
  <2> QED BY <2>1, <2>2
<1> HIDE DEF K
<1>5. \A n \in 1 .. Len(s) : NthOf(K, n) = n
  <2> TAKE n \in 1 .. Len(s)
  <2> DEFINE i == NthOf(K, n)
  <2>1. i \in 1 .. Len(s) /\ Cardinality(Upto(K, i)) = n
    BY <1>4, NthIs
  <2> HIDE DEF i
  <2>2. Upto(K, i) = 1 .. i /\ i \in Nat
    BY <1>1, <1>4, <2>1 DEF Upto
  <2>3. Cardinality(1 .. i) = i
    BY <2>2, FS_Interval
  <2> QED BY <2>1, <2>2, <2>3 DEF i
<1>6. t = [n \in 1 .. Len(s) |-> s[n]]
  BY <1>4, <1>5 DEF Only
<1>7. t = s
  BY <1>1, <1>6
<1>8. s \in Seq(FileThing)
  BY <1>1, <1>3
<1> QED BY <1>1, <1>3, <1>7, <1>8 DEF Known, FileLists, K, t

LEMMA FirstAtIs ==
    ASSUME NEW s \in Seq(Thing), NEW c, Holding(s, c) # {}
    PROVE  FirstAt(s, c) \in 1 .. Len(s) /\ s[FirstAt(s, c)].at = c
<1> DEFINE H == Holding(s, c)
<1>1. H \subseteq Nat /\ \A i \in H : i \in 1 .. Len(s) /\ s[i].at = c
  BY DEF Holding
<1>2. \E i \in H : \A j \in H : i <= j
  <2> HIDE DEF H
  <2> QED BY <1>1, LeastExists DEF H
<1>3. FirstAt(s, c) \in H
  <2> HIDE DEF H
  <2> QED BY <1>2 DEF FirstAt, H
<1> QED BY <1>1, <1>3

LEMMA RemovedIs ==
    ASSUME NEW S, NEW s \in Seq(S), NEW i \in 1 .. Len(s)
    PROVE  /\ RemoveAt(s, i) \in Seq(S) /\ Len(RemoveAt(s, i)) = Len(s) - 1
           /\ \A j \in 1 .. Len(s) - 1 : RemoveAt(s, i)[j] = IF j < i THEN s[j] ELSE s[j + 1]
<1> DEFINE a == SubSeq(s, 1, i - 1)
           b == SubSeq(s, i + 1, Len(s))
<1>1. a \in Seq(S) /\ Len(a) = i - 1 /\ \A j \in 1 .. i - 1 : a[j] = s[j]
  OBVIOUS
<1>2. b \in Seq(S) /\ Len(b) = Len(s) - i /\ \A j \in 1 .. Len(s) - i : b[j] = s[i + j]
  OBVIOUS
<1>3. RemoveAt(s, i) = a \o b
  BY DEF RemoveAt
<1> HIDE DEF a, b
<1>0. Len(s) \in Nat /\ i \in Nat
  OBVIOUS
<1>4. /\ a \o b \in Seq(S) /\ Len(a \o b) = Len(a) + Len(b)
      /\ \A k \in 1 .. Len(a) : (a \o b)[k] = a[k]
      /\ \A k \in 1 .. Len(b) : (a \o b)[Len(a) + k] = b[k]
  <2>1. a \in Seq(S) /\ b \in Seq(S)
    BY <1>1, <1>2
  <2> QED BY <2>1, ConcatIs
<1> DEFINE t == a \o b
<1> HIDE DEF t
<1>5. t \in Seq(S) /\ Len(t) = Len(s) - 1
  BY <1>0, <1>1, <1>2, <1>4 DEF t
<1>6. ASSUME NEW j \in 1 .. Len(s) - 1 PROVE t[j] = IF j < i THEN s[j] ELSE s[j + 1]
  <2>1. CASE j < i
    BY <1>0, <1>1, <1>4, <2>1 DEF t
  <2>2. CASE ~(j < i)
    <3> DEFINE k == j - i + 1
    <3>1. k \in 1 .. Len(s) - i /\ j = Len(a) + k /\ i + k = j + 1
      BY <1>0, <1>1, <2>2
    <3> HIDE DEF k
    <3>2. t[j] = b[k] /\ b[k] = s[i + k]
      BY <1>2, <1>4, <3>1 DEF t
    <3> QED BY <2>2, <3>1, <3>2
  <2> QED BY <2>1, <2>2
<1> QED BY <1>3, <1>5, <1>6 DEF t

LEMMA EraseIs ==
    ASSUME NEW s \in ThingLists, NEW c
    PROVE  EraseThing(s, c) \in ThingLists /\ Holding(EraseThing(s, c), c) = {}
<1>0. s \in Seq(Thing) /\ Apart(s)
  BY DEF ThingLists
<1>1. CASE Holding(s, c) = {}
  BY <1>1 DEF EraseThing
<1>2. CASE Holding(s, c) # {}
  <2> DEFINE i == FirstAt(s, c)
             t == RemoveAt(s, i)
  <2>1. i \in 1 .. Len(s) /\ s[i].at = c
    BY <1>0, <1>2, FirstAtIs
  <2>2. EraseThing(s, c) = t
    BY <1>2 DEF EraseThing
  <2> HIDE DEF i
  <2>3. /\ t \in Seq(Thing) /\ Len(t) = Len(s) - 1 /\ Len(s) \in Nat
        /\ \A j \in 1 .. Len(s) - 1 : t[j] = IF j < i THEN s[j] ELSE s[j + 1]
    BY <1>0, <2>1, RemovedIs
  <2> HIDE DEF t
  <2> DEFINE Old(j) == IF j < i THEN j ELSE j + 1
  <2>4. DOMAIN t = 1 .. Len(s) - 1 /\ DOMAIN s = 1 .. Len(s)
    BY <1>0, <2>3
  <2>5. \A j \in DOMAIN t : Old(j) \in DOMAIN s /\ Old(j) # i /\ t[j] = s[Old(j)]
    BY <2>1, <2>3, <2>4
  <2>6. \A j, k \in DOMAIN t : Old(j) = Old(k) => j = k
    BY <2>1, <2>4
  <2> HIDE DEF Old
  <2>7. Apart(t)
    BY <1>0, <2>5, <2>6 DEF Apart
  <2>8. \A j \in DOMAIN t : t[j].at # c
    BY <1>0, <2>1, <2>4, <2>5 DEF Apart
  <2> QED BY <2>2, <2>3, <2>7, <2>8 DEF ThingLists, Holding
<1> QED BY <1>1, <1>2

LEMMA SetIs ==
    ASSUME NEW s \in ThingLists, NEW c \in Int \X Int, NEW look \in Looks
    PROVE  SetThing(s, c, look) \in ThingLists
<1>0. s \in Seq(Thing) /\ Apart(s)
  BY DEF ThingLists
<1>1. CASE Holding(s, c) # {}
  BY <1>1 DEF SetThing
<1>2. CASE Holding(s, c) = {}
  <2> DEFINE x == [at |-> c, look |-> look]
             t == Append(s, x)
  <2>1. x \in Thing /\ x.at = c
    BY DEF Thing
  <2> HIDE DEF x
  <2>2. /\ t \in Seq(Thing) /\ DOMAIN t = 1 .. Len(s) + 1 /\ DOMAIN s = 1 .. Len(s) /\ Len(s) \in Nat
        /\ \A j \in DOMAIN s : t[j] = s[j]
        /\ t[Len(s) + 1] = x
    BY <1>0, <2>1
  <2> HIDE DEF t
  <2>3. \A j \in DOMAIN s : s[j].at # c
    BY <1>2 DEF Holding
  <2>4. Apart(t)
    BY <1>0, <2>1, <2>2, <2>3 DEF Apart
  <2> QED BY <1>2, <2>2, <2>4 DEF SetThing, ThingLists, t, x
<1> QED BY <1>1, <1>2

LEMMA LookIs ==
    ASSUME NEW s \in ThingLists, NEW c, NEW look \in Looks
    PROVE  PutLook(s, c, look) \in ThingLists
<1>0. s \in Seq(Thing) /\ Apart(s)
  BY DEF ThingLists
<1> DEFINE t == PutLook(s, c, look)
<1>1. DOMAIN t = 1 .. Len(s) /\ DOMAIN s = 1 .. Len(s) /\ Len(s) \in Nat
  BY <1>0 DEF PutLook
<1>2. \A i \in 1 .. Len(s) : t[i] = IF i \in Holding(s, c) THEN [s[i] EXCEPT !.look = look] ELSE s[i]
  BY <1>0 DEF PutLook
<1>3. \A i \in 1 .. Len(s) : t[i] \in Thing /\ t[i].at = s[i].at
  <2>1. \A i \in 1 .. Len(s) : s[i] \in Thing
    BY <1>0
  <2> HIDE DEF t
  <2> QED BY <1>2, <2>1 DEF Thing
<1>4. t = [i \in 1 .. Len(s) |-> t[i]]
  BY <1>1 DEF PutLook
<1> HIDE DEF t
<1>5. t \in Seq(Thing)
  BY <1>1, <1>3, <1>4
<1>6. Apart(t)
  BY <1>0, <1>1, <1>3 DEF Apart
<1> QED BY <1>5, <1>6 DEF ThingLists, t

LEMMA PutIs ==
    ASSUME NEW s \in ThingLists, NEW c \in Int \X Int, NEW look \in Looks
    PROVE  Put(s, c, look) \in ThingLists
BY EraseIs, SetIs, LookIs DEF Put

LEMMA WithinIs ==
    ASSUME NEW s \in ThingLists, NEW size
    PROVE  Within(s, size) \in ThingLists
<1> DEFINE n == Len(s)
           V == ThingLists
           g == [p \in (1 .. n) \X V |->
                    IF Outside(s[p[1]], size) THEN EraseThing(p[2], s[p[1]].at) ELSE p[2]]
           Body(f, i) == IF i = 0 THEN s
                         ELSE IF Outside(s[i], size) THEN EraseThing(f[i - 1], s[i].at) ELSE f[i - 1]
           rest[i \in 0 .. Len(s)] ==
              IF i = 0 THEN s
              ELSE IF Outside(s[i], size) THEN EraseThing(rest[i - 1], s[i].at) ELSE rest[i - 1]
<1>1. n \in Nat /\ s \in V
  BY DEF ThingLists
<1>2. g \in [(1 .. n) \X V -> V]
  <2>1. \A i, q : q \in ThingLists => EraseThing(q, s[i].at) \in ThingLists
    BY EraseIs
  <2> QED BY <2>1
<1>3. \A i \in 1 .. n, q \in V :
         g[<<i, q>>] = IF Outside(s[i], size) THEN EraseThing(q, s[i].at) ELSE q
  OBVIOUS
<1>4. PICK f \in [0 .. n -> V] : f[0] = s /\ \A i \in 1 .. n : f[i] = g[<<i, f[i - 1]>>]
  <2> HIDE DEF g, n, V, rest
  <2>1. \E f \in [0 .. n -> V] : Stepwise(f, n, s, g)
    <3>1. n \in Nat /\ s \in V /\ g \in [(1 .. n) \X V -> V]
      BY <1>1, <1>2
    <3> QED BY <3>1, StepsExist
  <2> QED BY <2>1 DEF Stepwise
<1> HIDE DEF g
<1>5. \A i \in 0 .. n : f[i] = Body(f, i)
  <2> TAKE i \in 0 .. n
  <2>1. CASE i = 0
    BY <1>4, <2>1
  <2>2. CASE i # 0
    <3>1. i \in 1 .. n /\ i - 1 \in 0 .. n
      BY <1>1, <2>2
    <3>2. f[i - 1] \in V
      BY <1>4, <3>1
    <3> QED BY <1>3, <1>4, <2>2, <3>1, <3>2
  <2> QED BY <2>1, <2>2
<1>6. f = [i \in 0 .. n |-> Body(f, i)]
  BY <1>4, <1>5
<1>7. rest = [i \in 0 .. n |-> Body(rest, i)]
  <2>1. \E fn : fn = [i \in 0 .. n |-> Body(fn, i)]
    BY <1>6
  <2> QED BY <2>1, Zenon
<1> HIDE DEF rest
<1>8. rest[0] \in V /\ \A i \in 1 .. n : rest[i - 1] \in V => rest[i] \in V
  <2>1. rest[0] = s
    BY <1>1, <1>7
  <2>2. \A i \in 1 .. n : rest[i] = IF Outside(s[i], size) THEN EraseThing(rest[i - 1], s[i].at) ELSE rest[i - 1]
    <3> TAKE i \in 1 .. n
    <3>1. i \in 0 .. n /\ i # 0
      BY <1>1
    <3> QED BY <1>7, <3>1
  <2> QED BY <1>1, <2>1, <2>2, EraseIs
<1>9. rest[n] \in V
  <2>1. \A i \in 0 .. n : rest[i] \in V
    <3> HIDE DEF n, V
    <3> QED BY <1>1, <1>8, StepsStay
  <2> QED BY <1>1, <2>1
<1>10. Within(s, size) = rest[n]
  BY DEF Within, rest
<1> QED BY <1>9, <1>10

(* What is pasted stays apart from the rest, and an empty copy changes     *)
(* nothing.                                                                *)
LEMMA PastedIs ==
    ASSUME NEW s \in ThingLists, NEW T \in SUBSET (Int \X Int), NEW looks \in [T -> Looks],
           NEW size \in Nat \X Nat, NEW c \in Int \X Int
    PROVE  /\ Pasted(s, looks, size, c) \in ThingLists
           /\ T = {} => Pasted(s, looks, size, c) = s
<1> DEFINE n == size[1] * size[2]
           Is(i) == CellNo(i, size[1])
           V == IF T = {} THEN {s} ELSE ThingLists
           Following(i, q) == IF Is(i) \notin DOMAIN looks THEN q ELSE Put(q, Shift(Is(i), c), looks[Is(i)])
           g == [p \in (1 .. n) \X V |-> Following(p[1], p[2])]
           Body(f, i) == IF i = 0 THEN s
                         ELSE IF CellNo(i, size[1]) \notin DOMAIN looks THEN f[i - 1]
                         ELSE Put(f[i - 1], Shift(CellNo(i, size[1]), c), looks[CellNo(i, size[1])])
           all[m \in 0 .. size[1] * size[2]] ==
              IF m = 0 THEN s
              ELSE IF CellNo(m, size[1]) \notin DOMAIN looks THEN all[m - 1]
              ELSE Put(all[m - 1], Shift(CellNo(m, size[1]), c), looks[CellNo(m, size[1])])
<1>1. n \in Nat
  OBVIOUS
<1>0. s \in V /\ V \subseteq ThingLists
  OBVIOUS
<1>2. \A i \in 1 .. n, q \in V : Following(i, q) \in V
  <2> TAKE i \in 1 .. n, q \in V
  <2>0. CASE Is(i) \notin DOMAIN looks
    BY <2>0
  <2>1. CASE Is(i) \in DOMAIN looks
    <3> DEFINE x == Is(i)
    <3>1. x \in T /\ looks[x] \in Looks
      BY <2>1
    <3> HIDE DEF x
    <3>2. Shift(x, c) \in Int \X Int
      <4>1. x[1] \in Int /\ x[2] \in Int /\ c[1] \in Int /\ c[2] \in Int
        BY <3>1
      <4> QED BY <4>1 DEF Shift
    <3>3. q \in ThingLists /\ T # {}
      BY <1>0, <3>1
    <3>4. Put(q, Shift(x, c), looks[x]) \in ThingLists
      BY <3>1, <3>2, <3>3, PutIs
    <3> QED BY <2>1, <3>3, <3>4 DEF x
  <2> QED BY <2>0, <2>1
<1>3. g \in [(1 .. n) \X V -> V] /\ \A i \in 1 .. n, q \in V : g[<<i, q>>] = Following(i, q)
  <2> HIDE DEF Following, V
  <2> QED BY <1>2
<1>4. PICK f \in [0 .. n -> V] : f[0] = s /\ \A i \in 1 .. n : f[i] = g[<<i, f[i - 1]>>]
  <2> HIDE DEF g, n, V, all
  <2>1. \E f \in [0 .. n -> V] : Stepwise(f, n, s, g)
    <3>1. n \in Nat /\ s \in V /\ g \in [(1 .. n) \X V -> V]
      BY <1>0, <1>1, <1>3
    <3> QED BY <3>1, StepsExist
  <2> QED BY <2>1 DEF Stepwise
<1> HIDE DEF g, V, n
<1>5. \A i \in 0 .. n : f[i] = Body(f, i)
  <2> TAKE i \in 0 .. n
  <2>1. CASE i = 0
    BY <1>4, <2>1
  <2>2. CASE i # 0
    <3>1. i \in 1 .. n /\ i - 1 \in 0 .. n
      BY <1>1, <2>2
    <3>2. f[i - 1] \in V
      BY <1>4, <3>1
    <3>3. f[i] = Following(i, f[i - 1])
      <4> HIDE DEF Following
      <4> QED BY <1>3, <1>4, <3>1, <3>2
    <3> QED BY <2>2, <3>3
  <2> QED BY <2>1, <2>2
<1>6. f = [i \in 0 .. n |-> Body(f, i)]
  BY <1>4, <1>5
<1>7. all = [i \in 0 .. n |-> Body(all, i)]
  <2>1. \E fn : fn = [i \in 0 .. size[1] * size[2] |-> Body(fn, i)]
    BY <1>6 DEF n
  <2> QED BY <2>1, Zenon DEF n
<1> HIDE DEF all
<1>8. all[0] \in V /\ \A i \in 1 .. n : all[i - 1] \in V => all[i] \in V
  <2>1. all[0] = s
    BY <1>1, <1>7
  <2>2. ASSUME NEW i \in 1 .. n PROVE all[i] = Following(i, all[i - 1])
    <3>1. i \in 0 .. n /\ i # 0
      BY <1>1
    <3>2. all[i] = Body(all, i)
      <4> HIDE DEF Body
      <4> QED BY <1>7, <3>1
    <3> QED BY <3>1, <3>2
  <2> HIDE DEF Following
  <2> QED BY <1>0, <1>2, <2>1, <2>2
<1>9. all[n] \in V
  <2>1. \A i \in 0 .. n : all[i] \in V
    BY <1>1, <1>8, StepsStay
  <2> QED BY <1>1, <2>1
<1>10. Pasted(s, looks, size, c) = all[n]
  BY DEF Pasted, all, n
<1> QED BY <1>0, <1>9, <1>10 DEF V
-----------------------------------------------------------------------------
(* Maps and entries.  *)

Grid(size) == [Cells(size[1], size[2]) -> Int]
MapSound(m) ==
    /\ m \in [name : MapNames \cup {NoName}, size : MapSizes, tileset : BOOLEAN,
              layer : [Layers -> UNION {Grid(s) : s \in MapSizes}], things : [Kinds -> ThingLists]]
    /\ \A l \in Layers : m.layer[l] \in Grid(m.size)

(* Entries hold the rows and things of one map, nothing more.              *)
EntrySound(e) ==
    /\ e = [size |-> e.size, name |-> e.name, tileset |-> e.tileset, rows |-> e.rows,
            count |-> e.count, listed |-> e.listed]
    /\ e.size \in (Nat \X Nat) /\ e.name \in MapNames \cup {NoName} /\ e.tileset \in BOOLEAN
    /\ e.rows \in [Layers \X (0 .. e.size[2] - 1) -> [0 .. e.size[1] - 1 -> Int]]
    /\ e.listed = [k \in Kinds |-> e.listed[k]] /\ \A k \in Kinds : e.listed[k] \in FileLists(k)
    /\ e.count = [k \in Kinds |-> Len(e.listed[k])]

LEMMA SizesAre ==
    ASSUME NEW size \in MapSizes
    PROVE  size \in Nat \X Nat /\ size[1] \in Nat \ {0} /\ size[2] \in Nat \ {0}
BY EditorAssumption

LEMMA MapMade ==
    ASSUME NEW m, m.size \in MapSizes, m.name \in MapNames \cup {NoName}, m.tileset \in BOOLEAN,
           m.things \in [Kinds -> ThingLists], \A l \in Layers : m.layer[l] \in Grid(m.size),
           m = [name |-> m.name, size |-> m.size, tileset |-> m.tileset,
                layer |-> [l \in Layers |-> m.layer[l]], things |-> m.things]
    PROVE  MapSound(m)
<1>1. m.layer \in [Layers -> UNION {Grid(s) : s \in MapSizes}]
  <2> DEFINE G == UNION {Grid(s) : s \in MapSizes}
  <2>1. \A l \in Layers : m.layer[l] \in G
    OBVIOUS
  <2>2. m.layer = [l \in Layers |-> m.layer[l]]
    OBVIOUS
  <2> HIDE DEF G
  <2>3. m.layer \in [Layers -> G]
    BY <2>1, <2>2
  <2> QED BY <2>3 DEF G
<1>2. m \in [name : MapNames \cup {NoName}, size : MapSizes, tileset : BOOLEAN,
             layer : [Layers -> UNION {Grid(s) : s \in MapSizes}], things : [Kinds -> ThingLists]]
  <2> DEFINE L == [Layers -> UNION {Grid(s) : s \in MapSizes}]
             T == [Kinds -> ThingLists]
             y == m.layer
  <2>1. m = [name |-> m.name, size |-> m.size, tileset |-> m.tileset, layer |-> y, things |-> m.things]
    OBVIOUS
  <2>2. y \in L /\ m.things \in T
    BY <1>1
  <2> HIDE DEF L, T, y
  <2>3. m \in [name : MapNames \cup {NoName}, size : MapSizes, tileset : BOOLEAN, layer : L, things : T]
    BY <2>1, <2>2
  <2> QED BY <2>3 DEF L, T
<1> QED BY <1>2 DEF MapSound

LEMMA SetTileIs ==
    ASSUME NEW m, MapSound(m), NEW l \in Layers, NEW c, NEW t \in Int
    PROVE  MapSound(SetTile(m, l, c, t)) /\ SetTile(m, l, c, t).size = m.size
<1>1. CASE ~InMap(m, c)
  BY <1>1 DEF SetTile
<1>2. CASE InMap(m, c)
  <2> DEFINE n == SetTile(m, l, c, t)
  <2>1. n = [m EXCEPT !.layer[l][c] = t]
    BY <1>2 DEF SetTile
  <2>2. /\ n.size = m.size /\ n.name = m.name /\ n.tileset = m.tileset /\ n.things = m.things
        /\ n.layer = [m.layer EXCEPT ![l] = [m.layer[l] EXCEPT ![c] = t]]
        /\ n = [name |-> n.name, size |-> n.size, tileset |-> n.tileset,
                layer |-> n.layer, things |-> n.things]
    BY <2>1 DEF MapSound
  <2>3. [m.layer[l] EXCEPT ![c] = t] \in Grid(m.size)
    <3>1. m.layer[l] \in [Cells(m.size[1], m.size[2]) -> Int]
      BY DEF MapSound, Grid
    <3> QED BY <3>1 DEF Grid
  <2>4. DOMAIN m.layer = Layers /\ \A k \in Layers : m.layer[k] \in Grid(m.size)
    BY DEF MapSound
  <2> HIDE DEF n
  <2>5. n.layer = [k \in Layers |-> n.layer[k]] /\ \A k \in Layers : n.layer[k] \in Grid(n.size)
    BY <2>2, <2>3, <2>4
  <2>6. n.size \in MapSizes /\ n.name \in MapNames \cup {NoName} /\ n.tileset \in BOOLEAN /\ n.things \in [Kinds -> ThingLists]
    BY <2>2 DEF MapSound
  <2> QED BY <2>2, <2>5, <2>6, MapMade DEF n
<1> QED BY <1>1, <1>2

LEMMA LayersChanged ==
    ASSUME NEW m, MapSound(m), NEW y, \A l \in Layers : y[l] \in Grid(m.size), y = [l \in Layers |-> y[l]]
    PROVE  MapSound([m EXCEPT !.layer = y])
<1> DEFINE n == [m EXCEPT !.layer = y]
<1>2. /\ n.size = m.size /\ n.name = m.name /\ n.tileset = m.tileset /\ n.things = m.things
      /\ n.layer = y
      /\ n = [name |-> n.name, size |-> n.size, tileset |-> n.tileset, layer |-> n.layer, things |-> n.things]
  BY DEF MapSound
<1>3. n.size \in MapSizes /\ n.name \in MapNames \cup {NoName} /\ n.tileset \in BOOLEAN /\ n.things \in [Kinds -> ThingLists]
  BY <1>2 DEF MapSound
<1> HIDE DEF n
<1> QED BY <1>2, <1>3, MapMade DEF n

LEMMA ThingsChanged ==
    ASSUME NEW m, MapSound(m), NEW k \in Kinds, NEW s \in ThingLists
    PROVE  /\ MapSound([m EXCEPT !.things[k] = s])
           /\ s = m.things[k] => [m EXCEPT !.things[k] = s] = m
<1> DEFINE n == [m EXCEPT !.things[k] = s]
<1>2. /\ n.size = m.size /\ n.name = m.name /\ n.tileset = m.tileset /\ n.layer = m.layer
      /\ n.things = [m.things EXCEPT ![k] = s]
      /\ n = [name |-> n.name, size |-> n.size, tileset |-> n.tileset, layer |-> n.layer, things |-> n.things]
      /\ m = [name |-> m.name, size |-> m.size, tileset |-> m.tileset, layer |-> m.layer, things |-> m.things]
  BY DEF MapSound
<1>3. m.things \in [Kinds -> ThingLists] /\ n.things \in [Kinds -> ThingLists]
  <2>1. m.things \in [Kinds -> ThingLists]
    BY DEF MapSound
  <2> QED BY <1>2, <2>1
<1>4. s = m.things[k] => n.things = m.things
  BY <1>2, <1>3
<1>5. n.layer = [l \in Layers |-> n.layer[l]]
  BY <1>2 DEF MapSound
<1>6. n.size \in MapSizes /\ n.name \in MapNames \cup {NoName} /\ n.tileset \in BOOLEAN
      /\ \A l \in Layers : n.layer[l] \in Grid(n.size)
  BY <1>2 DEF MapSound
<1> HIDE DEF n
<1>7. MapSound(n)
  BY <1>2, <1>3, <1>5, <1>6, MapMade
<1> QED BY <1>2, <1>4, <1>7 DEF n

LEMMA NamedIs ==
    ASSUME NEW m, MapSound(m), NEW name \in MapNames
    PROVE  MapSound([m EXCEPT !.name = name])
<1> DEFINE n == [m EXCEPT !.name = name]
<1>2. /\ n.size = m.size /\ n.name = name /\ n.tileset = m.tileset /\ n.layer = m.layer /\ n.things = m.things
      /\ n = [name |-> n.name, size |-> n.size, tileset |-> n.tileset, layer |-> n.layer, things |-> n.things]
  BY DEF MapSound
<1>3. n.size \in MapSizes /\ n.name \in MapNames \cup {NoName} /\ n.tileset \in BOOLEAN /\ n.things \in [Kinds -> ThingLists]
      /\ \A l \in Layers : n.layer[l] \in Grid(n.size)
  BY <1>2 DEF MapSound
<1>4. n.layer = [l \in Layers |-> n.layer[l]]
  BY <1>2 DEF MapSound
<1> HIDE DEF n
<1> QED BY <1>2, <1>3, <1>4, MapMade DEF n

LEMMA TilesetIs ==
    ASSUME NEW m, MapSound(m)
    PROVE  MapSound([m EXCEPT !.tileset = TRUE])
<1> DEFINE n == [m EXCEPT !.tileset = TRUE]
<1>2. /\ n.size = m.size /\ n.name = m.name /\ n.tileset = TRUE /\ n.layer = m.layer /\ n.things = m.things
      /\ n = [name |-> n.name, size |-> n.size, tileset |-> n.tileset, layer |-> n.layer, things |-> n.things]
  <2> DEFINE t == TRUE
             z == [m EXCEPT !.tileset = t]
  <2> HIDE DEF t
  <2>1. m = [name |-> m.name, size |-> m.size, tileset |-> m.tileset, layer |-> m.layer, things |-> m.things]
    BY DEF MapSound
  <2>2. z.size = m.size /\ z.name = m.name /\ z.tileset = t /\ z.layer = m.layer /\ z.things = m.things
    BY <2>1
  <2>3. z = [name |-> z.name, size |-> z.size, tileset |-> z.tileset, layer |-> z.layer, things |-> z.things]
    BY <2>1
  <2> QED BY <2>2, <2>3 DEF t
<1>3. n.size \in MapSizes /\ n.name \in MapNames \cup {NoName} /\ n.tileset \in BOOLEAN /\ n.things \in [Kinds -> ThingLists]
      /\ \A l \in Layers : n.layer[l] \in Grid(n.size)
  BY <1>2 DEF MapSound
<1>4. n.layer = [l \in Layers |-> n.layer[l]]
  BY <1>2 DEF MapSound
<1> HIDE DEF n
<1> QED BY <1>2, <1>3, <1>4, MapMade DEF n

LEMMA ResizedIs ==
    ASSUME NEW m, MapSound(m), NEW size \in MapSizes, NEW name \in MapNames
    PROVE  MapSound([Resized(m, size) EXCEPT !.name = name, !.tileset = TRUE])
<1> DEFINE n == Resized(m, size)
           y == [l \in Layers |-> [c \in Cells(size[1], size[2]) |->
                    IF InMap(m, c) THEN m.layer[l][c] ELSE Nothing]]
           t == [k \in Kinds |-> Within(m.things[k], size)]
<1>1. n = [m EXCEPT !.size = size, !.layer = y, !.things = t]
  BY DEF Resized
<1> HIDE DEF y, t, n
<1>2. /\ n.size = size /\ n.name = m.name /\ n.tileset = m.tileset /\ n.layer = y /\ n.things = t
      /\ n = [name |-> n.name, size |-> n.size, tileset |-> n.tileset, layer |-> n.layer, things |-> n.things]
  BY <1>1 DEF MapSound
<1>3. t \in [Kinds -> ThingLists]
  <2>1. \A k \in Kinds : m.things[k] \in ThingLists
    BY DEF MapSound
  <2> QED BY <2>1, WithinIs DEF t
<1>4. ASSUME NEW l \in Layers PROVE y[l] \in Grid(size)
  <2>1. m.layer[l] \in [Cells(m.size[1], m.size[2]) -> Int]
    BY DEF MapSound, Grid
  <2>2. \A c : InMap(m, c) => m.layer[l][c] \in Int
    BY <2>1 DEF InMap
  <2> QED BY <2>2 DEF y, Grid, Nothing
<1>5. y = [l \in Layers |-> y[l]]
  BY DEF y
<1>6. /\ n.size \in MapSizes /\ n.name \in MapNames \cup {NoName} /\ n.tileset \in BOOLEAN
      /\ n.things \in [Kinds -> ThingLists] /\ \A l \in Layers : n.layer[l] \in Grid(n.size)
  BY <1>2, <1>3, <1>4 DEF MapSound
<1>7. n.layer = [l \in Layers |-> n.layer[l]]
  BY <1>2, <1>5
<1>8. MapSound(n)
  BY <1>2, <1>6, <1>7, MapMade
<1>9. [n EXCEPT !.name = name, !.tileset = TRUE] = [[n EXCEPT !.name = name] EXCEPT !.tileset = TRUE]
  OBVIOUS
<1> QED BY <1>8, <1>9, NamedIs, TilesetIs DEF n

LEMMA FreshSound == MapSound(Fresh) /\ Smallest \in MapSizes
<1>1. Smallest \in MapSizes
  <2> DEFINE P(s) == s[1] * s[2]
             S == {P(s) : s \in MapSizes}
  <2>1. \A s \in MapSizes : P(s) \in Nat
    BY SizesAre
  <2> HIDE DEF P
  <2>2. S \in SUBSET Nat /\ S # {}
    BY <2>1, EditorAssumption
  <2>3. PICK i \in S : \A j \in S : i <= j
    <3> HIDE DEF S
    <3> QED BY <2>2, LeastExists
  <2>4. \E s \in MapSizes : \A t \in MapSizes : P(s) <= P(t)
    BY <2>3
  <2>5. \E s \in MapSizes : \A t \in MapSizes : s[1] * s[2] <= t[1] * t[2]
    BY <2>4 DEF P
  <2> QED BY <2>5 DEF Smallest
<1>2. /\ Fresh.size = Smallest /\ Fresh.name = NoName /\ Fresh.tileset = FALSE
      /\ Fresh.layer = Empty(Smallest[1], Smallest[2]) /\ Fresh.things = NoThings
      /\ Fresh = [name |-> Fresh.name, size |-> Fresh.size, tileset |-> Fresh.tileset,
                  layer |-> Fresh.layer, things |-> Fresh.things]
  BY DEF Fresh
<1>3. NoThings \in [Kinds -> ThingLists]
  <2>1. << >> \in ThingLists
    BY DEF ThingLists, Apart
  <2> QED BY <2>1 DEF NoThings
<1>4. \A l \in Layers : Empty(Smallest[1], Smallest[2])[l] \in Grid(Smallest)
  BY DEF Empty, Grid, Nothing
<1>5. Empty(Smallest[1], Smallest[2]) = [l \in Layers |-> Empty(Smallest[1], Smallest[2])[l]]
  BY DEF Empty
<1> DEFINE f == Fresh
<1>6. /\ f.size = Smallest /\ f.name = NoName /\ f.tileset = FALSE
      /\ f.layer = Empty(Smallest[1], Smallest[2]) /\ f.things = NoThings
      /\ f = [name |-> f.name, size |-> f.size, tileset |-> f.tileset,
                  layer |-> f.layer, things |-> f.things]
  BY <1>2
<1> HIDE DEF f
<1>7. MapSound(f)
  <2>1. f.size \in MapSizes /\ f.name \in MapNames \cup {NoName} /\ f.tileset \in BOOLEAN
        /\ f.things \in [Kinds -> ThingLists] /\ \A l \in Layers : f.layer[l] \in Grid(f.size)
    BY <1>1, <1>3, <1>4, <1>6
  <2>2. f.layer = [l \in Layers |-> f.layer[l]]
    BY <1>5, <1>6
  <2> QED BY <1>6, <2>1, <2>2, MapMade
<1> QED BY <1>1, <1>7 DEF f

LEMMA NoEntriesSound == EntrySound(NoEntries)
<1>1. \A k : << >> \in FileLists(k)
  BY DEF FileLists, Apart
<1>2. /\ NoEntries.size = <<0, 0>> /\ NoEntries.name = NoName /\ NoEntries.rows = << >>
      /\ NoEntries.tileset = FALSE
      /\ NoEntries.count = [k \in Kinds |-> 0] /\ NoEntries.listed = [k \in Kinds |-> << >>]
      /\ NoEntries = [size |-> NoEntries.size, name |-> NoEntries.name,
                      tileset |-> NoEntries.tileset, rows |-> NoEntries.rows,
                      count |-> NoEntries.count, listed |-> NoEntries.listed]
  BY DEF NoEntries
<1>3. << >> \in [Layers \X (0 .. 0 - 1) -> [0 .. 0 - 1 -> Int]]
  <2>1. Layers \X (0 .. 0 - 1) = {}
    OBVIOUS
  <2> QED BY <2>1
<1>4. \A k \in Kinds : NoEntries.listed[k] \in FileLists(k)
  BY <1>1, <1>2
<1>5. [k \in Kinds |-> 0] = [k \in Kinds |-> Len([x \in Kinds |-> << >>][k])]
  OBVIOUS
<1>6. NoEntries.listed = [k \in Kinds |-> NoEntries.listed[k]]
  BY <1>2
<1>7. NoEntries.count = [k \in Kinds |-> Len(NoEntries.listed[k])]
  BY <1>2, <1>5
<1>8. NoEntries.size \in Nat \X Nat /\ NoEntries.size[1] = 0 /\ NoEntries.size[2] = 0
  BY <1>2
<1>9. NoEntries.rows \in [Layers \X (0 .. NoEntries.size[2] - 1) -> [0 .. NoEntries.size[1] - 1 -> Int]]
  BY <1>2, <1>3, <1>8
<1> QED BY <1>2, <1>4, <1>6, <1>7, <1>8, <1>9, Zenon DEF EntrySound

LEMMA MapRowsIs ==
    ASSUME NEW m, MapSound(m)
    PROVE  /\ m.size \in Nat \X Nat
           /\ MapRows(m) \in [Layers \X (0 .. m.size[2] - 1) -> [0 .. m.size[1] - 1 -> Int]]
           /\ \A l \in Layers, c \in Cells(m.size[1], m.size[2]) :
                 MapRows(m)[<<l, c[2]>>][c[1]] = m.layer[l][c]
<1>1. m.size \in Nat \X Nat
  BY SizesAre DEF MapSound
<1>2. \A l \in Layers : m.layer[l] \in [Cells(m.size[1], m.size[2]) -> Int]
  BY DEF MapSound, Grid
<1>3. \A l \in Layers, y \in 0 .. m.size[2] - 1, x \in 0 .. m.size[1] - 1 :
         <<x, y>> \in Cells(m.size[1], m.size[2]) /\ m.layer[l][<<x, y>>] \in Int
  BY <1>2 DEF Cells
<1>4. MapRows(m) \in [Layers \X (0 .. m.size[2] - 1) -> [0 .. m.size[1] - 1 -> Int]]
  BY <1>3 DEF MapRows
<1>5. \A l \in Layers, c \in Cells(m.size[1], m.size[2]) :
         MapRows(m)[<<l, c[2]>>][c[1]] = m.layer[l][c]
  <2> TAKE l \in Layers, c \in Cells(m.size[1], m.size[2])
  <2>1. c[1] \in 0 .. m.size[1] - 1 /\ c[2] \in 0 .. m.size[2] - 1 /\ c = <<c[1], c[2]>>
    BY DEF Cells
  <2> QED BY <2>1 DEF MapRows
<1> QED BY <1>1, <1>4, <1>5

(* What is saved is the map, and nothing of what was saved before.         *)
LEMMA EntriesAre ==
    ASSUME NEW e, EntrySound(e), NEW m, MapSound(m)
    PROVE  /\ EntrySound(Entries(e, m)) /\ SavedWhole(Entries(e, m), m)
           /\ Entries(e, m).size = m.size /\ Entries(e, m).name = m.name
<1> DEFINE old == Dropped(e)
           n == Entries(e, m)
<1>1. /\ e.size \in Nat \X Nat
      /\ DOMAIN e.rows = Layers \X (0 .. e.size[2] - 1)
      /\ \A k \in Kinds : e.listed[k] \in Seq(FileThing) /\ e.count[k] = Len(e.listed[k])
  BY DEF EntrySound, FileLists
<1>2. DOMAIN old.rows = {}
  <2>1. old.rows = Restrict(e.rows, {r \in DOMAIN e.rows : r[2] >= e.size[2]})
    BY DEF Dropped, EntrySound
  <2>2. {r \in DOMAIN e.rows : r[2] >= e.size[2]} = {}
    BY <1>1
  <2> QED BY <2>1, <2>2 DEF Restrict
<1>3. \A k \in Kinds : DOMAIN old.listed[k] = {}
  <2> TAKE k \in Kinds
  <2>1. old.listed[k] = Restrict(e.listed[k], {i \in DOMAIN e.listed[k] : i > e.count[k]})
    BY DEF Dropped, EntrySound
  <2>2. {i \in DOMAIN e.listed[k] : i > e.count[k]} = {}
    BY <1>1
  <2> QED BY <2>1, <2>2 DEF Restrict
<1>4. n.size = m.size /\ n.name = m.name /\ n.tileset = m.tileset
      /\ n.count = [k \in Kinds |-> Len(m.things[k])]
      /\ n.rows = [r \in DOMAIN MapRows(m) \cup DOMAIN old.rows |->
                      IF r \in DOMAIN MapRows(m) THEN MapRows(m)[r] ELSE old.rows[r]]
      /\ n.listed = [k \in Kinds |-> [i \in DOMAIN m.things[k] \cup DOMAIN old.listed[k] |->
                      IF i \in DOMAIN m.things[k] THEN m.things[k][i] ELSE old.listed[k][i]]]
      /\ n = [size |-> n.size, name |-> n.name, tileset |-> n.tileset, rows |-> n.rows,
              count |-> n.count, listed |-> n.listed]
  BY DEF Entries
<1> HIDE DEF n, old
<1>5. n.rows = MapRows(m)
  <2>1. MapRows(m) = [r \in DOMAIN MapRows(m) |-> MapRows(m)[r]]
    BY DEF MapRows
  <2> DEFINE f == MapRows(m)
  <2> HIDE DEF f
  <2>2. n.rows = [r \in DOMAIN f |-> f[r]]
    BY <1>2, <1>4 DEF f
  <2> QED BY <2>1, <2>2 DEF f
<1>6. \A k \in Kinds : m.things[k] \in ThingLists /\ n.listed[k] = m.things[k]
  <2> TAKE k \in Kinds
  <2>1. m.things[k] \in ThingLists
    BY DEF MapSound
  <2> DEFINE s == m.things[k]
  <2>2. s = [i \in DOMAIN s |-> s[i]]
    BY <2>1 DEF ThingLists
  <2> HIDE DEF s
  <2>3. n.listed[k] = [i \in DOMAIN s |-> s[i]]
    BY <1>3, <1>4 DEF s
  <2> QED BY <2>1, <2>2, <2>3 DEF s
<1>7. m.things \in [Kinds -> ThingLists]
  BY DEF MapSound
<1>8. n.listed = m.things
  <2>1. n.listed = [k \in Kinds |-> n.listed[k]]
    BY <1>4
  <2> QED BY <1>6, <1>7, <2>1
<1>9. n.name \in MapNames \cup {NoName} /\ n.tileset \in BOOLEAN
  BY <1>4 DEF MapSound
<1>10. EntrySound(n)
  <2>1. n.size \in Nat \X Nat /\ n.rows \in [Layers \X (0 .. n.size[2] - 1) -> [0 .. n.size[1] - 1 -> Int]]
    <3>1. /\ m.size \in Nat \X Nat
          /\ MapRows(m) \in [Layers \X (0 .. m.size[2] - 1) -> [0 .. m.size[1] - 1 -> Int]]
      BY MapRowsIs
    <3> QED BY <1>4, <1>5, <3>1
  <2>2. /\ n.listed = [k \in Kinds |-> n.listed[k]] /\ \A k \in Kinds : n.listed[k] \in FileLists(k)
        /\ n.count = [k \in Kinds |-> Len(n.listed[k])]
    <3>1. \A k \in Kinds : m.things[k] \in FileLists(k)
      BY <1>6, AllKnown
    <3> QED BY <1>4, <1>7, <1>8, <3>1
  <2> QED BY <1>4, <1>9, <2>1, <2>2 DEF EntrySound
<1>11. SavedWhole(n, m)
  <2>1. \A k \in Kinds : Known(k, m.things[k]) = m.things[k]
    BY <1>6, AllKnown
  <2>2. \A k \in Kinds : DOMAIN m.things[k] = 1 .. Len(m.things[k])
    BY <1>6 DEF ThingLists
  <2> QED BY <1>4, <1>5, <1>8, <2>1, <2>2 DEF SavedWhole
<1> QED BY <1>4, <1>10, <1>11 DEF n

(* And what is loaded is what was saved.                                   *)
LEMMA LoadedIs ==
    ASSUME NEW e, EntrySound(e), e.size \in MapSizes
    PROVE  MapSound(Loaded(e)) /\ SavedWhole(e, Loaded(e)) /\ Loaded(e).name = e.name
<1> DEFINE m == Loaded(e)
           fn == 0 .. e.size[2] - 1
           w == 0 .. e.size[1] - 1
<1>1. /\ m.name = e.name /\ m.size = e.size /\ m.tileset = e.tileset
      /\ m.layer = [l \in Layers |-> [c \in Cells(e.size[1], e.size[2]) |-> e.rows[<<l, c[2]>>][c[1]]]]
      /\ m.things = [k \in Kinds |-> Known(k, [i \in 1 .. e.count[k] |-> e.listed[k][i]])]
      /\ m = [name |-> m.name, size |-> m.size, tileset |-> m.tileset, layer |-> m.layer, things |-> m.things]
  BY DEF Loaded
<1> HIDE DEF m
<1>2. \A k \in Kinds : /\ m.things[k] = Known(k, e.listed[k]) /\ m.things[k] \in ThingLists
                        /\ DOMAIN e.listed[k] = 1 .. e.count[k]
  <2> TAKE k \in Kinds
  <2>1. e.listed[k] \in FileLists(k) /\ e.listed[k] \in Seq(FileThing) /\ e.count[k] = Len(e.listed[k])
    BY DEF EntrySound, FileLists
  <2>2. [i \in 1 .. e.count[k] |-> e.listed[k][i]] = e.listed[k]
    BY <2>1
  <2>3. m.things[k] = Known(k, e.listed[k])
    BY <1>1, <2>2
  <2> QED BY <2>1, <2>3, KnownIs
<1>3. e.rows \in [Layers \X fn -> [w -> Int]]
  BY DEF EntrySound
<1>4. \A l \in Layers, c \in Cells(e.size[1], e.size[2]) :
         m.layer[l][c] = e.rows[<<l, c[2]>>][c[1]] /\ e.rows[<<l, c[2]>>][c[1]] \in Int
  <2> TAKE l \in Layers, c \in Cells(e.size[1], e.size[2])
  <2>1. <<l, c[2]>> \in Layers \X fn /\ c[1] \in w
    BY DEF Cells
  <2>2. e.rows[<<l, c[2]>>] \in [w -> Int]
    BY <1>3, <2>1
  <2>3. m.layer[l][c] = e.rows[<<l, c[2]>>][c[1]]
    BY <1>1
  <2> QED BY <2>1, <2>2, <2>3
<1>5. \A l \in Layers : m.layer[l] \in Grid(e.size)
  <2> TAKE l \in Layers
  <2>1. m.layer[l] = [c \in Cells(e.size[1], e.size[2]) |-> m.layer[l][c]]
    BY <1>1
  <2> QED BY <1>4, <2>1 DEF Grid
<1>6. MapSound(m)
  <2>0. m.things \in [Kinds -> ThingLists]
    <3>1. m.things = [k \in Kinds |-> m.things[k]]
      BY <1>1
    <3> QED BY <1>2, <3>1
  <2>1. m.size \in MapSizes /\ m.name \in MapNames \cup {NoName} /\ m.tileset \in BOOLEAN
        /\ m.things \in [Kinds -> ThingLists] /\ \A l \in Layers : m.layer[l] \in Grid(m.size)
    BY <1>1, <1>5, <2>0 DEF EntrySound
  <2>2. m.layer = [l \in Layers |-> m.layer[l]]
    BY <1>1
  <2> QED BY <1>1, <2>1, <2>2, MapMade
<1>7. e.rows = MapRows(m)
  <2> DEFINE f == MapRows(m)
  <2>1. f \in [Layers \X fn -> [w -> Int]]
    BY <1>1, <1>6, MapRowsIs
  <2>2. ASSUME NEW l \in Layers, NEW y \in fn, NEW x \in w PROVE f[<<l, y>>][x] = e.rows[<<l, y>>][x]
    <3> DEFINE c == <<x, y>>
    <3>1. c \in Cells(e.size[1], e.size[2]) /\ c[1] = x /\ c[2] = y
      BY DEF Cells
    <3> HIDE DEF c
    <3>2. f[<<l, c[2]>>][c[1]] = m.layer[l][c]
      <4>1. c \in Cells(m.size[1], m.size[2])
        BY <1>1, <3>1
      <4> QED BY <1>6, <4>1, MapRowsIs
    <3> QED BY <1>4, <3>1, <3>2
  <2> HIDE DEF f
  <2>3. \A r \in Layers \X fn : f[r] = e.rows[r]
    <3> TAKE r \in Layers \X fn
    <3>1. r = <<r[1], r[2]>> /\ r[1] \in Layers /\ r[2] \in fn
      OBVIOUS
    <3>2. \A x \in w : f[r][x] = e.rows[r][x]
      BY <2>2, <3>1
    <3>3. f[r] \in [w -> Int] /\ e.rows[r] \in [w -> Int]
      BY <1>3, <2>1
    <3> DEFINE a == f[r]
               b == e.rows[r]
    <3> HIDE DEF a, b
    <3>4. a \in [w -> Int] /\ b \in [w -> Int] /\ \A x \in w : a[x] = b[x]
      BY <3>2, <3>3 DEF a, b
    <3> HIDE DEF w
    <3>5. a = b
      BY <3>4
    <3> QED BY <3>5 DEF a, b
  <2> HIDE DEF fn, w
  <2>4. f = e.rows
    BY <1>3, <2>1, <2>3
  <2> QED BY <2>4 DEF f
<1>8. SavedWhole(e, m)
  BY <1>1, <1>2, <1>7 DEF SavedWhole
<1> QED BY <1>1, <1>6, <1>8 DEF m
-----------------------------------------------------------------------------
(* The invariant.  *)

PagesTyped == [selected : Int, page : Nat, start : Nat, picture : Int]
CopySound(d) ==
    /\ d.size \in Nat \X Nat
    /\ \A l \in Layers : \A c \in DOMAIN d.layer[l] : d.layer[l][c] \in Int
    /\ \A k \in Kinds : \E T \in SUBSET (Int \X Int) : d.things[k] \in [T -> Looks]
FilesSound ==
    \A n \in DOMAIN files :
        files[n] # Cut => EntrySound(files[n]) /\ files[n].name = n /\ files[n].size \in MapSizes

LEMMA FoundIs ==
    ASSUME NEW e, MapFile(e)
    PROVE  EntrySound(e) /\ e.size \in MapSizes
<1>1. e.size \in MapSizes /\ e.size \in Nat \X Nat
  BY SizesAre DEF MapFile
<1>2. \A k \in Kinds : e.listed[k] \in FileLists(k)
  <2> TAKE k \in Kinds
  <2>1. e.listed[k] \in Seq(FileThing) /\ Apart(e.listed[k])
    BY DEF MapFile, FileThing
  <2>2. k # "object" => \A i \in DOMAIN e.listed[k] : e.listed[k][i].look \in Looks
    BY DEF MapFile
  <2> QED BY <2>1, <2>2 DEF FileLists
<1>3. e.listed = [k \in Kinds |-> e.listed[k]]
  BY DEF MapFile
<1> QED BY <1>1, <1>2, <1>3 DEF MapFile, EntrySound

(* What the thread has computed so far is of the map as it is: nothing     *)
(* else can be done while its window is open.                              *)
Computed(n) == <<Ground(wmap), [i \in 1 .. n - 1 |-> Ray(wmap, i)]>>
CompileSound ==
    \/ compile = NoThread
    \/ /\ shown = "compile"
       /\ \E st \in {"running", "cancelled", "thrown", "finished"}, n \in Nat :
            /\ n \in 1 .. Len(Lights(wmap)) + 1
            /\ st = "finished" => n = Len(Lights(wmap)) + 1
            /\ compile = [state |-> st, next |-> n, light |-> Computed(n), lights |-> Len(Lights(wmap))]

EditorTyped ==
    /\ MapSound(wmap) /\ modified \in BOOLEAN /\ EntrySound(kv) /\ FilesSound
    /\ CopySound(copied) /\ pages \in PagesTyped

EditorInv == EditorTyped /\ CleanIsSaved /\ PictureLive /\ CompileSound

LEMMA InvIsSound ==
    ASSUME EditorInv
    PROVE  EditorSound
<1>1. ThingsApart
  <2>1. \A k \in Kinds : wmap.things[k] \in ThingLists
    BY DEF EditorInv, EditorTyped, MapSound
  <2> QED BY <2>1 DEF ThingsApart, ThingLists, Apart
<1> QED BY <1>1 DEF EditorInv, EditorSound

LEMMA EditorInitSound ==
    ASSUME EditorInit
    PROVE  EditorInv
<1>1. CopySound(copied)
  <2>1. copied.size = <<0, 0>> /\ copied.layer = Empty(0, 0) /\ copied.things = NoThings
    BY DEF EditorInit
  <2>2. \A k \in Kinds : NoThings[k] \in [{} -> Looks]
    BY DEF NoThings
  <2>3. \A l \in Layers : \A c \in DOMAIN copied.layer[l] : copied.layer[l][c] \in Int
    BY <2>1 DEF Empty, Nothing
  <2>4. {} \in SUBSET (Int \X Int)
    OBVIOUS
  <2>5. \A k \in Kinds : \E T \in SUBSET (Int \X Int) : NoThings[k] \in [T -> Looks]
    BY <2>2, <2>4, Zenon
  <2>6. copied.size \in Nat \X Nat
    BY <2>1
  <2> QED BY <2>1, <2>3, <2>5, <2>6 DEF CopySound
<1>2. FilesSound
  <2>1. files \in Found
    BY DEF EditorInit
  <2>2. \A n \in DOMAIN files : MapFile(files[n]) /\ files[n].name = n
    BY <2>1, FoundAssumption
  <2> QED BY <2>2, FoundIs DEF FilesSound
<1>3. pages \in PagesTyped
  BY DEF EditorInit, NoPages, PagesTyped, Nothing
<1>4. EditorTyped
  BY <1>1, <1>2, <1>3, FreshSound, NoEntriesSound DEF EditorInit, EditorTyped
<1>5. CleanIsSaved
  BY DEF EditorInit, CleanIsSaved
<1>6. PictureLive
  BY DEF EditorInit, PictureLive, NoPages
<1>7. CompileSound
  BY DEF EditorInit, CompileSound
<1> QED BY <1>4, <1>5, <1>6, <1>7 DEF EditorInv

(* An edit of the map, which is possible only while nothing is computed.   *)
LEMMA EditKeeps ==
    ASSUME EditorInv, shown = "none", MapSound(wmap'), modified' \in BOOLEAN,
           modified' \/ (wmap' = wmap /\ modified' = modified),
           UNCHANGED <<kv, diskVars, copied, shown, compile>>,
           pages' \in PagesTyped, pages'.picture = pages.picture
    PROVE  EditorInv'
<1>1. UNCHANGED <<kv, files, copied, shown, compile>>
  BY DEF diskVars
<1>2. EditorTyped'
  BY <1>1 DEF EditorInv, EditorTyped, FilesSound, CopySound
<1>3. CleanIsSaved'
  BY <1>1 DEF EditorInv, CleanIsSaved
<1>4. PictureLive'
  BY <1>1 DEF EditorInv, PictureLive
<1>5. CompileSound'
  BY <1>1 DEF EditorInv, CompileSound
<1> QED BY <1>2, <1>3, <1>4, <1>5 DEF EditorInv

LEMMA TouchKeeps ==
    ASSUME EditorInv, Editable, NEW m, MapSound(m), Touched(m),
           UNCHANGED <<diskVars, selVars, guiVars, compile, crashed>>
    PROVE  EditorInv'
<1>1. wmap' = m /\ modified' = TRUE /\ UNCHANGED <<kv, diskVars, copied, shown, pages, compile>> /\ shown = "none"
  BY DEF Touched, Edited, Editable, OnCanvas, selVars, guiVars, diskVars
<1>2. pages' \in PagesTyped /\ pages'.picture = pages.picture
  BY <1>1 DEF EditorInv, EditorTyped
<1> QED BY <1>1, <1>2, EditKeeps

LEMMA CellIs ==
    ASSUME MapSound(wmap), NEW c \in OnMap
    PROVE  c \in Int \X Int /\ Mirror(wmap, c) \in Int \X Int
<1>1. wmap.size \in Nat \X Nat
  BY SizesAre DEF MapSound
<1>2. c[1] \in 0 .. wmap.size[1] - 1 /\ c[2] \in 0 .. wmap.size[2] - 1 /\ c = <<c[1], c[2]>>
  BY DEF OnMap, Cells
<1> QED BY <1>1, <1>2 DEF Mirror

LEMMA PlaceTileKeeps ==
    ASSUME EditorInv, NEW l \in Layers, NEW c \in OnMap, NEW erasing \in BOOLEAN, NEW mirrored \in BOOLEAN,
           PlaceTile(l, c, erasing, mirrored)
    PROVE  EditorInv'
<1> DEFINE t == IF erasing THEN Nothing ELSE pages.selected
           m == SetTile(wmap, l, c, t)
           n == IF mirrored THEN SetTile(m, l, Mirror(wmap, c), t) ELSE m
<1>1. t \in Int /\ MapSound(wmap)
  BY DEF EditorInv, EditorTyped, PagesTyped, Nothing
<1>2. Editable /\ Touched(n) /\ UNCHANGED <<diskVars, selVars, guiVars, compile, crashed>>
  BY DEF PlaceTile
<1> HIDE DEF t
<1>3. MapSound(m)
  BY <1>1, SetTileIs
<1> HIDE DEF m
<1>4. MapSound(n)
  BY <1>1, <1>3, SetTileIs
<1> HIDE DEF n
<1> QED BY <1>2, <1>4, TouchKeeps

LEMMA PlaceThingKeeps ==
    ASSUME EditorInv, NEW k \in Kinds, NEW c \in OnMap, NEW look \in Looks,
           NEW erasing \in BOOLEAN, NEW mirrored \in BOOLEAN,
           PlaceThing(k, c, look, erasing, mirrored)
    PROVE  EditorInv'
<1> DEFINE Draw(s, d) == IF erasing THEN EraseThing(s, d) ELSE SetThing(s, d, SetLook(k, look))
           s == Draw(wmap.things[k], c)
           all == IF mirrored THEN Draw(s, Mirror(wmap, c)) ELSE s
           m == [wmap EXCEPT !.things[k] = all]
<1>1. MapSound(wmap) /\ wmap.things[k] \in ThingLists /\ SetLook(k, look) \in Looks
  BY EditorAssumption DEF EditorInv, EditorTyped, MapSound, SetLook
<1>2. c \in Int \X Int /\ Mirror(wmap, c) \in Int \X Int
  BY <1>1, CellIs
<1>3. \A q \in ThingLists, d \in Int \X Int : Draw(q, d) \in ThingLists
  BY <1>1, EraseIs, SetIs
<1>4. /\ Editable /\ Edited(m) /\ modified' = (modified \/ all # wmap.things[k])
      /\ UNCHANGED <<kv, diskVars, selVars, guiVars, compile, crashed>>
  BY DEF PlaceThing
<1> HIDE DEF Draw
<1>5. all \in ThingLists
  BY <1>1, <1>2, <1>3
<1> HIDE DEF all
<1>6. MapSound(m) /\ (all = wmap.things[k] => m = wmap)
  BY <1>1, <1>5, ThingsChanged
<1> HIDE DEF m
<1>7. wmap' = m /\ UNCHANGED <<kv, diskVars, copied, shown, pages, compile>> /\ shown = "none"
  BY <1>4 DEF Edited, Editable, OnCanvas, selVars, guiVars, diskVars
<1>8. modified \in BOOLEAN /\ pages \in PagesTyped
  BY DEF EditorInv, EditorTyped
<1>9. modified' \in BOOLEAN /\ (modified' \/ (wmap' = wmap /\ modified' = modified))
  BY <1>4, <1>6, <1>7, <1>8
<1> QED BY <1>6, <1>7, <1>8, <1>9, EditKeeps

LEMMA EditLightKeeps ==
    ASSUME EditorInv, NEW c \in OnMap, NEW look \in Looks, EditLight(c, look)
    PROVE  EditorInv'
<1> DEFINE s == PutLook(wmap.things["light"], c, look)
           m == [wmap EXCEPT !.things["light"] = s]
<1>1. "light" \in Kinds /\ Editable /\ Touched(m) /\ UNCHANGED <<diskVars, selVars, guiVars, compile, crashed>>
  BY DEF EditLight, LightEdited
<1>2. MapSound(wmap) /\ wmap.things["light"] \in ThingLists
  BY <1>1 DEF EditorInv, EditorTyped, MapSound
<1>3. s \in ThingLists
  BY <1>2, LookIs
<1> HIDE DEF s
<1>4. MapSound(m)
  BY <1>1, <1>2, <1>3, ThingsChanged
<1> HIDE DEF m
<1> QED BY <1>1, <1>4, TouchKeeps

LEMMA PasteTilesKeeps ==
    ASSUME EditorInv, NEW l \in Layers, NEW c, PasteTiles(l, c)
    PROVE  EditorInv'
<1> DEFINE d == copied.layer[l]
           Source(x) == <<x[1] - c[1], x[2] - c[2]>>
           y == [x \in DOMAIN wmap.layer[l] |->
                   IF Source(x) \in DOMAIN d /\ d[Source(x)] > Nothing THEN d[Source(x)] ELSE wmap.layer[l][x]]
           z == [wmap.layer EXCEPT ![l] = y]
           m == [wmap EXCEPT !.layer = z]
           n == [wmap EXCEPT !.layer[l] = [x \in DOMAIN @ |->
                   IF Source(x) \in DOMAIN d /\ d[Source(x)] > Nothing THEN d[Source(x)] ELSE @[x]]]
<1>1. Editable /\ Touched(n) /\ UNCHANGED <<diskVars, selVars, guiVars, compile, crashed>>
  BY DEF PasteTiles
<1>0. n = m
  OBVIOUS
<1>2. MapSound(wmap) /\ \A x \in DOMAIN d : d[x] \in Int
  BY DEF EditorInv, EditorTyped, CopySound
<1> HIDE DEF d
<1>3. wmap.layer[l] \in [Cells(wmap.size[1], wmap.size[2]) -> Int]
  BY <1>2 DEF MapSound, Grid
<1>4. y \in Grid(wmap.size)
  <2> HIDE DEF Source
  <2> QED BY <1>2, <1>3 DEF Grid
<1> HIDE DEF y, n
<1>5. (\A k \in Layers : z[k] \in Grid(wmap.size)) /\ z = [k \in Layers |-> z[k]]
  BY <1>2, <1>4 DEF MapSound
<1> HIDE DEF z
<1>6. MapSound(m)
  BY <1>2, <1>5, LayersChanged
<1> HIDE DEF m
<1> QED BY <1>0, <1>1, <1>6, TouchKeeps

LEMMA PasteThingsKeeps ==
    ASSUME EditorInv, NEW k \in Kinds, NEW c \in PasteAt, PasteThings(k, c)
    PROVE  EditorInv'
<1> DEFINE s == Pasted(wmap.things[k], copied.things[k], copied.size, c)
           m == [wmap EXCEPT !.things[k] = s]
<1>1. /\ Editable /\ Edited(m) /\ modified' = (modified \/ DOMAIN copied.things[k] # {})
      /\ UNCHANGED <<kv, diskVars, selVars, guiVars, compile, crashed>>
  BY DEF PasteThings
<1>2. MapSound(wmap) /\ wmap.things[k] \in ThingLists /\ copied.size \in Nat \X Nat /\ c \in Int \X Int
  BY EditorAssumption DEF EditorInv, EditorTyped, MapSound, CopySound
<1>3. PICK T \in SUBSET (Int \X Int) : copied.things[k] \in [T -> Looks]
  BY DEF EditorInv, EditorTyped, CopySound
<1>4. s \in ThingLists /\ (T = {} => s = wmap.things[k])
  <2> DEFINE q == wmap.things[k]
             d == copied.things[k]
             z == copied.size
  <2>1. q \in ThingLists /\ d \in [T -> Looks] /\ z \in Nat \X Nat /\ c \in Int \X Int
    BY <1>2, <1>3
  <2> HIDE DEF q, d, z
  <2>2. Pasted(q, d, z, c) \in ThingLists /\ (T = {} => Pasted(q, d, z, c) = q)
    BY <2>1, PastedIs
  <2> QED BY <2>2 DEF q, d, z
<1> HIDE DEF s
<1>5. MapSound(m) /\ (s = wmap.things[k] => m = wmap)
  BY <1>2, <1>4, ThingsChanged
<1> HIDE DEF m
<1>7. wmap' = m /\ UNCHANGED <<kv, diskVars, copied, shown, pages, compile>> /\ shown = "none"
  BY <1>1 DEF Edited, Editable, OnCanvas, selVars, guiVars, diskVars
<1>8. modified \in BOOLEAN /\ pages \in PagesTyped
  BY DEF EditorInv, EditorTyped
<1>9. modified' \in BOOLEAN /\ (modified' \/ (wmap' = wmap /\ modified' = modified))
  BY <1>1, <1>3, <1>4, <1>5, <1>7, <1>8
<1> QED BY <1>5, <1>7, <1>8, <1>9, EditKeeps

LEMMA HCopyKeeps ==
    ASSUME EditorInv, HCopy
    PROVE  EditorInv'
<1> DEFINE y == [l \in Layers |-> [c \in DOMAIN wmap.layer[l] |->
                   IF 2 * c[1] >= wmap.size[1] THEN wmap.layer[l][Mirror(wmap, c)] ELSE wmap.layer[l][c]]]
           m == [wmap EXCEPT !.layer = y]
<1>1. Editable /\ Touched(m) /\ UNCHANGED <<diskVars, selVars, guiVars, compile, crashed>>
  BY DEF HCopy
<1>2. MapSound(wmap) /\ wmap.size \in Nat \X Nat
  BY SizesAre DEF EditorInv, EditorTyped, MapSound
<1>3. \A c \in Cells(wmap.size[1], wmap.size[2]) : Mirror(wmap, c) \in Cells(wmap.size[1], wmap.size[2])
  <2> DEFINE w == wmap.size[1]
             fn == wmap.size[2]
  <2>1. w \in Nat /\ fn \in Nat
    BY <1>2
  <2> HIDE DEF w, fn
  <2>2. \A a \in 0 .. w - 1, b \in 0 .. fn - 1 : <<w - a - 1, b>> \in (0 .. w - 1) \X (0 .. fn - 1)
    BY <2>1
  <2> QED BY <2>2 DEF Mirror, Cells, w, fn
<1>4. ASSUME NEW l \in Layers PROVE y[l] \in Grid(wmap.size)
  <2>1. wmap.layer[l] \in [Cells(wmap.size[1], wmap.size[2]) -> Int]
    BY <1>2 DEF MapSound, Grid
  <2>2. y[l] = [c \in Cells(wmap.size[1], wmap.size[2]) |->
                   IF 2 * c[1] >= wmap.size[1] THEN wmap.layer[l][Mirror(wmap, c)] ELSE wmap.layer[l][c]]
    BY <2>1
  <2>3. \A c \in Cells(wmap.size[1], wmap.size[2]) : wmap.layer[l][c] \in Int /\ wmap.layer[l][Mirror(wmap, c)] \in Int
    BY <1>3, <2>1
  <2> HIDE DEF y
  <2> QED BY <2>2, <2>3 DEF Grid
<1>5. y = [l \in Layers |-> y[l]]
  OBVIOUS
<1> HIDE DEF y
<1>6. MapSound(m)
  BY <1>2, <1>4, <1>5, LayersChanged
<1> HIDE DEF m
<1> QED BY <1>1, <1>6, TouchKeeps

LEMMA MapPropertiesKeeps ==
    ASSUME EditorInv, NEW n \in MapNames, NEW size \in MapSizes, MapProperties(n, size)
    PROVE  EditorInv'
<1> DEFINE m == [Resized(wmap, size) EXCEPT !.name = n, !.tileset = TRUE]
<1>1. /\ OnCanvas /\ Touched(m) /\ pages' = [pages EXCEPT !.page = 0]
      /\ UNCHANGED <<diskVars, selVars, shown, compile, crashed>>
  BY DEF MapProperties
<1>2. MapSound(m)
  BY ResizedIs DEF EditorInv, EditorTyped
<1> HIDE DEF m
<1>3. /\ wmap' = m /\ modified' = TRUE /\ UNCHANGED <<kv, diskVars, copied, shown, compile>> /\ shown = "none"
  BY <1>1 DEF Touched, Edited, OnCanvas, selVars, diskVars
<1>4. pages' \in PagesTyped /\ pages'.picture = pages.picture
  BY <1>1 DEF EditorInv, EditorTyped, PagesTyped
<1> QED BY <1>2, <1>3, <1>4, EditKeeps

(* Copies.  *)
LEMMA SpanIs ==
    ASSUME NEW n \in Nat, NEW i \in 0 .. n - 1, NEW j \in 0 .. n - 1, NEW z, NEW m,
           z = i + j - 2 * Less(i, j) + 1, m = Less(i, j)
    PROVE  z \in Nat /\ \A x \in 0 .. z - 1 : x + m \in 0 .. n - 1
<1>1. CASE i < j
  BY <1>1 DEF Less
<1>2. CASE ~(i < j)
  BY <1>2 DEF Less
<1> QED BY <1>1, <1>2

LEMMA BetweenIs ==
    ASSUME NEW w \in Nat, NEW fn \in Nat, NEW c \in Cells(w, fn), NEW d \in Cells(w, fn)
    PROVE  LET r == Between(c, d)
           IN  /\ r.size \in Nat \X Nat
               /\ \A x \in Cells(r.size[1], r.size[2]) : Shift(x, r.from) \in Cells(w, fn)
<1> DEFINE r == Between(c, d)
<1>1. /\ c[1] \in 0 .. w - 1 /\ c[2] \in 0 .. fn - 1 /\ d[1] \in 0 .. w - 1 /\ d[2] \in 0 .. fn - 1
  BY DEF Cells
<1>2. /\ r.from = <<Less(c[1], d[1]), Less(c[2], d[2])>>
      /\ r.size = <<c[1] + d[1] - 2 * Less(c[1], d[1]) + 1, c[2] + d[2] - 2 * Less(c[2], d[2]) + 1>>
  <2> DEFINE f == <<Less(c[1], d[1]), Less(c[2], d[2])>>
             z == <<c[1] + d[1] - 2 * Less(c[1], d[1]) + 1, c[2] + d[2] - 2 * Less(c[2], d[2]) + 1>>
  <2>1. r = [from |-> f, size |-> z]
    BY DEF Between
  <2> HIDE DEF f, z, r
  <2>2. r.from = f /\ r.size = z
    BY <2>1
  <2> QED BY <2>2 DEF f, z
<1> HIDE DEF r
<1> DEFINE Spans(k, n) ==
             r.size[k] \in Nat /\ \A x \in 0 .. r.size[k] - 1 : x + r.from[k] \in 0 .. n - 1
<1>6. Spans(1, w)
  <2> DEFINE i == c[1]
             j == d[1]
  <2>1. i \in 0 .. w - 1 /\ j \in 0 .. w - 1
    BY <1>1
  <2>2. r.size[1] = i + j - 2 * Less(i, j) + 1 /\ r.from[1] = Less(i, j)
    BY <1>2
  <2> HIDE DEF i, j
  <2> QED BY <2>1, <2>2, SpanIs
<1>7. Spans(2, fn)
  <2> DEFINE i == c[2]
             j == d[2]
  <2>1. i \in 0 .. fn - 1 /\ j \in 0 .. fn - 1
    BY <1>1
  <2>2. r.size[2] = i + j - 2 * Less(i, j) + 1 /\ r.from[2] = Less(i, j)
    BY <1>2
  <2> HIDE DEF i, j
  <2> QED BY <2>1, <2>2, SpanIs
<1>4. r.size[1] \in Nat /\ r.size[2] \in Nat /\ r.size \in Nat \X Nat
  <2>1. r.size = <<r.size[1], r.size[2]>>
    BY <1>2
  <2>2. r.size[1] \in Nat /\ r.size[2] \in Nat
    BY <1>6, <1>7
  <2> QED BY <2>1, <2>2
<1>5. ASSUME NEW x \in Cells(r.size[1], r.size[2]) PROVE Shift(x, r.from) \in Cells(w, fn)
  <2>1. x[1] \in 0 .. r.size[1] - 1 /\ x[2] \in 0 .. r.size[2] - 1
    BY DEF Cells
  <2>2. x[1] + r.from[1] \in 0 .. w - 1
    BY <1>6, <2>1
  <2>3. x[2] + r.from[2] \in 0 .. fn - 1
    BY <1>7, <2>1
  <2> QED BY <2>2, <2>3 DEF Shift, Cells
<1> QED BY <1>4, <1>5 DEF r

LEMMA CopyIs ==
    ASSUME MapSound(wmap), NEW r, r.size \in Nat \X Nat,
           \A x \in Cells(r.size[1], r.size[2]) : Shift(x, r.from) \in OnMap
    PROVE  CopySound(CopyOf(r))
<1> DEFINE d == CopyOf(r)
           area == Cells(r.size[1], r.size[2])
           From(c) == Shift(c, r.from)
           Here(k) == {c \in area : Holding(wmap.things[k], From(c)) # {}}
<1>1. /\ d.size = r.size
      /\ d.layer = [l \in Layers |-> [c \in area |-> wmap.layer[l][From(c)]]]
      /\ d.things = [k \in Kinds |-> [c \in Here(k) |->
                       wmap.things[k][FirstAt(wmap.things[k], From(c))].look]]
  BY DEF CopyOf
<1> HIDE DEF d
<1>2. ASSUME NEW l \in Layers, NEW c \in DOMAIN d.layer[l] PROVE d.layer[l][c] \in Int
  <2>1. wmap.layer[l] \in [OnMap -> Int]
    BY DEF MapSound, Grid, OnMap
  <2>2. c \in area /\ d.layer[l][c] = wmap.layer[l][From(c)]
    BY <1>1, <1>2
  <2> QED BY <2>1, <2>2
<1>3. ASSUME NEW k \in Kinds PROVE \E T \in SUBSET (Int \X Int) : d.things[k] \in [T -> Looks]
  <2> DEFINE s == wmap.things[k]
  <2>1. s \in Seq(Thing)
    BY DEF MapSound, ThingLists
  <2>2. \A c \in Here(k) : s[FirstAt(s, From(c))].look \in Looks
    <3> TAKE c \in Here(k)
    <3>1. FirstAt(s, From(c)) \in 1 .. Len(s)
      BY <2>1, FirstAtIs
    <3>2. s[FirstAt(s, From(c))] \in Thing
      <4> HIDE DEF s
      <4> QED BY <2>1, <3>1
    <3> QED BY <3>2 DEF Thing
  <2>3. d.things[k] = [c \in Here(k) |-> s[FirstAt(s, From(c))].look]
    BY <1>1
  <2>4. Here(k) \in SUBSET (Int \X Int)
    BY DEF Cells
  <2> HIDE DEF Here, s
  <2>5. d.things[k] \in [Here(k) -> Looks]
    BY <2>2, <2>3
  <2> QED BY <2>4, <2>5
<1> QED BY <1>1, <1>2, <1>3 DEF CopySound, d

(* What changes neither the map nor the files nor the thread.              *)
LEMMA OthersKeep ==
    ASSUME EditorInv, UNCHANGED <<mapVars, diskVars, shown, compile>>,
           CopySound(copied'), pages' = pages
    PROVE  EditorInv'
<1>1. UNCHANGED <<wmap, modified, kv, files, shown, compile, pages>>
  BY DEF mapVars, diskVars
<1>2. EditorTyped'
  BY <1>1 DEF EditorInv, EditorTyped, FilesSound, CopySound
<1>3. CleanIsSaved'
  BY <1>1 DEF EditorInv, CleanIsSaved
<1>4. PictureLive'
  BY <1>1 DEF EditorInv, PictureLive
<1>5. CompileSound'
  BY <1>1 DEF EditorInv, CompileSound, Computed
<1> QED BY <1>2, <1>3, <1>4, <1>5 DEF EditorInv

LEMMA SelectionKeeps ==
    ASSUME EditorInv, ShiftDown \/ ShiftUp \/ \E c \in OnMap : SelectPoint(c)
    PROVE  EditorInv'
<1>1. CASE ShiftDown \/ ShiftUp
  <2>1. UNCHANGED <<mapVars, diskVars, shown, compile, copied, pages>>
    BY <1>1 DEF ShiftDown, ShiftUp, guiVars
  <2>2. CopySound(copied')
    BY <2>1 DEF EditorInv, EditorTyped
  <2> QED BY <2>1, <2>2, OthersKeep
<1>2. ASSUME NEW c \in OnMap, SelectPoint(c) PROVE EditorInv'
  <2>1. UNCHANGED <<mapVars, diskVars, shown, compile, pages>>
    BY <1>2 DEF SelectPoint, guiVars
  <2>2. CopySound(copied')
    <3>1. CASE copied' = copied
      BY <3>1 DEF EditorInv, EditorTyped
    <3>2. CASE copied' # copied
      <4> DEFINE r == Between(point, c)
      <4>1. copied' = CopyOf(r) /\ InMap(wmap, point)
        BY <1>2, <3>2 DEF SelectPoint
      <4>2. MapSound(wmap) /\ wmap.size[1] \in Nat /\ wmap.size[2] \in Nat
        BY SizesAre DEF EditorInv, EditorTyped, MapSound
      <4>3. r.size \in Nat \X Nat /\ \A x \in Cells(r.size[1], r.size[2]) : Shift(x, r.from) \in OnMap
        BY <4>1, <4>2, BetweenIs DEF InMap, OnMap
      <4> HIDE DEF r
      <4> QED BY <4>1, <4>2, <4>3, CopyIs
    <3> QED BY <3>1, <3>2
  <2> QED BY <2>1, <2>2, OthersKeep
<1> QED BY <1>1, <1>2

LEMMA LoadKeeps ==
    ASSUME EditorInv, NEW n \in MapNames, LoadMap(n)
    PROVE  EditorInv'
<1> DEFINE e == files[n]
<1>1. /\ n \in DOMAIN files /\ e # Cut /\ wmap' = Loaded(e) /\ modified' = FALSE /\ kv' = e
      /\ pages' = [pages EXCEPT !.page = 0] /\ shown = "none"
      /\ UNCHANGED <<files, copied, shown, compile>>
  BY DEF LoadMap, NewMap, OnCanvas, diskVars, selVars
<1>2. EntrySound(e) /\ e.name = n /\ e.size \in MapSizes
  BY <1>1 DEF EditorInv, EditorTyped, FilesSound
<1>3. MapSound(wmap') /\ SavedWhole(e, wmap') /\ wmap'.name = n
  BY <1>1, <1>2, LoadedIs
<1>4. pages' \in PagesTyped /\ pages'.picture = pages.picture /\ pages'.start = pages.start
  BY <1>1 DEF EditorInv, EditorTyped, PagesTyped
<1> HIDE DEF e
<1>5. EditorTyped'
  BY <1>1, <1>2, <1>3, <1>4 DEF EditorInv, EditorTyped, FilesSound, CopySound
<1>6. CleanIsSaved'
  BY <1>1, <1>3 DEF CleanIsSaved, e
<1>7. PictureLive'
  BY <1>1, <1>4 DEF EditorInv, PictureLive
<1>8. CompileSound'
  BY <1>1 DEF EditorInv, CompileSound
<1> QED BY <1>5, <1>6, <1>7, <1>8 DEF EditorInv

LEMMA ZapKeeps ==
    ASSUME EditorInv, Zap
    PROVE  EditorInv'
<1>1. /\ wmap' = Fresh /\ modified' = FALSE /\ kv' = NoEntries
      /\ pages' = [pages EXCEPT !.page = 0] /\ shown = "none"
      /\ UNCHANGED <<files, copied, shown, compile>>
  BY DEF Zap, NewMap, OnCanvas, diskVars, selVars
<1>4. pages' \in PagesTyped /\ pages'.picture = pages.picture /\ pages'.start = pages.start
  BY <1>1 DEF EditorInv, EditorTyped, PagesTyped
<1>5. EditorTyped'
  BY <1>1, <1>4, FreshSound, NoEntriesSound DEF EditorInv, EditorTyped, FilesSound, CopySound
<1>6. CleanIsSaved'
  BY <1>1 DEF CleanIsSaved
<1>7. PictureLive'
  BY <1>1, <1>4 DEF EditorInv, PictureLive
<1>8. CompileSound'
  BY <1>1 DEF EditorInv, CompileSound
<1> QED BY <1>5, <1>6, <1>7, <1>8 DEF EditorInv

LEMMA SaveKeeps ==
    ASSUME EditorInv, NEW opened \in BOOLEAN, NEW written \in BOOLEAN, SaveMap(opened, written)
    PROVE  EditorInv'
<1> DEFINE v == IF written THEN kv' ELSE Cut
<1>1. /\ wmap' = wmap /\ kv' = Entries(kv, wmap) /\ modified' = ~opened
      /\ files' = IF opened THEN With(files, wmap.name, v) ELSE files
      /\ UNCHANGED <<copied, shown, compile, pages>> /\ shown = "none"
  BY DEF SaveMap, OnCanvas, selVars, guiVars
<1>2. /\ EntrySound(kv') /\ SavedWhole(kv', wmap) /\ kv'.name = wmap.name /\ kv'.size = wmap.size
      /\ MapSound(wmap) /\ wmap.size \in MapSizes
  BY <1>1, EntriesAre DEF EditorInv, EditorTyped, MapSound
<1>3. opened => /\ DOMAIN files' = DOMAIN files \cup {wmap.name} /\ files'[wmap.name] = v
                /\ \A x \in DOMAIN files : x # wmap.name => files'[x] = files[x]
  BY <1>1 DEF With
<1>4. FilesSound'
  <2>1. CASE opened
    BY <1>2, <1>3, <2>1 DEF EditorInv, EditorTyped, FilesSound
  <2>2. CASE ~opened
    BY <1>1, <2>2 DEF EditorInv, EditorTyped, FilesSound
  <2> QED BY <2>1, <2>2
<1>5. EditorTyped'
  BY <1>1, <1>2, <1>4 DEF EditorInv, EditorTyped, CopySound
<1>6. CleanIsSaved'
  BY <1>1, <1>2, <1>3 DEF CleanIsSaved
<1>7. PictureLive'
  BY <1>1 DEF EditorInv, PictureLive
<1>8. CompileSound'
  BY <1>1 DEF EditorInv, CompileSound
<1> QED BY <1>5, <1>6, <1>7, <1>8 DEF EditorInv

-----------------------------------------------------------------------------
(* The tile selector.  *)

PageTrue(p) == p \in PagesTyped /\ (p.picture # Nothing => p.picture \in OnPage(p.start))

LEMMA AddedIs ==
    ASSUME NEW p \in PagesTyped, NEW start \in Nat
    PROVE  /\ PageTrue(AddButtons(p, start))
           /\ \A n \in Nat : PageTrue([AddButtons(p, start) EXCEPT !.page = n])
<1> DEFINE q == AddButtons(p, start)
<1>1. q \in PagesTyped /\ q.start = start /\ (q.picture # Nothing => q.picture \in OnPage(start))
  <2> DEFINE pic == IF p.selected \in OnPage(start) THEN p.selected ELSE Nothing
  <2>1. pic \in Int /\ (pic # Nothing => pic \in OnPage(start))
    BY DEF PagesTyped, Nothing
  <2>2. q = [p EXCEPT !.start = start, !.picture = pic]
    BY DEF AddButtons
  <2> HIDE DEF pic, q
  <2>3. q \in PagesTyped /\ q.start = start /\ q.picture = pic
    BY <2>1, <2>2 DEF PagesTyped
  <2> QED BY <2>1, <2>3
<1> HIDE DEF q
<1>2. ASSUME NEW n \in Nat PROVE PageTrue([q EXCEPT !.page = n])
  BY <1>1 DEF PageTrue, PagesTyped
<1> QED BY <1>1, <1>2 DEF q, PageTrue

LEMMA TurnedIs ==
    ASSUME NEW p, PageTrue(p)
    PROVE  PageTrue(TurnNext(p))
<1>1. p \in PagesTyped /\ p.start + ButtonsOnPage \in Nat
  <2>1. ButtonsOnPage \in Nat
    BY EditorAssumption
  <2>2. p \in PagesTyped /\ p.start \in Nat
    BY DEF PageTrue, PagesTyped
  <2> QED BY <2>1, <2>2
<1> DEFINE q == AddButtons(p, p.start + ButtonsOnPage)
<1>2. PageTrue(q)
  BY <1>1, AddedIs
<1>3. PageTrue([q EXCEPT !.page = @ + 1])
  <2>1. q.page + 1 \in Nat
    BY <1>2 DEF PageTrue, PagesTyped
  <2> DEFINE n == q.page + 1
  <2>2. PageTrue([q EXCEPT !.page = n])
    <3> HIDE DEF n
    <3>1. n \in Nat
      BY <2>1 DEF n
    <3> QED BY <1>1, <3>1, AddedIs
  <2> HIDE DEF q
  <2> QED BY <2>2
<1> QED BY <1>3 DEF TurnNext

LEMMA ReopenedIs ==
    ASSUME NEW p \in PagesTyped
    PROVE  PageTrue(Reopened(p))
<1> DEFINE n == p.page
           V == {q \in PagesTyped : PageTrue(q)}
           first == [AddButtons(p, 0) EXCEPT !.page = 0]
           g == [x \in (1 .. n) \X V |-> TurnNext(x[2])]
           Body(f, i) == IF i = 0 THEN first ELSE TurnNext(f[i - 1])
           turn[i \in 0 .. p.page] == IF i = 0 THEN first ELSE TurnNext(turn[i - 1])
<1>1. n \in Nat /\ first \in V
  <2>1. PageTrue(first)
    BY AddedIs
  <2>2. n \in Nat
    BY DEF PagesTyped
  <2> HIDE DEF first
  <2> QED BY <2>1, <2>2 DEF PageTrue
<1> HIDE DEF first
<1>2. \A q \in V : TurnNext(q) \in V
  BY TurnedIs DEF PageTrue
<1>3. g \in [(1 .. n) \X V -> V] /\ \A i \in 1 .. n, q \in V : g[<<i, q>>] = TurnNext(q)
  <2> HIDE DEF V
  <2> QED BY <1>2
<1>4. PICK f \in [0 .. n -> V] : f[0] = first /\ \A i \in 1 .. n : f[i] = g[<<i, f[i - 1]>>]
  <2> HIDE DEF g, n, V, turn
  <2>1. \E f \in [0 .. n -> V] : Stepwise(f, n, first, g)
    BY <1>1, <1>3, StepsExist
  <2> QED BY <2>1 DEF Stepwise
<1> HIDE DEF g, V, n
<1>5. \A i \in 0 .. n : f[i] = Body(f, i)
  <2> TAKE i \in 0 .. n
  <2>1. CASE i = 0
    BY <1>4, <2>1
  <2>2. CASE i # 0
    <3>1. i \in 1 .. n /\ i - 1 \in 0 .. n
      BY <1>1, <2>2
    <3>2. f[i - 1] \in V
      BY <1>4, <3>1
    <3> QED BY <1>3, <1>4, <2>2, <3>1, <3>2
  <2> QED BY <2>1, <2>2
<1>6. f = [i \in 0 .. n |-> Body(f, i)]
  BY <1>4, <1>5
<1>7. turn = [i \in 0 .. n |-> Body(turn, i)]
  <2>1. \E fn : fn = [i \in 0 .. p.page |-> Body(fn, i)]
    BY <1>6 DEF n
  <2> QED BY <2>1, Zenon DEF n
<1> HIDE DEF turn
<1>8. turn[0] \in V /\ \A i \in 1 .. n : turn[i - 1] \in V => turn[i] \in V
  <2>1. turn[0] = first
    BY <1>1, <1>7
  <2>2. \A i \in 1 .. n : turn[i] = TurnNext(turn[i - 1])
    BY <1>1, <1>7
  <2> QED BY <1>1, <1>2, <2>1, <2>2
<1>9. turn[n] \in V
  <2>1. \A i \in 0 .. n : turn[i] \in V
    BY <1>1, <1>8, StepsStay
  <2> QED BY <1>1, <2>1
<1>10. Reopened(p) = turn[n]
  BY DEF Reopened, turn, n, first
<1> QED BY <1>9, <1>10 DEF V

LEMMA ShowsKeep ==
    ASSUME EditorInv, NEW p, Shows(p), PageTrue(p), shown' \in {"none", "tiles"},
           shown \in {"none", "tiles"}, p.picture # Nothing => shown' = "tiles"
    PROVE  EditorInv'
<1>1. pages' = p /\ UNCHANGED <<wmap, modified, kv, files, copied, compile>>
  BY DEF Shows, mapVars, diskVars, selVars
<1>2. EditorTyped'
  BY <1>1 DEF EditorInv, EditorTyped, FilesSound, CopySound, PageTrue
<1>3. CleanIsSaved'
  BY <1>1 DEF EditorInv, CleanIsSaved
<1>4. PictureLive'
  BY <1>1 DEF PictureLive, PageTrue
<1>5. compile = NoThread
  BY DEF EditorInv, CompileSound
<1>6. CompileSound'
  BY <1>1, <1>5 DEF CompileSound
<1> QED BY <1>2, <1>3, <1>4, <1>6 DEF EditorInv

LEMMA TilesKeep ==
    ASSUME EditorInv, TileSelector \/ TsNext \/ TsPrevious \/ TsClose \/ \E t \in 0 .. TileCount - 1 : TsTile(t)
    PROVE  EditorInv'
<1>0. pages \in PagesTyped /\ TileCount \in Nat /\ ButtonsOnPage \in Nat
  BY EditorAssumption DEF EditorInv, EditorTyped
<1>9. shown = "tiles" => PageTrue(pages)
  BY <1>0 DEF EditorInv, PictureLive, PageTrue
<1>1. CASE TileSelector
  <2>1. Shows(Reopened(pages)) /\ shown' = "tiles" /\ shown = "none"
    BY <1>1 DEF TileSelector, OnCanvas
  <2> QED BY <1>0, <2>1, ReopenedIs, ShowsKeep
<1>2. CASE TsNext
  <2>1. Shows(TurnNext(pages)) /\ shown' = "tiles" /\ shown = "tiles"
    BY <1>2 DEF TsNext, InTiles
  <2> QED BY <1>9, <2>1, TurnedIs, ShowsKeep
<1>3. CASE TsPrevious
  <2> DEFINE start == IF pages.start > ButtonsOnPage THEN pages.start - ButtonsOnPage ELSE 0
             q == AddButtons(pages, start)
             n == IF q.page > 0 THEN q.page - 1 ELSE 0
             p == [q EXCEPT !.page = n]
  <2>1. Shows([q EXCEPT !.page = IF @ > 0 THEN @ - 1 ELSE 0]) /\ shown' = "tiles" /\ shown = "tiles"
    BY <1>3 DEF TsPrevious, InTiles
  <2>2. start \in Nat
    BY <1>0 DEF PagesTyped
  <2> HIDE DEF start
  <2>3. PageTrue(q)
    BY <1>0, <2>2, AddedIs
  <2>4. n \in Nat
    <3> HIDE DEF q
    <3> QED BY <2>3 DEF PageTrue, PagesTyped
  <2>5. PageTrue(p)
    <3> HIDE DEF n
    <3> QED BY <1>0, <2>2, <2>4, AddedIs
  <2>6. [q EXCEPT !.page = IF @ > 0 THEN @ - 1 ELSE 0] = p
    <3> HIDE DEF q
    <3> QED OBVIOUS
  <2> HIDE DEF p, q
  <2>7. Shows(p)
    BY <2>1, <2>6
  <2> QED BY <2>1, <2>5, <2>7, ShowsKeep
<1>4. CASE TsClose
  <2> DEFINE p == [pages EXCEPT !.picture = Nothing, !.start = 0]
  <2>1. Shows(p) /\ shown' = "none" /\ shown = "tiles"
    BY <1>4 DEF TsClose, InTiles
  <2>2. p \in PagesTyped /\ p.picture = Nothing
    <3>1. Nothing \in Int
      BY DEF Nothing
    <3> QED BY <1>0, <3>1 DEF PagesTyped
  <2> HIDE DEF p
  <2> QED BY <2>1, <2>2, ShowsKeep DEF PageTrue
<1>5. ASSUME NEW t \in 0 .. TileCount - 1, TsTile(t) PROVE EditorInv'
  <2> DEFINE p == [pages EXCEPT !.selected = t, !.picture = t]
  <2>1. Shows(p) /\ shown' = "tiles" /\ shown = "tiles" /\ t \in OnPage(pages.start)
    BY <1>5 DEF TsTile, InTiles
  <2>2. p \in PagesTyped /\ p.picture = t /\ p.start = pages.start
    <3>1. t \in Int
      BY <1>0
    <3> QED BY <1>0, <3>1 DEF PagesTyped
  <2> HIDE DEF p
  <2> QED BY <2>1, <2>2, ShowsKeep DEF PageTrue
<1> QED BY <1>1, <1>2, <1>3, <1>4, <1>5

-----------------------------------------------------------------------------
(* The light map.  *)

LEMMA ThreadKeeps ==
    ASSUME EditorInv, UNCHANGED <<mapVars, files, copied, pages>>, CompileSound',
           pages.picture = Nothing \/ shown' = shown
    PROVE  EditorInv'
<1>1. UNCHANGED <<wmap, modified, kv, files, copied, pages>>
  BY DEF mapVars
<1>2. EditorTyped'
  BY <1>1 DEF EditorInv, EditorTyped, FilesSound, CopySound
<1>3. CleanIsSaved'
  BY <1>1 DEF EditorInv, CleanIsSaved
<1>4. PictureLive'
  BY <1>1 DEF EditorInv, PictureLive
<1> QED BY <1>2, <1>3, <1>4 DEF EditorInv

LEMMA LightsAre ==
    ASSUME EditorInv
    PROVE  Len(Lights(wmap)) \in Nat /\ DOMAIN Lights(wmap) = 1 .. Len(Lights(wmap))
<1>1. Lights(wmap) \in Seq(Thing)
  BY DEF Lights, EditorInv, EditorTyped, MapSound, ThingLists
<1> QED BY <1>1

LEMMA CalculateKeeps ==
    ASSUME EditorInv, CalculateLight
    PROVE  EditorInv'
<1>1. /\ UNCHANGED <<mapVars, files, copied, pages>> /\ shown' = "compile" /\ shown = "none" /\ wmap' = wmap
      /\ compile' = [state |-> "running", next |-> 1, light |-> <<Ground(wmap), << >> >>, lights |-> Len(Lights(wmap))]
  BY DEF CalculateLight, OnCanvas, diskVars, selVars, mapVars
<1>2. pages.picture = Nothing
  BY <1>1 DEF EditorInv, PictureLive
<1>3. [i \in 1 .. 1 - 1 |-> Ray(wmap, i)] = << >>
  OBVIOUS
<1>4. Len(Lights(wmap)) \in Nat
  BY LightsAre
<1>5. CompileSound'
  <2>1. compile' = [state |-> "running", next |-> 1, light |-> Computed(1), lights |-> Len(Lights(wmap))]
    BY <1>1, <1>3 DEF Computed
  <2>2. 1 \in 1 .. Len(Lights(wmap)) + 1
    BY <1>4
  <2> DEFINE n == Len(Lights(wmap))
  <2>3. \E st \in {"running", "cancelled", "thrown", "finished"}, x \in Nat :
            /\ x \in 1 .. n + 1
            /\ st = "finished" => x = n + 1
            /\ compile' = [state |-> st, next |-> x, light |-> Computed(x), lights |-> n]
    <3> HIDE DEF n
    <3> QED BY <2>1, <2>2 DEF n
  <2>4. \A x : Computed(x)' = Computed(x)
    BY <1>1 DEF Computed
  <2> QED BY <1>1, <2>3, <2>4 DEF CompileSound
<1> QED BY <1>1, <1>2, <1>5, ThreadKeeps

LEMMA CompileKeeps ==
    ASSUME EditorInv, CompileThread
    PROVE  EditorInv'
<1> DEFINE len == Len(Lights(wmap))
<1>1. /\ UNCHANGED <<mapVars, files, copied, pages, shown>> /\ wmap' = wmap
      /\ compile # NoThread
  BY DEF CompileThread, Compiling, NoThread, diskVars, selVars, guiVars, mapVars
<1>2. PICK st \in {"running", "cancelled", "thrown", "finished"}, n \in Nat :
         /\ n \in 1 .. len + 1
         /\ st = "finished" => n = len + 1
         /\ compile = [state |-> st, next |-> n, light |-> Computed(n), lights |-> len]
         /\ shown = "compile"
  BY <1>1 DEF EditorInv, CompileSound
<1>3. len \in Nat
  BY LightsAre
<1>4. \A x : Computed(x)' = Computed(x)
  BY <1>1 DEF Computed
<1> HIDE DEF len
<1>5. st \in {"running", "cancelled"}
  BY <1>2 DEF CompileThread, Compiling
<1>6. CompileSound'
  <2>1. CASE st = "cancelled" \/ n > len
    <3> DEFINE r == IF st = "cancelled" THEN "thrown" ELSE "finished"
    <3>1. compile' = [state |-> r, next |-> n, light |-> Computed(n), lights |-> len]
      <4>1. compile' = [compile EXCEPT !.state = IF @ = "cancelled" THEN "thrown" ELSE "finished"]
        BY <1>2, <2>1 DEF CompileThread
      <4> QED BY <1>2, <4>1
    <3>2. r \in {"running", "cancelled", "thrown", "finished"} /\ (r = "finished" => n = len + 1)
      BY <1>2, <1>3, <1>5, <2>1
    <3> HIDE DEF r
    <3>3. len' = len
      BY <1>1 DEF len
    <3>4. shown' = "compile"
      BY <1>1, <1>2
    <3> QED BY <1>2, <1>4, <3>1, <3>2, <3>3, <3>4 DEF CompileSound, len
  <2>2. CASE ~(st = "cancelled" \/ n > len)
    <3> DEFINE f == [i \in 1 .. n - 1 |-> Ray(wmap, i)]
               x == Ray(wmap, n)
    <3>1. compile' = [compile EXCEPT !.next = @ + 1, !.light[2] = Append(@, Ray(wmap, compile.next))]
      BY <1>2, <2>2 DEF CompileThread
    <3>2. compile.next = n /\ compile.light = <<Ground(wmap), f>> /\ compile.state = st /\ compile.lights = len
      BY <1>2 DEF Computed
    <3>3. Append(f, x) = [i \in 1 .. n |-> Ray(wmap, i)]
      <4> DEFINE T == {Ray(wmap, i) : i \in Nat}
      <4>1. f \in Seq(T) /\ Len(f) = n - 1
        BY <1>2
      <4> QED BY <1>2, <4>1
    <3>4. [i \in 1 .. n + 1 - 1 |-> Ray(wmap, i)] = [i \in 1 .. n |-> Ray(wmap, i)]
      BY <1>2
    <3> HIDE DEF f, x
    <3>5. compile' = [state |-> st, next |-> n + 1, light |-> <<Ground(wmap), Append(f, x)>>, lights |-> len]
      <4>1. [compile.light EXCEPT ![2] = Append(@, x)] = <<Ground(wmap), Append(f, x)>>
        BY <3>2
      <4>2. compile' = [compile EXCEPT !.next = n + 1, !.light = [compile.light EXCEPT ![2] = Append(@, x)]]
        BY <3>1, <3>2 DEF x
      <4> DEFINE y == <<Ground(wmap), Append(f, x)>>
      <4>3. compile' = [compile EXCEPT !.next = n + 1, !.light = y]
        BY <4>1, <4>2
      <4> HIDE DEF y
      <4>4. compile' = [state |-> st, next |-> n + 1, light |-> y, lights |-> len]
        BY <1>2, <4>3
      <4> QED BY <4>4 DEF y
    <3>6. compile' = [state |-> st, next |-> n + 1, light |-> Computed(n + 1), lights |-> len]
      <4> DEFINE y == <<Ground(wmap), Append(f, x)>>
      <4>1. Computed(n + 1) = y
        BY <3>3, <3>4 DEF Computed
      <4> HIDE DEF y
      <4>2. compile' = [state |-> st, next |-> n + 1, light |-> y, lights |-> len]
        BY <3>5 DEF y
      <4> QED BY <4>1, <4>2
    <3>7. n + 1 \in Nat /\ n + 1 \in 1 .. len + 1 /\ st # "finished"
      BY <1>2, <1>3, <1>5, <2>2
    <3>8. len' = len /\ shown' = "compile"
      BY <1>1, <1>2 DEF len
    <3> QED BY <1>2, <1>4, <3>6, <3>7, <3>8 DEF CompileSound, len
  <2> QED BY <2>1, <2>2
<1> QED BY <1>1, <1>6, ThreadKeeps

LEMMA CancelKeeps ==
    ASSUME EditorInv, CancelCompilation
    PROVE  EditorInv'
<1> DEFINE len == Len(Lights(wmap))
<1>1. UNCHANGED <<mapVars, files, copied, pages, shown>> /\ wmap' = wmap
  BY DEF CancelCompilation, diskVars, selVars, guiVars, mapVars
<1>2. CASE compile = NoThread
  <2>1. CompileSound'
    BY <1>2 DEF CancelCompilation, CompileSound
  <2> QED BY <1>1, <2>1, ThreadKeeps
<1>3. CASE compile # NoThread
  <2>2. PICK st \in {"running", "cancelled", "thrown", "finished"}, n \in Nat :
           /\ n \in 1 .. len + 1
           /\ st = "finished" => n = len + 1
           /\ compile = [state |-> st, next |-> n, light |-> Computed(n), lights |-> len]
           /\ shown = "compile"
    BY <1>3 DEF EditorInv, CompileSound
  <2>3. \A x : Computed(x)' = Computed(x)
    BY <1>1 DEF Computed
  <2>4. len' = len /\ shown' = "compile"
    BY <1>1, <2>2
  <2> HIDE DEF len
  <2> DEFINE r == CASE st = "running" -> "cancelled" [] st = "finished" -> "thrown" [] OTHER -> st
  <2>5. compile' = [state |-> r, next |-> n, light |-> Computed(n), lights |-> len]
    <3>1. compile' = [compile EXCEPT !.state = CASE @ = "running" -> "cancelled"
                                                   [] @ = "finished" -> "thrown"
                                                   [] OTHER -> @]
      BY <1>3 DEF CancelCompilation
    <3> QED BY <2>2, <3>1
  <2>6. r \in {"cancelled", "thrown"}
    BY <2>2
  <2> HIDE DEF r
  <2>7. CompileSound'
    BY <2>2, <2>3, <2>4, <2>5, <2>6 DEF CompileSound, len
  <2> QED BY <1>1, <2>7, ThreadKeeps
<1> QED BY <1>2, <1>3

(* The light map that is written is the whole of that of the map.          *)
LEMMA WrittenTrue ==
    ASSUME EditorInv, compile.state = "finished"
    PROVE  compile.light = LightMap(wmap)
<1> DEFINE len == Len(Lights(wmap))
<1>1. compile # NoThread
  BY DEF NoThread
<1>2. PICK st \in {"running", "cancelled", "thrown", "finished"}, n \in Nat :
         /\ n \in 1 .. len + 1
         /\ st = "finished" => n = len + 1
         /\ compile = [state |-> st, next |-> n, light |-> Computed(n), lights |-> len]
  BY <1>1 DEF EditorInv, CompileSound
<1>3. st = "finished" /\ n = len + 1 /\ compile.light = Computed(n)
  BY <1>2
<1>4. len \in Nat /\ DOMAIN Lights(wmap) = 1 .. len
  BY LightsAre
<1> HIDE DEF len
<1>5. 1 .. n - 1 = 1 .. len
  BY <1>3, <1>4
<1> QED BY <1>3, <1>4, <1>5 DEF Computed, LightMap

LEMMA FinaliseKeeps ==
    ASSUME EditorInv, NEW writable \in BOOLEAN, FinaliseLightmap(writable)
    PROVE  EditorInv'
<1>1. UNCHANGED <<mapVars, files, copied, pages>> /\ compile' = NoThread /\ compile # NoThread
  BY DEF FinaliseLightmap, NoThread, selVars, mapVars
<1>2. shown = "compile"
  BY <1>1 DEF EditorInv, CompileSound
<1>3. pages.picture = Nothing
  BY <1>2 DEF EditorInv, PictureLive
<1>4. CompileSound'
  BY <1>1 DEF CompileSound
<1> QED BY <1>1, <1>3, <1>4, ThreadKeeps

LEMMA QuitKeeps ==
    ASSUME EditorInv, QuitEditor
    PROVE  EditorInv'
<1>1. UNCHANGED <<mapVars, diskVars, shown, compile, copied, pages>>
  BY DEF QuitEditor, selVars, guiVars
<1>2. CopySound(copied')
  BY <1>1 DEF EditorInv, EditorTyped
<1> QED BY <1>1, <1>2, OthersKeep

LEMMA EditorNextKeeps ==
    ASSUME EditorInv, [EditorNext]_editor
    PROVE  EditorInv'
<1>1. CASE UNCHANGED editor
  <2>1. UNCHANGED <<mapVars, diskVars, shown, compile, copied, pages>>
    BY <1>1 DEF editor, selVars, guiVars
  <2>2. CopySound(copied')
    BY <2>1 DEF EditorInv, EditorTyped
  <2> QED BY <2>1, <2>2, OthersKeep
<1>2. CASE EditorNext
  <2>1. CASE HandDraw
    BY <2>1, PlaceTileKeeps, PlaceThingKeeps DEF HandDraw
  <2>2. CASE InsertSelection
    BY <2>2, PasteTilesKeeps, PasteThingsKeeps DEF InsertSelection
  <2>3. CASE HCopy \/ Zap
    BY <2>3, HCopyKeeps, ZapKeeps
  <2>4. CASE ShiftDown \/ ShiftUp \/ \E c \in OnMap : SelectPoint(c)
    BY <2>4, SelectionKeeps
  <2>5. CASE \E c \in OnMap, look \in Looks : EditLight(c, look)
    BY <2>5, EditLightKeeps
  <2>6. CASE \E n \in MapNames : LoadMap(n)
    BY <2>6, LoadKeeps
  <2>7. CASE \E n \in MapNames, size \in MapSizes : MapProperties(n, size)
    BY <2>7, MapPropertiesKeeps
  <2>8. CASE \E opened, written \in BOOLEAN : SaveMap(opened, written)
    BY <2>8, SaveKeeps
  <2>9. CASE TileSelector \/ TsNext \/ TsPrevious \/ TsClose \/ \E t \in 0 .. TileCount - 1 : TsTile(t)
    BY <2>9, TilesKeep
  <2>10. CASE CalculateLight \/ CompileThread \/ CancelCompilation \/ QuitEditor
    BY <2>10, CalculateKeeps, CompileKeeps, CancelKeeps, QuitKeeps
  <2>11. CASE \E writable \in BOOLEAN : FinaliseLightmap(writable)
    BY <2>11, FinaliseKeeps
  <2> QED BY <1>2, <2>1, <2>2, <2>3, <2>4, <2>5, <2>6, <2>7, <2>8, <2>9, <2>10, <2>11 DEF EditorNext
<1> QED BY <1>1, <1>2

(* Only the end of a thread that has read every light writes a light map.  *)
LEMMA LightmapStep ==
    ASSUME EditorInv, EditorNext, lmps' # lmps
    PROVE  lmps' = With(lmps, wmap.name, LightMap(wmap))
<1>1. \E writable \in BOOLEAN : FinaliseLightmap(writable)
  <2>1. lmps' # lmps
    OBVIOUS
  <2>2. ~(UNCHANGED diskVars)
    BY <2>1 DEF diskVars
  <2>3. ~(UNCHANGED <<diskVars, selVars, guiVars, compile, crashed>>)
    BY <2>2
  <2>4. ~HandDraw /\ ~InsertSelection /\ ~HCopy /\ ~ShiftDown /\ ~ShiftUp
    <3>1. ~HCopy /\ ~ShiftDown /\ ~ShiftUp
      BY <2>2 DEF HCopy, ShiftDown, ShiftUp
    <3>2. \A l, c, erasing, mirrored : ~PlaceTile(l, c, erasing, mirrored) /\ ~PasteTiles(l, c)
      BY <2>2 DEF PlaceTile, PasteTiles
    <3>3. \A k, c, look, erasing, mirrored : ~PlaceThing(k, c, look, erasing, mirrored) /\ ~PasteThings(k, c)
      BY <2>2 DEF PlaceThing, PasteThings
    <3> QED BY <3>1, <3>2, <3>3, Zenon DEF HandDraw, InsertSelection
  <2>5. \A c, look : ~SelectPoint(c) /\ ~EditLight(c, look)
    BY <2>2 DEF SelectPoint, EditLight, LightEdited
  <2>6. \A n, size, opened, written : ~LoadMap(n) /\ ~MapProperties(n, size) /\ ~SaveMap(opened, written)
    BY <2>1, <2>2 DEF LoadMap, MapProperties, SaveMap
  <2>7. ~Zap /\ ~TileSelector /\ ~TsNext /\ ~TsPrevious /\ ~TsClose /\ \A t : ~TsTile(t)
    BY <2>2 DEF Zap, TileSelector, TsNext, TsPrevious, TsClose, TsTile, Shows
  <2>8. ~CalculateLight /\ ~CompileThread /\ ~CancelCompilation /\ ~QuitEditor
    BY <2>2 DEF CalculateLight, CompileThread, CancelCompilation, QuitEditor
  <2> QED BY <2>4, <2>5, <2>6, <2>7, <2>8 DEF EditorNext
<1>2. compile.state = "finished" /\ lmps' = With(lmps, wmap.name, compile.light)
  BY <1>1 DEF FinaliseLightmap
<1> QED BY <1>2, WrittenTrue

(* What the editor shows as saved is on the disk, whole and alone, unless  *)
(* its writing failed after the file was opened, and but for objects that  *)
(* are not in the resources; no two things are at one place; and the       *)
(* picture of the chosen tile is one of the page that is shown: for every  *)
(* map, whatever its size.                                                 *)
THEOREM EditorIsSound == EditorSpec => []EditorSound
<1>1. EditorInit => EditorInv
  BY EditorInitSound
<1>2. EditorInv /\ [EditorNext]_editor => EditorInv'
  BY EditorNextKeeps
<1>3. EditorInv => EditorSound
  BY InvIsSound
<1> QED BY <1>1, <1>2, <1>3, PTL DEF EditorSpec

(* A light map that is written is that of the map as it is, however many   *)
(* lights the thread has read one by one.                                  *)
THEOREM LightmapIsTrue == EditorSpec => LightmapTrue
<1>1. EditorInit => EditorInv
  BY EditorInitSound
<1>2. EditorInv /\ [EditorNext]_editor => EditorInv'
  BY EditorNextKeeps
<1>3. EditorInv /\ [EditorNext]_editor => [lmps' # lmps => lmps' = With(lmps, wmap.name, LightMap(wmap))]_editor
  BY LightmapStep
<1> QED BY <1>1, <1>2, <1>3, PTL DEF EditorSpec, LightmapTrue
=============================================================================
