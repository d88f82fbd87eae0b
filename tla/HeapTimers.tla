----------------------------- MODULE HeapTimers -----------------------------
(***************************************************************************)
(* The clock of MessageSequencer::cycle(): when the head of out_queue is   *)
(* resent, when a heap is pinged, and when it is given up.  One heap of    *)
(* one end; the peer answers what the constant Answers allows, whenever it *)
(* likes.  The unit of time is 25 ms.                                      *)
(***************************************************************************)
EXTENDS Naturals

CONSTANTS
    PingTimeout,    \* 200 = 5000 ms
    PingInterval,   \*  20 =  500 ms
    ShapingEnd,     \*   4 resends
    MaxResends,     \*  17 resends = 13 + ShapingEnd
    MaxThrottle,    \*   8 =  200 ms
    StartResendIn,  \*   1 =   25 ms
    Answers,        \* what the peer may send: "ack" of the head of out_queue,
                    \*   "pong", "logout" or "other"
    MaxPush,        \* bound: reliable messages pushed
    MaxHistory      \* bound: the history counts up to it

ASSUME TimerAssumption ==
    /\ {PingTimeout, PingInterval, ShapingEnd, MaxResends, MaxPush, MaxHistory} \subseteq Nat
    /\ PingInterval > 0
    /\ MaxHistory >= (PingTimeout \div PingInterval) * PingInterval
    /\ MaxThrottle \in Nat \ {0} /\ StartResendIn \in 1 .. MaxThrottle
    /\ Answers \subseteq {"ack", "pong", "logout", "other"}

VARIABLES
    h,        \* the heap
    reason,   \* "alive", or the LogoutReason the heap went for
    cycled,   \* cycle() has run in this tick
    pushed,   \* messages pushed
    silence   \* history: ticks since the last Pong, or since the heap exists

vars == <<h, reason, cycled, pushed, silence>>

Heap == [out: Nat,            \* length of out_queue
         resends: Nat,        \* of its head
         last_resend: Nat,    \* of its head: last_resend_ms
         since_send: Nat,     \* ticks since its touch
         sent_pings: Nat,
         since_ping: Nat,     \* ticks since last_ping
         deferred_kill: BOOLEAN]

(* last_ping is zero: a ping is due at once.  *)
NeverPinged == PingInterval + 1

(* A message that comes to the head of out_queue has not been sent.  *)
FreshHead(g) == [g EXCEPT !.resends = 0, !.last_resend = StartResendIn, !.since_send = 0]

Init ==
    /\ h = [out |-> 0, resends |-> 0, last_resend |-> StartResendIn, since_send |-> 0,
            sent_pings |-> 0, since_ping |-> NeverPinged, deferred_kill |-> FALSE]
    /\ reason = "alive"
    /\ cycled = FALSE
    /\ pushed = 0 /\ silence = 0

-----------------------------------------------------------------------------
AtMost(n, m) == IF n < m THEN n ELSE m

(* What one datagram can change.  *)
CanArrive(r) ==
    /\ r = "ack" => h.resends > 0
    /\ r = "pong" => h.since_ping < NeverPinged

(* Mutant: the counter is not reset.  *)
ReceivedPongIgnored(r, g) ==
    IF r = "ack" THEN [FreshHead(g) EXCEPT !.out = g.out - 1] ELSE g

Received(r, g) ==
    IF r = "ack" THEN [FreshHead(g) EXCEPT !.out = g.out - 1]
    ELSE IF r = "pong" THEN [g EXCEPT !.sent_pings = 0]
    ELSE g

-----------------------------------------------------------------------------
(* Re/-send the head of out_queue.  *)
ResendDue(g) == g.out > 0 /\ (g.resends = 0 \/ g.since_send >= g.last_resend)

(* Mutant: the resends are not counted.  *)
ResentUncounted(g) == IF ResendDue(g) THEN [g EXCEPT !.since_send = 0, !.resends = 1] ELSE g

Resent(g) ==
    IF ~ResendDue(g) THEN g
    ELSE [g EXCEPT !.since_send = 0,
                   !.resends = @ + 1,
                   !.last_resend = IF g.resends + 1 > ShapingEnd
                                   THEN AtMost(2 * @, MaxThrottle) ELSE @]

PingDue(g) == g.since_ping >= PingInterval

(* Mutant: the pings are not counted.  *)
PingedUncounted(g) == IF PingDue(g) THEN [g EXCEPT !.since_ping = 0] ELSE g

Pinged(g) ==
    IF PingDue(g) THEN [g EXCEPT !.since_ping = 0, !.sent_pings = @ + 1] ELSE g

(* The visit of the heap, in the order of the code.  *)
Outcome(r, g) ==
    LET g1 == Resent(g)
        g2 == Pinged(g1)
    IN  IF g.deferred_kill THEN "ApplicationQuit"
        ELSE IF r = "logout" THEN "Regular"
        ELSE IF ResendDue(g) /\ g1.resends > MaxResends THEN "TooManyResends"
        ELSE IF g2.sent_pings > PingTimeout \div PingInterval THEN "PingTimeout"
        ELSE "alive"

Cycle ==
    /\ reason = "alive"
    /\ \E r \in Answers \cup {"nothing"} :
         LET g == Received(r, h) IN
         /\ CanArrive(r)
         /\ reason' = Outcome(r, g)
         /\ h' = Pinged(Resent(g))
         /\ silence' = IF r = "pong" THEN 0 ELSE silence
    /\ cycled' = TRUE
    /\ UNCHANGED pushed

(* 25 ms pass.  The loops that call cycle() sleep for 1 ms, so it runs in  *)
(* every tick.                                                             *)
Tick ==
    /\ reason = "alive"
    /\ cycled
    /\ cycled' = FALSE
    /\ h' = [h EXCEPT !.since_send = IF h.resends > 0 THEN @ + 1 ELSE 0,
                      !.since_ping = @ + 1]
    /\ silence' = AtMost(silence + 1, MaxHistory)
    /\ UNCHANGED <<reason, pushed>>

Push ==
    /\ reason = "alive"
    /\ pushed < MaxPush
    /\ pushed' = pushed + 1
    /\ h' = [h EXCEPT !.out = @ + 1]
    /\ UNCHANGED <<reason, cycled, silence>>

Kill ==
    /\ reason = "alive"
    /\ h' = [h EXCEPT !.deferred_kill = TRUE]
    /\ UNCHANGED <<reason, cycled, pushed, silence>>

Next == Cycle \/ Tick \/ Push \/ Kill

(* The safety part, for the proofs.  *)
SafeSpec == Init /\ [][Next]_vars

(* The loops never stop cycling, and time passes.  *)
Fairness == WF_vars(Cycle) /\ WF_vars(Tick)

Spec == Init /\ [][Next]_vars /\ Fairness

-----------------------------------------------------------------------------
TypeOK ==
    /\ h \in Heap
    /\ reason \in {"alive", "Regular", "PingTimeout", "TooManyResends", "ApplicationQuit"}
    /\ cycled \in BOOLEAN
    /\ pushed \in Nat /\ silence \in Nat

(* A peer whose pongs come through is not dropped: a ping timeout means    *)
(* that no Pong has arrived for PingTimeout.                               *)
MaxPings == PingTimeout \div PingInterval
NeverPingedOutEarly == reason = "PingTimeout" => silence >= MaxPings * PingInterval

(* What is pushed is acknowledged in the end, or the heap goes.            *)
EveryMessageSettled == h.out > 0 ~> h.out = 0 \/ reason # "alive"

(* A heap whose peer stops answering pings goes in the end.                *)
SilentPeerGoes == []<>(silence = 0) \/ <>(reason # "alive")

(* kill() is honoured whatever arrives after it.                           *)
KillMarkerHonoured == h.deferred_kill ~> reason # "alive"

(* No heap stays for good that has no peer or has been killed.             *)
DoomedHeapGoes == SilentPeerGoes /\ KillMarkerHonoured

-----------------------------------------------------------------------------
(* Unanswered pings measure the silence.  With that, and the facts that    *)
(* only a message in out_queue has been sent and why a heap is timed out,  *)
(* NeverPingedOutEarly is inductive.                                       *)
PingInv ==
    h.sent_pings > 0 =>
        \/ silence = MaxHistory
        \/ silence >= (h.sent_pings - 1) * PingInterval + h.since_ping

TimerInv ==
    /\ h.resends > 0 => h.out > 0
    /\ PingInv
    /\ reason = "PingTimeout" => h.sent_pings > MaxPings
=============================================================================
