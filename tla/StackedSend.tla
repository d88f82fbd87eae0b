----------------------------- MODULE StackedSend -----------------------------
(***************************************************************************)
(* ClientServer's sending functions.  Several game packets are stacked in  *)
(* one buffer and pushed as one message when the buffer is full or the     *)
(* caller flushes it; send_data and broadcast_data build their packet in   *)
(* the same buffer, at its start.  The callers are the handlers of Server, *)
(* each a sequence of calls; the server is one thread.                     *)
(***************************************************************************)
EXTENDS Naturals, Sequences, SequencesExt

CONSTANTS
    Peers,
    PacketMaxSize,   \* in the unit in which a packet header has size 1
    Sizes,           \* sizes of packets, header included
    Config,          \* whether current_config is set when there is no tournament:
                     \*   it is not before the first one
    Gaps,            \* whether a client may be synchronised without a tournament
    MaxHandlers,     \* bound: handlers run
    MaxStack         \* bound: packets a handler stacks

ASSUME StackAssumption ==
    /\ PacketMaxSize \in Nat /\ MaxHandlers \in Nat /\ MaxStack \in Nat
    /\ Sizes \subseteq 1 .. PacketMaxSize
    /\ {Config, Gaps} \subseteq BOOLEAN

VARIABLES
    buffer,      \* gtrans: what every cell of it holds
    pb,          \* where the last stacked packet begins
    packet_len,
    synced,      \* the clients with client_synced
    calls,       \* the calls the present handler has still to make
    handlers,    \* number of handlers run, and the next packet's number
    packets,
    expected,    \* history: per client, the packets meant for it, in order
    got          \* history: per client, the packets it has read, in order

stackVars == <<buffer, pb, packet_len, synced, calls, handlers, packets, expected, got>>

Offsets == 0 .. 2 * PacketMaxSize

(* A cell is the header of a packet, or part of a payload.  *)
Header(n, size) == [packet |-> n, size |-> size, more |-> FALSE]
Payload == [packet |-> 0, size |-> 0, more |-> FALSE]
IsHeader(x) == x.size > 0

StackInit ==
    /\ buffer = [o \in Offsets |-> Payload]
    /\ pb = 0 /\ packet_len = 0
    /\ synced = {}
    /\ calls = << >> /\ handlers = 0 /\ packets = 0
    /\ expected = [c \in Peers |-> << >>]
    /\ got = [c \in Peers |-> << >>]

-----------------------------------------------------------------------------
(* Writing and reading a packet.  *)
Written(b, o, n, size) ==
    [p \in Offsets |-> IF p = o THEN Header(n, size)
                       ELSE IF p > o /\ p < o + size THEN Payload ELSE b[p]]

(* Mutant: the flag that another packet follows is forgotten.  *)
Unlinked(b, o) == b

Linked(b, o) == [b EXCEPT ![o].more = TRUE]

(* The receiver's loop over the packets of a message; it reads whatever is *)
(* behind a packet that says so.                                           *)
Read(b) ==
    LET From[o \in 0 .. 3 * PacketMaxSize] ==
          IF o \notin Offsets \/ ~IsHeader(b[o]) THEN <<0>>
          ELSE <<b[o].packet>> \o (IF b[o].more THEN From[o + b[o].size] ELSE << >>)
    IN  From[0]

HandedOn(to, b) == [c \in Peers |-> IF c \in to THEN got[c] \o Read(b) ELSE got[c]]

(* stack_data *)
Stacked(b, at, len, n, size) ==
    IF len = 0 THEN Written(b, at, n, size)
    ELSE Written(Linked(b, at), at + b[at].size, n, size)

Behind(b, at, len) == IF len = 0 THEN at ELSE at + b[at].size

-----------------------------------------------------------------------------
(* The calls.  to is the set of clients a call is for.  *)
To(call) ==
    IF call.op \in {"stack_synced", "flush_synced"} THEN synced
    ELSE IF call.op = "broadcast" THEN Peers ELSE {call.to}

Expect(to, n) == [c \in Peers |-> IF c \in to THEN Append(expected[c], n) ELSE expected[c]]

(* Mutant: one more fits.  *)
TooLongByOne(size) == packet_len + size > PacketMaxSize + 1

Full(size) == packet_len + size > PacketMaxSize

(* stacked_send_data, stacked_broadcast_data_synced  *)
Stack(call) ==
    /\ call.op \in {"stack_send", "stack_synced"}
    /\ packets' = packets + 1
    /\ expected' = Expect(To(call), packets + 1)
    /\ LET full == Full(call.size) /\ packet_len > 0
           at == IF full THEN 0 ELSE pb
           len == IF full THEN 0 ELSE packet_len
       IN  /\ got' = IF full THEN HandedOn(To(call), buffer) ELSE got
           /\ buffer' = Stacked(buffer, at, len, packets + 1, call.size)
           /\ pb' = Behind(buffer, at, len)
           /\ packet_len' = len + call.size
    /\ UNCHANGED synced

Rewound(at) == 0

(* flush_stacked_send_data, flush_stacked_broadcast_data_synced  *)
Flush(call) ==
    /\ call.op \in {"flush_send", "flush_synced"}
    /\ IF packet_len = 0 THEN UNCHANGED <<got, pb, packet_len>>
       ELSE /\ got' = HandedOn(To(call), buffer)
            /\ pb' = Rewound(pb)
            /\ packet_len' = 0
    /\ UNCHANGED <<buffer, synced, packets, expected>>

(* send_data, broadcast_data  *)
Send(call) ==
    /\ call.op \in {"send", "broadcast"}
    /\ packets' = packets + 1
    /\ expected' = Expect(To(call), packets + 1)
    /\ buffer' = Written(buffer, 0, packets + 1, call.size)
    /\ got' = HandedOn(To(call), buffer')
    /\ UNCHANGED <<pb, packet_len, synced>>

(* p->client_synced = true  *)
Sync(call) ==
    /\ call.op = "sync"
    /\ synced' = synced \cup {call.to}
    /\ UNCHANGED <<buffer, pb, packet_len, packets, expected, got>>

Call ==
    /\ calls # << >>
    /\ LET call == Head(calls) IN Stack(call) \/ Flush(call) \/ Send(call) \/ Sync(call)
    /\ calls' = Tail(calls)
    /\ UNCHANGED handlers

-----------------------------------------------------------------------------
(* The handlers, as sequences of calls.  *)
Do(op, c, size) == [op |-> op, to |-> c, size |-> size]
Stacks(op, c, sizes) == [i \in 1 .. Len(sizes) |-> Do(op, c, sizes[i])]
SomeSizes == BoundedSeq(Sizes, MaxStack)

(* Server::sync_client.  The flush is part of the state of the tournament. *)
SyncClient(c, map, states, gap) ==
    (IF gap /\ ~Config THEN << >> ELSE <<Do("stack_send", c, map)>>)
    \o (IF gap THEN << >> ELSE Stacks("stack_send", c, states) \o <<Do("flush_send", c, 1)>>)
    \o <<Do("send", c, 1), Do("sync", c, 1)>>

(* The frames of Server::thread, and GPSSpectate.  *)
Frame(c, sizes) == Stacks("stack_synced", c, sizes) \o <<Do("flush_synced", c, 1)>>

(* Server::event_login and event_logout.  *)
EventLogin(c, size) == <<Do("send", c, size), Do("broadcast", c, size)>>

EventLogout(c, sizes) ==
    <<Do("broadcast", c, 1)>> \o Frame(c, sizes) \o <<Do("broadcast", c, 1)>>

Handle ==
    /\ calls = << >>
    /\ handlers < MaxHandlers
    /\ handlers' = handlers + 1
    /\ \E c \in Peers, size \in Sizes, sizes \in SomeSizes :
         \/ \E gap \in {FALSE, Gaps} :
              /\ c \notin synced
              /\ calls' = SyncClient(c, size, sizes, gap)
         \/ calls' = Frame(c, sizes)
         \/ calls' = EventLogin(c, size)
         \/ calls' = EventLogout(c, sizes)
    /\ UNCHANGED <<buffer, pb, packet_len, synced, packets, expected, got>>

StackNext == Handle \/ Call

StackSpec == StackInit /\ [][StackNext]_stackVars

-----------------------------------------------------------------------------
StackTypeOK ==
    /\ buffer \in [Offsets -> [packet: Nat, size: Nat, more: BOOLEAN]]
    /\ pb \in Offsets /\ packet_len \in Nat
    /\ synced \subseteq Peers
    /\ handlers \in Nat /\ packets \in Nat
    /\ expected \in [Peers -> Seq(Nat)] /\ got \in [Peers -> Seq(Nat)]

(* No message is longer than a packet may be (stacked_send_data and the    *)
(* like flush before that).                                                *)
FitsPacket == packet_len <= PacketMaxSize

(* Between two handlers every client has read exactly the packets meant    *)
(* for it, in the order in which the server has written them, nothing      *)
(* lost, repeated or given to another, however they were stacked.          *)
AsMeant == calls = << >> => got = expected

(* What is stacked arrives whole: FitsPacket and AsMeant.                  *)
PacketsWhole == FitsPacket /\ AsMeant

(* Server::sync_client says "send current gameplay state": the client      *)
(* reads it before it reads that the server is ready.  Without a           *)
(* tournament the map state is overwritten in the buffer.                  *)
GameplayStateSent ==
    calls = << >> => \A c \in synced : \A i \in DOMAIN expected[c] :
                        Contains(got[c], expected[c][i])
=============================================================================
