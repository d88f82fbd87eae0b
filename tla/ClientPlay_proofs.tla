-------------------------- MODULE ClientPlay_proofs --------------------------
(***************************************************************************)
(* What holds of a player's keys, windows and requests whatever keys there *)
(* are, however many tournaments a session has and however many messages   *)
(* are under way.                                                          *)
(***************************************************************************)
EXTENDS ClientPlay, FiniteSetTheorems, SequenceTheorems, TLAPS

-----------------------------------------------------------------------------
(* Types.  *)
DownMessage ==
    [cmd : {"map"}, tour : 1 .. MaxTours, team : BOOLEAN]
    \cup [cmd : {"reset"}, mode : Modes, keys : SUBSET Keys]
    \cup [cmd : {"ready", "accepted", "refused", "spawn", "spectate"}]
Request == [cmd : {"join", "respawn", "spectate"}, tour : 1 .. MaxTours]
AnyWindow == [kind : {"chat", "options", "join"}, tour : 1 .. MaxTours]

Typed ==
    /\ srv \in Server /\ cli \in Client
    /\ held \subseteq Keys /\ ks \subseteq Keys
    /\ down \in Seq(DownMessage) /\ Len(down) <= MaxPending + 2
    /\ up \in Seq(Request) /\ Len(up) <= MaxAsks /\ out \in Seq(Request)
    /\ wins \in Seq(AnyWindow)
    /\ late \in {Nothing} \cup [tour : 1 .. MaxTours, mode : Modes]

(* The window that asks for the team is on top, and what it covers is the  *)
(* chat or the options, with which the client takes the player to be       *)
(* writing.                                                                *)
WindowsSound ==
    /\ \A k \in DOMAIN wins :
         IF wins[k].kind = "join" THEN cli.choosing /\ k = Len(wins) /\ wins[k].tour = cli.tour
         ELSE k = 1
    /\ cli.choosing => /\ cli.joining /\ cli.team
                       /\ Len(wins) > 0 /\ wins[Len(wins)].kind = "join"
    /\ ~idling /\ Len(wins) > 1 => cli.writing

(* Keys that are not held, or that a window would not see released, are    *)
(* let go of at the next GPCReady, and every reset is followed by one.     *)
ReadyComes == \E j \in DOMAIN down : down[j].cmd = "ready"
Covered == \E k \in DOMAIN wins : wins[k].kind # "join"
KeysSound ==
    /\ ks \subseteq held \/ ReadyComes
    /\ Covered => ks = {} \/ ReadyComes
    /\ \A i \in DOMAIN down : down[i].cmd = "reset" =>
         \E j \in DOMAIN down : j > i /\ down[j].cmd = "ready"

(* The tournaments of the maps on their way rise to the server's; requests *)
(* are of the client's tournament or an older one; the server answers none *)
(* of the client's tournament once it has left that itself.                *)
IsMap(i) == down[i].cmd = "map"
IsAnswer(i) == down[i].cmd \in {"accepted", "refused"}
ToursSound ==
    /\ \A k \in DOMAIN out : out[k].tour = cli.tour /\ out[k].cmd # "respawn"
    /\ \A k \in DOMAIN up : up[k].tour <= cli.tour
    /\ \A i \in DOMAIN down : IsMap(i) =>
         /\ cli.tour < down[i].tour /\ down[i].tour <= srv.tour
         /\ \A j \in DOMAIN down : (IsMap(j) /\ j < i) => down[j].tour < down[i].tour
         /\ \A j \in DOMAIN down : IsAnswer(j) => j < i
    /\ cli.tour = srv.tour \/ \E i \in DOMAIN down : IsMap(i) /\ down[i].tour = srv.tour

(* Of the request to join in the client's tournament there is one at most, *)
(* in the responses, on its way, or answered; then the client waits for it.*)
OutAsks == {k \in DOMAIN out : out[k].cmd = "join" /\ out[k].tour = cli.tour}
UpAsks == {k \in DOMAIN up : up[k].cmd = "join" /\ up[k].tour = cli.tour}
Answers == {k \in DOMAIN down : IsAnswer(k)}
One(S) == \A i, j \in S : i = j
AsksSound ==
    /\ One(OutAsks) /\ One(UpAsks) /\ One(Answers)
    /\ (OutAsks = {} /\ UpAsks = {}) \/ (OutAsks = {} /\ Answers = {}) \/ (UpAsks = {} /\ Answers = {})
    /\ ~cli.joining \/ cli.choosing => OutAsks = {} /\ UpAsks = {} /\ Answers = {}

(* AskedIsAnswered, place by place.                                        *)
JoinIn(s) == \E k \in DOMAIN s : s[k].cmd = "join"
RespawnIn(s) == \E k \in DOMAIN s : s[k].cmd = "respawn"
Settled ==
    crossed \/
      /\ cli.joining => \/ cli.choosing \/ JoinIn(out) \/ JoinIn(up)
                        \/ \E k \in DOMAIN down : IsAnswer(k)
      /\ cli.respawning => \/ RespawnIn(up) \/ srv.respawning
                           \/ \E k \in DOMAIN down : down[k].cmd = "spawn"

PlaySound == Typed /\ WindowsSound /\ KeysSound /\ ToursSound /\ AsksSound /\ Settled

-----------------------------------------------------------------------------
(* Sequences.  *)
LEMMA ConcatIs ==
    ASSUME NEW S, NEW s \in Seq(S), NEW t \in Seq(S)
    PROVE  /\ s \o t \in Seq(S) /\ Len(s \o t) = Len(s) + Len(t)
           /\ DOMAIN (s \o t) = 1 .. Len(s) + Len(t)
           /\ \A i \in 1 .. Len(s) : (s \o t)[i] = s[i]
           /\ \A i \in 1 .. Len(t) : (s \o t)[Len(s) + i] = t[i]
           /\ \A i \in 1 .. Len(s) + Len(t) : i <= Len(s) \/ i - Len(s) \in 1 .. Len(t)
<1>1. Len(s) \in Nat /\ Len(t) \in Nat
  BY LenProperties
<1>2. s \o t \in Seq(S) /\ Len(s \o t) = Len(s) + Len(t)
  BY ConcatProperties
<1>3. /\ \A i \in 1 .. Len(s) : (s \o t)[i] = s[i]
      /\ \A i \in 1 .. Len(t) : (s \o t)[Len(s) + i] = t[i]
  BY <1>1, ConcatProperties
<1>4. DOMAIN (s \o t) = 1 .. Len(s) + Len(t)
  BY <1>2, LenProperties
<1> QED BY <1>1, <1>2, <1>3, <1>4

LEMMA TailIs ==
    ASSUME NEW S, NEW s \in Seq(S), s # << >>
    PROVE  /\ Tail(s) \in Seq(S) /\ Len(s) \in Nat /\ Len(s) >= 1 /\ Len(Tail(s)) = Len(s) - 1
           /\ DOMAIN Tail(s) = 1 .. Len(s) - 1
           /\ \A i \in 1 .. Len(s) - 1 : Tail(s)[i] = s[i + 1]
           /\ Head(s) = s[1] /\ s[1] \in S
<1>1. Len(s) \in Nat /\ Len(s) # 0
  BY EmptySeq, LenProperties
<1>2. Tail(s) \in Seq(S) /\ Len(Tail(s)) = Len(s) - 1 /\ \A i \in 1 .. Len(s) - 1 : Tail(s)[i] = s[i + 1]
  BY <1>1, HeadTailProperties
<1>3. DOMAIN Tail(s) = 1 .. Len(s) - 1
  BY <1>2, LenProperties
<1>4. Head(s) = s[1] /\ s[1] \in S
  BY <1>1, ElementOfSeq, HeadTailProperties
<1> QED BY <1>1, <1>2, <1>3, <1>4

LEMMA FrontIs ==
    ASSUME NEW S, NEW s \in Seq(S), s # << >>
    PROVE  /\ Front(s) \in Seq(S) /\ Len(s) \in Nat /\ Len(s) >= 1 /\ Len(Front(s)) = Len(s) - 1
           /\ DOMAIN Front(s) = 1 .. Len(s) - 1
           /\ \A i \in 1 .. Len(s) - 1 : Front(s)[i] = s[i]
           /\ Last(s) = s[Len(s)] /\ s[Len(s)] \in S
<1>1. Len(s) \in Nat /\ Len(s) # 0
  BY EmptySeq, LenProperties
<1>2. \A i \in 1 .. Len(s) - 1 : s[i] \in S
  BY <1>1, ElementOfSeq
<1>3. Front(s) \in Seq(S) /\ Len(Front(s)) = Len(s) - 1 /\ \A i \in 1 .. Len(s) - 1 : Front(s)[i] = s[i]
  <2> DEFINE n == Len(s) - 1
             a == SubSeq(s, 1, n)
  <2>1. n \in Nat /\ \A i \in 1 .. n : s[i] \in S
    BY <1>1, <1>2
  <2> HIDE DEF n
  <2>2. a \in Seq(S) /\ Len(a) = n /\ \A i \in 1 .. n : a[i] = s[i]
    BY <1>1, <2>1, SubSeqProperties
  <2> QED BY <2>2 DEF n, Front
<1>4. DOMAIN Front(s) = 1 .. Len(s) - 1
  BY <1>3, LenProperties
<1>5. Last(s) = s[Len(s)] /\ s[Len(s)] \in S
  BY <1>1, ElementOfSeq DEF Last
<1> QED BY <1>1, <1>3, <1>4, <1>5

-----------------------------------------------------------------------------
(* What the server's steps do to the messages.                             *)
SendsMap ==
    /\ srv'.tour = srv.tour + 1 /\ srv'.respawning = srv.respawning
    /\ \E k \in SUBSET Keys : Tell(NewMap(srv', k))
    /\ UNCHANGED <<up, crossed>>
Rests ==
    /\ srv'.tour = srv.tour /\ srv'.respawning = srv.respawning
    /\ UNCHANGED <<down, up, crossed>>
LetsIn ==
    /\ srv'.tour = srv.tour /\ UNCHANGED up
    /\ \/ Tell(<<Note("spawn")>>) /\ UNCHANGED crossed
       \/ crossed' = TRUE /\ UNCHANGED down
Drops ==
    /\ srv'.tour = srv.tour /\ up # << >> /\ up' = Tail(up)
    /\ crossed' = TRUE /\ UNCHANGED down
Takes ==
    /\ srv'.tour = srv.tour /\ up # << >> /\ up' = Tail(up)
    /\ Head(up).tour = srv.tour /\ UNCHANGED crossed
    /\ \/ /\ Head(up).cmd = "join" /\ (srv'.respawning \/ srv'.respawning = srv.respawning)
          /\ \E c \in {"accepted", "refused"} : Tell(<<Note(c)>>)
       \/ Head(up).cmd = "respawn" /\ srv'.respawning /\ UNCHANGED down
       \/ /\ Head(up).cmd = "spectate" /\ srv'.respawning = srv.respawning
          /\ Tell(<<Note("spectate")>>)

LEMMA ServerMoves ==
    ASSUME Typed, ServerSteps
    PROVE  /\ srv' \in Server /\ late' \in {Nothing} \cup [tour : 1 .. MaxTours, mode : Modes]
           /\ UNCHANGED <<cli, held, ks, wins, out, idling>>
           /\ SendsMap \/ Rests \/ LetsIn \/ Drops \/ Takes
<1> USE DEF Typed, ServerOnly
<1>1. ASSUME NEW heard \in SUBSET Keys, BeginGame(heard)
      PROVE  /\ srv' \in Server /\ SendsMap /\ late' = late
             /\ UNCHANGED <<cli, held, ks, wins, out, idling>>
  <2>1. srv' \in Server /\ srv'.tour = srv.tour + 1 /\ srv'.respawning = srv.respawning
    <3> DEFINE n == srv.tour + 1
               m == IF srv.mode = "spectating" THEN srv.mode ELSE "alive"
    <3>1. n \in 1 .. MaxTours /\ m \in Modes
      BY <1>1, ClientPlayAssumption DEF BeginGame, Server, Modes
    <3>2. srv' = [srv EXCEPT !.tour = n, !.warmup = FALSE, !.mode = m]
      BY <1>1 DEF BeginGame
    <3> HIDE DEF m
    <3> QED BY <3>1, <3>2 DEF Server
  <2> QED BY <1>1, <2>1 DEF BeginGame, SendsMap
<1>2. ASSUME NEW t \in BOOLEAN, NEW w \in BOOLEAN, NextMap(t, w)
      PROVE  /\ srv' \in Server /\ SendsMap /\ late' = late
             /\ UNCHANGED <<cli, held, ks, wins, out, idling>>
  <2>1. srv' \in Server /\ srv'.tour = srv.tour + 1 /\ srv'.respawning = srv.respawning
    <3> DEFINE n == srv.tour + 1
    <3>1. n \in 1 .. MaxTours
      BY <1>2, ClientPlayAssumption DEF NextMap, Server
    <3>2. srv' = [srv EXCEPT !.tour = n, !.team = t, !.warmup = w, !.over = FALSE,
                             !.mode = "spectating"]
      BY <1>2 DEF NextMap
    <3> QED BY <3>1, <3>2 DEF Server, Modes
  <2> QED BY <1>2, <2>1 DEF NextMap, SendsMap
<1>3. ASSUME GameOver \/ PlayerDies
      PROVE  /\ srv' \in Server /\ Rests /\ late' = late
             /\ UNCHANGED <<cli, held, ks, wins, out, idling>>
  BY <1>3 DEF GameOver, PlayerDies, Rests, Server, Modes
<1>4. ASSUME RespawnPlayer
      PROVE  /\ srv' \in Server /\ LetsIn /\ late' = late
             /\ UNCHANGED <<cli, held, ks, wins, out, idling>>
  BY <1>4 DEF RespawnPlayer, LetsIn, Server, Modes
<1>5. ASSUME ServerTakes
      PROVE  /\ srv' \in Server /\ (Drops \/ Takes) /\ late' = late
             /\ UNCHANGED <<cli, held, ks, wins, out, idling>>
  <2>1. CASE Head(up).tour # srv.tour
    BY <1>5, <2>1 DEF ServerTakes, Drops
  <2>2. CASE Head(up).tour = srv.tour
    <3>1. /\ up # << >> /\ up' = Tail(up) /\ UNCHANGED <<crossed, late>>
          /\ UNCHANGED <<cli, held, ks, wins, out, idling>>
          /\ \/ Head(up).cmd = "join" /\ JoinRequest
             \/ Head(up).cmd = "respawn" /\ Respawn
             \/ Head(up).cmd = "spectate" /\ Spectate
      BY <1>5, <2>2 DEF ServerTakes
    <3>2. CASE Head(up).cmd = "join" /\ JoinRequest
      <4>1. /\ srv' \in Server /\ srv'.tour = srv.tour
            /\ srv'.respawning \/ srv'.respawning = srv.respawning
            /\ \E c \in {"accepted", "refused"} : Tell(<<Note(c)>>)
        BY <3>2 DEF JoinRequest, Server, Modes
      <4> QED BY <2>2, <3>1, <3>2, <4>1 DEF Takes
    <3>3. CASE Head(up).cmd = "respawn" /\ Respawn
      <4>1. srv' \in Server /\ srv'.tour = srv.tour /\ srv'.respawning /\ down' = down
        BY <3>3 DEF Respawn, Server, Modes
      <4> QED BY <2>2, <3>1, <3>3, <4>1 DEF Takes
    <3>4. CASE Head(up).cmd = "spectate" /\ Spectate
      <4>1. /\ srv' \in Server /\ srv'.tour = srv.tour /\ srv'.respawning = srv.respawning
            /\ Tell(<<Note("spectate")>>)
        BY <3>4 DEF Spectate, Server, Modes
      <4> QED BY <2>2, <3>1, <3>4, <4>1 DEF Takes
    <3> QED BY <3>1, <3>2, <3>3, <3>4
  <2> QED BY <2>1, <2>2
<1>6. ASSUME SendState
      PROVE  /\ srv' \in Server /\ Rests /\ late' \in [tour : 1 .. MaxTours, mode : Modes]
             /\ UNCHANGED <<cli, held, ks, wins, out, idling>>
  BY <1>6 DEF SendState, Rests, Server, Modes
<1> QED BY <1>1, <1>2, <1>3, <1>4, <1>5, <1>6 DEF ServerSteps

LEMMA NoteIs ==
    ASSUME NEW c \in {"ready", "accepted", "refused", "spawn", "spectate"}
    PROVE  /\ <<Note(c)>> \in Seq(DownMessage) /\ Len(<<Note(c)>>) = 1
           /\ <<Note(c)>>[1].cmd = c
BY DEF Note, DownMessage

LEMMA NewMapIs ==
    ASSUME NEW s \in Server, NEW k \in SUBSET Keys
    PROVE  /\ NewMap(s, k) \in Seq(DownMessage) /\ Len(NewMap(s, k)) = 3
           /\ NewMap(s, k)[1].cmd = "map" /\ NewMap(s, k)[1].tour = s.tour
           /\ NewMap(s, k)[2].cmd = "reset" /\ NewMap(s, k)[3].cmd = "ready"
<1> DEFINE a == [cmd |-> "map", tour |-> s.tour, team |-> s.team]
           b == ResetOf(s, k)
           c == Note("ready")
<1>1. a \in DownMessage /\ b \in DownMessage /\ c \in DownMessage
  BY DEF DownMessage, Server, Note, ResetOf
<1>2. a.cmd = "map" /\ a.tour = s.tour /\ b.cmd = "reset" /\ c.cmd = "ready"
  BY DEF Note, ResetOf
<1>3. NewMap(s, k) = <<a, b, c>>
  BY DEF NewMap
<1> HIDE DEF a, b, c
<1>4. <<a, b, c>> \in Seq(DownMessage) /\ Len(<<a, b, c>>) = 3
  BY <1>1
<1> QED BY <1>2, <1>3, <1>4

LEMMA TellIs ==
    ASSUME Typed, NEW ms \in Seq(DownMessage), Len(ms) <= 3,
           Len(down) < MaxPending, down' = down \o ms
    PROVE  /\ down' \in Seq(DownMessage) /\ Len(down') <= MaxPending + 2
           /\ Len(down) \in Nat /\ Len(down') = Len(down) + Len(ms)
           /\ DOMAIN down = 1 .. Len(down) /\ DOMAIN down' = 1 .. Len(down) + Len(ms)
           /\ \A i \in 1 .. Len(down) : down'[i] = down[i]
           /\ \A i \in 1 .. Len(ms) : down'[Len(down) + i] = ms[i]
           /\ \A i \in DOMAIN down' : i <= Len(down) \/ i - Len(down) \in 1 .. Len(ms)
<1>2. down \in Seq(DownMessage) /\ Len(down) \in Nat /\ Len(ms) \in Nat /\ DOMAIN down = 1 .. Len(down)
  BY LenProperties DEF Typed
<1> QED BY <1>2, ConcatIs, ClientPlayAssumption

-----------------------------------------------------------------------------
(* Types are kept.  *)
LEMMA DownTyped ==
    ASSUME Typed, srv' \in Server, SendsMap \/ Rests \/ LetsIn \/ Drops \/ Takes
    PROVE  down' \in Seq(DownMessage) /\ Len(down') <= MaxPending + 2
<1>1. ASSUME NEW k \in SUBSET Keys, Tell(NewMap(srv', k))
      PROVE  down' \in Seq(DownMessage) /\ Len(down') <= MaxPending + 2
  <2> DEFINE ms == NewMap(srv', k)
  <2>1. ms \in Seq(DownMessage) /\ Len(ms) <= 3
    <3>1. ms \in Seq(DownMessage) /\ Len(ms) = 3
      BY NewMapIs
    <3> QED BY <3>1
  <2>2. Len(down) < MaxPending /\ down' = down \o ms
    BY <1>1 DEF Tell
  <2> HIDE DEF ms
  <2> QED BY <2>1, <2>2, TellIs
<1>2. ASSUME NEW c \in {"ready", "accepted", "refused", "spawn", "spectate"}, Tell(<<Note(c)>>)
      PROVE  down' \in Seq(DownMessage) /\ Len(down') <= MaxPending + 2
  <2> DEFINE ms == <<Note(c)>>
  <2>1. ms \in Seq(DownMessage) /\ Len(ms) <= 3
    BY NoteIs
  <2>2. Len(down) < MaxPending /\ down' = down \o ms
    BY <1>2 DEF Tell
  <2> HIDE DEF ms
  <2> QED BY <2>1, <2>2, TellIs
<1>3. CASE UNCHANGED down
  BY <1>3 DEF Typed
<1>4. ASSUME SendsMap PROVE \E k \in SUBSET Keys : Tell(NewMap(srv', k))
  BY <1>4, Zenon DEF SendsMap
<1>5. ASSUME LetsIn \/ Takes
      PROVE  \/ UNCHANGED down
             \/ \E c \in {"ready", "accepted", "refused", "spawn", "spectate"} : Tell(<<Note(c)>>)
  BY <1>5, Zenon DEF LetsIn, Takes
<1>6. ASSUME Rests \/ Drops PROVE UNCHANGED down
  BY <1>6 DEF Rests, Drops
<1> QED BY <1>1, <1>2, <1>3, <1>4, <1>5, <1>6

LEMMA UpTyped ==
    ASSUME Typed, SendsMap \/ Rests \/ LetsIn \/ Drops \/ Takes
    PROVE  up' \in Seq(Request) /\ Len(up') <= MaxAsks
<1>1. ASSUME up # << >>, up' = Tail(up) PROVE up' \in Seq(Request) /\ Len(up') <= MaxAsks
  <2>1. up \in Seq(Request) /\ Len(up) <= MaxAsks
    BY DEF Typed
  <2>2. Tail(up) \in Seq(Request) /\ Len(up) \in Nat /\ Len(Tail(up)) = Len(up) - 1
    BY <1>1, <2>1, TailIs
  <2> QED BY <1>1, <2>1, <2>2, ClientPlayAssumption
<1>2. (up # << >> /\ up' = Tail(up)) \/ up' = up
  BY DEF SendsMap, Rests, LetsIn, Drops, Takes
<1> QED BY <1>1, <1>2 DEF Typed

LEMMA ServerTyped == ASSUME Typed, ServerSteps PROVE Typed'
<1>1. /\ srv' \in Server /\ late' \in {Nothing} \cup [tour : 1 .. MaxTours, mode : Modes]
      /\ UNCHANGED <<cli, held, ks, wins, out>>
      /\ SendsMap \/ Rests \/ LetsIn \/ Drops \/ Takes
  BY ServerMoves
<1>2. down' \in Seq(DownMessage) /\ Len(down') <= MaxPending + 2
  BY <1>1, DownTyped
<1>3. up' \in Seq(Request) /\ Len(up') <= MaxAsks
  BY <1>1, UpTyped
<1> QED BY <1>1, <1>2, <1>3 DEF Typed

LEMMA OneMore ==
    ASSUME NEW S, NEW s \in Seq(S), NEW x \in S
    PROVE  /\ s \o <<x>> \in Seq(S) /\ Len(s \o <<x>>) = Len(s) + 1
           /\ DOMAIN (s \o <<x>>) = 1 .. Len(s) + 1 /\ (s \o <<x>>)[Len(s) + 1] = x
           /\ \A i \in 1 .. Len(s) : (s \o <<x>>)[i] = s[i]
           /\ Append(s, x) = s \o <<x>> /\ Len(s) \in Nat /\ DOMAIN s = 1 .. Len(s)
<1>1. <<x>> \in Seq(S) /\ Len(<<x>>) = 1 /\ <<x>>[1] = x
  OBVIOUS
<1>2. Len(s) \in Nat /\ DOMAIN s = 1 .. Len(s)
  BY LenProperties
<1>3. Append(s, x) = s \o <<x>>
  BY AppendIsConcat
<1> QED BY <1>1, <1>2, <1>3, ConcatIs

LEMMA PlayerTyped == ASSUME Typed, PlayerSteps PROVE Typed'
<1> USE DEF Typed
<1>1. ASSUME PlayerSteps PROVE UNCHANGED <<srv, down, up, late>>
  BY DEF PlayerSteps, Press, Release, OpenWindow, CloseChat, CloseOptions, SpectateClick, TeamClick, Input
<1>2. ASSUME NEW k \in Keys, Press(k) \/ Release(k)
      PROVE  held' \subseteq Keys /\ ks' \subseteq Keys /\ UNCHANGED <<cli, wins, out>>
  BY <1>2 DEF Press, Release, WhileWriting
<1>3. ASSUME NEW w \in {"chat", "options"}, OpenWindow(w)
      PROVE  ks' = {} /\ wins' \in Seq(AnyWindow) /\ UNCHANGED <<cli, held, out>>
  <2>1. Window(w) \in AnyWindow
    BY DEF Window, AnyWindow, Client
  <2>2. <<Window(w)>> \in Seq(AnyWindow)
    BY <2>1
  <2> QED BY <1>3, <2>2 DEF OpenWindow
<1>4. ASSUME NEW w \in {"chat", "options", "join"}, Top = w
      PROVE  wins # << >> /\ Front(wins) \in Seq(AnyWindow)
  <2>1. wins # << >>
    BY <1>4 DEF Top
  <2> QED BY <2>1, FrontIs
<1>5. ASSUME CloseChat
      PROVE  wins' \in Seq(AnyWindow) /\ cli' \in Client /\ UNCHANGED <<held, ks, out>>
  BY <1>4, <1>5 DEF CloseChat, Client
<1>6. ASSUME CloseOptions
      PROVE  wins' \in Seq(AnyWindow) /\ UNCHANGED <<cli, held, ks, out>>
  BY <1>4, <1>6 DEF CloseOptions
<1>7. \A c \in {"join", "respawn", "spectate"} : Ask(c) \in Request
  BY DEF Ask, Request, Client
<1>8. ASSUME SpectateClick
      PROVE  out' \in Seq(Request) /\ UNCHANGED <<cli, held, ks, wins>>
  BY <1>7, <1>8, AppendProperties DEF SpectateClick
<1>9. ASSUME TeamClick
      PROVE  out' \in Seq(Request) /\ cli' \in Client /\ wins' \in Seq(AnyWindow) /\ UNCHANGED <<held, ks>>
  <2>1. out' \in Seq(Request)
    BY <1>7, <1>9, AppendProperties DEF TeamClick
  <2>2. cli' \in Client
    BY <1>9 DEF TeamClick, Client
  <2> QED BY <1>4, <1>9, <2>1, <2>2 DEF TeamClick
<1> QED BY <1>1, <1>2, <1>3, <1>5, <1>6, <1>8, <1>9 DEF PlayerSteps

(* What the client's handlers do, told apart by the message.               *)
LEMMA HeadOfDown ==
    ASSUME Typed, down # << >>
    PROVE  /\ Head(down) \in DownMessage /\ Head(down) = down[1] /\ 1 \in DOMAIN down
           /\ Len(down) \in Nat /\ Len(down) >= 1 /\ DOMAIN down = 1 .. Len(down)
           /\ Tail(down) \in Seq(DownMessage) /\ Len(Tail(down)) = Len(down) - 1
           /\ DOMAIN Tail(down) = 1 .. Len(down) - 1
           /\ \A i \in 1 .. Len(down) - 1 : Tail(down)[i] = down[i + 1]
           /\ Head(down).cmd = "map" => Head(down).tour \in 1 .. MaxTours /\ Head(down).team \in BOOLEAN
           /\ Head(down).cmd = "reset" => Head(down).mode \in Modes /\ Head(down).keys \subseteq Keys
<1>1. down \in Seq(DownMessage)
  BY DEF Typed
<1>2. Head(down) \in DownMessage /\ Head(down) = down[1] /\ Len(down) \in Nat /\ Len(down) >= 1
  BY <1>1, TailIs
<1>3. /\ Head(down).cmd = "map" => Head(down).tour \in 1 .. MaxTours /\ Head(down).team \in BOOLEAN
      /\ Head(down).cmd = "reset" => Head(down).mode \in Modes /\ Head(down).keys \subseteq Keys
  BY <1>2 DEF DownMessage
<1>4. DOMAIN down = 1 .. Len(down) /\ 1 \in 1 .. Len(down)
  BY <1>1, <1>2, LenProperties
<1> QED BY <1>1, <1>2, <1>3, <1>4, TailIs

LEMMA KeptIs ==
    ASSUME Typed, WindowsSound
    PROVE  /\ Kept \in Seq(AnyWindow) /\ Len(Kept) \in Nat /\ DOMAIN Kept = 1 .. Len(Kept)
           /\ Len(Kept) <= 1
           /\ \A k \in DOMAIN Kept : k \in DOMAIN wins /\ Kept[k] = wins[k] /\ Kept[k].kind # "join"
<1>1. wins \in Seq(AnyWindow) /\ Len(wins) \in Nat /\ DOMAIN wins = 1 .. Len(wins)
  BY LenProperties DEF Typed
<1>2. CASE cli.choosing
  <2>1. wins # << >> /\ Kept = Front(wins)
    BY <1>1, <1>2 DEF WindowsSound, Kept
  <2>2. /\ Front(wins) \in Seq(AnyWindow) /\ Len(wins) >= 1 /\ Len(Front(wins)) = Len(wins) - 1
        /\ DOMAIN Front(wins) = 1 .. Len(wins) - 1
        /\ \A i \in 1 .. Len(wins) - 1 : Front(wins)[i] = wins[i]
    BY <1>1, <2>1, FrontIs
  <2>3. \A k \in 1 .. Len(wins) - 1 : wins[k].kind # "join" /\ k = 1
    <3> DEFINE n == Len(wins)
    <3>1. n \in Nat /\ DOMAIN wins = 1 .. n
      BY <1>1
    <3> SUFFICES ASSUME NEW k \in 1 .. n - 1 PROVE wins[k].kind # "join" /\ k = 1
      OBVIOUS
    <3>2. k \in DOMAIN wins /\ k # n
      <4> HIDE DEF n
      <4> QED BY <3>1
    <3> QED BY <3>2 DEF WindowsSound
  <2>4. Len(wins) - 1 <= 1
    <3>1. Len(wins) > 2 => 2 \in 1 .. Len(wins) - 1
      BY <1>1
    <3> QED BY <1>1, <2>3, <3>1
  <2> QED BY <1>1, <2>1, <2>2, <2>3, <2>4
<1>3. CASE ~cli.choosing
  <2>1. Kept = wins
    BY <1>3 DEF Kept
  <2>2. \A k \in 1 .. Len(wins) : wins[k].kind # "join" /\ k = 1
    BY <1>1, <1>3 DEF WindowsSound
  <2>3. Len(wins) <= 1
    <3>1. Len(wins) > 1 => 2 \in 1 .. Len(wins)
      BY <1>1
    <3> QED BY <1>1, <2>2, <3>1
  <2> QED BY <1>1, <2>1, <2>2, <2>3
<1> QED BY <1>2, <1>3

(* MapState, with the questions it asks again written out.                 *)
Again(m) == cli.joining /\ m.team
MapTaken(m) ==
    /\ cli'.tour = m.tour /\ cli'.joining = cli.joining /\ cli'.respawning = cli.respawning
    /\ cli'.choosing = (Again(m) /\ m.team) /\ cli'.team = m.team
    /\ wins' = IF Again(m) THEN Kept \o <<[kind |-> "join", tour |-> m.tour]>> ELSE Kept
    /\ out' = << >>
    /\ crossed' = (crossed \/ (~Again(m) /\ (cli.choosing \/ Ask("join") \in Range(out))))
    /\ UNCHANGED ks

LEMMA MapStateIs ==
    ASSUME Typed, NEW m \in DownMessage, m.cmd = "map", MapState(m)
    PROVE  cli' \in Client /\ MapTaken(m)
<1> DEFINE c == [cli EXCEPT !.tour = m.tour, !.team = m.team, !.button = FALSE, !.choosing = FALSE]
<1>1. m.tour \in 1 .. MaxTours /\ m.team \in BOOLEAN
  BY DEF DownMessage
<1>2. /\ c \in Client /\ c.tour = m.tour /\ c.team = m.team /\ c.joining = cli.joining
      /\ c.respawning = cli.respawning /\ c.choosing = FALSE
  BY <1>1 DEF Typed, Client
<1>3. /\ cli' = IF Again(m) THEN Joins(c) ELSE c
      /\ wins' = IF Again(m) THEN Kept \o JoinWindow(c) ELSE Kept
      /\ out' = IF Again(m) THEN JoinAsk(c) ELSE << >>
      /\ crossed' = (crossed \/ (~Again(m) /\ (cli.choosing \/ Ask("join") \in Range(out))))
      /\ ks' = ks
  BY DEF MapState, Again
<1> HIDE DEF c
<1>4. CASE Again(m)
  <2>1. cli.joining /\ m.team
    BY <1>4 DEF Again
  <2>2. /\ Joins(c) \in Client /\ Joins(c).tour = m.tour /\ Joins(c).team = m.team
        /\ Joins(c).joining = TRUE /\ Joins(c).respawning = cli.respawning
        /\ Joins(c).choosing = m.team
    BY <1>2 DEF Joins, Client
  <2>3. JoinWindow(c) = <<[kind |-> "join", tour |-> m.tour]>> /\ JoinAsk(c) = << >>
    BY <1>2, <2>1 DEF JoinWindow, JoinAsk
  <2>4. cli.joining = TRUE /\ m.team = TRUE
    BY <1>1, <2>1 DEF Typed, Client
  <2> QED BY <1>3, <1>4, <2>2, <2>3, <2>4 DEF MapTaken
<1>5. CASE ~Again(m)
  BY <1>2, <1>3, <1>5 DEF MapTaken
<1> QED BY <1>4, <1>5

LEMMA ClientTyped == ASSUME Typed, WindowsSound, ClientSteps PROVE Typed'
<1>1. ASSUME ClientTakes PROVE Typed'
  <2> DEFINE m == Head(down)
  <2>1. /\ down # << >> /\ down' = Tail(down) /\ UNCHANGED <<srv, up, late, held>>
    BY <1>1 DEF ClientTakes
  <2>2. /\ m \in DownMessage /\ Tail(down) \in Seq(DownMessage) /\ Len(Tail(down)) <= MaxPending + 2
        /\ m.cmd = "reset" => m.mode \in Modes /\ m.keys \subseteq Keys
    BY <2>1, HeadOfDown, ClientPlayAssumption DEF Typed
  <2>3. \/ m.cmd = "map" /\ MapState(m)
        \/ m.cmd = "reset" /\ ResetPlayer(m)
        \/ Ready \/ JoinHandling \/ SpawnPlayer \/ SpectateAccepted
    BY <1>1 DEF ClientTakes
  <2> HIDE DEF m
  <2>4. ASSUME m.cmd = "map", MapState(m)
        PROVE  cli' \in Client /\ wins' \in Seq(AnyWindow) /\ out' \in Seq(Request) /\ ks' = ks
    <3>1. cli' \in Client /\ MapTaken(m)
      BY <2>2, <2>4, MapStateIs
    <3>2. Kept \in Seq(AnyWindow)
      BY KeptIs
    <3>3. [kind |-> "join", tour |-> m.tour] \in AnyWindow
      BY <2>2, <2>4 DEF DownMessage, AnyWindow
    <3>4. Kept \o <<[kind |-> "join", tour |-> m.tour]>> \in Seq(AnyWindow)
      BY <3>2, <3>3, OneMore
    <3>5. << >> \in Seq(Request)
      BY EmptySeq
    <3> QED BY <3>1, <3>2, <3>4, <3>5 DEF MapTaken
  <2>5. ASSUME \/ m.cmd = "reset" /\ ResetPlayer(m)
               \/ Ready \/ JoinHandling \/ SpawnPlayer \/ SpectateAccepted
        PROVE  cli' \in Client /\ ks' \subseteq Keys /\ UNCHANGED <<wins, out>>
    BY <2>2, <2>5 DEF ResetPlayer, Ready, JoinHandling, SpawnPlayer, SpectateAccepted, Typed, Client, Modes
  <2> QED BY <2>1, <2>2, <2>3, <2>4, <2>5 DEF Typed
<1>2. ASSUME UpdatePlayerState PROVE Typed'
  <2>1. late.mode \in Modes /\ late' = Nothing
    BY <1>2 DEF UpdatePlayerState, Typed
  <2>2. cli' = [cli EXCEPT !.mode = late.mode] \/ cli' = cli
    BY <1>2 DEF UpdatePlayerState
  <2>3. cli' \in Client
    BY <2>1, <2>2 DEF Typed, Client
  <2> QED BY <1>2, <2>1, <2>3 DEF UpdatePlayerState, Typed
<1>3. ASSUME PlayFrame PROVE Typed'
  <2> DEFINE asked == CASE WantsToJoin -> JoinAsk(cli)
                        [] WantsToRespawn -> <<Ask("respawn")>>
                        [] OTHER -> << >>
             c == CASE WantsToJoin -> Joins(cli)
                    [] WantsToRespawn -> [cli EXCEPT !.respawning = TRUE]
                    [] OTHER -> cli
             stack == IF WantsToJoin THEN wins \o JoinWindow(cli) ELSE wins
  <2>1. /\ Len(up) + Len(out \o asked) <= MaxAsks
        /\ up' = up \o out \o asked /\ out' = << >> /\ wins' = stack
        /\ cli' = [c EXCEPT !.button = "jump" \in ks, !.writing = stack # << >>]
        /\ UNCHANGED <<srv, down, late, held, ks>>
    BY <1>3 DEF PlayFrame
  <2>2. asked \in Seq(Request)
    <3>1. << >> \in Seq(Request)
      BY EmptySeq
    <3>2. [cmd |-> "join", tour |-> cli.tour] \in Request /\ Ask("respawn") \in Request
      BY DEF Request, Ask, Typed, Client
    <3>3. JoinAsk(cli) \in Seq(Request) /\ <<Ask("respawn")>> \in Seq(Request)
      BY <3>1, <3>2 DEF JoinAsk
    <3> QED BY <3>1, <3>3
  <2>3. c \in Client
    <3>1. Joins(cli) \in Client /\ [cli EXCEPT !.respawning = TRUE] \in Client
      BY DEF Joins, Typed, Client
    <3> QED BY <3>1 DEF Typed
  <2>4. stack \in Seq(AnyWindow)
    <3>1. [kind |-> "join", tour |-> cli.tour] \in AnyWindow
      BY DEF AnyWindow, Typed, Client
    <3>2. JoinWindow(cli) \in Seq(AnyWindow)
      BY <3>1, EmptySeq DEF JoinWindow
    <3> QED BY <3>2, ConcatProperties DEF Typed
  <2> HIDE DEF asked, c, stack
  <2>5. cli' \in Client
    <3> DEFINE b == "jump" \in ks
               w == stack # << >>
    <3>1. b \in BOOLEAN /\ w \in BOOLEAN
      OBVIOUS
    <3>2. cli' = [c EXCEPT !.button = b, !.writing = w]
      BY <2>1
    <3> HIDE DEF b, w
    <3> QED BY <2>3, <3>1, <3>2 DEF Client
  <2>6. up' \in Seq(Request) /\ Len(up') <= MaxAsks
    <3>1. up \in Seq(Request) /\ out \in Seq(Request)
      BY DEF Typed
    <3>2. out \o asked \in Seq(Request) /\ up \o (out \o asked) = (up \o out) \o asked
      BY SMTT(30), <2>2, <3>1, ConcatProperties, ConcatAssociative
    <3> QED BY <2>1, <3>1, <3>2, ConcatIs
  <2> QED BY <2>1, <2>4, <2>5, <2>6, EmptySeq DEF Typed
<1> QED BY <1>1, <1>2, <1>3 DEF ClientSteps

-----------------------------------------------------------------------------
(* A frame of the client.  *)
FrameJoins ==
    /\ WantsToJoin /\ cli'.joining = TRUE /\ cli'.choosing = cli.team
    /\ cli'.respawning = cli.respawning
    /\ wins' = wins \o JoinWindow(cli) /\ up' = (up \o out) \o JoinAsk(cli)
FrameRespawns ==
    /\ cli'.joining = cli.joining /\ cli'.choosing = cli.choosing
    /\ cli'.respawning = TRUE
    /\ wins' = wins /\ up' = (up \o out) \o <<Ask("respawn")>>
FrameRests ==
    /\ cli'.joining = cli.joining /\ cli'.choosing = cli.choosing
    /\ cli'.respawning = cli.respawning
    /\ wins' = wins /\ up' = up \o out

LEMMA FrameIs ==
    ASSUME Typed, PlayFrame
    PROVE  /\ cli'.tour = cli.tour /\ cli'.team = cli.team /\ cli'.writing = (wins' # << >>)
           /\ out' = << >> /\ idling' = FALSE
           /\ UNCHANGED <<srv, down, late, held, ks, crossed>>
           /\ FrameJoins \/ FrameRespawns \/ FrameRests
<1> DEFINE asked == CASE WantsToJoin -> JoinAsk(cli)
                      [] WantsToRespawn -> <<Ask("respawn")>>
                      [] OTHER -> << >>
           c == CASE WantsToJoin -> Joins(cli)
                  [] WantsToRespawn -> [cli EXCEPT !.respawning = TRUE]
                  [] OTHER -> cli
           stack == IF WantsToJoin THEN wins \o JoinWindow(cli) ELSE wins
           b == "jump" \in ks
           w == stack # << >>
<1>1. /\ up' = (up \o out) \o asked /\ out' = << >> /\ wins' = stack
      /\ cli' = [c EXCEPT !.button = b, !.writing = w]
      /\ idling' = FALSE
      /\ UNCHANGED <<srv, down, late, held, ks, crossed>>
  BY DEF PlayFrame
<1>2. c \in Client
  <2>1. Joins(cli) \in Client /\ [cli EXCEPT !.respawning = TRUE] \in Client /\ cli \in Client
    BY DEF Joins, Typed, Client
  <2> QED BY <2>1
<1>3. w = (wins' # << >>)
  BY <1>1
<1>4. /\ cli'.tour = c.tour /\ cli'.team = c.team /\ cli'.writing = w
      /\ cli'.joining = c.joining /\ cli'.choosing = c.choosing /\ cli'.respawning = c.respawning
  <2> HIDE DEF c, b, w
  <2> QED BY <1>1, <1>2 DEF Client
<1>5. c.tour = cli.tour /\ c.team = cli.team
  BY DEF Joins, Typed, Client
<1>6. CASE WantsToJoin
  <2>0. ~WantsToRespawn
    BY <1>6 DEF WantsToJoin, WantsToRespawn
  <2>1. c.joining = TRUE /\ c.choosing = cli.team /\ c.respawning = cli.respawning
    <3>1. c = Joins(cli)
      BY <1>6, <2>0
    <3> QED BY <3>1 DEF Joins, Typed, Client
  <2>2. stack = wins \o JoinWindow(cli) /\ asked = JoinAsk(cli)
    BY <1>6, <2>0
  <2> HIDE DEF c, b, w, stack, asked
  <2> QED BY <1>1, <1>3, <1>4, <1>5, <1>6, <2>1, <2>2 DEF FrameJoins
<1>7. CASE ~WantsToJoin /\ WantsToRespawn
  <2>1. c.joining = cli.joining /\ c.choosing = cli.choosing /\ c.respawning = TRUE
    BY <1>7 DEF Typed, Client
  <2>2. stack = wins /\ asked = <<Ask("respawn")>>
    BY <1>7
  <2> HIDE DEF c, b, w, stack, asked
  <2> QED BY <1>1, <1>3, <1>4, <1>5, <2>1, <2>2 DEF FrameRespawns
<1>8. CASE ~WantsToJoin /\ ~WantsToRespawn
  <2>1. c = cli /\ stack = wins /\ asked = << >>
    BY <1>8
  <2>2. (up \o out) \o << >> = up \o out
    <3>1. up \o out \in Seq(Request)
      BY ConcatProperties DEF Typed
    <3> QED BY <3>1, ConcatEmptySeq
  <2> HIDE DEF c, b, w, stack, asked
  <2> QED BY <1>1, <1>3, <1>4, <1>5, <2>1, <2>2 DEF FrameRests
<1> QED BY <1>6, <1>7, <1>8

-----------------------------------------------------------------------------
(* The windows.  *)
LEMMA TopIs ==
    ASSUME Typed, NEW w \in {"chat", "options", "join"}, Top = w
    PROVE  /\ Front(wins) \in Seq(AnyWindow) /\ Len(wins) \in Nat /\ Len(wins) >= 1
           /\ DOMAIN wins = 1 .. Len(wins) /\ Len(Front(wins)) = Len(wins) - 1
           /\ DOMAIN Front(wins) = 1 .. Len(wins) - 1
           /\ \A i \in 1 .. Len(wins) - 1 : Front(wins)[i] = wins[i]
           /\ wins[Len(wins)].kind = w
<1>1. wins # << >> /\ wins \in Seq(AnyWindow) /\ Last(wins).kind = w
  BY DEF Top, Typed
<1> QED BY <1>1, FrontIs, LenProperties

LEMMA WindowsPlayer == ASSUME Typed, WindowsSound, PlayerSteps PROVE WindowsSound'
<1>1. ASSUME UNCHANGED <<cli, wins, idling>> PROVE WindowsSound'
  BY <1>1 DEF WindowsSound
<1>2. ASSUME NEW k \in Keys, Press(k) \/ Release(k) PROVE WindowsSound'
  BY <1>1, <1>2 DEF Press, Release, Input
<1>3. ASSUME NEW w \in {"chat", "options"}, OpenWindow(w) PROVE WindowsSound'
  <2>1. wins = << >> /\ wins' = <<Window(w)>> /\ UNCHANGED <<cli, idling>>
    BY <1>3 DEF OpenWindow, Input
  <2>2. ~cli.choosing
    BY <2>1 DEF WindowsSound
  <2>3. Len(wins') = 1 /\ DOMAIN wins' = {1} /\ wins'[1].kind # "join"
    BY <2>1 DEF Window
  <2>4. cli'.choosing = cli.choosing
    BY <2>1
  <2>5. \A k \in DOMAIN wins' : k = 1 /\ wins'[k].kind # "join"
    BY <2>3
  <2> QED BY <2>2, <2>3, <2>4, <2>5 DEF WindowsSound
<1>4. ASSUME NEW w \in {"chat", "options"}, Top = w
      PROVE  Front(wins) = << >> /\ ~cli.choosing
  <2>0. /\ Len(wins) \in Nat /\ Len(wins) >= 1 /\ DOMAIN wins = 1 .. Len(wins)
        /\ wins[Len(wins)].kind = w
    BY <1>4, TopIs
  <2>1. Len(wins) = 1 /\ ~cli.choosing
    <3>1. Len(wins) \in DOMAIN wins /\ wins[Len(wins)].kind # "join"
      BY <2>0
    <3> QED BY <3>1 DEF WindowsSound
  <2> QED BY <1>4, <2>1, TopIs, EmptySeq
<1>5. ASSUME CloseChat \/ CloseOptions PROVE WindowsSound'
  <2>1. wins' = << >> /\ cli'.choosing = FALSE
    BY <1>4, <1>5 DEF CloseChat, CloseOptions, Typed, Client
  <2> QED BY <2>1 DEF WindowsSound
<1>6. ASSUME SpectateClick PROVE WindowsSound'
  BY <1>1, <1>6 DEF SpectateClick, Input
<1>7. ASSUME TeamClick PROVE WindowsSound'
  <2>1. wins' = Front(wins) /\ ~cli'.choosing /\ Top = "join"
    BY <1>7 DEF TeamClick, Typed, Client
  <2>2. cli.choosing
    BY <2>1, TopIs DEF WindowsSound
  <2>3. Kept = wins'
    BY <2>1, <2>2 DEF Kept
  <2>4. Len(wins') <= 1 /\ Len(wins') \in Nat /\ \A k \in DOMAIN wins' : k = 1 /\ wins'[k].kind # "join"
    BY <2>3, KeptIs
  <2> QED BY <2>1, <2>4 DEF WindowsSound
<1> QED BY <1>2, <1>3, <1>5, <1>6, <1>7 DEF PlayerSteps

LEMMA WindowsClient == ASSUME Typed, WindowsSound, AsksSound, ClientSteps PROVE WindowsSound'
<1>1. ASSUME ClientTakes PROVE WindowsSound'
  <2> DEFINE m == Head(down)
  <2>1. down # << >> /\ idling' = TRUE
    BY <1>1 DEF ClientTakes
  <2>2. m \in DownMessage
    BY <2>1, HeadOfDown
  <2>3. \/ m.cmd = "map" /\ MapState(m)
        \/ ResetPlayer(m) \/ Ready \/ SpawnPlayer \/ SpectateAccepted
        \/ JoinHandling /\ m.cmd \in {"accepted", "refused"}
    BY <1>1 DEF ClientTakes
  <2> HIDE DEF m
  <2>4. CASE ResetPlayer(m) \/ Ready \/ SpawnPlayer \/ SpectateAccepted
    <3>1. UNCHANGED wins /\ cli'.choosing = cli.choosing /\ cli'.joining = cli.joining
          /\ cli'.team = cli.team /\ cli'.tour = cli.tour
      BY <2>4 DEF ResetPlayer, Ready, SpawnPlayer, SpectateAccepted, Typed, Client
    <3> QED BY <2>1, <3>1 DEF WindowsSound
  <2>5. CASE JoinHandling /\ m.cmd \in {"accepted", "refused"}
    <3>1. 1 \in Answers
      BY <2>1, <2>5, HeadOfDown DEF Answers, IsAnswer, m
    <3>2. ~cli.choosing
      BY <3>1 DEF AsksSound
    <3>3. UNCHANGED wins /\ cli'.choosing = cli.choosing /\ cli'.team = cli.team /\ cli'.tour = cli.tour
      BY <2>5 DEF JoinHandling, Typed, Client
    <3> QED BY <2>1, <3>2, <3>3 DEF WindowsSound
  <2>6. CASE m.cmd = "map" /\ MapState(m)
    <3>1. MapTaken(m) /\ cli.joining \in BOOLEAN /\ m.team \in BOOLEAN
      BY <2>2, <2>6, MapStateIs DEF Typed, Client, DownMessage
    <3>2. /\ Kept \in Seq(AnyWindow) /\ Len(Kept) \in Nat /\ DOMAIN Kept = 1 .. Len(Kept)
          /\ Len(Kept) <= 1 /\ \A k \in DOMAIN Kept : k = 1 /\ Kept[k].kind # "join"
      BY KeptIs
    <3>3. CASE ~Again(m)
      <4>1. wins' = Kept /\ cli'.choosing = FALSE
        BY <3>1, <3>3 DEF MapTaken
      <4> QED BY <2>1, <3>2, <4>1 DEF WindowsSound
    <3>4. CASE Again(m)
      <4> DEFINE x == [kind |-> "join", tour |-> m.tour]
      <4>1. /\ wins' = Kept \o <<x>> /\ cli'.choosing /\ cli'.joining /\ cli'.team
            /\ cli'.tour = m.tour
        BY <3>1, <3>4 DEF MapTaken, Again
      <4>2. x \in AnyWindow /\ x.kind = "join" /\ x.tour = m.tour
        BY <2>2, <2>6 DEF DownMessage, AnyWindow
      <4> HIDE DEF x
      <4>3. /\ Len(wins') = Len(Kept) + 1 /\ DOMAIN wins' = 1 .. Len(Kept) + 1
            /\ wins'[Len(Kept) + 1] = x
            /\ \A i \in 1 .. Len(Kept) : wins'[i] = Kept[i]
        BY <3>2, <4>1, <4>2, OneMore
      <4>4. ASSUME NEW k \in DOMAIN wins'
            PROVE  IF wins'[k].kind = "join" THEN k = Len(wins') /\ wins'[k].tour = m.tour
                   ELSE k = 1
        <5>1. k = Len(Kept) + 1 \/ k \in 1 .. Len(Kept)
          BY <3>2, <4>3
        <5> QED BY <3>2, <4>2, <4>3, <5>1
      <4>5. Len(wins') > 0 /\ wins'[Len(wins')].kind = "join"
        BY <3>2, <4>2, <4>3
      <4> QED BY <2>1, <4>1, <4>4, <4>5 DEF WindowsSound
    <3> QED BY <3>3, <3>4
  <2> QED BY <2>3, <2>4, <2>5, <2>6
<1>2. ASSUME UpdatePlayerState PROVE WindowsSound'
  <2>1. /\ UNCHANGED wins /\ cli'.choosing = cli.choosing /\ cli'.joining = cli.joining
        /\ cli'.team = cli.team /\ cli'.tour = cli.tour /\ idling' = TRUE
    BY <1>2 DEF UpdatePlayerState, Typed, Client
  <2> QED BY <2>1 DEF WindowsSound
<1>3. ASSUME PlayFrame PROVE WindowsSound'
  <2>1. /\ cli'.tour = cli.tour /\ cli'.team = cli.team /\ cli'.writing = (wins' # << >>)
        /\ FrameJoins \/ FrameRespawns \/ FrameRests
    BY <1>3, FrameIs
  <2>2. Len(wins') > 1 => cli'.writing
    <3>1. ASSUME wins' = << >> PROVE ~(Len(wins') > 1)
      <4>1. Len(<< >>) = 0
        BY EmptySeq
      <4> QED BY <3>1, <4>1
    <3> QED BY <2>1, <3>1
  <2>3. CASE FrameRespawns \/ FrameRests
    <3>1. UNCHANGED wins /\ cli'.choosing = cli.choosing /\ cli'.joining = cli.joining
      BY <2>3 DEF FrameRespawns, FrameRests
    <3> QED BY <2>1, <2>2, <3>1 DEF WindowsSound
  <2>4. CASE FrameJoins
    <3>1. ~cli.choosing
      BY <2>4 DEF FrameJoins, WantsToJoin, WindowsSound
    <3>2. Kept = wins
      BY <3>1 DEF Kept
    <3>3. /\ wins \in Seq(AnyWindow) /\ Len(wins) \in Nat /\ DOMAIN wins = 1 .. Len(wins)
          /\ Len(wins) <= 1 /\ \A k \in DOMAIN wins : k = 1 /\ wins[k].kind # "join"
      BY <3>2, KeptIs
    <3>4. CASE ~cli.team
      <4>1. wins' = wins /\ cli'.choosing = FALSE
        <5>1. wins \o << >> = wins
          BY <3>3, ConcatEmptySeq
        <5> QED BY <2>4, <3>4, <5>1 DEF FrameJoins, JoinWindow, Typed, Client
      <4> QED BY <2>2, <3>3, <4>1 DEF WindowsSound
    <3>5. CASE cli.team
      <4> DEFINE x == [kind |-> "join", tour |-> cli.tour]
      <4>1. wins' = wins \o <<x>> /\ cli'.choosing /\ cli'.joining /\ cli'.team
        BY <2>1, <2>4, <3>5 DEF FrameJoins, JoinWindow
      <4>2. x \in AnyWindow /\ x.kind = "join" /\ x.tour = cli'.tour
        BY <2>1 DEF Typed, Client, AnyWindow
      <4> HIDE DEF x
      <4>3. /\ Len(wins') = Len(wins) + 1 /\ DOMAIN wins' = 1 .. Len(wins) + 1
            /\ wins'[Len(wins) + 1] = x
            /\ \A i \in 1 .. Len(wins) : wins'[i] = wins[i]
        BY <3>3, <4>1, <4>2, OneMore
      <4>4. ASSUME NEW k \in DOMAIN wins'
            PROVE  IF wins'[k].kind = "join" THEN k = Len(wins') /\ wins'[k].tour = cli'.tour
                   ELSE k = 1
        <5>1. k = Len(wins) + 1 \/ k \in 1 .. Len(wins)
          BY <3>3, <4>3
        <5> QED BY <3>3, <4>2, <4>3, <5>1
      <4>5. Len(wins') > 0 /\ wins'[Len(wins')].kind = "join"
        BY <3>3, <4>2, <4>3
      <4> QED BY <2>2, <4>1, <4>4, <4>5 DEF WindowsSound
    <3> QED BY <3>4, <3>5
  <2> QED BY <2>1, <2>3, <2>4
<1> QED BY <1>1, <1>2, <1>3 DEF ClientSteps

-----------------------------------------------------------------------------
(* What is sent to the client comes behind what is under way.              *)
LEMMA MapSent ==
    ASSUME Typed, srv' \in Server, SendsMap
    PROVE  /\ Len(down) \in Nat /\ DOMAIN down = 1 .. Len(down) /\ DOMAIN down' = 1 .. Len(down) + 3
           /\ \A i \in 1 .. Len(down) : down'[i] = down[i]
           /\ down'[Len(down) + 1].cmd = "map" /\ down'[Len(down) + 1].tour = srv'.tour
           /\ down'[Len(down) + 2].cmd = "reset" /\ down'[Len(down) + 3].cmd = "ready"
<1>1. PICK k \in SUBSET Keys : Tell(NewMap(srv', k))
  BY Zenon DEF SendsMap
<1> DEFINE ms == NewMap(srv', k)
<1>2. /\ ms \in Seq(DownMessage) /\ Len(ms) = 3 /\ ms[1].cmd = "map" /\ ms[1].tour = srv'.tour
      /\ ms[2].cmd = "reset" /\ ms[3].cmd = "ready"
  BY NewMapIs
<1>3. Len(down) < MaxPending /\ down' = down \o ms
  BY <1>1 DEF Tell
<1> HIDE DEF ms
<1>4. Len(ms) <= 3
  BY <1>2
<1>5. /\ Len(down) \in Nat /\ DOMAIN down = 1 .. Len(down) /\ DOMAIN down' = 1 .. Len(down) + Len(ms)
      /\ \A i \in 1 .. Len(down) : down'[i] = down[i]
      /\ \A i \in 1 .. Len(ms) : down'[Len(down) + i] = ms[i]
  BY <1>2, <1>3, <1>4, TellIs
<1> QED BY <1>2, <1>5

LEMMA NoteSent ==
    ASSUME Typed, NEW c \in {"ready", "accepted", "refused", "spawn", "spectate"},
           Tell(<<Note(c)>>)
    PROVE  /\ Len(down) \in Nat /\ DOMAIN down = 1 .. Len(down) /\ DOMAIN down' = 1 .. Len(down) + 1
           /\ \A i \in 1 .. Len(down) : down'[i] = down[i]
           /\ down'[Len(down) + 1].cmd = c
<1> DEFINE ms == <<Note(c)>>
<1>1. ms \in Seq(DownMessage) /\ Len(ms) = 1 /\ ms[1].cmd = c
  BY NoteIs
<1>2. Len(down) < MaxPending /\ down' = down \o ms
  BY DEF Tell
<1> HIDE DEF ms
<1>3. Len(ms) <= 3
  BY <1>1
<1>4. /\ Len(down) \in Nat /\ DOMAIN down = 1 .. Len(down) /\ DOMAIN down' = 1 .. Len(down) + Len(ms)
      /\ \A i \in 1 .. Len(down) : down'[i] = down[i]
      /\ \A i \in 1 .. Len(ms) : down'[Len(down) + i] = ms[i]
  BY <1>1, <1>2, <1>3, TellIs
<1> QED BY <1>1, <1>4

-----------------------------------------------------------------------------
(* The keys.  *)
LEMMA KeysServer == ASSUME Typed, KeysSound, ServerSteps PROVE KeysSound'
<1>1. srv' \in Server /\ UNCHANGED <<held, ks, wins>> /\ (SendsMap \/ Rests \/ LetsIn \/ Drops \/ Takes)
  BY ServerMoves
<1>2. CASE SendsMap
  <2> DEFINE n == Len(down)
  <2>1. /\ n \in Nat /\ DOMAIN down = 1 .. n /\ DOMAIN down' = 1 .. n + 3
        /\ \A i \in 1 .. n : down'[i] = down[i]
        /\ down'[n + 1].cmd = "map" /\ down'[n + 2].cmd = "reset" /\ down'[n + 3].cmd = "ready"
    BY <1>1, <1>2, MapSent
  <2> HIDE DEF n
  <2>2. n + 3 \in DOMAIN down'
    BY <2>1
  <2>3. ReadyComes'
    BY <2>1, <2>2 DEF ReadyComes
  <2>4. ASSUME NEW i \in DOMAIN down', down'[i].cmd = "reset"
        PROVE  \E j \in DOMAIN down' : j > i /\ down'[j].cmd = "ready"
    <3>1. i < n + 3
      BY <2>1, <2>4
    <3> QED BY <2>1, <2>2, <3>1
  <2> QED BY <1>1, <2>3, <2>4 DEF KeysSound
<1>3. CASE UNCHANGED down
  BY <1>1, <1>3 DEF KeysSound, ReadyComes, Covered
<1>4. ASSUME NEW c \in {"accepted", "refused", "spawn", "spectate"}, Tell(<<Note(c)>>)
      PROVE  KeysSound'
  <2> DEFINE n == Len(down)
  <2>1. /\ n \in Nat /\ DOMAIN down = 1 .. n /\ DOMAIN down' = 1 .. n + 1
        /\ \A i \in 1 .. n : down'[i] = down[i]
        /\ down'[n + 1].cmd = c
    BY <1>4, NoteSent
  <2> HIDE DEF n
  <2>2. ReadyComes => ReadyComes'
    BY <2>1 DEF ReadyComes
  <2>3. ASSUME NEW i \in DOMAIN down', down'[i].cmd = "reset"
        PROVE  \E j \in DOMAIN down' : j > i /\ down'[j].cmd = "ready"
    <3>1. i \in DOMAIN down /\ down[i].cmd = "reset"
      BY <2>1, <2>3
    <3>2. PICK j \in DOMAIN down : j > i /\ down[j].cmd = "ready"
      BY <3>1 DEF KeysSound
    <3> QED BY <2>1, <3>2
  <2> QED BY <1>1, <2>2, <2>3 DEF KeysSound, Covered
<1>5. \/ SendsMap \/ UNCHANGED down
      \/ \E c \in {"accepted", "refused", "spawn", "spectate"} : Tell(<<Note(c)>>)
  BY <1>1, Zenon DEF Rests, LetsIn, Drops, Takes
<1> QED BY <1>2, <1>3, <1>4, <1>5

LEMMA KeysPlayer == ASSUME Typed, WindowsSound, KeysSound, PlayerSteps PROVE KeysSound'
<1>0. PlayerSteps => UNCHANGED down
  BY DEF PlayerSteps, Press, Release, OpenWindow, CloseChat, CloseOptions, SpectateClick, TeamClick, Input
<1>1. ReadyComes' <=> ReadyComes
  BY <1>0 DEF ReadyComes
<1>2. \A i \in DOMAIN down' : down'[i].cmd = "reset" =>
         \E j \in DOMAIN down' : j > i /\ down'[j].cmd = "ready"
  BY <1>0 DEF KeysSound
<1>3. ASSUME Covered, ReachesGame, ~idling PROVE cli.writing
  <2>1. PICK k \in DOMAIN wins : wins[k].kind # "join"
    BY <1>3 DEF Covered
  <2>2. wins \in Seq(AnyWindow) /\ Len(wins) \in Nat /\ DOMAIN wins = 1 .. Len(wins)
    BY LenProperties DEF Typed
  <2>3. k = 1 /\ wins[k].kind = "chat"
    <3>1. k = 1
      BY <2>1 DEF WindowsSound
    <3>2. wins[k] \in AnyWindow
      BY <2>1, <2>2, ElementOfSeq
    <3>3. wins[k].kind # "options"
      BY <1>3, <2>1 DEF ReachesGame, OptionsVisible
    <3> QED BY <2>1, <3>1, <3>2, <3>3 DEF AnyWindow
  <2>4. Len(wins) # 1
    <3>1. ASSUME Len(wins) = 1 PROVE FALSE
      <4>1. wins # << >> /\ Last(wins) = wins[1]
        BY <3>1, EmptySeq DEF Last
      <4> QED BY <1>3, <2>3, <4>1 DEF ReachesGame, Top
    <3> QED BY <3>1
  <2>5. Len(wins) > 1
    BY <2>2, <2>3, <2>4
  <2> QED BY <1>3, <2>5 DEF WindowsSound
<1>4. ASSUME NEW k \in Keys, Press(k) PROVE KeysSound'
  <2>1. /\ held' = held \cup {k} /\ wins' = wins /\ ~idling
        /\ ks' = IF ReachesGame THEN (IF cli.writing THEN {} ELSE ks \cup {k}) ELSE ks
    BY <1>4 DEF Press, Input, WhileWriting
  <2>2. ks \subseteq held => ks' \subseteq held'
    BY <2>1
  <2>3. Covered => ks' = ks \/ ks' = {}
    BY <1>3, <2>1
  <2>4. Covered' <=> Covered
    BY <2>1 DEF Covered
  <2> QED BY <1>1, <1>2, <2>2, <2>3, <2>4 DEF KeysSound
<1>5. ASSUME NEW k \in Keys, Release(k) PROVE KeysSound'
  <2>1. /\ held' = held \ {k} /\ wins' = wins /\ ~idling
        /\ ks' = IF ReachesGame THEN ks \ {k} ELSE ks
    BY <1>5 DEF Release, Input
  <2>2. Covered' <=> Covered
    BY <2>1 DEF Covered
  <2>3. ReachesGame \/ Covered
    <3>1. ASSUME ~ReachesGame PROVE Covered
      <4>1. CASE Top = "chat"
        <5>1. Len(wins) \in DOMAIN wins /\ wins[Len(wins)].kind = "chat"
          BY <4>1, TopIs
        <5> QED BY <5>1 DEF Covered
      <4>2. CASE OptionsVisible
        BY <4>2 DEF OptionsVisible, Covered
      <4> QED BY <3>1, <4>1, <4>2 DEF ReachesGame
    <3> QED BY <3>1
  <2>4. CASE ReachesGame
    <3>1. ks \subseteq held => ks' \subseteq held'
      BY <2>1, <2>4
    <3>2. ks = {} => ks' = {}
      BY <2>1, <2>4
    <3> QED BY <1>1, <1>2, <2>2, <3>1, <3>2 DEF KeysSound
  <2>5. CASE ~ReachesGame
    <3>1. ks' = ks /\ (ks = {} \/ ReadyComes)
      BY <2>1, <2>3, <2>5 DEF KeysSound
    <3> QED BY <1>1, <1>2, <2>2, <3>1 DEF KeysSound
  <2> QED BY <2>4, <2>5
<1>6. ASSUME NEW w \in {"chat", "options"}, OpenWindow(w) PROVE KeysSound'
  <2>1. ks' = {}
    BY <1>6 DEF OpenWindow
  <2> QED BY <1>1, <1>2, <2>1 DEF KeysSound
<1>7. ASSUME UNCHANGED <<held, ks>>, Covered' => Covered PROVE KeysSound'
  BY <1>1, <1>2, <1>7 DEF KeysSound
<1>8. ASSUME NEW w \in {"chat", "options", "join"}, Top = w, wins' = Front(wins)
      PROVE  Covered' => Covered
  <2> DEFINE n == Len(wins)
  <2>1. /\ n \in Nat /\ n >= 1 /\ DOMAIN wins = 1 .. n /\ DOMAIN wins' = 1 .. n - 1
        /\ \A i \in 1 .. n - 1 : wins'[i] = wins[i]
    BY <1>8, TopIs
  <2> HIDE DEF n
  <2>2. \A i \in DOMAIN wins' : i \in DOMAIN wins /\ wins'[i] = wins[i]
    BY <2>1
  <2> QED BY <2>2 DEF Covered
<1>9. ASSUME CloseChat \/ CloseOptions \/ TeamClick PROVE KeysSound'
  <2>1. UNCHANGED <<held, ks>> /\ wins' = Front(wins) /\ Top \in {"chat", "options", "join"}
    BY <1>9 DEF CloseChat, CloseOptions, TeamClick
  <2> QED BY <1>7, <1>8, <2>1
<1>10. ASSUME SpectateClick PROVE KeysSound'
  <2>1. UNCHANGED <<held, ks, wins>>
    BY <1>10 DEF SpectateClick
  <2> QED BY <1>7, <2>1 DEF Covered
<1> QED BY <1>4, <1>5, <1>6, <1>9, <1>10 DEF PlayerSteps

(* What the client's step at a message leaves of the rest.                 *)
LEMMA Shifted ==
    ASSUME Typed, down # << >>, down' = Tail(down)
    PROVE  /\ \A i \in DOMAIN down' : i \in Nat /\ i >= 1 /\ i + 1 \in DOMAIN down /\ down'[i] = down[i + 1]
           /\ \A i \in DOMAIN down : i \in Nat /\ (i = 1 \/ (i > 1 /\ i - 1 \in DOMAIN down' /\ down'[i - 1] = down[i]))
           /\ 1 \in DOMAIN down
<1> DEFINE n == Len(down)
<1>1. /\ n \in Nat /\ n >= 1 /\ DOMAIN down = 1 .. n /\ DOMAIN down' = 1 .. n - 1
      /\ \A i \in 1 .. n - 1 : down'[i] = down[i + 1]
  BY HeadOfDown
<1> HIDE DEF n
<1>2. ASSUME NEW i \in DOMAIN down'
      PROVE  i \in Nat /\ i >= 1 /\ i + 1 \in DOMAIN down /\ down'[i] = down[i + 1]
  BY <1>1
<1>3. ASSUME NEW i \in DOMAIN down, i # 1
      PROVE  i > 1 /\ i - 1 \in DOMAIN down' /\ down'[i - 1] = down[i]
  <2>1. i > 1 /\ i - 1 \in 1 .. n - 1 /\ (i - 1) + 1 = i
    BY <1>1, <1>3
  <2> QED BY <1>1, <2>1
<1> QED BY <1>1, <1>2, <1>3

(* The client's step at a message, by its kind.                            *)
Rejoins(joining, respawning) ==
    /\ cli'.joining = joining /\ cli'.respawning = respawning
    /\ UNCHANGED <<wins, out, crossed>>
    /\ cli'.choosing = cli.choosing /\ cli'.team = cli.team /\ cli'.tour = cli.tour
Handled(m) ==
    \/ m.cmd = "map" /\ MapTaken(m)
    \/ m.cmd = "reset" /\ ks' \subseteq Keys /\ Rejoins(cli.joining, cli.respawning)
    \/ m.cmd \in {"ready", "spectate"} /\ ks' = {} /\ Rejoins(cli.joining, cli.respawning)
    \/ m.cmd \in {"accepted", "refused"} /\ UNCHANGED ks /\ Rejoins(FALSE, cli.respawning)
    \/ m.cmd = "spawn" /\ UNCHANGED ks /\ Rejoins(cli.joining, FALSE)

LEMMA ClientTakesIs ==
    ASSUME Typed, ClientTakes
    PROVE  /\ down # << >> /\ down' = Tail(down) /\ idling' = TRUE /\ UNCHANGED <<srv, up, late, held>>
           /\ down[1] \in DownMessage /\ Handled(down[1])
<1> DEFINE m == down[1]
<1>1. /\ down # << >> /\ down' = Tail(down) /\ idling' = TRUE /\ UNCHANGED <<srv, up, late, held>>
  BY DEF ClientTakes
<1>2. /\ m = Head(down) /\ m \in DownMessage
      /\ m.cmd = "reset" => m.keys \subseteq Keys
  BY <1>1, HeadOfDown
<1>3. \/ m.cmd = "map" /\ MapState(m)
      \/ m.cmd = "reset" /\ ResetPlayer(m) /\ UNCHANGED crossed
      \/ m.cmd = "ready" /\ Ready /\ UNCHANGED crossed
      \/ m.cmd \in {"accepted", "refused"} /\ JoinHandling /\ UNCHANGED crossed
      \/ m.cmd = "spawn" /\ SpawnPlayer /\ UNCHANGED crossed
      \/ m.cmd = "spectate" /\ SpectateAccepted /\ UNCHANGED crossed
  BY <1>2 DEF ClientTakes
<1> HIDE DEF m
<1>4. (m.cmd = "map" /\ MapState(m)) => Handled(m)
  BY <1>2, MapStateIs DEF Handled
<1>5. (m.cmd = "reset" /\ ResetPlayer(m) /\ UNCHANGED crossed) => Handled(m)
  BY <1>2 DEF Handled, Rejoins, ResetPlayer, Typed, Client
<1>6. (m.cmd = "ready" /\ Ready /\ UNCHANGED crossed) => Handled(m)
  BY DEF Handled, Rejoins, Ready
<1>7. (m.cmd \in {"accepted", "refused"} /\ JoinHandling /\ UNCHANGED crossed) => Handled(m)
  BY DEF Handled, Rejoins, JoinHandling, Typed, Client
<1>8. (m.cmd = "spawn" /\ SpawnPlayer /\ UNCHANGED crossed) => Handled(m)
  BY DEF Handled, Rejoins, SpawnPlayer, Typed, Client
<1>9. (m.cmd = "spectate" /\ SpectateAccepted /\ UNCHANGED crossed) => Handled(m)
  BY DEF Handled, Rejoins, SpectateAccepted, Typed, Client
<1>10. Handled(m)
  BY <1>3, <1>4, <1>5, <1>6, <1>7, <1>8, <1>9
<1> QED BY <1>1, <1>2, <1>10 DEF m

LEMMA KeysClient == ASSUME Typed, WindowsSound, KeysSound, ClientSteps PROVE KeysSound'
<1>1. ASSUME ClientTakes PROVE KeysSound'
  <2> DEFINE m == down[1]
  <2>1. /\ down # << >> /\ down' = Tail(down) /\ held' = held
        /\ m \in DownMessage /\ Handled(m)
    BY <1>1, ClientTakesIs
  <2>2. /\ \A i \in DOMAIN down' : i \in Nat /\ i + 1 \in DOMAIN down /\ down'[i] = down[i + 1]
        /\ \A i \in DOMAIN down : i \in Nat /\ (i = 1 \/ (i > 1 /\ i - 1 \in DOMAIN down' /\ down'[i - 1] = down[i]))
        /\ 1 \in DOMAIN down
    BY <2>1, Shifted
  <2>3. ASSUME NEW i \in DOMAIN down', down'[i].cmd = "reset"
        PROVE  \E j \in DOMAIN down' : j > i /\ down'[j].cmd = "ready"
    <3>1. PICK j \in DOMAIN down : j > i + 1 /\ down[j].cmd = "ready"
      BY <2>2, <2>3 DEF KeysSound
    <3>2. j - 1 \in DOMAIN down' /\ j - 1 > i /\ down'[j - 1].cmd = "ready"
      BY <2>2, <3>1
    <3> QED BY <3>2
  <2>4. m.cmd # "ready" => (ReadyComes => ReadyComes')
    BY <2>2 DEF ReadyComes
  <2>5. m.cmd = "reset" => ReadyComes'
    <3>1. SUFFICES ASSUME m.cmd = "reset" PROVE ReadyComes'
      OBVIOUS
    <3>2. PICK j \in DOMAIN down : j > 1 /\ down[j].cmd = "ready"
      BY <2>2, <3>1 DEF KeysSound
    <3>3. j - 1 \in DOMAIN down' /\ down'[j - 1].cmd = "ready"
      BY <2>2, <3>2
    <3> QED BY <3>3 DEF ReadyComes
  <2> HIDE DEF m
  <2>6. CASE m.cmd = "map" /\ MapTaken(m)
    <3>1. ks' = ks
      BY <2>6 DEF MapTaken
    <3>2. Covered' => Covered
      <4>1. /\ Kept \in Seq(AnyWindow) /\ Len(Kept) \in Nat /\ DOMAIN Kept = 1 .. Len(Kept)
            /\ \A k \in DOMAIN Kept : k \in DOMAIN wins /\ Kept[k] = wins[k]
        BY KeptIs
      <4> DEFINE x == [kind |-> "join", tour |-> m.tour]
      <4>2. wins' = Kept \/ wins' = Kept \o <<x>>
        BY <2>6 DEF MapTaken
      <4>3. x \in AnyWindow /\ x.kind = "join"
        BY <2>1, <2>6 DEF DownMessage, AnyWindow
      <4> HIDE DEF x
      <4>4. CASE wins' = Kept
        BY <4>1, <4>4 DEF Covered
      <4>5. CASE wins' = Kept \o <<x>>
        <5>1. /\ DOMAIN wins' = 1 .. Len(Kept) + 1 /\ wins'[Len(Kept) + 1] = x
              /\ \A i \in 1 .. Len(Kept) : wins'[i] = Kept[i]
          BY <4>1, <4>3, <4>5, OneMore
        <5>2. \A k \in DOMAIN wins' : wins'[k].kind # "join" => k \in DOMAIN wins /\ wins'[k] = wins[k]
          BY <4>1, <4>3, <5>1
        <5> QED BY <5>2 DEF Covered
      <4> QED BY <4>2, <4>4, <4>5
    <3> QED BY <2>1, <2>3, <2>4, <2>6, <3>1, <3>2 DEF KeysSound
  <2>7. CASE m.cmd = "reset"
    BY <2>3, <2>5, <2>7 DEF KeysSound
  <2>8. CASE ks' = {}
    BY <2>3, <2>8 DEF KeysSound
  <2>9. CASE m.cmd \in {"accepted", "refused", "spawn"} /\ UNCHANGED <<ks, wins>>
    BY <2>1, <2>3, <2>4, <2>9 DEF KeysSound, Covered
  <2>10. \/ m.cmd = "map" /\ MapTaken(m)
         \/ m.cmd = "reset" \/ ks' = {}
         \/ m.cmd \in {"accepted", "refused", "spawn"} /\ UNCHANGED <<ks, wins>>
    BY <2>1 DEF Handled, Rejoins
  <2> QED BY <2>6, <2>7, <2>8, <2>9, <2>10
<1>2. ASSUME UpdatePlayerState PROVE KeysSound'
  BY <1>2 DEF UpdatePlayerState, KeysSound, ReadyComes, Covered
<1>3. ASSUME PlayFrame PROVE KeysSound'
  <2>1. UNCHANGED <<down, held, ks>> /\ (FrameJoins \/ FrameRespawns \/ FrameRests)
    BY <1>3, FrameIs
  <2>2. Covered' => Covered
    <3>1. CASE FrameRespawns \/ FrameRests
      <4>1. wins' = wins
        BY <3>1 DEF FrameRespawns, FrameRests
      <4> QED BY <4>1 DEF Covered
    <3>2. CASE FrameJoins
      <4> DEFINE x == [kind |-> "join", tour |-> cli.tour]
      <4>1. wins \in Seq(AnyWindow) /\ Len(wins) \in Nat /\ DOMAIN wins = 1 .. Len(wins)
        BY LenProperties DEF Typed
      <4>2. wins' = wins \o << >> \/ wins' = wins \o <<x>>
        BY <3>2 DEF FrameJoins, JoinWindow
      <4>3. x \in AnyWindow /\ x.kind = "join"
        BY DEF Typed, Client, AnyWindow
      <4> HIDE DEF x
      <4>4. CASE wins' = wins \o << >>
        <5>1. wins' = wins
          BY <4>1, <4>4, ConcatEmptySeq
        <5> QED BY <5>1 DEF Covered
      <4>5. CASE wins' = wins \o <<x>>
        <5>1. /\ DOMAIN wins' = 1 .. Len(wins) + 1 /\ wins'[Len(wins) + 1] = x
              /\ \A i \in 1 .. Len(wins) : wins'[i] = wins[i]
          BY <4>1, <4>3, <4>5, OneMore
        <5>2. \A k \in DOMAIN wins' : wins'[k].kind # "join" => k \in DOMAIN wins /\ wins'[k] = wins[k]
          BY <4>1, <4>3, <5>1
        <5> QED BY <5>2 DEF Covered
      <4> QED BY <4>2, <4>4, <4>5
    <3> QED BY <2>1, <3>1, <3>2
  <2> QED BY <2>1, <2>2 DEF KeysSound, ReadyComes
<1> QED BY <1>1, <1>2, <1>3 DEF ClientSteps

-----------------------------------------------------------------------------
(* The tournaments of what is under way.                                   *)
LEMMA MapsAhead ==
    ASSUME Typed, ToursSound
    PROVE  /\ cli.tour \in 1 .. MaxTours /\ srv.tour \in 1 .. MaxTours /\ cli.tour <= srv.tour
           /\ cli.tour = srv.tour => \A i \in DOMAIN down : ~IsMap(i)
           /\ \A i \in DOMAIN down : i \in Nat /\ (IsMap(i) => down[i].tour \in 1 .. MaxTours)
<1>1. /\ cli.tour \in 1 .. MaxTours /\ srv.tour \in 1 .. MaxTours
  BY DEF Typed, Client, Server
<1>2. ASSUME NEW i \in DOMAIN down
      PROVE  i \in Nat /\ (IsMap(i) => down[i].tour \in 1 .. MaxTours)
  <2>1. down \in Seq(DownMessage) /\ DOMAIN down = 1 .. Len(down) /\ Len(down) \in Nat
    BY LenProperties DEF Typed
  <2>2. down[i] \in DownMessage
    BY <1>2, <2>1, ElementOfSeq
  <2> QED BY <1>2, <2>1, <2>2 DEF IsMap, DownMessage
<1>3. cli.tour <= srv.tour /\ (cli.tour = srv.tour => \A i \in DOMAIN down : ~IsMap(i))
  BY <1>1, <1>2, ClientPlayAssumption DEF ToursSound
<1> QED BY <1>1, <1>2, <1>3

LEMMA RequestIs ==
    ASSUME Typed
    PROVE  /\ Len(up) \in Nat /\ DOMAIN up = 1 .. Len(up) /\ Len(out) \in Nat /\ DOMAIN out = 1 .. Len(out)
           /\ \A k \in DOMAIN up : k \in Nat /\ up[k] \in Request /\ up[k].tour \in 1 .. MaxTours
           /\ \A k \in DOMAIN out : k \in Nat /\ out[k] \in Request /\ out[k].tour \in 1 .. MaxTours
<1>1. up \in Seq(Request) /\ out \in Seq(Request)
  BY DEF Typed
<1>2. Len(up) \in Nat /\ DOMAIN up = 1 .. Len(up) /\ Len(out) \in Nat /\ DOMAIN out = 1 .. Len(out)
  BY <1>1, LenProperties
<1>3. /\ \A k \in DOMAIN up : k \in Nat /\ up[k] \in Request
      /\ \A k \in DOMAIN out : k \in Nat /\ out[k] \in Request
  BY <1>1, <1>2, ElementOfSeq
<1>4. \A r \in Request : r.tour \in 1 .. MaxTours
  BY DEF Request
<1> QED BY <1>2, <1>3, <1>4

LEMMA UpShifted ==
    ASSUME Typed, up # << >>, up' = Tail(up)
    PROVE  /\ \A k \in DOMAIN up' : k \in Nat /\ k + 1 \in DOMAIN up /\ up'[k] = up[k + 1]
           /\ \A k \in DOMAIN up : k \in Nat /\ (k = 1 \/ (k > 1 /\ k - 1 \in DOMAIN up' /\ up'[k - 1] = up[k]))
           /\ 1 \in DOMAIN up /\ Head(up) = up[1]
<1> DEFINE n == Len(up)
<1>1. /\ n \in Nat /\ n >= 1 /\ DOMAIN up = 1 .. n /\ DOMAIN up' = 1 .. n - 1
      /\ \A i \in 1 .. n - 1 : up'[i] = up[i + 1]
      /\ Head(up) = up[1]
  BY TailIs, RequestIs DEF Typed
<1> HIDE DEF n
<1>2. ASSUME NEW i \in DOMAIN up'
      PROVE  i \in Nat /\ i + 1 \in DOMAIN up /\ up'[i] = up[i + 1]
  BY <1>1
<1>3. ASSUME NEW i \in DOMAIN up, i # 1
      PROVE  i > 1 /\ i - 1 \in DOMAIN up' /\ up'[i - 1] = up[i]
  <2>1. i > 1 /\ i - 1 \in 1 .. n - 1 /\ (i - 1) + 1 = i
    BY <1>1, <1>3
  <2> QED BY <1>1, <2>1
<1> QED BY <1>1, <1>2, <1>3

LEMMA ToursServer == ASSUME Typed, ToursSound, ServerSteps PROVE ToursSound'
<1>1. /\ srv' \in Server /\ UNCHANGED <<cli, out>>
      /\ SendsMap \/ Rests \/ LetsIn \/ Drops \/ Takes
  BY ServerMoves
<1>2. /\ cli.tour \in 1 .. MaxTours /\ srv.tour \in 1 .. MaxTours /\ cli.tour <= srv.tour
      /\ \A i \in DOMAIN down : i \in Nat /\ (IsMap(i) => down[i].tour \in 1 .. MaxTours)
  BY MapsAhead
<1>3. \A k \in DOMAIN out' : out'[k].tour = cli'.tour /\ out'[k].cmd # "respawn"
  BY <1>1 DEF ToursSound
<1>4. \A k \in DOMAIN up' : up'[k].tour <= cli'.tour
  <2>1. up' = up \/ (up # << >> /\ up' = Tail(up))
    BY <1>1 DEF SendsMap, Rests, LetsIn, Drops, Takes
  <2>2. CASE up # << >> /\ up' = Tail(up)
    BY <1>1, <2>2, UpShifted DEF ToursSound
  <2> QED BY <1>1, <2>1, <2>2 DEF ToursSound
<1>5. CASE SendsMap
  <2> DEFINE n == Len(down)
  <2>1. /\ n \in Nat /\ DOMAIN down = 1 .. n /\ DOMAIN down' = 1 .. n + 3
        /\ \A i \in 1 .. n : down'[i] = down[i]
        /\ down'[n + 1].cmd = "map" /\ down'[n + 1].tour = srv'.tour
        /\ down'[n + 2].cmd = "reset" /\ down'[n + 3].cmd = "ready"
    BY <1>1, <1>5, MapSent
  <2>2. srv'.tour = srv.tour + 1
    BY <1>5 DEF SendsMap
  <2> HIDE DEF n
  <2>3. \A i \in DOMAIN down' : (IsMap(i)' => i \in 1 .. n + 1) /\ (IsAnswer(i)' => i \in 1 .. n)
    <3>1. \A i \in 1 .. n + 3 : i \in 1 .. n \/ i = n + 1 \/ i = n + 2 \/ i = n + 3
      BY <2>1
    <3> QED BY <2>1, <3>1 DEF IsMap, IsAnswer
  <2>4. \A i \in 1 .. n : i \in DOMAIN down /\ (IsMap(i)' <=> IsMap(i)) /\ (IsAnswer(i)' <=> IsAnswer(i))
                          /\ down'[i] = down[i] /\ i < n + 1 /\ i \in Nat
    BY <2>1 DEF IsMap, IsAnswer
  <2>5. ASSUME NEW i \in DOMAIN down', IsMap(i)'
        PROVE  /\ cli.tour < down'[i].tour /\ down'[i].tour <= srv'.tour
               /\ \A j \in DOMAIN down' : (IsMap(j)' /\ j < i) => down'[j].tour < down'[i].tour
               /\ \A j \in DOMAIN down' : IsAnswer(j)' => j < i
    <3>1. CASE i \in 1 .. n
      <4>1. \A j \in DOMAIN down' : IsMap(j)' /\ j < i => j \in 1 .. n
        BY <2>1, <2>3, <2>4, <3>1
      <4> QED BY <1>2, <2>2, <2>3, <2>4, <2>5, <3>1, <4>1 DEF ToursSound
    <3>2. CASE i = n + 1
      <4>1. \A j \in DOMAIN down' : IsMap(j)' /\ j < i => j \in 1 .. n
        BY <2>1, <2>3, <2>4, <3>2
      <4> QED BY <1>2, <2>1, <2>2, <2>3, <2>4, <3>2, <4>1 DEF ToursSound
    <3> QED BY <2>1, <2>3, <2>5, <3>1, <3>2
  <2>6. \E i \in DOMAIN down' : IsMap(i)' /\ down'[i].tour = srv'.tour
    <3>1. n + 1 \in DOMAIN down' /\ down'[n + 1].cmd = "map" /\ down'[n + 1].tour = srv'.tour
      BY <2>1
    <3> QED BY <3>1 DEF IsMap
  <2> QED BY <1>1, <1>3, <1>4, <2>5, <2>6 DEF ToursSound
<1>6. CASE UNCHANGED down /\ srv'.tour = srv.tour
  BY <1>1, <1>3, <1>4, <1>6 DEF ToursSound, IsMap, IsAnswer
<1>7. ASSUME NEW c \in {"accepted", "refused", "spawn", "spectate"}, Tell(<<Note(c)>>),
             srv'.tour = srv.tour,
             c \in {"accepted", "refused"} => \A i \in DOMAIN down : ~IsMap(i)
      PROVE  ToursSound'
  <2> DEFINE n == Len(down)
  <2>1. /\ n \in Nat /\ DOMAIN down = 1 .. n /\ DOMAIN down' = 1 .. n + 1
        /\ \A i \in 1 .. n : down'[i] = down[i]
        /\ down'[n + 1].cmd = c
    BY <1>7, NoteSent
  <2> HIDE DEF n
  <2>2. \A i \in DOMAIN down' : i \in DOMAIN down \/ (i = n + 1 /\ ~IsMap(i)')
    BY <2>1 DEF IsMap
  <2>3. \A i \in DOMAIN down : i \in DOMAIN down' /\ (IsMap(i)' <=> IsMap(i)) /\ (IsAnswer(i)' <=> IsAnswer(i))
                               /\ down'[i] = down[i]
    BY <2>1 DEF IsMap, IsAnswer
  <2>4. ASSUME NEW j \in DOMAIN down', IsAnswer(j)'
        PROVE  (j \in DOMAIN down /\ IsAnswer(j)) \/ \A i \in DOMAIN down : ~IsMap(i)
    <3>1. CASE j = n + 1
      BY <1>7, <2>1, <2>4, <3>1 DEF IsAnswer
    <3>2. CASE j \in DOMAIN down
      BY <2>3, <2>4, <3>2
    <3> QED BY <2>2, <3>1, <3>2
  <2>5. ASSUME NEW i \in DOMAIN down', IsMap(i)'
        PROVE  /\ cli.tour < down'[i].tour /\ down'[i].tour <= srv'.tour
               /\ \A j \in DOMAIN down' : (IsMap(j)' /\ j < i) => down'[j].tour < down'[i].tour
               /\ \A j \in DOMAIN down' : IsAnswer(j)' => j < i
    <3>1. i \in DOMAIN down /\ IsMap(i)
      BY <2>2, <2>3, <2>5
    <3> QED BY <1>7, <2>2, <2>3, <2>4, <3>1 DEF ToursSound
  <2>6. cli.tour = srv.tour \/ \E i \in DOMAIN down' : IsMap(i)' /\ down'[i].tour = srv'.tour
    BY <1>7, <2>3 DEF ToursSound
  <2> QED BY <1>1, <1>3, <1>4, <1>7, <2>5, <2>6 DEF ToursSound
<1>8. CASE LetsIn
  <2>1. srv'.tour = srv.tour /\ (Tell(<<Note("spawn")>>) \/ UNCHANGED down)
    BY <1>8 DEF LetsIn
  <2> QED BY <1>6, <1>7, <2>1
<1>9. CASE Takes
  <2>1. /\ srv'.tour = srv.tour /\ up # << >> /\ up' = Tail(up) /\ Head(up).tour = srv.tour
        /\ UNCHANGED down \/ \E c \in {"accepted", "refused", "spectate"} : Tell(<<Note(c)>>)
    BY <1>9, Zenon DEF Takes
  <2>2. cli.tour = srv.tour
    <3>1. 1 \in DOMAIN up /\ Head(up) = up[1]
      BY <2>1, UpShifted
    <3> QED BY <1>2, <2>1, <3>1 DEF ToursSound
  <2>3. \A i \in DOMAIN down : ~IsMap(i)
    BY <2>2, MapsAhead
  <2> QED BY <1>6, <1>7, <2>1, <2>3
<1>10. CASE Rests \/ Drops
  BY <1>6, <1>10 DEF Rests, Drops
<1> QED BY <1>1, <1>5, <1>8, <1>9, <1>10

(* The player's step, as far as requests are concerned.                    *)
PlayerAsks(c) == out' = Append(out, Ask(c))
LEMMA PlayerStepIs ==
    ASSUME Typed, PlayerSteps
    PROVE  /\ UNCHANGED <<srv, down, up, idling, crossed>>
           /\ cli'.tour = cli.tour /\ cli'.joining = cli.joining /\ cli'.respawning = cli.respawning
           /\ \/ UNCHANGED out /\ cli'.choosing = cli.choosing
              \/ PlayerAsks("spectate") /\ cli'.choosing = cli.choosing
              \/ PlayerAsks("join") /\ cli'.choosing = FALSE /\ Top = "join"
<1>1. UNCHANGED <<srv, down, up, idling, crossed>>
  BY DEF PlayerSteps, Press, Release, OpenWindow, CloseChat, CloseOptions, SpectateClick, TeamClick, Input
<1>2. \/ UNCHANGED <<cli, out>>
      \/ UNCHANGED out /\ cli' = [cli EXCEPT !.writing = FALSE]
      \/ UNCHANGED cli /\ PlayerAsks("spectate")
      \/ Top = "join" /\ PlayerAsks("join") /\ cli' = [cli EXCEPT !.choosing = FALSE]
  BY DEF PlayerSteps, Press, Release, OpenWindow, CloseChat, CloseOptions, SpectateClick, TeamClick, PlayerAsks
<1> QED BY <1>1, <1>2 DEF Typed, Client

LEMMA AskedIs ==
    ASSUME Typed, NEW c \in {"join", "respawn", "spectate"}, PlayerAsks(c)
    PROVE  /\ Len(out) \in Nat /\ DOMAIN out = 1 .. Len(out) /\ DOMAIN out' = 1 .. Len(out) + 1
           /\ \A k \in 1 .. Len(out) : out'[k] = out[k]
           /\ out'[Len(out) + 1].cmd = c /\ out'[Len(out) + 1].tour = cli.tour
<1> DEFINE x == Ask(c)
<1>1. x \in Request /\ x.cmd = c /\ x.tour = cli.tour
  BY DEF Ask, Request, Typed, Client
<1>2. out' = Append(out, x) /\ out \in Seq(Request)
  BY DEF PlayerAsks, Typed
<1> HIDE DEF x
<1>3. /\ out' = out \o <<x>> /\ Len(out) \in Nat /\ DOMAIN out = 1 .. Len(out)
      /\ DOMAIN out' = 1 .. Len(out) + 1
      /\ \A k \in 1 .. Len(out) : out'[k] = out[k]
      /\ out'[Len(out) + 1] = x
  BY <1>1, <1>2, OneMore
<1> QED BY <1>1, <1>3

LEMMA ToursPlayer == ASSUME Typed, ToursSound, PlayerSteps PROVE ToursSound'
<1>1. UNCHANGED <<srv, down, up>> /\ cli'.tour = cli.tour
      /\ (UNCHANGED out \/ \E c \in {"join", "spectate"} : PlayerAsks(c))
  BY PlayerStepIs
<1>2. ASSUME NEW c \in {"join", "spectate"}, PlayerAsks(c)
      PROVE  \A k \in DOMAIN out' : out'[k].tour = cli'.tour /\ out'[k].cmd # "respawn"
  <2> DEFINE n == Len(out)
  <2>1. /\ n \in Nat /\ DOMAIN out = 1 .. n /\ DOMAIN out' = 1 .. n + 1
        /\ \A k \in 1 .. n : out'[k] = out[k]
        /\ out'[n + 1].cmd = c /\ out'[n + 1].tour = cli.tour
    BY <1>2, AskedIs
  <2> HIDE DEF n
  <2>2. \A k \in 1 .. n + 1 : k \in 1 .. n \/ k = n + 1
    BY <2>1
  <2> QED BY <1>1, <2>1, <2>2 DEF ToursSound
<1>3. \A k \in DOMAIN out' : out'[k].tour = cli'.tour /\ out'[k].cmd # "respawn"
  BY <1>1, <1>2 DEF ToursSound
<1> QED BY <1>1, <1>3 DEF ToursSound, IsMap, IsAnswer

(* What a frame of the client sends: its tournament's responses, and a     *)
(* request of its own.                                                     *)
LEMMA SentIs ==
    ASSUME Typed
    PROVE  /\ DOMAIN (up \o out) = 1 .. Len(up) + Len(out)
           /\ \A k \in 1 .. Len(up) : (up \o out)[k] = up[k]
           /\ \A k \in 1 .. Len(out) : (up \o out)[Len(up) + k] = out[k]
           /\ \A x \in Request :
                LET s == (up \o out) \o <<x>>
                IN  /\ DOMAIN s = 1 .. Len(up) + Len(out) + 1
                    /\ \A k \in 1 .. Len(up) : s[k] = up[k]
                    /\ \A k \in 1 .. Len(out) : s[Len(up) + k] = out[k]
                    /\ s[Len(up) + Len(out) + 1] = x
<1> DEFINE n == Len(up)
           o == Len(out)
           t == up \o out
<1>1. n \in Nat /\ o \in Nat /\ up \in Seq(Request) /\ out \in Seq(Request)
  BY RequestIs DEF Typed
<1>2. /\ t \in Seq(Request) /\ Len(t) = n + o /\ DOMAIN t = 1 .. n + o
      /\ \A k \in 1 .. n : t[k] = up[k]
      /\ \A k \in 1 .. o : t[n + k] = out[k]
  BY <1>1, ConcatIs
<1> HIDE DEF n, o, t
<1>3. ASSUME NEW x \in Request
      PROVE  /\ DOMAIN (t \o <<x>>) = 1 .. n + o + 1
             /\ \A k \in 1 .. n : (t \o <<x>>)[k] = up[k]
             /\ \A k \in 1 .. o : (t \o <<x>>)[n + k] = out[k]
             /\ (t \o <<x>>)[n + o + 1] = x
  <2>1. /\ DOMAIN (t \o <<x>>) = 1 .. n + o + 1 /\ (t \o <<x>>)[n + o + 1] = x
        /\ \A k \in 1 .. n + o : (t \o <<x>>)[k] = t[k]
    BY <1>2, OneMore
  <2>2. (\A k \in 1 .. n : k \in 1 .. n + o) /\ (\A k \in 1 .. o : n + k \in 1 .. n + o)
    BY <1>1
  <2> QED BY <1>2, <2>1, <2>2
<1> QED BY <1>2, <1>3 DEF n, o, t

(* The same, with the request told apart.                                  *)
Sends(c) ==
    LET n == Len(up)
        o == Len(out)
    IN  /\ n \in Nat /\ o \in Nat /\ DOMAIN up = 1 .. n /\ DOMAIN out = 1 .. o
        /\ \A k \in 1 .. n : k \in DOMAIN up' /\ up'[k] = up[k]
        /\ \A k \in 1 .. o : n + k \in DOMAIN up' /\ up'[n + k] = out[k]
        /\ \A k \in DOMAIN up' : \/ k \in 1 .. n
                                 \/ k - n \in 1 .. o /\ k = n + (k - n)
                                 \/ c # "none" /\ k = n + o + 1
        /\ c # "none" => /\ n + o + 1 \in DOMAIN up'
                         /\ up'[n + o + 1].cmd = c /\ up'[n + o + 1].tour = cli.tour
FrameSends(c, joining, respawning, choosing) ==
    Sends(c) /\ cli'.joining = joining /\ cli'.respawning = respawning /\ cli'.choosing = choosing

LEMMA FrameSendsIs ==
    ASSUME Typed, WindowsSound, PlayFrame
    PROVE  \/ FrameSends("none", cli.joining, cli.respawning, cli.choosing)
           \/ ~cli.joining /\ FrameSends("none", TRUE, cli.respawning, TRUE)
           \/ ~cli.joining /\ FrameSends("join", TRUE, cli.respawning, FALSE)
           \/ FrameSends("respawn", cli.joining, TRUE, cli.choosing)
<1> DEFINE n == Len(up)
           o == Len(out)
           t == up \o out
<1>1. n \in Nat /\ o \in Nat /\ DOMAIN up = 1 .. n /\ DOMAIN out = 1 .. o
  BY RequestIs
<1>2. /\ DOMAIN t = 1 .. n + o
      /\ \A k \in 1 .. n : t[k] = up[k]
      /\ \A k \in 1 .. o : t[n + k] = out[k]
  BY SentIs
<1>3. ASSUME NEW x \in Request
      PROVE  /\ DOMAIN (t \o <<x>>) = 1 .. n + o + 1
             /\ \A k \in 1 .. n : (t \o <<x>>)[k] = up[k]
             /\ \A k \in 1 .. o : (t \o <<x>>)[n + k] = out[k]
             /\ (t \o <<x>>)[n + o + 1] = x
  BY SentIs
<1>4. FrameJoins \/ FrameRespawns \/ FrameRests
  BY FrameIs
<1>5. t \o << >> = t
  <2>1. t \in Seq(Request)
    BY ConcatProperties DEF Typed
  <2> QED BY <2>1, ConcatEmptySeq
<1>6. /\ up' = t => Sends("none")
      /\ \A c \in {"join", "respawn"} : up' = t \o <<[cmd |-> c, tour |-> cli.tour]>> => Sends(c)
  <2>0. /\ \A k \in 1 .. n + o : k \in 1 .. n \/ (k - n \in 1 .. o /\ k = n + (k - n))
        /\ \A k \in 1 .. n + o + 1 : k \in 1 .. n + o \/ k = n + o + 1
        /\ \A k \in 1 .. n : k \in 1 .. n + o /\ k \in 1 .. n + o + 1
        /\ \A k \in 1 .. o : n + k \in 1 .. n + o /\ n + k \in 1 .. n + o + 1
        /\ n + o + 1 \in 1 .. n + o + 1
    <3> HIDE DEF n, o
    <3> QED BY <1>1
  <2>1. ASSUME up' = t PROVE Sends("none")
    <3>1. DOMAIN up' = 1 .. n + o
      BY <1>2, <2>1
    <3>2. \A k \in 1 .. n : k \in DOMAIN up' /\ up'[k] = up[k]
      BY <1>2, <2>0, <2>1, <3>1
    <3>3. \A k \in 1 .. o : n + k \in DOMAIN up' /\ up'[n + k] = out[k]
      BY <1>2, <2>0, <2>1, <3>1
    <3>4. \A k \in DOMAIN up' : k \in 1 .. n \/ (k - n \in 1 .. o /\ k = n + (k - n))
      BY <2>0, <3>1
    <3> QED BY <1>1, <3>2, <3>3, <3>4 DEF Sends
  <2>2. ASSUME NEW c \in {"join", "respawn"}, up' = t \o <<[cmd |-> c, tour |-> cli.tour]>>
        PROVE  Sends(c)
    <3> DEFINE x == [cmd |-> c, tour |-> cli.tour]
    <3>0. x \in Request /\ x.cmd = c /\ x.tour = cli.tour
      BY DEF Request, Typed, Client
    <3>9. up' = t \o <<x>>
      BY <2>2
    <3> HIDE DEF x, t
    <3>1. /\ DOMAIN up' = 1 .. n + o + 1 /\ up'[n + o + 1] = x
          /\ \A k \in 1 .. n : up'[k] = up[k]
          /\ \A k \in 1 .. o : up'[n + k] = out[k]
      BY <1>3, <3>0, <3>9
    <3>2. \A k \in 1 .. n : k \in DOMAIN up' /\ up'[k] = up[k]
      BY <2>0, <3>1
    <3>3. \A k \in 1 .. o : n + k \in DOMAIN up' /\ up'[n + k] = out[k]
      BY <2>0, <3>1
    <3>4. \A k \in DOMAIN up' : k \in 1 .. n \/ (k - n \in 1 .. o /\ k = n + (k - n)) \/ k = n + o + 1
      BY <2>0, <3>1
    <3>5. n + o + 1 \in DOMAIN up' /\ up'[n + o + 1].cmd = c /\ up'[n + o + 1].tour = cli.tour
      BY <2>0, <3>0, <3>1
    <3> QED BY <1>1, <3>2, <3>3, <3>4, <3>5 DEF Sends
  <2> QED BY <2>1, <2>2
<1> HIDE DEF t
<1>7. CASE FrameRests
  <2>1. up' = t /\ cli'.joining = cli.joining /\ cli'.respawning = cli.respawning
        /\ cli'.choosing = cli.choosing
    BY <1>7 DEF FrameRests, t
  <2> QED BY <1>6, <2>1 DEF FrameSends
<1>8. CASE FrameRespawns
  <2>1. /\ up' = t \o <<[cmd |-> "respawn", tour |-> cli.tour]>> /\ cli'.joining = cli.joining
        /\ cli'.respawning = TRUE /\ cli'.choosing = cli.choosing
    BY <1>8 DEF FrameRespawns, t, Ask
  <2> QED BY <1>6, <2>1 DEF FrameSends
<1>9. CASE FrameJoins
  <2>1. /\ up' = t \o JoinAsk(cli) /\ cli'.joining = TRUE /\ ~cli.joining
        /\ cli'.respawning = cli.respawning /\ cli'.choosing = cli.team
    BY <1>9 DEF FrameJoins, WantsToJoin, t
  <2>2. CASE cli.team = TRUE
    <3>1. up' = t
      BY <1>5, <2>1, <2>2 DEF JoinAsk
    <3> QED BY <1>6, <2>1, <2>2, <3>1 DEF FrameSends
  <2>3. CASE cli.team = FALSE
    <3>1. up' = t \o <<[cmd |-> "join", tour |-> cli.tour]>>
      BY <2>1, <2>3 DEF JoinAsk
    <3> QED BY <1>6, <2>1, <2>3, <3>1 DEF FrameSends
  <2> QED BY <2>2, <2>3 DEF Typed, Client
<1> QED BY <1>4, <1>7, <1>8, <1>9

LEMMA ToursClient == ASSUME Typed, WindowsSound, ToursSound, ClientSteps PROVE ToursSound'
<1>1. /\ cli.tour \in 1 .. MaxTours /\ srv.tour \in 1 .. MaxTours /\ cli.tour <= srv.tour
      /\ \A i \in DOMAIN down : i \in Nat /\ (IsMap(i) => down[i].tour \in 1 .. MaxTours)
  BY MapsAhead
<1>2. ASSUME ClientTakes PROVE ToursSound'
  <2> DEFINE m == down[1]
  <2>1. /\ down # << >> /\ down' = Tail(down) /\ UNCHANGED <<srv, up>>
        /\ m \in DownMessage /\ Handled(m)
    BY <1>2, ClientTakesIs
  <2>2. /\ \A i \in DOMAIN down' : i \in Nat /\ i >= 1 /\ i + 1 \in DOMAIN down /\ down'[i] = down[i + 1]
        /\ \A i \in DOMAIN down : i \in Nat /\ (i = 1 \/ (i > 1 /\ i - 1 \in DOMAIN down' /\ down'[i - 1] = down[i]))
        /\ 1 \in DOMAIN down
    BY <2>1, Shifted
  <2>3. \A i \in DOMAIN down' : (IsMap(i)' <=> IsMap(i + 1)) /\ (IsAnswer(i)' <=> IsAnswer(i + 1))
    BY <2>2 DEF IsMap, IsAnswer
  <2>4. m.cmd = "map" <=> IsMap(1)
    BY DEF IsMap
  <2>5. ASSUME NEW i \in DOMAIN down', IsMap(i)'
        PROVE  /\ cli'.tour < down'[i].tour /\ down'[i].tour <= srv'.tour
               /\ \A j \in DOMAIN down' : (IsMap(j)' /\ j < i) => down'[j].tour < down'[i].tour
               /\ \A j \in DOMAIN down' : IsAnswer(j)' => j < i
    <3>1. /\ i + 1 \in DOMAIN down /\ IsMap(i + 1) /\ down'[i] = down[i + 1] /\ i \in Nat /\ 1 < i + 1
      BY <2>2, <2>3, <2>5
    <3>2. cli.tour < down[i + 1].tour /\ down[i + 1].tour <= srv.tour
      BY <3>1 DEF ToursSound
    <3>3. cli'.tour < down'[i].tour
      <4>1. CASE m.cmd = "map"
        <5>1. cli'.tour = down[1].tour
          BY <2>1, <4>1 DEF Handled, MapTaken
        <5>2. down[1].tour < down[i + 1].tour
          BY <2>2, <2>4, <3>1, <4>1 DEF ToursSound
        <5> QED BY <3>1, <5>1, <5>2
      <4>2. CASE m.cmd # "map"
        <5>1. cli'.tour = cli.tour
          BY <2>1, <4>2 DEF Handled, Rejoins
        <5> QED BY <3>1, <3>2, <5>1
      <4> QED BY <4>1, <4>2
    <3>4. \A j \in DOMAIN down' : (IsMap(j)' /\ j < i) => down'[j].tour < down'[i].tour
      <4>1. ASSUME NEW j \in DOMAIN down', IsMap(j)', j < i PROVE down'[j].tour < down'[i].tour
        <5>1. j + 1 \in DOMAIN down /\ IsMap(j + 1) /\ down'[j] = down[j + 1] /\ j + 1 < i + 1
          BY <2>2, <2>3, <3>1, <4>1
        <5> QED BY <3>1, <5>1 DEF ToursSound
      <4> QED BY <4>1
    <3>5. \A j \in DOMAIN down' : IsAnswer(j)' => j < i
      <4>1. ASSUME NEW j \in DOMAIN down', IsAnswer(j)' PROVE j < i
        <5>1. j + 1 \in DOMAIN down /\ IsAnswer(j + 1) /\ j \in Nat
          BY <2>2, <2>3, <4>1
        <5>2. j + 1 < i + 1
          BY <3>1, <5>1 DEF ToursSound
        <5> QED BY <3>1, <5>1, <5>2
      <4> QED BY <4>1
    <3> QED BY <2>1, <3>1, <3>2, <3>3, <3>4, <3>5
  <2>6. CASE m.cmd = "map"
    <3>1. cli'.tour = m.tour /\ out' = << >> /\ cli.tour < m.tour /\ m.tour \in 1 .. MaxTours
      BY <1>1, <2>1, <2>2, <2>4, <2>6 DEF Handled, MapTaken, ToursSound
    <3>2. \A k \in DOMAIN up' : up'[k].tour <= cli'.tour
      <4>1. \A k \in DOMAIN up : up[k].tour \in 1 .. MaxTours /\ up[k].tour <= cli.tour
        BY RequestIs DEF ToursSound
      <4> QED BY <1>1, <2>1, <3>1, <4>1
    <3>3. cli'.tour = srv'.tour \/ \E i \in DOMAIN down' : IsMap(i)' /\ down'[i].tour = srv'.tour
      <4>1. cli.tour # srv.tour
        <5>1. m.tour <= srv.tour
          BY <2>2, <2>4, <2>6 DEF ToursSound
        <5> QED BY <1>1, <3>1, <5>1
      <4>2. PICK i \in DOMAIN down : IsMap(i) /\ down[i].tour = srv.tour
        BY <4>1 DEF ToursSound
      <4>3. CASE i = 1
        BY <2>1, <3>1, <4>2, <4>3
      <4>4. CASE i # 1
        <5>1. i - 1 \in DOMAIN down' /\ down'[i - 1] = down[i]
          BY <2>2, <4>4
        <5> QED BY <2>1, <4>2, <5>1 DEF IsMap
      <4> QED BY <4>3, <4>4
    <3>4. \A k \in DOMAIN out' : FALSE
      BY <3>1
    <3> QED BY <2>5, <3>2, <3>3, <3>4 DEF ToursSound
  <2>7. CASE m.cmd # "map"
    <3>1. cli'.tour = cli.tour /\ out' = out
      BY <2>1, <2>7 DEF Handled, Rejoins
    <3>2. cli'.tour = srv'.tour \/ \E i \in DOMAIN down' : IsMap(i)' /\ down'[i].tour = srv'.tour
      <4>1. CASE cli.tour = srv.tour
        BY <2>1, <3>1, <4>1
      <4>2. CASE cli.tour # srv.tour
        <5>1. PICK i \in DOMAIN down : IsMap(i) /\ down[i].tour = srv.tour
          BY <4>2 DEF ToursSound
        <5>2. i # 1
          BY <2>4, <2>7, <5>1
        <5>3. i - 1 \in DOMAIN down' /\ down'[i - 1] = down[i]
          BY <2>2, <5>2
        <5> QED BY <2>1, <5>1, <5>3 DEF IsMap
      <4> QED BY <4>1, <4>2
    <3>3. /\ \A k \in DOMAIN out' : out'[k].tour = cli'.tour /\ out'[k].cmd # "respawn"
          /\ \A k \in DOMAIN up' : up'[k].tour <= cli'.tour
      BY <2>1, <3>1 DEF ToursSound
    <3> QED BY <2>5, <3>2, <3>3 DEF ToursSound
  <2> QED BY <2>6, <2>7
<1>3. ASSUME UpdatePlayerState PROVE ToursSound'
  <2>1. UNCHANGED <<srv, down, up, out>> /\ cli'.tour = cli.tour
    BY <1>3 DEF UpdatePlayerState, Typed, Client
  <2> QED BY <2>1 DEF ToursSound, IsMap, IsAnswer
<1>4. ASSUME PlayFrame PROVE ToursSound'
  <2>1. /\ cli'.tour = cli.tour /\ out' = << >> /\ UNCHANGED <<srv, down>>
    BY <1>4, FrameIs
  <2>2. \E c \in {"none", "join", "respawn"} : Sends(c)
    BY <1>4, FrameSendsIs DEF FrameSends
  <2>3. \A k \in DOMAIN up' : up'[k].tour <= cli'.tour
    BY <1>1, <2>1, <2>2 DEF Sends, ToursSound
  <2>4. \A k \in DOMAIN out' : FALSE
    BY <2>1
  <2> QED BY <2>1, <2>3, <2>4 DEF ToursSound, IsMap, IsAnswer
<1> QED BY <1>2, <1>3, <1>4 DEF ClientSteps

-----------------------------------------------------------------------------
(* One request to join, or one answer.                                     *)
LEMMA AsksServer == ASSUME Typed, ToursSound, AsksSound, ServerSteps PROVE AsksSound'
<1>1. /\ srv' \in Server /\ UNCHANGED <<cli, out>>
      /\ SendsMap \/ Rests \/ LetsIn \/ Drops \/ Takes
  BY ServerMoves
<1>2. OutAsks' = OutAsks
  BY <1>1 DEF OutAsks
<1>3. ASSUME Answers' = Answers, One(UpAsks'), UpAsks = {} => UpAsks' = {} PROVE AsksSound'
  BY <1>1, <1>2, <1>3 DEF AsksSound, One
<1>4. up' = up => One(UpAsks') /\ (UpAsks = {} => UpAsks' = {})
  BY <1>1 DEF UpAsks, AsksSound
<1>5. ASSUME up # << >>, up' = Tail(up)
      PROVE  /\ One(UpAsks') /\ (UpAsks = {} => UpAsks' = {})
             /\ 1 \in UpAsks => UpAsks' = {}
  <2>1. /\ \A k \in DOMAIN up' : k \in Nat /\ k + 1 \in DOMAIN up /\ up'[k] = up[k + 1]
        /\ \A k \in DOMAIN up : k \in Nat
    BY <1>5, UpShifted
  <2>2. \A k \in UpAsks' : k \in Nat /\ k + 1 \in UpAsks
    BY <1>1, <2>1 DEF UpAsks
  <2>3. \A i, j \in UpAsks : i = j
    BY DEF AsksSound, One
  <2>4. \A i, j \in UpAsks' : i = j
    <3>1. SUFFICES ASSUME NEW i \in UpAsks', NEW j \in UpAsks' PROVE i = j
      OBVIOUS
    <3>2. i + 1 = j + 1 /\ i \in Nat /\ j \in Nat
      BY <2>2, <2>3
    <3> QED BY <3>2
  <2>5. ASSUME 1 \in UpAsks PROVE UpAsks' = {}
    <3>1. ASSUME NEW i \in UpAsks' PROVE FALSE
      <4>1. i \in Nat /\ i + 1 = 1 /\ i + 1 \in UpAsks
        BY <2>2, <2>3, <2>5
      <4>2. i = 0 /\ i \in DOMAIN up'
        BY <4>1 DEF UpAsks
      <4>3. DOMAIN up' = 1 .. Len(up) - 1
        BY <1>5, TailIs DEF Typed
      <4> QED BY <4>2, <4>3
    <3> QED BY <3>1
  <2> QED BY <2>2, <2>4, <2>5 DEF One
<1>6. UNCHANGED down => Answers' = Answers
  BY DEF Answers, IsAnswer
<1>7. ASSUME NEW c \in {"spawn", "spectate"}, Tell(<<Note(c)>>) PROVE Answers' = Answers
  <2> DEFINE n == Len(down)
  <2>1. /\ n \in Nat /\ DOMAIN down = 1 .. n /\ DOMAIN down' = 1 .. n + 1
        /\ \A i \in 1 .. n : down'[i] = down[i]
        /\ down'[n + 1].cmd = c
    BY <1>7, NoteSent
  <2> HIDE DEF n
  <2>2. \A i \in DOMAIN down' : i \in DOMAIN down \/ i = n + 1
    BY <2>1
  <2>3. \A i : i \in Answers' <=> i \in Answers
    BY <2>1, <2>2 DEF Answers, IsAnswer
  <2> QED BY <2>3
<1>8. ASSUME NEW c \in {"accepted", "refused"}, Tell(<<Note(c)>>), Answers = {}
      PROVE  One(Answers')
  <2> DEFINE n == Len(down)
  <2>1. /\ n \in Nat /\ DOMAIN down = 1 .. n /\ DOMAIN down' = 1 .. n + 1
        /\ \A i \in 1 .. n : down'[i] = down[i]
        /\ down'[n + 1].cmd = c
    BY <1>8, NoteSent
  <2> HIDE DEF n
  <2>2. \A i \in DOMAIN down' : i \in DOMAIN down \/ i = n + 1
    BY <2>1
  <2>3. \A i \in Answers' : i = n + 1
    BY <1>8, <2>1, <2>2 DEF Answers, IsAnswer
  <2> QED BY <2>3 DEF One
<1>9. CASE SendsMap
  <2> DEFINE n == Len(down)
  <2>1. /\ n \in Nat /\ DOMAIN down = 1 .. n /\ DOMAIN down' = 1 .. n + 3
        /\ \A i \in 1 .. n : down'[i] = down[i]
        /\ down'[n + 1].cmd = "map" /\ down'[n + 2].cmd = "reset" /\ down'[n + 3].cmd = "ready"
    BY <1>1, <1>9, MapSent
  <2> HIDE DEF n
  <2>2. \A i \in DOMAIN down' : i \in DOMAIN down \/ i = n + 1 \/ i = n + 2 \/ i = n + 3
    BY <2>1
  <2>3. \A i : i \in Answers' <=> i \in Answers
    BY <2>1, <2>2 DEF Answers, IsAnswer
  <2>4. up' = up
    BY <1>9 DEF SendsMap
  <2> QED BY <1>3, <1>4, <2>3, <2>4
<1>10. CASE LetsIn
  <2>1. up' = up /\ (Tell(<<Note("spawn")>>) \/ UNCHANGED down)
    BY <1>10 DEF LetsIn
  <2> QED BY <1>3, <1>4, <1>6, <1>7, <2>1
<1>11. CASE Rests \/ Drops
  <2>1. UNCHANGED down /\ (up' = up \/ (up # << >> /\ up' = Tail(up)))
    BY <1>11 DEF Rests, Drops
  <2> QED BY <1>3, <1>4, <1>5, <1>6, <2>1
<1>12. CASE Takes
  <2>1. /\ up # << >> /\ up' = Tail(up) /\ Head(up).tour = srv.tour
        /\ \/ UNCHANGED down
           \/ Tell(<<Note("spectate")>>)
           \/ Head(up).cmd = "join" /\ \E c \in {"accepted", "refused"} : Tell(<<Note(c)>>)
    BY <1>12, Zenon DEF Takes
  <2>2. CASE UNCHANGED down \/ Tell(<<Note("spectate")>>)
    BY <1>3, <1>5, <1>6, <1>7, <2>1, <2>2
  <2>3. ASSUME Head(up).cmd = "join", NEW c \in {"accepted", "refused"}, Tell(<<Note(c)>>)
        PROVE  AsksSound'
    <3>1. cli.tour = srv.tour /\ 1 \in DOMAIN up /\ Head(up) = up[1]
      <4>1. 1 \in DOMAIN up /\ Head(up) = up[1]
        BY <2>1, UpShifted
      <4>2. cli.tour <= srv.tour /\ cli.tour \in Nat /\ srv.tour \in Nat
        BY MapsAhead, ClientPlayAssumption
      <4> QED BY <2>1, <4>1, <4>2 DEF ToursSound
    <3>2. 1 \in UpAsks
      BY <2>1, <2>3, <3>1 DEF UpAsks
    <3>3. UpAsks' = {} /\ OutAsks = {} /\ Answers = {} /\ cli.joining /\ ~cli.choosing
      BY <1>5, <2>1, <3>2 DEF AsksSound
    <3>4. One(Answers')
      BY <1>8, <2>3, <3>3
    <3> QED BY <1>1, <1>2, <3>3, <3>4 DEF AsksSound, One
  <2> QED BY <2>1, <2>2, <2>3
<1> QED BY <1>1, <1>9, <1>10, <1>11, <1>12

LEMMA AsksPlayer == ASSUME Typed, WindowsSound, AsksSound, PlayerSteps PROVE AsksSound'
<1>1. /\ UNCHANGED <<srv, down, up>> /\ cli'.tour = cli.tour /\ cli'.joining = cli.joining
      /\ \/ UNCHANGED out /\ cli'.choosing = cli.choosing
         \/ PlayerAsks("spectate") /\ cli'.choosing = cli.choosing
         \/ PlayerAsks("join") /\ cli'.choosing = FALSE /\ Top = "join"
  BY PlayerStepIs
<1>2. UpAsks' = UpAsks /\ Answers' = Answers
  BY <1>1 DEF UpAsks, Answers, IsAnswer
<1>3. ASSUME NEW c \in {"spectate", "join"}, PlayerAsks(c)
      PROVE  /\ c = "spectate" => OutAsks' = OutAsks
             /\ OutAsks = {} => One(OutAsks')
  <2> DEFINE n == Len(out)
  <2>1. /\ n \in Nat /\ DOMAIN out = 1 .. n /\ DOMAIN out' = 1 .. n + 1
        /\ \A k \in 1 .. n : out'[k] = out[k]
        /\ out'[n + 1].cmd = c
    BY <1>3, AskedIs
  <2> HIDE DEF n
  <2>2. \A k \in DOMAIN out' : k \in DOMAIN out \/ k = n + 1
    BY <2>1
  <2>3. \A k \in OutAsks' : k \in OutAsks \/ (k = n + 1 /\ c = "join")
    BY <1>1, <2>1, <2>2 DEF OutAsks
  <2>4. \A k \in OutAsks : k \in OutAsks'
    BY <1>1, <2>1 DEF OutAsks
  <2> QED BY <2>3, <2>4 DEF One
<1>4. CASE UNCHANGED out /\ cli'.choosing = cli.choosing
  <2>1. OutAsks' = OutAsks
    BY <1>1, <1>4 DEF OutAsks
  <2> QED BY <1>1, <1>2, <1>4, <2>1 DEF AsksSound, One
<1>5. CASE PlayerAsks("spectate") /\ cli'.choosing = cli.choosing
  <2>1. OutAsks' = OutAsks
    BY <1>3, <1>5
  <2> QED BY <1>1, <1>2, <1>5, <2>1 DEF AsksSound, One
<1>6. CASE PlayerAsks("join") /\ cli'.choosing = FALSE /\ Top = "join"
  <2>1. cli.choosing /\ cli.joining
    <3>1. Len(wins) \in DOMAIN wins /\ wins[Len(wins)].kind = "join"
      BY <1>6, TopIs
    <3> QED BY <3>1 DEF WindowsSound
  <2>2. OutAsks = {} /\ UpAsks = {} /\ Answers = {}
    BY <2>1 DEF AsksSound
  <2>3. One(OutAsks')
    BY <1>3, <1>6, <2>2
  <2> QED BY <1>1, <1>2, <1>6, <2>1, <2>2, <2>3 DEF AsksSound, One
<1> QED BY <1>1, <1>4, <1>5, <1>6

LEMMA AsksClient ==
    ASSUME Typed, WindowsSound, ToursSound, AsksSound, ClientSteps PROVE AsksSound'
<1>1. ASSUME ClientTakes PROVE AsksSound'
  <2> DEFINE m == down[1]
  <2>1. /\ down # << >> /\ down' = Tail(down) /\ UNCHANGED <<srv, up>>
        /\ m \in DownMessage /\ Handled(m)
    BY <1>1, ClientTakesIs
  <2>2. /\ \A i \in DOMAIN down' : i \in Nat /\ i >= 1 /\ i + 1 \in DOMAIN down /\ down'[i] = down[i + 1]
        /\ 1 \in DOMAIN down
    BY <2>1, Shifted
  <2>3. \A i \in Answers' : i \in Nat /\ i >= 1 /\ i + 1 \in Answers
    BY <2>2 DEF Answers, IsAnswer
  <2>4. One(Answers')
    <3>1. SUFFICES ASSUME NEW i \in Answers', NEW j \in Answers' PROVE i = j
      BY DEF One
    <3>2. i + 1 = j + 1 /\ i \in Nat /\ j \in Nat
      BY <2>3 DEF AsksSound, One
    <3> QED BY <3>2
  <2>5. Answers = {} => Answers' = {}
    BY <2>3
  <2>6. CASE m.cmd = "map"
    <3>1. cli'.tour = m.tour /\ out' = << >>
      BY <2>1, <2>6 DEF Handled, MapTaken
    <3>2. Answers = {}
      <4>1. ASSUME NEW j \in Answers PROVE FALSE
        <5>1. j < 1 /\ j \in DOMAIN down
          BY <2>2, <2>6, <4>1 DEF ToursSound, IsMap, Answers
        <5>2. j \in Nat /\ j >= 1
          <6>1. DOMAIN down = 1 .. Len(down)
            BY LenProperties DEF Typed
          <6> QED BY <5>1, <6>1
        <5> QED BY <5>1, <5>2
      <4> QED BY <4>1
    <3>3. OutAsks' = {}
      BY <3>1 DEF OutAsks
    <3>4. UpAsks' = {}
      <4>1. \A k \in DOMAIN up : up[k].tour \in 1 .. MaxTours /\ up[k].tour <= cli.tour
        BY RequestIs DEF ToursSound
      <4>2. cli.tour < m.tour
        BY <2>2, <2>6 DEF ToursSound, IsMap
      <4>3. cli.tour \in 1 .. MaxTours /\ m.tour \in 1 .. MaxTours
        BY <2>1, <2>6 DEF Typed, Client, DownMessage
      <4>4. \A k \in DOMAIN up' : up'[k].tour # cli'.tour
        BY <2>1, <3>1, <4>1, <4>2, <4>3
      <4> QED BY <4>4 DEF UpAsks
    <3> QED BY <2>4, <2>5, <3>2, <3>3, <3>4 DEF AsksSound, One
  <2>7. CASE m.cmd # "map"
    <3>1. cli'.tour = cli.tour /\ out' = out /\ cli'.choosing = cli.choosing
      BY <2>1, <2>7 DEF Handled, Rejoins
    <3>2. OutAsks' = OutAsks /\ UpAsks' = UpAsks
      BY <2>1, <3>1 DEF OutAsks, UpAsks
    <3>3. CASE m.cmd \in {"accepted", "refused"}
      <4>1. 1 \in Answers
        BY <2>2, <3>3 DEF Answers, IsAnswer
      <4>2. OutAsks = {} /\ UpAsks = {}
        BY <4>1 DEF AsksSound
      <4>3. Answers' = {}
        <5>1. ASSUME NEW i \in Answers' PROVE FALSE
          <6>1. i \in Nat /\ i >= 1 /\ i + 1 = 1
            BY <2>3, <4>1 DEF AsksSound, One
          <6> QED BY <6>1
        <5> QED BY <5>1
      <4> QED BY <3>2, <4>2, <4>3 DEF AsksSound, One
    <3>4. CASE m.cmd \notin {"accepted", "refused"}
      <4>1. cli'.joining = cli.joining
        BY <2>1, <2>7, <3>4 DEF Handled, Rejoins
      <4> QED BY <2>4, <2>5, <3>1, <3>2, <4>1 DEF AsksSound
    <3> QED BY <3>3, <3>4
  <2> QED BY <2>6, <2>7
<1>2. ASSUME UpdatePlayerState PROVE AsksSound'
  <2>1. /\ UNCHANGED <<down, up, out>> /\ cli'.tour = cli.tour /\ cli'.joining = cli.joining
        /\ cli'.choosing = cli.choosing
    BY <1>2 DEF UpdatePlayerState, Typed, Client
  <2>2. OutAsks' = OutAsks /\ UpAsks' = UpAsks /\ Answers' = Answers
    BY <2>1 DEF OutAsks, UpAsks, Answers, IsAnswer
  <2> QED BY <2>1, <2>2 DEF AsksSound, One
<1>3. ASSUME PlayFrame PROVE AsksSound'
  <2> DEFINE n == Len(up)
             o == Len(out)
  <2>1. /\ cli'.tour = cli.tour /\ out' = << >> /\ UNCHANGED down
    BY <1>3, FrameIs
  <2>2. OutAsks' = {} /\ Answers' = Answers
    BY <2>1 DEF OutAsks, Answers, IsAnswer
  <2>3. ASSUME NEW c \in {"none", "join", "respawn"}, Sends(c)
        PROVE  \A k \in UpAsks' : \/ k \in UpAsks
                                  \/ k - n \in OutAsks /\ k = n + (k - n)
                                  \/ c = "join" /\ k = n + o + 1
    BY <2>1, <2>3 DEF Sends, UpAsks, OutAsks
  <2>4. ASSUME NEW c \in {"none", "respawn"}, Sends(c)
        PROVE  One(UpAsks') /\ (UpAsks = {} /\ OutAsks = {} => UpAsks' = {})
    <3>1. \A k \in UpAsks' : k \in UpAsks \/ (k - n \in OutAsks /\ k = n + (k - n))
      BY <2>3, <2>4
    <3> HIDE DEF n
    <3> QED BY <3>1 DEF AsksSound, One
  <2>5. ASSUME NEW c \in {"none", "respawn"}, Sends(c),
               cli'.joining = cli.joining, cli'.choosing = cli.choosing
        PROVE  AsksSound'
    BY <2>2, <2>4, <2>5 DEF AsksSound, One
  <2>6. ASSUME ~cli.joining, Sends("none") PROVE AsksSound'
    BY <2>2, <2>4, <2>6 DEF AsksSound, One
  <2>7. ASSUME ~cli.joining, Sends("join"), cli'.joining = TRUE, cli'.choosing = FALSE PROVE AsksSound'
    <3>1. UpAsks = {} /\ OutAsks = {} /\ Answers = {}
      BY <2>7 DEF AsksSound
    <3>2. \A k \in UpAsks' : k = n + o + 1
      BY <2>3, <2>7, <3>1
    <3> HIDE DEF n, o
    <3>3. One(UpAsks')
      BY <3>2 DEF One
    <3> QED BY <2>2, <2>7, <3>1, <3>3 DEF AsksSound, One
  <2> QED BY <1>3, <2>5, <2>6, <2>7, FrameSendsIs DEF FrameSends
<1> QED BY <1>1, <1>2, <1>3 DEF ClientSteps

-----------------------------------------------------------------------------
(* No request is lost.                                                     *)
SpawnIn == \E k \in DOMAIN down : down[k].cmd = "spawn"
AnswerIn == \E k \in DOMAIN down : IsAnswer(k)

LEMMA MoreInDown ==
    ASSUME Typed, srv' \in Server,
           \/ SendsMap \/ UNCHANGED down
           \/ \E c \in {"accepted", "refused", "spawn", "spectate"} : Tell(<<Note(c)>>)
    PROVE  (SpawnIn => SpawnIn') /\ (AnswerIn => AnswerIn')
<1>1. \A k \in DOMAIN down : k \in DOMAIN down' /\ down'[k] = down[k]
  <2>1. CASE SendsMap
    <3>1. \A n \in Nat : \A i \in 1 .. n : i \in 1 .. n + 3
      OBVIOUS
    <3> QED BY <2>1, <3>1, MapSent
  <2>2. ASSUME NEW c \in {"accepted", "refused", "spawn", "spectate"}, Tell(<<Note(c)>>)
        PROVE  \A k \in DOMAIN down : k \in DOMAIN down' /\ down'[k] = down[k]
    <3>1. \A n \in Nat : \A i \in 1 .. n : i \in 1 .. n + 1
      OBVIOUS
    <3> QED BY <2>2, <3>1, NoteSent
  <2> QED BY <2>1, <2>2
<1> QED BY <1>1 DEF SpawnIn, AnswerIn, IsAnswer

LEMMA SaidInDown ==
    ASSUME Typed, NEW c \in {"accepted", "refused", "spawn", "spectate"}, Tell(<<Note(c)>>)
    PROVE  \E k \in DOMAIN down' : down'[k].cmd = c
<1> DEFINE n == Len(down)
<1>1. n \in Nat /\ DOMAIN down' = 1 .. n + 1 /\ down'[n + 1].cmd = c
  BY NoteSent
<1> HIDE DEF n
<1>2. n + 1 \in DOMAIN down'
  BY <1>1
<1> QED BY <1>1, <1>2

LEMMA SettledServer == ASSUME Typed, Settled, ServerSteps PROVE Settled'
<1>1. /\ srv' \in Server /\ UNCHANGED <<cli, out>>
      /\ SendsMap \/ Rests \/ LetsIn \/ Drops \/ Takes
  BY ServerMoves
<1>2. JoinIn(out)' <=> JoinIn(out)
  BY <1>1 DEF JoinIn
<1>3. CASE SendsMap
  <2>1. /\ (SpawnIn => SpawnIn') /\ (AnswerIn => AnswerIn')
        /\ srv'.respawning = srv.respawning /\ UNCHANGED <<up, crossed>>
    BY <1>1, <1>3, MoreInDown DEF SendsMap
  <2> QED BY <1>1, <1>2, <2>1 DEF Settled, JoinIn, RespawnIn, SpawnIn, AnswerIn
<1>4. CASE Rests
  BY <1>1, <1>4 DEF Rests, Settled, JoinIn, RespawnIn, IsAnswer
<1>5. CASE crossed' = TRUE
  BY <1>5 DEF Settled
<1>6. CASE LetsIn
  <2>1. CASE crossed' = TRUE
    BY <1>5, <2>1
  <2>2. CASE Tell(<<Note("spawn")>>) /\ UNCHANGED <<up, crossed>>
    <3>1. SpawnIn' /\ (AnswerIn => AnswerIn')
      BY <1>1, <2>2, MoreInDown, SaidInDown DEF SpawnIn
    <3> QED BY <1>1, <1>2, <2>2, <3>1 DEF Settled, JoinIn, SpawnIn, AnswerIn
  <2> QED BY <1>6, <2>1, <2>2 DEF LetsIn
<1>7. CASE Takes
  <2>1. up # << >> /\ up' = Tail(up) /\ UNCHANGED crossed
    BY <1>7 DEF Takes
  <2>2. /\ \A k \in DOMAIN up : k \in Nat /\ (k = 1 \/ (k > 1 /\ k - 1 \in DOMAIN up' /\ up'[k - 1] = up[k]))
        /\ Head(up) = up[1]
    BY <2>1, UpShifted
  <2>3. /\ Head(up).cmd # "join" => (JoinIn(up) => JoinIn(up)')
        /\ Head(up).cmd # "respawn" => (RespawnIn(up) => RespawnIn(up)')
    BY <2>2 DEF JoinIn, RespawnIn
  <2>4. ASSUME NEW c \in {"accepted", "refused"}, Tell(<<Note(c)>>), Head(up).cmd = "join",
               srv'.respawning \/ srv'.respawning = srv.respawning
        PROVE  Settled'
    <3>1. AnswerIn' /\ (SpawnIn => SpawnIn')
      BY <1>1, <2>4, MoreInDown, SaidInDown DEF AnswerIn, IsAnswer
    <3> QED BY <1>1, <2>1, <2>3, <2>4, <3>1 DEF Settled, SpawnIn, AnswerIn
  <2>5. CASE Head(up).cmd = "respawn" /\ srv'.respawning /\ UNCHANGED down
    <3>1. AnswerIn => AnswerIn'
      BY <2>5 DEF AnswerIn, IsAnswer
    <3> QED BY <1>1, <1>2, <2>1, <2>3, <2>5, <3>1 DEF Settled, AnswerIn
  <2>6. CASE /\ Head(up).cmd = "spectate" /\ srv'.respawning = srv.respawning
             /\ Tell(<<Note("spectate")>>)
    <3>1. (AnswerIn => AnswerIn') /\ (SpawnIn => SpawnIn')
      BY <1>1, <2>6, MoreInDown
    <3> QED BY <1>1, <1>2, <2>1, <2>3, <2>6, <3>1 DEF Settled, SpawnIn, AnswerIn
  <2> QED BY <1>7, <2>4, <2>5, <2>6 DEF Takes
<1>8. CASE Drops
  BY <1>5, <1>8 DEF Drops
<1> QED BY <1>1, <1>3, <1>4, <1>6, <1>7, <1>8

LEMMA SettledPlayer == ASSUME Typed, Settled, PlayerSteps PROVE Settled'
<1>1. /\ UNCHANGED <<srv, down, up, crossed>>
      /\ cli'.joining = cli.joining /\ cli'.respawning = cli.respawning
      /\ \/ UNCHANGED out /\ cli'.choosing = cli.choosing
         \/ PlayerAsks("spectate") /\ cli'.choosing = cli.choosing
         \/ PlayerAsks("join")
  BY PlayerStepIs
<1>2. ASSUME NEW c \in {"spectate", "join"}, PlayerAsks(c)
      PROVE  (JoinIn(out) => JoinIn(out)') /\ (c = "join" => JoinIn(out)')
  <2> DEFINE n == Len(out)
  <2>1. /\ n \in Nat /\ DOMAIN out = 1 .. n /\ DOMAIN out' = 1 .. n + 1
        /\ \A k \in 1 .. n : out'[k] = out[k]
        /\ out'[n + 1].cmd = c
    BY <1>2, AskedIs
  <2> HIDE DEF n
  <2>2. n + 1 \in DOMAIN out' /\ \A k \in DOMAIN out : k \in DOMAIN out'
    BY <2>1
  <2> QED BY <2>1, <2>2 DEF JoinIn
<1>3. \/ (JoinIn(out) => JoinIn(out)') /\ cli'.choosing = cli.choosing
      \/ JoinIn(out)'
  BY <1>1, <1>2 DEF JoinIn
<1>4. /\ JoinIn(up)' <=> JoinIn(up)
      /\ RespawnIn(up)' <=> RespawnIn(up)
      /\ SpawnIn' <=> SpawnIn
      /\ AnswerIn' <=> AnswerIn
  BY <1>1 DEF JoinIn, RespawnIn, SpawnIn, AnswerIn, IsAnswer
<1> QED BY <1>1, <1>3, <1>4 DEF Settled, SpawnIn, AnswerIn

LEMMA SettledClient ==
    ASSUME Typed, WindowsSound, ToursSound, AsksSound, Settled, ClientSteps PROVE Settled'
<1>1. ASSUME ClientTakes PROVE Settled'
  <2> DEFINE m == down[1]
  <2>1. /\ down # << >> /\ down' = Tail(down) /\ UNCHANGED <<srv, up>>
        /\ m \in DownMessage /\ Handled(m)
    BY <1>1, ClientTakesIs
  <2>2. \A i \in DOMAIN down : i \in Nat /\ (i = 1 \/ (i > 1 /\ i - 1 \in DOMAIN down' /\ down'[i - 1] = down[i]))
    BY <2>1, Shifted
  <2>3. /\ m.cmd # "spawn" => (SpawnIn => SpawnIn')
        /\ m.cmd \notin {"accepted", "refused"} => (AnswerIn => AnswerIn')
    BY <2>2 DEF SpawnIn, AnswerIn, IsAnswer
  <2>4. /\ JoinIn(up)' <=> JoinIn(up)
        /\ RespawnIn(up)' <=> RespawnIn(up)
    BY <2>1 DEF JoinIn, RespawnIn
  <2>5. CASE m.cmd = "map"
    <3>1. MapTaken(m)
      BY <2>1, <2>5 DEF Handled
    <3>2. /\ cli'.joining = cli.joining /\ cli'.respawning = cli.respawning
          /\ cli'.choosing = (Again(m) /\ m.team)
      BY <3>1 DEF MapTaken
    <3>3. crossed => crossed'
      BY <3>1 DEF MapTaken
    <3>4. ASSUME ~crossed', cli.joining, ~AnswerIn, ~JoinIn(up), ~crossed PROVE cli'.choosing
      <4>1. CASE Again(m)
        BY <3>2, <4>1 DEF Again
      <4>2. CASE ~Again(m)
        <5>1. ~cli.choosing /\ Ask("join") \notin Range(out)
          BY <3>1, <3>4, <4>2 DEF MapTaken
        <5>2. JoinIn(out)
          BY <3>4, <5>1 DEF Settled, AnswerIn
        <5>3. PICK k \in DOMAIN out : out[k].cmd = "join"
          BY <5>2 DEF JoinIn
        <5>4. out[k].tour = cli.tour /\ out[k] \in Request
          BY <5>3, RequestIs DEF ToursSound
        <5>5. out[k] = Ask("join")
          BY <5>3, <5>4 DEF Ask, Request
        <5> QED BY <5>1, <5>3, <5>5 DEF Range
      <4> QED BY <4>1, <4>2
    <3>5. ~crossed /\ cli.respawning => RespawnIn(up) \/ srv.respawning \/ SpawnIn
      BY DEF Settled, SpawnIn
    <3> QED BY <2>1, <2>3, <2>4, <2>5, <3>2, <3>3, <3>4, <3>5 DEF Settled, SpawnIn, AnswerIn
  <2>6. CASE m.cmd # "map"
    <3>1. /\ UNCHANGED <<out, crossed>> /\ cli'.choosing = cli.choosing
          /\ cli'.joining = cli.joining \/ (cli'.joining = FALSE /\ m.cmd \in {"accepted", "refused"})
          /\ cli'.respawning = cli.respawning \/ (cli'.respawning = FALSE /\ m.cmd = "spawn")
          /\ m.cmd \in {"accepted", "refused"} => cli'.joining = FALSE
          /\ m.cmd = "spawn" => cli'.respawning = FALSE
      BY <2>1, <2>6 DEF Handled, Rejoins
    <3>2. JoinIn(out)' <=> JoinIn(out)
      BY <3>1 DEF JoinIn
    <3> QED BY <2>1, <2>3, <2>4, <3>1, <3>2 DEF Settled, SpawnIn, AnswerIn
  <2> QED BY <2>5, <2>6
<1>2. ASSUME UpdatePlayerState PROVE Settled'
  <2>1. /\ UNCHANGED <<srv, down, up, out, crossed>> /\ cli'.joining = cli.joining
        /\ cli'.choosing = cli.choosing /\ cli'.respawning = cli.respawning
    BY <1>2 DEF UpdatePlayerState, Typed, Client
  <2> QED BY <2>1 DEF Settled, JoinIn, RespawnIn, IsAnswer
<1>3. ASSUME PlayFrame PROVE Settled'
  <2>1. UNCHANGED <<srv, down, crossed>>
    BY <1>3, FrameIs
  <2>2. (SpawnIn' <=> SpawnIn) /\ (AnswerIn' <=> AnswerIn)
    BY <2>1 DEF SpawnIn, AnswerIn, IsAnswer
  <2>3. ASSUME NEW c \in {"none", "join", "respawn"}, Sends(c)
        PROVE  /\ JoinIn(up) \/ JoinIn(out) => JoinIn(up)'
               /\ RespawnIn(up) => RespawnIn(up)'
               /\ c = "join" => JoinIn(up)'
               /\ c = "respawn" => RespawnIn(up)'
    <3>1. JoinIn(up) => JoinIn(up)'
      BY <2>3 DEF Sends, JoinIn
    <3>2. RespawnIn(up) => RespawnIn(up)'
      BY <2>3 DEF Sends, RespawnIn
    <3>3. JoinIn(out) => JoinIn(up)'
      BY <2>3 DEF Sends, JoinIn
    <3>4. c = "join" => JoinIn(up)'
      BY <2>3 DEF Sends, JoinIn
    <3>5. c = "respawn" => RespawnIn(up)'
      BY <2>3 DEF Sends, RespawnIn
    <3> QED BY <3>1, <3>2, <3>3, <3>4, <3>5
  <2>4. ASSUME NEW c \in {"none", "respawn"}, Sends(c), cli'.joining = cli.joining,
               cli'.choosing = cli.choosing,
               cli'.respawning = cli.respawning \/ c = "respawn"
        PROVE  Settled'
    BY <2>1, <2>2, <2>3, <2>4 DEF Settled, SpawnIn, AnswerIn
  <2>5. ASSUME NEW c \in {"none", "join"}, Sends(c), cli'.respawning = cli.respawning,
               cli'.choosing = TRUE \/ c = "join"
        PROVE  Settled'
    BY <2>1, <2>2, <2>3, <2>5 DEF Settled, SpawnIn, AnswerIn
  <2> QED BY <1>3, <2>4, <2>5, FrameSendsIs DEF FrameSends
<1> QED BY <1>1, <1>2, <1>3 DEF ClientSteps

-----------------------------------------------------------------------------
(* The invariant.  *)
LEMMA PlayStarts == PlayInit => PlaySound
<1> SUFFICES ASSUME PlayInit PROVE PlaySound
  OBVIOUS
<1> USE DEF PlayInit
<1>1. /\ down = << >> /\ up = << >> /\ out = << >> /\ wins = << >>
      /\ Len(<< >>) = 0 /\ DOMAIN << >> = {}
  BY EmptySeq
<1>2. Typed
  <2>1. srv \in Server /\ cli \in Client
    BY ClientPlayAssumption DEF Server, Client, Modes
  <2>2. << >> \in Seq(DownMessage) /\ << >> \in Seq(Request) /\ << >> \in Seq(AnyWindow)
    OBVIOUS
  <2> QED BY <1>1, <2>1, <2>2, ClientPlayAssumption DEF Typed
<1>3. cli.choosing = FALSE /\ cli.joining = FALSE /\ cli.respawning = FALSE /\ cli.tour = srv.tour
  OBVIOUS
<1>4. \A i : i \notin DOMAIN down /\ i \notin DOMAIN up /\ i \notin DOMAIN out /\ i \notin DOMAIN wins
  BY <1>1
<1>5. ~(Len(wins) > 1)
  BY <1>1
<1>6. WindowsSound
  BY <1>3, <1>4, <1>5 DEF WindowsSound
<1>7. KeysSound
  BY <1>4 DEF KeysSound, Covered
<1>8. ToursSound
  BY <1>3, <1>4 DEF ToursSound
<1>9. AsksSound
  BY <1>3, <1>4 DEF AsksSound, OutAsks, UpAsks, Answers, One
<1>10. Settled
  BY <1>3 DEF Settled
<1> QED BY <1>2, <1>6, <1>7, <1>8, <1>9, <1>10 DEF PlaySound

LEMMA PlayHolds == PlaySound /\ [PlayNext]_play => PlaySound'
<1> SUFFICES ASSUME PlaySound, [PlayNext]_play PROVE PlaySound'
  OBVIOUS
<1>1. Typed /\ WindowsSound /\ KeysSound /\ ToursSound /\ AsksSound /\ Settled
  BY DEF PlaySound
<1>2. CASE ServerSteps
  <2>1. UNCHANGED <<cli, wins, idling>>
    BY <1>1, <1>2, ServerMoves
  <2>2. WindowsSound'
    BY <1>1, <2>1 DEF WindowsSound
  <2> QED BY <1>1, <1>2, <2>2, ServerTyped, KeysServer, ToursServer, AsksServer, SettledServer DEF PlaySound
<1>3. CASE PlayerSteps
  BY <1>1, <1>3, PlayerTyped, WindowsPlayer, KeysPlayer, ToursPlayer, AsksPlayer, SettledPlayer
     DEF PlaySound
<1>4. CASE ClientSteps
  BY <1>1, <1>4, ClientTyped, WindowsClient, KeysClient, ToursClient, AsksClient, SettledClient
     DEF PlaySound
<1>5. CASE UNCHANGED play
  <2>1. UNCHANGED <<srv, cli, down, up, late, held, ks, wins, out, idling, crossed>>
    BY <1>5 DEF play
  <2>2. Typed' /\ WindowsSound' /\ Settled'
    BY <1>1, <2>1 DEF Typed, WindowsSound, Settled, JoinIn, RespawnIn, IsAnswer
  <2>3. KeysSound' /\ ToursSound'
    BY <1>1, <2>1 DEF KeysSound, ReadyComes, Covered, ToursSound, IsMap, IsAnswer
  <2>4. AsksSound'
    BY <1>1, <2>1 DEF AsksSound, OutAsks, UpAsks, Answers, IsAnswer, One
  <2> QED BY <2>2, <2>3, <2>4 DEF PlaySound
<1> QED BY <1>2, <1>3, <1>4, <1>5 DEF PlayNext

-----------------------------------------------------------------------------
(* Both sides, the messages and the windows keep their types, and a team   *)
(* is chosen only in a team game and while the player joins.               *)
THEOREM PlayTypeCorrect == PlaySpec => []PlayTypeOK
<1>1. PlaySound => PlayTypeOK
  <2> SUFFICES ASSUME PlaySound PROVE PlayTypeOK
    OBVIOUS
  <2>1. Typed /\ WindowsSound
    BY DEF PlaySound
  <2>2. \A k \in DOMAIN wins : wins[k].kind \in {"chat", "options", "join"}
    <3>1. wins \in Seq(AnyWindow) /\ DOMAIN wins = 1 .. Len(wins)
      BY <2>1, LenProperties DEF Typed
    <3>2. \A k \in DOMAIN wins : wins[k] \in AnyWindow
      BY <3>1, ElementOfSeq
    <3> QED BY <3>2 DEF AnyWindow
  <2> QED BY <2>1, <2>2 DEF PlayTypeOK, Typed, WindowsSound
<1> QED BY <1>1, PlayStarts, PlayHolds, PTL DEF PlaySpec

(* The game never moves on a key that is not held.                         *)
THEOREM KeysCorrect == PlaySpec => []KeysHeld
<1>1. PlaySound => KeysHeld
  <2> SUFFICES ASSUME PlaySound, ReadyComes PROVE Note("ready") \in Range(down)
    BY DEF PlaySound, KeysSound, KeysHeld
  <2>1. PICK j \in DOMAIN down : down[j].cmd = "ready"
    BY DEF ReadyComes
  <2>2. down[j] \in DownMessage
    <3>1. down \in Seq(DownMessage) /\ DOMAIN down = 1 .. Len(down)
      BY LenProperties DEF PlaySound, Typed
    <3> QED BY <2>1, <3>1, ElementOfSeq
  <2>3. down[j] = Note("ready")
    BY <2>1, <2>2 DEF DownMessage, Note
  <2> QED BY <2>1, <2>3 DEF Range
<1> QED BY <1>1, PlayStarts, PlayHolds, PTL DEF PlaySpec

(* A window to choose the team belongs to the tournament that is played,   *)
(* and there is one at most.                                               *)
THEOREM WindowCorrect == PlaySpec => []JoinWindowLive
<1>1. PlaySound => JoinWindowLive
  <2> SUFFICES ASSUME PlaySound PROVE JoinWindowLive
    OBVIOUS
  <2> DEFINE joins == {k \in DOMAIN wins : wins[k].kind = "join"}
  <2>1. \A k \in joins : wins[k].tour = cli.tour /\ cli.choosing /\ k = Len(wins)
    BY DEF PlaySound, WindowsSound
  <2>2. CASE cli.choosing
    <3>1. Len(wins) \in joins
      <4>1. Len(wins) > 0 /\ wins[Len(wins)].kind = "join"
        BY <2>2 DEF PlaySound, WindowsSound
      <4>2. Len(wins) \in Nat /\ DOMAIN wins = 1 .. Len(wins)
        BY LenProperties DEF PlaySound, Typed
      <4> QED BY <4>1, <4>2
    <3>2. joins = {Len(wins)}
      BY <2>1, <3>1
    <3>3. Cardinality(joins) = 1
      BY <3>2, FS_Singleton
    <3> QED BY <2>1, <2>2, <3>3 DEF JoinWindowLive
  <2>3. CASE ~cli.choosing
    <3>1. joins = {}
      BY <2>1, <2>3
    <3>2. Cardinality(joins) = 0
      BY <3>1, FS_EmptySet
    <3> QED BY <2>1, <2>3, <3>2 DEF JoinWindowLive
  <2> QED BY <2>2, <2>3
<1> QED BY <1>1, PlayStarts, PlayHolds, PTL DEF PlaySpec

(* Places of the requests in out \o up, the sequence AskedIsAnswered and   *)
(* OneJoinAtATime speak of.                                                *)
LEMMA PlaceIs ==
    ASSUME Typed
    PROVE  /\ \A k \in DOMAIN out : k \in DOMAIN (out \o up) /\ (out \o up)[k] = out[k]
           /\ \A k \in DOMAIN up : Len(out) + k \in DOMAIN (out \o up) /\ (out \o up)[Len(out) + k] = up[k]
           /\ \A k \in DOMAIN (out \o up) :
                \/ k \in DOMAIN out /\ (out \o up)[k] = out[k]
                \/ /\ k - Len(out) \in DOMAIN up /\ (out \o up)[k] = up[k - Len(out)]
                   /\ k \in Nat /\ Len(out) \in Nat /\ k > Len(out)
<1> DEFINE n == Len(out)
           o == Len(up)
           t == out \o up
<1>1. n \in Nat /\ o \in Nat /\ DOMAIN out = 1 .. n /\ DOMAIN up = 1 .. o
  BY RequestIs
<1>2. /\ DOMAIN t = 1 .. n + o
      /\ \A k \in 1 .. n : t[k] = out[k]
      /\ \A k \in 1 .. o : t[n + k] = up[k]
  <2>1. out \in Seq(Request) /\ up \in Seq(Request)
    BY DEF Typed
  <2> QED BY <2>1, ConcatIs
<1> HIDE DEF n, o, t
<1>3. \A k \in 1 .. n + o : k \in 1 .. n \/ (k - n \in 1 .. o /\ n + (k - n) = k /\ k \in Nat /\ k > n)
  BY <1>1
<1>4. (\A k \in 1 .. n : k \in 1 .. n + o) /\ (\A k \in 1 .. o : n + k \in 1 .. n + o)
  BY <1>1
<1>5. ASSUME NEW k \in 1 .. n + o
      PROVE  \/ k \in 1 .. n /\ t[k] = out[k]
             \/ k - n \in 1 .. o /\ t[k] = up[k - n] /\ k \in Nat /\ k > n
  <2>1. CASE k \in 1 .. n
    BY <1>2, <2>1
  <2>2. CASE k - n \in 1 .. o /\ n + (k - n) = k /\ k \in Nat /\ k > n
    <3>1. t[n + (k - n)] = up[k - n]
      BY <1>2, <2>2
    <3> QED BY <2>2, <3>1
  <2> QED BY <1>3, <2>1, <2>2
<1>6. /\ \A k \in DOMAIN out : k \in DOMAIN t /\ t[k] = out[k]
      /\ \A k \in DOMAIN up : n + k \in DOMAIN t /\ t[n + k] = up[k]
  BY <1>1, <1>2, <1>4
<1>7. \A k \in DOMAIN t : \/ k \in DOMAIN out /\ t[k] = out[k]
                          \/ k - n \in DOMAIN up /\ t[k] = up[k - n] /\ k \in Nat /\ n \in Nat /\ k > n
  BY <1>1, <1>2, <1>5
<1> QED BY <1>6, <1>7 DEF n, t

LEMMA OneCounts ==
    ASSUME NEW S, One(S)
    PROVE  Cardinality(S) \in {0, 1} /\ (S = {} => Cardinality(S) = 0)
<1>1. CASE S = {}
  BY <1>1, FS_EmptySet
<1>2. CASE S # {}
  <2>1. PICK x : x \in S
    BY <1>2
  <2>2. S = {x}
    BY <2>1 DEF One
  <2> QED BY <1>2, <2>2, FS_Singleton
<1> QED BY <1>1, <1>2

(* No request to join or to respawn is lost but those the server ignored,  *)
(* and none is made twice, whatever maps change in between.                *)
THEOREM RequestsCorrect == PlaySpec => []RequestsSettled
<1>1. ASSUME PlaySound PROVE AskedIsAnswered
  <2>0. Typed
    BY <1>1 DEF PlaySound
  <2>1. /\ JoinIn(out) \/ JoinIn(up) => Asked("join")
        /\ RespawnIn(up) => Asked("respawn")
    <3> DEFINE t == out \o up
    <3>1. /\ \A k \in DOMAIN out : k \in DOMAIN t /\ t[k] = out[k]
          /\ \A k \in DOMAIN up : Len(out) + k \in DOMAIN t /\ t[Len(out) + k] = up[k]
      BY <2>0, PlaceIs
    <3>2. \A c : Asked(c) <=> \E k \in DOMAIN t : t[k].cmd = c
      BY DEF Asked
    <3> HIDE DEF t
    <3> QED BY <3>1, <3>2 DEF JoinIn, RespawnIn
  <2>2. \A k \in DOMAIN down : down[k] \in DownMessage
    <3>1. down \in Seq(DownMessage) /\ DOMAIN down = 1 .. Len(down)
      BY <2>0, LenProperties DEF Typed
    <3> QED BY <3>1, ElementOfSeq
  <2>3. ASSUME NEW k \in DOMAIN down, IsAnswer(k)
        PROVE  {Note("accepted"), Note("refused")} \cap Range(down) # {}
    <3>1. down[k] = Note("accepted") \/ down[k] = Note("refused")
      BY <2>2, <2>3 DEF IsAnswer, DownMessage, Note
    <3> QED BY <2>3, <3>1 DEF Range
  <2>4. ASSUME NEW k \in DOMAIN down, down[k].cmd = "spawn" PROVE Note("spawn") \in Range(down)
    <3>1. down[k] = Note("spawn")
      BY <2>2, <2>4 DEF DownMessage, Note
    <3> QED BY <2>4, <3>1 DEF Range
  <2>5. Settled
    BY <1>1 DEF PlaySound
  <2>6. ~crossed /\ cli.joining => JoinUnderWay
    BY <2>1, <2>3, <2>5 DEF Settled, JoinUnderWay
  <2>7. ~crossed /\ cli.respawning => SpawnUnderWay
    BY <2>1, <2>4, <2>5 DEF Settled, SpawnUnderWay
  <2> QED BY <2>6, <2>7 DEF AskedIsAnswered
<1>2. ASSUME PlaySound PROVE OneJoinAtATime
  <2>0. Typed /\ ToursSound /\ AsksSound
    BY <1>2 DEF PlaySound
  <2> DEFINE n == Len(out)
  <2>1. JoinAnswers = Answers
    BY DEF JoinAnswers, Answers, IsAnswer
  <2>2. ASSUME NEW k \in JoinAsks
        PROVE  \/ k \in OutAsks
               \/ k - n \in UpAsks /\ k \in Nat /\ n \in Nat
    <3>1. k \in DOMAIN (out \o up) /\ (out \o up)[k].cmd = "join" /\ (out \o up)[k].tour = srv.tour
      BY <2>2 DEF JoinAsks
    <3>2. cli.tour <= srv.tour /\ cli.tour \in Nat /\ srv.tour \in Nat
      BY <2>0, MapsAhead, ClientPlayAssumption
    <3>3. CASE k \in DOMAIN out /\ (out \o up)[k] = out[k]
      <4>1. out[k].tour = cli.tour
        BY <2>0, <3>3 DEF ToursSound
      <4> QED BY <3>1, <3>3, <4>1 DEF OutAsks
    <3>4. CASE k - n \in DOMAIN up /\ (out \o up)[k] = up[k - n] /\ k \in Nat /\ n \in Nat
      <4>1. up[k - n].tour <= cli.tour
        BY <2>0, <3>4 DEF ToursSound
      <4>2. up[k - n].tour = cli.tour
        BY <3>1, <3>2, <3>4, <4>1
      <4> QED BY <3>1, <3>4, <4>2 DEF UpAsks
    <3> QED BY <2>0, <3>1, <3>3, <3>4, PlaceIs
  <2> HIDE DEF n
  <2>3. One(JoinAsks)
    <3>1. SUFFICES ASSUME NEW i \in JoinAsks, NEW j \in JoinAsks PROVE i = j
      BY DEF One
    <3>2. \/ i \in OutAsks /\ j \in OutAsks
          \/ /\ i - n \in UpAsks /\ j - n \in UpAsks
             /\ i \in Nat /\ j \in Nat /\ n \in Nat
      BY <2>0, <2>2, <3>1 DEF AsksSound
    <3>3. CASE i \in OutAsks /\ j \in OutAsks
      BY <2>0, <3>3 DEF AsksSound, One
    <3>4. CASE i - n \in UpAsks /\ j - n \in UpAsks /\ i \in Nat /\ j \in Nat /\ n \in Nat
      <4>1. i - n = j - n
        BY <2>0, <3>4 DEF AsksSound, One
      <4> QED BY <3>4, <4>1
    <3> QED BY <3>2, <3>3, <3>4
  <2>4. JoinAsks = {} \/ JoinAnswers = {}
    BY <2>0, <2>1, <2>2 DEF AsksSound
  <2>5. One(JoinAnswers)
    BY <2>0, <2>1 DEF AsksSound
  <2> QED BY <2>3, <2>4, <2>5, OneCounts DEF OneJoinAtATime
<1>3. PlaySound => RequestsSettled
  BY <1>1, <1>2 DEF RequestsSettled
<1> QED BY <1>3, PlayStarts, PlayHolds, PTL DEF PlaySpec
=============================================================================
