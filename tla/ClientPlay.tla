------------------------------ MODULE ClientPlay ------------------------------
(***************************************************************************)
(* One synchronised player: what he presses, the windows on his screen,    *)
(* and his requests to join, to respawn and to spectate, against a server  *)
(* that ends warmups and changes maps at its own pace.  Reliable messages  *)
(* arrive once and in order (MessageSequencer); a state update of the      *)
(* server may be late or lost.  The lobby and the other players are left   *)
(* out.                                                                    *)
(***************************************************************************)
EXTENDS Integers, Sequences, SequencesExt, FiniteSets

CONSTANTS
    Keys,          \* the jump key, and keys like any other
    MaxTours,      \* bound: tournaments of a session
    MaxPending,    \* bound: reliable messages in flight to the client, ahead of another
    MaxAsks        \* bound: the same to the server, and in the tournament's responses

ASSUME ClientPlayAssumption == "jump" \in Keys /\ MaxTours \in Nat \ {0} /\ {MaxPending, MaxAsks} \subseteq Nat \ {0}

VARIABLES
    srv,        \* server: its tournament, and what it knows of the player
    cli,        \* client: its tournament, and his copy of himself
    down, up,   \* reliable messages to the client and to the server
    late,       \* an unreliable state update of the server, or nothing
    held,       \* keys that the player really holds down
    ks,         \* key_states of the client
    wins,       \* window stack, from bottom to top
    out,        \* state_responses of the client's tournament
    idling,     \* the main thread is inside idle(), not at the input queue
    crossed     \* a request got lost: late for its tournament, dropped, or of no use

play == <<srv, cli, down, up, late, held, ks, wins, out, idling, crossed>>

Modes == {"spectating", "dead", "alive"}
Nothing == [tour |-> 0]
Server == [tour : 1 .. MaxTours, team : BOOLEAN, warmup : BOOLEAN, over : BOOLEAN,
           mode : Modes, respawning : BOOLEAN]
Client == [tour : 1 .. MaxTours, team : BOOLEAN, mode : Modes,
           joining : BOOLEAN, respawning : BOOLEAN, button : BOOLEAN,
           choosing : BOOLEAN, writing : BOOLEAN]
Window(k) == [kind |-> k, tour |-> cli.tour]
Note(c) == [cmd |-> c]
Ask(c) == [cmd |-> c, tour |-> cli.tour]

PlayInit ==
    \E team, warmup \in BOOLEAN :
       /\ srv = [tour |-> 1, team |-> team, warmup |-> warmup, over |-> FALSE,
                 mode |-> "spectating", respawning |-> FALSE]
       /\ cli = [tour |-> 1, team |-> team, mode |-> "spectating",
                 joining |-> FALSE, respawning |-> FALSE, button |-> FALSE,
                 choosing |-> FALSE, writing |-> FALSE]
       /\ down = << >> /\ up = << >> /\ late = Nothing
       /\ held = {} /\ ks = {} /\ wins = << >> /\ out = << >>
       /\ idling = FALSE /\ crossed = FALSE

Top == IF wins = << >> THEN "none" ELSE Last(wins).kind
OptionsVisible == \E k \in DOMAIN wins : wins[k].kind = "options"

-----------------------------------------------------------------------------
(* The server.                                                             *)

ServerOnly == UNCHANGED <<cli, held, ks, wins, out, idling>>
Tell(ms) == Len(down) < MaxPending /\ down' = down \o ms
ResetOf(s, ks0) == [cmd |-> "reset", mode |-> s.mode, keys |-> ks0]
NewMap(s, ks0) ==
    <<[cmd |-> "map", tour |-> s.tour, team |-> s.team], ResetOf(s, ks0), Note("ready")>>

(* The warmup is over: players who play start at once in the new           *)
(* tournament on the same map, the others go on spectating.  heard: the    *)
(* keys that the server heard of last, in an update that may be late.      *)
BeginGame(heard) ==
    /\ srv.warmup /\ srv.tour < MaxTours
    /\ srv' = [srv EXCEPT !.tour = @ + 1, !.warmup = FALSE,
                          !.mode = IF @ = "spectating" THEN @ ELSE "alive"]
    /\ Tell(NewMap(srv', heard))
    /\ UNCHANGED <<up, late, crossed>> /\ ServerOnly

GameOver ==
    /\ ~srv.warmup /\ ~srv.over
    /\ srv' = [srv EXCEPT !.over = TRUE]
    /\ UNCHANGED <<down, up, late, crossed>> /\ ServerOnly

(* The score board is over: next map, everybody spectates.                 *)
NextMap(team, warmup) ==
    /\ srv.over /\ srv.tour < MaxTours
    /\ srv' = [srv EXCEPT !.tour = @ + 1, !.team = team, !.warmup = warmup, !.over = FALSE,
                          !.mode = "spectating"]
    /\ Tell(NewMap(srv', {}))
    /\ UNCHANGED <<up, late, crossed>> /\ ServerOnly

PlayerDies ==
    /\ srv.mode = "alive" /\ ~srv.over
    /\ srv' = [srv EXCEPT !.mode = "dead"]
    /\ UNCHANGED <<down, up, late, crossed>> /\ ServerOnly

(* The server's loop after its tournament's step.                          *)
RespawnPlayer ==
    /\ srv.respawning
    /\ IF srv.mode = "alive"
       THEN srv' = [srv EXCEPT !.respawning = FALSE] /\ crossed' = TRUE /\ UNCHANGED down
       ELSE /\ srv' = [srv EXCEPT !.respawning = FALSE, !.mode = "alive"]
            /\ Tell(<<Note("spawn")>>) /\ UNCHANGED crossed
    /\ UNCHANGED <<up, late>> /\ ServerOnly

(* Mutant: no answer at the score board.                                   *)
JoinUnanswered ==
    \/ ~srv.over /\ Tell(<<Note("refused")>>) /\ UNCHANGED srv
    \/ srv.over /\ UNCHANGED <<srv, down>>
    \/ ~srv.over /\ Tell(<<Note("accepted")>>) /\ srv' = [srv EXCEPT !.respawning = TRUE]

(* refuse_join is a setting of the administrators.                         *)
JoinRequest ==
    \/ Tell(<<Note("refused")>>) /\ UNCHANGED srv
    \/ ~srv.over /\ Tell(<<Note("accepted")>>) /\ srv' = [srv EXCEPT !.respawning = TRUE]

Respawn == srv' = [srv EXCEPT !.respawning = TRUE] /\ UNCHANGED down

Spectate ==
    /\ srv' = [srv EXCEPT !.mode = "spectating"]
    /\ Tell(<<Note("spectate")>>)

(* A request of another tournament is dropped.                             *)
ServerTakes ==
    /\ up # << >> /\ up' = Tail(up)
    /\ LET m == Head(up) IN
       IF m.tour # srv.tour THEN crossed' = TRUE /\ UNCHANGED <<srv, down>>
       ELSE /\ \/ m.cmd = "join" /\ JoinRequest
               \/ m.cmd = "respawn" /\ Respawn
               \/ m.cmd = "spectate" /\ Spectate
            /\ UNCHANGED crossed
    /\ UNCHANGED late /\ ServerOnly

(* Sent again and again: it replaces one that is lost.                     *)
SendState ==
    /\ late' = [tour |-> srv.tour, mode |-> srv.mode]
    /\ late' # late
    /\ UNCHANGED <<srv, down, up, crossed>> /\ ServerOnly

ServerSteps == (\E heard \in SUBSET Keys : BeginGame(heard)) \/ (\E t, w \in BOOLEAN : NextMap(t, w))
               \/ GameOver \/ PlayerDies \/ RespawnPlayer \/ ServerTakes \/ SendState

-----------------------------------------------------------------------------
(* The player.  The top window has the first look at a key: the textbox of *)
(* the chat takes all; with the options on screen the rest is ignored.     *)

Input == ~idling /\ UNCHANGED <<srv, down, up, late, idling, crossed>>
ReachesGame == Top # "chat" /\ ~OptionsVisible
WhileWriting(s) == IF cli.writing THEN {} ELSE s

Press(k) ==
    /\ Input /\ k \notin held
    /\ held' = held \cup {k}
    /\ ks' = IF ReachesGame THEN WhileWriting(ks \cup {k}) ELSE ks
    /\ UNCHANGED <<cli, wins, out>>

Release(k) ==
    /\ Input /\ k \in held
    /\ held' = held \ {k}
    /\ ks' = IF ReachesGame THEN ks \ {k} ELSE ks
    /\ UNCHANGED <<cli, wins, out>>

(* Mutant: keys stay pressed under a window.                               *)
OpenWithKeys(kind) ==
    /\ Input /\ wins = << >>
    /\ wins' = <<Window(kind)>>
    /\ UNCHANGED <<cli, held, ks, out>>

OpenWindow(kind) ==
    /\ Input /\ wins = << >>
    /\ wins' = <<Window(kind)>> /\ ks' = {}
    /\ UNCHANGED <<cli, held, out>>

CloseChat ==
    /\ Input /\ Top = "chat"
    /\ wins' = Front(wins) /\ cli' = [cli EXCEPT !.writing = FALSE]
    /\ UNCHANGED <<held, ks, out>>

CloseOptions ==
    /\ Input /\ Top = "options"
    /\ wins' = Front(wins)
    /\ UNCHANGED <<cli, held, ks, out>>

SpectateClick ==
    /\ Input /\ Top = "options" /\ cli.mode # "spectating" /\ Len(out) < MaxAsks
    /\ out' = Append(out, Ask("spectate"))
    /\ UNCHANGED <<cli, held, ks, wins>>

TeamClick ==
    /\ Input /\ Top = "join" /\ Len(out) < MaxAsks
    /\ wins' = Front(wins) /\ cli' = [cli EXCEPT !.choosing = FALSE]
    /\ out' = Append(out, Ask("join"))
    /\ UNCHANGED <<held, ks>>

PlayerSteps == (\E k \in Keys : Press(k) \/ Release(k))
               \/ (\E w \in {"chat", "options"} : OpenWindow(w))
               \/ CloseChat \/ CloseOptions \/ SpectateClick \/ TeamClick

-----------------------------------------------------------------------------
(* idle(): messages, then a step of the tournament, its responses, and the *)
(* state of the keys.                                                      *)

(* player_join_request: in a team game a window asks for the team first    *)
(* (who comes through the lobby has one: left out with the lobby).         *)
Joins(c) == [c EXCEPT !.joining = TRUE, !.choosing = c.team]
JoinWindow(c) == IF c.team THEN <<[kind |-> "join", tour |-> c.tour]>> ELSE << >>
JoinAsk(c) == IF c.team THEN << >> ELSE <<[cmd |-> "join", tour |-> c.tour]>>

(* Mutant: ~TournamentTeam leaves its window open.                         *)
KeptAll == wins

(* ~TournamentTeam pops its window.                                        *)
Kept == IF cli.choosing THEN Front(wins) ELSE wins

(* The old tournament takes its responses and its join window with it; the *)
(* one of a team game asks again for a player who is joining.              *)
MapState(m) ==
    LET c == [cli EXCEPT !.tour = m.tour, !.team = m.team, !.button = FALSE, !.choosing = FALSE]
        again == cli.joining /\ m.team
    IN  /\ cli' = IF again THEN Joins(c) ELSE c
        /\ wins' = IF again THEN Kept \o JoinWindow(c) ELSE Kept
        /\ out' = IF again THEN JoinAsk(c) ELSE << >>
        /\ crossed' = (crossed \/ (~again /\ (cli.choosing \/ Ask("join") \in Range(out))))
        /\ UNCHANGED ks

ResetPlayer(m) ==
    /\ cli' = [cli EXCEPT !.mode = m.mode]
    /\ ks' = m.keys
    /\ UNCHANGED <<wins, out>>

Ready == ks' = {} /\ UNCHANGED <<cli, wins, out>>
JoinHandling == cli' = [cli EXCEPT !.joining = FALSE] /\ UNCHANGED <<ks, wins, out>>
SpawnPlayer ==
    /\ cli' = [cli EXCEPT !.mode = "alive", !.respawning = FALSE]
    /\ UNCHANGED <<ks, wins, out>>
SpectateAccepted ==
    /\ cli' = [cli EXCEPT !.mode = "spectating"]
    /\ ks' = {} /\ UNCHANGED <<wins, out>>

ClientTakes ==
    /\ down # << >> /\ down' = Tail(down)
    /\ LET m == Head(down) IN
       \/ m.cmd = "map" /\ MapState(m)
       \/ /\ \/ m.cmd = "reset" /\ ResetPlayer(m)
             \/ m.cmd = "ready" /\ Ready
             \/ m.cmd \in {"accepted", "refused"} /\ JoinHandling
             \/ m.cmd = "spawn" /\ SpawnPlayer
             \/ m.cmd = "spectate" /\ SpectateAccepted
          /\ UNCHANGED crossed
    /\ idling' = TRUE
    /\ UNCHANGED <<srv, up, late, held>>

UpdatePlayerState ==
    /\ late # Nothing /\ late' = Nothing
    /\ cli' = IF late.tour = cli.tour
              THEN [cli EXCEPT !.mode = late.mode] ELSE cli
    /\ idling' = TRUE
    /\ UNCHANGED <<srv, down, up, held, ks, wins, out, crossed>>

(* A change of the jump button makes a spectator join and a dead player    *)
(* respawn, when it is pressed and the last request has been answered.     *)
WantsToJoin == "jump" \in ks /\ ~cli.button /\ cli.mode = "spectating" /\ ~cli.joining
WantsToRespawn == "jump" \in ks /\ ~cli.button /\ cli.mode = "dead" /\ ~cli.respawning

PlayFrame ==
    LET asked == CASE WantsToJoin -> JoinAsk(cli)
                   [] WantsToRespawn -> <<Ask("respawn")>>
                   [] OTHER -> << >>
        stack == IF WantsToJoin THEN wins \o JoinWindow(cli) ELSE wins
        c == CASE WantsToJoin -> Joins(cli)
               [] WantsToRespawn -> [cli EXCEPT !.respawning = TRUE]
               [] OTHER -> cli
    IN  /\ Len(up) + Len(out \o asked) <= MaxAsks
        /\ up' = up \o out \o asked /\ out' = << >> /\ wins' = stack
        /\ cli' = [c EXCEPT !.button = "jump" \in ks, !.writing = stack # << >>]
        /\ idling' = FALSE
        /\ UNCHANGED <<srv, down, late, held, ks, crossed>>

ClientSteps == ClientTakes \/ UpdatePlayerState \/ PlayFrame

PlayNext == ServerSteps \/ PlayerSteps \/ ClientSteps
PlaySpec == PlayInit /\ [][PlayNext]_play

-----------------------------------------------------------------------------
(* Types of both sides, of the keys and of the windows; the player chooses *)
(* a team only in a team game and while he joins.                          *)
PlayTypeOK ==
    /\ srv \in Server /\ cli \in Client
    /\ cli.choosing => cli.joining /\ cli.team
    /\ held \subseteq Keys /\ ks \subseteq Keys
    /\ \A k \in DOMAIN wins : wins[k].kind \in {"chat", "options", "join"}
    /\ Len(down) <= MaxPending + 2 /\ Len(up) <= MaxAsks

(* The game never moves on a key that is not held: not after a window has  *)
(* swallowed the release, nor on keys the server remembers (until the      *)
(* GPCReady behind them).                                                  *)
KeysHeld == ks \subseteq held \/ Note("ready") \in Range(down)

(* A window to choose the team belongs to the tournament that is played,   *)
(* and there is one at most: a change of the map leaves none behind whose  *)
(* buttons would act for a tournament that is gone.                        *)
JoinWindowLive ==
    LET joins == {k \in DOMAIN wins : wins[k].kind = "join"}
    IN  /\ \A k \in joins : wins[k].tour = cli.tour
        /\ Cardinality(joins) = (IF cli.choosing THEN 1 ELSE 0)

(* A request to join or its answer is under way, or the window is open,    *)
(* while the player waits to join; so for his respawn.  The exception are  *)
(* requests that the server ignored (see JoinAnswered).                    *)
Asked(c) == \E k \in DOMAIN (out \o up) : (out \o up)[k].cmd = c
JoinUnderWay ==
    cli.choosing \/ Asked("join") \/ {Note("accepted"), Note("refused")} \cap Range(down) # {}
SpawnUnderWay == Asked("respawn") \/ srv.respawning \/ Note("spawn") \in Range(down)
AskedIsAnswered ==
    crossed \/ ((cli.joining => JoinUnderWay) /\ (cli.respawning => SpawnUnderWay))

JoinAsks == {k \in DOMAIN (out \o up) : (out \o up)[k] = [cmd |-> "join", tour |-> srv.tour]}
JoinAnswers == {k \in DOMAIN down : down[k].cmd \in {"accepted", "refused"}}

(* No second request to join that the server would act upon before the     *)
(* first one is answered.                                                  *)
OneJoinAtATime == Cardinality(JoinAsks) + Cardinality(JoinAnswers) <= 1

(* No request is lost, and none is made twice.                             *)
RequestsSettled == AskedIsAnswered /\ OneJoinAtATime

(* A player who waits to join in the tournament that is played has a       *)
(* request, an answer or an open window before him, also after a change of *)
(* the tournament (the change log: "join request bug fixed: after warmup,  *)
(* tournament recreation and request window is still open").               *)
JoinAnswered == cli.joining /\ cli.tour = srv.tour => JoinUnderWay
=============================================================================
