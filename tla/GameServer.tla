----------------------------- MODULE GameServer -----------------------------
(***************************************************************************)
(* The game server above the message layer: Server::event_login,           *)
(* event_data and event_logout, the server's main loop, and the commands   *)
(* of ServerAdmin that change its state.  The server is one thread: every  *)
(* handler and every pass of the loop is one step.                         *)
(*                                                                         *)
(* A connection is an address with a heap (module MessageSequencer, which  *)
(* also sees to it that what the server pushes arrives in order); what a   *)
(* client knows is what it has been sent.  Points are abstracted to the    *)
(* tournament they were made in, positions and physics are left out.       *)
(***************************************************************************)
EXTENDS Naturals, FiniteSets, SequencesExt

CONSTANTS
    Conns,         \* connections
    Host,          \* their addresses without the port
    Names,         \* names of players
    Paks,          \* the server's paks
    CheckedPaks,   \* those that must not differ and are not downloaded
    Maps,          \* the maps of the configuration file: warmup or not
    Admins,        \* connections whose users know the admin password
    MaxPlayers,    \* num_players
    HoldScores,    \* hold_disconnected_player
    RefuseJoin,    \* refuse_join
    QuitDelay,     \* 1000 passes of the loop
    MaxLogins,     \* bound: logins
    MaxTournaments \* bound: tournaments

ASSUME ServerAssumption ==
    /\ Names # {} /\ CheckedPaks \subseteq Paks /\ Admins \subseteq Conns
    /\ Maps \in Seq(BOOLEAN) /\ Maps # <<>>
    /\ {MaxPlayers, QuitDelay, MaxLogins, MaxTournaments} \subseteq Nat
    /\ QuitDelay > 0 /\ {HoldScores, RefuseJoin} \subseteq BOOLEAN

VARIABLES
    players,     \* from the connections that are online to their Player
    killed,      \* connections with a kill marker in the message layer
    missing,     \* per connection: client_paks that are not synced
    hashes,      \* per connection: paks whose hash its client has yet to send
    tournament,  \* open; in the lobby; seconds_remaining is zero
    tid,         \* tournament_id of the factory
    warmup, current, rotation, rotation_current_index, reload_map_rotation,
    temp_map,    \* "none", or has_temp_map_config: "warmup" or "plain"
    map_count,   \* of the properties
    held,        \* held_player_stats
    logins,      \* number of logins
    files,       \* clients: the paks whose content is the server's
    view,        \* clients: the players they have been told of
    told,        \* clients: the tournaments they have been told of
    fault        \* undefined behaviour the server has run into

serverVars == <<players, killed, missing, hashes, held, logins, files, view, told>>
mapVars == <<tournament, tid, warmup, current, rotation, rotation_current_index,
             reload_map_rotation, temp_map, map_count>>
vars == <<serverVars, mapVars, fault>>

Player == [id: Nat \ {0}, name: Names,
           synced: BOOLEAN, admin: BOOLEAN, respawning: BOOLEAN,
           spectating: BOOLEAN, dead: BOOLEAN, ready: BOOLEAN, team_selected: BOOLEAN,
           score: Nat,    \* 0, or the tournament the points were made in
           stats: Nat,    \* which points: the login they began with
           quit: Nat]     \* 0, or 1 + server_force_quit_client_counter

PlayerStats == [host: {Host[c] : c \in Conns}, name: Names, tournament_id: Nat,
                spectating: BOOLEAN, dead: BOOLEAN, ready: BOOLEAN,
                team_selected: BOOLEAN, score: Nat, stats: Nat]

Online == DOMAIN players
Without(f, c) == [d \in DOMAIN f \ {c} |-> f[d]]
With(f, c, x) == [d \in DOMAIN f \cup {c} |-> IF d = c THEN x ELSE f[d]]

(* What every client should know: identifiers and names.  *)
Entry(p) == [id |-> p.id, name |-> p.name]
Roster(ps) == {Entry(ps[c]) : c \in DOMAIN ps}

Closed == [open |-> FALSE, lobby |-> FALSE, over |-> FALSE]
NoConfig == [map |-> 0, warmup |-> FALSE]
Dangling == [map |-> Len(Maps) + 2, warmup |-> FALSE]
MapConfigs(n) == [i \in 1 .. n |-> [map |-> i, warmup |-> Maps[i]]]

Init ==
    /\ players = << >> /\ killed = {} /\ logins = 0
    /\ missing = [c \in Conns |-> {}]
    /\ hashes = [c \in Conns |-> {}]
    /\ tournament = Closed /\ tid = 0 /\ warmup = FALSE
    /\ current = NoConfig
    /\ map_count = Len(Maps) /\ rotation = MapConfigs(map_count)
    /\ rotation_current_index = 0
    /\ reload_map_rotation = FALSE /\ temp_map = "none"
    /\ held = << >>
    /\ files \in [Conns -> SUBSET Paks]
    /\ view = [c \in Conns |-> {}]
    /\ told = [c \in Conns |-> {}]
    /\ fault = "none"

-----------------------------------------------------------------------------
(* event_login.  *)
UsedIds == {players[c].id : c \in Online}
(* Mutant: the last identifier plus one.  *)
NewestId == Cardinality(Online) + 1

FreeId == CHOOSE i \in 1 .. Cardinality(Online) + 1 :
            i \notin UsedIds /\ \A j \in 1 .. i - 1 : j \in UsedIds

NewPlayer(n) ==
    [id |-> FreeId, name |-> n, synced |-> FALSE, admin |-> FALSE,
     respawning |-> FALSE, spectating |-> TRUE, dead |-> FALSE, ready |-> FALSE,
     team_selected |-> FALSE, score |-> 0, stats |-> logins + 1, quit |-> 0]

HeldFor(c, n) == SelectInSeq(held, LAMBDA s : s.host = Host[c] /\ s.name = n)

Reattached(p, s) ==
    IF s.tournament_id # tid THEN p
    ELSE [p EXCEPT !.spectating = s.spectating, !.dead = TRUE, !.ready = s.ready,
                   !.team_selected = s.team_selected, !.score = s.score, !.stats = s.stats]

(* Mutant: the stats are copied, but stay in the list.  *)
StillHeld(s, i) == s
Released(s, i) == RemoveAt(s, i)

(* The new player is announced to all, the others to the new one.  *)
Introduced(c, p) ==
    [d \in Conns |-> IF d = c THEN Roster(players) \cup {Entry(p)}
                     ELSE IF d \in Online THEN view[d] \cup {Entry(p)} ELSE view[d]]

Login(c, n) ==
    /\ fault = "none"
    /\ c \notin Online
    /\ Cardinality(Online) < MaxPlayers
    /\ logins < MaxLogins
    /\ LET i == IF HoldScores THEN HeldFor(c, n) ELSE 0
           p == IF i = 0 THEN NewPlayer(n) ELSE Reattached(NewPlayer(n), held[i])
       IN  /\ players' = With(players, c, p)
           /\ held' = IF i = 0 THEN held ELSE Released(held, i)
           /\ view' = Introduced(c, p)
    /\ logins' = logins + 1
    /\ missing' = [missing EXCEPT ![c] = Paks]
    /\ hashes' = [hashes EXCEPT ![c] = files[c] \cup CheckedPaks]
    /\ told' = [told EXCEPT ![c] = {}]
    /\ UNCHANGED <<killed, files, mapVars, fault>>

-----------------------------------------------------------------------------
(* event_logout, for whatever reason the message layer has.  The last      *)
(* player closes the tournament.                                           *)
Stats(c) ==
    LET p == players[c] IN
    [host |-> Host[c], name |-> p.name, tournament_id |-> tid,
     spectating |-> p.spectating, dead |-> p.dead, ready |-> p.ready,
     team_selected |-> p.team_selected, score |-> p.score, stats |-> p.stats]

HeldAfter(c) ==
    IF Online = {c} THEN << >>
    ELSE IF HoldScores /\ ~players[c].spectating THEN Append(held, Stats(c)) ELSE held

Removed(c) ==
    [d \in Conns |-> IF d = c THEN {}
                     ELSE IF d \in Online
                          THEN {e \in view[d] : e.id # players[c].id} ELSE view[d]]

ClosedByLast(c) == IF Online = {c} THEN Closed ELSE tournament

MarkersAfter(c) == killed \ {c}

Logout(c) ==
    /\ fault = "none"
    /\ c \in Online
    /\ held' = HeldAfter(c)
    /\ view' = Removed(c)
    /\ tournament' = ClosedByLast(c)
    /\ players' = Without(players, c)
    /\ killed' = MarkersAfter(c)
    /\ missing' = [missing EXCEPT ![c] = {}]
    /\ hashes' = [hashes EXCEPT ![c] = {}]
    /\ told' = [told EXCEPT ![c] = {}]
    /\ UNCHANGED <<logins, files, tid, warmup, current, rotation, rotation_current_index,
                   reload_map_rotation, temp_map, map_count, fault>>

-----------------------------------------------------------------------------
(* event_data.  The heap of a killed connection is not read any more.      *)
Hears(c) == fault = "none" /\ c \in Online /\ c \notin killed

(* Messages about a tournament are heeded from synchronised clients and    *)
(* for the present tournament_id only; a client sends them when it has     *)
(* been told of that tournament.                                           *)
Plays(c) == Hears(c) /\ players[c].synced /\ tid \in told[c]

Set(c, p) == players' = [players EXCEPT ![c] = p]
OnlyPlayers == UNCHANGED <<killed, missing, hashes, held, logins, files, view, told,
                           mapVars, fault>>

QuitClient(p) == [p EXCEPT !.quit = 1 + QuitDelay]

(* GPSPakSyncHash: a client sends the hash of every pak it has loaded.     *)
(* Nothing keeps it from sending the hash of a pak that must not differ    *)
(* again and again, and it is told to quit every time.  (The hash of a pak *)
(* that differs and may differ changes nothing.)                           *)
PakSyncHash(c, k) ==
    /\ Hears(c)
    /\ k \in hashes[c] \cup (CheckedPaks \ files[c])
    /\ hashes' = [hashes EXCEPT ![c] = @ \ {k}]
    /\ IF k \in files[c]
       THEN /\ missing' = [missing EXCEPT ![c] = @ \ {k}]
            /\ UNCHANGED players
       ELSE /\ Set(c, QuitClient(players[c]))
            /\ UNCHANGED missing
    /\ UNCHANGED <<killed, held, logins, files, view, told, mapVars, fault>>

(* GPSPakSyncHashFinished and GPSPakSyncAck call process_sync_pak.  (A     *)
(* client that is synchronised has got its last chunk, and sends neither.) *)
Loads(c) == Hears(c) /\ hashes[c] = {} /\ ~players[c].synced

(* Mutant: the first chunk is taken for the file.  *)
TransferredAtOnce(c, k, last) == missing[c] \ {k}

(* The next chunk of a missing pak; the client has the file with the last. *)
Transferred(c, k, last) == IF last THEN missing[c] \ {k} ELSE missing[c]

PakSyncChunk(c) ==
    /\ Loads(c)
    /\ \E k \in missing[c], last \in BOOLEAN :
         /\ missing' = [missing EXCEPT ![c] = Transferred(c, k, last)]
         /\ files' = [files EXCEPT ![c] = IF last THEN @ \cup {k} ELSE @]
    /\ UNCHANGED <<players, killed, hashes, held, logins, view, told, mapVars, fault>>

(* The file cannot be opened.  The next ack finds the same pak missing.  *)
PakSyncFails(c) ==
    /\ Loads(c)
    /\ missing[c] # {}
    /\ Set(c, QuitClient(players[c]))
    /\ UNCHANGED <<killed, missing, hashes, held, logins, files, view, told, mapVars, fault>>

(* Mutant: the tournament is left to the next one's announcement.  *)
NotTold(c) == told[c]

(* sync_client: the state of the game, and Ready.  Without a tournament    *)
(* the map state it stacks is overwritten by the Ready (StackedSend).      *)
ToldBySync(c) == IF tournament.open THEN told[c] \cup {tid} ELSE told[c]

SyncClient(c) ==
    /\ Loads(c)
    /\ missing[c] = {}
    /\ Set(c, [players[c] EXCEPT !.synced = TRUE])
    /\ told' = [told EXCEPT ![c] = ToldBySync(c)]
    /\ fault' = IF current = Dangling THEN "dangling_config" ELSE "none"
    /\ UNCHANGED <<killed, missing, hashes, held, logins, files, view, mapVars>>

(* GPSJoinRequest: not sent from the lobby.  *)
JoinRequest(c) ==
    /\ Plays(c)
    /\ tournament.open /\ ~tournament.lobby /\ ~tournament.over
    /\ RefuseJoin => players[c].team_selected
    /\ Set(c, [players[c] EXCEPT !.respawning = TRUE])
    /\ OnlyPlayers

(* GPSRespawnRequest: sent by a dead player, whether or not the tournament *)
(* is still there.                                                         *)
RespawnRequest(c) ==
    /\ Plays(c)
    /\ players[c].dead
    /\ Set(c, [players[c] EXCEPT !.respawning = TRUE])
    /\ OnlyPlayers

(* Player::reset.  *)
Reset(p) == [p EXCEPT !.spectating = TRUE, !.dead = FALSE, !.ready = FALSE,
                      !.team_selected = FALSE, !.score = 0]

(* GPSSpectate: the one message about a tournament that is handled without *)
(* asking whether there is one.                                            *)
Spectate(c) ==
    /\ Plays(c)
    /\ ~players[c].spectating
    /\ \/ /\ tournament.open
          /\ Set(c, Reset(players[c]))
          /\ OnlyPlayers
       \/ /\ ~tournament.open
          /\ fault' = "null_tournament"
          /\ UNCHANGED <<serverVars, mapVars>>

(* GPSLobbyReadyRequest.  *)
LobbyReady(c) ==
    /\ Plays(c)
    /\ tournament.lobby
    /\ ~players[c].ready
    /\ Set(c, [players[c] EXCEPT !.ready = TRUE, !.team_selected = TRUE])
    /\ OnlyPlayers

(* GPSPlayerChanged.  *)
Renamed(c, n) ==
    [d \in Conns |-> IF d \notin Online THEN view[d]
                     ELSE {IF e.id = players[c].id THEN [e EXCEPT !.name = n] ELSE e :
                           e \in view[d]}]

PlayerChanged(c, n) ==
    /\ Hears(c)
    /\ n # players[c].name
    /\ Set(c, [players[c] EXCEPT !.name = n])
    /\ view' = Renamed(c, n)
    /\ UNCHANGED <<killed, missing, hashes, held, logins, files, told, mapVars, fault>>

(* The game itself, as far as it matters here.  *)
Alive(p) == ~p.dead /\ ~p.spectating
InPlay(c) ==
    /\ fault = "none" /\ c \in Online
    /\ tournament.open /\ ~tournament.lobby /\ ~tournament.over
    /\ players[c].synced /\ Alive(players[c])

Score(c) == InPlay(c) /\ Set(c, [players[c] EXCEPT !.score = tid]) /\ OnlyPlayers
Die(c) == InPlay(c) /\ Set(c, [players[c] EXCEPT !.dead = TRUE]) /\ OnlyPlayers

-----------------------------------------------------------------------------
(* Commands of the administrator (ServerAdmin).  *)
Op(c) ==
    /\ Hears(c) /\ c \in Admins /\ ~players[c].admin
    /\ Set(c, [players[c] EXCEPT !.admin = TRUE])
    /\ OnlyPlayers

Deop(c) ==
    /\ Hears(c) /\ players[c].admin
    /\ Set(c, [players[c] EXCEPT !.admin = FALSE])
    /\ OnlyPlayers

Kick(c, d) ==
    /\ Hears(c) /\ players[c].admin
    /\ d \in Online \ {c}
    /\ killed' = killed \cup {d}
    /\ UNCHANGED <<players, missing, hashes, held, logins, files, view, told, mapVars, fault>>

(* /next  *)
NextTournament(c) ==
    /\ Hears(c) /\ players[c].admin
    /\ tournament' = Closed
    /\ UNCHANGED <<serverVars, tid, warmup, current, rotation, rotation_current_index,
                   reload_map_rotation, temp_map, map_count, fault>>

(* /map  *)
LoadMap(c) ==
    /\ Hears(c) /\ players[c].admin
    /\ temp_map' \in {"warmup", "plain"}
    /\ tournament' = Closed
    /\ UNCHANGED <<serverVars, tid, warmup, current, rotation, rotation_current_index,
                   reload_map_rotation, map_count, fault>>

(* /set map_count, /reset map_count, and /reload of an edited file.  *)
SetMapCount(c, n) ==
    /\ Hears(c) /\ players[c].admin
    /\ map_count' = n
    /\ reload_map_rotation' = TRUE
    /\ UNCHANGED <<serverVars, tournament, tid, warmup, current, rotation,
                   rotation_current_index, temp_map, fault>>

-----------------------------------------------------------------------------
(* One pass of the main loop.  Last in it, once per pass: the countdown of *)
(* the clients to quit, which stops at the first it kills.                 *)
Beats(p) == p.quit > 1
Struck(p) == p.quit = 2
(* Mutant: the countdown starts again with every pass.  *)
NeverBeaten(p) == IF Beats(p) THEN [p EXCEPT !.quit = 1 + QuitDelay] ELSE p

Beaten(p) == IF Beats(p) THEN [p EXCEPT !.quit = @ - 1] ELSE p

CountDown(ps) ==
    \/ /\ \A c \in DOMAIN ps : ~Struck(ps[c])
       /\ players' = [c \in DOMAIN ps |-> Beaten(ps[c])]
       /\ UNCHANGED killed
    \/ \E c \in DOMAIN ps :
         /\ Struck(ps[c])
         /\ \E S \in SUBSET {d \in DOMAIN ps : ~Struck(ps[d])} :
              players' = [d \in DOMAIN ps |-> IF d \in S \cup {c} THEN Beaten(ps[d]) ELSE ps[d]]
         /\ killed' = killed \cup {c}

(* Respawn requests, whatever the tournament is doing.  *)
Respawned(ps) ==
    [c \in DOMAIN ps |->
       LET p == ps[c]
           q == [p EXCEPT !.respawning = FALSE]
       IN  IF ~(tournament.open /\ p.synced /\ p.respawning) THEN p
           ELSE IF Alive(p) THEN q
           ELSE [q EXCEPT !.spectating = FALSE, !.dead = FALSE, !.ready = FALSE,
                          !.team_selected = FALSE]]

(* The players of a new tournament; those of a warmup stay in the game.  *)
Kept(p) ==
    [p EXCEPT !.ready = FALSE, !.score = 0, !.dead = p.spectating]

ResetForNext(ps, switch) ==
    [c \in DOMAIN ps |->
       IF ~ps[c].synced THEN ps[c]
       ELSE IF switch THEN Kept(ps[c])
       ELSE [Reset(ps[c]) EXCEPT !.team_selected = ps[c].team_selected]]

(* select_map and the announcement of the new tournament.  *)
Announced == [c \in Conns |-> IF c \in Online /\ players[c].synced
                              THEN told[c] \cup {tid + 1} ELSE told[c]]

Starts(ps, config, warm, switch) ==
    /\ tid < MaxTournaments
    /\ tournament' = [open |-> TRUE, lobby |-> ~switch, over |-> FALSE]
    /\ tid' = tid + 1
    /\ warmup' = warm
    /\ current' = config
    /\ told' = Announced
    /\ CountDown(ResetForNext(ps, switch))
    /\ UNCHANGED <<map_count, fault>>

(* Mutant: the warmup of a temporary map does not count.  *)
SwitchOfRotation ==
    temp_map = "none" /\ tournament.open /\ warmup /\ current.map <= Len(Maps)

(* After the warmup, the game on the same map.  *)
SwitchDue == temp_map = "none" /\ tournament.open /\ warmup

SwitchToGame(ps) ==
    /\ SwitchDue
    /\ Starts(ps, current, FALSE, TRUE)
    /\ UNCHANGED <<rotation, rotation_current_index, reload_map_rotation, temp_map>>

TemporaryMap(ps) ==
    /\ temp_map # "none"
    /\ LET warm == temp_map = "warmup"
       IN  Starts(ps, [map |-> Len(Maps) + 1, warmup |-> warm], warm, FALSE)
    /\ temp_map' = "none"
    /\ UNCHANGED <<rotation, rotation_current_index, reload_map_rotation>>

NextMap(ps) ==
    /\ temp_map = "none" /\ ~SwitchDue
    /\ ~reload_map_rotation \/ map_count > 0
    /\ rotation' = IF reload_map_rotation THEN MapConfigs(map_count) ELSE rotation
    /\ reload_map_rotation' = FALSE
    /\ rotation_current_index < Len(rotation')
    /\ LET config == rotation'[rotation_current_index + 1]
       IN  Starts(ps, config, config.warmup, FALSE)
    /\ rotation_current_index' = (rotation_current_index + 1) % Len(rotation')
    /\ UNCHANGED temp_map

(* map_configs is read behind its end.  *)
NoSuchMap ==
    /\ temp_map = "none" /\ ~SwitchDue
    /\ LET configs == IF reload_map_rotation THEN map_count ELSE Len(rotation)
       IN  configs <= rotation_current_index /\ (reload_map_rotation => map_count > 0)
    /\ fault' = "rotation_index"
    /\ UNCHANGED <<serverVars, mapVars>>

(* load_map_rotation throws, after it has cleared map_configs; the rest of *)
(* the pass is skipped.                                                    *)
NoMapsDefined(ps) ==
    /\ temp_map = "none" /\ ~SwitchDue
    /\ reload_map_rotation /\ map_count = 0
    /\ tournament' = Closed
    /\ rotation' = << >>
    /\ reload_map_rotation' = FALSE
    /\ current' = IF current.map \in 1 .. Len(Maps) THEN Dangling ELSE current
    /\ players' = ps
    /\ UNCHANGED <<killed, missing, hashes, held, logins, files, view, told, tid, warmup,
                   rotation_current_index, temp_map, map_count, fault>>

NewTournament(ps) ==
    \/ /\ SwitchToGame(ps) \/ TemporaryMap(ps) \/ NextMap(ps)
       /\ UNCHANGED <<missing, hashes, held, logins, files, view>>
    \/ NoSuchMap
    \/ NoMapsDefined(ps)

(* Mutant: those who are still being synchronised are not waited for.  *)
SyncedReady(ps) == \A c \in DOMAIN ps : ps[c].synced => ps[c].ready

(* Every nth pass: all players ready start the game.  Held stats expire.   *)
AllReady(ps) == \A c \in DOMAIN ps : ps[c].ready

Broadcast(ps, t, nth) ==
    /\ tournament' = [t EXCEPT !.lobby = t.lobby /\ ~(nth /\ AllReady(ps))]
    /\ \/ held' = held
       \/ \E i \in 1 .. Len(held) : held' = RemoveAt(held, i)
    /\ CountDown(ps)
    /\ UNCHANGED <<missing, hashes, logins, files, view, told, tid, warmup, current, rotation,
                   rotation_current_index, reload_map_rotation, temp_map, map_count, fault>>

Frame ==
    /\ fault = "none"
    /\ \E runs_out, board_done, nth \in BOOLEAN :
         LET t == [tournament EXCEPT !.over = @ \/ (runs_out /\ tournament.open
                                                      /\ ~tournament.lobby)]
             ps == Respawned(players)
             ended == ~t.open \/ (t.over /\ (warmup \/ board_done))
         IN  \/ ~ended /\ Broadcast(ps, t, nth)
             \/ ended /\ Online # {} /\ NewTournament(ps)

(* A pass in which less than a frame (1/60 s) has gone by.  *)
Pass ==
    /\ fault = "none"
    /\ CountDown(players)
    /\ UNCHANGED <<missing, hashes, held, logins, files, view, told, mapVars, fault>>

-----------------------------------------------------------------------------
Synchronise(c) ==
    PakSyncChunk(c) \/ PakSyncFails(c) \/ SyncClient(c) \/ (\E k \in Paks : PakSyncHash(c, k))

Play(c) ==
    \/ JoinRequest(c) \/ RespawnRequest(c) \/ Spectate(c) \/ LobbyReady(c)
    \/ Score(c) \/ Die(c)
    \/ \E n \in Names : PlayerChanged(c, n)

Command(c) ==
    \/ Op(c) \/ Deop(c) \/ NextTournament(c) \/ LoadMap(c)
    \/ \E d \in Conns : Kick(c, d)
    \/ \E n \in 0 .. Len(Maps) : SetMapCount(c, n)

Next ==
    \/ Frame \/ Pass
    \/ \E c \in Conns : \/ Logout(c) \/ Synchronise(c) \/ Play(c) \/ Command(c)
                        \/ \E n \in Names : Login(c, n)

(* The main loop never stops; the message layer raises event_logout for a  *)
(* killed connection in the next cycle().                                  *)
Fairness ==
    /\ WF_vars(Pass \/ Frame)
    /\ \A c \in Conns : WF_vars(c \in killed /\ Logout(c))

SafeSpec == Init /\ [][Next]_vars
Spec == SafeSpec /\ Fairness

-----------------------------------------------------------------------------
TypeOK ==
    /\ Online \subseteq Conns /\ \A c \in Online : players[c] \in Player
    /\ killed \subseteq Online
    /\ missing \in [Conns -> SUBSET Paks] /\ hashes \in [Conns -> SUBSET Paks]
    /\ tournament \in [open: BOOLEAN, lobby: BOOLEAN, over: BOOLEAN]
    /\ tid \in Nat /\ warmup \in BOOLEAN
    /\ current \in [map: Nat, warmup: BOOLEAN]
    /\ rotation \in Seq([map: Nat, warmup: BOOLEAN])
    /\ rotation_current_index \in Nat
    /\ reload_map_rotation \in BOOLEAN
    /\ temp_map \in {"none", "warmup", "plain"}
    /\ map_count \in Nat /\ logins \in Nat
    /\ held \in Seq(PlayerStats)
    /\ files \in [Conns -> SUBSET Paks]
    /\ view \in [Conns -> SUBSET [id: Nat \ {0}, name: Names]]
    /\ told \in [Conns -> SUBSET Nat]
    /\ fault \in {"none", "null_tournament", "rotation_index", "dangling_config"}

(* No two players have the same identifier, whoever comes and goes: the    *)
(* clients keep their players by it (event_login, "brute force finding     *)
(* routine").                                                              *)
DistinctIds ==
    \A c, d \in Online : c # d => players[c].id # players[d].id

(* Every client knows exactly the players that are there, by identifier    *)
(* and name, from its login on: GPCAddPlayer, GPCRemovePlayer and          *)
(* GPCPlayerChanged go to all, before they are synchronised too.           *)
ViewsAgree == \A c \in Online : view[c] = Roster(players)

(* Both together: a client can tell the players apart.                     *)
PlayersAgree == DistinctIds /\ ViewsAgree

(* A client in the game has all paks of the server, whether it had them    *)
(* before or has downloaded them (process_sync_pak).                       *)
SyncedHavePaks == \A c \in Online : players[c].synced => Paks \subseteq files[c]

(* A client in the game knows the tournament that is running, whether it   *)
(* began before or after the client was synchronised, or between two       *)
(* commands of the administrator.                                          *)
SyncedKnowTournament ==
    tournament.open => \A c \in Online : players[c].synced => tid \in told[c]

(* The server plays to somebody: the last logout closes the tournament,    *)
(* wherever in cycle() it comes.                                           *)
TournamentHasPlayers == tournament.open => Online # {}

(* The tournament is played by those who know of it, and never by nobody.  *)
TournamentShared == SyncedKnowTournament /\ TournamentHasPlayers

(* The points of a player are never given to two, and not kept for a third *)
(* (event_login takes them off the list, event_logout puts them there).    *)
NoDoubleScore ==
    /\ \A c, d \in Online : c # d => players[c].stats # players[d].stats
    /\ \A i, j \in 1 .. Len(held) : i # j => held[i].stats # held[j].stats
    /\ \A c \in Online, i \in 1 .. Len(held) : players[c].stats # held[i].stats

(* A lobby is left only when everybody who is connected is ready, those    *)
(* who still load the paks included, or by a new tournament.               *)
LobbyLeftTogether ==
    [][tournament.lobby /\ tournament'.open /\ ~tournament'.lobby
       => tid' = tid /\ \A c \in Online : players[c].ready]_vars

(* A warmup that runs out is followed by the game itself, on the same map  *)
(* and without a lobby, also when its map is not of the rotation.          *)
WarmupThenGame ==
    [][tournament.open /\ warmup /\ tid' # tid
       => current' = current /\ ~warmup' /\ ~tournament'.lobby]_vars

(* A client that was told to quit is gone in the end, whatever it sends    *)
(* and whoever else is counted down, unless it is told to quit again and   *)
(* again: every further wrong hash, and every further ack for a file that  *)
(* cannot be opened, sets the counter back (quit_client).                  *)
ToldAgain(c) ==
    /\ c \in Online /\ c \in DOMAIN players'
    /\ players[c].quit > 0 /\ players'[c].quit > players[c].quit

QuitClientGoes ==
    \A c \in Conns : <>[][~ToldAgain(c)]_vars =>
                        ((c \in Online /\ players[c].quit > 0)
                           ~> (c \notin Online \/ fault # "none"))

-----------------------------------------------------------------------------
(* Server::select_map says "pick next map": there is one at the index.     *)
(* After a reload with fewer maps there may be none.                       *)
MapPicked == fault # "rotation_index"
=============================================================================
