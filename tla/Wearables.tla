------------------------------ MODULE Wearables ------------------------------
(***************************************************************************)
(* What players carry in the tournaments CTF (two flags) and CTC (a coin): *)
(* how it is picked, dropped, carried home and returned, and how it fares  *)
(* when its carrier dies, spectates, disconnects or comes back.  The       *)
(* server's handlers and one pass of Tournament::integrate are a step      *)
(* each.  Where things are is abstracted to what the code asks: at the     *)
(* origin, away from it, or below the map.                                 *)
(***************************************************************************)
EXTENDS Naturals, FiniteSets, Sequences

CONSTANTS
    Conns,          \* connections, each with a host and a player name
    Kinds,          \* tournaments played: "CTF", "CTC"
    HoldScores,     \* hold_disconnected_player
    LateJoin,       \* a client may send a join request while its player is
                    \*   alive: the team window stays open after a join
    DropTime,       \* FlagDropInitialValue, CoinDropInitialValue
    MaxLogins,      \* bound: logins
    MaxTournaments  \* bound: tournaments

ASSUME WearablesAssumption ==
    /\ Kinds \subseteq {"CTF", "CTC"} /\ Kinds # {}
    /\ {HoldScores, LateJoin} \subseteq BOOLEAN
    /\ {DropTime, MaxLogins, MaxTournaments} \subseteq Nat /\ DropTime > 0

VARIABLES
    kind,         \* of all tournaments of a run
    players,      \* from the connections that are online to their Player
    things,       \* the GameObjects that are carried
    game,         \* "none", "lobby", "running", or "over": no seconds_remaining
    tournaments,  \* number of tournaments
    held,         \* held_player_stats for this tournament
    times,        \* times_of_players: the Player objects it points to
    logins        \* number of logins, which names the Player objects

vars == <<kind, players, things, game, tournaments, held, times, logins>>

Player == [object: Nat, synced: BOOLEAN, red: BOOLEAN,
           status: {"playing", "dead", "spectating"},
           wears: BOOLEAN,         \* PlayerServerFlagHasOppositeFlag or HasCoin
           refused: BOOLEAN,       \* flag_pick_refused
           respawning: BOOLEAN]

Thing == [picked: BOOLEAN, place: {"origin", "away", "below"},
          left: 0 .. DropTime]     \* spawn_counter

Online == DOMAIN players
Names == IF kind = "CTF" THEN {"red flag", "blue flag"} ELSE {"coin"}

(* What a player carries if he carries anything.  *)
Wearable(p) == IF kind = "CTC" THEN "coin" ELSE IF p.red THEN "blue flag" ELSE "red flag"
Wears(c, x) == players[c].wears /\ Wearable(players[c]) = x

Fresh(k) == [x \in IF k = "CTF" THEN {"red flag", "blue flag"} ELSE {"coin"} |->
               [picked |-> FALSE, place |-> "origin", left |-> 0]]

Init ==
    /\ kind \in Kinds
    /\ players = << >> /\ things = Fresh(kind)
    /\ game = "none" /\ tournaments = 0
    /\ held = << >> /\ times = << >> /\ logins = 0

-----------------------------------------------------------------------------
(* test_and_drop_flag, test_and_drop_coin.  A world is a record of the     *)
(* players and the things; a dropped thing is where its carrier was.       *)
World == [ps |-> players, ts |-> things]

Dropped(v, c) ==
    IF ~v.ps[c].wears THEN v
    ELSE [ps |-> [v.ps EXCEPT ![c].wears = FALSE],
          ts |-> [v.ts EXCEPT ![Wearable(v.ps[c])] =
                    [picked |-> FALSE, place |-> "away", left |-> DropTime]]]

(* player_died and player_dies.  *)
(* Mutant: the tournament is not told of the death.  *)
DiedUnseen(v, c) == [v EXCEPT !.ps[c].status = "dead"]
Died(v, c) == [Dropped(v, c) EXCEPT !.ps[c].status = "dead"]

Returned == [picked |-> FALSE, place |-> "origin", left |-> 0]

-----------------------------------------------------------------------------
(* The pass of Tournament::integrate.  First explosions and projectiles    *)
(* kill, then things move.                                                 *)
Everyone(v) == DOMAIN v.ps
Alive(v) == {c \in Everyone(v) : v.ps[c].status = "playing"}

Killed(v, S) ==
    [ps |-> [c \in Everyone(v) |-> IF c \in S THEN [v.ps[c] EXCEPT !.status = "dead", !.wears = FALSE]
                                   ELSE v.ps[c]],
     ts |-> [x \in DOMAIN v.ts |->
               IF \E c \in S : v.ps[c].wears /\ Wearable(v.ps[c]) = x
               THEN [picked |-> FALSE, place |-> "away", left |-> DropTime] ELSE v.ts[x]]]

Moved(v, S) ==
    [v EXCEPT !.ts = [x \in DOMAIN v.ts |->
        IF x \in S /\ ~v.ts[x].picked /\ v.ts[x].place = "away"
        THEN [v.ts[x] EXCEPT !.place = "below"] ELSE v.ts[x]]]

(* check_flag_validity, check_coin_validity.  *)
Valid(t, tick) ==
    IF t.picked \/ t.place = "origin" THEN t
    ELSE IF t.place = "below" \/ (tick /\ t.left <= 1) THEN Returned
    ELSE [t EXCEPT !.left = IF tick THEN @ - 1 ELSE @]

Validated(v, tick) == [v EXCEPT !.ts = [x \in DOMAIN v.ts |-> Valid(v.ts[x], tick)]]

(* The fire button drops a flag, and it cannot be picked up for a while.   *)
Thrown(v, S) ==
    IF kind # "CTF" THEN v
    ELSE LET throwers == {c \in S : v.ps[c].wears}
         IN  [ps |-> [c \in Everyone(v) |->
                        IF c \in throwers THEN [v.ps[c] EXCEPT !.wears = FALSE, !.refused = TRUE]
                        ELSE v.ps[c]],
              ts |-> [x \in DOMAIN v.ts |->
                        IF \E c \in throwers : Wearable(v.ps[c]) = x
                        THEN [picked |-> FALSE, place |-> "away", left |-> DropTime]
                        ELSE v.ts[x]]]

Forgiven(v, S) ==
    [v EXCEPT !.ps = [c \in Everyone(v) |->
        IF c \in S THEN [v.ps[c] EXCEPT !.refused = FALSE] ELSE v.ps[c]]]

(* tile_collision: the base of one's own team; the thing goes home.        *)
AtBase(v, c) ==
    IF kind # "CTF" \/ ~v.ps[c].wears THEN v
    ELSE [ps |-> [v.ps EXCEPT ![c].wears = FALSE],
          ts |-> [v.ts EXCEPT ![Wearable(v.ps[c])] = Returned]]

(* pick_item: the other team's flag is taken, one's own is returned.       *)
CanPick(v, c, x) == ~v.ts[x].picked /\ (kind = "CTF" => ~v.ps[c].refused)

Picked(v, c, x) ==
    IF ~CanPick(v, c, x) THEN v
    ELSE IF Wearable(v.ps[c]) = x
    THEN [ps |-> [v.ps EXCEPT ![c].wears = TRUE],
          ts |-> [v.ts EXCEPT ![x].picked = TRUE]]
    ELSE [v EXCEPT !.ts[x] = Returned]

PickedAll(v, c, S) ==
    CASE S = {} -> v
      [] Cardinality(S) = 1 -> Picked(v, c, CHOOSE x \in S : TRUE)
      [] OTHER -> LET x == CHOOSE x \in S : TRUE
                      y == CHOOSE y \in S : y # x
                  IN  Picked(Picked(v, c, x), c, y)

(* What a living player runs into: tiles, then things, then goats and the  *)
(* end of the map.                                                         *)
Visited(v, c, tile, S, dies) ==
    LET u == CASE tile = "base" -> AtBase(v, c)
               [] tile = "killing" -> Died(v, c)
               [] OTHER -> v
        picked == IF u.ps[c].status = "dead" THEN u ELSE PickedAll(u, c, S)
    IN  IF dies /\ picked.ps[c].status # "dead" THEN Died(picked, c) ELSE picked

(* The respawn requests, after every pass, also in the lobby.  *)
Respawned(v) ==
    [v EXCEPT !.ps = [c \in Everyone(v) |->
        LET p == v.ps[c] IN
        IF ~(p.synced /\ p.respawning) THEN p
        ELSE IF p.status = "playing" THEN [p EXCEPT !.respawning = FALSE]
        ELSE [p EXCEPT !.respawning = FALSE, !.status = "playing", !.wears = FALSE,
                       !.refused = FALSE]]]

Becomes(v) == players' = v.ps /\ things' = v.ts

(* What is held of players who have been away too long is deleted.  *)
HeldExpire == \E S \in SUBSET DOMAIN held : held' = [c \in S |-> held[c]]

Carriers(v) == {c \in Everyone(v) : v.ps[c].wears}
Unforgiven(v) == {c \in Everyone(v) : v.ps[c].refused}
Loose(v) == {x \in DOMAIN v.ts : ~v.ts[x].picked}

Integrate(tick) ==
    /\ game = "running" /\ Online # {}
    /\ \E shot \in SUBSET Alive(World) :
       \E fallen \in SUBSET Loose(Killed(World, shot)) :
         LET v1 == Validated(Moved(Killed(World, shot), fallen), tick)
         IN  \E fire \in SUBSET Carriers(v1) :
             \E forgiven \in SUBSET Unforgiven(Thrown(v1, fire)) :
               LET v2 == Forgiven(Thrown(v1, fire), forgiven)
               IN  \/ Becomes(Respawned(v2))
                   \/ \E c \in Alive(v2), tile \in {"none", "base", "killing"},
                         S \in SUBSET Names, dies \in BOOLEAN :
                        Becomes(Respawned(Visited(v2, c, tile, S, dies)))
    /\ HeldExpire
    /\ UNCHANGED <<kind, game, tournaments, times, logins>>

IdlePass ==
    /\ game \in {"lobby", "over"}
    /\ Becomes(Respawned(World))
    /\ HeldExpire
    /\ UNCHANGED <<kind, game, tournaments, times, logins>>

-----------------------------------------------------------------------------
(* The server's handlers.  *)
Without(f, c) == [d \in DOMAIN f \ {c} |-> f[d]]
With(f, c, x) == [d \in DOMAIN f \cup {c} |-> IF d = c THEN x ELSE f[d]]

Newcomer(c) ==
    [object |-> logins + 1, synced |-> FALSE, red |-> FALSE, status |-> "spectating",
     wears |-> FALSE, refused |-> FALSE, respawning |-> FALSE]

(* event_login: the states of a player who comes back are restored.        *)
Login(c) ==
    /\ c \notin Online /\ logins < MaxLogins
    /\ players' = With(players, c,
                       IF c \in DOMAIN held
                       THEN [Newcomer(c) EXCEPT !.red = held[c].red, !.wears = held[c].wears,
                                                !.status = "dead"]
                       ELSE Newcomer(c))
    /\ held' = Without(held, c)
    /\ logins' = logins + 1
    /\ UNCHANGED <<kind, things, game, tournaments, times>>

(* sync_client informs the tournament, if there is one: player_added.  *)
Sync(c) ==
    /\ c \in Online /\ ~players[c].synced
    /\ players' = [players EXCEPT ![c].synced = TRUE]
    /\ times' = IF kind = "CTC" /\ game # "none"
                THEN Append(times, players[c].object) ELSE times
    /\ UNCHANGED <<kind, things, game, tournaments, held, logins>>

(* player_removed takes the first entry off the list.  *)
TimesWithout(o) ==
    IF \E i \in 1 .. Len(times) : times[i] = o
    THEN LET i == CHOOSE i \in 1 .. Len(times) :
                    times[i] = o /\ \A j \in 1 .. i - 1 : times[j] # o
         IN  SubSeq(times, 1, i - 1) \o SubSeq(times, i + 1, Len(times))
    ELSE times

Reset(p) == [p EXCEPT !.status = "spectating", !.wears = FALSE, !.red = FALSE,
                      !.refused = FALSE]

(* Mutant: the player is reset before the tournament is informed.  *)
SpectatesAtOnce(c) == [World EXCEPT !.ps[c] = Reset(@)]
Spectates(c) == LET v == Dropped(World, c) IN [v EXCEPT !.ps[c] = Reset(v.ps[c])]

Spectate(c) ==
    /\ game # "none"
    /\ c \in Online /\ players[c].synced /\ players[c].status # "spectating"
    /\ Becomes(Spectates(c))
    /\ times' = IF kind = "CTC" THEN Append(TimesWithout(players[c].object), players[c].object)
                ELSE times
    /\ UNCHANGED <<kind, game, tournaments, held, logins>>

(* event_logout: the states are kept as they are, then the tournament is   *)
(* informed.  The last player closes the tournament.                       *)
Logout(c) ==
    /\ c \in Online
    /\ IF Online = {c}
       THEN /\ things' = Fresh(kind) /\ game' = "none" /\ held' = << >> /\ times' = << >>
       ELSE /\ things' = IF players[c].synced /\ game # "none" THEN Dropped(World, c).ts ELSE things
            /\ times' = IF players[c].synced /\ kind = "CTC"
                        THEN TimesWithout(players[c].object) ELSE times
            /\ held' = IF HoldScores /\ players[c].status # "spectating"
                       THEN With(held, c, [red |-> players[c].red, wears |-> players[c].wears])
                       ELSE held
            /\ UNCHANGED game
    /\ players' = Without(players, c)
    /\ UNCHANGED <<kind, tournaments, logins>>

(* GPSJoinRequest, player_joins: a red team is noted, a blue one is not.   *)
Join(c, red) ==
    /\ c \in Online /\ players[c].synced /\ game = "running"
    /\ players[c].status = "spectating" \/ (LateJoin /\ players[c].status = "playing")
    /\ players' = [players EXCEPT ![c].red = @ \/ (red /\ kind = "CTF"), ![c].respawning = TRUE]
    /\ UNCHANGED <<kind, things, game, tournaments, held, times, logins>>

RespawnRequest(c) ==
    /\ c \in Online /\ players[c].synced /\ players[c].status = "dead"
    /\ players' = [players EXCEPT ![c].respawning = TRUE]
    /\ UNCHANGED <<kind, things, game, tournaments, held, times, logins>>

(* GPSLobbyTeamRedSelect, GPSLobbyTeamBlueSelect.  *)
SelectTeam(c, red) ==
    /\ c \in Online /\ players[c].synced /\ game = "lobby" /\ kind = "CTF"
    /\ players' = [players EXCEPT ![c].red = red]
    /\ UNCHANGED <<kind, things, game, tournaments, held, times, logins>>

-----------------------------------------------------------------------------
(* The life of a tournament.  *)
StartGame == game = "lobby" /\ Online # {} /\ game' = "running"
             /\ UNCHANGED <<kind, players, things, tournaments, held, times, logins>>
TimeUp == game = "running" /\ game' = "over"
          /\ UNCHANGED <<kind, players, things, tournaments, held, times, logins>>

(* /next and /map.  *)
Close ==
    /\ game # "none" /\ Online # {}
    /\ game' = "none" /\ things' = Fresh(kind) /\ times' = << >>
    /\ UNCHANGED <<kind, players, tournaments, held, logins>>

(* After a warmup the players stay in the game.  *)
Kept(p) == [p EXCEPT !.wears = FALSE, !.refused = FALSE,
                     !.status = IF @ = "spectating" THEN @ ELSE "playing"]

Objects(f) == CHOOSE s \in [1 .. Cardinality(DOMAIN f) -> {f[c].object : c \in DOMAIN f}] :
                \A i, j \in DOMAIN s : i < j => s[i] < s[j]

NextTournament(switch) ==
    /\ tournaments < MaxTournaments /\ Online # {}
    /\ IF switch THEN game = "over" ELSE game \in {"none", "over"}
    /\ tournaments' = tournaments + 1
    /\ things' = Fresh(kind)
    /\ game' = IF switch THEN "running" ELSE "lobby"
    /\ \E selected \in SUBSET Online :
         players' = [c \in Online |->
                       IF ~players[c].synced THEN players[c]
                       ELSE IF switch THEN Kept(players[c])
                       ELSE [Reset(players[c]) EXCEPT !.red = players[c].red /\ c \in selected]]
    /\ held' = << >>
    /\ times' = IF kind = "CTC" THEN Objects(players) ELSE times
    /\ UNCHANGED <<kind, logins>>

Next ==
    \/ \E tick \in BOOLEAN : Integrate(tick)
    \/ IdlePass \/ StartGame \/ TimeUp \/ Close
    \/ \E switch \in BOOLEAN : NextTournament(switch)
    \/ \E c \in Conns : \/ Login(c) \/ Sync(c) \/ Spectate(c) \/ Logout(c)
                        \/ RespawnRequest(c)
                        \/ \E red \in BOOLEAN : Join(c, red) \/ SelectTeam(c, red)

Spec == Init /\ [][Next]_vars

-----------------------------------------------------------------------------
TypeOK ==
    /\ kind \in Kinds
    /\ Online \subseteq Conns /\ \A c \in Online : players[c] \in Player
    /\ things \in [Names -> Thing]
    /\ game \in {"none", "lobby", "running", "over"}
    /\ tournaments \in Nat /\ logins \in Nat
    /\ DOMAIN held \subseteq Conns
    /\ \A c \in DOMAIN held : held[c] \in [red: BOOLEAN, wears: BOOLEAN]
    /\ times \in Seq(Nat)

(* A flag or the coin is carried by one player, or lies where somebody can *)
(* pick it up: it is neither lost nor doubled, whoever dies, leaves,       *)
(* spectates or is reset (test_and_drop_flag, pick_item, return_flag).     *)
CarriedOnce ==
    game # "none" => \A x \in Names :
        /\ things[x].picked => \E c \in Online : Wears(c, x)
        /\ \A c, d \in Online : Wears(c, x) /\ Wears(d, x) => c = d
        /\ \A c \in Online : Wears(c, x) => things[x].picked

(* Only a living player carries anything: players who are dead, spectate   *)
(* or load the paks have dropped it.                                       *)
CarriersPlay ==
    \A c \in Online : players[c].wears => players[c].status = "playing" /\ players[c].synced

(* What makes CarriedOnce inductive when no scores are held and no living  *)
(* player joins: only players who play carry, players who play are         *)
(* synchronised, so every handler that takes them away takes the flag from *)
(* them first, and nobody brings a flag into the lobby.                    *)
CarryInv ==
    /\ kind \in {"CTF", "CTC"}
    /\ Online \subseteq Conns
    /\ \A c \in Online :
         /\ players[c] \in Player
         /\ players[c].status = "playing" => players[c].synced
         /\ game = "lobby" => ~players[c].wears
    /\ things \in [Names -> Thing]
    /\ DOMAIN held = {}
    /\ CarriersPlay
    /\ CarriedOnce

-----------------------------------------------------------------------------
(* TournamentCTC.cpp says of its constructor "add all players into list",  *)
(* and player_added and player_removed keep it: what it points to are      *)
(* players.  One who is loading is added twice, and removed once.          *)
ListedArePlayers ==
    \A i \in 1 .. Len(times) : \E c \in Online : players[c].object = times[i]
=============================================================================
