-------------------------------- MODULE Arena --------------------------------
(***************************************************************************)
(* One deathmatch as the server plays it: shots, bombs and frogs, what     *)
(* they hit, what lies on the map, and the copies of the frogs (NPCs) and  *)
(* the objects that the synchronised clients keep from the state           *)
(* responses.  Geometry is abstract: what touches what is chosen freely    *)
(* among what the code lets touch.  One pass of Tournament::integrate is a *)
(* sequence of steps, one per element of the list it walks through; the    *)
(* handlers of the clients' messages run between passes.                   *)
(***************************************************************************)
EXTENDS Naturals, FiniteSets, Sequences, SequencesExt, Places

CONSTANTS
    Persons,          \* people
    MaxHealth,        \* MaxHealth, 100
    MaxCarried,       \* MaxAmmo, MaxBombs, MaxFrogs, 100
    ArmorPack,        \* what an armor adds
    MaxArmor,         \* MaxArmor, 100
    Damage,           \* damage of an animation
    Duration,         \* how many passes a bomb lies
    Games             \* settings of a match, the kinds of the map's objects by
                      \* their identifiers, and bounds on animations and NPCs

Weapons == {"shot", "bomb", "frog"}
Kinds == Weapons \cup {"medikit", "armor"}

ASSUME ArenaAssumption ==
    /\ IsFiniteSet(Persons)
    /\ {MaxHealth, MaxCarried, Damage, Duration} \subseteq Nat \ {0}
    /\ {ArmorPack, MaxArmor} \subseteq Nat
    /\ \A g \in Games :
        /\ {g.warmup, g.preventPick} \subseteq BOOLEAN
        /\ {g.maxAnims, g.maxNpcs} \subseteq Nat
        /\ IsFiniteSet(DOMAIN g.map) /\ DOMAIN g.map \subseteq Nat
        /\ Range(g.map) \subseteq Kinds

VARIABLES
    game,         \* the match, one of Games
    seats,        \* players: from the identifiers in use to the Player
    anims,        \* game_animations with physics
    npcs,         \* spawnable_npcs
    objects,      \* game_objects: identifier to kind and picked
    responses,    \* state_responses about NPCs and objects
    phase,        \* where the server loop is: the walk, the player, the element
    views         \* of each synchronised player who was sent every response that
                  \* was due to him, and none twice: his client's NPCs and objects

arena == <<game, seats, anims, npcs, objects, responses, phase, views>>

Player == [person: Persons, synced: BOOLEAN, respawning: BOOLEAN,
           mode: {"spectating", "dead", "alive"},
           health: 0 .. MaxHealth, armor: 0 .. MaxArmor,
           has: [Weapons -> 0 .. MaxCarried]]

(* owner is the player identifier the code keeps, by the person (history). *)
Anim == [weapon: {"shot", "bomb"}, owner: Nat, by: Persons,
         duration: 0 .. Duration, delete_me: BOOLEAN]
Npc == [id: Nat, init_owner: Nat, delete_me: BOOLEAN]
Object == [kind: Kinds, picked: BOOLEAN, spawned: BOOLEAN]
Response == [cmd: {"SpawnNPC", "RemoveNPC", "PlaceObject", "PickObject", "SpawnObject"},
             id: Nat]
View == [npcs: Seq(Nat), objects: SUBSET Nat]
Walk == [at: {"handlers", "anims", "frog", "npcs", "players", "picks", "collide", "send"},
         who: Nat, next: Nat]

Ids == DOMAIN seats
Say(c, i) == [cmd |-> c, id |-> i]
At(a, w, n) == [at |-> a, who |-> w, next |-> n]
Smallest(S) == CHOOSE i \in S : \A j \in S : i <= j

Nothing == [w \in Weapons |-> 0]
Full == [w \in Weapons |-> MaxCarried]

ArenaInit ==
    /\ game \in Games /\ seats = << >>
    /\ anims = << >> /\ npcs = << >>
    /\ objects = [o \in DOMAIN game.map |->
                    [kind |-> game.map[o], picked |-> FALSE, spawned |-> FALSE]]
    /\ responses = << >> /\ phase = At("handlers", 0, 0)
    /\ views = << >>

Handling == phase.at = "handlers"

-----------------------------------------------------------------------------
(* The clients' copies.  *)

Heard(v, r) ==
    CASE r.cmd = "SpawnNPC" -> [v EXCEPT !.npcs = Append(@, r.id)]
      [] r.cmd = "RemoveNPC" -> [v EXCEPT !.npcs = RemoveFirst(@, r.id)]
      [] r.cmd = "PickObject" -> [v EXCEPT !.objects = @ \ {r.id}]
      [] OTHER -> [v EXCEPT !.objects = @ \cup {r.id}]

HeardAll(v, rs) ==
    LET h[n \in 0 .. Len(rs)] == IF n = 0 THEN v ELSE Heard(h[n - 1], rs[n])
    IN  h[Len(rs)]

Lying(objs) == {o \in DOMAIN objs : ~objs[o].picked}

(* sync_client tells the new client every object and every NPC there is.   *)
SyncedView == [npcs |-> [k \in DOMAIN npcs |-> npcs[k].id], objects |-> Lying(objects)]

-----------------------------------------------------------------------------
(* Handlers, between two passes.  *)

Login(person) ==
    /\ Handling /\ \A i \in Ids : seats[i].person # person
    /\ LET i == Smallest((1 .. Cardinality(Ids) + 1) \ Ids)
       IN  seats' = [j \in Ids \cup {i} |-> IF j = i
             THEN [person |-> person, synced |-> FALSE, respawning |-> FALSE,
                   mode |-> "spectating", health |-> MaxHealth, armor |-> 0,
                   has |-> Nothing]
             ELSE seats[j]]
    /\ UNCHANGED <<game, anims, npcs, objects, responses, phase,
                   views>>

(* The responses that wait for the next broadcast are sent to the new      *)
(* client, ahead of what he is told anyway, and deleted: from then on all  *)
(* the copies are wrong.                                                   *)
Sync(i) ==
    /\ Handling /\ ~seats[i].synced
    /\ seats' = [seats EXCEPT ![i].synced = TRUE]
    /\ views' = IF responses # << >> THEN << >>
                ELSE [j \in DOMAIN views \cup {i} |->
                        IF j = i THEN SyncedView ELSE views[j]]
    /\ responses' = << >>
    /\ UNCHANGED <<game, anims, npcs, objects, phase>>

(* player_removed: a shot or a bomb loses an owner who leaves; an NPC does *)
(* not.                                                                    *)
(* Mutant: nor does a shot or a bomb.  *)
StillOwned(as, i) == as
Disowned(as, i) == [k \in DOMAIN as |->
    IF as[k].owner = i THEN [as[k] EXCEPT !.owner = 0] ELSE as[k]]

Logout(i) ==
    /\ Handling
    /\ seats' = [j \in Ids \ {i} |-> seats[j]]
    /\ views' = [j \in DOMAIN views \ {i} |-> views[j]]
    /\ anims' = IF seats[i].synced THEN Disowned(anims, i) ELSE anims
    /\ UNCHANGED <<game, npcs, objects, responses, phase>>

(* GPSSpectate resets the player, but not a respawn he has asked for.  *)
Spectate(i) ==
    /\ Handling /\ seats[i].synced
    /\ seats' = [seats EXCEPT ![i] =
          [@ EXCEPT !.mode = "spectating", !.health = MaxHealth, !.armor = 0,
                    !.has = Nothing]]
    /\ anims' = Disowned(anims, i)
    /\ UNCHANGED <<game, npcs, objects, responses, phase,
                   views>>

(* GPSJoinRequest of a spectator, GPSRespawnRequest of a dead player.  *)
AskToPlay(i) ==
    /\ Handling /\ seats[i].synced /\ seats[i].mode # "alive"
    /\ seats' = [seats EXCEPT ![i].respawning = TRUE]
    /\ UNCHANGED <<game, anims, npcs, objects, responses,
                   phase, views>>

(* The server does not ask whether he who fires is alive: what he carries  *)
(* goes when he respawns, not when he dies.                                *)
Fires(i, w) ==
    /\ Handling /\ seats[i].synced /\ seats[i].has[w] > 0
    /\ seats' = [seats EXCEPT ![i].has[w] = @ - 1]
    /\ UNCHANGED <<game, objects, phase, views>>

FireAnimation(i, w) ==
    /\ Fires(i, w) /\ Len(anims) < game.maxAnims
    /\ anims' = Append(anims,
          [weapon |-> w, owner |-> i, by |-> seats[i].person,
           duration |-> IF w = "bomb" THEN Duration ELSE 0, delete_me |-> FALSE])
    /\ UNCHANGED <<npcs, responses>>

FreeNpcId == Smallest((0 .. Len(npcs)) \ {npcs[k].id : k \in DOMAIN npcs})

FireFrog(i) ==
    /\ Fires(i, "frog") /\ Len(npcs) < game.maxNpcs
    /\ npcs' = Append(npcs, [id |-> FreeNpcId, init_owner |-> i, delete_me |-> FALSE])
    /\ responses' = Append(responses, Say("SpawnNPC", FreeNpcId))
    /\ UNCHANGED anims

-----------------------------------------------------------------------------
(* What a hit does.  *)

(* player_damage: what the armor lets through.  *)
Through(armor) ==
    IF game.warmup THEN 0
    ELSE IF Damage >= armor THEN Damage - armor + armor \div 2 ELSE Damage \div 2

Dies(p) == Through(p.armor) >= p.health

(* player_dies  *)
Killed(p) == [p EXCEPT !.health = 0, !.mode = "dead"]

Hurt(p) ==
    LET left == IF game.warmup THEN p.armor ELSE IF Damage >= p.armor THEN 0 ELSE p.armor - Damage
    IN  IF Dies(p) THEN Killed([p EXCEPT !.armor = left])
        ELSE [p EXCEPT !.armor = left, !.health = @ - Through(p.armor)]

(* Players H are hit.  *)
Hit(H) == seats' = [i \in Ids |-> IF i \in H THEN Hurt(seats[i]) ELSE seats[i]]

Living == {i \in Ids : seats[i].mode = "alive"}

(* NPCs K are hit: marked, and their removal announced, also of those that *)
(* are marked already.                                                     *)
Marked(ns, K) == [k \in DOMAIN ns |->
    IF k \in K THEN [ns[k] EXCEPT !.delete_me = TRUE] ELSE ns[k]]
(* Mutant: nobody is told.  *)
Unannounced(K) == << >>
Announced(K) == [n \in 1 .. Cardinality(K) |-> Say("RemoveNPC", npcs[NthOf(K, n)].id)]
RemoveMarked(ns) == Only(ns, {k \in DOMAIN ns : ~ns[k].delete_me})

(* check_killing_animation: somebody may be walking through the NPCs, and  *)
(* then those that are hit stay until he is done.                          *)
HitNpcs(ns, K, walking) ==
    IF walking THEN Marked(ns, K) ELSE RemoveMarked(Marked(ns, K))

-----------------------------------------------------------------------------
(* One pass of the server loop.  *)

Step(from, to) == phase = from /\ phase' = to

(* Objects that were picked come back when their counter has run down.  *)
StartPass ==
    /\ Step(At("handlers", 0, 0), At("anims", 0, 1))
    /\ \/ UNCHANGED <<objects, responses>>
       \/ \E o \in DOMAIN objects :
            /\ objects[o].picked
            /\ objects' = [objects EXCEPT ![o].picked = FALSE]
            /\ responses' = Append(responses, Say("PlaceObject", o))
    /\ UNCHANGED <<game, seats, anims, npcs, views>>

(* A shot flies on, or it hits players other than its owner, bombs or NPCs *)
(* or a wall, and is finished.  A bomb that is shot is finished at its     *)
(* next turn, in this pass or in the next.                                 *)
ShotFlies(k) ==
    \E H \in SUBSET (Living \ {anims[k].owner}),
       B \in SUBSET {b \in DOMAIN anims : anims[b].weapon = "bomb"},
       K \in SUBSET DOMAIN npcs, wall \in BOOLEAN :
        /\ Hit(H)
        /\ anims' = [b \in DOMAIN anims |->
              IF b \in B THEN [anims[b] EXCEPT !.duration = 0]
              ELSE IF b = k /\ (wall \/ H \cup B \cup K # {})
              THEN [anims[b] EXCEPT !.delete_me = TRUE]
              ELSE anims[b]]
        /\ npcs' = HitNpcs(npcs, K, FALSE)
        /\ responses' = responses \o Announced(K)

(* A bomb whose time is up explodes among players and NPCs; nobody walks   *)
(* through the NPCs just now, so those it hits are deleted at once.        *)
BombLies(k) ==
    /\ anims[k].duration > 1
    /\ anims' = [anims EXCEPT ![k].duration = @ - 1]
    /\ UNCHANGED <<seats, npcs, responses>>

BombExplodes(k) ==
    /\ anims[k].duration <= 1
    /\ anims' = [anims EXCEPT ![k].duration = 0, ![k].delete_me = TRUE]
    /\ \E H \in SUBSET Living, K \in SUBSET DOMAIN npcs :
        /\ Hit(H)
        /\ npcs' = HitNpcs(npcs, K, FALSE)
        /\ responses' = responses \o Announced(K)

AnimStep ==
    LET k == phase.next
    IN  /\ phase.at = "anims" /\ k \in DOMAIN anims
        /\ \/ anims[k].weapon = "shot" /\ ShotFlies(k)
           \/ anims[k].weapon = "bomb" /\ (BombLies(k) \/ BombExplodes(k))
        /\ phase' = At("anims", 0, k + 1)
        /\ UNCHANGED <<game, objects, views>>

AnimsDone ==
    /\ Step(At("anims", 0, Len(anims) + 1), At("frog", 0, 0))
    /\ anims' = Only(anims, {k \in DOMAIN anims : ~anims[k].delete_me})
    /\ UNCHANGED <<game, seats, npcs, objects, responses,
                   views>>

FreeObjectId == Smallest((0 .. Cardinality(DOMAIN objects)) \ DOMAIN objects)

(* spawn_frog: at most one frog lies on the map.  *)
SpawnFrog ==
    /\ Step(At("frog", 0, 0), At("npcs", 0, 1))
    /\ \/ /\ \A o \in DOMAIN objects : objects[o].kind # "frog"
          /\ objects' = [o \in DOMAIN objects \cup {FreeObjectId} |->
                IF o = FreeObjectId
                THEN [kind |-> "frog", picked |-> FALSE, spawned |-> TRUE]
                ELSE objects[o]]
          /\ responses' = Append(responses, Say("SpawnObject", FreeObjectId))
       \/ UNCHANGED <<objects, responses>>      \* not yet time, or one lies there
    /\ UNCHANGED <<game, seats, anims, npcs, views>>

(* update_npc_states: an NPC may turn against its owner after a while, and *)
(* it may fall off the map or onto a tile that kills.                      *)
NpcStep ==
    LET k == phase.next
    IN  /\ phase.at = "npcs" /\ k \in DOMAIN npcs
        /\ \E owner \in {npcs[k].init_owner, 0}, dies \in BOOLEAN :
            /\ npcs' = [npcs EXCEPT ![k].init_owner = owner, ![k].delete_me = dies]
            /\ responses' = IF dies THEN Append(responses, Say("RemoveNPC", npcs[k].id))
                            ELSE responses
        /\ phase' = At("npcs", 0, k + 1)
        /\ UNCHANGED <<game, seats, anims, objects, views>>

(* The walk through the players, by their identifiers.  *)
After(i) == {j \in Ids : j > i}
NextPlayer(i) == IF After(i) = {} THEN At("send", 0, 0)
                 ELSE At("players", Smallest(After(i)), 0)

NpcsDone ==
    /\ Step(At("npcs", 0, Len(npcs) + 1), NextPlayer(0))
    /\ npcs' = RemoveMarked(npcs)
    /\ UNCHANGED <<game, seats, anims, objects, responses,
                   views>>

(* A player moves, if he is alive, and may die on a tile that kills: then  *)
(* his turn is over.                                                       *)
(* Mutant: the dead go on.  *)
OnToPicks(i, p) == At("picks", i, 0)
AfterMove(i, p) == IF p.mode = "alive" THEN At("picks", i, 0) ELSE NextPlayer(i)

PlayerMoves(i) ==
    LET ready == [seats[i] EXCEPT !.has = IF game.warmup THEN Full ELSE @,
                                  !.armor = IF game.warmup THEN MaxArmor ELSE @]
    IN  /\ phase = At("players", i, 0)
        /\ \E p \in {ready, IF ready.mode = "alive" THEN Killed(ready) ELSE ready} :
            /\ seats' = [seats EXCEPT ![i] = p]
            /\ phase' = AfterMove(i, p)
        /\ UNCHANGED <<game, anims, npcs, objects, responses, views>>

AtMost(n, max) == IF n > max THEN max ELSE n

(* pick_item  *)
Picked(p, kind) ==
    CASE kind = "medikit" -> [p EXCEPT !.health = MaxHealth]
      [] kind = "armor" -> [p EXCEPT !.armor = AtMost(@ + ArmorPack, MaxArmor)]
      [] OTHER -> [p EXCEPT !.has[kind] = AtMost(@ + 1, MaxCarried)]
Needs(p, kind) ==
    CASE kind = "medikit" -> p.health < MaxHealth
      [] kind = "armor" -> p.armor < MaxArmor
      [] OTHER -> p.has[kind] < MaxCarried

(* He takes an object that lies where he is.  A spawned object is deleted. *)
PlayerPicks(i, o) ==
    /\ phase.at = "picks" /\ phase.who = i /\ phase.next <= o
    /\ ~objects[o].picked
    /\ ~game.preventPick \/ Needs(seats[i], objects[o].kind)
    /\ seats' = [seats EXCEPT ![i] = Picked(@, objects[o].kind)]
    /\ objects' = IF objects[o].spawned
                  THEN [j \in DOMAIN objects \ {o} |-> objects[j]]
                  ELSE [objects EXCEPT ![o].picked = TRUE]
    /\ responses' = Append(responses, Say("PickObject", o))
    /\ phase' = At("picks", i, o + 1)
    /\ UNCHANGED <<game, anims, npcs, views>>

PicksDone(i) ==
    /\ phase.at = "picks" /\ phase.who = i
    /\ phase' = At("collide", i, 1)
    /\ UNCHANGED <<game, seats, anims, npcs, objects, responses,
                   views>>

(* player_npc_collision: an NPC he runs into explodes, unless it still     *)
(* spares its owner.  He walks through the NPCs just now: those that are   *)
(* hit, it among them, are only marked.                                    *)
PlayerCollides(i) ==
    LET k == phase.next
    IN  /\ phase.at = "collide" /\ phase.who = i /\ k \in DOMAIN npcs
        /\ \/ UNCHANGED <<seats, npcs, responses>>
           \/ /\ npcs[k].init_owner # i
              /\ \E H \in SUBSET Living, K \in SUBSET DOMAIN npcs :
                    /\ k \in K
                    /\ Hit(H)
                    /\ npcs' = HitNpcs(npcs, K, TRUE)
                    /\ responses' = responses \o Announced(K)
        /\ phase' = At("collide", i, k + 1)
        /\ UNCHANGED <<game, anims, objects, views>>

(* The marked ones go; and he may have fallen off the map.  *)
CollideDone(i) ==
    /\ phase = At("collide", i, Len(npcs) + 1)
    /\ npcs' = RemoveMarked(npcs)
    /\ \/ UNCHANGED seats
       \/ seats' = [seats EXCEPT ![i] = Killed(@)]
    /\ phase' = NextPlayer(i)
    /\ UNCHANGED <<game, anims, objects, responses, views>>

(* The server loop broadcasts the responses to the synchronised clients    *)
(* and lets those play who asked for it.                                   *)
Respawned(p) ==
    IF ~p.synced \/ ~p.respawning THEN p
    ELSE IF p.mode = "alive" THEN [p EXCEPT !.respawning = FALSE]
    ELSE [p EXCEPT !.respawning = FALSE, !.mode = "alive", !.health = MaxHealth,
                   !.armor = 0, !.has = Nothing]

Broadcast ==
    /\ Step(At("send", 0, 0), At("handlers", 0, 0))
    /\ views' = [i \in DOMAIN views |-> HeardAll(views[i], responses)]
    /\ responses' = << >>
    /\ seats' = [i \in Ids |-> Respawned(seats[i])]
    /\ UNCHANGED <<game, anims, npcs, objects>>

Pass ==
    \/ StartPass \/ AnimStep \/ AnimsDone \/ SpawnFrog \/ NpcStep \/ NpcsDone
    \/ \E i \in Ids : \/ PlayerMoves(i) \/ PicksDone(i)
                      \/ \E o \in DOMAIN objects : PlayerPicks(i, o)
                      \/ PlayerCollides(i) \/ CollideDone(i)
    \/ Broadcast

Handlers ==
    \/ \E p \in Persons : Login(p)
    \/ \E i \in Ids : \/ Sync(i) \/ Logout(i) \/ Spectate(i) \/ AskToPlay(i)
                      \/ \E w \in {"shot", "bomb"} : FireAnimation(i, w)
                      \/ FireFrog(i)

ArenaNext == Handlers \/ Pass

ArenaSpec == ArenaInit /\ [][ArenaNext]_arena

-----------------------------------------------------------------------------
(* The state of the arena.  *)

ArenaTypeOK ==
    /\ Ids \subseteq 1 .. Cardinality(Persons) /\ \A i \in Ids : seats[i] \in Player
    /\ anims \in Seq(Anim) /\ npcs \in Seq(Npc)
    /\ DOMAIN objects \subseteq Nat /\ \A o \in DOMAIN objects : objects[o] \in Object
    /\ responses \in Seq(Response) /\ phase \in Walk
    /\ DOMAIN views \subseteq Ids /\ \A i \in DOMAIN views : views[i] \in View

(* A client's copy of the NPCs and objects is the server's whenever the    *)
(* responses have been sent, unless some did not reach him or reached him  *)
(* twice; no two NPCs share an identifier, though it is given again as     *)
(* soon as it is free and removals are announced twice.                    *)
ReplicasAgree ==
    Handling /\ responses = << >> =>
        \A i \in DOMAIN views :
            /\ IsInjective(views[i].npcs)
            /\ Range(views[i].npcs) = {npcs[k].id : k \in DOMAIN npcs}
            /\ views[i].objects = Lying(objects)

(* Whoever has the player identifier that a shot or a bomb keeps, and gets *)
(* its frags, fired it: not one who was given the identifier of a player   *)
(* who has left.                                                           *)
FragsToShooter ==
    \A k \in DOMAIN anims : anims[k].owner # 0 =>
        anims[k].owner \in Ids /\ seats[anims[k].owner].person = anims[k].by

(* What is sent to all is sent to every synchronised client once: none has *)
(* missed a response or been told twice.                                   *)
EveryoneTold == DOMAIN views = {i \in Ids : seats[i].synced}

(* A player who is dead when it comes to him takes nothing from the map.   *)
DeadTakeNothing ==
    [][\A o \in DOMAIN objects : ~objects[o].picked /\ Len(responses') > Len(responses)
         /\ responses'[Len(responses')] = Say("PickObject", o)
         => seats[phase.who].mode = "alive"]_arena
==============================================================================
