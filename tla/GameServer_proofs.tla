-------------------------- MODULE GameServer_proofs --------------------------
(***************************************************************************)
(* What holds of the game server whatever the connections, names, paks,    *)
(* maps and limits are: the identifiers, the players the clients know, the *)
(* paks of those in the game, who plays the tournament, and the points     *)
(* kept for those who left.                                                *)
(***************************************************************************)
EXTENDS GameServer, Sequence_lemmas

-----------------------------------------------------------------------------
(* Operators of the model.  *)

(* The search of event_login ends with an identifier nobody has, one more  *)
(* than the players there are at most.                                     *)
FreeIdFound == FreeId \in 1 .. Cardinality(Online) + 1 /\ FreeId \notin UsedIds

(* Among n + 1 numbers there is a free one, and a smallest.  *)
LEMMA FreeIdIsFree ==
    ASSUME IsFiniteSet(Online), \A c \in Online : players[c].id \in Nat \ {0}
    PROVE  FreeIdFound
<1> DEFINE n == Cardinality(Online)
           free == {i \in 1 .. n + 1 : i \notin UsedIds}
<1>1. n \in Nat
  BY FS_CardinalityType
<1>2. IsFiniteSet(UsedIds) /\ Cardinality(UsedIds) <= n
  <2> DEFINE f == [c \in Online |-> players[c].id]
  <2>1. f \in Surjection(Online, UsedIds)
    BY DEF Surjection, UsedIds
  <2> QED
    BY <2>1, FS_Surjection
<1>3. Cardinality(1 .. n + 1) = n + 1
  BY <1>1, FS_Interval
<1>4. ~(1 .. n + 1 \subseteq UsedIds)
  <2> SUFFICES ASSUME 1 .. n + 1 \subseteq UsedIds PROVE FALSE
    OBVIOUS
  <2>1. Cardinality(1 .. n + 1) <= Cardinality(UsedIds)
    BY <1>2, FS_Subset
  <2>2. Cardinality(UsedIds) \in Nat
    BY <1>2, FS_CardinalityType
  <2> QED
    BY <1>1, <1>2, <1>3, <2>1, <2>2
<1>5. PICK i \in free : \A j \in free : i <= j
  <2>1. free # {} /\ free \in SUBSET Nat
    BY <1>4
  <2> QED
    BY <2>1, LeastExists
<1>6. \A j \in 1 .. i - 1 : j \in UsedIds
  BY <1>1, <1>5
<1>7. \E k \in 1 .. n + 1 : k \notin UsedIds /\ \A j \in 1 .. k - 1 : j \in UsedIds
  BY <1>5, <1>6
<1> QED
  BY <1>7 DEF FreeId, FreeIdFound

LEMMA RemoveAtIs ==
    ASSUME NEW S, NEW s \in Seq(S), NEW i \in 1 .. Len(s)
    PROVE  /\ RemoveAt(s, i) \in Seq(S)
           /\ Len(RemoveAt(s, i)) = Len(s) - 1
           /\ \A j \in 1 .. Len(s) - 1 :
                RemoveAt(s, i)[j] = IF j < i THEN s[j] ELSE s[j + 1]
<1> DEFINE a == SubSeq(s, 1, i - 1)
           b == SubSeq(s, i + 1, Len(s))
<1>1. Len(s) \in Nat /\ i \in Int
  BY LenProperties
<1>2. /\ a \in Seq(S) /\ Len(a) = i - 1
      /\ \A j \in 1 .. i - 1 : a[j] = s[j]
  <2>1. \A j \in 1 .. i - 1 : s[j] \in S
    BY <1>1, ElementOfSeq
  <2> QED
    BY <1>1, <2>1, SubSeqProperties
<1>3. /\ b \in Seq(S) /\ Len(b) = Len(s) - i
      /\ \A j \in 1 .. Len(s) - i : b[j] = s[i + j]
  <2>1. \A j \in i + 1 .. Len(s) : s[j] \in S
    BY <1>1, ElementOfSeq
  <2> QED
    BY <1>1, <2>1, SubSeqProperties
<1>4. RemoveAt(s, i) = a \o b
  BY DEF RemoveAt
<1> HIDE DEF a, b
<1>5. /\ a \o b \in Seq(S) /\ Len(a \o b) = Len(s) - 1
      /\ \A j \in 1 .. Len(s) - 1 : (a \o b)[j] = IF j <= Len(a) THEN a[j] ELSE b[j - Len(a)]
  <2>1. /\ a \o b \in Seq(S) /\ Len(a \o b) = Len(a) + Len(b)
        /\ \A j \in 1 .. Len(a) + Len(b) :
             (a \o b)[j] = IF j <= Len(a) THEN a[j] ELSE b[j - Len(a)]
    BY <1>2, <1>3, ConcatProperties
  <2>2. Len(a) + Len(b) = Len(s) - 1
    BY <1>1, <1>2, <1>3
  <2> QED
    BY <2>1, <2>2
<1> QED
  BY <1>1, <1>2, <1>3, <1>4, <1>5

(* The position found is one of the list, or none.  *)
LEMMA HeldForIs ==
    ASSUME NEW c, NEW n, Len(held) \in Nat
    PROVE  HeldFor(c, n) \in 0 .. Len(held)
<1> DEFINE I == {i \in 1 .. Len(held) : held[i].host = Host[c] /\ held[i].name = n}
<1>1. HeldFor(c, n) = IF I # {} THEN Min(I) ELSE 0
  BY DEF HeldFor, SelectInSeq
<1>2. CASE I = {}
  BY <1>1, <1>2
<1>3. CASE I # {}
  <2> I \in SUBSET Nat
    OBVIOUS
  <2> HIDE DEF I
  <2>1. \E i \in I : \A j \in I : i <= j
    BY <1>3, LeastExists
  <2>2. Min(I) \in I
    BY <2>1 DEF Min
  <2>3. Min(I) \in 1 .. Len(held)
    BY <2>2 DEF I
  <2> QED
    BY <1>1, <1>3, <2>3
<1> QED
  BY <1>2, <1>3

-----------------------------------------------------------------------------
(* What the operators on a player keep: who it is, which points it has and *)
(* whether it is in the game.                                              *)
Same(p, q) ==
    q.id = p.id /\ q.name = p.name /\ q.stats = p.stats /\ q.synced = p.synced

LEMMA PlayerIsKept ==
    ASSUME NEW p \in Player
    PROVE  /\ Reset(p) \in Player /\ Same(p, Reset(p))
           /\ Kept(p) \in Player /\ Same(p, Kept(p))
           /\ Beaten(p) \in Player /\ Same(p, Beaten(p))
           /\ QuitClient(p) \in Player /\ Same(p, QuitClient(p))
           /\ [Reset(p) EXCEPT !.team_selected = p.team_selected] \in Player
           /\ Same(p, [Reset(p) EXCEPT !.team_selected = p.team_selected])
<1>1. Reset(p) \in Player /\ Same(p, Reset(p))
  BY DEF Player, Same, Reset
<1>2. Kept(p) \in Player /\ Same(p, Kept(p))
  BY DEF Player, Same, Kept
<1>3. Beaten(p) \in Player /\ Same(p, Beaten(p))
  BY DEF Player, Same, Beaten, Beats
<1>4. QuitClient(p) \in Player /\ Same(p, QuitClient(p))
  BY SMTT(30), ServerAssumption DEF Player, Same, QuitClient
<1>5. /\ [Reset(p) EXCEPT !.team_selected = p.team_selected] \in Player
      /\ Same(p, [Reset(p) EXCEPT !.team_selected = p.team_selected])
  BY DEF Player, Same, Reset
<1> QED
  BY <1>1, <1>2, <1>3, <1>4, <1>5

PlayersTyped(ps) ==
    DOMAIN ps \subseteq Conns /\ IsFiniteSet(DOMAIN ps) /\ \A c \in DOMAIN ps : ps[c] \in Player

SameAll(ps, qs) == DOMAIN qs = DOMAIN ps /\ \A c \in DOMAIN ps : Same(ps[c], qs[c])

LEMMA SameAllTransitive ==
    ASSUME NEW ps, NEW qs, NEW rs, SameAll(ps, qs), SameAll(qs, rs)
    PROVE  SameAll(ps, rs)
BY DEF SameAll, Same

LEMMA RespawnedIsTyped ==
    ASSUME NEW ps, PlayersTyped(ps)
    PROVE  /\ PlayersTyped(Respawned(ps)) /\ SameAll(ps, Respawned(ps))
           /\ \A c \in DOMAIN ps : Respawned(ps)[c].ready => ps[c].ready
<1>1. DOMAIN Respawned(ps) = DOMAIN ps
  BY DEF Respawned
<1>2. ASSUME NEW c \in DOMAIN ps
      PROVE  /\ Respawned(ps)[c] \in Player /\ Same(ps[c], Respawned(ps)[c])
             /\ Respawned(ps)[c].ready => ps[c].ready
  <2> DEFINE p == ps[c]
             q == [p EXCEPT !.respawning = FALSE]
             r == [q EXCEPT !.spectating = FALSE, !.dead = FALSE, !.ready = FALSE,
                            !.team_selected = FALSE]
  <2>1. p \in Player
    BY DEF PlayersTyped
  <2>2. Respawned(ps)[c] \in {p, q, r}
    BY DEF Respawned
  <2> HIDE DEF p
  <2>3. q \in Player /\ Same(p, q) /\ q.ready = p.ready
    BY <2>1 DEF Player, Same
  <2>4. r \in Player /\ Same(p, r) /\ ~r.ready
    BY <2>1 DEF Player, Same
  <2>5. Same(p, p)
    BY DEF Same
  <2> HIDE DEF q, r
  <2> QED
    BY <2>1, <2>2, <2>3, <2>4, <2>5 DEF p
<1> QED
  BY <1>1, <1>2 DEF PlayersTyped, SameAll

LEMMA ResetIsTyped ==
    ASSUME NEW ps, PlayersTyped(ps), NEW switch
    PROVE  PlayersTyped(ResetForNext(ps, switch)) /\ SameAll(ps, ResetForNext(ps, switch))
<1>1. DOMAIN ResetForNext(ps, switch) = DOMAIN ps
  BY DEF ResetForNext
<1>2. ASSUME NEW c \in DOMAIN ps
      PROVE  /\ ResetForNext(ps, switch)[c] \in Player
             /\ Same(ps[c], ResetForNext(ps, switch)[c])
  <2>1. ps[c] \in Player
    BY DEF PlayersTyped
  <2>2. ResetForNext(ps, switch)[c] \in
           {ps[c], Kept(ps[c]), [Reset(ps[c]) EXCEPT !.team_selected = ps[c].team_selected]}
    BY DEF ResetForNext
  <2>3. Same(ps[c], ps[c])
    BY DEF Same
  <2> QED
    BY <2>1, <2>2, <2>3, PlayerIsKept
<1> QED
  BY <1>1, <1>2 DEF PlayersTyped, SameAll

LEMMA CountDownIsTyped ==
    ASSUME NEW ps, PlayersTyped(ps), killed \subseteq DOMAIN ps, CountDown(ps)
    PROVE  /\ PlayersTyped(players') /\ SameAll(ps, players')
           /\ killed' \subseteq DOMAIN ps
<1>1. ASSUME NEW c \in DOMAIN ps
      PROVE  /\ ps[c] \in Player /\ Same(ps[c], ps[c])
             /\ Beaten(ps[c]) \in Player /\ Same(ps[c], Beaten(ps[c]))
  BY PlayerIsKept DEF PlayersTyped, Same
<1>2. CASE /\ players' = [c \in DOMAIN ps |-> Beaten(ps[c])]
           /\ UNCHANGED killed
  BY <1>1, <1>2 DEF PlayersTyped, SameAll
<1>3. ASSUME NEW c \in DOMAIN ps, NEW S,
             players' = [d \in DOMAIN ps |-> IF d \in S \cup {c} THEN Beaten(ps[d]) ELSE ps[d]],
             killed' = killed \cup {c}
      PROVE  /\ PlayersTyped(players') /\ SameAll(ps, players')
             /\ killed' \subseteq DOMAIN ps
  <2>1. DOMAIN players' = DOMAIN ps /\ killed' \subseteq DOMAIN ps
    BY <1>3
  <2>2. ASSUME NEW d \in DOMAIN ps
        PROVE  players'[d] \in Player /\ Same(ps[d], players'[d])
    BY <1>1, <1>3
  <2> QED
    BY <2>1, <2>2 DEF PlayersTyped, SameAll
<1> QED
  BY <1>2, <1>3 DEF CountDown

-----------------------------------------------------------------------------
(* The types.  *)
MapConfig == [map : Nat, warmup : BOOLEAN]

ServerTyped ==
    /\ killed \subseteq Online
    /\ missing \in [Conns -> SUBSET Paks] /\ hashes \in [Conns -> SUBSET Paks]
    /\ held \in Seq(PlayerStats) /\ logins \in Nat
    /\ files \in [Conns -> SUBSET Paks]
    /\ view \in [Conns -> SUBSET [id : Nat \ {0}, name : Names]]
    /\ told \in [Conns -> SUBSET Nat]

MapsTyped ==
    /\ tournament \in [open : BOOLEAN, lobby : BOOLEAN, over : BOOLEAN]
    /\ tid \in Nat /\ warmup \in BOOLEAN
    /\ current \in MapConfig
    /\ rotation \in Seq(MapConfig)
    /\ rotation_current_index \in Nat
    /\ reload_map_rotation \in BOOLEAN
    /\ temp_map \in {"none", "warmup", "plain"}
    /\ map_count \in 0 .. Len(Maps)

FaultTyped == fault \in {"none", "null_tournament", "rotation_index", "dangling_config"}

Typed == PlayersTyped(players) /\ ServerTyped /\ MapsTyped /\ FaultTyped

LEMMA TypedIsTypeOK == Typed => TypeOK
BY ServerAssumption DEF Typed, PlayersTyped, ServerTyped, MapsTyped, FaultTyped, TypeOK, Online, MapConfig

LEMMA MapConfigsTyped ==
    ASSUME NEW n \in 0 .. Len(Maps)
    PROVE  MapConfigs(n) \in Seq(MapConfig)
BY ServerAssumption DEF MapConfigs, MapConfig

LEMMA ClosedTyped == Closed \in [open : BOOLEAN, lobby : BOOLEAN, over : BOOLEAN]
BY DEF Closed

LEMMA InitTyped == Init => Typed
<1> SUFFICES ASSUME Init PROVE Typed
  OBVIOUS
<1> USE DEF Init
<1>1. PlayersTyped(players)
  BY FS_EmptySet DEF PlayersTyped
<1>2. ServerTyped
  BY DEF ServerTyped, Online
<1>3. MapsTyped
  <2>1. Len(Maps) \in Nat
    BY ServerAssumption
  <2>2. rotation \in Seq(MapConfig)
    BY <2>1, MapConfigsTyped
  <2>3. tournament \in [open : BOOLEAN, lobby : BOOLEAN, over : BOOLEAN]
    BY ClosedTyped
  <2>4. current \in MapConfig
    BY DEF MapConfig, NoConfig
  <2>5. warmup \in BOOLEAN /\ reload_map_rotation \in BOOLEAN
    BY Zenon
  <2>6. tid \in Nat /\ rotation_current_index \in Nat /\ map_count \in 0 .. Len(Maps)
    BY <2>1
  <2>7. temp_map \in {"none", "warmup", "plain"}
    OBVIOUS
  <2> QED
    BY <2>2, <2>3, <2>4, <2>5, <2>6, <2>7, Zenon DEF MapsTyped
<1> QED
  BY <1>1, <1>2, <1>3 DEF Typed, FaultTyped

(* One player replaced by another.  *)
LEMMA SetIsTyped ==
    ASSUME PlayersTyped(players), NEW c \in Online, NEW p \in Player, Set(c, p)
    PROVE  PlayersTyped(players') /\ DOMAIN players' = DOMAIN players
BY DEF PlayersTyped, Set, Online

(* What leaves the rest alone.  *)
LEMMA OnlyPlayersTyped ==
    ASSUME Typed, OnlyPlayers, NEW c \in Online, NEW p \in Player, Set(c, p)
    PROVE  Typed'
<1>1. PlayersTyped(players') /\ Online' = Online
  BY SetIsTyped DEF Typed, Online
<1> QED
  BY <1>1 DEF Typed, ServerTyped, MapsTyped, FaultTyped, OnlyPlayers, mapVars

LEMMA PlayTyped ==
    ASSUME Typed, NEW c \in Conns, Play(c)
    PROVE  Typed'
<1> DEFINE q == players[c]
<1>1. c \in Online => q \in Player
  BY DEF Typed, PlayersTyped, Online
<1>2. CASE JoinRequest(c) \/ RespawnRequest(c)
  <2>1. c \in Online /\ OnlyPlayers /\ Set(c, [q EXCEPT !.respawning = TRUE])
    BY <1>2 DEF JoinRequest, RespawnRequest, Plays, Hears
  <2>2. [q EXCEPT !.respawning = TRUE] \in Player
    BY <1>1, <2>1 DEF Player
  <2> QED
    BY <2>1, <2>2, OnlyPlayersTyped
<1>3. CASE Spectate(c)
  <2>1. c \in Online
    BY <1>3 DEF Spectate, Plays, Hears
  <2>2. CASE Set(c, Reset(q)) /\ OnlyPlayers
    BY <1>1, <2>1, <2>2, PlayerIsKept, OnlyPlayersTyped
  <2>3. CASE fault' = "null_tournament" /\ UNCHANGED <<serverVars, mapVars>>
    BY <2>3 DEF Typed, PlayersTyped, ServerTyped, MapsTyped, FaultTyped, serverVars, mapVars, Online
  <2> QED
    BY <1>3, <2>2, <2>3 DEF Spectate
<1>4. CASE LobbyReady(c)
  <2>1. /\ c \in Online /\ OnlyPlayers
        /\ Set(c, [q EXCEPT !.ready = TRUE, !.team_selected = TRUE])
    BY <1>4 DEF LobbyReady, Plays, Hears
  <2>2. [q EXCEPT !.ready = TRUE, !.team_selected = TRUE] \in Player
    BY <1>1, <2>1 DEF Player
  <2> QED
    BY <2>1, <2>2, OnlyPlayersTyped
<1>5. CASE Score(c)
  <2>1. c \in Online /\ OnlyPlayers /\ Set(c, [q EXCEPT !.score = tid])
    BY <1>5 DEF Score, InPlay
  <2>2. [q EXCEPT !.score = tid] \in Player
    BY <1>1, <2>1 DEF Player, Typed, MapsTyped
  <2> QED
    BY <2>1, <2>2, OnlyPlayersTyped
<1>6. CASE Die(c)
  <2>1. c \in Online /\ OnlyPlayers /\ Set(c, [q EXCEPT !.dead = TRUE])
    BY <1>6 DEF Die, InPlay
  <2>2. [q EXCEPT !.dead = TRUE] \in Player
    BY <1>1, <2>1 DEF Player
  <2> QED
    BY <2>1, <2>2, OnlyPlayersTyped
<1>7. ASSUME NEW n \in Names, PlayerChanged(c, n)
      PROVE  Typed'
  <2>1. c \in Online /\ Set(c, [q EXCEPT !.name = n])
    BY <1>7 DEF PlayerChanged, Hears
  <2>2. [q EXCEPT !.name = n] \in Player
    BY <1>1, <2>1 DEF Player
  <2>3. PlayersTyped(players') /\ Online' = Online
    BY <2>1, <2>2, SetIsTyped DEF Typed, Online
  <2>4. view' \in [Conns -> SUBSET [id : Nat \ {0}, name : Names]]
    <3>1. ASSUME NEW e \in [id : Nat \ {0}, name : Names]
          PROVE  [e EXCEPT !.name = n] \in [id : Nat \ {0}, name : Names]
      OBVIOUS
    <3> QED
      BY <1>7, <3>1 DEF PlayerChanged, Renamed, Typed, ServerTyped
  <2> QED
    BY <1>7, <2>3, <2>4 DEF PlayerChanged, Typed, ServerTyped, MapsTyped, FaultTyped, mapVars
<1> QED
  BY <1>2, <1>3, <1>4, <1>5, <1>6, <1>7 DEF Play

LEMMA SynchroniseTyped ==
    ASSUME Typed, NEW c \in Conns, Synchronise(c)
    PROVE  Typed'
<1> DEFINE q == players[c]
<1>1. c \in Online /\ q \in Player
  BY DEF Typed, PlayersTyped, Online, Synchronise, PakSyncChunk, PakSyncFails, SyncClient,
         PakSyncHash, Loads, Hears
<1>2. CASE PakSyncChunk(c)
  <2>1. missing' \in [Conns -> SUBSET Paks]
    BY <1>2 DEF PakSyncChunk, Transferred, Typed, ServerTyped
  <2>2. files' \in [Conns -> SUBSET Paks]
    BY <1>2 DEF PakSyncChunk, Typed, ServerTyped
  <2> QED
    BY <1>2, <2>1, <2>2
    DEF PakSyncChunk, Typed, PlayersTyped, ServerTyped, MapsTyped, FaultTyped, mapVars, Online
<1>3. CASE PakSyncFails(c)
  <2>1. PlayersTyped(players') /\ Online' = Online
    BY <1>1, <1>3, PlayerIsKept, SetIsTyped DEF PakSyncFails, Typed, Online
  <2> QED
    BY <1>3, <2>1 DEF PakSyncFails, Typed, ServerTyped, MapsTyped, FaultTyped, mapVars
<1>4. CASE SyncClient(c)
  <2>1. [q EXCEPT !.synced = TRUE] \in Player
    BY <1>1 DEF Player
  <2>2. PlayersTyped(players') /\ Online' = Online
    BY <1>1, <1>4, <2>1, SetIsTyped DEF SyncClient, Typed, Online
  <2>3. told' \in [Conns -> SUBSET Nat]
    BY <1>4 DEF SyncClient, ToldBySync, Typed, ServerTyped, MapsTyped
  <2> QED
    BY <1>4, <2>2, <2>3 DEF SyncClient, Typed, ServerTyped, MapsTyped, FaultTyped, mapVars
<1>5. ASSUME NEW k \in Paks, PakSyncHash(c, k)
      PROVE  Typed'
  <2>1. PlayersTyped(players') /\ Online' = Online
    <3>1. CASE k \in files[c]
      BY <1>5, <3>1 DEF PakSyncHash, Typed, PlayersTyped, Online
    <3>2. CASE k \notin files[c]
      <4>1. Set(c, QuitClient(q))
        BY <1>5, <3>2 DEF PakSyncHash
      <4> QED
        BY <1>1, <4>1, PlayerIsKept, SetIsTyped DEF Typed, Online
    <3> QED
      BY <3>1, <3>2
  <2>2. missing' \in [Conns -> SUBSET Paks] /\ hashes' \in [Conns -> SUBSET Paks]
    BY <1>5 DEF PakSyncHash, Typed, ServerTyped
  <2> QED
    BY <1>5, <2>1, <2>2 DEF PakSyncHash, Typed, ServerTyped, MapsTyped, FaultTyped, mapVars
<1> QED
  BY <1>2, <1>3, <1>4, <1>5 DEF Synchronise

LEMMA CommandTyped ==
    ASSUME Typed, NEW c \in Conns, Command(c)
    PROVE  Typed'
<1> DEFINE q == players[c]
<1>1. c \in Online => q \in Player
  BY DEF Typed, PlayersTyped, Online
<1>2. CASE Op(c) \/ Deop(c)
  <2>1. PICK a \in BOOLEAN : c \in Online /\ OnlyPlayers /\ Set(c, [q EXCEPT !.admin = a])
    BY <1>2 DEF Op, Deop, Hears
  <2>2. [q EXCEPT !.admin = a] \in Player
    BY <1>1, <2>1 DEF Player
  <2> QED
    BY <2>1, <2>2, OnlyPlayersTyped
<1>3. CASE NextTournament(c) \/ LoadMap(c)
  <2>1. tournament' \in [open : BOOLEAN, lobby : BOOLEAN, over : BOOLEAN]
    BY <1>3, ClosedTyped DEF NextTournament, LoadMap
  <2>2. temp_map' \in {"none", "warmup", "plain"}
    BY <1>3 DEF NextTournament, LoadMap, Typed, MapsTyped
  <2>3. UNCHANGED <<serverVars, tid, warmup, current, rotation, rotation_current_index,
                    reload_map_rotation, map_count, fault>>
    BY <1>3 DEF NextTournament, LoadMap
  <2> QED
    BY <2>1, <2>2, <2>3
    DEF Typed, PlayersTyped, ServerTyped, MapsTyped, FaultTyped, serverVars, Online
<1>4. ASSUME NEW d \in Conns, Kick(c, d)
      PROVE  Typed'
  BY <1>4 DEF Kick, Typed, PlayersTyped, ServerTyped, MapsTyped, FaultTyped, mapVars, Online
<1>5. ASSUME NEW n \in 0 .. Len(Maps), SetMapCount(c, n)
      PROVE  Typed'
  BY <1>5 DEF SetMapCount, Typed, PlayersTyped, ServerTyped, MapsTyped, FaultTyped,
              serverVars, Online
<1> QED
  BY <1>2, <1>3, <1>4, <1>5 DEF Command

(* The points a new player begins with are its own, or those of the entry  *)
(* it takes from the list.                                                 *)
NewFor(c, n) ==
    LET i == IF HoldScores THEN HeldFor(c, n) ELSE 0
    IN  IF i = 0 THEN NewPlayer(n) ELSE Reattached(NewPlayer(n), held[i])

LEMMA NewPlayerIs ==
    ASSUME Typed, NEW c \in Conns, NEW n \in Names
    PROVE  /\ NewFor(c, n) \in Player
           /\ NewFor(c, n).id = FreeId /\ FreeId \notin UsedIds
           /\ NewFor(c, n).name = n /\ ~NewFor(c, n).synced
<1> DEFINE i == IF HoldScores THEN HeldFor(c, n) ELSE 0
           p == NewPlayer(n)
<1>1. FreeId \in Nat \ {0} /\ FreeId \notin UsedIds
  <2>1. FreeIdFound
    BY FreeIdIsFree DEF Typed, PlayersTyped, Online, Player
  <2>2. Cardinality(Online) \in Nat
    BY FS_CardinalityType DEF Typed, PlayersTyped, Online
  <2> QED
    BY <2>1, <2>2 DEF FreeIdFound
<1>2. p \in Player /\ p.id = FreeId /\ p.name = n /\ ~p.synced
  BY <1>1 DEF NewPlayer, Player, Typed, ServerTyped
<1>3. ASSUME NEW s \in PlayerStats
      PROVE  /\ Reattached(p, s) \in Player /\ Reattached(p, s).id = p.id
             /\ Reattached(p, s).name = p.name /\ Reattached(p, s).synced = p.synced
  <2> HIDE DEF p
  <2> QED
    BY <1>2 DEF Reattached, Player, PlayerStats
<1>4. CASE i = 0
  BY <1>1, <1>2, <1>4 DEF NewFor
<1>5. CASE i # 0
  <2>1. i \in 1 .. Len(held) /\ held[i] \in PlayerStats
    BY <1>5, HeldForIs, ElementOfSeq, LenProperties DEF Typed, ServerTyped
  <2> QED
    BY <1>1, <1>2, <1>3, <1>5, <2>1 DEF NewFor
<1> QED
  BY <1>4, <1>5

(* What a login does, with the new player named.  *)
LEMMA LoginIs ==
    ASSUME NEW c \in Conns, NEW n \in Names, Login(c, n)
    PROVE  /\ c \notin Online
           /\ players' = With(players, c, NewFor(c, n))
           /\ view' = Introduced(c, NewFor(c, n))
           /\ held' = IF (IF HoldScores THEN HeldFor(c, n) ELSE 0) = 0 THEN held
                      ELSE RemoveAt(held, HeldFor(c, n))
           /\ UNCHANGED <<killed, files, mapVars, fault>>
           /\ missing' = [missing EXCEPT ![c] = Paks]
           /\ hashes' = [hashes EXCEPT ![c] = files[c] \cup CheckedPaks]
           /\ told' = [told EXCEPT ![c] = {}]
           /\ logins' = logins + 1
<1> DEFINE i == IF HoldScores THEN HeldFor(c, n) ELSE 0
<1>1. CASE i = 0
  BY <1>1 DEF Login, NewFor
<1>2. CASE i # 0
  <2>1. HoldScores /\ i = HeldFor(c, n)
    BY <1>2
  <2> QED
    BY <1>2, <2>1 DEF Login, NewFor, Released
<1> QED
  BY <1>1, <1>2

LEMMA LoginTyped ==
    ASSUME Typed, NEW c \in Conns, NEW n \in Names, Login(c, n)
    PROVE  Typed'
<1> DEFINE p == NewFor(c, n)
<1>1. p \in Player
  BY NewPlayerIs
<1>2. /\ Online' = Online \cup {c} /\ players'[c] = p
      /\ \A d \in Online : d # c => players'[d] = players[d]
  <2>1. players' = With(players, c, p)
    BY LoginIs
  <2> HIDE DEF p
  <2> QED
    BY <2>1 DEF With, Online
<1> HIDE DEF p
<1>3. PlayersTyped(players')
  <2>1. IsFiniteSet(Online')
    BY <1>2, FS_AddElement DEF Typed, PlayersTyped, Online
  <2> QED
    BY <1>1, <1>2, <2>1 DEF Typed, PlayersTyped, Online
<1>4. held' \in Seq(PlayerStats)
  <2>1. CASE (IF HoldScores THEN HeldFor(c, n) ELSE 0) = 0
    BY <2>1, LoginIs DEF Typed, ServerTyped
  <2>2. CASE (IF HoldScores THEN HeldFor(c, n) ELSE 0) # 0
    <3>1. HeldFor(c, n) \in 1 .. Len(held)
      BY <2>2, HeldForIs, LenProperties DEF Typed, ServerTyped
    <3> QED
      BY <2>2, <3>1, LoginIs, RemoveAtIs DEF Typed, ServerTyped
  <2> QED
    BY <2>1, <2>2
<1>5. view' \in [Conns -> SUBSET [id : Nat \ {0}, name : Names]]
  <2>1. \A q \in Player : Entry(q) \in [id : Nat \ {0}, name : Names]
    BY DEF Player, Entry
  <2>2. Roster(players) \in SUBSET [id : Nat \ {0}, name : Names]
    BY <2>1 DEF Typed, PlayersTyped, Roster
  <2>3. view' = Introduced(c, p)
    BY LoginIs DEF p
  <2> QED
    BY <1>1, <2>1, <2>2, <2>3 DEF Introduced, Typed, ServerTyped
<1>6. /\ missing' \in [Conns -> SUBSET Paks] /\ hashes' \in [Conns -> SUBSET Paks]
      /\ told' \in [Conns -> SUBSET Nat] /\ logins' \in Nat
  <2>1. files[c] \cup CheckedPaks \in SUBSET Paks
    BY ServerAssumption DEF Typed, ServerTyped
  <2>2. /\ missing' = [missing EXCEPT ![c] = Paks]
        /\ hashes' = [hashes EXCEPT ![c] = files[c] \cup CheckedPaks]
        /\ told' = [told EXCEPT ![c] = {}]
        /\ logins' = logins + 1
    BY LoginIs
  <2> QED
    BY <2>1, <2>2 DEF Typed, ServerTyped
<1>7. UNCHANGED <<killed, files, mapVars, fault>>
  BY LoginIs
<1>8. ServerTyped'
  BY <1>2, <1>4, <1>5, <1>6, <1>7 DEF Typed, ServerTyped
<1> QED
  BY <1>3, <1>7, <1>8 DEF Typed, MapsTyped, FaultTyped, mapVars

LEMMA StatsTyped ==
    ASSUME Typed, NEW c \in Online
    PROVE  Stats(c) \in PlayerStats
BY DEF Typed, PlayersTyped, MapsTyped, Online, Player, Stats, PlayerStats

LEMMA LogoutTyped ==
    ASSUME Typed, NEW c \in Conns, Logout(c)
    PROVE  Typed'
<1>1. c \in Online
  BY DEF Logout
<1>2. Online' = Online \ {c} /\ \A d \in Online' : players'[d] = players[d]
  BY DEF Logout, Without, Online
<1>3. PlayersTyped(players')
  <2>1. IsFiniteSet(Online')
    BY <1>2, FS_RemoveElement DEF Typed, PlayersTyped, Online
  <2> QED
    BY <1>2, <2>1 DEF Typed, PlayersTyped, Online
<1>4. held' \in Seq(PlayerStats)
  <2>1. held' \in {<< >>, Append(held, Stats(c)), held}
    BY DEF Logout, HeldAfter
  <2>2. << >> \in Seq(PlayerStats)
    BY EmptySeq
  <2>3. Append(held, Stats(c)) \in Seq(PlayerStats)
    BY <1>1, StatsTyped, AppendProperties DEF Typed, ServerTyped
  <2> QED
    BY <2>1, <2>2, <2>3 DEF Typed, ServerTyped
<1>5. view' \in [Conns -> SUBSET [id : Nat \ {0}, name : Names]]
  BY DEF Logout, Removed, Typed, ServerTyped
<1>6. tournament' \in [open : BOOLEAN, lobby : BOOLEAN, over : BOOLEAN]
  BY ClosedTyped DEF Logout, ClosedByLast, Typed, MapsTyped
<1>7. killed' \subseteq Online'
  BY <1>2 DEF Logout, MarkersAfter, Typed, ServerTyped
<1>8. ServerTyped'
  BY <1>4, <1>5, <1>7 DEF Logout, Typed, ServerTyped
<1> QED
  BY <1>3, <1>6, <1>8 DEF Logout, Typed, MapsTyped, FaultTyped

(* The players of a pass, their new tournament or its next frame.  *)
LEMMA StartsTyped ==
    ASSUME Typed, NEW ps, PlayersTyped(ps), DOMAIN ps = Online,
           NEW config \in MapConfig, NEW warm \in BOOLEAN, NEW switch \in BOOLEAN,
           Starts(ps, config, warm, switch)
    PROVE  /\ PlayersTyped(players') /\ SameAll(ps, players') /\ killed' \subseteq Online'
           /\ tournament' \in [open : BOOLEAN, lobby : BOOLEAN, over : BOOLEAN]
           /\ tid' \in Nat /\ warmup' \in BOOLEAN /\ current' \in MapConfig
           /\ told' \in [Conns -> SUBSET Nat] /\ UNCHANGED <<map_count, fault>>
<1> DEFINE rs == ResetForNext(ps, switch)
<1>1. PlayersTyped(rs) /\ SameAll(ps, rs)
  BY ResetIsTyped
<1>2. CountDown(rs) /\ killed \subseteq DOMAIN rs /\ DOMAIN rs = Online
  BY <1>1 DEF Starts, SameAll, Typed, ServerTyped
<1> HIDE DEF rs
<1>3. PlayersTyped(players') /\ SameAll(rs, players') /\ killed' \subseteq DOMAIN rs
  BY <1>1, <1>2, CountDownIsTyped
<1>4. SameAll(ps, players') /\ killed' \subseteq Online'
  BY <1>1, <1>2, <1>3, SameAllTransitive DEF SameAll, Online
<1>5. tournament' \in [open : BOOLEAN, lobby : BOOLEAN, over : BOOLEAN]
  BY DEF Starts
<1>6. told' \in [Conns -> SUBSET Nat] /\ tid' \in Nat
  BY DEF Starts, Announced, Typed, ServerTyped, MapsTyped
<1> QED
  BY <1>3, <1>4, <1>5, <1>6 DEF Starts

LEMMA NextMapIs ==
    ASSUME Typed, NEW ps, NextMap(ps)
    PROVE  /\ rotation' \in Seq(MapConfig) /\ rotation_current_index' \in Nat
           /\ \E config \in MapConfig : Starts(ps, config, config.warmup, FALSE)
<1>1. rotation' \in Seq(MapConfig)
  BY MapConfigsTyped DEF NextMap, Typed, MapsTyped
<1>2. rotation_current_index \in Nat /\ rotation_current_index < Len(rotation')
  BY DEF NextMap, Typed, MapsTyped
<1>3. rotation'[rotation_current_index + 1] \in MapConfig
  BY <1>1, <1>2, ElementOfSeq, LenProperties
<1>4. rotation_current_index' \in Nat
  <2>1. Len(rotation') \in Nat /\ Len(rotation') > 0
    BY <1>1, <1>2, LenProperties
  <2>2. rotation_current_index' = (rotation_current_index + 1) % Len(rotation')
    BY DEF NextMap
  <2> QED
    BY <1>2, <2>1, <2>2
<1> QED
  BY <1>1, <1>3, <1>4 DEF NextMap

(* A pass with a new tournament: what it starts, and what it leaves alone. *)
Renewed(ps) ==
    /\ rotation' \in Seq(MapConfig) /\ rotation_current_index' \in Nat
    /\ reload_map_rotation' \in BOOLEAN
    /\ temp_map' = "none"
    /\ \E config \in MapConfig, warm \in BOOLEAN, switch \in BOOLEAN :
         /\ Starts(ps, config, warm, switch)
         /\ SwitchDue => config = current /\ ~warm /\ switch

LEMMA SwitchToGameIs ==
    ASSUME Typed, NEW ps, SwitchToGame(ps)
    PROVE  Renewed(ps)
<1>1. Starts(ps, current, FALSE, TRUE) /\ current \in MapConfig
  BY DEF SwitchToGame, Typed, MapsTyped
<1>2. /\ UNCHANGED <<rotation, rotation_current_index, reload_map_rotation, temp_map>>
      /\ temp_map = "none"
  BY DEF SwitchToGame, SwitchDue
<1>3. \E config \in MapConfig, warm \in BOOLEAN, switch \in BOOLEAN :
        /\ Starts(ps, config, warm, switch)
        /\ SwitchDue => config = current /\ ~warm /\ switch
  <2>1. SwitchDue => current = current /\ ~FALSE /\ TRUE
    OBVIOUS
  <2> QED
    BY <1>1, <2>1, Zenon
<1> QED
  BY <1>2, <1>3 DEF Renewed, Typed, MapsTyped

LEMMA TemporaryMapIs ==
    ASSUME Typed, NEW ps, TemporaryMap(ps)
    PROVE  Renewed(ps)
<1> DEFINE warm == temp_map = "warmup"
           config == [map |-> Len(Maps) + 1, warmup |-> warm]
<1>1. Starts(ps, config, warm, FALSE) /\ ~SwitchDue
  BY DEF TemporaryMap, SwitchDue
<1>2. config \in MapConfig
  BY ServerAssumption DEF MapConfig
<1>3. /\ UNCHANGED <<rotation, rotation_current_index, reload_map_rotation>>
      /\ temp_map' = "none"
  BY DEF TemporaryMap
<1>4. \E k \in MapConfig, w \in BOOLEAN, switch \in BOOLEAN :
        /\ Starts(ps, k, w, switch)
        /\ SwitchDue => k = current /\ ~w /\ switch
  <2>1. warm \in BOOLEAN /\ FALSE \in BOOLEAN
    OBVIOUS
  <2> HIDE DEF warm, config
  <2> QED
    BY <1>1, <1>2, <2>1, Zenon
<1> QED
  BY <1>3, <1>4 DEF Renewed, Typed, MapsTyped

LEMMA NextMapIsRenewed ==
    ASSUME Typed, NEW ps, NextMap(ps)
    PROVE  Renewed(ps)
<1>1. PICK config \in MapConfig : Starts(ps, config, config.warmup, FALSE)
  BY NextMapIs
<1>2. config.warmup \in BOOLEAN /\ FALSE \in BOOLEAN
  BY DEF MapConfig
<1>3. ~SwitchDue /\ temp_map' = "none" /\ reload_map_rotation' = FALSE
  BY DEF NextMap
<1>4. \E k \in MapConfig, w \in BOOLEAN, switch \in BOOLEAN :
        /\ Starts(ps, k, w, switch)
        /\ SwitchDue => k = current /\ ~w /\ switch
  BY <1>1, <1>2, <1>3, Zenon
<1> QED
  BY <1>3, <1>4, NextMapIs DEF Renewed

LEMMA NewTournamentIs ==
    ASSUME Typed, NEW ps, NewTournament(ps)
    PROVE  \/ NoSuchMap \/ NoMapsDefined(ps)
           \/ Renewed(ps) /\ UNCHANGED <<missing, hashes, held, logins, files, view>>
BY SwitchToGameIs, TemporaryMapIs, NextMapIsRenewed DEF NewTournament

(* The list of kept points in a pass: an entry may expire.  *)
LEMMA BroadcastTyped ==
    ASSUME Typed, NEW ps, PlayersTyped(ps), DOMAIN ps = Online, NEW nth \in BOOLEAN,
           NEW t \in [open : BOOLEAN, lobby : BOOLEAN, over : BOOLEAN], Broadcast(ps, t, nth)
    PROVE  Typed' /\ SameAll(ps, players')
<1>1. /\ PlayersTyped(players') /\ SameAll(ps, players') /\ killed' \subseteq DOMAIN ps
      /\ Online' = Online
  BY CountDownIsTyped DEF Broadcast, Typed, ServerTyped, SameAll, Online
<1>2. held' \in Seq(PlayerStats)
  BY RemoveAtIs DEF Broadcast, Typed, ServerTyped
<1>3. tournament' \in [open : BOOLEAN, lobby : BOOLEAN, over : BOOLEAN]
  <2>1. tournament' = [t EXCEPT !.lobby = t.lobby /\ ~(nth /\ AllReady(ps))]
    BY DEF Broadcast
  <2>2. (t.lobby /\ ~(nth /\ AllReady(ps))) \in BOOLEAN
    OBVIOUS
  <2> QED
    BY <2>1, <2>2
<1> QED
  BY <1>1, <1>2, <1>3 DEF Broadcast, Typed, ServerTyped, MapsTyped, FaultTyped

LEMMA NoMapsDefinedTyped ==
    ASSUME Typed, NEW ps, PlayersTyped(ps), DOMAIN ps = Online, NoMapsDefined(ps)
    PROVE  Typed'
<1>1. rotation' \in Seq(MapConfig) /\ current' \in MapConfig
  <2>1. Dangling \in MapConfig
    BY ServerAssumption DEF Dangling, MapConfig
  <2> QED
    BY <2>1, EmptySeq DEF NoMapsDefined, Typed, MapsTyped
<1>2. PlayersTyped(players') /\ Online' = Online
  BY DEF NoMapsDefined, Online
<1> QED
  BY <1>1, <1>2, ClosedTyped DEF NoMapsDefined, Typed, ServerTyped, MapsTyped, FaultTyped

LEMMA RenewedTyped ==
    ASSUME Typed, NEW ps, PlayersTyped(ps), DOMAIN ps = Online, Renewed(ps),
           UNCHANGED <<missing, hashes, held, logins, files, view>>
    PROVE  Typed' /\ SameAll(ps, players')
<1>1. PICK config \in MapConfig, warm \in BOOLEAN, switch \in BOOLEAN :
        Starts(ps, config, warm, switch)
  BY DEF Renewed
<1>2. /\ PlayersTyped(players') /\ SameAll(ps, players') /\ killed' \subseteq Online'
      /\ tournament' \in [open : BOOLEAN, lobby : BOOLEAN, over : BOOLEAN]
      /\ tid' \in Nat /\ warmup' \in BOOLEAN /\ current' \in MapConfig
      /\ told' \in [Conns -> SUBSET Nat] /\ UNCHANGED <<map_count, fault>>
  BY <1>1, StartsTyped
<1> QED
  BY <1>2 DEF Renewed, Typed, ServerTyped, MapsTyped, FaultTyped

(* One pass of the loop, as one of five things.  *)
Lasts(t, runs_out) ==
    [t EXCEPT !.over = @ \/ (runs_out /\ t.open /\ ~t.lobby)]

LEMMA FrameIs ==
    ASSUME Typed, Frame
    PROVE  \E runs_out, nth \in BOOLEAN :
             LET t == Lasts(tournament, runs_out)
                 ps == Respawned(players)
             IN  \/ t.open /\ (t.over => ~warmup) /\ Broadcast(ps, t, nth)
                 \/ (~t.open \/ t.over) /\ Online # {} /\ NewTournament(ps)
<1>1. PICK runs_out, board_done, nth \in BOOLEAN :
        LET t == Lasts(tournament, runs_out)
            ps == Respawned(players)
            ended == ~t.open \/ (t.over /\ (warmup \/ board_done))
        IN  \/ ~ended /\ Broadcast(ps, t, nth)
            \/ ended /\ Online # {} /\ NewTournament(ps)
  BY DEF Frame, Lasts
<1> QED
  BY <1>1

LEMMA FrameTyped ==
    ASSUME Typed, Frame
    PROVE  Typed'
<1> DEFINE ps == Respawned(players)
<1>1. PlayersTyped(ps) /\ DOMAIN ps = Online
  BY RespawnedIsTyped DEF Typed, SameAll, Online
<1>2. PICK runs_out \in BOOLEAN, nth \in BOOLEAN :
        \/ Broadcast(ps, Lasts(tournament, runs_out), nth)
        \/ NewTournament(ps)
  BY FrameIs
<1> HIDE DEF ps
<1>3. CASE Broadcast(ps, Lasts(tournament, runs_out), nth)
  <2>1. Lasts(tournament, runs_out) \in [open : BOOLEAN, lobby : BOOLEAN, over : BOOLEAN]
    BY DEF Lasts, Typed, MapsTyped
  <2> QED
    BY <1>1, <1>3, <2>1, BroadcastTyped
<1>4. CASE NewTournament(ps)
  <2>1. CASE NoSuchMap
    BY <2>1 DEF NoSuchMap, Typed, PlayersTyped, ServerTyped, MapsTyped, FaultTyped,
                serverVars, mapVars, Online
  <2> QED
    BY <1>1, <1>4, <2>1, NewTournamentIs, NoMapsDefinedTyped, RenewedTyped
<1> QED
  BY <1>2, <1>3, <1>4

LEMMA PassTyped ==
    ASSUME Typed, Pass
    PROVE  Typed' /\ SameAll(players, players')
<1>1. /\ PlayersTyped(players') /\ SameAll(players, players') /\ killed' \subseteq Online
      /\ Online' = Online
  BY CountDownIsTyped DEF Pass, Typed, ServerTyped, SameAll, Online
<1> QED
  BY <1>1 DEF Pass, Typed, ServerTyped, MapsTyped, FaultTyped, mapVars

(* Every step keeps the types.  *)
LEMMA TypedStep == Typed /\ [Next]_vars => Typed'
<1> SUFFICES ASSUME Typed, [Next]_vars PROVE Typed'
  OBVIOUS
<1>1. CASE UNCHANGED vars
  BY <1>1 DEF vars, Typed, PlayersTyped, ServerTyped, MapsTyped, FaultTyped, serverVars,
              mapVars, Online
<1> QED
  BY <1>1, FrameTyped, PassTyped, LoginTyped, LogoutTyped, SynchroniseTyped, PlayTyped,
     CommandTyped DEF Next

(* Whoever is online has a well-formed player, every kept entry is one of  *)
(* a player of this server, and the search for an identifier succeeds:     *)
(* event_login may be called in every state.                               *)
THEOREM TypeCorrect == SafeSpec => [](TypeOK /\ FreeIdFound)
<1>1. SafeSpec => []Typed
  BY InitTyped, TypedStep, PTL DEF SafeSpec
<1>2. Typed => FreeIdFound
  BY FreeIdIsFree DEF Typed, PlayersTyped, Online, Player
<1> QED
  BY <1>1, <1>2, TypedIsTypeOK, PTL

-----------------------------------------------------------------------------
(* The steps, by what they do to who is online and to the kept points.     *)
HeldShrinks ==
    held' = held \/ \E i \in 1 .. Len(held) : held' = RemoveAt(held, i)

Quiet ==
    SameAll(players, players') /\ HeldShrinks /\ UNCHANGED <<missing, files, logins, view>>

LEMMA SetIsSame ==
    ASSUME NEW c \in Online, NEW p, Set(c, p), Same(players[c], p)
    PROVE  SameAll(players, players')
BY DEF Set, SameAll, Same, Online

LEMMA PlayIs ==
    ASSUME Typed, NEW c \in Conns, Play(c)
    PROVE  Quiet \/ \E n \in Names : PlayerChanged(c, n)
<1> SUFFICES ASSUME ~\E n \in Names : PlayerChanged(c, n)
             PROVE  Quiet
  OBVIOUS
<1> DEFINE q == players[c]
<1>1. c \in Online => q \in Player
  BY DEF Typed, PlayersTyped, Online
<1>2. CASE UNCHANGED serverVars
  BY <1>2 DEF serverVars, Quiet, SameAll, Same, HeldShrinks
<1>3. ASSUME c \in Online, NEW p, Set(c, p), OnlyPlayers, Same(q, p)
      PROVE  Quiet
  BY <1>3, SetIsSame DEF Quiet, HeldShrinks, OnlyPlayers
<1>4. c \in Online => /\ Same(q, [q EXCEPT !.respawning = TRUE])
                      /\ Same(q, Reset(q))
                      /\ Same(q, [q EXCEPT !.ready = TRUE, !.team_selected = TRUE])
                      /\ Same(q, [q EXCEPT !.score = tid])
                      /\ Same(q, [q EXCEPT !.dead = TRUE])
  BY <1>1 DEF Player, Same, Reset
<1>5. CASE JoinRequest(c) \/ RespawnRequest(c)
  BY <1>3, <1>4, <1>5 DEF JoinRequest, RespawnRequest, Plays, Hears
<1>6. CASE Spectate(c)
  BY <1>2, <1>3, <1>4, <1>6 DEF Spectate, Plays, Hears
<1>7. CASE LobbyReady(c)
  BY <1>3, <1>4, <1>7 DEF LobbyReady, Plays, Hears
<1>8. CASE Score(c) \/ Die(c)
  BY <1>3, <1>4, <1>8 DEF Score, Die, InPlay
<1> QED
  BY <1>5, <1>6, <1>7, <1>8 DEF Play

LEMMA CommandIs ==
    ASSUME Typed, NEW c \in Conns, Command(c)
    PROVE  Quiet
<1> DEFINE q == players[c]
<1>1. c \in Online => q \in Player
  BY DEF Typed, PlayersTyped, Online
<1>2. CASE Op(c) \/ Deop(c)
  <2>1. PICK a \in BOOLEAN : c \in Online /\ OnlyPlayers /\ Set(c, [q EXCEPT !.admin = a])
    BY <1>2 DEF Op, Deop, Hears
  <2>2. Same(q, [q EXCEPT !.admin = a])
    BY <1>1, <2>1 DEF Player, Same
  <2> QED
    BY <2>1, <2>2, SetIsSame DEF Quiet, HeldShrinks, OnlyPlayers
<1>3. SameAll(players, players)
  BY DEF SameAll, Same
<1>4. CASE \E d \in Conns : Kick(c, d)
  BY <1>3, <1>4 DEF Kick, Quiet, HeldShrinks
<1>5. CASE NextTournament(c) \/ LoadMap(c) \/ \E n \in 0 .. Len(Maps) : SetMapCount(c, n)
  <2>1. UNCHANGED serverVars
    BY <1>5 DEF NextTournament, LoadMap, SetMapCount
  <2> QED
    BY <1>3, <2>1 DEF Quiet, HeldShrinks, serverVars
<1> QED
  BY <1>2, <1>4, <1>5 DEF Command

LEMMA FrameIsQuiet ==
    ASSUME Typed, Frame
    PROVE  Quiet
<1> DEFINE ps == Respawned(players)
<1>1. PlayersTyped(ps) /\ DOMAIN ps = Online /\ SameAll(players, ps)
  BY RespawnedIsTyped DEF Typed, SameAll, Online
<1>2. PICK runs_out \in BOOLEAN, nth \in BOOLEAN :
        \/ Broadcast(ps, Lasts(tournament, runs_out), nth)
        \/ NewTournament(ps)
  BY FrameIs
<1>3. Lasts(tournament, runs_out) \in [open : BOOLEAN, lobby : BOOLEAN, over : BOOLEAN]
  BY DEF Lasts, Typed, MapsTyped
<1> HIDE DEF ps
<1>4. ASSUME SameAll(ps, players') PROVE SameAll(players, players')
  BY <1>1, <1>4, SameAllTransitive
<1>5. CASE Broadcast(ps, Lasts(tournament, runs_out), nth)
  <2>1. SameAll(players, players')
    BY <1>1, <1>3, <1>4, <1>5, BroadcastTyped
  <2> QED
    BY <1>5, <2>1 DEF Broadcast, Quiet, HeldShrinks
<1>6. CASE NoSuchMap
  BY <1>6 DEF NoSuchMap, serverVars, Quiet, HeldShrinks, SameAll, Same
<1>7. CASE NoMapsDefined(ps)
  BY <1>1, <1>7 DEF NoMapsDefined, Quiet, HeldShrinks
<1>8. CASE Renewed(ps) /\ UNCHANGED <<missing, hashes, held, logins, files, view>>
  <2>1. SameAll(players, players')
    BY <1>1, <1>4, <1>8, RenewedTyped
  <2> QED
    BY <1>8, <2>1 DEF Quiet, HeldShrinks
<1> QED
  BY <1>2, <1>5, <1>6, <1>7, <1>8, NewTournamentIs

LEMMA StepIs ==
    ASSUME Typed, [Next]_vars
    PROVE  \/ Quiet
           \/ \E c \in Conns : Logout(c) \/ Synchronise(c)
           \/ \E c \in Conns, n \in Names : Login(c, n) \/ PlayerChanged(c, n)
<1>1. CASE UNCHANGED vars
  BY <1>1 DEF vars, serverVars, Quiet, HeldShrinks, SameAll, Same
<1>2. CASE Pass
  BY <1>2, PassTyped DEF Pass, Quiet, HeldShrinks
<1> QED
  BY <1>1, <1>2, FrameIsQuiet, PlayIs, CommandIs DEF Next

(* A client that synchronises stays who it is; it is in the game when no   *)
(* pak is missing.                                                         *)
Alike(ps, qs) ==
    /\ DOMAIN qs = DOMAIN ps
    /\ \A c \in DOMAIN ps : /\ qs[c].id = ps[c].id /\ qs[c].name = ps[c].name
                            /\ qs[c].stats = ps[c].stats

LEMMA SynchroniseIs ==
    ASSUME Typed, NEW c \in Conns, Synchronise(c)
    PROVE  /\ c \in Online
           /\ Alike(players, players') /\ UNCHANGED <<held, logins, view>>
           /\ \A d \in Online : players'[d].synced =>
                players[d].synced \/ (d = c /\ SyncClient(c))
<1> DEFINE q == players[c]
<1>1. c \in Online /\ q \in Player
  BY DEF Typed, PlayersTyped, Online, Synchronise, PakSyncChunk, PakSyncFails, SyncClient,
         PakSyncHash, Loads, Hears
<1>2. UNCHANGED <<held, logins, view>>
  BY DEF Synchronise, PakSyncChunk, PakSyncFails, SyncClient, PakSyncHash
<1>3. CASE SyncClient(c)
  <2> DEFINE p == [q EXCEPT !.synced = TRUE]
  <2>1. p.id = q.id /\ p.name = q.name /\ p.stats = q.stats
    BY <1>1 DEF Player
  <2>2. players' = [players EXCEPT ![c] = p]
    BY <1>3 DEF SyncClient, Set
  <2> HIDE DEF p
  <2> QED
    BY <1>1, <1>2, <1>3, <2>1, <2>2 DEF Alike, Online
<1>4. CASE players' = players
  BY <1>1, <1>2, <1>4 DEF Alike
<1>5. CASE Set(c, QuitClient(q))
  <2>1. SameAll(players, players')
    BY <1>1, <1>5, PlayerIsKept, SetIsSame
  <2> QED
    BY <1>1, <1>2, <2>1 DEF SameAll, Same, Alike, Online
<1> QED
  BY <1>3, <1>4, <1>5 DEF Synchronise, PakSyncChunk, PakSyncFails, PakSyncHash

-----------------------------------------------------------------------------
(* The clients tell the players apart.  *)
LEMMA AlikeAgrees ==
    ASSUME PlayersAgree, Alike(players, players'), view' = view
    PROVE  PlayersAgree'
<1>1. Roster(players') = Roster(players)
  BY DEF Alike, Roster, Entry
<1> QED
  BY <1>1 DEF Alike, PlayersAgree, DistinctIds, ViewsAgree, Online

LEMMA LoginAgrees ==
    ASSUME Typed, PlayersAgree, NEW c \in Conns, NEW n \in Names, Login(c, n)
    PROVE  PlayersAgree'
<1> DEFINE p == NewFor(c, n)
<1>1. c \notin Online /\ players' = With(players, c, p) /\ view' = Introduced(c, p)
  BY LoginIs
<1>2. p.id \notin UsedIds
  BY NewPlayerIs
<1> HIDE DEF p
<1>3. /\ Online' = Online \cup {c} /\ players'[c] = p
      /\ \A d \in Online : players'[d] = players[d]
  BY <1>1 DEF With, Online
<1>4. DistinctIds'
  BY <1>2, <1>3 DEF PlayersAgree, DistinctIds, UsedIds
<1>5. Roster(players') = Roster(players) \cup {Entry(p)}
  BY <1>3 DEF Roster, Online
<1>6. \A d \in Online' : view'[d] = Roster(players')
  BY <1>1, <1>3, <1>5 DEF PlayersAgree, ViewsAgree, Introduced, Typed, PlayersTyped, Online
<1> QED
  BY <1>4, <1>6 DEF PlayersAgree, ViewsAgree

LEMMA LogoutAgrees ==
    ASSUME Typed, PlayersAgree, NEW c \in Conns, Logout(c)
    PROVE  PlayersAgree'
<1>1. /\ c \in Online /\ Online' = Online \ {c}
      /\ \A d \in Online' : players'[d] = players[d]
  BY DEF Logout, Without, Online
<1>2. DistinctIds'
  BY <1>1 DEF PlayersAgree, DistinctIds
<1>3. Roster(players') = {e \in Roster(players) : e.id # players[c].id}
  <2>1. ASSUME NEW d \in Online
        PROVE  Entry(players[d]).id = players[d].id
    BY DEF Entry
  <2>2. \A d \in Online : d # c <=> Entry(players[d]).id # players[c].id
    BY <1>1, <2>1 DEF PlayersAgree, DistinctIds
  <2>3. \A d \in Online' : Entry(players'[d]) = Entry(players[d])
    BY <1>1
  <2> QED
    BY <1>1, <2>2, <2>3 DEF Roster, Online
<1>4. \A d \in Online' : view'[d] = {e \in view[d] : e.id # players[c].id}
  BY <1>1 DEF Logout, Removed, Typed, PlayersTyped, Online
<1> QED
  BY <1>1, <1>2, <1>3, <1>4 DEF PlayersAgree, ViewsAgree

LEMMA RenameAgrees ==
    ASSUME Typed, PlayersAgree, NEW c \in Conns, NEW n \in Names, PlayerChanged(c, n)
    PROVE  PlayersAgree'
<1> DEFINE q == players[c]
           p == [q EXCEPT !.name = n]
           new(e) == IF e.id = q.id THEN [e EXCEPT !.name = n] ELSE e
<1>1. c \in Online /\ q \in Player /\ players' = [players EXCEPT ![c] = p]
  BY DEF PlayerChanged, Hears, Set, Typed, PlayersTyped, Online
<1>2. p.id = q.id /\ p.name = n
  BY <1>1 DEF Player
<1> HIDE DEF p
<1>3. /\ Online' = Online /\ players'[c] = p
      /\ \A d \in Online : d # c => players'[d] = players[d]
  BY <1>1 DEF Online
<1>4. DistinctIds'
  BY <1>2, <1>3 DEF PlayersAgree, DistinctIds
<1>5. ASSUME NEW d \in Online
      PROVE  Entry(players'[d]) = new(Entry(players[d]))
  <2>1. CASE d = c
    BY <1>2, <1>3, <2>1 DEF Entry
  <2>2. CASE d # c
    <3>1. players[d].id # q.id
      BY <1>1, <2>2 DEF PlayersAgree, DistinctIds
    <3> QED
      BY <1>3, <2>2, <3>1 DEF Entry
  <2> QED
    BY <2>1, <2>2
<1> HIDE DEF new
<1>6. Roster(players') = {new(e) : e \in Roster(players)}
  BY <1>3, <1>5 DEF Roster, Online
<1>7. \A d \in Online : view'[d] = {new(e) : e \in view[d]}
  BY DEF PlayerChanged, Renamed, Typed, PlayersTyped, Online, new
<1> QED
  BY <1>3, <1>4, <1>6, <1>7 DEF PlayersAgree, ViewsAgree

LEMMA AgreeStep == Typed /\ PlayersAgree /\ [Next]_vars => PlayersAgree'
<1> SUFFICES ASSUME Typed, PlayersAgree, [Next]_vars PROVE PlayersAgree'
  OBVIOUS
<1>1. CASE Quiet
  BY <1>1, AlikeAgrees DEF Quiet, SameAll, Same, Alike
<1>2. ASSUME NEW c \in Conns, Synchronise(c) PROVE PlayersAgree'
  BY <1>2, SynchroniseIs, AlikeAgrees
<1> QED
  BY <1>1, <1>2, StepIs, LoginAgrees, LogoutAgrees, RenameAgrees

(* However many come, go and change their name: no two players have the    *)
(* same identifier, and every client knows exactly those who are there.    *)
THEOREM AgreeCorrect == SafeSpec => []PlayersAgree
<1>1. Init => PlayersAgree
  BY DEF Init, PlayersAgree, DistinctIds, ViewsAgree, Online
<1> QED
  BY <1>1, InitTyped, TypedStep, AgreeStep, PTL DEF SafeSpec

-----------------------------------------------------------------------------
(* The paks.  What is not missing is there, and nothing is missing once    *)
(* the client is in the game.                                              *)
PaksSynced ==
    \A c \in Online : /\ Paks \ missing[c] \subseteq files[c]
                      /\ players[c].synced => missing[c] = {}

LEMMA PaksSyncedStep == Typed /\ PaksSynced /\ [Next]_vars => PaksSynced'
<1> SUFFICES ASSUME Typed, PaksSynced, [Next]_vars PROVE PaksSynced'
  OBVIOUS
<1>1. CASE Quiet
  BY <1>1 DEF Quiet, SameAll, Same, PaksSynced, Online
<1>2. ASSUME NEW c \in Conns, Logout(c) PROVE PaksSynced'
  <2>1. Online' = Online \ {c} /\ \A d \in Online' : players'[d] = players[d]
    BY <1>2 DEF Logout, Without, Online
  <2>2. \A d \in Online' : missing'[d] = missing[d] /\ files' = files
    BY <1>2, <2>1 DEF Logout, Typed, ServerTyped
  <2> QED
    BY <2>1, <2>2 DEF PaksSynced
<1>3. ASSUME NEW c \in Conns, Synchronise(c) PROVE PaksSynced'
  <2>1. /\ c \in Online /\ Online' = Online
        /\ \A d \in Online : players'[d].synced => players[d].synced \/ (d = c /\ SyncClient(c))
    BY <1>3, SynchroniseIs DEF Alike, Online
  <2>2. CASE SyncClient(c)
    <3>1. missing[c] = {} /\ UNCHANGED <<missing, files>>
      BY <2>2 DEF SyncClient
    <3> QED
      BY <2>1, <3>1 DEF PaksSynced
  <2>3. CASE ~SyncClient(c)
    <3>1. /\ \A d \in Online : missing'[d] \subseteq missing[d]
          /\ \A d \in Online : missing[d] \ missing'[d] \subseteq files'[d]
          /\ \A d \in Online : files[d] \subseteq files'[d]
      <4>1. CASE PakSyncChunk(c)
        BY <4>1 DEF PakSyncChunk, Transferred, Typed, PlayersTyped, ServerTyped, Online
      <4>2. CASE PakSyncFails(c)
        BY <4>2 DEF PakSyncFails
      <4>3. ASSUME NEW k \in Paks, PakSyncHash(c, k)
            PROVE  /\ \A d \in Online : missing'[d] \subseteq missing[d]
                   /\ \A d \in Online : missing[d] \ missing'[d] \subseteq files[d]
                   /\ files' = files
        BY <4>3 DEF PakSyncHash, Typed, PlayersTyped, ServerTyped, Online
      <4> QED
        BY <1>3, <2>3, <4>1, <4>2, <4>3 DEF Synchronise
    <3>2. \A d \in Online : players'[d].synced => missing'[d] = {}
      BY <2>1, <2>3, <3>1 DEF PaksSynced
    <3>3. ASSUME NEW d \in Online PROVE Paks \ missing'[d] \subseteq files'[d]
      BY <3>1 DEF PaksSynced
    <3> QED
      BY <2>1, <3>2, <3>3 DEF PaksSynced
  <2> QED
    BY <2>2, <2>3
<1>4. ASSUME NEW c \in Conns, NEW n \in Names, Login(c, n) PROVE PaksSynced'
  <2> DEFINE p == NewFor(c, n)
  <2>1. /\ c \notin Online /\ players' = With(players, c, p) /\ ~p.synced
        /\ missing' = [missing EXCEPT ![c] = Paks] /\ files' = files
    BY <1>4, LoginIs, NewPlayerIs
  <2> HIDE DEF p
  <2>2. /\ Online' = Online \cup {c} /\ players'[c] = p
        /\ \A d \in Online : players'[d] = players[d]
    BY <2>1 DEF With, Online
  <2>3. missing'[c] = Paks /\ \A d \in Online : missing'[d] = missing[d]
    BY <2>1 DEF Typed, PlayersTyped, ServerTyped, Online
  <2> QED
    BY <2>1, <2>2, <2>3 DEF PaksSynced
<1>5. ASSUME NEW c \in Conns, NEW n \in Names, PlayerChanged(c, n) PROVE PaksSynced'
  <2>1. /\ c \in Online /\ players[c] \in Player
        /\ players' = [players EXCEPT ![c] = [players[c] EXCEPT !.name = n]]
        /\ UNCHANGED <<missing, files>>
    BY <1>5 DEF PlayerChanged, Hears, Set, Typed, PlayersTyped, Online
  <2>2. [players[c] EXCEPT !.name = n].synced = players[c].synced
    BY <2>1 DEF Player
  <2>3. Online' = Online /\ \A d \in Online : players'[d].synced = players[d].synced
    BY <2>1, <2>2 DEF Online
  <2> QED
    BY <2>1, <2>3 DEF PaksSynced
<1> QED
  BY <1>1, <1>2, <1>3, <1>4, <1>5, StepIs

(* A client that is in the game has every pak of the server, in whatever   *)
(* order the hashes and the chunks of the files came.                      *)
THEOREM PaksCorrect == SafeSpec => []SyncedHavePaks
<1>1. Init => PaksSynced
  BY DEF Init, PaksSynced, Online
<1>2. PaksSynced => SyncedHavePaks
  BY DEF PaksSynced, SyncedHavePaks
<1> QED
  BY <1>1, <1>2, InitTyped, TypedStep, PaksSyncedStep, PTL DEF SafeSpec

-----------------------------------------------------------------------------
(* The points.  They are numbered by the login they began with, and no     *)
(* number is used twice.                                                   *)
StatsFresh ==
    /\ \A c \in Online : players[c].stats \in 1 .. logins
    /\ \A i \in 1 .. Len(held) : held[i].stats \in 1 .. logins

(* The entries that stay are entries that were there, each once.  *)
LEMMA RemovedIs ==
    ASSUME Typed, NEW i \in 1 .. Len(held), held' = RemoveAt(held, i)
    PROVE  \E at \in [1 .. Len(held') -> 1 .. Len(held) \ {i}] :
             /\ \A j \in 1 .. Len(held') : held'[j] = held[at[j]]
             /\ \A j, k \in 1 .. Len(held') : j # k => at[j] # at[k]
<1> DEFINE at == [j \in 1 .. Len(held') |-> IF j < i THEN j ELSE j + 1]
<1>1. held \in Seq(PlayerStats) /\ Len(held) \in Nat
  BY LenProperties DEF Typed, ServerTyped
<1>2. /\ Len(held') = Len(held) - 1
      /\ \A j \in 1 .. Len(held) - 1 : held'[j] = IF j < i THEN held[j] ELSE held[j + 1]
  BY <1>1, RemoveAtIs
<1>3. at \in [1 .. Len(held') -> 1 .. Len(held) \ {i}]
  BY <1>1, <1>2
<1>4. \A j \in 1 .. Len(held') : held'[j] = held[at[j]]
  BY <1>1, <1>2
<1>5. \A j, k \in 1 .. Len(held') : j # k => at[j] # at[k]
  BY <1>1, <1>2
<1> HIDE DEF at
<1> QED
  BY <1>3, <1>4, <1>5

LEMMA ShrunkIs ==
    ASSUME Typed, HeldShrinks
    PROVE  \E at \in [1 .. Len(held') -> 1 .. Len(held)] :
             /\ \A j \in 1 .. Len(held') : held'[j] = held[at[j]]
             /\ \A j, k \in 1 .. Len(held') : j # k => at[j] # at[k]
<1>1. CASE held' = held
  <2> DEFINE at == [j \in 1 .. Len(held) |-> j]
  <2>1. at \in [1 .. Len(held') -> 1 .. Len(held)]
    BY <1>1
  <2> QED
    BY <1>1, <2>1
<1>2. ASSUME NEW i \in 1 .. Len(held), held' = RemoveAt(held, i)
      PROVE  \E at \in [1 .. Len(held') -> 1 .. Len(held)] :
               /\ \A j \in 1 .. Len(held') : held'[j] = held[at[j]]
               /\ \A j, k \in 1 .. Len(held') : j # k => at[j] # at[k]
  <2>1. PICK at \in [1 .. Len(held') -> 1 .. Len(held) \ {i}] :
             /\ \A j \in 1 .. Len(held') : held'[j] = held[at[j]]
             /\ \A j, k \in 1 .. Len(held') : j # k => at[j] # at[k]
    BY <1>2, RemovedIs
  <2>2. at \in [1 .. Len(held') -> 1 .. Len(held)]
    OBVIOUS
  <2> QED
    BY <2>1, <2>2
<1> QED
  BY <1>1, <1>2 DEF HeldShrinks

LEMMA AlikeScores ==
    ASSUME Typed, NoDoubleScore, StatsFresh, Alike(players, players'), HeldShrinks,
           logins' = logins
    PROVE  NoDoubleScore' /\ StatsFresh'
<1>1. PICK at \in [1 .. Len(held') -> 1 .. Len(held)] :
        /\ \A j \in 1 .. Len(held') : held'[j] = held[at[j]]
        /\ \A j, k \in 1 .. Len(held') : j # k => at[j] # at[k]
  BY ShrunkIs
<1>2. Online' = Online /\ \A c \in Online : players'[c].stats = players[c].stats
  BY DEF Alike, Online
<1>3. \A c, d \in Online : c # d => players'[c].stats # players'[d].stats
  BY <1>2 DEF NoDoubleScore
<1>4. \A j, k \in 1 .. Len(held') : j # k => held'[j].stats # held'[k].stats
  BY <1>1 DEF NoDoubleScore
<1>5. \A c \in Online, j \in 1 .. Len(held') : players'[c].stats # held'[j].stats
  BY <1>1, <1>2 DEF NoDoubleScore
<1>6. StatsFresh'
  BY <1>1, <1>2 DEF StatsFresh
<1> QED
  BY <1>2, <1>3, <1>4, <1>5, <1>6 DEF NoDoubleScore

LEMMA LoginScores ==
    ASSUME Typed, NoDoubleScore, StatsFresh, NEW c \in Conns, NEW n \in Names, Login(c, n)
    PROVE  NoDoubleScore' /\ StatsFresh'
<1> DEFINE p == NewFor(c, n)
           i == IF HoldScores THEN HeldFor(c, n) ELSE 0
<1>1. /\ c \notin Online /\ players' = With(players, c, p) /\ logins' = logins + 1
      /\ held' = IF i = 0 THEN held ELSE RemoveAt(held, HeldFor(c, n))
  BY LoginIs
<1>2. logins \in Nat /\ Len(held) \in Nat
  BY LenProperties DEF Typed, ServerTyped
<1>3. PICK at \in [1 .. Len(held') -> 1 .. Len(held)] :
        /\ \A j \in 1 .. Len(held') : held'[j] = held[at[j]]
        /\ \A j, k \in 1 .. Len(held') : j # k => at[j] # at[k]
        /\ p.stats = logins + 1 \/ \E k \in 1 .. Len(held) :
             /\ p.stats = held[k].stats
             /\ \A j \in 1 .. Len(held') : at[j] # k
  <2>0. NewPlayer(n).stats = logins + 1
    BY DEF NewPlayer
  <2>1. CASE i = 0
    <3>1. p.stats = logins + 1
      BY <2>0, <2>1 DEF NewFor
    <3> QED
      BY <1>1, <2>1, <3>1, ShrunkIs DEF HeldShrinks
  <2>2. CASE i # 0
    <3>1. i = HeldFor(c, n) /\ i \in 1 .. Len(held) /\ held' = RemoveAt(held, i)
      BY <1>1, <1>2, <2>2, HeldForIs
    <3>2. p = Reattached(NewPlayer(n), held[i])
      BY <2>2 DEF NewFor
    <3>3. p.stats = logins + 1 \/ p.stats = held[i].stats
      BY <2>0, <3>2 DEF Reattached, NewPlayer
    <3> HIDE DEF p, i
    <3>4. PICK at \in [1 .. Len(held') -> 1 .. Len(held) \ {i}] :
             /\ \A j \in 1 .. Len(held') : held'[j] = held[at[j]]
             /\ \A j, k \in 1 .. Len(held') : j # k => at[j] # at[k]
      BY <3>1, RemovedIs
    <3>5. at \in [1 .. Len(held') -> 1 .. Len(held)] /\ \A j \in 1 .. Len(held') : at[j] # i
      OBVIOUS
    <3> QED
      BY <3>1, <3>3, <3>4, <3>5
  <2> QED
    BY <2>1, <2>2
<1> HIDE DEF p, i
<1>4. /\ Online' = Online \cup {c} /\ players'[c] = p
      /\ \A d \in Online : players'[d] = players[d]
  BY <1>1 DEF With, Online
<1>5. /\ \A d \in Online : players[d].stats # p.stats
      /\ \A j \in 1 .. Len(held') : held'[j].stats # p.stats
      /\ p.stats \in 1 .. logins + 1
  <2>1. CASE p.stats = logins + 1
    <3>1. \A j \in 1 .. Len(held') : held'[j].stats \in 1 .. logins
      BY <1>3 DEF StatsFresh
    <3>2. \A d \in Online : players[d].stats \in 1 .. logins
      BY DEF StatsFresh
    <3> QED
      BY <1>2, <2>1, <3>1, <3>2
  <2>2. ASSUME NEW k \in 1 .. Len(held), p.stats = held[k].stats,
               \A j \in 1 .. Len(held') : at[j] # k
        PROVE  /\ \A d \in Online : players[d].stats # p.stats
               /\ \A j \in 1 .. Len(held') : held'[j].stats # p.stats
               /\ p.stats \in 1 .. logins + 1
    <3>1. \A d \in Online : players[d].stats # held[k].stats
      BY DEF NoDoubleScore
    <3>2. \A j \in 1 .. Len(held') : held'[j].stats # held[k].stats
      BY SMTT(30), <1>3, <2>2 DEF NoDoubleScore
    <3>3. held[k].stats \in 1 .. logins
      BY DEF StatsFresh
    <3> QED
      BY <1>2, <2>2, <3>1, <3>2, <3>3
  <2> QED
    BY <1>3, <2>1, <2>2
<1>6. \A d, e \in Online' : d # e => players'[d].stats # players'[e].stats
  BY <1>4, <1>5 DEF NoDoubleScore
<1>7. \A j, k \in 1 .. Len(held') : j # k => held'[j].stats # held'[k].stats
  BY SMTT(30), <1>3 DEF NoDoubleScore
<1>8. \A d \in Online', j \in 1 .. Len(held') : players'[d].stats # held'[j].stats
  <2>1. \A d \in Online, j \in 1 .. Len(held') : players[d].stats # held'[j].stats
    BY <1>3 DEF NoDoubleScore
  <2> QED
    BY <1>4, <1>5, <2>1
<1>9. StatsFresh'
  <2>1. \A d \in Online' : players'[d].stats \in 1 .. logins + 1
    BY <1>2, <1>4, <1>5 DEF StatsFresh
  <2>2. \A j \in 1 .. Len(held') : held'[j].stats \in 1 .. logins + 1
    BY <1>2, <1>3 DEF StatsFresh
  <2> QED
    BY <1>1, <2>1, <2>2 DEF StatsFresh
<1> QED
  BY <1>6, <1>7, <1>8, <1>9 DEF NoDoubleScore

LEMMA LogoutScores ==
    ASSUME Typed, NoDoubleScore, StatsFresh, NEW c \in Conns, Logout(c)
    PROVE  NoDoubleScore' /\ StatsFresh'
<1>1. /\ c \in Online /\ Online' = Online \ {c} /\ logins' = logins
      /\ \A d \in Online' : players'[d] = players[d]
  BY DEF Logout, Without, Online
<1>2. held \in Seq(PlayerStats) /\ Len(held) \in Nat
  BY LenProperties DEF Typed, ServerTyped
<1>3. \A d, e \in Online' : d # e => players'[d].stats # players'[e].stats
  BY <1>1 DEF NoDoubleScore
<1>4. CASE held' = << >>
  BY <1>1, <1>3, <1>4 DEF NoDoubleScore, StatsFresh
<1>5. CASE held' = held
  BY <1>1, <1>3, <1>5 DEF NoDoubleScore, StatsFresh
<1>6. CASE held' = Append(held, Stats(c))
  <2>1. /\ Len(held') = Len(held) + 1
        /\ \A j \in 1 .. Len(held) : held'[j] = held[j]
        /\ held'[Len(held) + 1] = Stats(c)
    BY <1>1, <1>2, <1>6, StatsTyped, AppendProperties
  <2>2. Stats(c).stats = players[c].stats
    BY DEF Stats
  <2>3. \A j \in 1 .. Len(held') :
          j \in 1 .. Len(held) \/ (j = Len(held) + 1 /\ held'[j].stats = players[c].stats)
    BY <1>2, <2>1, <2>2
  <2>4. \A j, k \in 1 .. Len(held') : j # k => held'[j].stats # held'[k].stats
    BY <1>1, <2>1, <2>3 DEF NoDoubleScore
  <2>5. \A d \in Online', j \in 1 .. Len(held') : players'[d].stats # held'[j].stats
    BY <1>1, <2>1, <2>3 DEF NoDoubleScore
  <2>6. StatsFresh'
    BY <1>1, <2>1, <2>3 DEF StatsFresh
  <2> QED
    BY <1>3, <2>4, <2>5, <2>6 DEF NoDoubleScore
<1> QED
  BY <1>4, <1>5, <1>6 DEF Logout, HeldAfter

LEMMA ScoresStep ==
    Typed /\ NoDoubleScore /\ StatsFresh /\ [Next]_vars => NoDoubleScore' /\ StatsFresh'
<1> SUFFICES ASSUME Typed, NoDoubleScore, StatsFresh, [Next]_vars
             PROVE  NoDoubleScore' /\ StatsFresh'
  OBVIOUS
<1>1. CASE Quiet
  BY <1>1, AlikeScores DEF Quiet, SameAll, Same, Alike
<1>2. ASSUME NEW c \in Conns, Synchronise(c) PROVE NoDoubleScore' /\ StatsFresh'
  BY <1>2, SynchroniseIs, AlikeScores DEF HeldShrinks
<1>3. ASSUME NEW c \in Conns, NEW n \in Names, PlayerChanged(c, n)
      PROVE  NoDoubleScore' /\ StatsFresh'
  <2>1. /\ c \in Online /\ players[c] \in Player
        /\ players' = [players EXCEPT ![c] = [players[c] EXCEPT !.name = n]]
        /\ UNCHANGED <<held, logins>>
    BY <1>3 DEF PlayerChanged, Hears, Set, Typed, PlayersTyped, Online
  <2>2. [players[c] EXCEPT !.name = n].stats = players[c].stats
    BY <2>1 DEF Player
  <2>3. Online' = Online /\ \A d \in Online : players'[d].stats = players[d].stats
    BY <2>1, <2>2 DEF Online
  <2> QED
    BY <2>1, <2>3 DEF NoDoubleScore, StatsFresh
<1> QED
  BY <1>1, <1>2, <1>3, StepIs, LoginScores, LogoutScores

(* The points of a player who left are given to nobody else and to nobody  *)
(* twice, however the logins, logouts and expiries follow one another.     *)
THEOREM ScoresCorrect == SafeSpec => []NoDoubleScore
<1>1. Init => NoDoubleScore /\ StatsFresh
  BY DEF Init, NoDoubleScore, StatsFresh, Online
<1> QED
  BY <1>1, InitTyped, TypedStep, ScoresStep, PTL DEF SafeSpec

-----------------------------------------------------------------------------
(* The tournament.  A lobby has not run out, a temporary map waits only    *)
(* while nothing is played.                                                *)
TournamentSound ==
    /\ tournament.lobby => tournament.open /\ ~tournament.over
    /\ temp_map # "none" => ~tournament.open
    /\ TournamentShared

(* No step but a frame of the game, a login, a logout and the end of the   *)
(* synchronisation matters for who plays the tournament.                   *)
Calm ==
    /\ UNCHANGED <<tournament, tid, temp_map, told>>
    /\ DOMAIN players' = DOMAIN players
    /\ \A c \in Online : players'[c].synced = players[c].synced

LEMMA SameAllCalm ==
    ASSUME SameAll(players, players'), UNCHANGED <<tournament, tid, temp_map, told>>
    PROVE  Calm
BY DEF SameAll, Same, Calm, Online

LEMMA CalmSteps ==
    ASSUME Typed, NEW c \in Conns, Play(c) \/ Synchronise(c) \/ Command(c), ~SyncClient(c)
    PROVE  /\ tid' = tid
           /\ Calm \/ tournament' = Closed
<1>1. CASE Play(c)
  <2>1. UNCHANGED <<told, mapVars>>
    BY <1>1 DEF Play, JoinRequest, RespawnRequest, Spectate, LobbyReady, Score, Die,
                PlayerChanged, OnlyPlayers, serverVars
  <2>2. CASE Quiet
    BY <2>1, <2>2, SameAllCalm DEF Quiet, mapVars
  <2>3. ASSUME NEW n \in Names, PlayerChanged(c, n) PROVE Calm
    <3>1. /\ c \in Online /\ players[c] \in Player
          /\ players' = [players EXCEPT ![c] = [players[c] EXCEPT !.name = n]]
      BY <2>3 DEF PlayerChanged, Hears, Set, Typed, PlayersTyped, Online
    <3>2. [players[c] EXCEPT !.name = n].synced = players[c].synced
      BY <3>1 DEF Player
    <3> QED
      BY <2>1, <3>1, <3>2 DEF Calm, mapVars, Online
  <2> QED
    BY <1>1, <2>1, <2>2, <2>3, PlayIs DEF mapVars
<1>2. CASE Synchronise(c)
  <2>1. UNCHANGED <<told, mapVars>>
    BY <1>2 DEF Synchronise, PakSyncChunk, PakSyncFails, PakSyncHash
  <2>2. CASE players' = players
    BY <2>1, <2>2 DEF Calm, mapVars
  <2>3. CASE Set(c, QuitClient(players[c]))
    <3>1. c \in Online /\ players[c] \in Player
      BY <1>2, SynchroniseIs DEF Typed, PlayersTyped, Online
    <3> QED
      BY <2>1, <2>3, <3>1, PlayerIsKept, SetIsSame, SameAllCalm DEF mapVars
  <2> QED
    BY <1>2, <2>1, <2>2, <2>3
    DEF Synchronise, PakSyncChunk, PakSyncFails, PakSyncHash, mapVars
<1>3. CASE Command(c)
  <2>1. SameAll(players, players')
    BY <1>3, CommandIs DEF Quiet
  <2>2. CASE Op(c) \/ Deop(c) \/ (\E d \in Conns : Kick(c, d))
             \/ \E n \in 0 .. Len(Maps) : SetMapCount(c, n)
    BY <2>1, <2>2, SameAllCalm
    DEF Op, Deop, Kick, SetMapCount, OnlyPlayers, mapVars, serverVars
  <2>3. CASE NextTournament(c) \/ LoadMap(c)
    BY <2>3 DEF NextTournament, LoadMap
  <2> QED
    BY <1>3, <2>2, <2>3 DEF Command, Calm
<1> QED
  BY <1>1, <1>2, <1>3

(* What is played changes in a frame only; elsewhere it can only end.      *)
LEMMA OutsideFrames ==
    ASSUME Typed, [Next]_vars, ~Frame
    PROVE  tid' = tid /\ (tournament' = tournament \/ tournament' = Closed)
<1>1. CASE UNCHANGED vars \/ Pass
  BY <1>1 DEF vars, mapVars, Pass
<1>2. ASSUME NEW c \in Conns, NEW n \in Names, Login(c, n)
      PROVE  tid' = tid /\ tournament' = tournament
  BY <1>2, LoginIs DEF mapVars
<1>3. ASSUME NEW c \in Conns, Logout(c)
      PROVE  tid' = tid /\ (tournament' = tournament \/ tournament' = Closed)
  BY <1>3 DEF Logout, ClosedByLast
<1>4. ASSUME NEW c \in Conns, SyncClient(c)
      PROVE  tid' = tid /\ tournament' = tournament
  BY <1>4 DEF SyncClient, mapVars
<1> QED
  BY <1>1, <1>2, <1>3, <1>4, CalmSteps DEF Next, Calm

LEMMA CalmSound ==
    ASSUME TournamentSound, Calm
    PROVE  TournamentSound'
BY DEF Calm, TournamentSound, TournamentShared, SyncedKnowTournament, TournamentHasPlayers, Online

LEMMA ClosedSound ==
    ASSUME tournament' = Closed
    PROVE  TournamentSound'
BY DEF Closed, TournamentSound, TournamentShared, SyncedKnowTournament, TournamentHasPlayers

LEMMA StartsSound ==
    ASSUME Typed, NEW ps, PlayersTyped(ps), SameAll(players, ps), Online # {}, Renewed(ps)
    PROVE  TournamentSound'
<1>1. PICK config \in MapConfig, warm \in BOOLEAN, switch \in BOOLEAN :
        Starts(ps, config, warm, switch)
  BY DEF Renewed
<1>2. SameAll(ps, players')
  BY <1>1, StartsTyped DEF SameAll, Online
<1>3. SameAll(players, players')
  BY <1>2, SameAllTransitive
<1>4. /\ tournament' = [open |-> TRUE, lobby |-> ~switch, over |-> FALSE]
      /\ tid' = tid + 1 /\ told' = Announced /\ temp_map' = "none"
  BY <1>1 DEF Starts, Renewed
<1>5. ASSUME NEW c \in Online', players'[c].synced PROVE tid' \in told'[c]
  <2>1. c \in Online /\ players[c].synced /\ c \in Conns
    BY <1>3, <1>5 DEF SameAll, Same, Online, Typed, PlayersTyped
  <2> QED
    BY <1>4, <2>1 DEF Announced
<1>6. Online' # {}
  BY <1>3 DEF SameAll, Online
<1> QED
  BY <1>4, <1>5, <1>6
  DEF TournamentSound, TournamentShared, SyncedKnowTournament, TournamentHasPlayers

LEMMA BroadcastSound ==
    ASSUME Typed, TournamentSound, NEW ps, PlayersTyped(ps), SameAll(players, ps),
           NEW runs_out \in BOOLEAN, NEW nth \in BOOLEAN,
           Broadcast(ps, Lasts(tournament, runs_out), nth)
    PROVE  TournamentSound'
<1> DEFINE t == Lasts(tournament, runs_out)
<1>1. t \in [open : BOOLEAN, lobby : BOOLEAN, over : BOOLEAN]
  BY DEF Lasts, Typed, MapsTyped
<1>2. /\ t.open = tournament.open /\ t.lobby = tournament.lobby
      /\ t.over => tournament.over \/ (tournament.open /\ ~tournament.lobby)
  BY DEF Lasts, Typed, MapsTyped
<1> HIDE DEF t
<1>3. /\ tournament'.open = t.open /\ tournament'.over = t.over
      /\ tournament'.lobby => t.lobby
  <2>1. tournament' = [t EXCEPT !.lobby = t.lobby /\ ~(nth /\ AllReady(ps))]
    BY DEF Broadcast, t
  <2> QED
    BY <1>1, <2>1
<1>4. SameAll(ps, players')
  BY <1>1, BroadcastTyped DEF SameAll, Online, t
<1>5. SameAll(players, players')
  BY <1>4, SameAllTransitive
<1>6. UNCHANGED <<tid, told, temp_map>>
  BY DEF Broadcast
<1> QED
  BY <1>2, <1>3, <1>5, <1>6 DEF SameAll, Same, Online,
     TournamentSound, TournamentShared, SyncedKnowTournament, TournamentHasPlayers

LEMMA FrameSound ==
    ASSUME Typed, TournamentSound, Frame
    PROVE  TournamentSound'
<1> DEFINE ps == Respawned(players)
<1>1. PlayersTyped(ps) /\ SameAll(players, ps)
  BY RespawnedIsTyped DEF Typed
<1>2. PICK runs_out \in BOOLEAN, nth \in BOOLEAN :
        \/ Broadcast(ps, Lasts(tournament, runs_out), nth)
        \/ Online # {} /\ NewTournament(ps)
  BY FrameIs
<1> HIDE DEF ps
<1>3. CASE NoSuchMap
  BY <1>3, CalmSound DEF NoSuchMap, Calm, serverVars, mapVars
<1>4. CASE NoMapsDefined(ps)
  BY <1>4, ClosedSound DEF NoMapsDefined
<1> QED
  BY <1>1, <1>2, <1>3, <1>4, NewTournamentIs, StartsSound, BroadcastSound

LEMMA LogoutSound ==
    ASSUME Typed, TournamentSound, NEW c \in Conns, Logout(c)
    PROVE  TournamentSound'
<1>1. CASE Online = {c}
  BY <1>1, ClosedSound DEF Logout, ClosedByLast
<1>2. CASE Online # {c}
  <2>1. /\ c \in Online /\ Online' = Online \ {c} /\ tournament' = tournament
        /\ \A d \in Online' : players'[d] = players[d] /\ told'[d] = told[d]
        /\ UNCHANGED <<tid, temp_map>>
    BY <1>2 DEF Logout, ClosedByLast, Without, Typed, PlayersTyped, ServerTyped, Online
  <2>2. Online' # {}
    BY <1>2, <2>1
  <2> QED
    BY <2>1, <2>2 DEF TournamentSound, TournamentShared, SyncedKnowTournament, TournamentHasPlayers
<1> QED
  BY <1>1, <1>2

LEMMA LoginSound ==
    ASSUME Typed, TournamentSound, NEW c \in Conns, NEW n \in Names, Login(c, n)
    PROVE  TournamentSound'
<1> DEFINE p == NewFor(c, n)
<1>1. /\ c \notin Online /\ players' = With(players, c, p) /\ ~p.synced
      /\ told' = [told EXCEPT ![c] = {}] /\ UNCHANGED mapVars
  BY LoginIs, NewPlayerIs
<1> HIDE DEF p
<1>2. /\ Online' = Online \cup {c} /\ players'[c] = p
      /\ \A d \in Online : players'[d] = players[d] /\ told'[d] = told[d]
  BY <1>1 DEF With, Online, Typed, PlayersTyped, ServerTyped
<1> QED
  BY <1>1, <1>2 DEF TournamentSound, TournamentShared, SyncedKnowTournament,
                    TournamentHasPlayers, mapVars

LEMMA SyncClientSound ==
    ASSUME Typed, TournamentSound, NEW c \in Conns, SyncClient(c)
    PROVE  TournamentSound'
<1>1. /\ c \in Online /\ Online' = Online /\ UNCHANGED mapVars
      /\ \A d \in Online : d # c => players'[d] = players[d] /\ told'[d] = told[d]
      /\ told'[c] = ToldBySync(c)
  BY DEF SyncClient, Loads, Hears, Set, Online, Typed, ServerTyped
<1> QED
  BY <1>1 DEF ToldBySync, TournamentSound, TournamentShared, SyncedKnowTournament,
              TournamentHasPlayers, mapVars

LEMMA SoundStep == Typed /\ TournamentSound /\ [Next]_vars => TournamentSound'
<1> SUFFICES ASSUME Typed, TournamentSound, [Next]_vars PROVE TournamentSound'
  OBVIOUS
<1>1. CASE UNCHANGED vars
  BY <1>1, CalmSound DEF vars, serverVars, mapVars, Calm
<1>2. CASE Pass
  BY <1>2, PassTyped, SameAllCalm, CalmSound DEF Pass, mapVars
<1>3. ASSUME NEW c \in Conns, Play(c) \/ Synchronise(c) \/ Command(c), ~SyncClient(c)
      PROVE  TournamentSound'
  BY <1>3, CalmSteps, CalmSound, ClosedSound
<1> QED
  BY <1>1, <1>2, <1>3, FrameSound, LoginSound, LogoutSound, SyncClientSound DEF Next

LEMMA InitSound == Init => TournamentSound
BY DEF Init, Closed, TournamentSound, TournamentShared, SyncedKnowTournament, TournamentHasPlayers

(* Whoever is in the game knows the tournament that is running, and there  *)
(* is somebody in the server as long as it runs.                           *)
THEOREM TournamentCorrect == SafeSpec => []TournamentShared
<1>1. TournamentSound => TournamentShared
  BY DEF TournamentSound
<1> QED
  BY <1>1, InitSound, InitTyped, TypedStep, SoundStep, PTL DEF SafeSpec

-----------------------------------------------------------------------------
(* What a frame makes of a lobby and of a warmup.  *)
LEMMA FrameWays ==
    ASSUME Typed, TournamentSound, Frame
    PROVE  \/ /\ tid' = tid
              /\ \/ ~tournament'.open
                 \/ tournament' = tournament
                 \/ tournament.lobby /\ ~tournament'.lobby =>
                      \A c \in Online : players[c].ready
           \/ /\ ~tournament.lobby
              /\ tournament.open /\ warmup =>
                   current' = current /\ ~warmup' /\ ~tournament'.lobby
<1> DEFINE ps == Respawned(players)
<1>1. /\ PlayersTyped(ps) /\ DOMAIN ps = Online
      /\ \A c \in Online : ps[c].ready => players[c].ready
  BY RespawnedIsTyped DEF Typed, SameAll, Online
<1>2. PICK runs_out \in BOOLEAN, nth \in BOOLEAN :
        LET t == Lasts(tournament, runs_out)
        IN  \/ t.open /\ (t.over => ~warmup) /\ Broadcast(ps, t, nth)
            \/ (~t.open \/ t.over) /\ Online # {} /\ NewTournament(ps)
  BY FrameIs
<1> DEFINE t == Lasts(tournament, runs_out)
<1>3. /\ t \in [open : BOOLEAN, lobby : BOOLEAN, over : BOOLEAN]
      /\ t.open = tournament.open /\ t.lobby = tournament.lobby
      /\ t.over => tournament.over \/ (tournament.open /\ ~tournament.lobby)
  BY DEF Lasts, Typed, MapsTyped
<1>4. CASE Broadcast(ps, t, nth)
  <2> HIDE DEF ps, t
  <2>1. tournament' = [t EXCEPT !.lobby = t.lobby /\ ~(nth /\ AllReady(ps))] /\ tid' = tid
    BY <1>4 DEF Broadcast
  <2>2. tournament'.lobby = (t.lobby /\ ~(nth /\ AllReady(ps)))
    BY <1>3, <2>1
  <2>3. t.lobby /\ ~tournament'.lobby => AllReady(ps)
    BY <2>2
  <2>4. AllReady(ps) => \A c \in Online : players[c].ready
    BY <1>1 DEF AllReady
  <2> QED
    BY <1>3, <2>1, <2>3, <2>4
<1>5. CASE (~t.open \/ t.over) /\ NewTournament(ps)
  <2>1. ~tournament.lobby
    BY <1>3, <1>5 DEF TournamentSound
  <2>2. CASE NoSuchMap
    BY <2>2 DEF NoSuchMap, mapVars
  <2>3. CASE NoMapsDefined(ps)
    BY <2>3 DEF NoMapsDefined, Closed
  <2>4. CASE Renewed(ps)
    <3>1. PICK config \in MapConfig, warm \in BOOLEAN, switch \in BOOLEAN :
            /\ Starts(ps, config, warm, switch)
            /\ SwitchDue => config = current /\ ~warm /\ switch
      BY <2>4 DEF Renewed
    <3>2. tournament.open /\ warmup => SwitchDue
      BY DEF TournamentSound, SwitchDue
    <3>3. tournament'.lobby = ~switch /\ warmup' = warm /\ current' = config
      BY <3>1 DEF Starts
    <3> QED
      BY <2>1, <3>1, <3>2, <3>3
  <2> HIDE DEF ps, t
  <2> QED
    BY <1>5, <2>2, <2>3, <2>4, NewTournamentIs, <1>1
<1> QED
  BY <1>2, <1>4, <1>5

LEMMA LobbyStep ==
    ASSUME Typed, TournamentSound, [Next]_vars,
           tournament.lobby, tournament'.open, ~tournament'.lobby
    PROVE  tid' = tid /\ \A c \in Online : players[c].ready
<1>1. CASE Frame
  BY <1>1, FrameWays
<1>2. CASE ~Frame
  BY <1>2, OutsideFrames DEF Closed
<1> QED
  BY <1>1, <1>2

LEMMA WarmupStep ==
    ASSUME Typed, TournamentSound, [Next]_vars, tournament.open, warmup, tid' # tid
    PROVE  current' = current /\ ~warmup' /\ ~tournament'.lobby
<1>1. CASE Frame
  BY <1>1, FrameWays
<1>2. CASE ~Frame
  BY <1>2, OutsideFrames
<1> QED
  BY <1>1, <1>2

(* A lobby is never left while somebody who is connected is not ready.     *)
THEOREM LobbyCorrect == SafeSpec => LobbyLeftTogether
<1>1. Typed /\ TournamentSound /\ [Next]_vars =>
        [tournament.lobby /\ tournament'.open /\ ~tournament'.lobby
           => tid' = tid /\ \A c \in Online : players[c].ready]_vars
  BY LobbyStep
<1> QED
  BY <1>1, InitTyped, TypedStep, InitSound, SoundStep, PTL DEF SafeSpec, LobbyLeftTogether

(* A warmup that is not broken off is followed by the game itself, on the  *)
(* same map and without a lobby: nothing the administrator does without    *)
(* closing the tournament comes between them.                              *)
THEOREM WarmupCorrect == SafeSpec => WarmupThenGame
<1>1. Typed /\ TournamentSound /\ [Next]_vars =>
        [tournament.open /\ warmup /\ tid' # tid
           => current' = current /\ ~warmup' /\ ~tournament'.lobby]_vars
  BY WarmupStep
<1> QED
  BY <1>1, InitTyped, TypedStep, InitSound, SoundStep, PTL DEF SafeSpec, WarmupThenGame
=============================================================================
