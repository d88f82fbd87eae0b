-------------------------- MODULE Wearables_proofs --------------------------
(***************************************************************************)
(* With no scores held and no join requests of living players a flag, or   *)
(* the coin, is carried by one player or lies in the map, for every set of *)
(* connections and every drop time.                                        *)
(*                                                                         *)
(* A world [ps, ts] of players and things is Whole if what is picked is    *)
(* what somebody carries, and nobody else does.  Every step of the pass of *)
(* Tournament::integrate and every handler maps a whole world to a whole   *)
(* one, nearly all of them because they only take things from players      *)
(* (Keep); to pick something is the other way round.                       *)
(***************************************************************************)
EXTENDS Wearables, FiniteSetTheorems, TLAPS

Sound(p) ==
    /\ p \in Player
    /\ p.wears => p.status = "playing"
    /\ p.status = "playing" => p.synced

Has(p, x) == p.wears /\ Wearable(p) = x

Typed(v) ==
    /\ v = [ps |-> v.ps, ts |-> v.ts]
    /\ v.ps = [c \in DOMAIN v.ps |-> v.ps[c]]
    /\ DOMAIN v.ps \subseteq Conns
    /\ \A c \in DOMAIN v.ps : Sound(v.ps[c])
    /\ v.ts \in [Names -> Thing]

Carried(v) ==
    /\ \A x \in Names : v.ts[x].picked => \E c \in DOMAIN v.ps : Has(v.ps[c], x)
    /\ \A c \in DOMAIN v.ps : \A x \in Names : Has(v.ps[c], x) => v.ts[x].picked
    /\ \A c, d \in DOMAIN v.ps : \A x \in Names :
          Has(v.ps[c], x) /\ Has(v.ps[d], x) => c = d

Whole(v) == Typed(v) /\ Carried(v)

(* From v to w the players of S lose what they carry, the others keep it,  *)
(* and who comes or goes carries nothing or is one of S.                   *)
Lose(v, w, S) ==
    /\ \A c \in DOMAIN w.ps : w.ps[c].wears =>
          /\ c \in DOMAIN v.ps /\ c \notin S
          /\ v.ps[c].wears /\ Wearable(w.ps[c]) = Wearable(v.ps[c])
    /\ \A c \in DOMAIN v.ps : v.ps[c].wears /\ c \notin S =>
          c \in DOMAIN w.ps /\ w.ps[c].wears
    /\ \A x \in Names : w.ts[x].picked => /\ v.ts[x].picked
                                          /\ \A c \in S : ~Has(v.ps[c], x)
    /\ \A x \in Names : v.ts[x].picked /\ (\A c \in S : ~Has(v.ps[c], x)) => w.ts[x].picked

LEMMA LoseKeeps ==
    ASSUME NEW v, NEW w, NEW S, Carried(v), S \subseteq DOMAIN v.ps, Lose(v, w, S)
    PROVE  Carried(w)
<1>1. \A c \in DOMAIN w.ps : \A x \in Names :
         Has(w.ps[c], x) => c \in DOMAIN v.ps /\ c \notin S /\ Has(v.ps[c], x)
  BY DEF Lose, Has
<1>2. \A c \in DOMAIN v.ps : \A x \in Names :
         Has(v.ps[c], x) /\ c \notin S => c \in DOMAIN w.ps /\ Has(w.ps[c], x)
  BY DEF Lose, Has
<1>3. ASSUME NEW x \in Names, w.ts[x].picked
      PROVE  \E c \in DOMAIN w.ps : Has(w.ps[c], x)
  <2>1. v.ts[x].picked /\ \A c \in S : ~Has(v.ps[c], x)
    BY <1>3 DEF Lose
  <2>2. PICK c \in DOMAIN v.ps : Has(v.ps[c], x)
    BY <2>1 DEF Carried
  <2> QED BY <2>1, <2>2, <1>2
<1>4. ASSUME NEW c \in DOMAIN w.ps, NEW x \in Names, Has(w.ps[c], x)
      PROVE  w.ts[x].picked
  <2>1. c \in DOMAIN v.ps /\ c \notin S /\ Has(v.ps[c], x)
    BY <1>1, <1>4
  <2>2. \A d \in S : ~Has(v.ps[d], x)
    BY <2>1 DEF Carried
  <2>3. v.ts[x].picked
    BY <2>1 DEF Carried
  <2> QED BY <2>2, <2>3 DEF Lose
<1>5. \A c, d \in DOMAIN w.ps : \A x \in Names :
         Has(w.ps[c], x) /\ Has(w.ps[d], x) => c = d
  BY <1>1 DEF Carried
<1> QED
  BY <1>3, <1>4, <1>5 DEF Carried

LEMMA WearableName ==
    ASSUME NEW p \in Player, kind \in {"CTF", "CTC"}
    PROVE  Wearable(p) \in Names
BY DEF Wearable, Names, Player

Lying == [picked |-> FALSE, place |-> "away", left |-> DropTime]

LEMMA FreshThings ==
    /\ Lying \in Thing /\ ~Lying.picked
    /\ Returned \in Thing /\ ~Returned.picked
BY WearablesAssumption DEF Lying, Returned, Thing

(* The updates of a player.  *)
LEMMA Stripped ==
    ASSUME NEW p, Sound(p)
    PROVE  LET q == [p EXCEPT !.wears = FALSE] IN
           Sound(q) /\ ~q.wears /\ q.status = p.status
BY DEF Sound, Player

LEMMA Slain ==
    ASSUME NEW p, Sound(p), ~p.wears
    PROVE  LET q == [p EXCEPT !.status = "dead"] IN
           Sound(q) /\ ~q.wears /\ q.status = "dead"
BY DEF Sound, Player

-----------------------------------------------------------------------------
(* The steps of a pass.  *)
LEMMA DroppedWhole ==
    ASSUME NEW v, NEW c \in DOMAIN v.ps, Whole(v), kind \in {"CTF", "CTC"}
    PROVE  /\ Whole(Dropped(v, c))
           /\ DOMAIN Dropped(v, c).ps = DOMAIN v.ps
           /\ ~Dropped(v, c).ps[c].wears
           /\ Dropped(v, c).ps[c].status = v.ps[c].status
<1>1. CASE ~v.ps[c].wears
  BY <1>1 DEF Dropped
<1>2. CASE v.ps[c].wears
  <2> DEFINE x == Wearable(v.ps[c])
             ps == [v.ps EXCEPT ![c].wears = FALSE]
             ts == [v.ts EXCEPT ![x] = Lying]
             w == [ps |-> ps, ts |-> ts]
  <2>1. Dropped(v, c) = w
    BY <1>2 DEF Dropped, Lying
  <2>2. x \in Names /\ Sound(v.ps[c]) /\ v.ts \in [Names -> Thing]
    BY WearableName DEF Whole, Typed, Sound
  <2>3. /\ w.ps = ps /\ w.ts = ts /\ DOMAIN ps = DOMAIN v.ps
        /\ ps[c] = [v.ps[c] EXCEPT !.wears = FALSE]
        /\ \A d \in DOMAIN v.ps : d # c => ps[d] = v.ps[d]
        /\ ps = [d \in DOMAIN ps |-> ps[d]]
    BY DEF Whole, Typed
  <2>4. Sound(ps[c]) /\ ~ps[c].wears /\ ps[c].status = v.ps[c].status
    BY <2>2, <2>3, Stripped
  <2>5. ts \in [Names -> Thing] /\ ts[x] = Lying /\ \A y \in Names : y # x => ts[y] = v.ts[y]
    BY <2>2, FreshThings
  <2> HIDE DEF ps, ts
  <2>6. Typed(w)
    BY <2>3, <2>4, <2>5 DEF Whole, Typed
  <2>7. Lose(v, w, {c})
    BY <1>2, <2>2, <2>3, <2>4, <2>5, FreshThings DEF Lose, Has, Whole, Carried
  <2> QED
    BY ZenonT(40), <2>1, <2>3, <2>4, <2>6, <2>7, LoseKeeps DEF Whole
<1> QED BY <1>1, <1>2 DEF Whole, Typed, Sound, Player

LEMMA DiedWhole ==
    ASSUME NEW v, NEW c \in DOMAIN v.ps, Whole(v), kind \in {"CTF", "CTC"}
    PROVE  /\ Whole(Died(v, c)) /\ DOMAIN Died(v, c).ps = DOMAIN v.ps
           /\ Died(v, c).ps[c].status = "dead"
<1> DEFINE u == Dropped(v, c)
           ps == [u.ps EXCEPT ![c].status = "dead"]
           w == [ps |-> ps, ts |-> u.ts]
<1>1. Whole(u) /\ DOMAIN u.ps = DOMAIN v.ps /\ ~u.ps[c].wears
  BY DroppedWhole
<1>2. Died(v, c) = w
  <2>1. Died(v, c) = [u EXCEPT !.ps[c].status = "dead"]
    BY DEF Died
  <2>2. u = [ps |-> u.ps, ts |-> u.ts]
    BY <1>1 DEF Whole, Typed
  <2> HIDE DEF u
  <2> QED BY <2>1, <2>2
<1> HIDE DEF u
<1>3. /\ w.ps = ps /\ w.ts = u.ts /\ DOMAIN ps = DOMAIN u.ps
      /\ ps[c] = [u.ps[c] EXCEPT !.status = "dead"]
      /\ \A d \in DOMAIN u.ps : d # c => ps[d] = u.ps[d]
      /\ ps = [d \in DOMAIN ps |-> ps[d]]
  BY <1>1 DEF Whole, Typed
<1>4. Sound(ps[c]) /\ ~ps[c].wears /\ ps[c].status = "dead"
  BY <1>1, <1>3, Slain DEF Whole, Typed
<1> HIDE DEF ps
<1>5. Typed(w)
  BY <1>1, <1>3, <1>4 DEF Whole, Typed
<1>6. Lose(u, w, {})
  BY <1>1, <1>3, <1>4 DEF Lose, Has
<1> QED
  BY ZenonT(40), <1>1, <1>2, <1>3, <1>4, <1>5, <1>6, LoseKeeps DEF Whole

LEMMA KilledWhole ==
    ASSUME NEW v, NEW S, S \subseteq DOMAIN v.ps, Whole(v), kind \in {"CTF", "CTC"}
    PROVE  Whole(Killed(v, S)) /\ DOMAIN Killed(v, S).ps = DOMAIN v.ps
<1> DEFINE ps == [c \in DOMAIN v.ps |->
                    IF c \in S THEN [v.ps[c] EXCEPT !.status = "dead", !.wears = FALSE]
                    ELSE v.ps[c]]
           ts == [x \in DOMAIN v.ts |->
                    IF \E c \in S : v.ps[c].wears /\ Wearable(v.ps[c]) = x
                    THEN Lying ELSE v.ts[x]]
           w == [ps |-> ps, ts |-> ts]
<1>1. Killed(v, S) = w
  BY DEF Killed, Everyone, Lying
<1>2. \A c \in S : Sound(ps[c]) /\ ~ps[c].wears
  BY ZenonT(40) DEF Whole, Typed, Sound, Player
<1>3. \A c \in DOMAIN v.ps \ S : ps[c] = v.ps[c]
  OBVIOUS
<1>4. DOMAIN v.ts = Names
  BY DEF Whole, Typed
<1>5. \A x \in Names : IF \E c \in S : Has(v.ps[c], x) THEN ts[x] = Lying ELSE ts[x] = v.ts[x]
  BY <1>4 DEF Has
<1>6. DOMAIN ps = DOMAIN v.ps /\ ps = [c \in DOMAIN ps |-> ps[c]]
  OBVIOUS
<1>7. ts \in [Names -> Thing]
  BY <1>4, FreshThings DEF Whole, Typed
<1>8. w.ps = ps /\ w.ts = ts
  OBVIOUS
<1> HIDE DEF ps, ts
<1>9. Typed(w)
  BY <1>2, <1>3, <1>6, <1>7, <1>8 DEF Whole, Typed
<1>10. Lose(v, w, S)
  BY <1>2, <1>3, <1>5, <1>6, <1>8, FreshThings DEF Lose
<1> QED
  BY <1>1, <1>6, <1>8, <1>9, <1>10, LoseKeeps DEF Whole

(* Only the things change, or only the players; all are picked, or carry,  *)
(* what they did.                                                          *)
LEMMA ThingsWhole ==
    ASSUME NEW v, NEW ts \in [Names -> Thing], Whole(v),
           \A x \in Names : (ts[x].picked => v.ts[x].picked) /\ (v.ts[x].picked => ts[x].picked)
    PROVE  LET w == [ps |-> v.ps, ts |-> ts] IN Whole(w) /\ DOMAIN w.ps = DOMAIN v.ps
<1> DEFINE w == [ps |-> v.ps, ts |-> ts]
<1>1. w.ps = v.ps /\ w.ts = ts
  OBVIOUS
<1>2. Typed(w)
  BY <1>1 DEF Whole, Typed
<1>3. Lose(v, w, {})
  BY <1>1 DEF Lose
<1> QED
  BY <1>1, <1>2, <1>3, LoseKeeps DEF Whole

LEMMA PlayersWhole ==
    ASSUME NEW v, NEW ps, Whole(v),
           DOMAIN ps = DOMAIN v.ps, ps = [c \in DOMAIN v.ps |-> ps[c]],
           \A c \in DOMAIN v.ps : /\ Sound(ps[c])
                                  /\ ps[c].wears => v.ps[c].wears
                                  /\ v.ps[c].wears => ps[c].wears
                                  /\ ps[c].wears => Wearable(ps[c]) = Wearable(v.ps[c])
    PROVE  LET w == [ps |-> ps, ts |-> v.ts] IN Whole(w) /\ DOMAIN w.ps = DOMAIN v.ps
<1> DEFINE w == [ps |-> ps, ts |-> v.ts]
<1>1. w.ps = ps /\ w.ts = v.ts
  OBVIOUS
<1>2. Typed(w)
  BY <1>1 DEF Whole, Typed
<1>3. Lose(v, w, {})
  BY <1>1 DEF Lose
<1> QED
  BY <1>1, <1>2, <1>3, LoseKeeps DEF Whole

LEMMA MovedWhole ==
    ASSUME NEW v, NEW S, Whole(v), kind \in {"CTF", "CTC"}
    PROVE  Whole(Moved(v, S)) /\ DOMAIN Moved(v, S).ps = DOMAIN v.ps
<1> DEFINE ts == [x \in DOMAIN v.ts |->
                    IF x \in S /\ ~v.ts[x].picked /\ v.ts[x].place = "away"
                    THEN [v.ts[x] EXCEPT !.place = "below"] ELSE v.ts[x]]
           w == [ps |-> v.ps, ts |-> ts]
<1>1. Moved(v, S) = w
  BY DEF Moved, Whole, Typed
<1>2. DOMAIN v.ts = Names /\ \A x \in Names : v.ts[x] \in Thing
  BY DEF Whole, Typed
<1>3. \A x \in Names : ts[x] \in Thing /\ (ts[x].picked => v.ts[x].picked)
                                       /\ (v.ts[x].picked => ts[x].picked)
  BY <1>2 DEF Thing
<1>4. ts \in [Names -> Thing]
  BY <1>2, <1>3
<1> HIDE DEF ts
<1> QED
  BY <1>1, <1>3, <1>4, ThingsWhole

LEMMA ValidThing ==
    ASSUME NEW t \in Thing, NEW tick \in BOOLEAN
    PROVE  /\ Valid(t, tick) \in Thing
           /\ Valid(t, tick).picked => t.picked
           /\ t.picked => Valid(t, tick).picked
<1> USE WearablesAssumption
<1>1. CASE t.picked \/ t.place = "origin"
  BY <1>1 DEF Valid
<1>2. CASE ~(t.picked \/ t.place = "origin") /\ (t.place = "below" \/ (tick /\ t.left <= 1))
  BY <1>2, FreshThings DEF Valid
<1>3. CASE ~(t.picked \/ t.place = "origin") /\ ~(t.place = "below" \/ (tick /\ t.left <= 1))
  <2>1. Valid(t, tick) = [t EXCEPT !.left = IF tick THEN t.left - 1 ELSE t.left]
    BY <1>3 DEF Valid
  <2>2. t.left \in 0 .. DropTime
    BY DEF Thing
  <2>3. PICK n : n = IF tick THEN t.left - 1 ELSE t.left
    OBVIOUS
  <2>4. n \in 0 .. DropTime
    BY <1>3, <2>2, <2>3
  <2> QED BY <1>3, <2>1, <2>3, <2>4 DEF Thing
<1> QED BY <1>1, <1>2, <1>3

LEMMA ValidatedWhole ==
    ASSUME NEW v, NEW tick \in BOOLEAN, Whole(v), kind \in {"CTF", "CTC"}
    PROVE  Whole(Validated(v, tick)) /\ DOMAIN Validated(v, tick).ps = DOMAIN v.ps
<1> DEFINE ts == [x \in DOMAIN v.ts |-> Valid(v.ts[x], tick)]
           w == [ps |-> v.ps, ts |-> ts]
<1>1. Validated(v, tick) = w
  BY DEF Validated, Whole, Typed
<1>2. DOMAIN v.ts = Names /\ \A x \in Names : v.ts[x] \in Thing
  BY DEF Whole, Typed
<1>3. \A x \in Names : ts[x] \in Thing /\ (ts[x].picked => v.ts[x].picked)
                                       /\ (v.ts[x].picked => ts[x].picked)
  BY <1>2, ValidThing
<1>4. ts \in [Names -> Thing]
  BY <1>2, <1>3
<1> HIDE DEF ts
<1> QED
  BY <1>1, <1>3, <1>4, ThingsWhole

LEMMA ThrownWhole ==
    ASSUME NEW v, NEW S, S \subseteq DOMAIN v.ps, Whole(v), kind \in {"CTF", "CTC"}
    PROVE  Whole(Thrown(v, S)) /\ DOMAIN Thrown(v, S).ps = DOMAIN v.ps
<1>1. CASE kind # "CTF"
  BY <1>1 DEF Thrown
<1>2. CASE kind = "CTF"
  <2> DEFINE T == {c \in S : v.ps[c].wears}
             ps == [c \in DOMAIN v.ps |->
                      IF c \in T THEN [v.ps[c] EXCEPT !.wears = FALSE, !.refused = TRUE]
                      ELSE v.ps[c]]
             ts == [x \in DOMAIN v.ts |->
                      IF \E c \in T : Wearable(v.ps[c]) = x THEN Lying ELSE v.ts[x]]
             w == [ps |-> ps, ts |-> ts]
  <2>1. Thrown(v, S) = w
    BY <1>2 DEF Thrown, Everyone, Lying
  <2>2. \A c \in T : Sound(ps[c]) /\ ~ps[c].wears
    BY ZenonT(40) DEF Whole, Typed, Sound, Player
  <2>3. \A c \in DOMAIN v.ps \ T : ps[c] = v.ps[c]
    OBVIOUS
  <2>4. DOMAIN v.ts = Names
    BY DEF Whole, Typed
  <2>5. \A x \in Names : IF \E c \in T : Has(v.ps[c], x) THEN ts[x] = Lying ELSE ts[x] = v.ts[x]
    BY <2>4 DEF Has
  <2>6. DOMAIN ps = DOMAIN v.ps /\ ps = [c \in DOMAIN ps |-> ps[c]]
    OBVIOUS
  <2>7. ts \in [Names -> Thing]
    BY <2>4, FreshThings DEF Whole, Typed
  <2>8. w.ps = ps /\ w.ts = ts /\ T \subseteq DOMAIN v.ps
    OBVIOUS
  <2> HIDE DEF ps, ts, T
  <2>9. Typed(w)
    BY <2>2, <2>3, <2>6, <2>7, <2>8 DEF Whole, Typed
  <2>10. Lose(v, w, T)
    BY <2>2, <2>3, <2>5, <2>6, <2>8, FreshThings DEF Lose
  <2> QED
    BY <2>1, <2>6, <2>8, <2>9, <2>10, LoseKeeps DEF Whole
<1> QED BY <1>1, <1>2

LEMMA ForgivenWhole ==
    ASSUME NEW v, NEW S, Whole(v), kind \in {"CTF", "CTC"}
    PROVE  Whole(Forgiven(v, S)) /\ DOMAIN Forgiven(v, S).ps = DOMAIN v.ps
<1> DEFINE ps == [c \in DOMAIN v.ps |->
                    IF c \in S THEN [v.ps[c] EXCEPT !.refused = FALSE] ELSE v.ps[c]]
<1>1. Forgiven(v, S) = [v EXCEPT !.ps = ps]
  BY DEF Forgiven, Everyone
<1>2. \A c \in DOMAIN v.ps :
        /\ Sound(ps[c])
        /\ ps[c].wears => v.ps[c].wears
        /\ v.ps[c].wears => ps[c].wears
        /\ Wearable(ps[c]) = Wearable(v.ps[c])
  BY ZenonT(40) DEF Whole, Typed, Sound, Player, Wearable
<1>3. DOMAIN ps = DOMAIN v.ps /\ ps = [c \in DOMAIN v.ps |-> ps[c]]
  OBVIOUS
<1> HIDE DEF ps
<1>4. Forgiven(v, S) = [ps |-> ps, ts |-> v.ts]
  BY <1>1 DEF Whole, Typed
<1> QED BY <1>2, <1>3, <1>4, PlayersWhole

LEMMA RespawnedWhole ==
    ASSUME NEW v, Whole(v), kind \in {"CTF", "CTC"}
    PROVE  /\ Whole(Respawned(v)) /\ DOMAIN Respawned(v).ps = DOMAIN v.ps
           /\ \A c \in DOMAIN v.ps : Respawned(v).ps[c].wears => v.ps[c].wears
<1> DEFINE new(p) ==
             IF ~(p.synced /\ p.respawning) THEN p
             ELSE IF p.status = "playing" THEN [p EXCEPT !.respawning = FALSE]
             ELSE [p EXCEPT !.respawning = FALSE, !.status = "playing", !.wears = FALSE,
                            !.refused = FALSE]
           ps == [c \in DOMAIN v.ps |-> new(v.ps[c])]
<1>1. Respawned(v) = [v EXCEPT !.ps = ps]
  BY DEF Respawned, Everyone
<1>2. ASSUME NEW p, Sound(p)
      PROVE  /\ Sound(new(p))
             /\ new(p).wears => p.wears
             /\ p.wears => new(p).wears
             /\ Wearable(new(p)) = Wearable(p)
  <2>1. CASE ~(p.synced /\ p.respawning)
    BY <1>2, <2>1
  <2>2. CASE p.synced /\ p.respawning /\ p.status = "playing"
    BY <1>2, <2>2 DEF Sound, Player, Wearable
  <2>3. CASE p.synced /\ p.respawning /\ p.status # "playing"
    BY <1>2, <2>3 DEF Sound, Player, Wearable
  <2> QED BY <2>1, <2>2, <2>3
<1> HIDE DEF new
<1>3. DOMAIN ps = DOMAIN v.ps /\ ps = [c \in DOMAIN v.ps |-> ps[c]]
  OBVIOUS
<1>4. \A c \in DOMAIN v.ps :
        /\ Sound(ps[c])
        /\ ps[c].wears => v.ps[c].wears
        /\ v.ps[c].wears => ps[c].wears
        /\ Wearable(ps[c]) = Wearable(v.ps[c])
  BY <1>2 DEF Whole, Typed
<1> HIDE DEF ps
<1>5. Respawned(v) = [ps |-> ps, ts |-> v.ts]
  BY <1>1 DEF Whole, Typed
<1> QED BY <1>3, <1>4, <1>5, PlayersWhole

LEMMA AtBaseWhole ==
    ASSUME NEW v, NEW c \in DOMAIN v.ps, Whole(v), kind \in {"CTF", "CTC"}
    PROVE  /\ Whole(AtBase(v, c)) /\ DOMAIN AtBase(v, c).ps = DOMAIN v.ps
           /\ AtBase(v, c).ps[c].status = v.ps[c].status
<1>1. CASE kind # "CTF" \/ ~v.ps[c].wears
  BY <1>1 DEF AtBase
<1>2. CASE kind = "CTF" /\ v.ps[c].wears
  <2> DEFINE x == Wearable(v.ps[c])
             ps == [v.ps EXCEPT ![c].wears = FALSE]
             ts == [v.ts EXCEPT ![x] = Returned]
             w == [ps |-> ps, ts |-> ts]
  <2>1. AtBase(v, c) = w
    BY <1>2 DEF AtBase
  <2>2. x \in Names /\ Sound(v.ps[c]) /\ v.ts \in [Names -> Thing]
    BY WearableName DEF Whole, Typed, Sound
  <2>3. /\ w.ps = ps /\ w.ts = ts /\ DOMAIN ps = DOMAIN v.ps
        /\ ps[c] = [v.ps[c] EXCEPT !.wears = FALSE]
        /\ \A d \in DOMAIN v.ps : d # c => ps[d] = v.ps[d]
        /\ ps = [d \in DOMAIN ps |-> ps[d]]
    BY DEF Whole, Typed
  <2>4. Sound(ps[c]) /\ ~ps[c].wears /\ ps[c].status = v.ps[c].status
    BY <2>2, <2>3, Stripped
  <2>5. ts \in [Names -> Thing] /\ ts[x] = Returned /\ \A y \in Names : y # x => ts[y] = v.ts[y]
    BY <2>2, FreshThings
  <2> HIDE DEF ps, ts
  <2>6. Typed(w)
    BY <2>3, <2>4, <2>5 DEF Whole, Typed
  <2>7. Lose(v, w, {c})
    BY <1>2, <2>2, <2>3, <2>4, <2>5, FreshThings DEF Lose, Has, Whole, Carried
  <2> QED
    BY ZenonT(40), <2>1, <2>3, <2>4, <2>6, <2>7, LoseKeeps DEF Whole
<1> QED BY <1>1, <1>2

(* To pick: what nobody has picked, nobody carries.  *)
LEMMA PickedWhole ==
    ASSUME NEW v, NEW c \in DOMAIN v.ps, NEW x \in Names, Whole(v), kind \in {"CTF", "CTC"},
           v.ps[c].status = "playing"
    PROVE  /\ Whole(Picked(v, c, x)) /\ DOMAIN Picked(v, c, x).ps = DOMAIN v.ps
           /\ Picked(v, c, x).ps[c].status = "playing"
<1> USE DEF Whole
<1>1. Sound(v.ps[c]) /\ v.ts \in [Names -> Thing]
  BY DEF Typed
<1>2. CASE ~CanPick(v, c, x)
  BY <1>2 DEF Picked
<1>3. CASE CanPick(v, c, x) /\ Wearable(v.ps[c]) = x
  <2> DEFINE ps == [v.ps EXCEPT ![c].wears = TRUE]
             ts == [v.ts EXCEPT ![x].picked = TRUE]
             w == [ps |-> ps, ts |-> ts]
  <2>1. Picked(v, c, x) = w
    BY <1>3 DEF Picked
  <2>2. /\ w.ps = ps /\ w.ts = ts /\ DOMAIN ps = DOMAIN v.ps
        /\ ps[c] = [v.ps[c] EXCEPT !.wears = TRUE]
        /\ \A d \in DOMAIN v.ps : d # c => ps[d] = v.ps[d]
        /\ ps = [d \in DOMAIN ps |-> ps[d]]
    BY DEF Typed
  <2>3. /\ Sound(ps[c]) /\ ps[c].wears /\ ps[c].status = "playing"
        /\ Wearable(ps[c]) = x
    BY <1>1, <1>3, <2>2 DEF Sound, Player, Wearable
  <2>4. /\ ts \in [Names -> Thing] /\ ts[x].picked
        /\ \A y \in Names : y # x => ts[y] = v.ts[y]
    BY <1>1 DEF Thing
  <2>5. ~v.ts[x].picked /\ \A d \in DOMAIN v.ps : ~Has(v.ps[d], x)
    BY <1>3 DEF CanPick, Carried
  <2>6. ~v.ps[c].wears
    BY <1>3, <2>5 DEF Has
  <2> HIDE DEF ps, ts
  <2>7. Typed(w)
    BY ZenonT(40), <2>2, <2>3, <2>4 DEF Typed
  <2>8. \A d \in DOMAIN ps : \A y \in Names :
          /\ Has(ps[d], y) => IF d = c THEN y = x ELSE Has(v.ps[d], y)
          /\ (IF d = c THEN y = x ELSE Has(v.ps[d], y)) => Has(ps[d], y)
    BY <2>2, <2>3 DEF Has
  <2>9. Carried(w)
    <3>1. ASSUME NEW y \in Names, ts[y].picked
          PROVE  \E d \in DOMAIN ps : Has(ps[d], y)
      <4>1. CASE y = x
        BY <2>2, <2>8, <4>1
      <4>2. CASE y # x
        <5>1. PICK d \in DOMAIN v.ps : Has(v.ps[d], y)
          BY <2>4, <3>1, <4>2 DEF Carried
        <5>2. d # c
          BY <2>6, <5>1 DEF Has
        <5> QED BY <2>2, <2>8, <5>1, <5>2
      <4> QED BY <4>1, <4>2
    <3>2. ASSUME NEW d \in DOMAIN ps, NEW y \in Names, Has(ps[d], y)
          PROVE  ts[y].picked
      BY <2>2, <2>4, <2>8, <3>2 DEF Carried
    <3>3. ASSUME NEW d \in DOMAIN ps, NEW e \in DOMAIN ps, NEW y \in Names,
                 Has(ps[d], y), Has(ps[e], y)
          PROVE  d = e
      BY <2>2, <2>5, <2>8, <3>3 DEF Carried
    <3> QED BY <2>2, <3>1, <3>2, <3>3 DEF Carried
  <2> QED BY <2>1, <2>2, <2>3, <2>7, <2>9
<1>4. CASE CanPick(v, c, x) /\ Wearable(v.ps[c]) # x
  <2> DEFINE ts == [v.ts EXCEPT ![x] = Returned]
  <2>1. Picked(v, c, x) = [v EXCEPT !.ts = ts]
    BY <1>4 DEF Picked, Typed
  <2>2. /\ ts \in [Names -> Thing]
        /\ \A y \in Names : (ts[y].picked => v.ts[y].picked) /\ (v.ts[y].picked => ts[y].picked)
    BY <1>1, <1>4, FreshThings DEF CanPick
  <2> HIDE DEF ts
  <2>3. Picked(v, c, x) = [ps |-> v.ps, ts |-> ts]
    BY <2>1 DEF Typed
  <2>4. Whole([ps |-> v.ps, ts |-> ts]) /\ DOMAIN [ps |-> v.ps, ts |-> ts].ps = DOMAIN v.ps
    BY ZenonT(40), <2>2, ThingsWhole
  <2> QED BY <2>3, <2>4
<1> QED BY <1>2, <1>3, <1>4

LEMMA PickedAllWhole ==
    ASSUME NEW v, NEW c \in DOMAIN v.ps, NEW S \in SUBSET Names, Whole(v),
           kind \in {"CTF", "CTC"}, v.ps[c].status = "playing"
    PROVE  /\ Whole(PickedAll(v, c, S)) /\ DOMAIN PickedAll(v, c, S).ps = DOMAIN v.ps
<1>1. CASE S = {}
  <2>1. Cardinality(S) # 1
    BY <1>1, FS_EmptySet
  <2> QED BY <1>1, <2>1 DEF PickedAll
<1>2. CASE S # {} /\ Cardinality(S) = 1
  <2>1. PickedAll(v, c, S) = Picked(v, c, CHOOSE x \in S : TRUE)
    BY <1>2 DEF PickedAll
  <2>2. (CHOOSE x \in S : TRUE) \in Names
    BY <1>2
  <2> QED BY <2>1, <2>2, PickedWhole
<1>3. CASE S # {} /\ Cardinality(S) # 1
  <2> DEFINE x == CHOOSE x \in S : TRUE
             y == CHOOSE y \in S : y # x
             u == Picked(v, c, x)
  <2>1. PickedAll(v, c, S) = Picked(u, c, y)
    BY <1>3 DEF PickedAll
  <2>2. x \in S
    BY <1>3
  <2>3. \E z \in S : z # x
    <3>1. ASSUME NEW z, S = {z} PROVE FALSE
      BY <1>3, <3>1, FS_Singleton
    <3>2. S # {x}
      BY <3>1
    <3> HIDE DEF x
    <3> QED BY <2>2, <3>2
  <2>4. y \in S
    BY <2>3
  <2> HIDE DEF x, y
  <2>5. x \in Names /\ y \in Names
    BY <2>2, <2>4
  <2>6. Whole(u) /\ DOMAIN u.ps = DOMAIN v.ps /\ u.ps[c].status = "playing"
    BY <2>5, PickedWhole
  <2> HIDE DEF u
  <2> QED BY <2>1, <2>5, <2>6, PickedWhole
<1> QED BY <1>1, <1>2, <1>3

LEMMA VisitedWhole ==
    ASSUME NEW v, NEW c \in Alive(v), NEW tile \in {"none", "base", "killing"},
           NEW S \in SUBSET Names, NEW dies \in BOOLEAN, Whole(v), kind \in {"CTF", "CTC"}
    PROVE  Whole(Visited(v, c, tile, S, dies)) /\ DOMAIN Visited(v, c, tile, S, dies).ps = DOMAIN v.ps
<1> DEFINE u == CASE tile = "base" -> AtBase(v, c)
                  [] tile = "killing" -> Died(v, c)
                  [] OTHER -> v
           picked == IF u.ps[c].status = "dead" THEN u ELSE PickedAll(u, c, S)
<1>1. c \in DOMAIN v.ps /\ v.ps[c].status = "playing"
  BY DEF Alive, Everyone
<1>2. Whole(u) /\ DOMAIN u.ps = DOMAIN v.ps /\ u.ps[c].status \in {"playing", "dead"}
  <2>1. CASE tile = "base"
    BY <1>1, <2>1, AtBaseWhole
  <2>2. CASE tile = "killing"
    BY <1>1, <2>2, DiedWhole
  <2>3. CASE tile = "none"
    BY <1>1, <2>3
  <2> QED BY <2>1, <2>2, <2>3
<1>3. Whole(picked) /\ DOMAIN picked.ps = DOMAIN v.ps
  <2> HIDE DEF u
  <2> QED BY <1>1, <1>2, PickedAllWhole
<1>4. Visited(v, c, tile, S, dies) =
        IF dies /\ picked.ps[c].status # "dead" THEN Died(picked, c) ELSE picked
  BY DEF Visited
<1> HIDE DEF picked
<1> QED BY <1>1, <1>3, <1>4, DiedWhole

-----------------------------------------------------------------------------
(* The inductive invariant: CarryInv, that the players are a function, and *)
(* that Player objects are numbered.                                       *)
IInv ==
    /\ kind \in {"CTF", "CTC"} /\ logins \in Nat /\ DOMAIN held = {}
    /\ Typed(World)
    /\ game # "none" => Carried(World)
    /\ game = "lobby" => \A c \in Online : ~players[c].wears

LEMMA IInvImplies == ASSUME IInv PROVE CarryInv
<1>1. World.ps = players /\ World.ts = things
  BY DEF World
<1>2. CarriersPlay
  BY <1>1 DEF IInv, Typed, Sound, CarriersPlay, Online
<1>3. CarriedOnce
  BY <1>1 DEF IInv, Carried, Has, CarriedOnce, Wears, Online
<1> QED
  BY <1>1, <1>2, <1>3 DEF IInv, Typed, Sound, CarryInv, Online

LEMMA InitIInv == ASSUME Init PROVE IInv
<1>1. kind \in {"CTF", "CTC"} /\ logins \in Nat /\ DOMAIN held = {}
  BY WearablesAssumption DEF Init
<1>2. /\ World.ps = players /\ World.ts = things /\ World = [ps |-> World.ps, ts |-> World.ts]
      /\ DOMAIN players = {} /\ game = "none"
  BY DEF World, Init
<1>3. things \in [Names -> Thing]
  BY <1>1, FreshThings DEF Init, Fresh, Names, Returned
<1>4. players = [c \in DOMAIN players |-> players[c]]
  BY DEF Init
<1> QED BY <1>1, <1>2, <1>3, <1>4 DEF IInv, Typed

(* The handlers that change nothing but players and things, in a way that  *)
(* loses what some of the players carry.                                   *)
LEMMA NextTyped ==
    ASSUME NEW w, Typed(w), players' = w.ps, things' = w.ts, kind' = kind
    PROVE  Typed(World)'
BY DEF Typed, World, Sound, Names

LEMMA NextCarried ==
    ASSUME NEW w, Carried(w), players' = w.ps, things' = w.ts, kind' = kind
    PROVE  Carried(World)'
BY DEF Carried, World, Has, Wearable, Names

LEMMA HeldNone == ASSUME DOMAIN held = {}, HeldExpire PROVE (DOMAIN held = {})'
BY DEF HeldExpire

(* The rest of a pass from the fire buttons on, and from the tiles on.  *)
Ends(v2) ==
    \/ Becomes(Respawned(v2))
    \/ \E c \in Alive(v2), tile \in {"none", "base", "killing"},
          S \in SUBSET Names, dies \in BOOLEAN :
         Becomes(Respawned(Visited(v2, c, tile, S, dies)))

Goes(v1) ==
    \E fire \in SUBSET Carriers(v1) : \E forgiven \in SUBSET Unforgiven(Thrown(v1, fire)) :
      Ends(Forgiven(Thrown(v1, fire), forgiven))

LEMMA EndsWhole ==
    ASSUME NEW v, Whole(v), Ends(v), kind \in {"CTF", "CTC"}, kind' = kind
    PROVE  Typed(World)' /\ Carried(World)'
<1>1. PICK w : Whole(w) /\ Becomes(Respawned(w))
  BY VisitedWhole DEF Ends
<1>2. Whole(Respawned(w))
  BY <1>1, RespawnedWhole
<1> QED
  BY <1>1, <1>2, NextTyped, NextCarried DEF Whole, Becomes

LEMMA GoesWhole ==
    ASSUME NEW v, Whole(v), Goes(v), kind \in {"CTF", "CTC"}, kind' = kind
    PROVE  Typed(World)' /\ Carried(World)'
<1>1. PICK fire \in SUBSET Carriers(v) : \E forgiven \in SUBSET Unforgiven(Thrown(v, fire)) :
        Ends(Forgiven(Thrown(v, fire), forgiven))
  BY DEF Goes
<1>2. PICK forgiven \in SUBSET Unforgiven(Thrown(v, fire)) :
        Ends(Forgiven(Thrown(v, fire), forgiven))
  BY <1>1
<1>3. Whole(Thrown(v, fire))
  BY ThrownWhole DEF Carriers, Everyone
<1>4. Whole(Forgiven(Thrown(v, fire), forgiven))
  BY <1>3, ForgivenWhole
<1> QED
  BY <1>2, <1>4, EndsWhole

LEMMA IntegrateIInv == ASSUME IInv, NEW tick \in BOOLEAN, Integrate(tick) PROVE IInv'
<1> USE DEF IInv
<1>1. Whole(World) /\ World.ps = players /\ World.ts = things
  BY DEF Integrate, Whole, World
<1>2. \E shot \in SUBSET Alive(World) : \E fallen \in SUBSET Loose(Killed(World, shot)) :
        Goes(Validated(Moved(Killed(World, shot), fallen), tick))
  BY DEF Integrate, Goes, Ends
<1>3. PICK shot \in SUBSET Alive(World) : \E fallen \in SUBSET Loose(Killed(World, shot)) :
        Goes(Validated(Moved(Killed(World, shot), fallen), tick))
  BY <1>2
<1>4. PICK fallen : Goes(Validated(Moved(Killed(World, shot), fallen), tick))
  BY <1>3
<1>5. Whole(Killed(World, shot))
  BY <1>1, KilledWhole DEF Alive, Everyone
<1>6. Whole(Moved(Killed(World, shot), fallen))
  BY <1>5, MovedWhole
<1>7. Whole(Validated(Moved(Killed(World, shot), fallen), tick))
  BY <1>6, ValidatedWhole
<1>8. Typed(World)' /\ Carried(World)'
  BY <1>4, <1>7, GoesWhole DEF Integrate
<1> QED
  BY <1>8, HeldNone DEF Integrate

LEMMA IdlePassIInv == ASSUME IInv, IdlePass PROVE IInv'
<1> USE DEF IInv
<1>1. Whole(World) /\ World.ps = players /\ World.ts = things
  BY DEF IdlePass, Whole, World
<1> DEFINE w == Respawned(World)
<1>2. /\ Whole(w) /\ DOMAIN w.ps = DOMAIN players
      /\ \A c \in DOMAIN players : w.ps[c].wears => players[c].wears
  BY <1>1, RespawnedWhole
<1>3. players' = w.ps /\ things' = w.ts /\ kind' = kind
  BY DEF IdlePass, Becomes
<1> HIDE DEF w
<1>4. Typed(World)' /\ Carried(World)'
  BY <1>2, <1>3, NextTyped, NextCarried DEF Whole
<1>5. (game = "lobby" => \A c \in Online : ~players[c].wears)'
  BY <1>2, <1>3 DEF IdlePass, Online
<1> QED
  BY <1>4, <1>5, HeldNone DEF IdlePass

(* A handler that loses what the players of S carry, and nobody else.  *)
LEMMA Handler ==
    ASSUME IInv, NEW w, NEW S, S \subseteq Online, Typed(w), Lose(World, w, S),
           players' = w.ps, things' = w.ts, kind' = kind, game' = game,
           logins' \in Nat, DOMAIN held' = {}
    PROVE  IInv'
<1>1. World.ps = players /\ World.ts = things
  BY DEF World
<1>2. Typed(World)'
  BY NextTyped
<1>3. ASSUME game # "none" PROVE Carried(World)'
  <2>1. Carried(w)
    BY <1>1, <1>3, LoseKeeps DEF IInv, Online
  <2> QED BY <2>1, NextCarried
<1>4. (game = "lobby" => \A c \in Online : ~players[c].wears)'
  BY <1>1 DEF IInv, Lose, Online
<1> QED BY <1>2, <1>3, <1>4 DEF IInv

(* Handlers of one player who keeps what he carries.  *)
LEMMA OnePlayer ==
    ASSUME IInv, NEW c \in Online, NEW q, Sound(q),
           q.wears => players[c].wears, players[c].wears => q.wears,
           q.wears => Wearable(q) = Wearable(players[c]),
           players' = [players EXCEPT ![c] = q], things' = things,
           kind' = kind, game' = game, logins' = logins, held' = held
    PROVE  IInv'
<1> DEFINE ps == [players EXCEPT ![c] = q]
           w == [ps |-> ps, ts |-> things]
<1>1. /\ World.ps = players /\ World.ts = things /\ w.ps = ps /\ w.ts = things
      /\ w = [ps |-> w.ps, ts |-> w.ts]
  BY DEF World
<1>2. /\ DOMAIN ps = Online /\ ps[c] = q /\ \A d \in Online : d # c => ps[d] = players[d]
      /\ ps = [d \in DOMAIN ps |-> ps[d]]
  BY <1>1 DEF IInv, Typed, Online
<1> HIDE DEF ps
<1>3. Typed(w)
  BY <1>1, <1>2 DEF IInv, Typed, Online
<1>4. Lose(World, w, {})
  BY <1>1, <1>2 DEF Lose, Online
<1>5. players' = w.ps /\ things' = w.ts
  BY <1>1 DEF ps
<1> HIDE DEF w
<1> QED
  BY <1>3, <1>4, <1>5, Handler DEF IInv

LEMMA PlayerSound == ASSUME IInv, NEW c \in Online PROVE Sound(players[c])
BY DEF IInv, Typed, World, Online

LEMMA SyncIInv == ASSUME IInv, NEW c \in Conns, Sync(c) PROVE IInv'
<1> DEFINE p == players[c]
           q == [p EXCEPT !.synced = TRUE]
<1>1. c \in Online /\ Sound(p)
  BY PlayerSound DEF Sync
<1>2. Sound(q) /\ q.wears = p.wears /\ Wearable(q) = Wearable(p)
  BY <1>1 DEF Sound, Player, Wearable
<1>3. players' = [players EXCEPT ![c] = q]
  BY DEF Sync
<1> HIDE DEF q
<1> QED
  BY <1>1, <1>2, <1>3, OnePlayer DEF Sync

LEMMA RespawnRequestIInv == ASSUME IInv, NEW c \in Conns, RespawnRequest(c) PROVE IInv'
<1> DEFINE p == players[c]
           q == [p EXCEPT !.respawning = TRUE]
<1>1. c \in Online /\ Sound(p)
  BY PlayerSound DEF RespawnRequest
<1>2. Sound(q) /\ q.wears = p.wears /\ Wearable(q) = Wearable(p)
  BY <1>1 DEF Sound, Player, Wearable
<1>3. players' = [players EXCEPT ![c] = q]
  BY DEF RespawnRequest
<1> HIDE DEF q
<1> QED
  BY <1>1, <1>2, <1>3, OnePlayer DEF RespawnRequest

(* Who joins spectates, and carries nothing he could change the team with. *)
LEMMA JoinIInv ==
    ASSUME IInv, LateJoin = FALSE, NEW c \in Conns, NEW red \in BOOLEAN, Join(c, red)
    PROVE  IInv'
<1> DEFINE p == players[c]
<1>1. PICK b : b = (p.red \/ (red /\ kind = "CTF"))
  OBVIOUS
<1>2. b \in BOOLEAN
  BY <1>1
<1> DEFINE q == [p EXCEPT !.red = b, !.respawning = TRUE]
<1>3. c \in Online /\ Sound(p) /\ p.status = "spectating"
  BY PlayerSound DEF Join
<1>4. Sound(q) /\ ~q.wears /\ ~p.wears
  BY <1>2, <1>3 DEF Sound, Player
<1>5. players' = [players EXCEPT ![c] = q]
  BY <1>1 DEF Join
<1> HIDE DEF q
<1> QED
  BY <1>3, <1>4, <1>5, OnePlayer DEF Join

LEMMA SelectTeamIInv ==
    ASSUME IInv, NEW c \in Conns, NEW red \in BOOLEAN, SelectTeam(c, red)
    PROVE  IInv'
<1> DEFINE p == players[c]
           q == [p EXCEPT !.red = red]
<1>1. c \in Online /\ Sound(p) /\ ~p.wears
  BY PlayerSound DEF SelectTeam, IInv
<1>2. Sound(q) /\ ~q.wears
  BY <1>1 DEF Sound, Player
<1>3. players' = [players EXCEPT ![c] = q]
  BY DEF SelectTeam
<1> HIDE DEF q
<1> QED
  BY <1>1, <1>2, <1>3, OnePlayer DEF SelectTeam

LEMMA SpectateIInv == ASSUME IInv, NEW c \in Conns, Spectate(c) PROVE IInv'
<1> DEFINE u == Dropped(World, c)
           q == Reset(u.ps[c])
           ps == [u.ps EXCEPT ![c] = q]
           w == [ps |-> ps, ts |-> u.ts]
<1>1. c \in Online /\ game # "none" /\ World.ps = players /\ World.ts = things
  BY DEF Spectate, World
<1>2. Whole(World)
  BY <1>1 DEF IInv, Whole
<1>3. Whole(u) /\ DOMAIN u.ps = Online /\ ~u.ps[c].wears
  BY <1>1, <1>2, DroppedWhole DEF Online, IInv
<1>4. Spectates(c) = w
  <2>1. Spectates(c) = [u EXCEPT !.ps[c] = q]
    BY DEF Spectates
  <2> HIDE DEF u, q
  <2> QED BY <1>3, <2>1 DEF Whole, Typed
<1> HIDE DEF u
<1>5. Sound(q) /\ ~q.wears
  BY <1>1, <1>3 DEF Whole, Typed, Sound, Player, Reset
<1> HIDE DEF q
<1>6. /\ DOMAIN ps = Online /\ ps[c] = q /\ (\A d \in Online : d # c => ps[d] = u.ps[d])
      /\ ps = [d \in DOMAIN ps |-> ps[d]] /\ w.ps = ps /\ w.ts = u.ts
      /\ w = [ps |-> w.ps, ts |-> w.ts]
  BY <1>1, <1>3 DEF Whole, Typed
<1> HIDE DEF ps
<1>7. Typed(w)
  BY <1>3, <1>5, <1>6 DEF Whole, Typed
<1>8. Lose(u, w, {})
  BY <1>3, <1>5, <1>6 DEF Lose
<1>9. Carried(w)
  BY <1>3, <1>8, LoseKeeps DEF Whole
<1>10. players' = w.ps /\ things' = w.ts
  BY <1>4 DEF Spectate, Becomes
<1> HIDE DEF w
<1>11. Typed(World)' /\ Carried(World)'
  BY <1>7, <1>9, <1>10, NextTyped, NextCarried DEF Spectate
<1>12. (game = "lobby" => \A d \in Online : ~players[d].wears)'
  <2> SUFFICES ASSUME game = "lobby", NEW d \in Online
               PROVE  ~players'[d].wears
    BY <1>6, <1>10 DEF Spectate, Online
  <2>1. ~players[d].wears
    BY DEF IInv
  <2>2. ~World.ps[c].wears
    BY <1>1 DEF IInv
  <2>3. u = World
    BY <2>2 DEF u, Dropped
  <2> QED BY <1>1, <1>5, <1>6, <1>10, <2>1, <2>3
<1> QED
  BY <1>11, <1>12 DEF IInv, Spectate

(* A player's states are all that goes when he was not the last one.  *)
LEMMA LogoutIInv ==
    ASSUME IInv, HoldScores = FALSE, NEW c \in Conns, Logout(c)
    PROVE  IInv'
<1> DEFINE ps == Without(players, c)
<1>1. c \in Online /\ World.ps = players /\ World.ts = things /\ players' = ps
  BY DEF Logout, World
<1>2. /\ DOMAIN ps = Online \ {c} /\ ps = [d \in DOMAIN ps |-> ps[d]]
      /\ \A d \in Online \ {c} : ps[d] = players[d]
  BY DEF Without, Online
<1>3. Sound(players[c])
  BY <1>1, PlayerSound
<1> HIDE DEF ps
<1>4. CASE Online = {c}
  <2> DEFINE w == [ps |-> ps, ts |-> things']
  <2>1. things' = Fresh(kind) /\ game' = "none" /\ DOMAIN held' = {} /\ DOMAIN ps = {}
    BY <1>1, <1>2, <1>4 DEF Logout
  <2>2. things' \in [Names -> Thing]
    BY <2>1, FreshThings DEF Fresh, Names, Returned, IInv
  <2>3. Typed(w)
    BY <1>2, <2>1, <2>2 DEF Typed
  <2>4. w.ps = players' /\ w.ts = things'
    BY <1>1
  <2> HIDE DEF w
  <2>5. Typed(World)'
    BY <2>3, <2>4, NextTyped DEF Logout
  <2> QED BY <2>1, <2>5 DEF IInv, Logout
<1>5. CASE Online # {c} /\ players[c].synced /\ game # "none"
  <2> DEFINE u == Dropped(World, c)
             w == [ps |-> ps, ts |-> u.ts]
  <2>1. Whole(World)
    BY <1>5 DEF IInv, Whole
  <2>2. Whole(u) /\ DOMAIN u.ps = Online /\ ~u.ps[c].wears
    BY <1>1, <2>1, DroppedWhole DEF Online, IInv
  <2>3. \A d \in Online : d # c => u.ps[d] = players[d]
    BY <1>1 DEF Dropped, Online
  <2>4. things' = u.ts /\ game' = game /\ DOMAIN held' = {}
    BY <1>5 DEF Logout, IInv
  <2> HIDE DEF u
  <2>5. w.ps = ps /\ w.ts = u.ts /\ w = [ps |-> w.ps, ts |-> w.ts]
    OBVIOUS
  <2>6. Typed(w)
    BY <1>2, <2>2, <2>3, <2>5 DEF Whole, Typed
  <2>7. Lose(u, w, {})
    BY <1>2, <2>2, <2>3, <2>5 DEF Lose
  <2>8. Carried(w)
    BY <2>2, <2>7, LoseKeeps DEF Whole
  <2>9. players' = w.ps /\ things' = w.ts
    BY <1>1, <2>4, <2>5
  <2> HIDE DEF w
  <2>10. Typed(World)' /\ Carried(World)'
    BY <2>6, <2>8, <2>9, NextTyped, NextCarried DEF Logout
  <2>11. (game = "lobby" => \A d \in Online : ~players[d].wears)'
    BY <1>1, <1>2, <2>4 DEF IInv, Online
  <2> QED BY <2>4, <2>10, <2>11 DEF IInv, Logout
<1>6. CASE Online # {c} /\ ~(players[c].synced /\ game # "none")
  <2> DEFINE w == [ps |-> ps, ts |-> things]
  <2>1. things' = things /\ game' = game /\ DOMAIN held' = {}
    BY <1>6 DEF Logout, IInv
  <2>2. w.ps = ps /\ w.ts = things /\ w = [ps |-> w.ps, ts |-> w.ts]
    OBVIOUS
  <2>3. Typed(w)
    BY <1>1, <1>2, <2>2 DEF IInv, Typed, Online
  <2>4. players' = w.ps /\ things' = w.ts
    BY <1>1, <2>1, <2>2
  <2>5. Typed(World)'
    BY <2>3, <2>4, NextTyped DEF Logout
  <2>6. ASSUME game # "none" PROVE Carried(World)'
    <3>1. ~players[c].wears
      BY <1>3, <1>6, <2>6 DEF Sound
    <3>2. Lose(World, w, {})
      BY <1>1, <1>2, <2>2, <3>1 DEF Lose, Online
    <3>3. Carried(w)
      BY <2>6, <3>2, LoseKeeps DEF IInv
    <3> QED BY <2>4, <3>3, NextCarried DEF Logout
  <2>7. (game = "lobby" => \A d \in Online : ~players[d].wears)'
    BY <1>1, <1>2, <2>1 DEF IInv, Online
  <2> QED BY <2>1, <2>5, <2>6, <2>7 DEF IInv, Logout
<1> QED BY <1>4, <1>5, <1>6

LEMMA LoginIInv == ASSUME IInv, NEW c \in Conns, Login(c) PROVE IInv'
<1> DEFINE q == Newcomer(c)
           ps == With(players, c, q)
           w == [ps |-> ps, ts |-> things]
<1>1. c \notin Online /\ World.ps = players /\ World.ts = things /\ logins \in Nat
  BY DEF Login, World, IInv
<1>2. Sound(q) /\ ~q.wears
  BY <1>1 DEF Sound, Player, Newcomer
<1>3. players' = ps
  BY DEF Login, IInv
<1> HIDE DEF q
<1>4. /\ DOMAIN ps = Online \cup {c} /\ ps = [d \in DOMAIN ps |-> ps[d]]
      /\ ps[c] = q /\ \A d \in Online : ps[d] = players[d]
  BY <1>1 DEF With, Online
<1> HIDE DEF ps
<1>5. w.ps = ps /\ w.ts = things /\ w = [ps |-> w.ps, ts |-> w.ts]
  OBVIOUS
<1>6. Typed(w)
  BY <1>1, <1>2, <1>4, <1>5 DEF IInv, Typed, Online
<1>7. Lose(World, w, {})
  BY <1>1, <1>2, <1>4, <1>5 DEF Lose, Online
<1>8. players' = w.ps /\ things' = w.ts /\ logins' \in Nat /\ DOMAIN held' = {}
  BY <1>1, <1>3, <1>5 DEF Login, IInv, Without
<1> HIDE DEF w
<1> QED
  BY <1>6, <1>7, <1>8, Handler DEF Login

LEMMA FreshTyped ==
    ASSUME kind \in {"CTF", "CTC"}
    PROVE  /\ Fresh(kind) \in [Names -> Thing]
           /\ \A x \in Names : ~Fresh(kind)[x].picked
BY FreshThings DEF Fresh, Names, Returned

LEMMA CloseIInv == ASSUME IInv, Close PROVE IInv'
<1> DEFINE w == [ps |-> players, ts |-> Fresh(kind)]
<1>1. w.ps = players' /\ w.ts = things' /\ game' = "none"
  BY DEF Close
<1>2. Typed(w)
  BY FreshTyped DEF IInv, Typed, World
<1> HIDE DEF w
<1> QED
  BY <1>1, <1>2, NextTyped DEF Close, IInv

(* Everybody has dropped everything: who is loading carries nothing, and   *)
(* the others are reset.                                                   *)
LEMMA NextTournamentIInv ==
    ASSUME IInv, NEW switch \in BOOLEAN, NextTournament(switch)
    PROVE  IInv'
<1>1. PICK selected \in SUBSET Online :
        players' = [c \in Online |->
                      IF ~players[c].synced THEN players[c]
                      ELSE IF switch THEN Kept(players[c])
                      ELSE [Reset(players[c]) EXCEPT !.red = players[c].red /\ c \in selected]]
  BY DEF NextTournament
<1>2. ASSUME NEW p, Sound(p), ~p.synced PROVE ~p.wears
  BY <1>2 DEF Sound, Player
<1>3. ASSUME NEW p, Sound(p), p.synced
      PROVE  Sound(Kept(p)) /\ ~Kept(p).wears
  <2>1. PICK t : t = IF p.status = "spectating" THEN p.status ELSE "playing"
    OBVIOUS
  <2>2. Kept(p) = [p EXCEPT !.wears = FALSE, !.refused = FALSE, !.status = t]
    BY <2>1 DEF Kept
  <2>3. t \in {"playing", "dead", "spectating"}
    BY <2>1
  <2> QED BY <1>3, <2>2, <2>3 DEF Sound, Player
<1>4. ASSUME NEW p, Sound(p), NEW b \in BOOLEAN
      PROVE  LET q == [Reset(p) EXCEPT !.red = b] IN Sound(q) /\ ~q.wears
  BY <1>4 DEF Sound, Player, Reset
<1>5. ASSUME NEW c \in Online
      PROVE  Sound(players'[c]) /\ ~players'[c].wears
  <2>1. Sound(players[c])
    BY PlayerSound
  <2>2. CASE ~players[c].synced
    BY <1>1, <1>2, <2>1, <2>2
  <2>3. CASE players[c].synced /\ switch
    BY <1>1, <1>3, <2>1, <2>3
  <2>4. CASE players[c].synced /\ ~switch
    <3>1. PICK b : b = (players[c].red /\ c \in selected)
      OBVIOUS
    <3>2. b \in BOOLEAN
      BY <3>1
    <3>3. players'[c] = [Reset(players[c]) EXCEPT !.red = b]
      BY <1>1, <2>4, <3>1
    <3> QED BY <1>4, <2>1, <3>2, <3>3
  <2> QED BY <2>2, <2>3, <2>4
<1>6. DOMAIN players' = Online /\ players' = [c \in DOMAIN players' |-> players'[c]]
  BY <1>1
<1>7. things' = Fresh(kind) /\ kind' = kind /\ logins' = logins /\ DOMAIN held' = {}
  BY DEF NextTournament
<1> DEFINE w == [ps |-> players', ts |-> Fresh(kind)]
<1>8. w.ps = players' /\ w.ts = things' /\ w = [ps |-> w.ps, ts |-> w.ts]
  BY <1>7
<1>9. Typed(w)
  BY <1>5, <1>6, <1>7, <1>8, FreshTyped DEF IInv, Typed, Online, World
<1>10. Carried(w)
  BY <1>5, <1>6, <1>7, <1>8, FreshTyped DEF IInv, Carried, Has
<1> HIDE DEF w
<1>11. Typed(World)' /\ Carried(World)'
  BY <1>7, <1>8, <1>9, <1>10, NextTyped, NextCarried
<1> QED
  BY <1>5, <1>6, <1>7, <1>11 DEF IInv, Online

-----------------------------------------------------------------------------
LEMMA NextIInv ==
    ASSUME HoldScores = FALSE, LateJoin = FALSE, IInv, [Next]_vars
    PROVE  IInv'
<1>1. CASE UNCHANGED vars
  BY ZenonT(40), <1>1 DEF vars, IInv, Typed, Carried, World, Has, Sound, Wearable, Names, Online
<1>2. ASSUME NEW tick \in BOOLEAN, Integrate(tick) PROVE IInv'
  BY <1>2, IntegrateIInv
<1>3. CASE IdlePass
  BY <1>3, IdlePassIInv
<1>4. CASE StartGame \/ TimeUp
  <2>1. Typed(World)' /\ Carried(World)' /\ game' \in {"running", "over"}
    BY <1>4, NextTyped, NextCarried DEF StartGame, TimeUp, IInv, World
  <2> QED BY <1>4, <2>1 DEF StartGame, TimeUp, IInv
<1>5. CASE Close
  BY <1>5, CloseIInv
<1>6. ASSUME NEW switch \in BOOLEAN, NextTournament(switch) PROVE IInv'
  BY <1>6, NextTournamentIInv
<1>7. ASSUME NEW c \in Conns, Login(c) \/ Sync(c) \/ Spectate(c) \/ Logout(c) \/ RespawnRequest(c)
      PROVE  IInv'
  BY <1>7, LoginIInv, SyncIInv, SpectateIInv, LogoutIInv, RespawnRequestIInv
<1>8. ASSUME NEW c \in Conns, NEW red \in BOOLEAN, Join(c, red) \/ SelectTeam(c, red)
      PROVE  IInv'
  BY <1>8, JoinIInv, SelectTeamIInv
<1> QED
  BY <1>1, <1>2, <1>3, <1>4, <1>5, <1>6, <1>7, <1>8 DEF Next

(* Unless scores are held or a living player joins, the invariant that     *)
(* makes the wearables of CTF and CTC consistent holds of every reachable  *)
(* state, for every set of connections, drop time and bound.               *)
THEOREM CarryHolds ==
    ASSUME HoldScores = FALSE, LateJoin = FALSE
    PROVE  Spec => []CarryInv
<1>1. Init => IInv
  BY InitIInv
<1>2. IInv /\ [Next]_vars => IInv'
  BY NextIInv
<1>3. IInv => CarryInv
  BY IInvImplies
<1> QED
  BY <1>1, <1>2, <1>3, PTL DEF Spec

(* A flag or the coin is never lost and never doubled: dropping, picking,  *)
(* returning and carrying it home, the death, spectating and disconnection *)
(* of its carrier, and the end of the tournament keep it in one place.     *)
THEOREM NeverDoubled ==
    ASSUME HoldScores = FALSE, LateJoin = FALSE
    PROVE  Spec => []CarriedOnce
<1>1. CarryInv => CarriedOnce
  BY DEF CarryInv
<1> QED
  BY <1>1, CarryHolds, PTL

(* The dead, the spectators and those who load the paks carry nothing,     *)
(* unless scores are held or a living player joins.                        *)
THEOREM OnlyPlayersCarry ==
    ASSUME HoldScores = FALSE, LateJoin = FALSE
    PROVE  Spec => []CarriersPlay
<1>1. CarryInv => CarriersPlay
  BY DEF CarryInv
<1> QED
  BY <1>1, CarryHolds, PTL
=============================================================================
