------------------------------- MODULE Scoring -------------------------------
(***************************************************************************)
(* How a match is scored: frags and suicides (deathmatch), team points     *)
(* (team deathmatch), the hill (Goat of the hill) and lap times (speed     *)
(* race).  The server keeps the score and queues state responses; each     *)
(* synchronised client keeps a copy from the responses that the server     *)
(* loop broadcasts, and a new one gets his from sync_client.  Players who  *)
(* still load the paks are left out.                                       *)
(***************************************************************************)
EXTENDS Integers, FiniteSets, Sequences, SequencesExt

CONSTANTS
    PlayerIds,         \* identifiers of players
    Tournaments,       \* the kinds of tournament the server is configured for
    HillCounterMax,    \* passes on the hill that score, 750 ticks
    LapTimes,          \* lap times
    MaxDeaths,         \* bound: deaths, frags and points in a match
    MaxLaps,           \* bound: laps in a match
    MaxOutbox          \* bound: responses that wait when a handler adds one

ASSUME ScoringAssumption ==
    /\ PlayerIds \subseteq Nat \ {0} /\ IsFiniteSet(PlayerIds)
    /\ Tournaments \subseteq {"DM", "TDM", "GOH", "SR"}
    /\ HillCounterMax \in Nat \ {0} /\ LapTimes \subseteq Nat \ {0}
    /\ {MaxDeaths, MaxLaps, MaxOutbox} \subseteq Nat

VARIABLES
    type,       \* kind of the tournament
    roster,     \* server: from synchronised players to their state
    total,      \* server: score of the teams
    hill,       \* server: first_player_on_hill, 0 when there is none
    counter,    \* server: hill_counter
    times,      \* server: times_of_players, in the order of the list
    outbox,     \* server: state_responses
    told        \* copies of the clients who were sent all of it, in order

scoring == <<type, roster, total, hill, counter, times, outbox, told>>

Teams == {"red", "blue"}
IsTeamGame == type \in {"TDM", "GOH"}
Member == [mode: {"spectating", "dead", "alive"}, team: Teams, asks: BOOLEAN,
           score: Int, frags: Nat, kills: Nat]
Times == [id: PlayerIds, laps: Seq(LapTimes)]
Message == [cmd: {"team", "hill", "lap", "record"}, id: {0} \cup PlayerIds, value: Nat,
            total: [Teams -> Nat]]
Laps == UNION {[D -> Seq(Nat)] : D \in SUBSET PlayerIds}
Copy == [total: [Teams -> Nat], onHill: {0} \cup PlayerIds, counter: Nat, laps: Laps]

Present == DOMAIN roster
NoPoints == [t \in Teams |-> 0]
Newcomer == [mode |-> "spectating", team |-> "blue", asks |-> FALSE,
             score |-> 0, frags |-> 0, kills |-> 0]
NoLaps(i) == [id |-> i, laps |-> << >>]
Best(laps) == CHOOSE t \in Range(laps) : \A u \in Range(laps) : t <= u
LapsRun(ts) == FoldLeft(LAMBDA n, e : n + Len(e.laps), 0, ts)
Note(c, i, v) == [cmd |-> c, id |-> i, value |-> v, total |-> NoPoints]
TeamScore(s) == [Note("team", 0, 0) EXCEPT !.total = s]

ScoringInit ==
    /\ type \in Tournaments
    /\ roster = << >> /\ total = NoPoints /\ hill = 0 /\ counter = 0
    /\ times = << >> /\ outbox = << >> /\ told = << >>

-----------------------------------------------------------------------------
(* What a client makes of a response.  Of the lap times a copy keeps       *)
(* those of every player.                                                  *)

HeardOne(v, m) ==
    CASE m.cmd = "team" -> [v EXCEPT !.total = m.total]
      [] m.cmd = "hill" -> [v EXCEPT !.counter = m.value,
                                     !.onHill = IF m.value = 0 THEN 0 ELSE m.id]
      [] OTHER -> IF m.id \in DOMAIN v.laps
                  THEN [v EXCEPT !.laps[m.id] = Append(@, m.value)] ELSE v

HeardEach(v, ms) ==
    LET h[n \in 0 .. Len(ms)] == IF n = 0 THEN v ELSE HeardOne(h[n - 1], ms[n])
    IN  h[Len(ms)]
WithLaps(v, i) == [v EXCEPT !.laps = [j \in DOMAIN @ \cup {i} |->
                                        IF j = i THEN << >> ELSE @[j]]]
WithoutLaps(v, i) == [v EXCEPT !.laps = [j \in DOMAIN @ \ {i} |-> @[j]]]

(* create_generic_data chains the first lap of all and forgets the others. *)
GenericLaps(ts) ==
    LET n == SelectInSeq(ts, LAMBDA e : e.laps # << >>)
    IN  IF n = 0 THEN << >> ELSE <<Note("lap", ts[n].id, ts[n].laps[1])>>

SyncedCopy(i, ts) ==
    HeardEach([total |-> total, counter |-> 0, onHill |-> 0,
               laps |-> [j \in Present \cup {i} |-> << >>]],
              IF type = "GOH" /\ hill # 0 THEN <<Note("hill", hill, counter)>>
              ELSE IF type = "SR" THEN GenericLaps(ts) ELSE << >>)

(* A copy is followed from the start only if nothing is missing from it.   *)
OneLap(ts) == \A j, k \in DOMAIN ts :
    ts[j].laps # << >> /\ ts[k].laps # << >> => j = k /\ Len(ts[j].laps) = 1
Complete(ts) == outbox = << >> /\ OneLap(ts)

-----------------------------------------------------------------------------
(* Who comes and goes.  *)

(* player_removed and player_added, of the race alone.  *)
TimesWithoutHim(i) == RemoveFirstMatch(times, LAMBDA e : e.id = i)
Listed(ts, i) == IF type = "SR" THEN Append(ts, NoLaps(i)) ELSE ts

(* sync_client: what waits in the outbox is sent to the new client alone.  *)
Synchronise(i) ==
    /\ i \notin Present
    /\ roster' = [j \in Present \cup {i} |-> IF j = i THEN Newcomer ELSE roster[j]]
    /\ times' = Listed(times, i)
    /\ told' = IF outbox # << >> THEN << >>
               ELSE [j \in DOMAIN told \cup (IF Complete(times') THEN {i} ELSE {}) |->
                       IF j = i THEN SyncedCopy(i, times') ELSE WithLaps(told[j], i)]
    /\ outbox' = << >>
    /\ UNCHANGED <<type, total, hill, counter>>

(* test_and_remove_player_from_hill  *)
(* Mutant: he stays the goat.  *)
StaysGoat(i) == hill
OffHill(i) == IF hill = i THEN 0 ELSE hill
(* Mutant: nobody is told.  *)
Untold(i) == << >>
OffHillNotes(i) ==
    IF type = "GOH" /\ hill = i THEN <<Note("hill", i, 0)>> ELSE << >>

Leaves(i) ==
    /\ roster' = [j \in Present \ {i} |-> roster[j]]
    /\ times' = TimesWithoutHim(i)
    /\ hill' = OffHill(i) /\ outbox' = outbox \o OffHillNotes(i)
    /\ told' = [j \in DOMAIN told \ {i} |-> WithoutLaps(told[j], i)]
    /\ UNCHANGED <<type, total, counter>>

(* GPSSpectate.  Laps that wait reach clients who have just emptied their  *)
(* list of his laps: their copies are wrong from then on.                  *)
Misled(i) == \E k \in DOMAIN outbox : outbox[k].cmd \in {"lap", "record"} /\ outbox[k].id = i

GoesToWatch(i) ==
    /\ roster' = [roster EXCEPT ![i] = [Newcomer EXCEPT !.asks = roster[i].asks]]
    /\ times' = Listed(TimesWithoutHim(i), i)
    /\ hill' = OffHill(i) /\ outbox' = outbox \o OffHillNotes(i)
    /\ told' = IF Misled(i) THEN << >>
               ELSE [j \in DOMAIN told |-> WithLaps(told[j], i)]
    /\ UNCHANGED <<type, total, counter>>

(* GPSJoinRequest: player_joins puts him into the red team and never takes *)
(* him out of it.  GPSRespawnRequest asks the same of a dead player.       *)
AsksToJoin(i, team) ==
    /\ team = "blue" \/ IsTeamGame
    /\ roster' = [roster EXCEPT ![i].asks = TRUE,
                                ![i].team = IF team = "red" THEN "red" ELSE @]
    /\ UNCHANGED <<type, total, hill, counter, times, outbox, told>>

-----------------------------------------------------------------------------
(* Deaths and points.  *)

Deaths == FoldLeft(LAMBDA n, i : n + roster[i].kills + roster[i].frags, 0, SetToSeq(Present))
          + total["red"] + total["blue"]

(* player_dies  *)
Dead(p) == [p EXCEPT !.mode = "dead", !.kills = @ + 1]

(* frag_point: of a team game, of the deathmatch, of the race.  *)
Friendly(o, i) == IsTeamGame /\ roster[o].team = roster[i].team
FragPoint(o, i) ==
    IF type = "SR" THEN 0 ELSE IF Friendly(o, i) THEN 0 - 2 ELSE 1

(* Player i dies of a weapon whose owner is o, who may have left or be     *)
(* unknown (0); of the map, when o is 0.                                   *)
DiesBy(i, o) ==
    /\ roster[i].mode = "alive" /\ Deaths < MaxDeaths /\ Len(outbox) <= MaxOutbox
    /\ roster' = [j \in Present |->
          IF j = i /\ o = i THEN [Dead(roster[i]) EXCEPT !.score = @ - 1]
          ELSE IF j = i THEN Dead(roster[i])
          ELSE IF j = o THEN [roster[o] EXCEPT !.frags = @ + 1, !.score = @ + FragPoint(o, i)]
          ELSE roster[j]]
    /\ hill' = OffHill(i)
    /\ LET scores == type = "TDM" /\ o \in Present \ {i} /\ ~Friendly(o, i)
           now == IF scores THEN [total EXCEPT ![roster[o].team] = @ + 1] ELSE total
       IN  /\ total' = now
           /\ outbox' = outbox \o OffHillNotes(i)
                        \o (IF scores THEN <<TeamScore(now)>> ELSE << >>)
    /\ UNCHANGED <<type, counter, times, told>>

(* TournamentGOH::subintegrate, with the living players in the zone: he    *)
(* who came first stays the goat while he is there, else the last in the   *)
(* list becomes it.  The counter is sent every 25 ticks: here, at every    *)
(* pass or at none.  At the end all who live die, without player_dies.     *)
Goat(zone) == IF hill \in zone THEN {hill} ELSE zone

HillIsFree ==
    /\ hill # 0
    /\ hill' = 0 /\ outbox' = outbox \o <<Note("hill", hill, 0)>>
    /\ UNCHANGED <<roster, total, counter>>

HillIsTaken(i) ==
    /\ i # hill
    /\ hill' = i /\ counter' = HillCounterMax
    /\ outbox' = outbox \o <<Note("hill", i, HillCounterMax)>>
    /\ UNCHANGED <<roster, total>>

HillIsHeld(i) ==
    /\ i = hill /\ counter > 1
    /\ counter' = counter - 1
    /\ \E sent \in BOOLEAN :
          outbox' = IF sent THEN outbox \o <<Note("hill", i, counter - 1)>> ELSE outbox
    /\ UNCHANGED <<roster, total, hill>>

HillScores(i) ==
    /\ i = hill /\ counter <= 1 /\ Deaths < MaxDeaths
    /\ hill' = 0 /\ counter' = 0
    /\ roster' = [j \in Present |->
          IF roster[j].mode = "alive" THEN [roster[j] EXCEPT !.mode = "dead"] ELSE roster[j]]
    /\ total' = [total EXCEPT ![roster[i].team] = @ + 1]
    /\ outbox' = outbox \o <<Note("hill", i, 0), TeamScore(total')>>

HillPass(zone) ==
    /\ type = "GOH" /\ Len(outbox) <= MaxOutbox
    /\ IF zone = {} THEN HillIsFree
       ELSE \E i \in Goat(zone) : HillIsTaken(i) \/ HillIsHeld(i) \/ HillScores(i)
    /\ UNCHANGED <<type, times, told>>

(* round_finished_set_time: the best lap so far is the best of the first   *)
(* in the list, which is sorted afterwards.                                *)
Faster(a, b) ==
    a.laps # << >> /\ (b.laps # << >> => Best(a.laps) < Best(b.laps))
(* Mutant: the list is not sorted.  *)
Unsorted(ts) == {ts}
Sorted(ts) == {s \in SetToSeqs(Range(ts)) : \A j, k \in DOMAIN s : Faster(s[j], s[k]) => j < k}

FinishesLap(i, t) ==
    /\ type = "SR" /\ LapsRun(times) < MaxLaps /\ Len(outbox) <= MaxOutbox
    /\ \E s \in Sorted([k \in DOMAIN times |->
                   IF times[k].id = i THEN [times[k] EXCEPT !.laps = Append(@, t)]
                   ELSE times[k]]) : times' = s
    /\ outbox' = Append(outbox,
          Note(IF times[1].laps = << >> \/ t < Best(times[1].laps) THEN "record" ELSE "lap",
               i, t))
    /\ UNCHANGED <<type, roster, total, hill, counter, told>>

-----------------------------------------------------------------------------
(* The server loop broadcasts the responses, and lets in who asked.        *)
LetIn(p) == IF p.asks /\ p.mode # "alive" THEN [p EXCEPT !.mode = "alive", !.asks = FALSE]
            ELSE [p EXCEPT !.asks = FALSE]

SendAll ==
    /\ outbox # << >> \/ \E i \in Present : roster[i].asks
    /\ told' = [j \in DOMAIN told |-> HeardEach(told[j], outbox)]
    /\ outbox' = << >>
    /\ roster' = [i \in Present |-> LetIn(roster[i])]
    /\ UNCHANGED <<type, total, hill, counter, times>>

(* The next tournament: a new object on the server and on each client.     *)
(* The team stays; a player begins as a spectator, or again in the game.   *)
NextMatch ==
    /\ outbox = << >>
    /\ \E playOn \in BOOLEAN :
          roster' = [i \in Present |-> [Newcomer EXCEPT
              !.team = IF playOn THEN roster[i].team ELSE "blue",
              !.mode = IF playOn /\ roster[i].mode # "spectating" THEN "alive" ELSE @,
              !.asks = roster[i].asks]]
    /\ type' \in Tournaments
    /\ total' = NoPoints /\ hill' = 0 /\ counter' = 0
    /\ IF type' = "SR"
       THEN \E s \in SetToSeqs(Present) : times' = [k \in DOMAIN s |-> NoLaps(s[k])]
       ELSE times' = << >>
    /\ told' = [j \in Present |-> [total |-> NoPoints, counter |-> 0, onHill |-> 0,
                                   laps |-> [i \in Present |-> << >>]]]
    /\ UNCHANGED outbox

ScoringNext ==
    \/ \E i \in PlayerIds : Synchronise(i)
    \/ \E i \in Present : \/ Leaves(i) \/ GoesToWatch(i)
                          \/ \E team \in Teams : AsksToJoin(i, team)
                          \/ \E o \in {0} \cup PlayerIds : DiesBy(i, o)
                          \/ \E t \in LapTimes : FinishesLap(i, t)
    \/ \E zone \in SUBSET {i \in Present : roster[i].mode = "alive"} : HillPass(zone)
    \/ SendAll \/ NextMatch

ScoringSpec == ScoringInit /\ [][ScoringNext]_scoring

-----------------------------------------------------------------------------
(* The state of the score.  *)

ScoringTypeOK ==
    /\ type \in Tournaments /\ Present \subseteq PlayerIds
    /\ \A i \in Present : roster[i] \in Member
    /\ total \in [Teams -> Nat]
    /\ hill \in {0} \cup PlayerIds /\ counter \in 0 .. HillCounterMax
    /\ times \in Seq(Times) /\ outbox \in Seq(Message)
    /\ DOMAIN told \subseteq Present

(* The goat of the hill is a living player of the match: the pointer never *)
(* outlives him, whether he dies, watches, leaves or the match ends.       *)
HillHolderPlays == hill # 0 => hill \in Present /\ roster[hill].mode = "alive"

(* Whenever the responses have been sent, every client that missed nothing *)
(* has the server's team score, shows nobody else as the goat and has the  *)
(* lap times of every player.                                              *)
CopiesAgree ==
    outbox = << >> => \A j \in DOMAIN told :
        /\ told[j].total = total
        /\ told[j].onHill \in {0, hill}
        /\ type = "SR" => /\ DOMAIN told[j].laps = Present
                          /\ \A k \in DOMAIN times :
                                told[j].laps[times[k].id] = times[k].laps

(* The score board follows everybody who is there, once.  *)
ListedOnce ==
    type = "SR" => /\ Len(times) = Cardinality(Present)
                   /\ {times[k].id : k \in DOMAIN times} = Present

(* The board agrees with the server's, and lists everybody.                *)
BoardAgrees == CopiesAgree /\ ListedOnce

(* A team gets a point only when an opponent dies of it (team deathmatch), *)
(* or when a living player of the team held the hill (Goat of the hill).   *)
PointsForOpponents ==
    \A t \in Teams : total'[t] > total[t] =>
        \/ type = "TDM" /\ \E i \in Present :
              /\ roster[i].mode = "alive" /\ roster[i].team # t
              /\ i \in DOMAIN roster' /\ roster'[i].mode = "dead"
        \/ type = "GOH" /\ hill # 0 /\ roster[hill].team = t
           /\ roster[hill].mode = "alive" /\ roster'[hill].mode = "dead"

(* A lap is announced as a record exactly when nobody in the list has one  *)
(* that is as good.                                                        *)
RecordIsBest ==
    Len(outbox') > Len(outbox) /\ outbox'[Len(outbox')].cmd \in {"lap", "record"} =>
        LET m == outbox'[Len(outbox')]
        IN  (m.cmd = "record") <=>
               \A k \in DOMAIN times : \A t \in Range(times[k].laps) : m.value < t

(* Points and records are those of the ones who have earned them.          *)
ScoresEarned == [][PointsForOpponents /\ RecordIsBest]_scoring

(* What is sent to all is sent to every client, in an order that makes     *)
(* sense to him: nobody's copy is left incomplete.                         *)
NobodyLeftOut == DOMAIN told = Present
=============================================================================
